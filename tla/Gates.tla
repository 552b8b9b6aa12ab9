-------------------------------- MODULE Gates --------------------------------
(***************************************************************************)
(* What the gates of the ladder look at and what they write: the rules of  *)
(* Validator at Gates 0 and 2, the generators (roles, appointment,         *)
(* workflow, approval projection, curriculum, forge manifest, runtime      *)
(* config) at Gate 3, capacity at 4.5, the grants of 5, the knowledge      *)
(* bases of 6, the examinations of 8, the certifications of 9, the         *)
(* signature of 10 and the activation of 11.  Everything they read changes *)
(* under a run, between two passes and between two gates of one.           *)
(*                                                                         *)
(* One venture, whose runs have one pass at a time: passes that race are   *)
(* Provisioning's.  Gate 1 always passes and is folded into Gate 0.        *)
(* Grants are the ladder's own, and every agent is of the one department.  *)
(* A certification that reads certified carries a PASS and a model digest. *)
(***************************************************************************)
EXTENDS Validator

CONSTANTS
    Agents,
    Rank,       \* roster order
    Title,      \* order of the positions' titles
    Agendas     \* bound: the Packs there are, what may change and how often

VARIABLES
    agenda, spare,  \* the bound, and what is left of it
    run,            \* provisioning_run: its status, gate and Pack, or None
    reviewed,       \* a Gate 4 review is on record
    pass,           \* advance(): "idle", "begun", "ready" once it has artifacts
    artifacts,      \* _Context.artifacts, or None
    signed,         \* the artifacts a Gate 10 signature is bound to, or None
    grants,         \* agent_forge_grant
    unitA, unitB,   \* certification
    revoked,        \* agent and module pairs a live revocation covers
    roster,         \* agents whose identity is active
    content,        \* the answer keys of the modules, as their files load
    \* history, read by properties only
    vetted,         \* what Gate 2 saw when it passed, or None
    checked,        \* Gate 4.5 passed these artifacts
    issued,         \* what Gate 5 last applied, or None
    exams           \* what Gate 8 last opened

runVars == <<agenda, run, reviewed>>
passVars == <<pass, artifacts, checked>>
standing == <<unitA, unitB, revoked, roster, content>>
history == <<vetted, issued, exams>>
vars == <<worldVars, spare, runVars, passVars, signed, grants, standing, history>>

Gate == {"0", "2", "3", "3.5", "4", "4.5", "5", "6", "7", "8", "9", "9.5", "10", "11", "12"}

\* None approved (a draft is as none), one for every module, or a file that does
\* not load: an approval is over the text the file then holds.
Contents == {"none", "approved", "broken"}

Grant == [tier : Tiers \cup {None}, operation : BOOLEAN, department : BOOLEAN, active : BOOLEAN,
          shape : Shapes, lifted : BOOLEAN]     \* history

RoleDefinition == [Positions -> SUBSET Flags]
Appointment == [Positions -> SUBSET Agents]
\* The tier each of an appointed agent's modules has been earned at.
AppointedAgent == [Modules -> Tiers \cup {None}]

Artifacts ==
    [seat : Appointment, earned : [Agents -> AppointedAgent], held : [Agents -> SUBSET Modules],
     flags : RoleDefinition, manual : [Modules -> Texts \cup {None}], keys : Contents]

Vetted ==
    [shape : [Modules -> Shapes], excused : SUBSET Modules, named : SUBSET Modules,
     text : [Modules -> Texts \cup {None}]]

Run == [status : {"open", "complete", "aborted"}, gate : Gate, pack : Packs]

Standing == [Agents -> [Modules -> Tiers \cup {"failed", None}]]

Agenda ==
    [packs : SUBSET Packs, may : SUBSET STRING, moves : Nat, attended : SUBSET Gate,
     forge : SUBSET {"manifest", "probe", "silent"}, registry : SUBSET [Modules -> Shapes],
     text : SUBSET [Modules -> Texts \cup {None}], unitA : SUBSET Standing,
     unitB : SUBSET {"none", "failed", "certified"}]

ASSUME GatesConstants ==
    /\ Rank \in [Agents -> Nat] /\ Title \in [Positions -> Nat]
    /\ \A a, b \in Agents : Rank[a] = Rank[b] => a = b
    /\ \A p, q \in Positions : Title[p] = Title[q] => p = q
    /\ \A S \in SUBSET Positions \ {{}} : \E p \in S : \A q \in S : Title[q] <= Title[p]
    /\ Agendas \subseteq Agenda
    /\ None \notin Run /\ None \notin Artifacts /\ None \notin Vetted /\ None \notin Grant

Open == run # None /\ run.status = "open"

\* Beyond Gate 2, it has passed.
Beyond == run # None /\ run.gate \notin {"0", "2"}

TypeOK ==
    /\ WorldTypeOK
    /\ agenda \in Agendas /\ spare \in Nat
    /\ run \in Run \cup {None}
    /\ reviewed \in BOOLEAN
    /\ pass \in {"idle", "begun", "ready"}
    /\ pass # "idle" => Open
    /\ artifacts # None <=> pass = "ready"
    /\ {artifacts, signed} \subseteq Artifacts \cup {None}
    /\ grants \in [Agents -> [Modules -> Grant \cup {None}]]
    /\ unitA \in Standing
    /\ unitB \in {"none", "failed", "certified"}
    /\ revoked \subseteq Agents \X Modules
    /\ roster \subseteq Agents
    /\ content \in Contents /\ checked \in BOOLEAN
    /\ vetted \in Vetted \cup {None}
    /\ Beyond => vetted # None

Init ==
    /\ agenda \in Agendas /\ spare = agenda.moves
    /\ forge \in agenda.forge /\ red = FALSE /\ dispatched = Modules /\ cache = None
    /\ registry \in agenda.registry
    /\ excluded = {}
    /\ text \in agenda.text
    /\ library = [f \in Flags |-> "relied"] /\ simulating = FALSE
    /\ discharge = [f \in Flags |-> "current"] /\ village = TRUE
    /\ run = None /\ reviewed = FALSE
    /\ pass = "idle" /\ artifacts = None /\ signed = None
    /\ grants = [a \in Agents |-> [m \in Modules |-> None]]
    /\ unitA \in agenda.unitA
    /\ unitB \in agenda.unitB
    /\ revoked = {} /\ roster = Agents /\ content = "none"
    /\ vetted = None /\ checked = FALSE /\ issued = None /\ exams = {}

-----------------------------------------------------------------------------
(* The generators.                                                         *)

TierRank == [suggest |-> 1, propose |-> 2, auto_execute |-> 3]
Lower(t, u) == IF TierRank[t] <= TierRank[u] THEN t ELSE u

Seat(p) == run.pack.position[p]

\* 5.1: declared, and implied by the modules that are registered.
EffectiveFlags(p) ==
    Seat(p).flags \cup UNION {Implied[m] : m \in Seat(p).modules \cap Registered}

\* Live grants held, whatever became of the agent's revocation.
Held(a) == {m \in Modules : grants[a][m] # None}

Certified(a, p) ==
    /\ \A m \in Seat(p).modules : unitA[a][m] \in Tiers
    /\ Seat(p).modules # {} => unitB = "certified"

\* covered_targets, of an agent that need hold no grant yet.
Uncovered(a, p) == \A m \in Seat(p).modules : <<a, m>> \notin revoked

\* Who may sit the position's examinations, certified or not.
Eligible(p) ==
    {a \in roster : /\ Seat(p).modules \subseteq Registered
                    /\ Seat(p).department = "real"
                    /\ Uncovered(a, p)}

\* Incumbents first, then the certified, then roster order.
Before(a, b, p) ==
    LET held(c) == Cardinality(Held(c) \cap Seat(p).modules)
    IN  \/ held(a) > held(b)
        \/ held(a) = held(b) /\ Certified(a, p) /\ ~ Certified(b, p)
        \/ held(a) = held(b) /\ Certified(a, p) = Certified(b, p) /\ Rank[a] < Rank[b]

\* 5.2
Appointed(p) ==
    IF Seat(p).pending THEN {}
    ELSE {a \in Eligible(p) :
            Cardinality({b \in Eligible(p) : Before(b, a, p)}) < Seat(p).headcount}

\* Every position owns a stage, so a module without one stops the workflow.
Staged == \A p \in Positions : Seat(p).staged = Seat(p).modules

Loads == content # "broken"

Generates == Staged /\ Loads

Earned(a, m) == IF unitA[a][m] \in Tiers THEN unitA[a][m] ELSE None

Generated ==
    [seat |-> [p \in Positions |-> Appointed(p)],
     earned |-> [a \in Agents |-> [m \in Modules |-> Earned(a, m)]],
     held |-> [a \in Agents |-> Held(a)],
     flags |-> [p \in Positions |-> EffectiveFlags(p)],
     manual |-> text, keys |-> content]

\* Mutant of Effective: what the Pack declares, certified or not.
Effective_Declared(p, a, m) == Declared(Seat(p), m)

\* _effective_tier: a module not certified yet is projected as declared.
Effective(p, a, m) ==
    LET earned == artifacts.earned[a][m]
    IN  IF earned = None THEN Declared(Seat(p), m) ELSE Lower(Declared(Seat(p), m), earned)

\* 5.4: a step asks its reviewer unless all who hold it act on their own.
AsksNobody(p, m) ==
    LET tiers == IF artifacts.seat[p] = {} THEN {Declared(Seat(p), m)}
                 ELSE {Effective(p, a, m) : a \in artifacts.seat[p]}
    IN  tiers = {"auto_execute"}

Projection ==
    UNION {{Approval(run.pack, p, artifacts.flags[p], m) :
              m \in {m \in Seat(p).steps : ~ AsksNobody(p, m)}} :
           p \in {p \in Positions : ~ Seat(p).pending}}

\* 5.6
RequiredNotDeclared == UNION {Seat(p).steps : p \in Positions} \ run.pack.declared
HardOnGap == run.pack.hard /\ run.pack.gap /\ run.pack.declared # {}

\* 5.7: an uncertified grant carries no tier.
Planned(p, a, m) ==
    IF artifacts.earned[a][m] = None THEN None
    ELSE Lower(Declared(Seat(p), m), artifacts.earned[a][m])

SeatsOver(a, m) == {p \in Positions : a \in artifacts.seat[p] /\ m \in Seat(p).modules}

\* Positions come by title and a grant is one row for an agent and a module.
Last(S) == CHOOSE p \in S : \A q \in S : Title[q] <= Title[p]

-----------------------------------------------------------------------------
(* Runs and the humans around them.                                        *)

StartRun(pack) ==
    /\ ~ Open
    /\ run # None => spare > 0
    /\ spare' = IF run = None THEN spare ELSE spare - 1
    /\ run' = [status |-> "open", gate |-> "0", pack |-> pack]
    /\ reviewed' = FALSE
    /\ vetted' = None
    /\ exams' = {}
    /\ UNCHANGED <<worldVars, agenda, passVars, signed, grants, standing, issued>>

Idle == pass' = "idle" /\ artifacts' = None /\ checked' = FALSE

Abandon ==
    /\ Open
    /\ run' = [run EXCEPT !.status = "aborted"]
    /\ Idle
    /\ UNCHANGED <<worldVars, spare, agenda, reviewed, signed, grants, standing, history>>

\* Humans come between passes; bound: at the agenda's gates.
Attended == Open /\ pass = "idle" /\ run.gate \in agenda.attended

Review ==
    /\ Attended
    /\ reviewed' = TRUE
    /\ UNCHANGED <<worldVars, spare, agenda, run, passVars, signed, grants, standing, history>>

\* sign_off_run generates what it signs.
SignOffRun ==
    /\ Attended
    /\ Generates
    /\ signed' = Generated
    /\ UNCHANGED <<worldVars, spare, runVars, passVars, grants, standing, history>>

Advance ==
    /\ Open
    /\ pass = "idle"
    /\ pass' = "begun"
    /\ UNCHANGED <<worldVars, spare, runVars, artifacts, checked, signed, grants, standing, history>>

\* The process dies between two gates.
Die ==
    /\ pass # "idle"
    /\ Idle
    /\ UNCHANGED <<worldVars, spare, runVars, signed, grants, standing, history>>

-----------------------------------------------------------------------------
(* The gates.                                                              *)

At(g) == pass # "idle" /\ run.gate = g

\* On to the next gate, or this pass is over and the next begins at this gate.
Passes(next) ==
    run' = [run EXCEPT !.gate = next] /\ UNCHANGED <<agenda, reviewed, pass, artifacts>>
Stops == Idle /\ UNCHANGED runVars

Goes(next, through) == IF through THEN Passes(next) /\ UNCHANGED checked ELSE Stops

\* Nothing but the run and the pass.
Untouched == UNCHANGED <<spare, signed, grants, standing, history>>

Gate0 ==
    /\ At("0")
    /\ Goes("2", V2(run.pack, AfterV2(run.pack)) = "PASS")
    /\ cache' = AfterV32(run.pack)
    /\ UNCHANGED <<forgeVars, ruleVars>> /\ Untouched

Named(answer) == IF answer = None THEN {} ELSE answer.modules

Gate2 ==
    /\ At("2")
    /\ Goes("3", Passed(run.pack))
    /\ vetted' = IF Passed(run.pack)
                 THEN [shape |-> registry, excused |-> excluded, text |-> text,
                       named |-> Named(AfterV32(run.pack))]
                 ELSE vetted
    /\ cache' = AfterV32(run.pack)
    /\ UNCHANGED <<forgeVars, ruleVars, spare, signed, grants, standing, issued, exams>>

\* Gate 3, and what a pass that resumed behind it does first.
Generate ==
    /\ pass = "begun"
    /\ run.gate \in {"3", "3.5", "4", "4.5", "5", "6", "8", "10", "11"}
    /\ IF Generates
       THEN /\ artifacts' = Generated
            /\ pass' = "ready"
            /\ run' = IF run.gate = "3" THEN [run EXCEPT !.gate = "3.5"] ELSE run
            /\ UNCHANGED <<agenda, reviewed, checked>>
       ELSE Stops
    /\ UNCHANGED worldVars /\ Untouched

Ready(g) == At(g) /\ pass = "ready" /\ UNCHANGED worldVars

Gate3_5 ==
    /\ Ready("3.5")
    /\ Goes("4", RequiredNotDeclared = {} /\ ~ HardOnGap)
    /\ Untouched

Gate4 ==
    /\ Ready("4")
    /\ Goes("4.5", reviewed)
    /\ Untouched

\* V24 and V13, over what was appointed and projected.
Filled ==
    \A p \in Positions : Seat(p).pending \/ Cardinality(artifacts.seat[p]) = Seat(p).headcount
Feasible == HoursAreSplit(run.pack) /\ ~ Overrun(run.pack, Projection)

Gate4_5 ==
    /\ Ready("4.5")
    /\ IF Filled /\ Feasible THEN Passes("5") /\ checked' = TRUE ELSE Stops
    /\ Untouched

\* apply(): excluded modules are refused; a row that is there keeps its
\* activation, and the references are resolved anew.
Upserted(a, m) ==
    LET p == Last(SeatsOver(a, m))
        tier == Planned(p, a, m)
    IN  IF SeatsOver(a, m) = {} \/ m \in excluded THEN grants[a][m]
        ELSE [tier |-> tier, operation |-> unitA[a][m] # None, department |-> unitB # "none",
              active |-> grants[a][m] # None /\ grants[a][m].active,
              shape |-> vetted.shape[m],
              lifted |-> Seat(p).override[m] # None /\ Seat(p).override[m] # Seat(p).ceiling]

\* The reasons to refuse a config are Gate 3.5's, over the same Pack.
Gate5 ==
    /\ Ready("5")
    /\ Passes("6")
    /\ UNCHANGED checked
    /\ grants' = [a \in Agents |-> [m \in Modules |-> Upserted(a, m)]]
    /\ issued' = [pack |-> run.pack, artifacts |-> artifacts, checked |-> checked, excluded |-> excluded]
    /\ UNCHANGED <<spare, signed, standing, vetted, exams>>

\* A draft explains a flag while the venture is in simulation.
Explained == {f \in Flags : library[f] = "relied" \/ (library[f] = "draft" /\ simulating)}

\* Of what a human authored none may be older than its source, which a Forge's
\* deriver compares, may be unable to derive, or does not exist to compare.
Behind ==
    LET byHand == {m \in Operated(run.pack) : text[m] \in ByHand}
    IN  {{}, {m \in byHand : text[m] \in Stale}, byHand}

\* Every operated module has an instruction, an excluded one too.
Gate6 ==
    /\ Ready("6")
    /\ LET explained == (run.pack.flags \cup UNION {artifacts.flags[p] : p \in Positions}) \subseteq Explained
           instructed == \A m \in Operated(run.pack) : text[m] # None
       IN  \E behind \in Behind : Goes("7", instructed /\ explained /\ behind = {})
    /\ Untouched

Live == {g \in Agents \X Modules : grants[g[1]][g[2]] # None /\ g \notin revoked}

The(g) == grants[g[1]][g[2]]

Gate7 ==
    /\ At("7")
    /\ Goes("8", \A g \in Live : ~ The(g).active)
    /\ UNCHANGED worldVars /\ Untouched

Takers(m) == {a \in Agents : <<a, m>> \in Live}

\* A module has scenarios if the key or the instruction the run was generated
\* from gives it some, and is skipped if no Forge registers it or it has no
\* instruction now.
HasScenarios(m) == artifacts.keys = "approved" \/ artifacts.manual[m] # None
Attempted == {m \in Operated(run.pack) : HasScenarios(m) /\ m \in Registered /\ text[m] # None}

\* Unreachable: or its answer could not be read.
Replies == {"accepted", "refused", "unreachable"}

\* The exams that stand open for a module once SimForge has replied, in roster
\* order up to the taker it could not be reached for.
Opened(m, reply, before) ==
    [agent : CASE reply = "accepted" -> Takers(m)
               [] reply = "refused" -> {}
               [] reply = "unreachable" -> {a \in Takers(m) : Rank[a] < before},
     module : {m}, text : {text[m]}]

\* What the process runs, against what its checkout holds.
Builds == {"current", "moved", "unknown"}
MaySubmit(build) == build = "current"

\* Refusals of everything stop the gate, silence does not.
AllRefused(reply) == Attempted # {} /\ \A m \in Attempted : reply[m] = "refused"

Gate8 ==
    /\ Ready("8")
    /\ \E build \in Builds :
         \/ ~ MaySubmit(build) /\ Stops /\ exams' = {}
         \/ /\ MaySubmit(build)
            /\ \E reply \in [Attempted -> Replies], before \in 0 .. Cardinality(Agents) :
                  /\ Goes("9", ~ AllRefused(reply))
                  /\ exams' = UNION {Opened(m, reply[m], before) : m \in Attempted}
    /\ UNCHANGED <<spare, signed, grants, standing, vetted, issued>>

Earns(g) ==
    /\ The(g).operation /\ unitA[g[1]][g[2]] \in Tiers
    /\ The(g).department /\ unitB = "certified"

AllEarned == Live # {} /\ \A g \in Live : Earns(g)

Gate9 ==
    /\ At("9")
    /\ Goes("9.5", AllEarned)
    /\ UNCHANGED worldVars /\ Untouched

\* The held-out partition is SimForge's: there may be none, or no answer to read.
HeldOut == {"PASS", "FAIL", "NOT_RUN", "absent", "unreadable"}

Gate9_5 ==
    /\ At("9.5")
    /\ \E verdict \in HeldOut : Goes("10", verdict = "PASS")
    /\ UNCHANGED worldVars /\ Untouched

Gate10 ==
    /\ Ready("10")
    /\ Goes("11", signed = artifacts)
    /\ Untouched

Activated(a, m) ==
    IF <<a, m>> \in Live /\ a \in roster /\ Earns(<<a, m>>) /\ grants[a][m].tier # None
    THEN [grants[a][m] EXCEPT !.active = TRUE] ELSE grants[a][m]

Gate11 ==
    /\ Ready("11")
    /\ Goes("12", signed = artifacts)
    /\ grants' = IF signed = artifacts
                 THEN [a \in Agents |-> [m \in Modules |-> Activated(a, m)]] ELSE grants
    /\ UNCHANGED <<spare, signed, standing, history>>

Gate12 ==
    /\ At("12")
    /\ run' = [run EXCEPT !.status = "complete"]
    /\ Idle
    /\ UNCHANGED <<worldVars, agenda, reviewed>> /\ Untouched

-----------------------------------------------------------------------------
(* What changes under a run.                                               *)

\* record_result for an operation: an exam this run or another opened.
Certify(a, m, state) ==
    /\ unitA[a][m] # state
    /\ unitA' = [unitA EXCEPT ![a][m] = state]
    /\ UNCHANGED <<worldVars, unitB, revoked, roster, content, grants>>

\* ... and for the department, which repoints its grants.
CertifyDepartment(state) ==
    /\ unitB # state
    /\ unitB' = state
    /\ grants' = [a \in Agents |-> [m \in Modules |->
                    IF grants[a][m] = None THEN None ELSE [grants[a][m] EXCEPT !.department = TRUE]]]
    /\ UNCHANGED <<worldVars, unitA, revoked, roster, content>>

Revoke(a, m) ==
    /\ revoked' = IF <<a, m>> \in revoked THEN revoked \ {<<a, m>>} ELSE revoked \cup {<<a, m>>}
    /\ UNCHANGED <<worldVars, unitA, unitB, roster, content, grants>>

\* The roster sync: an agent leaves the Village, or is back.
Sync(a) ==
    /\ roster' = IF a \in roster THEN roster \ {a} ELSE roster \cup {a}
    /\ UNCHANGED <<worldVars, unitA, unitB, revoked, content, grants>>

\* A content file is edited, or approved.
Refile ==
    /\ content' \in Contents \ {content}
    /\ UNCHANGED <<worldVars, unitA, unitB, revoked, roster, grants>>

RegistryTurns ==
    \/ \E m \in Modules : Register(m)
    \/ \E said \in [Modules -> {"safe", "unsafe"}] \cup {None} : Verify(said)
    \/ \E pack \in agenda.packs, said \in [Modules -> {"safe", "unsafe"}] : Derive(pack, said)

LibraryTurns ==
    \/ \E f \in Flags, status \in {"draft", "relied"} : Load(f, status)
    \/ \E f \in Flags, kind \in {"narrow", "policy", "current"} : FileDischarge(f, kind)
    \/ \E f \in Flags : DischargeEnds(f)
    \/ Simulate

World ==
    \/ "forge" \in agenda.may /\ (ForgeTurns \/ Expire) /\ UNCHANGED <<standing, grants>>
    \/ "registry" \in agenda.may /\ RegistryTurns /\ UNCHANGED <<standing, grants>>
    \/ "exclude" \in agenda.may /\ (\E m \in Modules : Exclude(m) \/ Readmit(m)) /\ UNCHANGED <<standing, grants>>
    \/ "text" \in agenda.may /\ (\E m \in Modules, t \in Texts : Instruct(m, t)) /\ UNCHANGED <<standing, grants>>
    \/ "library" \in agenda.may /\ (LibraryTurns \/ VillageTurns) /\ UNCHANGED <<standing, grants>>
    \/ "certs" \in agenda.may /\ \E a \in Agents, m \in Modules, s \in Tiers \cup {"failed"} : Certify(a, m, s)
    \/ "certs" \in agenda.may /\ \E s \in {"failed", "certified"} : CertifyDepartment(s)
    \/ "agents" \in agenda.may /\ \E a \in Agents : Sync(a) \/ \E m \in Modules : Revoke(a, m)
    \/ "content" \in agenda.may /\ Refile

Turn ==
    /\ spare > 0
    /\ spare' = spare - 1
    /\ World
    /\ UNCHANGED <<runVars, passVars, signed, history>>

Next ==
    \/ \E pack \in agenda.packs : StartRun(pack)
    \/ Abandon \/ Review \/ SignOffRun \/ Advance \/ Die \/ Turn
    \/ Gate0 \/ Gate2 \/ Generate \/ Gate3_5 \/ Gate4 \/ Gate4_5 \/ Gate5 \/ Gate6 \/ Gate7
    \/ Gate8 \/ Gate9 \/ Gate9_5 \/ Gate10 \/ Gate11 \/ Gate12

Spec == Init /\ [][Next]_vars

-----------------------------------------------------------------------------

\* A grant that lets an agent act unattended was written by a run whose Gate 2
\* row, certification or Pack came since.  V31 looks at ceilings only: an
\* override that lifts one module above its seat's ceiling is not covered.
UnattendedWasVetted ==
    \A a \in Agents, m \in Modules :
        grants[a][m] # None =>
            (grants[a][m].tier = "auto_execute" => grants[a][m].shape = "safe" \/ grants[a][m].lifted)

\* The approvals the grants Gate 5 issued ask their reviewers for, where an
\* agent has one seat over the module and the issue reached it: the grant of a
\* module that was excluded stays as an earlier run left it.
Asked ==
    LET seat(p) == issued.pack.position[p]
        alone(a, p, m) == \A q \in Positions \ {p} : ~ (a \in issued.artifacts.seat[q] /\ m \in seat(q).modules)
        asks(p, m) == \E a \in issued.artifacts.seat[p] :
                          /\ alone(a, p, m) /\ grants[a][m] # None
                          /\ grants[a][m].tier \in {"suggest", "propose"}
    IN  UNION {{Approval(issued.pack, p, issued.artifacts.flags[p], m) :
                  m \in {m \in seat(p).steps \ issued.excluded : asks(p, m)}} :
               p \in {p \in Positions : ~ seat(p).pending}}

\* What the grants ask of the reviewers is what they have hours for: the tiers
\* Gate 5 issues are those Gate 4.5 projected.  Not so for a pass that resumed
\* at Gate 5, nor for a module that no step of the workflow uses.
IssuedWasFeasible == issued # None /\ issued.checked => ~ Overrun(issued.pack, Asked)

\* No exam is opened over a module the Forge did not dispatch when Gate 2 read
\* its answer, nor on an instruction that teaches nothing, unless the module
\* was excluded then or its instruction was authored anew since.
ExamsTeach ==
    \A e \in exams : vetted # None =>
        \/ e.module \in vetted.excused
        \/ e.module \in vetted.named /\ (e.text \in Teaching \/ e.text # vetted.text[e.module])
=============================================================================
