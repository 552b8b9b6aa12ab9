------------------------------ MODULE Validator ------------------------------
(***************************************************************************)
(* The rules a Pack is held to before it provisions                        *)
(* (generators/validator.py) and the world they read: what the Forge       *)
(* dispatches and the five-minute memory of its answer                     *)
(* (broker/forge_modules.py), the module registry and its exclusions, the  *)
(* operating instructions, the compliance library and whether the venture  *)
(* is in simulation, the discharges of human-held obligations, and the     *)
(* Village.                                                                *)
(*                                                                         *)
(* One venture, one Forge.  V24, V38 and V39 are not Gate 2's or compare   *)
(* ventures; V30 passes or warns alike.                                    *)
(***************************************************************************)
EXTENDS Naturals, FiniteSets, FiniteSetsExt

CONSTANTS
    Modules,    \* the modules of the Forge
    Positions,
    Flags,      \* runtime flags; a flag is also its library entry's ref
    Implied,    \* compliance_flags_implied, by module
    Texts,      \* operating instructions, by content_hash
    Teaching,   \* those that assess() finds to teach something
    ByHand,     \* those a human authored
    Stale,      \* and of these, those whose sources were rewritten since
    Roles,      \* of reviewers
    Packs,
    None

Tiers == {"suggest", "propose", "auto_execute"}

ASSUME ValidatorConstants ==
    /\ Teaching \subseteq Texts /\ Stale \subseteq ByHand /\ ByHand \subseteq Texts
    /\ Implied \in [Modules -> SUBSET Flags]
    /\ {"compliance_officer", "venture_operator"} \subseteq Roles
    /\ None \notin Modules \cup Texts \cup Roles \cup Tiers \cup Nat
    /\ IsFiniteSet(Modules) /\ IsFiniteSet(Positions)

Position ==
    [modules : SUBSET Modules, ceiling : Tiers, override : [Modules -> Tiers \cup {None}],
     staged : SUBSET Modules,       \* module_stages
     steps : SUBSET Modules,        \* staged in a stage of some service line
     volume : [Modules -> Nat \cup {None}],     \* a day
     reviewer : [Modules -> Roles \cup {None}],     \* module_reviewer_roles
     flags : SUBSET Flags, headcount : Nat \ {0}, pending : BOOLEAN,
     department : {"real", "unknown"}]

Human == [role : Roles, hours : Nat \cup {None}, minutes : Nat \ {0}]   \* review_hours, median

\* broken: the rules over the document alone that the Pack does not meet.
Pack ==
    [position : [Positions -> Position], humans : SUBSET Human, declared : SUBSET Modules,
     hard : BOOLEAN, gap : BOOLEAN, flags : SUBSET Flags, cites : SUBSET Flags,
     libraryGap : SUBSET Flags, held : SUBSET Flags, deferred : SUBSET Flags,
     exercised : SUBSET Flags, broken : SUBSET STRING]

\* What the schema itself refuses.
Parses(pack) ==
    \A p \in Positions : LET q == pack.position[p] IN
        /\ {m \in Modules : q.override[m] # None} \subseteq q.modules \cap pack.declared
        /\ q.steps \subseteq q.staged /\ q.staged \subseteq q.modules
        /\ {m \in Modules : q.volume[m] # None} \subseteq q.modules
        /\ {m \in Modules : q.reviewer[m] # None} \subseteq q.modules
        /\ q.flags # {} => \A m \in Modules : q.reviewer[m] \in {None, "compliance_officer"}

ASSUME PacksParse ==
    \A pack \in Packs :
        pack \in Pack /\ Parses(pack) /\ pack.humans # {} /\ IsFiniteSet(pack.humans)

VARIABLES
    forge,          \* how it can be asked: by manifest, by probe, not at all
    red,            \* forge_registry.health_status
    dispatched,     \* modules it has a handler for
    cache,          \* the remembered answer, or None
    registry,       \* forge_module_registry: the shape of a module's row
    excluded,       \* forge_module_exclusion
    text,           \* the live instruction of a module
    library,        \* compliance_library_entry
    simulating,     \* a live declaration of simulation
    discharge,      \* obligation_discharge
    village         \* whether it answers

forgeVars == <<forge, red, dispatched>>
ruleVars == <<registry, excluded, text, library, simulating, discharge, village>>
worldVars == <<forgeVars, cache, ruleVars>>

Shapes == {"none", "hand", "safe", "unsafe"}

Answer == [modules : SUBSET Modules, asked : SUBSET Modules]

WorldTypeOK ==
    /\ forge \in {"manifest", "probe", "silent"} /\ red \in BOOLEAN
    /\ dispatched \subseteq Modules
    /\ cache \in Answer \cup {None}
    /\ registry \in [Modules -> Shapes]
    /\ excluded \subseteq Modules
    /\ text \in [Modules -> Texts \cup {None}]
    /\ library \in [Flags -> {"none", "elsewhere", "draft", "relied"}]
    /\ simulating \in BOOLEAN
    /\ discharge \in [Flags -> {"none", "expired", "narrow", "policy", "current"}]
    /\ village \in BOOLEAN

-----------------------------------------------------------------------------
(* Asking the Forge (forge_modules.read).                                  *)

\* A manifest names every module; a probe only those it is asked about, and
\* with no candidates there is nothing to probe.
Fresh(candidates) ==
    CASE forge = "manifest" -> [modules |-> dispatched, asked |-> Modules]
      [] forge = "probe" /\ candidates # {} ->
            [modules |-> dispatched \cap candidates, asked |-> candidates]
      [] OTHER -> None

\* An answer is remembered by Forge, whatever it was asked about; Unread, which
\* is None, is not.
Read(memory, candidates) == IF memory # None THEN memory ELSE Fresh(candidates)

-----------------------------------------------------------------------------
(* What the rules read of a Pack.                                          *)

Operated(pack) == UNION {pack.position[p].modules : p \in Positions}

\* Flags no agent holds and whose trigger has fired: HumanHeld without a
\* PendingActivation.
Due(pack) == pack.held \ pack.deferred

Registered == {m \in Modules : registry[m] # "none"}

Declared(q, m) == IF q.override[m] # None THEN q.override[m] ELSE q.ceiling

\* _reviewer_for, when a sole human of another role is not all there is.
Reviewer(pack, q, flags, m) ==
    LET staffed == {h.role : h \in pack.humans} IN
    CASE q.reviewer[m] # None -> q.reviewer[m]
      [] q.reviewer[m] = None /\ flags # {} /\ "compliance_officer" \in staffed -> "compliance_officer"
      [] OTHER -> IF "venture_operator" \in staffed THEN "venture_operator"
                  ELSE CHOOSE r \in staffed : TRUE

\* _capacity_sentences over a set of approvals, each [role, volume]: a role's
\* minutes are its review hours at six tenths; an approval takes the median
\* weighted by them.
Overrun(pack, approvals) ==
    \E r \in Roles :
        LET humans == {h \in pack.humans : h.role = r}
            hours == MapThenSumSet(LAMBDA h : h.hours, humans)
            weighted == MapThenSumSet(LAMBDA h : h.hours * h.minutes, humans)
            demand == MapThenSumSet(LAMBDA d : d.volume, {d \in approvals : d.role = r})
        IN  IF hours = 0 THEN demand > 0 ELSE demand * weighted > 36 * hours * hours

HoursAreSplit(pack) == \A h \in pack.humans : h.hours # None

Approval(pack, p, flags, m) ==
    [position |-> p, module |-> m, role |-> Reviewer(pack, pack.position[p], flags, m),
     volume |-> pack.position[p].volume[m]]

\* demand_from_the_pack: every module that is not declared auto_execute.
PackDemand(pack) ==
    UNION {{Approval(pack, p, pack.position[p].flags, m) :
              m \in {m \in pack.position[p].modules :
                       Declared(pack.position[p], m) # "auto_execute"}} :
           p \in {p \in Positions : ~ pack.position[p].pending}}

VolumeDeclared(pack) ==
    \A p \in Positions : ~ pack.position[p].pending =>
        \A m \in pack.position[p].modules : pack.position[p].volume[m] # None

-----------------------------------------------------------------------------
(* The rules.                                                              *)

Fails(bad) == IF bad THEN "FAIL" ELSE "PASS"
Warns(bad) == IF bad THEN "WARN" ELSE "PASS"

\* Rules that only restate the document.
Stated == {"V1", "V3", "V5", "V7", "V9", "V12"}
Bounded == {"V14", "V15", "V16", "V17", "V18", "V19", "V20", "V21"}
Exercised == {"V23"}
Fallbacks == {"V26"}

V2(pack, answer) == Fails(pack.hard /\ (red \/ answer = None))

V4(pack) == Fails(~ (pack.flags \subseteq pack.cites \cup pack.libraryGap))

V6(pack) == Fails(~ (pack.declared \subseteq Registered))

V8(pack) == Fails(pack.hard /\ pack.gap)

V10(pack) == Fails(\E p \in Positions : pack.position[p].modules = {})

Teachable(pack) == Operated(pack) \ excluded

\* Whether V11 comes to ask the Forge.
Taught(pack) == \A m \in Teachable(pack) : text[m] \in Teaching

\* Mutant of Unasked: what could not be asked is let pass.
Unasked_Passes == "PASS"

\* The verdict of a rule that could not ask.
Unasked == "NOT_RUN"

V11(pack, answer) ==
    IF Teachable(pack) = {} THEN "PASS"
    ELSE IF ~ Taught(pack) THEN "FAIL"
    ELSE IF answer = None THEN Unasked
    ELSE Fails(~ (Teachable(pack) \subseteq answer.modules))

V13(pack) ==
    Fails(~ VolumeDeclared(pack) \/ ~ HoursAreSplit(pack) \/ Overrun(pack, PackDemand(pack)))

V22(pack) == Fails(~ (pack.flags \subseteq pack.exercised \cup pack.held))

V25(pack) == Warns(pack.declared \cap Operated(pack) = {})

V27(pack) == Warns(pack.gap)

\* Simulation defers a draft; it neither writes an entry nor lends another's.
V28(pack) ==
    Fails(\E f \in pack.cites \ pack.libraryGap :
            \/ library[f] \in {"none", "elsewhere"}
            \/ library[f] = "draft" /\ ~ simulating)

Departments(pack) == {pack.position[p].department : p \in Positions}

V29(pack) == IF ~ village THEN "NOT_RUN" ELSE Fails("unknown" \in Departments(pack))

V30(pack) == IF ~ village \/ Departments(pack) = {"unknown"} THEN "NOT_RUN" ELSE "PASS"

\* Mutant of Evidence: a row nobody verified against the Forge will do.
Evidence_Hand(m) == registry[m] \in {"hand", "safe", "unsafe"}

\* ModuleShape.is_evidence, and a row at all.
Evidence(m) == registry[m] \in {"safe", "unsafe"}

\* A refusal outranks what could not be resolved.
V31(pack) ==
    LET unattended == UNION {pack.position[p].modules :
                         p \in {p \in Positions : pack.position[p].ceiling = "auto_execute"}}
    IN  IF \E m \in unattended : registry[m] = "unsafe" THEN "FAIL"
        ELSE IF \E m \in unattended : ~ Evidence(m) THEN Unasked ELSE "PASS"

V32(pack, answer) ==
    IF pack.declared = {} THEN "PASS"
    ELSE IF answer = None THEN Unasked ELSE Fails(~ (pack.declared \subseteq answer.modules))

V33 == Fails(\E m, n \in Modules : m # n /\ text[m] = text[n] /\ text[m] # None)

\* A founder's policy discharges; that no lawyer has read it is a warning.
V34(pack) == Fails(\E f \in Due(pack) : discharge[f] \notin {"policy", "current"})

V41(pack) == Warns(\E f \in Due(pack) : discharge[f] = "policy")

V40(pack) ==
    Fails(\E p \in Positions, m \in Modules :
            pack.position[p].reviewer[m] \notin {h.role : h \in pack.humans} \cup {None})

\* validate: by number, so that V2 asks first and V11 and V32 ask what it left
\* unasked; each later answer is also what the next one remembers.
AfterV2(pack) == IF pack.hard /\ ~ red THEN Read(cache, {}) ELSE cache

AfterV11(pack) ==
    IF Teachable(pack) # {} /\ Taught(pack) THEN Read(AfterV2(pack), Teachable(pack))
    ELSE AfterV2(pack)

AfterV32(pack) ==
    IF pack.declared # {} THEN Read(AfterV11(pack), pack.declared) ELSE AfterV11(pack)

Report(pack) ==
    {V2(pack, AfterV2(pack)), V4(pack), V6(pack), V8(pack), V10(pack),
     V11(pack, AfterV11(pack)), V13(pack), V22(pack), V28(pack), V29(pack), V30(pack),
     V25(pack), V27(pack), V31(pack), V32(pack, AfterV32(pack)), V33, V34(pack), V40(pack),
     V41(pack)}
    \cup {Fails(r \in pack.broken) : r \in Stated \cup Bounded \cup Exercised}
    \cup {Warns(r \in pack.broken) : r \in Fallbacks}

\* A warning lets pass, a rule that could not be run does not.
Passed(pack) == Report(pack) \subseteq {"PASS", "WARN"}

-----------------------------------------------------------------------------
(* The world changes under the ladder.                                     *)

ForgeTurns ==
    /\ \/ forge' \in {"manifest", "probe", "silent"} \ {forge} /\ UNCHANGED <<red, dispatched>>
       \/ red' = ~ red /\ UNCHANGED <<forge, dispatched>>
       \/ \E m \in Modules :
            /\ dispatched' = IF m \in dispatched THEN dispatched \ {m} ELSE dispatched \cup {m}
            /\ UNCHANGED <<forge, red>>
    /\ UNCHANGED <<cache, ruleVars>>

\* The five minutes are over, or somebody calls forget.
Expire ==
    /\ cache # None
    /\ cache' = None
    /\ UNCHANGED <<forgeVars, ruleVars>>

\* A row is typed, or a typed claim is changed.
Register(m) ==
    /\ registry' \in {[registry EXCEPT ![m] = shape] : shape \in {"hand", "unsafe"} \ {registry[m]}}
    /\ UNCHANGED <<forgeVars, cache, excluded, text, library, simulating, discharge, village>>

\* Of a row the Forge answers for, a manifest that states shapes corrects the
\* shape; a probe, or a manifest of names, leaves it as it was typed.
Corrected(m, said) ==
    IF forge = "manifest" /\ said # None THEN said[m]
    ELSE IF registry[m] = "hand" THEN "safe" ELSE registry[m]

\* scripts/verify_forge_modules.py asks afresh, in a process of its own, and
\* adds no row and deletes none.
Verify(said) ==
    LET answer == Fresh(Registered) IN
    /\ answer # None
    /\ registry' = [m \in Modules |->
                      IF m \in Registered \cap answer.modules THEN Corrected(m, said) ELSE registry[m]]
    /\ UNCHANGED <<forgeVars, cache, excluded, text, library, simulating, discharge, village>>

\* forge_module_rows.generate: what the Pack declares and the adapter dispatches.
Rows(pack) == pack.declared \cap dispatched

\* scripts/register_funnelforge_modules.py: the adapter's own shapes.
Derive(pack, said) ==
    /\ Rows(pack) # {}
    /\ registry' = [m \in Modules |-> IF m \in Rows(pack) THEN said[m] ELSE registry[m]]
    /\ UNCHANGED <<forgeVars, cache, excluded, text, library, simulating, discharge, village>>

\* scripts/apply_module_exclusions.py, when a finding was declared.
Exclude(m) ==
    /\ excluded' = excluded \cup {m}
    /\ UNCHANGED <<forgeVars, cache, registry, text, library, simulating, discharge, village>>

\* Only a hand takes the row away.
Readmit(m) ==
    /\ excluded' = excluded \ {m}
    /\ UNCHANGED <<forgeVars, cache, registry, text, library, simulating, discharge, village>>

\* instructions.author supersedes; nothing takes an instruction away.
Instruct(m, t) ==
    /\ text[m] # t
    /\ text' = [text EXCEPT ![m] = t]
    /\ UNCHANGED <<forgeVars, cache, registry, excluded, library, simulating, discharge, village>>

\* scripts/load_compliance_library.py writes an entry at its file's status, and
\* a human approves one.
Load(f, status) ==
    /\ library[f] # status
    /\ library' = [library EXCEPT ![f] = status]
    /\ UNCHANGED <<forgeVars, cache, registry, excluded, text, simulating, discharge, village>>

\* simulation.declare and simulation.leave.
Simulate ==
    /\ simulating' = ~ simulating
    /\ UNCHANGED <<forgeVars, cache, registry, excluded, text, library, discharge, village>>

\* file_discharge, which replaces the one before: by policy, by counsel, or
\* for fewer jurisdictions than the obligation reaches.
FileDischarge(f, kind) ==
    /\ discharge[f] # kind
    /\ discharge' = [discharge EXCEPT ![f] = kind]
    /\ UNCHANGED <<forgeVars, cache, registry, excluded, text, library, simulating, village>>

\* expires_at.
DischargeEnds(f) ==
    /\ discharge[f] \notin {"none", "expired"}
    /\ discharge' = [discharge EXCEPT ![f] = "expired"]
    /\ UNCHANGED <<forgeVars, cache, registry, excluded, text, library, simulating, village>>

VillageTurns ==
    /\ village' = ~ village
    /\ UNCHANGED <<forgeVars, cache, registry, excluded, text, library, simulating, discharge>>
=============================================================================
