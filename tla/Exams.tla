-------------------------------- MODULE Exams --------------------------------
(***************************************************************************)
(* How a unit comes to be certified, and stops being: Gate 8 opens exams   *)
(* at SimForge and commits its submissions when the gate ends, the ingest  *)
(* sweep polls for verdicts and writes certification rows, the staleness   *)
(* sweep and the author of an instruction withdraw them, and a human may   *)
(* certify the department for simulation.  None of these holds a lock on   *)
(* what another writes, and each pass may die between any two statements.  *)
(*                                                                         *)
(* One venture, one Forge, one department that operates every module, one  *)
(* grant holder per module: a unit is a module (unit A of its holder) or   *)
(* the department (unit B).  A content hash is the ordinal of the          *)
(* instruction's version; a basis gives each module's, 0 where it is not a *)
(* member, so a module's own basis and the department's have one type.     *)
(* SimForge is external: an exam is named by its run_ref, that is by unit, *)
(* basis and answer key, and what it has stored it does not revise.  The   *)
(* sweep takes its list in any order.  Crashes leave the exam open.        *)
(***************************************************************************)
EXTENDS Integers, Sequences, FiniteSets

CONSTANTS
    Modules,           \* modules of the Forge that the venture was granted
    Dept,              \* the department
    Submissions,       \* curriculum_submission rows
    ExamRuns,          \* provisioning runs
    Unwritten,         \* modules with no instruction to begin with
    PatchSensitive,    \* modules whose instructions state version_sensitivity
                       \*   major.minor.patch
    StalePasses,       \* staleness passes: the daily sweep's and the authors'
    Examined,          \* units SimForge has batteries for
    Gradings,          \* what batteries find: verdicts, and what they name
    PostedModels,      \* what the answer to a posted attestation names
    Silences,          \* what SimForge says of an exam with no answer
    MaxVersion,        \* bound: versions of an instruction
    MaxApi,            \* bound: releases of the Forge
    MaxKey,            \* bound: approved versions of an answer key
    MaxDeclared,       \* bound: declarations of simulation
    MaxAttested,       \* bound: attestations of the department
    Agendas,           \* bound: how much of what one behaviour may hold
    Nobody             \* no submission

ASSUME ExamsConstants ==
    /\ Dept \notin Modules
    /\ Nobody \notin Submissions
    /\ Unwritten \subseteq Modules
    /\ Examined \subseteq Modules \cup {Dept}
    /\ PatchSensitive \subseteq Modules
    /\ Gradings \subseteq {"PASS", "PROVISIONAL", "FAIL", "REVOKED"}
                      \X {"none", "label", "full"}
    /\ PostedModels \subseteq {"none", "label"}
    /\ Silences \subseteq {"TIMEOUT", "IN_PROGRESS", "NOT_RUN"}
    /\ {MaxVersion, MaxApi, MaxKey, MaxDeclared, MaxAttested} \subseteq Nat
    /\ MaxVersion > 0
    /\ \A g \in Agendas : /\ g.gradings \subseteq Gradings
                          /\ g.versions \in 0 .. MaxVersion
                          /\ g.declared \in 0 .. MaxDeclared
                          /\ g.attested \in 0 .. MaxAttested

Units == Modules \cup {Dept}
VersionNumbers == 0 .. MaxVersion
Apis == 0 .. MaxApi
Keys == 0 .. MaxKey
Bases == [Modules -> VersionNumbers]
Exams == [unit : Units, basis : Bases, key : Keys]

NotAnAnswer == {"TIMEOUT", "IN_PROGRESS", "NOT_RUN"}
Terminal == {"PASS", "PROVISIONAL", "FAIL", "REVOKED"}

\* What an answer says of the model that gave it: nothing, a label, or the
\* label with the file digest and settings.  Only a battery can give the last.
Models == {"none", "label", "full"}
Answers == [exam : Exams, verdict : Terminal, model : Models]

\* VERDICT_TO_STATE.
StateForVerdict(v) ==
    CASE v = "PASS" -> "certified"
      [] v = "PROVISIONAL" -> "provisional"
      [] v = "FAIL" -> "failed"
      [] v = "REVOKED" -> "revoked"
      [] v = "NOT_RUN" -> "never_certified"
      [] OTHER -> "in_training"

States == {"certified", "provisional", "failed", "revoked", "never_certified",
           "in_training", "stale_instructions", "stale_forge"}
Origins == {"tested", "attested", "simulation"}

\* api is -1 where the row records no api_version; origin is the column basis.
Rows == [state : States, origin : Origins, basis : Bases, api : Apis \cup {-1},
         declared : 0 .. MaxDeclared, attested : 0 .. MaxAttested]
NoRow == [state |-> "none"]

VARIABLES
    \* the Forge and its instructions
    registry,    \* forge_registry.api_version
    live,        \* the live instruction of a module, 0 for none
    names,       \* forge_api_version of every version of an instruction
    key,         \* the approved answer key of a module
    \* decisions of humans
    simulation,  \* <<declarations so far, whether the last one is still live>>
    attested,    \* the attestations so far: whether each passed
    \* submissions and runs
    sub,         \* what a submission says, fixed when the exam is opened
    phase,       \* unused, pending (in Gate 8's transaction) or committed
    answered, superseded,
    run,         \* status of a run
    pass,        \* what Gate 8 is doing for a run
    since,       \* the live versions when Gate 8's transaction began
    handled,     \* modules this Gate 8 has been through
    \* SimForge
    answers,
    \* certification rows
    cert,
    \* the ingest sweep
    ipc, todo, cur, got,
    \* the staleness passes: the daily sweep's and the author's
    found,
    agenda       \* what this behaviour may hold

forge == <<registry, live, names, key>>
human == <<simulation, attested>>
gate8 == <<run, pass, since, handled>>
rows == <<sub, phase, answered, superseded>>
ingest == <<ipc, todo, cur, got>>
moving == <<forge, human, rows, gate8, answers, cert, ingest, found>>
examsVars == <<moving, agenda>>

NoSub == [state |-> "none"]
NoAnswer == [verdict |-> "none"]
Subs == [exam : Exams, opened : BOOLEAN, run : ExamRuns, at : Bases,
         attested : 0 .. MaxAttested]

ExamsInit ==
    /\ registry = 0
    /\ live = [m \in Modules |-> IF m \in Unwritten THEN 0 ELSE 1]
    /\ names = [m \in Modules |-> [v \in 1 .. MaxVersion |-> 0]]
    /\ key = [m \in Modules |-> 0]
    /\ simulation = <<0, FALSE>>
    /\ attested = <<>>
    /\ sub = [i \in Submissions |-> NoSub]
    /\ phase = [i \in Submissions |-> "unused"]
    /\ answered = {} /\ superseded = {}
    /\ run = [r \in ExamRuns |-> "active"]
    /\ pass = [r \in ExamRuns |-> "idle"]
    /\ since = [r \in ExamRuns |-> [m \in Modules |-> 0]]
    /\ handled = [r \in ExamRuns |-> {}]
    /\ answers = {}
    /\ cert = [u \in Units |-> NoRow]
    /\ ipc = "idle" /\ todo = {} /\ cur = Nobody /\ got = NoAnswer
    /\ found = [p \in StalePasses |-> {}]
    /\ agenda \in Agendas

-----------------------------------------------------------------------------
(* Instructions, answer keys, releases.                                    *)

\* The Forge publishes a release; the registry is edited by hand.
Release ==
    /\ registry < MaxApi
    /\ registry' = registry + 1
    /\ UNCHANGED <<live, names, key, human, rows, gate8, answers, cert, ingest, found>>

\* An answer key is approved, replacing the one before; it is a file.
ApproveKey(m) ==
    /\ key[m] < MaxKey
    /\ key' = [key EXCEPT ![m] = @ + 1]
    /\ UNCHANGED <<registry, live, names, human, rows, gate8, answers, cert, ingest, found>>

\* Mutant: every module's instructions are taken to hold for the minor release.
StaleVersion_Minor(m, earned, now) == earned \div 2 # now \div 2

\* major.minor ignores the patch: two releases of this model to a minor.
\* is_forge_version_stale.
StaleVersion(m, earned, now) ==
    IF m \in PatchSensitive THEN earned # now ELSE earned \div 2 # now \div 2

\* What recompute_staleness finds a row to be.  Unit B has no instruction of
\* its own and is compared with the registry alone.
StateNow(u) ==
    LET c == cert[u] IN
    IF c.state # "certified" THEN c.state
    ELSE IF u \in Modules /\ c.basis[u] # live[u] THEN "stale_instructions"
    ELSE IF StaleVersion(u, c.api, registry) THEN "stale_forge"
    ELSE "certified"

\* Mutant: every row found is rewritten.
Select_All(units) == {<<u, StateNow(u)>> : u \in units}

\* recompute_staleness, its SELECT: of every unit, or of one module's.
Select(units) ==
    {<<u, StateNow(u)>> : u \in {w \in units : StateNow(w) # cert[w].state}}

\* author_instruction: the live version is superseded and the next inserted in
\* one transaction; the staleness of its module is recomputed after it.
Author(m, v) ==
    /\ live[m] < agenda.versions
    /\ live' = [live EXCEPT ![m] = @ + 1]
    /\ names' = [names EXCEPT ![m][live[m] + 1] = v]
    /\ UNCHANGED <<registry, key, human, rows, gate8, answers, cert, ingest, found>>

\* recompute_staleness reads: the author's pass for the module authored, the
\* daily sweep's for every unit of the Forge.
SelectStale(p, units) ==
    /\ found[p] = {}
    /\ found' = [found EXCEPT ![p] = Select(units)]
    /\ UNCHANGED <<forge, human, rows, gate8, answers, cert, ingest>>

\* ... and updates by cert_id, whatever the row has become meanwhile.
UpdateStale(p) ==
    /\ found[p] # {}
    /\ cert' = [u \in Units |->
                  IF \E s \in States : <<u, s>> \in found[p]
                  THEN [cert[u] EXCEPT !.state = CHOOSE s \in States : <<u, s>> \in found[p]]
                  ELSE cert[u]]
    /\ found' = [found EXCEPT ![p] = {}]
    /\ UNCHANGED <<forge, human, rows, gate8, answers, ingest>>

\* The process of a pass dies between the two, with something left to write.
CrashStale(p) ==
    /\ \E f \in found[p] : cert[f[1]].state # f[2]
    /\ found' = [found EXCEPT ![p] = {}]
    /\ UNCHANGED <<forge, human, rows, gate8, answers, cert, ingest>>

-----------------------------------------------------------------------------
(* Humans.                                                                 *)

\* simulation.declare and simulation.leave.
Declare ==
    /\ ~ simulation[2]
    /\ simulation[1] < agenda.declared
    /\ simulation' = <<simulation[1] + 1, TRUE>>
    /\ UNCHANGED <<forge, attested, rows, gate8, answers, cert, ingest, found>>

Leave ==
    /\ simulation[2]
    /\ simulation' = <<simulation[1], FALSE>>
    /\ UNCHANGED <<forge, attested, rows, gate8, answers, cert, ingest, found>>

\* attest: no department passes on a coupling deferred by simulation.
Attest(passed) ==
    /\ Len(attested) < agenda.attested
    /\ passed => ~ simulation[2]
    /\ attested' = Append(attested, passed)
    /\ UNCHANGED <<forge, simulation, rows, gate8, answers, cert, ingest, found>>

\* certify_for_simulation: every granted module has an instruction in force,
\* and whatever stood for the department is replaced.
CertifyForSimulation ==
    /\ simulation[2]
    /\ \A m \in Modules : live[m] # 0
    /\ cert' = [cert EXCEPT ![Dept] =
                  [state |-> "certified", origin |-> "simulation", basis |-> live,
                   api |-> registry, declared |-> simulation[1], attested |-> 0]]
    /\ UNCHANGED <<forge, human, rows, gate8, answers, ingest, found>>

-----------------------------------------------------------------------------
(* Gate 8.                                                                 *)

\* Gate 8 begins for a run that is active; its submissions will all bear the
\* time its transaction began.
BeginGate(r) ==
    /\ run[r] = "active"
    /\ pass[r] = "idle"
    /\ pass' = [pass EXCEPT ![r] = "modules"]
    /\ since' = [since EXCEPT ![r] = live]
    /\ UNCHANGED <<forge, human, rows, run, handled, answers, cert, ingest, found>>

\* The basis of a module alone.
Alone(m) == [w \in Modules |-> IF w = m THEN live[m] ELSE 0]

\* _record_submission, in Gate 8's transaction.
Record(i, r, exam, opened, att) ==
    /\ phase[i] = "unused"
    /\ Cardinality({j \in Submissions : phase[j] # "unused"}) < agenda.submissions
    /\ sub' = [sub EXCEPT ![i] = [exam |-> exam, opened |-> opened, run |-> r,
                                  at |-> since[r], attested |-> att]]
    /\ phase' = [phase EXCEPT ![i] = "pending"]

\* submit_curriculum: the payload was accepted, or SimForge was not reached,
\* refused it, or answered with what The Office will not read.
Handovers == BOOLEAN
\* run_start: the exam is open, new or already, or the call failed.
Openings == BOOLEAN
\* post_gate_result: the attestation was taken, or the post failed.
Postings == BOOLEAN

\* _submit_one_module: the exam of the holder is opened, or SimForge could not
\* be reached and the submission names no run.
SubmitModule(r, m, i, opened) ==
    /\ pass[r] = "modules"
    /\ m \notin handled[r]
    /\ live[m] # 0
    /\ Record(i, r, [unit |-> m, basis |-> Alone(m), key |-> key[m]], opened, 0)
    /\ handled' = [handled EXCEPT ![r] = @ \cup {m}]
    /\ UNCHANGED <<forge, human, answered, superseded, run, pass, since,
                   answers, cert, ingest, found>>

\* ... a module with no live instruction, or with no holder that is not
\* revoked, is passed over.
PassOver(r, m) ==
    /\ pass[r] = "modules"
    /\ m \notin handled[r]
    /\ handled' = [handled EXCEPT ![r] = @ \cup {m}]
    /\ UNCHANGED <<forge, human, rows, run, pass, since, answers, cert, ingest, found>>

\* The modules of this pass whose exam was opened, at the version handed over.
Covered(r) ==
    [m \in Modules |->
        IF \E i \in Submissions : /\ phase[i] = "pending" /\ sub[i].run = r
                                  /\ sub[i].opened /\ sub[i].exam.unit = m
        THEN LET i == CHOOSE i \in Submissions :
                          /\ phase[i] = "pending" /\ sub[i].run = r
                          /\ sub[i].opened /\ sub[i].exam.unit = m
             IN  sub[i].exam.basis[m]
        ELSE 0]

AnswersTo(exam) == {a \in answers : a.exam = exam}

\* _open_department_units: no exam without a module; the latest attestation is
\* posted to the exam, which answers it unless it was answered before.
\* SimForge may refuse the post, and then the submission names none.
SubmitDept(r, i, opened, posted, model) ==
    LET exam == [unit |-> Dept, basis |-> Covered(r), key |-> 0] IN
    /\ pass[r] = "modules"
    /\ handled[r] = Modules
    /\ \E m \in Modules : Covered(r)[m] # 0
    /\ posted => opened /\ attested # <<>>
    /\ Record(i, r, exam, opened, IF posted THEN Len(attested) ELSE 0)
    /\ answers' = IF posted /\ AnswersTo(exam) = {}
                  THEN answers \cup {[exam |-> exam, model |-> model,
                         verdict |-> IF attested[Len(attested)] THEN "PASS" ELSE "FAIL"]}
                  ELSE answers
    /\ pass' = [pass EXCEPT ![r] = "commit"]
    /\ UNCHANGED <<forge, human, answered, superseded, run, since, handled,
                   cert, ingest, found>>

\* ... the department is skipped.
SkipDept(r) ==
    /\ pass[r] = "modules"
    /\ handled[r] = Modules
    /\ \A m \in Modules : Covered(r)[m] = 0
    /\ pass' = [pass EXCEPT ![r] = "commit"]
    /\ UNCHANGED <<forge, human, rows, run, since, handled, answers, cert, ingest, found>>

\* What the pass held is gone.
EndGate(r) == /\ pass' = [pass EXCEPT ![r] = "idle"]
              /\ since' = [since EXCEPT ![r] = [m \in Modules |-> 0]]
              /\ handled' = [handled EXCEPT ![r] = {}]

\* The gate's commit, whatever has become of the run.
CommitGate(r) ==
    /\ pass[r] = "commit"
    /\ phase' = [i \in Submissions |->
                   IF phase[i] = "pending" /\ sub[i].run = r THEN "committed" ELSE phase[i]]
    /\ EndGate(r)
    /\ UNCHANGED <<forge, human, sub, answered, superseded, run, answers, cert,
                   ingest, found>>

\* The process dies and its transaction is rolled back.
CrashGate(r) ==
    /\ pass[r] \in {"modules", "commit"}
    /\ phase' = [i \in Submissions |->
                   IF phase[i] = "pending" /\ sub[i].run = r THEN "unused" ELSE phase[i]]
    /\ sub' = [i \in Submissions |->
                   IF phase[i] = "pending" /\ sub[i].run = r THEN NoSub ELSE sub[i]]
    /\ EndGate(r)
    /\ UNCHANGED <<forge, human, answered, superseded, run, answers, cert, ingest, found>>

\* abort_run commits the status first ...
Abort(r) ==
    /\ run[r] = "active"
    /\ run' = [run EXCEPT ![r] = "aborting"]
    /\ UNCHANGED <<forge, human, rows, pass, since, handled, answers, cert, ingest, found>>

\* ... and then supersede_run_submissions retires what is open and committed.
Supersede(r) ==
    /\ run[r] = "aborting"
    /\ superseded' = superseded \cup
          {i \in Submissions \ answered : phase[i] = "committed" /\ sub[i].run = r}
    /\ run' = [run EXCEPT ![r] = "aborted"]
    /\ UNCHANGED <<forge, human, sub, phase, answered, pass, since, handled,
                   answers, cert, ingest, found>>

-----------------------------------------------------------------------------
(* SimForge.                                                               *)

\* A battery has been run for an exam that was open.
Grade(i, v, model) ==
    /\ phase[i] # "unused"
    /\ sub[i].opened
    /\ sub[i].exam.unit \in Examined
    /\ AnswersTo(sub[i].exam) = {}
    /\ answers' = answers \cup {[exam |-> sub[i].exam, verdict |-> v, model |-> model]}
    /\ UNCHANGED <<forge, human, rows, gate8, cert, ingest, found>>

-----------------------------------------------------------------------------
(* The ingest sweep.                                                       *)

Open == {i \in Submissions \ (answered \cup superseded) : phase[i] = "committed"}

\* overdue_submissions.
BeginIngest ==
    /\ ipc = "idle"
    /\ Open # {}
    /\ todo' = Open
    /\ ipc' = "poll"
    /\ UNCHANGED <<forge, human, rows, gate8, answers, cert, cur, got, found>>

\* approved_scenario_set_hash, read from the file as the sweep runs: none for
\* a department, whose exam has no key of its own.
ApprovedKey(u) == IF u \in Modules THEN {key[u]} ELSE {}

\* _stale_key: the key is known, and is not the one the exam was set from.
StaleKey(i) == \E k \in ApprovedKey(sub[i].exam.unit) : sub[i].exam.key # k

Members(b) == {m \in Modules : b[m] # 0}

\* forge_api_version_in_force: the version examined is the one that was in
\* force when the gate's transaction began.
InForce(i, m) == sub[i].exam.basis[m] = sub[i].at[m]

\* department_api_version: of every member, and all name one release.
Resolved(i) ==
    LET b == sub[i].exam.basis
        v == {names[m][b[m]] : m \in Members(b)}
    IN  {a \in Apis : v = {a} /\ \A m \in Members(b) : InForce(i, m)}

\* timeout_gate_result: the exam could not be read and the deadline, which is
\* the clock's business, has passed.
TimedOut == [verdict |-> "TIMEOUT", model |-> "none"]

\* office_gate_result: what SimForge has stored, or that it has stored nothing.
Stored(i) ==
    IF ~ sub[i].opened THEN {}
    ELSE IF AnswersTo(sub[i].exam) = {} THEN [verdict : Silences, model : {"none"}]
    ELSE {[verdict |-> a.verdict, model |-> a.model] : a \in AnswersTo(sub[i].exam)}

\* What a poll may return.
Reading(i) == {TimedOut} \cup Stored(i)

\* record_result raises: the answer names no model, or a state that confers
\* authority lacks the model's digest or an api_version.
Refuses(i, g) ==
    \/ g.verdict \in Terminal /\ g.model = "none"
    \/ /\ StateForVerdict(g.verdict) \in {"certified", "provisional"}
       /\ Resolved(i) = {} \/ (sub[i].attested = 0 /\ g.model # "full")

\* Mutant: rulings 183 and 184 undone for a run still under way.
Preserves_TimeoutOnly(i, g) ==
    g.verdict \in {"TIMEOUT", "NOT_RUN"} /\ cert[sub[i].exam.unit] # NoRow

\* Mutant: a row that stands is never replaced.
Preserves_Any(i, g) == cert[sub[i].exam.unit] # NoRow

\* record_result returns the standing row: what is not an answer replaces none.
Preserves(i, g) == g.verdict \in NotAnAnswer /\ cert[sub[i].exam.unit] # NoRow

\* The next submission is polled, and left open: SimForge could not be read, the
\* key is stale, the result was refused or the row stands.
LeaveOpen(i) ==
    /\ ipc = "poll" /\ i \in todo
    /\ todo' = todo \ {i}
    /\ UNCHANGED <<forge, human, rows, gate8, answers, cert, ipc, cur, got, found>>

\* ... or there is a row to write.
Take(i, g) ==
    /\ ipc = "poll" /\ i \in todo
    /\ ~ StaleKey(i)
    /\ g \in Reading(i)
    /\ ~ Refuses(i, g)
    /\ ~ Preserves(i, g)
    /\ ipc' = "upsert" /\ cur' = i /\ got' = g /\ todo' = todo \ {i}
    /\ UNCHANGED <<forge, human, rows, gate8, answers, cert, found>>

\* Mutant: the instructions in force now, not those of the exam.
NewRow_LiveHash ==
    [state |-> StateForVerdict(got.verdict), origin |-> "tested",
     basis |-> IF sub[cur].exam.unit = Dept THEN sub[cur].exam.basis
               ELSE [w \in Modules |-> IF w = sub[cur].exam.unit THEN live[w] ELSE 0],
     api |-> IF Resolved(cur) = {} THEN -1 ELSE CHOOSE a \in Resolved(cur) : TRUE,
     declared |-> 0, attested |-> sub[cur].attested]

\* The row record_result writes; every column is replaced.
NewRow ==
    [state |-> StateForVerdict(got.verdict),
     origin |-> IF sub[cur].attested # 0 THEN "attested" ELSE "tested",
     basis |-> sub[cur].exam.basis,
     api |-> IF Resolved(cur) = {} THEN -1 ELSE CHOOSE a \in Resolved(cur) : TRUE,
     declared |-> 0,
     attested |-> sub[cur].attested]

\* Mutant: every result closes its submission.
Closes_Any(g) == TRUE

\* TERMINAL_VERDICTS: what SimForge has stored and will not revise.
Closes(g) == g.verdict \in Terminal

\* INSERT ... ON CONFLICT DO UPDATE, and COMMIT.
Upsert ==
    /\ ipc = "upsert"
    /\ cert' = [cert EXCEPT ![sub[cur].exam.unit] = NewRow]
    /\ IF Closes(got) THEN ipc' = "mark" /\ UNCHANGED <<cur, got>>
                      ELSE ipc' = "poll" /\ cur' = Nobody /\ got' = NoAnswer
    /\ UNCHANGED <<forge, human, rows, gate8, answers, todo, found>>

\* mark_result_received.
Mark ==
    /\ ipc = "mark"
    /\ answered' = answered \cup {cur}
    /\ ipc' = "poll" /\ cur' = Nobody /\ got' = NoAnswer
    /\ UNCHANGED <<forge, human, sub, phase, superseded, gate8, answers, cert, todo, found>>

EndIngest ==
    /\ ipc = "poll" /\ todo = {}
    /\ ipc' = "idle"
    /\ UNCHANGED <<forge, human, rows, gate8, answers, cert, todo, cur, got, found>>

\* The pass dies with work to do; the next tick starts another.
CrashIngest ==
    /\ ipc # "idle"
    /\ ipc = "poll" => todo # {}
    /\ ipc' = "idle" /\ todo' = {} /\ cur' = Nobody /\ got' = NoAnswer
    /\ UNCHANGED <<forge, human, rows, gate8, answers, cert, found>>

-----------------------------------------------------------------------------
(* The specification.                                                      *)

Forge == \/ Release
         \/ \E m \in Modules : ApproveKey(m) \/ \E v \in 0 .. registry : Author(m, v)
         \/ \E i \in Submissions, g \in agenda.gradings : Grade(i, g[1], g[2])

Human == \/ Declare \/ Leave \/ CertifyForSimulation
         \/ \E passed \in BOOLEAN : Attest(passed)

Gate8(r) ==
    \/ BeginGate(r) \/ SkipDept(r) \/ CommitGate(r) \/ CrashGate(r)
    \/ \E m \in Modules : PassOver(r, m)
    \/ \E m \in Modules, i \in Submissions, accepted \in Handovers, started \in Openings :
           SubmitModule(r, m, i, accepted /\ started)
    \/ \E i \in Submissions, ok \in Openings, posted \in Postings, w \in PostedModels :
           SubmitDept(r, i, ok, posted, w)

Staleness(p) == \/ SelectStale(p, Units)
                \/ \E m \in Modules : SelectStale(p, {m})
                \/ UpdateStale(p) \/ CrashStale(p)

\* One submission is polled.
Poll == \E i \in todo : LeaveOpen(i) \/ \E g \in Reading(i) : Take(i, g)

Ingest == BeginIngest \/ Poll \/ Upsert \/ Mark \/ EndIngest \/ CrashIngest

Step == \/ Forge
        \/ Human
        \/ \E r \in ExamRuns : Gate8(r) \/ Abort(r) \/ Supersede(r)
        \/ \E p \in StalePasses : Staleness(p)
        \/ Ingest

ExamsNext == Step /\ UNCHANGED agenda

ExamsSpec == ExamsInit /\ [][ExamsNext]_examsVars

TakeAnswer(i) == i \in todo /\ \E g \in Reading(i) : g.verdict \in Terminal /\ Take(i, g)

\* run_forever: every sweep is started again and again, and a pass goes on
\* unless it is killed, which from some time on it is not.  SimForge can be
\* read now and then.
Fairness ==
    /\ \A p \in StalePasses : WF_moving(SelectStale(p, Units)) /\ WF_moving(UpdateStale(p))
    /\ WF_moving(BeginIngest) /\ WF_moving(Poll) /\ WF_moving(Upsert)
    /\ WF_moving(Mark) /\ WF_moving(EndIngest)
    /\ \A i \in Submissions : SF_moving(TakeAnswer(i))
    /\ <>[][~ CrashIngest /\ \A p \in StalePasses : ~ CrashStale(p)]_moving

FairSpec == ExamsSpec /\ Fairness

-----------------------------------------------------------------------------
(* Properties.                                                             *)

ExamsTypeOK ==
    /\ registry \in Apis
    /\ live \in Bases
    /\ names \in [Modules -> [1 .. MaxVersion -> Apis]]
    /\ key \in [Modules -> Keys]
    /\ simulation \in (0 .. MaxDeclared) \X BOOLEAN
    /\ attested \in Seq(BOOLEAN) /\ Len(attested) <= MaxAttested
    /\ sub \in [Submissions -> Subs \cup {NoSub}]
    /\ phase \in [Submissions -> {"unused", "pending", "committed"}]
    /\ \A i \in Submissions : phase[i] # "unused" => sub[i] \in Subs
    /\ answered \subseteq Submissions
    /\ superseded \subseteq Submissions
    /\ run \in [ExamRuns -> {"active", "aborting", "aborted"}]
    /\ pass \in [ExamRuns -> {"idle", "modules", "commit"}]
    /\ since \in [ExamRuns -> Bases]
    /\ handled \in [ExamRuns -> SUBSET Modules]
    /\ answers \subseteq Answers
    /\ cert \in [Units -> Rows \cup {NoRow}]
    /\ ipc \in {"idle", "poll", "upsert", "mark"}
    /\ todo \subseteq Submissions
    /\ cur \in Submissions \cup {Nobody}
    /\ got \in [verdict : Terminal \cup NotAnAnswer, model : Models] \cup {NoAnswer}
    /\ agenda \in Agendas
    /\ found \in [StalePasses -> SUBSET (Units \X {"stale_instructions", "stale_forge"})]

\* A unit that counts as certified or held back on an examination was examined:
\* SimForge answered so, for that unit, on exactly the instructions the row
\* names; a tested row's answer names its model; and the release it names is
\* the one those instructions were written for.  (record_result, Gate 8's
\* snapshot of hashes, the ingest sweep and its recovery of the api_version.)
EarnedByItsExam ==
    \A u \in Units :
        cert[u] # NoRow /\ cert[u].origin # "simulation"
                /\ cert[u].state \in {"certified", "provisional"} =>
            /\ \E a \in answers : /\ a.exam.unit = u
                                  /\ a.exam.basis = cert[u].basis
                                  /\ StateForVerdict(a.verdict) = cert[u].state
                                  /\ cert[u].origin = "tested" => a.model = "full"
            /\ \A m \in Members(cert[u].basis) : names[m][cert[u].basis[m]] = cert[u].api

\* A submission is closed only on an answer SimForge has stored: not by a
\* timeout, nor by a run still under way, whose answer would then be lost.
\* (TERMINAL_VERDICTS, mark_result_received.)
ClosedMeansAnswered == \A i \in answered : AnswersTo(sub[i].exam) # {}

\* What is not an answer replaces no row of a module's holder.
\* (record_result, NOT_AN_ANSWER: rulings 183 and 184.)
NotAnswered == {"in_training", "never_certified"}
NoAnswerErasesNothing ==
    [][\A m \in Modules : cert[m] # NoRow /\ cert'[m].state \in NotAnswered
                               => cert'[m] = cert[m]]_examsVars

\* A holder certified on superseded instructions, or for a release the Forge has
\* left behind, does not stay so: the daily sweep catches what no author's pass
\* did.  (sweep_certification_staleness, recompute_staleness.)
Outdated(m) == /\ cert[m].state = "certified"
               /\ \/ cert[m].basis[m] # live[m]
                  \/ m \in PatchSensitive /\ cert[m].api # registry
StaleIsCaught == \A m \in Modules : Outdated(m) ~> ~ Outdated(m)

\* A submission that is owed an answer gets it, however late, unless its run
\* is abandoned, its answer key replaced, or its answer is one record_result
\* refuses.  (sweep_verdict_ingest, TERMINAL_VERDICTS.)
Owed(i) == /\ i \in Open /\ sub[i].opened /\ ~ StaleKey(i)
           /\ \E a \in AnswersTo(sub[i].exam) : a.model = "full"
           /\ \A m \in Members(sub[i].exam.basis) : InForce(i, m)
           /\ sub[i].exam.unit \in Modules
AnswerIsIngested == \A i \in Submissions : Owed(i) ~> ~ Owed(i)

\* Exams implements Certificate: what SimForge said, what the rows say, and what
\* the sweep has closed.  (VERDICT_TO_STATE, record_result, recompute_staleness,
\* certify_for_simulation, mark_result_received.)
Said == {[exam |-> a.exam, grade |-> StateForVerdict(a.verdict)] : a \in answers}
Standing ==
    [u \in Units |->
        IF cert[u] = NoRow THEN [grade |-> "none"]
        ELSE [grade |-> cert[u].state, basis |-> cert[u].basis,
              by |-> IF cert[u].origin = "simulation" THEN "declaration" ELSE "exam"]]
Settled == {sub[i].exam : i \in answered}

Promise == INSTANCE Certificate WITH
    Deferrable <- {Dept}, said <- Said, standing <- Standing, settled <- Settled

ImplementsCertificate == Promise!Spec
=============================================================================
