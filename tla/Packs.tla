-------------------------------- MODULE Packs --------------------------------
(***************************************************************************)
(* The Packs of one venture (broker/packs.py) and what a provisioning run  *)
(* takes from them: which version it was started on (start_run), what that *)
(* version held when a pass began (advance, get_version), what Gates 2 and *)
(* 6 asked of the library (Knowledge), what was signed and what Gate 11    *)
(* then provisioned.  The ladder's own races are Provisioning's: here a    *)
(* gate is passed in one step, and the gates that ask nothing of a Pack    *)
(* are folded into the next that does.                                     *)
(***************************************************************************)
EXTENDS Knowledge, FiniteSets

CONSTANTS
    Versions,   \* pack_version ids
    Sources,    \* yaml_source
    Cites,      \* the entries a source cites
    Runs,       \* bound: provisioning runs
    Requests,   \* requests under way at one time
    Agendas     \* bound: the acts that one behaviour mixes

ASSUME PackConstants ==
    /\ None \notin Versions \cup Sources
    /\ Cites \in [Sources -> SUBSET Entries]
    /\ \A a \in Agendas : a.sources \subseteq Sources

Gates == {"2", "6", "10", "11"}

VARIABLES
    source, status,     \* business_pack: one row a version
    unreadable,         \* stored sources that the schema no longer reads
    signed,             \* sources whose artifacts a human signed
    run,                \* provisioning_run
    job,                \* what a request has read, and where it is
    agenda,
    \* history, read by properties only
    vacant              \* why there is no live Pack

packVars == <<source, status, vacant>>
ventureVars == <<libraryVars, packVars, unreadable, signed, run, job, agenda>>

\* passed: the sources that Gate 2 let through in this run; rewritten: its
\* version has been stored again since it started.
Run == [version : Versions \cup {None}, began : Sources \cup {None},
        gate : Gates \cup {"none", "complete", "aborted"},
        provisioned : Sources \cup {None}, passed : SUBSET Sources, rewritten : BOOLEAN]
NoRun == [version |-> None, began |-> None, gate |-> "none",
          provisioned |-> None, passed |-> {}, rewritten |-> FALSE]

Job == [do : {"nothing", "publish", "promote", "start", "advance"},
        at : {"idle", "abandon", "write", "gate"},
        version : Versions \cup {None}, source : Sources \cup {None},
        run : Runs \cup {None}, gate : Gates \cup {"none"}]
NoJob == [do |-> "nothing", at |-> "idle", version |-> None, source |-> None,
          run |-> None, gate |-> "none"]

PacksTypeOK ==
    /\ LibraryTypeOK
    /\ source \in [Versions -> Sources \cup {None}]
    /\ status \in [Versions -> {"none", "draft", "live", "superseded", "abandoned"}]
    /\ \A v \in Versions : status[v] = "none" <=> source[v] = None
    /\ \A u, v \in Versions : status[u] \in {"live", "draft"} /\ status[u] = status[v] => u = v
    /\ unreadable \subseteq Sources
    /\ signed \subseteq Sources
    /\ run \in [Runs -> Run]
    /\ job \in [Requests -> Job]
    /\ agenda \in Agendas
    /\ vacant \in {"unpublished", "drafted over", "never"}

PacksInit ==
    /\ LibraryInit
    /\ source = [v \in Versions |-> None]
    /\ status = [v \in Versions |-> "none"]
    /\ unreadable = {}
    /\ signed = {}
    /\ run = [k \in Runs |-> NoRun]
    /\ job = [r \in Requests |-> NoJob]
    /\ agenda \in Agendas
    /\ vacant = "unpublished"

-----------------------------------------------------------------------------
(* The store.                                                              *)

\* parse_only: a source that was stored under an older schema may not parse.
Readable(s) == s # None /\ s \notin unreadable

Rows(one) == {v \in Versions : status[v] = one}

\* live, draft, _previous_source: the one row of a status.
The(one) == IF Rows(one) = {} THEN None ELSE CHOOSE v \in Rows(one) : TRUE

SourceOf(v) == IF v = None THEN None ELSE source[v]

\* packs.live.
Live == SourceOf(The("live"))

\* Mutant of Leaves: the promotion clears the live row with the draft.
Leaves_Both(one) == {"draft", "live"}

\* Mutant of Leaves: the row that was live stays so.
Leaves_None(one) == {}

\* The statuses a store or a promotion takes rows out of.
Leaves(one) == {one}

\* INSERT ... ON CONFLICT (venture_id, pack_version) DO UPDATE, after the rows
\* of that status were retired, in one transaction.  An overlapping one of the
\* same kind fails on the index or waits for this one.
Store(v, s, one) ==
    /\ source' = [source EXCEPT ![v] = s]
    /\ status' = [u \in Versions |->
                    IF u = v THEN one
                    ELSE IF status[u] \notin Leaves(one) THEN status[u]
                    ELSE IF one = "live" THEN "superseded" ELSE "abandoned"]
    /\ vacant' = IF one = "live" THEN "never"
                 ELSE IF status[v] = "live" THEN "drafted over" ELSE vacant
    /\ run' = [k \in Runs |-> IF run[k].version = v THEN [run[k] EXCEPT !.rewritten = TRUE]
                              ELSE run[k]]

BeginJob(r, j) ==
    /\ job[r] = NoJob
    /\ Cardinality({q \in Requests : job[q] # NoJob}) < agenda.requests
    /\ job' = [job EXCEPT ![r] = j]
EndJob(r) == job' = [job EXCEPT ![r] = NoJob]

\* store(publish=True) reads what it is about to replace, for its event and for
\* the caller that declares how many lines it changes: a refusal is Die's.
ReadPublish(r, v, s) ==
    /\ Readable(s)
    /\ BeginJob(r, [NoJob EXCEPT !.do = "publish", !.at = "write", !.version = v, !.source = s])
    /\ UNCHANGED <<packVars, unreadable, signed, run>>

\* publish_draft reads the draft and clears it, in a transaction of its own ...
ReadDraft(r) ==
    /\ Readable(SourceOf(The("draft")))
    /\ BeginJob(r, [NoJob EXCEPT !.do = "promote", !.at = "abandon", !.version = The("draft"),
                             !.source = SourceOf(The("draft"))])
    /\ UNCHANGED <<packVars, unreadable, signed, run>>

AbandonDraft(r) ==
    /\ job[r].at = "abandon"
    /\ status' = [u \in Versions |-> IF status[u] \in Leaves("draft") THEN "abandoned" ELSE status[u]]
    /\ job' = [job EXCEPT ![r].at = "write"]
    /\ UNCHANGED <<source, vacant, unreadable, signed, run>>

\* ... and both write the new live row; store parses its source once more.
WriteLive(r) ==
    /\ job[r].at = "write" /\ job[r].do \in {"publish", "promote"}
    /\ Readable(job[r].source)
    /\ Store(job[r].version, job[r].source, "live")
    /\ EndJob(r)
    /\ UNCHANGED <<unreadable, signed>>

\* save_draft, under whatever version id it names.
SaveDraft(v, s) ==
    /\ Readable(s)
    /\ Store(v, s, "draft")
    /\ UNCHANGED <<unreadable, signed, job>>

\* A release of the Office whose schema is tighter.
Tighten(s) ==
    /\ unreadable' = unreadable \cup {s}
    /\ UNCHANGED <<packVars, signed, run, job>>

-----------------------------------------------------------------------------
(* Runs.                                                                   *)

ActiveRuns == {k \in Runs : run[k].gate \in Gates}

\* start_run reads the live Pack and looks for an active run ...
ReadStart(r) ==
    /\ Readable(Live)
    /\ ActiveRuns = {}
    /\ BeginJob(r, [NoJob EXCEPT !.do = "start", !.at = "write", !.version = The("live"),
                             !.source = Live])
    /\ UNCHANGED <<packVars, unreadable, signed, run>>

\* ... and ux_run_active decides.
StartRun(r, k) ==
    /\ job[r].do = "start"
    /\ run[k] = NoRun
    /\ ActiveRuns = {}
    /\ run' = [run EXCEPT ![k] = [NoRun EXCEPT !.version = job[r].version, !.began = job[r].source,
                                               !.gate = "2",
                                               !.rewritten = SourceOf(job[r].version) # job[r].source]]
    /\ EndJob(r)
    /\ UNCHANGED <<packVars, unreadable, signed>>

AbortRun(k) ==
    /\ k \in ActiveRuns
    /\ run' = [run EXCEPT ![k].gate = "aborted"]
    /\ UNCHANGED <<packVars, unreadable, signed, job>>

\* Mutant of PackOf: a pass takes the Pack in force.
PackOf_Live(k) == Live

\* get_version: what the run's version holds now.
PackOf(k) == SourceOf(run[k].version)

\* sign_off_run generates from that too.
SignOffRun(k) ==
    /\ run[k].gate \in Gates
    /\ Readable(PackOf(k))
    /\ signed' = signed \cup {PackOf(k)}
    /\ UNCHANGED <<packVars, unreadable, run, job>>

Advance(r, k) ==
    /\ run[k].gate \in Gates
    /\ Readable(PackOf(k))
    /\ BeginJob(r, [NoJob EXCEPT !.do = "advance", !.at = "gate", !.run = k, !.source = PackOf(k),
                             !.gate = run[k].gate])
    /\ UNCHANGED <<packVars, unreadable, signed, run>>

Following == [g \in Gates |-> CASE g = "2" -> "6" [] g = "6" -> "10" [] g = "10" -> "11"
                                [] g = "11" -> "complete"]

\* V28, Gate 6's flags, Gate 10 and Gate 11's own look at the signature.
Lets(gate, s) ==
    CASE gate \in {"2", "6"} -> \A e \in Cites[s] : Usable(e)
      [] gate \in {"10", "11"} -> s \in signed

\* A gate passes and the run moves, whatever it has become, unless that would
\* make a second active run.
PassGate(r) ==
    LET k == job[r].run
        gate == job[r].gate
        s == job[r].source
        next == Following[gate] IN
    /\ job[r].do = "advance"
    /\ Lets(gate, s)
    /\ next \in Gates => ActiveRuns \subseteq {k}
    /\ run' = [run EXCEPT ![k].gate = next,
                          ![k].passed = IF gate = "2" THEN @ \cup {s} ELSE @,
                          ![k].provisioned = IF gate = "11" THEN s ELSE @]
    /\ job' = [job EXCEPT ![r] = IF next \in Gates THEN [@ EXCEPT !.gate = next] ELSE NoJob]
    /\ UNCHANGED <<packVars, unreadable, signed>>

\* A gate that does not pass, a refusal by an index, a crash: what has been
\* committed stays.  The run keeps its gate.
Die(r) ==
    /\ job[r] # NoJob
    /\ EndJob(r)
    /\ UNCHANGED <<packVars, unreadable, signed, run>>

Does(deed) == deed \in agenda.deeds

PublishStep(r) ==
    \/ \E v \in Versions, s \in agenda.sources : ReadPublish(r, v, s)
    \/ ReadDraft(r) \/ AbandonDraft(r) \/ WriteLive(r)

RunStep(r) == ReadStart(r) \/ PassGate(r) \/ \E k \in Runs : StartRun(r, k) \/ Advance(r, k)

PackStep ==
    \/ \E r \in Requests : PublishStep(r) \/ (Does("run") /\ RunStep(r)) \/ Die(r)
    \/ Does("draft") /\ \E v \in Versions, s \in agenda.sources : SaveDraft(v, s)
    \/ Does("tighten") /\ \E s \in agenda.sources : Tighten(s)
    \/ Does("run") /\ \E k \in Runs : AbortRun(k) \/ SignOffRun(k)

PacksNext ==
    \/ PackStep /\ UNCHANGED <<libraryVars, agenda>>
    \/ /\ \E h \in Humans :
            \/ Does("author") /\ Authors(h)
            \/ Does("read") /\ Reads(h)
            \/ Does("simulate") /\ Simulates(h)
            \/ Lose(h)
       /\ UNCHANGED <<packVars, unreadable, signed, run, job, agenda>>

PacksSpec == PacksInit /\ [][PacksNext]_ventureVars

-----------------------------------------------------------------------------
(* Properties.                                                             *)

\* What a run provisions is a source that Gate 2 let through in that run,
\* unless the run's version was stored again under it (get_version, "a run
\* names the version it started with").
ProvisionedWasValidated ==
    \A k \in Runs : run[k].gate = "complete" =>
        run[k].provisioned \in run[k].passed \/ run[k].rewritten

\* A venture that has had a live Pack has one still, also when a publication
\* stops halfway; only a draft saved under the live version takes it away
\* (store 600-618, publish_draft 795-803).
LivePackRemains == vacant = "never" => Rows("live") # {}
=============================================================================
