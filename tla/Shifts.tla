------------------------------- MODULE Shifts -------------------------------
(***************************************************************************)
(* One agent's shifts and the PHI it remembers between them: assignment    *)
(* by an operator (staffing.apply -> shifts.assign_shift), rotation        *)
(* (shifts.rotate), the flush transaction (shifts.flush_phi), the          *)
(* scheduler's flush of ended shifts, the Village ending a shift early     *)
(* (sync_shifts.apply), and the agent writing working memory meanwhile.    *)
(*                                                                         *)
(* Every statement of these functions filters on office_agent_id, so       *)
(* agents do not interact and one is modelled.  A memory is a row          *)
(* classified phi or recording; the other classifications are never        *)
(* touched.  Reads that precede a write in the same step of the code, with *)
(* nothing awaited from outside between them, are one action; the reads    *)
(* that a later INSERT depends on are not.                                 *)
(***************************************************************************)
EXTENDS Integers, FiniteSets

CONSTANTS
    Shifts,       \* shift_assignment rows
    Ventures,
    Memories,     \* agent_working_memory rows
    Requests,     \* sessions of operators (staffing, rotate)
    Sweep,        \* the session of sweeps.run_forever
    None,         \* "no venture yet"
    MaxTime,      \* bound on the wall clock
    MaxQuarter    \* bound on the Village's quarters

ASSUME ShiftConstants ==
    /\ Sweep \notin Requests
    /\ None \notin Ventures
    /\ MaxTime \in Nat
    /\ MaxQuarter \in Nat

Sessions == Requests \cup {Sweep}
Times    == 0 .. MaxTime
Quarters == 0 .. MaxQuarter

VARIABLES
    now, quarter,           \* the database's clock, the Village's quarter
    \* shift_assignment
    assigned,               \* rows that exist
    venture, from, until,   \* venture_id, shift_start, shift_end
    within,                 \* quarter
    attempted,              \* flush_attempted_at and flush_completed_at set
    verified,               \* flush_verified
    \* agent_working_memory
    memory, about,          \* the rows that exist, and their venture_id
    written,                \* ids already used
    \* sessions
    pc,
    asked,                  \* the assignment a request wants: [venture, from, until]
    resolved,               \* the quarter it resolved
    queue,                  \* shifts it has still to flush
    doomed,                 \* rows its open transaction has deleted
    \* history, read by properties only
    seen                    \* memories the last recount of a shift's flush could see

clockVars == <<now, quarter>>
rowVars == <<assigned, venture, from, until, within>>
flushVars == <<attempted, verified, seen>>
memoryVars == <<memory, about, written>>
sessionVars == <<pc, asked, resolved, queue, doomed>>
vars == <<clockVars, rowVars, flushVars, memoryVars, sessionVars>>

Steps == {"idle", "delete", "recount", "assign", "insert"}
Nothing == [venture |-> None, from |-> 0, until |-> 0]
Windows == [venture : Ventures \cup {None}, from : Times, until : Times]

TypeOK ==
    /\ now \in Times
    /\ quarter \in Quarters
    /\ assigned \subseteq Shifts
    /\ venture \in [Shifts -> Ventures \cup {None}]
    /\ from \in [Shifts -> Times]
    /\ until \in [Shifts -> Times]
    /\ within \in [Shifts -> Quarters]
    /\ verified \subseteq attempted      \* flush_verified_implies_completed
    /\ attempted \subseteq assigned
    /\ memory \subseteq written
    /\ written \subseteq Memories
    /\ about \in [Memories -> Ventures \cup {None}]
    /\ pc \in [Sessions -> Steps]
    /\ asked \in [Sessions -> Windows]
    /\ resolved \in [Sessions -> Quarters]
    /\ queue \in [Sessions -> SUBSET Shifts]
    /\ doomed \in [Sessions -> SUBSET Memories]
    /\ seen \in [Shifts -> SUBSET Memories]

Init ==
    /\ now = 0
    /\ quarter = 0
    /\ assigned = {}
    /\ venture = [s \in Shifts |-> None]
    /\ from = [s \in Shifts |-> 0]
    /\ until = [s \in Shifts |-> 0]
    /\ within = [s \in Shifts |-> 0]
    /\ attempted = {}
    /\ verified = {}
    /\ memory = {}
    /\ written = {}
    /\ about = [r \in Memories |-> None]
    /\ pc = [p \in Sessions |-> "idle"]
    /\ asked = [p \in Sessions |-> Nothing]
    /\ resolved = [p \in Sessions |-> 0]
    /\ queue = [p \in Sessions |-> {}]
    /\ doomed = [p \in Sessions |-> {}]
    /\ seen = [s \in Shifts |-> {}]

-----------------------------------------------------------------------------
(* What the functions read.                                                *)

EndedShifts == {s \in assigned : until[s] <= now}

\* previous_shift: the most recently ended shift, as a set of at most one.
PreviousShift == {s \in EndedShifts : \A t \in EndedShifts : until[t] <= until[s]}

\* current_shift: what assert_on_shift_for compares a call's venture with.
CurrentShift == {s \in assigned : from[s] <= now /\ now < until[s]}

\* quarter_venture: some venture holds the agent-quarter already.
HeldByAnother(q, v) == \E s \in assigned : within[s] = q /\ venture[s] # v

\* tstzrange(shift_start, shift_end) && tstzrange(from, until)
Overlaps(s, w) == from[s] < w.until /\ w.from < until[s]

EndedUnflushed_Latest == PreviousShift \ attempted    \* mutant: only the last shift

EndedUnflushed == EndedShifts \ attempted

Unblocked_Attempted == PreviousShift \subseteq attempted    \* mutant

\* The block: an agent whose last shift has no verified flush is assigned none.
Unblocked == PreviousShift \subseteq verified

\* The shift a session flushes next, as a set: ended_unflushed orders by shift_end.
Target(p) == {s \in queue[p] : \A t \in queue[p] : until[s] <= until[t]}

\* Two flushes of one shift serialise on its row, and a DELETE waits for the
\* transaction that has already deleted a row it wants.
Locked(p) == \E q \in Sessions \ {p} :
    /\ pc[q] = "recount"
    /\ Target(q) \cap Target(p) # {} \/ doomed[q] \cap memory # {}

Finish(p) ==
    /\ pc' = [pc EXCEPT ![p] = "idle"]
    /\ asked' = [asked EXCEPT ![p] = Nothing]
    /\ resolved' = [resolved EXCEPT ![p] = 0]
    /\ queue' = [queue EXCEPT ![p] = {}]
    /\ doomed' = [doomed EXCEPT ![p] = {}]

\* Windows a caller asks for: staffing refuses one that begins in the past,
\* the schema one that does not end after it starts.
Wanted == {w \in [venture : Ventures, from : Times, until : Times] :
              now <= w.from /\ w.from < w.until}

-----------------------------------------------------------------------------
(* Requests.                                                               *)

\* staffing.plan: a read-only rehearsal of assign_shift that also fixes the
\* quarter.  A plan with refusals changes nothing.
Staff(p) ==
    /\ p \in Requests
    /\ pc[p] = "idle"
    /\ \E w \in Wanted :
          /\ ~ \E s \in assigned : Overlaps(s, w)
          /\ Unblocked
          /\ ~ HeldByAnother(quarter, w.venture)
          /\ asked' = [asked EXCEPT ![p] = w]
    /\ resolved' = [resolved EXCEPT ![p] = quarter]
    /\ pc' = [pc EXCEPT ![p] = "assign"]
    /\ UNCHANGED <<clockVars, rowVars, flushVars, memoryVars, queue, doomed>>

\* rotate, up to its flush: the quarter is resolved and a conflict refused
\* before anything is destroyed.  from_shift may be a shift still open.
Rotate(p) ==
    /\ p \in Requests
    /\ pc[p] = "idle"
    /\ \E f \in assigned, w \in Wanted :
          /\ from[f] <= now
          /\ ~ HeldByAnother(quarter, w.venture)
          /\ asked' = [asked EXCEPT ![p] = w]
          /\ queue' = [queue EXCEPT ![p] = {f}]
    /\ resolved' = [resolved EXCEPT ![p] = quarter]
    /\ pc' = [pc EXCEPT ![p] = "delete"]
    /\ UNCHANGED <<clockVars, rowVars, flushVars, memoryVars, doomed>>

\* flush_ended_shifts: the list is read once, then flushed shift by shift.
StartSweep ==
    /\ pc[Sweep] = "idle"
    /\ EndedUnflushed # {}
    /\ queue' = [queue EXCEPT ![Sweep] = EndedUnflushed]
    /\ pc' = [pc EXCEPT ![Sweep] = "delete"]
    /\ UNCHANGED <<clockVars, rowVars, flushVars, memoryVars, asked, resolved, doomed>>

-----------------------------------------------------------------------------
(* flush_phi, one transaction.                                             *)

\* UPDATE shift_assignment, DELETE FROM agent_working_memory: not yet visible
\* to anyone else.
FlushDelete(p) ==
    /\ pc[p] = "delete"
    /\ ~ Locked(p)
    /\ doomed' = [doomed EXCEPT ![p] = memory]
    /\ pc' = [pc EXCEPT ![p] = "recount"]
    /\ UNCHANGED <<clockVars, rowVars, flushVars, memoryVars, asked, resolved, queue>>

RecountClean_Rowcount(p) == doomed[p] # {} \/ memory = {}  \* mutant: trusts the rowcount

RecountClean(p) == memory \subseteq doomed[p]

\* What the transaction writes on the shift it flushed.
Stamp(s, ok) ==
    /\ attempted' = attempted \cup {s}
    /\ verified' = IF ok THEN verified \cup {s} ELSE verified \ {s}

\* s is flushed and the session goes on.
Onward(p, s, step) ==
    /\ queue' = [queue EXCEPT ![p] = @ \ {s}]
    /\ doomed' = [doomed EXCEPT ![p] = {}]
    /\ pc' = [pc EXCEPT ![p] = step]
    /\ UNCHANGED <<asked, resolved>>

\* The recount sees every row committed since the DELETE; then the verdict is
\* written and all of it commits.  A verified flush lets a rotation go on; a
\* failed one ends it, and never ends the sweep.
FlushVerify(p) ==
    /\ pc[p] = "recount"
    /\ \E s \in Target(p) :
          /\ Stamp(s, RecountClean(p))
          /\ seen' = [seen EXCEPT ![s] = memory]
          /\ memory' = memory \ doomed[p]
          /\ \/ /\ queue[p] # {s}
                /\ Onward(p, s, "delete")
             \/ /\ queue[p] = {s}
                /\ p \in Requests /\ RecountClean(p)
                /\ Onward(p, s, "assign")
             \/ /\ queue[p] = {s}
                /\ p = Sweep \/ ~ RecountClean(p)
                /\ Finish(p)
    /\ UNCHANGED <<clockVars, rowVars, about, written>>

-----------------------------------------------------------------------------
(* assign_shift.                                                           *)

\* Its reads: the most recently ended shift must have a verified flush, and
\* the quarter must not be another venture's.
AssignCheck(p) ==
    /\ pc[p] = "assign"
    /\ Unblocked
    /\ ~ HeldByAnother(resolved[p], asked[p].venture)
    /\ pc' = [pc EXCEPT ![p] = "insert"]
    /\ UNCHANGED <<clockVars, rowVars, flushVars, memoryVars, asked, resolved, queue, doomed>>

\* ShiftBlocked, QuarterConflict.
RefuseAssign(p) ==
    /\ pc[p] = "assign"
    /\ \/ ~ Unblocked
       \/ HeldByAnother(resolved[p], asked[p].venture)
    /\ Finish(p)
    /\ UNCHANGED <<clockVars, rowVars, flushVars, memoryVars>>

Excluded_Overlap(p) == \E s \in assigned : Overlaps(s, asked[p])  \* mutant: no quarter rule

\* The two exclusion constraints of the table.
Excluded(p) ==
    \/ \E s \in assigned : Overlaps(s, asked[p])
    \/ HeldByAnother(resolved[p], asked[p].venture)

AddShift(p, s) ==
    /\ assigned' = assigned \cup {s}
    /\ venture' = [venture EXCEPT ![s] = asked[p].venture]
    /\ from' = [from EXCEPT ![s] = asked[p].from]
    /\ until' = [until EXCEPT ![s] = asked[p].until]
    /\ within' = [within EXCEPT ![s] = resolved[p]]
    /\ Finish(p)
    /\ UNCHANGED <<clockVars, flushVars, memoryVars>>

Insert(p) ==
    /\ pc[p] = "insert"
    /\ ~ Excluded(p)
    /\ \E s \in Shifts \ assigned : AddShift(p, s)

InsertExcluded(p) ==
    /\ pc[p] = "insert"
    /\ Excluded(p)
    /\ Finish(p)
    /\ UNCHANGED <<clockVars, rowVars, flushVars, memoryVars>>

\* The process dies, or the database or the audit log refuses: what the
\* session had not committed is rolled back, and it goes no further.
Abandon(p) ==
    /\ pc[p] # "idle"
    /\ Finish(p)
    /\ UNCHANGED <<clockVars, rowVars, flushVars, memoryVars>>

-----------------------------------------------------------------------------
(* The rest of the world.                                                  *)

\* sync_shifts.apply: the Village no longer has the agent on shift.  Nothing
\* is flushed here.
EndShift(s) ==
    /\ s \in CurrentShift
    /\ from[s] < now                     \* shift_ends_after_start
    /\ until' = [until EXCEPT ![s] = now]
    /\ UNCHANGED <<clockVars, assigned, venture, from, within, flushVars,
                   memoryVars, sessionVars>>

\* record_memory: no shift is looked up, so a call that began on a shift may
\* write for that shift's venture at any time after.
RecordMemory(r) ==
    /\ r \notin written
    /\ \E s \in assigned :
          /\ from[s] <= now
          /\ about' = [about EXCEPT ![r] = venture[s]]
    /\ memory' = memory \cup {r}
    /\ written' = written \cup {r}
    /\ UNCHANGED <<clockVars, rowVars, flushVars, sessionVars>>

Tick ==
    /\ now < MaxTime
    /\ now' = now + 1
    /\ UNCHANGED <<quarter, rowVars, flushVars, memoryVars, sessionVars>>

\* The Village's own calendar, which is not this clock.
RollOver ==
    /\ quarter < MaxQuarter
    /\ quarter' = quarter + 1
    /\ UNCHANGED <<now, rowVars, flushVars, memoryVars, sessionVars>>

Next ==
    \/ \E p \in Sessions :
          \/ Staff(p) \/ Rotate(p)
          \/ FlushDelete(p) \/ FlushVerify(p)
          \/ AssignCheck(p) \/ RefuseAssign(p)
          \/ Insert(p) \/ InsertExcluded(p) \/ Abandon(p)
    \/ StartSweep
    \/ \E s \in Shifts : EndShift(s)
    \/ \E r \in Memories : RecordMemory(r)
    \/ Tick \/ RollOver

Spec == Init /\ [][Next]_vars

\* sweeps.run_forever ticks for ever and survives its own failures, so a pass
\* starts when there is work, and from some time on it is not killed.  Row
\* locks are queued, so a sweep that waits for one is let through; and every
\* transaction ends, by commit or by disconnection.
Fairness ==
    /\ WF_vars(StartSweep)
    /\ SF_vars(FlushDelete(Sweep))
    /\ WF_vars(FlushVerify(Sweep))
    /\ \A p \in Requests : WF_vars(FlushVerify(p) \/ Abandon(p))
    /\ <>[][~ Abandon(Sweep)]_vars

FairSpec == Spec /\ Fairness

-----------------------------------------------------------------------------
(* Properties.                                                             *)

\* A flush recorded as verified left nothing its recount could see, however
\* writes, other flushes and deaths interleave with it (flush_phi).
FlushedIsGone == \A s \in verified : seen[s] \cap memory = {}

\* Two requests that both pass assign_shift's checks cannot put two ventures
\* in one agent-quarter, nor the agent on two shifts at once, and ending a
\* shift early does not either (the constraints behind assign_shift).
OneVenturePerQuarter ==
    /\ \A s, t \in assigned : within[s] = within[t] => venture[s] = venture[t]
    /\ \A s, t \in assigned : s # t => until[s] <= from[t] \/ until[t] <= from[s]

\* An assignment gets past its check only when the last shift to have ended
\* was flushed and nothing that flush saw is left; what was written since may
\* be (assign_shift, the block).
NoSwitchOverSurvivors ==
    [][\A p \in Sessions : pc[p] = "assign" /\ pc'[p] = "insert" =>
          \A s \in PreviousShift : s \in attempted /\ seen[s] \cap memory = {}]_vars

\* Every shift that has ended is flushed in the end, though one flush of a
\* pass may fail and others may be racing it (flush_ended_shifts).
EndedShiftIsFlushed ==
    \A s \in Shifts : s \in EndedShifts ~> s \in attempted

=============================================================================
