---------------------------- MODULE ShiftsProofs ----------------------------
(***************************************************************************)
(* What Shifts keeps for every number of shifts, ventures, memories and    *)
(* operators and every horizon.  The safety properties are not inductive   *)
(* alone: a flush writes its stamp on a shift taken from a queue, so the   *)
(* queue must hold rows that exist, and a memory written later must not be *)
(* one an earlier recount saw, so recounts see only ids already used.      *)
(***************************************************************************)
EXTENDS Shifts, TLAPS

QueuedExist == \A p \in Sessions : queue[p] \subseteq assigned

SeenWasWritten == \A s \in Shifts : seen[s] \subseteq written

IInv ==
    /\ TypeOK
    /\ QueuedExist
    /\ SeenWasWritten
    /\ FlushedIsGone
    /\ OneVenturePerQuarter

\* The invariant holds of an empty database (shift_assignment before any row).
LEMMA InitIInv == Init => IInv
<1>1. Init => TypeOK
  BY ShiftConstants DEF Init, TypeOK, Nothing, Windows, Times, Quarters, Steps
<1>2. Init => QueuedExist /\ SeenWasWritten /\ FlushedIsGone /\ OneVenturePerQuarter
  BY DEF Init, QueuedExist, SeenWasWritten, FlushedIsGone, OneVenturePerQuarter
<1>3. QED
  BY <1>1, <1>2 DEF IInv

\* Every step keeps the types: what is stamped is a row that exists.
LEMMA TypeStep ==
    ASSUME IInv, [Next]_vars
    PROVE  TypeOK'
<1> USE DEF IInv
<1>1. ASSUME NEW p \in Sessions, Staff(p)
      PROVE  TypeOK'
  BY <1>1, ShiftConstants DEF TypeOK, Steps, Windows, Staff, Wanted, clockVars, rowVars,
     flushVars, memoryVars
<1>2. ASSUME NEW p \in Sessions, Rotate(p)
      PROVE  TypeOK'
  BY <1>2, ShiftConstants DEF TypeOK, Steps, Windows, Rotate, Wanted, clockVars,
     rowVars, flushVars, memoryVars
<1>3. ASSUME NEW p \in Sessions, FlushDelete(p)
      PROVE  TypeOK'
  BY <1>3, ShiftConstants DEF TypeOK, Steps, FlushDelete, clockVars, rowVars, flushVars,
     memoryVars
<1>4. ASSUME NEW p \in Sessions, FlushVerify(p)
      PROVE  TypeOK'
  <2>1. PICK s \in Target(p) :
          /\ Stamp(s, RecountClean(p))
          /\ seen' = [seen EXCEPT ![s] = memory]
          /\ memory' = memory \ doomed[p]
          /\ \/ Onward(p, s, "delete")
             \/ Onward(p, s, "assign")
             \/ Finish(p)
    BY <1>4 DEF FlushVerify
  <2>2. s \in assigned /\ s \in Shifts
    BY <2>1, <1>4 DEF Target, QueuedExist, TypeOK
  <2>3. /\ verified' \subseteq attempted' /\ attempted' \subseteq assigned'
        /\ seen' \in [Shifts -> SUBSET Memories]
        /\ memory' \subseteq written' /\ written' \subseteq Memories
    BY <1>4, <2>1, <2>2 DEF TypeOK, FlushVerify, Stamp, rowVars
  <2>4. /\ pc' \in [Sessions -> Steps]
        /\ asked' \in [Sessions -> Windows]
        /\ resolved' \in [Sessions -> Quarters]
        /\ queue' \in [Sessions -> SUBSET Shifts]
        /\ doomed' \in [Sessions -> SUBSET Memories]
    <3>1. CASE Onward(p, s, "delete") \/ Onward(p, s, "assign")
      BY <3>1, <1>4 DEF TypeOK, Onward, Steps
    <3>2. CASE Finish(p)
      BY <3>2, <1>4, ShiftConstants DEF TypeOK, Finish, Steps, Nothing, Windows, Times,
         Quarters
    <3>3. QED
      BY <2>1, <3>1, <3>2
  <2>5. QED
    BY <1>4, <2>3, <2>4 DEF TypeOK, FlushVerify, clockVars, rowVars
<1>5. ASSUME NEW p \in Sessions, AssignCheck(p)
      PROVE  TypeOK'
  BY <1>5, ShiftConstants DEF TypeOK, Steps, AssignCheck, clockVars, rowVars, flushVars,
     memoryVars
<1>6. ASSUME NEW p \in Sessions, RefuseAssign(p)
      PROVE  TypeOK'
  BY <1>6, ShiftConstants DEF TypeOK, Steps, Times, Quarters, Windows, RefuseAssign,
     Finish, Nothing, clockVars, rowVars, flushVars, memoryVars
<1>7. ASSUME NEW p \in Sessions, Insert(p)
      PROVE  TypeOK'
  BY <1>7, ShiftConstants DEF TypeOK, Steps, Times, Quarters, Windows, Insert, AddShift,
     Finish, Nothing, clockVars, flushVars, memoryVars
<1>8. ASSUME NEW p \in Sessions, InsertExcluded(p)
      PROVE  TypeOK'
  BY <1>8, ShiftConstants DEF TypeOK, Steps, Times, Quarters, Windows, InsertExcluded,
     Finish, Nothing, clockVars, rowVars, flushVars, memoryVars
<1>9. ASSUME NEW p \in Sessions, Abandon(p)
      PROVE  TypeOK'
  BY <1>9, ShiftConstants DEF TypeOK, Steps, Times, Quarters, Windows, Abandon, Finish,
     Nothing, clockVars, rowVars, flushVars, memoryVars
<1>10. CASE StartSweep
  BY <1>10, ShiftConstants DEF TypeOK, Steps, StartSweep, EndedUnflushed, EndedShifts,
     clockVars, rowVars, flushVars, memoryVars
<1>11. ASSUME NEW s \in Shifts, EndShift(s)
      PROVE  TypeOK'
  BY <1>11, ShiftConstants DEF TypeOK, EndShift, clockVars, flushVars, memoryVars,
     sessionVars
<1>12. ASSUME NEW r \in Memories, RecordMemory(r)
      PROVE  TypeOK'
  BY <1>12, ShiftConstants DEF TypeOK, RecordMemory, clockVars, rowVars, flushVars,
     sessionVars
<1>13. CASE Tick
  BY <1>13, ShiftConstants DEF TypeOK, Times, Tick, rowVars, flushVars, memoryVars,
     sessionVars
<1>14. CASE RollOver
  BY <1>14, ShiftConstants DEF TypeOK, Quarters, RollOver, rowVars, flushVars,
     memoryVars, sessionVars
<1>15. CASE UNCHANGED vars
  BY <1>15 DEF TypeOK, vars, clockVars, rowVars, flushVars, memoryVars, sessionVars
<1>16. QED
  BY <1>1, <1>2, <1>3, <1>4, <1>5, <1>6, <1>7, <1>8, <1>9, <1>10, <1>11, <1>12, <1>13,
     <1>14, <1>15 DEF Next

\* Rows are never deleted, so a queued shift stays a row.
LEMMA QueueStep ==
    ASSUME IInv, [Next]_vars
    PROVE  QueuedExist'
<1> USE DEF IInv
<1>1. ASSUME NEW p \in Sessions, Staff(p)
      PROVE  QueuedExist'
  BY <1>1, ShiftConstants DEF QueuedExist, Staff, rowVars
<1>2. ASSUME NEW p \in Sessions, Rotate(p)
      PROVE  QueuedExist'
  BY <1>2, ShiftConstants DEF QueuedExist, Rotate, rowVars
<1>3. ASSUME NEW p \in Sessions, FlushDelete(p)
      PROVE  QueuedExist'
  BY <1>3, ShiftConstants DEF QueuedExist, FlushDelete, rowVars
<1>4. ASSUME NEW p \in Sessions, FlushVerify(p)
      PROVE  QueuedExist'
  BY <1>4, ShiftConstants DEF TypeOK, QueuedExist, FlushVerify, Onward, Finish, rowVars
<1>5. ASSUME NEW p \in Sessions, AssignCheck(p)
      PROVE  QueuedExist'
  BY <1>5, ShiftConstants DEF QueuedExist, AssignCheck, rowVars
<1>6. ASSUME NEW p \in Sessions, RefuseAssign(p)
      PROVE  QueuedExist'
  BY <1>6, ShiftConstants DEF QueuedExist, RefuseAssign, Finish, rowVars
<1>7. ASSUME NEW p \in Sessions, Insert(p)
      PROVE  QueuedExist'
  BY <1>7, ShiftConstants DEF QueuedExist, Insert, AddShift, Finish
<1>8. ASSUME NEW p \in Sessions, InsertExcluded(p)
      PROVE  QueuedExist'
  BY <1>8, ShiftConstants DEF QueuedExist, InsertExcluded, Finish, rowVars
<1>9. ASSUME NEW p \in Sessions, Abandon(p)
      PROVE  QueuedExist'
  BY <1>9, ShiftConstants DEF QueuedExist, Abandon, Finish, rowVars
<1>10. CASE StartSweep
  BY <1>10, ShiftConstants DEF QueuedExist, StartSweep, EndedUnflushed, EndedShifts,
     rowVars
<1>11. ASSUME NEW s \in Shifts, EndShift(s)
      PROVE  QueuedExist'
  BY <1>11, ShiftConstants DEF QueuedExist, EndShift, sessionVars
<1>12. ASSUME NEW r \in Memories, RecordMemory(r)
      PROVE  QueuedExist'
  BY <1>12, ShiftConstants DEF QueuedExist, RecordMemory, rowVars, sessionVars
<1>13. CASE Tick
  BY <1>13, ShiftConstants DEF QueuedExist, Tick, rowVars, sessionVars
<1>14. CASE RollOver
  BY <1>14, ShiftConstants DEF QueuedExist, RollOver, rowVars, sessionVars
<1>15. CASE UNCHANGED vars
  BY <1>15 DEF QueuedExist, vars, rowVars, sessionVars
<1>16. QED
  BY <1>1, <1>2, <1>3, <1>4, <1>5, <1>6, <1>7, <1>8, <1>9, <1>10, <1>11, <1>12, <1>13,
     <1>14, <1>15 DEF Next

\* A recount sees only rows that were written before it.
LEMMA SeenStep ==
    ASSUME IInv, [Next]_vars
    PROVE  SeenWasWritten'
<1> USE DEF IInv
<1>1. ASSUME NEW p \in Sessions, Staff(p)
      PROVE  SeenWasWritten'
  BY <1>1, ShiftConstants DEF SeenWasWritten, Staff, flushVars, memoryVars
<1>2. ASSUME NEW p \in Sessions, Rotate(p)
      PROVE  SeenWasWritten'
  BY <1>2, ShiftConstants DEF SeenWasWritten, Rotate, flushVars, memoryVars
<1>3. ASSUME NEW p \in Sessions, FlushDelete(p)
      PROVE  SeenWasWritten'
  BY <1>3, ShiftConstants DEF SeenWasWritten, FlushDelete, flushVars, memoryVars
<1>4. ASSUME NEW p \in Sessions, FlushVerify(p)
      PROVE  SeenWasWritten'
  BY <1>4, ShiftConstants DEF TypeOK, SeenWasWritten, FlushVerify
<1>5. ASSUME NEW p \in Sessions, AssignCheck(p)
      PROVE  SeenWasWritten'
  BY <1>5, ShiftConstants DEF SeenWasWritten, AssignCheck, flushVars, memoryVars
<1>6. ASSUME NEW p \in Sessions, RefuseAssign(p)
      PROVE  SeenWasWritten'
  BY <1>6, ShiftConstants DEF SeenWasWritten, RefuseAssign, flushVars, memoryVars
<1>7. ASSUME NEW p \in Sessions, Insert(p)
      PROVE  SeenWasWritten'
  BY <1>7, ShiftConstants DEF SeenWasWritten, Insert, AddShift, flushVars, memoryVars
<1>8. ASSUME NEW p \in Sessions, InsertExcluded(p)
      PROVE  SeenWasWritten'
  BY <1>8, ShiftConstants DEF SeenWasWritten, InsertExcluded, flushVars, memoryVars
<1>9. ASSUME NEW p \in Sessions, Abandon(p)
      PROVE  SeenWasWritten'
  BY <1>9, ShiftConstants DEF SeenWasWritten, Abandon, flushVars, memoryVars
<1>10. CASE StartSweep
  BY <1>10, ShiftConstants DEF SeenWasWritten, StartSweep, flushVars, memoryVars
<1>11. ASSUME NEW s \in Shifts, EndShift(s)
      PROVE  SeenWasWritten'
  BY <1>11, ShiftConstants DEF SeenWasWritten, EndShift, flushVars, memoryVars
<1>12. ASSUME NEW r \in Memories, RecordMemory(r)
      PROVE  SeenWasWritten'
  BY <1>12, ShiftConstants DEF SeenWasWritten, RecordMemory, flushVars
<1>13. CASE Tick
  BY <1>13, ShiftConstants DEF SeenWasWritten, Tick, flushVars, memoryVars
<1>14. CASE RollOver
  BY <1>14, ShiftConstants DEF SeenWasWritten, RollOver, flushVars, memoryVars
<1>15. CASE UNCHANGED vars
  BY <1>15 DEF SeenWasWritten, vars, flushVars, memoryVars
<1>16. QED
  BY <1>1, <1>2, <1>3, <1>4, <1>5, <1>6, <1>7, <1>8, <1>9, <1>10, <1>11, <1>12, <1>13,
     <1>14, <1>15 DEF Next

\* A verified recount saw only rows its own transaction deletes.
LEMMA FlushedStep ==
    ASSUME IInv, [Next]_vars
    PROVE  FlushedIsGone'
<1> USE DEF IInv
<1>1. ASSUME NEW p \in Sessions, Staff(p)
      PROVE  FlushedIsGone'
  BY <1>1, ShiftConstants DEF FlushedIsGone, Staff, flushVars, memoryVars
<1>2. ASSUME NEW p \in Sessions, Rotate(p)
      PROVE  FlushedIsGone'
  BY <1>2, ShiftConstants DEF FlushedIsGone, Rotate, flushVars, memoryVars
<1>3. ASSUME NEW p \in Sessions, FlushDelete(p)
      PROVE  FlushedIsGone'
  BY <1>3, ShiftConstants DEF FlushedIsGone, FlushDelete, flushVars, memoryVars
<1>4. ASSUME NEW p \in Sessions, FlushVerify(p)
      PROVE  FlushedIsGone'
  BY <1>4, ShiftConstants DEF FlushedIsGone, FlushVerify, Stamp, RecountClean
<1>5. ASSUME NEW p \in Sessions, AssignCheck(p)
      PROVE  FlushedIsGone'
  BY <1>5, ShiftConstants DEF FlushedIsGone, AssignCheck, flushVars, memoryVars
<1>6. ASSUME NEW p \in Sessions, RefuseAssign(p)
      PROVE  FlushedIsGone'
  BY <1>6, ShiftConstants DEF FlushedIsGone, RefuseAssign, flushVars, memoryVars
<1>7. ASSUME NEW p \in Sessions, Insert(p)
      PROVE  FlushedIsGone'
  BY <1>7, ShiftConstants DEF FlushedIsGone, Insert, AddShift, flushVars, memoryVars
<1>8. ASSUME NEW p \in Sessions, InsertExcluded(p)
      PROVE  FlushedIsGone'
  BY <1>8, ShiftConstants DEF FlushedIsGone, InsertExcluded, flushVars, memoryVars
<1>9. ASSUME NEW p \in Sessions, Abandon(p)
      PROVE  FlushedIsGone'
  BY <1>9, ShiftConstants DEF FlushedIsGone, Abandon, flushVars, memoryVars
<1>10. CASE StartSweep
  BY <1>10, ShiftConstants DEF FlushedIsGone, StartSweep, flushVars, memoryVars
<1>11. ASSUME NEW s \in Shifts, EndShift(s)
      PROVE  FlushedIsGone'
  BY <1>11, ShiftConstants DEF FlushedIsGone, EndShift, flushVars, memoryVars
<1>12. ASSUME NEW r \in Memories, RecordMemory(r)
      PROVE  FlushedIsGone'
  BY <1>12, ShiftConstants DEF TypeOK, FlushedIsGone, SeenWasWritten, RecordMemory,
     flushVars
<1>13. CASE Tick
  BY <1>13, ShiftConstants DEF FlushedIsGone, Tick, flushVars, memoryVars
<1>14. CASE RollOver
  BY <1>14, ShiftConstants DEF FlushedIsGone, RollOver, flushVars, memoryVars
<1>15. CASE UNCHANGED vars
  BY <1>15 DEF FlushedIsGone, vars, flushVars, memoryVars
<1>16. QED
  BY <1>1, <1>2, <1>3, <1>4, <1>5, <1>6, <1>7, <1>8, <1>9, <1>10, <1>11, <1>12, <1>13,
     <1>14, <1>15 DEF Next

\* The exclusion constraints guard every row that is added, and ending a
\* shift early only shrinks its window.
LEMMA CalendarStep ==
    ASSUME IInv, [Next]_vars
    PROVE  OneVenturePerQuarter'
<1> USE DEF IInv
<1>1. ASSUME NEW p \in Sessions, Staff(p)
      PROVE  OneVenturePerQuarter'
  BY <1>1, ShiftConstants DEF OneVenturePerQuarter, Staff, rowVars
<1>2. ASSUME NEW p \in Sessions, Rotate(p)
      PROVE  OneVenturePerQuarter'
  BY <1>2, ShiftConstants DEF OneVenturePerQuarter, Rotate, rowVars
<1>3. ASSUME NEW p \in Sessions, FlushDelete(p)
      PROVE  OneVenturePerQuarter'
  BY <1>3, ShiftConstants DEF OneVenturePerQuarter, FlushDelete, rowVars
<1>4. ASSUME NEW p \in Sessions, FlushVerify(p)
      PROVE  OneVenturePerQuarter'
  BY <1>4, ShiftConstants DEF OneVenturePerQuarter, FlushVerify, rowVars
<1>5. ASSUME NEW p \in Sessions, AssignCheck(p)
      PROVE  OneVenturePerQuarter'
  BY <1>5, ShiftConstants DEF OneVenturePerQuarter, AssignCheck, rowVars
<1>6. ASSUME NEW p \in Sessions, RefuseAssign(p)
      PROVE  OneVenturePerQuarter'
  BY <1>6, ShiftConstants DEF OneVenturePerQuarter, RefuseAssign, rowVars
<1>7. ASSUME NEW p \in Sessions, Insert(p)
      PROVE  OneVenturePerQuarter'
  <2>1. PICK s \in Shifts \ assigned : AddShift(p, s)
    BY <1>7 DEF Insert
  <2>2. ASSUME NEW t \in assigned
        PROVE  /\ within'[t] = within'[s] => venture'[t] = venture'[s]
               /\ until'[t] <= from'[s] \/ until'[s] <= from'[t]
    <3>1. /\ t # s /\ t \in Shifts
          /\ ~ Overlaps(t, asked[p])
          /\ ~ (within[t] = resolved[p] /\ venture[t] # asked[p].venture)
      BY <1>7, <2>1 DEF Insert, Excluded, HeldByAnother, TypeOK
    <3>2. /\ from'[t] = from[t] /\ until'[t] = until[t]
          /\ within'[t] = within[t] /\ venture'[t] = venture[t]
          /\ from'[s] = asked[p].from /\ until'[s] = asked[p].until
          /\ within'[s] = resolved[p] /\ venture'[s] = asked[p].venture
      BY <3>1, <2>1 DEF AddShift, TypeOK
    <3>3. /\ from[t] \in Int /\ until[t] \in Int
          /\ asked[p].from \in Int /\ asked[p].until \in Int
      BY <3>1, ShiftConstants DEF TypeOK, Windows, Times
    <3>4. QED
      BY <3>1, <3>2, <3>3 DEF Overlaps
  <2>3. \A t \in assigned : /\ from'[t] = from[t] /\ until'[t] = until[t]
                            /\ within'[t] = within[t] /\ venture'[t] = venture[t]
    BY <2>1 DEF AddShift
  <2>4. assigned' = assigned \cup {s}
    BY <2>1 DEF AddShift
  <2>5. QED
    BY <2>2, <2>3, <2>4 DEF OneVenturePerQuarter
<1>8. ASSUME NEW p \in Sessions, InsertExcluded(p)
      PROVE  OneVenturePerQuarter'
  BY <1>8, ShiftConstants DEF OneVenturePerQuarter, InsertExcluded, rowVars
<1>9. ASSUME NEW p \in Sessions, Abandon(p)
      PROVE  OneVenturePerQuarter'
  BY <1>9, ShiftConstants DEF OneVenturePerQuarter, Abandon, rowVars
<1>10. CASE StartSweep
  BY <1>10, ShiftConstants DEF OneVenturePerQuarter, StartSweep, rowVars
<1>11. ASSUME NEW s \in Shifts, EndShift(s)
      PROVE  OneVenturePerQuarter'
  BY <1>11, ShiftConstants DEF TypeOK, OneVenturePerQuarter, Times, EndShift,
     CurrentShift
<1>12. ASSUME NEW r \in Memories, RecordMemory(r)
      PROVE  OneVenturePerQuarter'
  BY <1>12, ShiftConstants DEF OneVenturePerQuarter, RecordMemory, rowVars
<1>13. CASE Tick
  BY <1>13, ShiftConstants DEF OneVenturePerQuarter, Tick, rowVars
<1>14. CASE RollOver
  BY <1>14, ShiftConstants DEF OneVenturePerQuarter, RollOver, rowVars
<1>15. CASE UNCHANGED vars
  BY <1>15 DEF OneVenturePerQuarter, vars, rowVars
<1>16. QED
  BY <1>1, <1>2, <1>3, <1>4, <1>5, <1>6, <1>7, <1>8, <1>9, <1>10, <1>11, <1>12, <1>13,
     <1>14, <1>15 DEF Next

THEOREM Invariance == Spec => []IInv
<1>1. ASSUME IInv, [Next]_vars
      PROVE  IInv'
  BY <1>1, TypeStep, QueueStep, SeenStep, FlushedStep, CalendarStep DEF IInv
<1>2. QED
  BY InitIInv, <1>1, PTL DEF Spec

\* The variables keep their types and no shift is verified that was not
\* attempted (flush_verified_implies_completed).
THEOREM TypeCorrect == Spec => []TypeOK
<1>1. IInv => TypeOK
  BY DEF IInv
<1>2. QED
  BY <1>1, Invariance, PTL

\* A verified flush left nothing its recount could see (flush_phi).
THEOREM FlushedIsGoneHolds == Spec => []FlushedIsGone
<1>1. IInv => FlushedIsGone
  BY DEF IInv
<1>2. QED
  BY <1>1, Invariance, PTL

\* One venture per agent-quarter and one shift at a time, whatever races
\* whatever (the exclusion constraints behind assign_shift).
THEOREM OneVenturePerQuarterHolds == Spec => []OneVenturePerQuarter
<1>1. IInv => OneVenturePerQuarter
  BY DEF IInv
<1>2. QED
  BY <1>1, Invariance, PTL

\* No assignment gets past its check over an unflushed shift or over memory
\* that the last shift's flush saw (assign_shift).
THEOREM NoSwitchOverSurvivorsHolds == Spec => NoSwitchOverSurvivors
<1> DEFINE Safe == \A p \in Sessions : pc[p] = "assign" /\ pc'[p] = "insert" =>
                      \A s \in PreviousShift : s \in attempted /\ seen[s] \cap memory = {}
<1>1. ASSUME IInv, [Next]_vars
      PROVE  Safe
  <2> SUFFICES ASSUME NEW q \in Sessions, pc[q] = "assign", pc'[q] = "insert"
               PROVE  \A s \in PreviousShift : s \in attempted /\ seen[s] \cap memory = {}
    OBVIOUS
  <2>1. AssignCheck(q)
    <3>1. PICK p \in Sessions : AssignCheck(p)
      BY <1>1 DEF IInv, TypeOK, Next, Staff, Rotate, FlushDelete, FlushVerify, Onward,
         Finish, RefuseAssign, Insert, AddShift, InsertExcluded, Abandon, StartSweep,
         EndShift, RecordMemory, Tick, RollOver, vars, sessionVars
    <3>2. QED
      BY <1>1, <3>1 DEF IInv, TypeOK, AssignCheck
  <2>2. PreviousShift \subseteq verified
    BY <2>1 DEF AssignCheck, Unblocked
  <2>3. QED
    BY <1>1, <2>2 DEF IInv, TypeOK, FlushedIsGone
<1>2. QED
  BY <1>1, Invariance, PTL DEF Spec, NoSwitchOverSurvivors
=============================================================================
