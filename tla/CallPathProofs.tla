--------------------------- MODULE CallPathProofs ---------------------------
(***************************************************************************)
(* TLAPS proofs about CallPath, for any agents, keys and calls.  IInv is   *)
(* the inductive invariant: what TLC checks on three calls, strengthened   *)
(* by what is true of a call at each of its steps.                         *)
(***************************************************************************)
EXTENDS CallPath, TLAPS

Early   == {"idle", "resolve", "govern", "tier"}
Guarded == {"intent", "execute", "ledger", "spend"}   \* past the at_most_once guard
Acting  == Guarded \cup {"dup"}                       \* past the tier gate
Granted == {"approved", "executed", "failed"}

\* A call that has not passed the tier gate has submitted nothing, acts on no
\* approval and has contacted nobody; one that spends was answered.
Phases ==
    /\ answered \subseteq reached
    /\ \A c \in Calls : pc[c] \in Early =>
          status[c] = "none" /\ auth[c] = Nobody /\ c \notin reached
    /\ \A c \in Calls : pc[c] = "idle" => before[c] = {}
    /\ \A c \in Calls : pc[c] = "spend" =>
          auth[c] # Nobody /\ c \in answered /\ c \in ledger
    /\ \A c \in Calls : pc[c] = "failMark" => target[c] \in Calls
    /\ \A c \in Calls : pc[c] # "idle" => who[c] \in Agents

\* What a proposal row's columns say about each other.
Rows ==
    /\ \A p \in Calls : status[p] \in Granted => decidedAt[p] > 0
    /\ \A p \in Calls : executedBy[p] # Nobody => status[p] = "executed"

\* An approval a call acts on was given, for the same act; below auto_execute
\* there is one.
Authorised ==
    /\ \A c \in Calls : auth[c] # Nobody =>
          SameAct(auth[c], c) /\ status[auth[c]] \in Granted
    /\ \A c \in Calls :
          (pc[c] \in Acting \/ c \in reached) /\ tier[c] # AutoExecute => auth[c] # Nobody

\* The intent entry of a mutating call precedes its request.
Recorded ==
    \A c \in Calls :
        (pc[c] = "execute" \/ c \in reached) /\ what[c] \in Mutating => c \in intents

\* Calls in before[c] have ended, so what the guard read of them stays true.
Ordered ==
    /\ \A c \in Calls : \A d \in before[c] : pc[d] \in Ended
    /\ \A c \in Calls :
          (pc[c] \in Guarded \/ c \in reached) /\ what[c] \in AtMostOnce =>
              ~ \E d \in before[c] : SameAct(c, d) /\ d \in ledger

IInv ==
    /\ TypeOK
    /\ Phases
    /\ Rows
    /\ Authorised
    /\ Recorded
    /\ Ordered
    /\ ExecutedIsLedgered
    /\ KillSwitch
    /\ SpentApprovalIsGone
-----------------------------------------------------------------------------
USE CallConstants DEF callVars, rowVars, logVars, Goto

\* A call begins.
LEMMA StartKeeps == ASSUME IInv, NEW c \in Calls, NEW a \in Agents, NEW k \in
     Keys, Start(c, a, k) PROVE IInv'
<1>1. (Rows)'
  BY DEF IInv, Start, Rows
<1>2. TypeOK'
  BY DEF IInv, TypeOK, Start, Running
<1>3. Phases'
  BY DEF IInv, TypeOK, Start, Phases, Early
<1>4. Authorised'
  <2>1. ASSUME NEW d \in Calls, auth'[d] # Nobody
        PROVE  SameAct(auth[d], d)' /\ status'[auth'[d]] \in Granted
    BY <2>1 DEF IInv, Start, Authorised, SameAct, Granted, Phases, Early
  <2>2. ASSUME NEW d \in Calls, pc'[d] \in Acting \/ d \in reached',
               tier'[d] # AutoExecute
        PROVE  auth'[d] # Nobody
    BY <2>2 DEF IInv, Start, Authorised, Acting, Guarded
  <2> QED
    BY <2>1, <2>2 DEF Authorised
<1>5. Recorded'
  BY DEF IInv, Start, Recorded, Phases, Early
<1>6. Ordered'
  BY DEF IInv, Start, Ordered, SameAct, Guarded, Ended, Phases, Early
<1>7. ExecutedIsLedgered'
  BY DEF IInv, Start, ExecutedIsLedgered, SameAct, Phases, Early
<1>8. KillSwitch'
  BY DEF IInv, Start, KillSwitch, PastRevocation
<1>9. SpentApprovalIsGone'
  BY DEF IInv, Start, SpentApprovalIsGone, Phases, Early
<1> QED
  BY <1>1, <1>2, <1>3, <1>4, <1>5, <1>6, <1>7, <1>8, <1>9 DEF IInv

\* The steps of a call, in its order.
LEMMA ResolveGrantKeeps == ASSUME IInv, NEW c \in Calls, ResolveGrant(c) PROVE
     IInv'
<1>1. (Rows /\ ExecutedIsLedgered /\ SpentApprovalIsGone)'
  BY DEF IInv, ResolveGrant, Rows, ExecutedIsLedgered, SpentApprovalIsGone, SameAct
<1>2. TypeOK'
  BY DEF IInv, TypeOK, ResolveGrant, Running, Ended
<1>3. Phases'
  BY DEF IInv, TypeOK, ResolveGrant, Phases, Early
<1>4. Authorised'
  <2>1. ASSUME NEW d \in Calls, auth'[d] # Nobody
        PROVE  SameAct(auth[d], d)' /\ status'[auth'[d]] \in Granted
    BY <2>1 DEF IInv, ResolveGrant, Authorised, SameAct
  <2>2. ASSUME NEW d \in Calls, pc'[d] \in Acting \/ d \in reached',
               tier'[d] # AutoExecute
        PROVE  auth'[d] # Nobody
    <3>1. CASE d = c
      BY <2>2, <3>1 DEF IInv, TypeOK, ResolveGrant, Acting, Guarded, Phases, Early
    <3>2. CASE d # c
      BY <2>2, <3>2 DEF IInv, TypeOK, ResolveGrant, Authorised
    <3> QED
      BY <3>1, <3>2
  <2> QED
    BY <2>1, <2>2 DEF Authorised
<1>5. Recorded'
  BY DEF IInv, TypeOK, ResolveGrant, Recorded, AutoExecute
<1>6. Ordered'
  BY DEF IInv, TypeOK, ResolveGrant, Ordered, SameAct, Guarded, Ended
<1>7. KillSwitch'
  BY DEF IInv, TypeOK, ResolveGrant, KillSwitch, PastRevocation, AutoExecute
<1> QED
  BY <1>1, <1>2, <1>3, <1>4, <1>5, <1>6, <1>7 DEF IInv

LEMMA PassGatesKeeps == ASSUME IInv, NEW c \in Calls, PassGates(c) PROVE IInv'
<1>1. (Rows /\ ExecutedIsLedgered /\ SpentApprovalIsGone)'
  BY DEF IInv, PassGates, Rows, ExecutedIsLedgered, SpentApprovalIsGone, SameAct
<1>2. TypeOK'
  <2>1. \A s \in BOOLEAN : EffectiveTier(tier[c], s) \in Tiers
    BY DEF IInv, TypeOK, EffectiveTier, Tiers
  <2> QED
    BY <2>1 DEF IInv, TypeOK, PassGates, Running
<1>3. Phases'
  BY DEF IInv, PassGates, Phases, Early
<1>4. Authorised'
  <2>1. ASSUME NEW d \in Calls, auth'[d] # Nobody
        PROVE  SameAct(auth[d], d)' /\ status'[auth'[d]] \in Granted
    BY <2>1 DEF IInv, PassGates, Authorised, SameAct
  <2>2. ASSUME NEW d \in Calls, pc'[d] \in Acting \/ d \in reached',
               tier'[d] # AutoExecute
        PROVE  auth'[d] # Nobody
    BY <2>2 DEF IInv, PassGates, Authorised, Acting, Guarded, Phases, Early
  <2> QED
    BY <2>1, <2>2 DEF Authorised
<1>5. Recorded'
  BY DEF IInv, PassGates, Recorded
<1>6. Ordered'
  BY DEF IInv, PassGates, Ordered, SameAct, Guarded, Ended
<1>7. KillSwitch'
  BY DEF IInv, PassGates, KillSwitch
<1> QED
  BY <1>1, <1>2, <1>3, <1>4, <1>5, <1>6, <1>7 DEF IInv

LEMMA RefuseAtGateKeeps == ASSUME IInv, NEW c \in Calls, RefuseAtGate(c) PROVE
     IInv'
<1>1. (Rows /\ ExecutedIsLedgered /\ SpentApprovalIsGone)'
  BY DEF IInv, RefuseAtGate, Rows, ExecutedIsLedgered, SpentApprovalIsGone, SameAct
<1>2. TypeOK'
  BY DEF IInv, TypeOK, RefuseAtGate, Running
<1>3. Phases'
  BY DEF IInv, RefuseAtGate, Phases, Early
<1>4. Authorised'
  BY DEF IInv, RefuseAtGate, Authorised, SameAct, Acting, Guarded
<1>5. Recorded'
  BY DEF IInv, RefuseAtGate, Recorded
<1>6. Ordered'
  BY DEF IInv, RefuseAtGate, Ordered, SameAct, Guarded, Ended
<1>7. KillSwitch'
  BY DEF IInv, RefuseAtGate, KillSwitch, PastRevocation
<1> QED
  BY <1>1, <1>2, <1>3, <1>4, <1>5, <1>6, <1>7 DEF IInv

LEMMA PassTierKeeps == ASSUME IInv, NEW c \in Calls, PassTier(c) PROVE IInv'
<1>1. (Rows /\ ExecutedIsLedgered)'
  BY DEF IInv, PassTier, Rows, ExecutedIsLedgered, SameAct
<1>2. TypeOK'
  BY DEF IInv, TypeOK, PassTier, Running, ApprovedFor, Latest
<1>3. Phases'
  BY DEF IInv, TypeOK, PassTier, Phases, Early, Latest
<1>4. Authorised'
  <2>1. ASSUME NEW d \in Calls, auth'[d] # Nobody
        PROVE  SameAct(auth[d], d)' /\ status'[auth'[d]] \in Granted
    BY <2>1 DEF IInv, TypeOK, PassTier, Authorised, SameAct, Granted, ApprovedFor,
       Latest
  <2>2. ASSUME NEW d \in Calls, pc'[d] \in Acting \/ d \in reached',
               tier'[d] # AutoExecute
        PROVE  auth'[d] # Nobody
    <3>1. CASE d = c
      <4>1. tier[c] # AutoExecute
        BY <2>2, <3>1 DEF PassTier
      <4>2. PICK p \in ApprovedFor(c) :
                Latest(p, ApprovedFor(c)) /\ auth' = [auth EXCEPT ![c] = p]
        BY <4>1 DEF PassTier
      <4> QED
        BY <3>1, <4>2 DEF IInv, TypeOK, ApprovedFor
    <3>2. CASE d # c
      BY <2>2, <3>2 DEF IInv, TypeOK, PassTier, Authorised
    <3> QED
      BY <3>1, <3>2
  <2> QED
    BY <2>1, <2>2 DEF Authorised
<1>5. Recorded'
  BY DEF IInv, PassTier, Recorded
<1>6. Ordered'
  BY DEF IInv, PassTier, Ordered, SameAct, Guarded, Ended
<1>7. KillSwitch'
  BY DEF IInv, PassTier, KillSwitch, PastRevocation
<1>8. SpentApprovalIsGone'
  BY DEF IInv, TypeOK, PassTier, SpentApprovalIsGone, Rows, ApprovedFor, Latest
<1> QED
  BY <1>1, <1>2, <1>3, <1>4, <1>5, <1>6, <1>7, <1>8 DEF IInv

LEMMA SubmitKeeps == ASSUME IInv, NEW c \in Calls, Submit(c) PROVE IInv'
<1>1. (SpentApprovalIsGone)'
  BY DEF IInv, Submit, SpentApprovalIsGone
<1>2. TypeOK'
  BY DEF IInv, TypeOK, Submit, Running, Statuses
<1>3. Phases'
  BY DEF IInv, TypeOK, Submit, Phases, Early
<1>4. Rows'
  BY DEF IInv, Submit, Rows, Granted, Phases, Early
<1>5. Authorised'
  <2>1. ASSUME NEW d \in Calls, auth'[d] # Nobody
        PROVE  SameAct(auth[d], d)' /\ status'[auth'[d]] \in Granted
    BY <2>1 DEF IInv, Submit, Authorised, SameAct, Granted, Phases, Early
  <2>2. ASSUME NEW d \in Calls, pc'[d] \in Acting \/ d \in reached',
               tier'[d] # AutoExecute
        PROVE  auth'[d] # Nobody
    BY <2>2 DEF IInv, Submit, Authorised, Acting, Guarded
  <2> QED
    BY <2>1, <2>2 DEF Authorised
<1>6. Recorded'
  BY DEF IInv, Submit, Recorded
<1>7. Ordered'
  BY DEF IInv, Submit, Ordered, SameAct, Guarded, Ended
<1>8. ExecutedIsLedgered'
  BY DEF IInv, Submit, ExecutedIsLedgered, SameAct
<1>9. KillSwitch'
  BY DEF IInv, Submit, KillSwitch, PastRevocation
<1> QED
  BY <1>1, <1>2, <1>3, <1>4, <1>5, <1>6, <1>7, <1>8, <1>9 DEF IInv

LEMMA PassDuplicateKeeps == ASSUME IInv, NEW c \in Calls, PassDuplicate(c)
     PROVE IInv'
<1>1. (Rows /\ ExecutedIsLedgered /\ SpentApprovalIsGone)'
  BY DEF IInv, PassDuplicate, Rows, ExecutedIsLedgered, SpentApprovalIsGone, SameAct
<1>2. TypeOK'
  BY DEF IInv, TypeOK, PassDuplicate, Running
<1>3. Phases'
  BY DEF IInv, PassDuplicate, Phases, Early
<1>4. Authorised'
  BY DEF IInv, PassDuplicate, Authorised, SameAct, Acting
<1>5. Recorded'
  BY DEF IInv, PassDuplicate, Recorded
<1>6. Ordered'
  BY DEF IInv, PassDuplicate, Ordered, SameAct, Ended, HasPriorCall
<1>7. KillSwitch'
  BY DEF IInv, PassDuplicate, KillSwitch, PastRevocation
<1> QED
  BY <1>1, <1>2, <1>3, <1>4, <1>5, <1>6, <1>7 DEF IInv

LEMMA RefuseAtDuplicateKeeps == ASSUME IInv, NEW c \in Calls,
     RefuseAtDuplicate(c) PROVE IInv'
<1>1. (Rows /\ ExecutedIsLedgered /\ SpentApprovalIsGone)'
  BY DEF IInv, RefuseAtDuplicate, Rows, ExecutedIsLedgered, SpentApprovalIsGone, SameAct
<1>2. TypeOK'
  BY DEF IInv, TypeOK, RefuseAtDuplicate, Running
<1>3. Phases'
  BY DEF IInv, RefuseAtDuplicate, Phases, Early
<1>4. Authorised'
  BY DEF IInv, RefuseAtDuplicate, Authorised, SameAct, Acting
<1>5. Recorded'
  BY DEF IInv, RefuseAtDuplicate, Recorded
<1>6. Ordered'
  BY SMTT(30) DEF IInv, RefuseAtDuplicate, Ordered, SameAct, Guarded, Ended
<1>7. KillSwitch'
  BY DEF IInv, RefuseAtDuplicate, KillSwitch, PastRevocation
<1> QED
  BY <1>1, <1>2, <1>3, <1>4, <1>5, <1>6, <1>7 DEF IInv

LEMMA AuditIntentKeeps == ASSUME IInv, NEW c \in Calls, AuditIntent(c) PROVE
     IInv'
<1>1. (Rows /\ ExecutedIsLedgered /\ SpentApprovalIsGone)'
  BY DEF IInv, AuditIntent, Rows, ExecutedIsLedgered, SpentApprovalIsGone, SameAct
<1>2. TypeOK'
  BY DEF IInv, TypeOK, AuditIntent, Running
<1>3. Phases'
  BY DEF IInv, AuditIntent, Phases, Early
<1>4. Authorised'
  BY DEF IInv, AuditIntent, Authorised, SameAct, Acting, Guarded
<1>5. Recorded'
  BY DEF IInv, AuditIntent, Recorded
<1>6. Ordered'
  BY DEF IInv, AuditIntent, Ordered, SameAct, Guarded, Ended
<1>7. KillSwitch'
  BY DEF IInv, AuditIntent, KillSwitch, PastRevocation
<1> QED
  BY <1>1, <1>2, <1>3, <1>4, <1>5, <1>6, <1>7 DEF IInv

LEMMA AuditIntentFailsKeeps == ASSUME IInv, NEW c \in Calls,
     AuditIntentFails(c) PROVE IInv'
<1>1. (Rows /\ ExecutedIsLedgered /\ SpentApprovalIsGone)'
  BY DEF IInv, AuditIntentFails, Rows, ExecutedIsLedgered, SpentApprovalIsGone, SameAct
<1>2. TypeOK'
  BY DEF IInv, TypeOK, AuditIntentFails, Running
<1>3. Phases'
  BY DEF IInv, AuditIntentFails, Phases, Early
<1>4. Authorised'
  BY DEF IInv, AuditIntentFails, Authorised, SameAct, Acting, Guarded
<1>5. Recorded'
  BY DEF IInv, AuditIntentFails, Recorded
<1>6. Ordered'
  BY DEF IInv, AuditIntentFails, Ordered, SameAct, Guarded, Ended
<1>7. KillSwitch'
  BY DEF IInv, AuditIntentFails, KillSwitch, PastRevocation
<1> QED
  BY <1>1, <1>2, <1>3, <1>4, <1>5, <1>6, <1>7 DEF IInv

LEMMA ExecuteKeeps == ASSUME IInv, NEW c \in Calls, Execute(c) PROVE IInv'
<1>1. (Rows /\ SpentApprovalIsGone)'
  BY DEF IInv, Execute, Rows, SpentApprovalIsGone
<1>2. TypeOK'
  BY DEF IInv, TypeOK, Execute, Running
<1>3. Phases'
  BY DEF IInv, Execute, Phases, Early
<1>4. Authorised'
  BY DEF IInv, Execute, Authorised, SameAct, Acting, Guarded
<1>5. Recorded'
  BY DEF IInv, Execute, Recorded
<1>6. Ordered'
  BY DEF IInv, Execute, Ordered, SameAct, Guarded, Ended
<1>7. ExecutedIsLedgered'
  BY DEF IInv, Execute, ExecutedIsLedgered, SameAct
<1>8. KillSwitch'
  BY DEF IInv, Execute, KillSwitch, PastRevocation
<1> QED
  BY <1>1, <1>2, <1>3, <1>4, <1>5, <1>6, <1>7, <1>8 DEF IInv

LEMMA WriteLedgerKeeps == ASSUME IInv, NEW c \in Calls, WriteLedger(c) PROVE
     IInv'
<1>1. (Rows /\ SpentApprovalIsGone)'
  BY DEF IInv, WriteLedger, Rows, SpentApprovalIsGone
<1>2. TypeOK'
  BY SMTT(30) DEF IInv, TypeOK, WriteLedger, Running, Ended
<1>3. Phases'
  BY DEF IInv, WriteLedger, Phases, Early
<1>4. Authorised'
  BY DEF IInv, WriteLedger, Authorised, SameAct, Acting, Guarded
<1>5. Recorded'
  BY DEF IInv, WriteLedger, Recorded
<1>6. Ordered'
  BY DEF IInv, WriteLedger, Ordered, SameAct, Guarded, Ended
<1>7. ExecutedIsLedgered'
  BY DEF IInv, WriteLedger, ExecutedIsLedgered, SameAct
<1>8. KillSwitch'
  BY DEF IInv, WriteLedger, KillSwitch, PastRevocation
<1> QED
  BY <1>1, <1>2, <1>3, <1>4, <1>5, <1>6, <1>7, <1>8 DEF IInv

LEMMA MarkExecutedKeeps == ASSUME IInv, NEW c \in Calls, MarkExecuted(c) PROVE
     IInv'
<1>1. TypeOK'
  BY DEF IInv, TypeOK, MarkExecuted, Ended, Statuses
<1>2. Phases'
  BY DEF IInv, TypeOK, MarkExecuted, Phases, Early
<1>3. Rows'
  BY DEF IInv, TypeOK, MarkExecuted, Rows, Granted
<1>4. Authorised'
  <2>1. ASSUME NEW d \in Calls, auth'[d] # Nobody
        PROVE  SameAct(auth[d], d)' /\ status'[auth'[d]] \in Granted
    BY <2>1 DEF IInv, TypeOK, MarkExecuted, Authorised, SameAct, Granted
  <2>2. ASSUME NEW d \in Calls, pc'[d] \in Acting \/ d \in reached',
               tier'[d] # AutoExecute
        PROVE  auth'[d] # Nobody
    BY <2>2 DEF IInv, TypeOK, MarkExecuted, Authorised, Acting, Guarded
  <2> QED
    BY <2>1, <2>2 DEF Authorised
<1>5. Recorded'
  BY DEF IInv, TypeOK, MarkExecuted, Recorded
<1>6. Ordered'
  <2>1. UNCHANGED <<who, what, before, reached, ledger>>
    BY DEF MarkExecuted
  <2>2. /\ pc'[c] \in {"returned", "raised"} /\ pc[c] = "spend"
        /\ \A d \in Calls : d # c => pc'[d] = pc[d]
    BY DEF IInv, TypeOK, MarkExecuted
  <2>3. \A d \in Calls : /\ pc[d] \in Ended => pc'[d] \in Ended
                         /\ pc'[d] \in Guarded => pc[d] \in Guarded
    BY <2>2 DEF Ended, Guarded
  <2>4. before \in [Calls -> SUBSET Calls]
    BY DEF IInv, TypeOK
  <2>5. QED
    BY <2>1, <2>3, <2>4 DEF IInv, Ordered, SameAct
<1>7. ExecutedIsLedgered'
  BY DEF IInv, TypeOK, MarkExecuted, ExecutedIsLedgered, SameAct, Phases, Authorised
<1>8. KillSwitch'
  BY DEF IInv, TypeOK, MarkExecuted, KillSwitch, PastRevocation
<1>9. SpentApprovalIsGone'
  BY DEF IInv, TypeOK, MarkExecuted, SpentApprovalIsGone, Ordered, Ended, Running
<1> QED
  BY <1>1, <1>2, <1>3, <1>4, <1>5, <1>6, <1>7, <1>8, <1>9 DEF IInv

LEMMA FailLookupKeeps == ASSUME IInv, NEW c \in Calls, FailLookup(c) PROVE
     IInv'
<1>1. (Rows /\ ExecutedIsLedgered /\ SpentApprovalIsGone)'
  BY DEF IInv, FailLookup, Rows, ExecutedIsLedgered, SpentApprovalIsGone, SameAct
<1>2. TypeOK'
  BY DEF IInv, TypeOK, FailLookup, Running, ApprovedFor
<1>3. Phases'
  BY DEF IInv, TypeOK, FailLookup, Phases, Early, ApprovedFor
<1>4. Authorised'
  BY DEF IInv, FailLookup, Authorised, SameAct, Acting, Guarded
<1>5. Recorded'
  BY DEF IInv, FailLookup, Recorded
<1>6. Ordered'
  BY DEF IInv, FailLookup, Ordered, SameAct, Guarded, Ended
<1>7. KillSwitch'
  BY DEF IInv, FailLookup, KillSwitch, PastRevocation
<1> QED
  BY <1>1, <1>2, <1>3, <1>4, <1>5, <1>6, <1>7 DEF IInv

LEMMA MarkFailedKeeps == ASSUME IInv, NEW c \in Calls, MarkFailed(c) PROVE
     IInv'
<1>1. (SpentApprovalIsGone)'
  BY DEF IInv, MarkFailed, SpentApprovalIsGone
<1>2. TypeOK'
  BY DEF IInv, TypeOK, MarkFailed, Ended, Statuses
<1>3. Phases'
  BY DEF IInv, TypeOK, MarkFailed, Phases, Early
<1>4. Rows'
  BY DEF IInv, TypeOK, MarkFailed, Rows, Granted
<1>5. Authorised'
  <2>1. ASSUME NEW d \in Calls, auth'[d] # Nobody
        PROVE  SameAct(auth[d], d)' /\ status'[auth'[d]] \in Granted
    BY <2>1 DEF IInv, TypeOK, MarkFailed, Authorised, SameAct, Granted
  <2>2. ASSUME NEW d \in Calls, pc'[d] \in Acting \/ d \in reached',
               tier'[d] # AutoExecute
        PROVE  auth'[d] # Nobody
    BY <2>2 DEF IInv, MarkFailed, Authorised, Acting, Guarded
  <2> QED
    BY <2>1, <2>2 DEF Authorised
<1>6. Recorded'
  BY DEF IInv, MarkFailed, Recorded
<1>7. Ordered'
  BY DEF IInv, MarkFailed, Ordered, SameAct, Guarded, Ended
<1>8. ExecutedIsLedgered'
  BY DEF IInv, TypeOK, MarkFailed, ExecutedIsLedgered, SameAct
<1>9. KillSwitch'
  BY DEF IInv, MarkFailed, KillSwitch, PastRevocation
<1> QED
  BY <1>1, <1>2, <1>3, <1>4, <1>5, <1>6, <1>7, <1>8, <1>9 DEF IInv

LEMMA AbandonKeeps == ASSUME IInv, NEW c \in Calls, Abandon(c) PROVE IInv'
<1>1. (Rows /\ ExecutedIsLedgered /\ SpentApprovalIsGone)'
  BY DEF IInv, Abandon, Rows, ExecutedIsLedgered, SpentApprovalIsGone, SameAct
<1>2. TypeOK'
  BY DEF IInv, TypeOK, Abandon, Ended
<1>3. Phases'
  BY DEF IInv, Abandon, Phases, Early, Running
<1>4. Authorised'
  BY DEF IInv, Abandon, Authorised, SameAct, Acting, Guarded
<1>5. Recorded'
  BY DEF IInv, Abandon, Recorded
<1>6. Ordered'
  BY DEF IInv, Abandon, Ordered, SameAct, Guarded, Ended
<1>7. KillSwitch'
  BY DEF IInv, Abandon, KillSwitch, PastRevocation
<1> QED
  BY <1>1, <1>2, <1>3, <1>4, <1>5, <1>6, <1>7 DEF IInv

\* Humans, the deadline job and the sweep.
LEMMA ApproveKeeps == ASSUME IInv, NEW p \in Calls, Approve(p) PROVE IInv'
<1>1. (Recorded /\ Ordered /\ KillSwitch /\ SpentApprovalIsGone)'
  BY DEF IInv, Approve, Recorded, Ordered, KillSwitch, SpentApprovalIsGone, SameAct
<1>2. TypeOK'
  BY DEF IInv, TypeOK, Approve, Statuses
<1>3. Phases'
  BY DEF IInv, Approve, Phases
<1>4. Rows'
  BY DEF IInv, TypeOK, Approve, Rows
<1>5. Authorised'
  <2>1. ASSUME NEW d \in Calls, auth'[d] # Nobody
        PROVE  SameAct(auth[d], d)' /\ status'[auth'[d]] \in Granted
    BY <2>1 DEF IInv, Approve, Authorised, SameAct, Granted
  <2>2. ASSUME NEW d \in Calls, pc'[d] \in Acting \/ d \in reached',
               tier'[d] # AutoExecute
        PROVE  auth'[d] # Nobody
    BY <2>2 DEF IInv, Approve, Authorised
  <2> QED
    BY <2>1, <2>2 DEF Authorised
<1>6. ExecutedIsLedgered'
  BY DEF IInv, Approve, ExecutedIsLedgered, SameAct
<1> QED
  BY <1>1, <1>2, <1>3, <1>4, <1>5, <1>6 DEF IInv

LEMMA RejectKeeps == ASSUME IInv, NEW p \in Calls, Reject(p) PROVE IInv'
<1>1. (Recorded /\ Ordered /\ KillSwitch /\ SpentApprovalIsGone)'
  BY DEF IInv, Reject, Recorded, Ordered, KillSwitch, SpentApprovalIsGone, SameAct
<1>2. TypeOK'
  BY DEF IInv, TypeOK, Reject, Statuses
<1>3. Phases'
  BY DEF IInv, Reject, Phases
<1>4. Rows'
  BY DEF IInv, Reject, Rows, Granted
<1>5. Authorised'
  <2>1. ASSUME NEW d \in Calls, auth'[d] # Nobody
        PROVE  SameAct(auth[d], d)' /\ status'[auth'[d]] \in Granted
    BY <2>1 DEF IInv, Reject, Authorised, SameAct, Granted
  <2>2. ASSUME NEW d \in Calls, pc'[d] \in Acting \/ d \in reached',
               tier'[d] # AutoExecute
        PROVE  auth'[d] # Nobody
    BY <2>2 DEF IInv, Reject, Authorised
  <2> QED
    BY <2>1, <2>2 DEF Authorised
<1>6. ExecutedIsLedgered'
  BY DEF IInv, Reject, ExecutedIsLedgered, SameAct
<1> QED
  BY <1>1, <1>2, <1>3, <1>4, <1>5, <1>6 DEF IInv

LEMMA ExpireKeeps == ASSUME IInv, NEW due \in SUBSET Calls, Expire(due) PROVE
     IInv'
<1>1. (Recorded /\ Ordered /\ KillSwitch /\ SpentApprovalIsGone)'
  BY DEF IInv, Expire, Recorded, Ordered, KillSwitch, SpentApprovalIsGone, SameAct
<1>2. TypeOK'
  BY DEF IInv, TypeOK, Expire, Statuses
<1>3. Phases'
  BY DEF IInv, Expire, Phases
<1>4. Rows'
  BY DEF IInv, Expire, Rows, Granted
<1>5. Authorised'
  <2>1. ASSUME NEW d \in Calls, auth'[d] # Nobody
        PROVE  SameAct(auth[d], d)' /\ status'[auth'[d]] \in Granted
    BY <2>1 DEF IInv, TypeOK, Expire, Authorised, SameAct, Granted
  <2>2. ASSUME NEW d \in Calls, pc'[d] \in Acting \/ d \in reached',
               tier'[d] # AutoExecute
        PROVE  auth'[d] # Nobody
    BY <2>2 DEF IInv, Expire, Authorised
  <2> QED
    BY <2>1, <2>2 DEF Authorised
<1>6. ExecutedIsLedgered'
  BY DEF IInv, Expire, ExecutedIsLedgered, SameAct
<1> QED
  BY <1>1, <1>2, <1>3, <1>4, <1>5, <1>6 DEF IInv

LEMMA RevokeKeeps == ASSUME IInv, NEW a \in Agents, Revoke(a) PROVE IInv'
<1>1. (Phases /\ Rows /\ Authorised /\ Recorded /\ Ordered /\
     ExecutedIsLedgered /\ SpentApprovalIsGone)'
  BY DEF IInv, Revoke, Phases, Rows, Authorised, Recorded, Ordered, ExecutedIsLedgered,
     SpentApprovalIsGone, SameAct
<1>2. TypeOK'
  BY DEF IInv, TypeOK, Revoke
<1>3. KillSwitch'
  BY DEF IInv, TypeOK, Revoke, KillSwitch
<1> QED
  BY <1>1, <1>2, <1>3 DEF IInv

LEMMA ReinstateKeeps == ASSUME IInv, NEW a \in Agents, Reinstate(a) PROVE IInv'
<1>1. (Phases /\ Rows /\ Authorised /\ Recorded /\ Ordered /\
     ExecutedIsLedgered /\ SpentApprovalIsGone)'
  BY DEF IInv, Reinstate, Phases, Rows, Authorised, Recorded, Ordered,
     ExecutedIsLedgered, SpentApprovalIsGone, SameAct
<1>2. TypeOK'
  BY DEF IInv, TypeOK, Reinstate
<1>3. KillSwitch'
  BY DEF IInv, Reinstate, KillSwitch
<1> QED
  BY <1>1, <1>2, <1>3 DEF IInv

LEMMA SweepIncompleteCallsKeeps == ASSUME IInv, NEW old \in SUBSET Calls,
     SweepIncompleteCalls(old) PROVE IInv'
<1>1. (Phases /\ Rows /\ Authorised /\ Recorded /\ Ordered /\
     ExecutedIsLedgered /\ KillSwitch /\ SpentApprovalIsGone)'
  BY DEF IInv, SweepIncompleteCalls, Phases, Rows, Authorised, Recorded, Ordered,
     ExecutedIsLedgered, KillSwitch, SpentApprovalIsGone, SameAct
<1>2. TypeOK'
  BY DEF IInv, TypeOK, SweepIncompleteCalls
<1> QED
  BY <1>1, <1>2 DEF IInv

-----------------------------------------------------------------------------
LEMMA InitIInv == Init => IInv
  BY DEF Init, IInv, TypeOK, Phases, Rows, Authorised, Recorded, Ordered,
     ExecutedIsLedgered, KillSwitch, SpentApprovalIsGone, Tiers, Statuses, Granted

LEMMA CallStepIInv ==
    ASSUME IInv, NEW c \in Calls, CallStep(c)
    PROVE  IInv'
  BY ResolveGrantKeeps, PassGatesKeeps, RefuseAtGateKeeps, PassTierKeeps, SubmitKeeps,
     PassDuplicateKeeps, RefuseAtDuplicateKeeps, AuditIntentKeeps,
     AuditIntentFailsKeeps, ExecuteKeeps, WriteLedgerKeeps, MarkExecutedKeeps,
     FailLookupKeeps, MarkFailedKeeps, AbandonKeeps DEF CallStep

LEMMA StutterIInv == IInv /\ UNCHANGED vars => IInv'
<1> SUFFICES ASSUME IInv, UNCHANGED vars PROVE IInv'
  OBVIOUS
<1>1. (TypeOK /\ Phases /\ Rows)'
  BY DEF vars, IInv, TypeOK, Phases, Rows
<1>2. (Authorised /\ Recorded /\ Ordered)'
  BY DEF vars, IInv, Authorised, Recorded, Ordered, SameAct
<1>3. (ExecutedIsLedgered /\ KillSwitch /\ SpentApprovalIsGone)'
  BY DEF vars, IInv, ExecutedIsLedgered, KillSwitch, SpentApprovalIsGone, SameAct
<1> QED
  BY <1>1, <1>2, <1>3 DEF IInv

LEMMA NextIInv == IInv /\ [Next]_vars => IInv'
  BY StartKeeps, CallStepIInv, ApproveKeeps, RejectKeeps, ExpireKeeps, RevokeKeeps,
     ReinstateKeeps, SweepIncompleteCallsKeeps, StutterIInv DEF Next

\* IInv holds in every reachable state of CallPath, for any constants.
THEOREM Invariance == Spec => []IInv
  BY InitIInv, NextIInv, PTL DEF Spec

\* The variables of a call, of the database and of the history keep their types.
THEOREM TypeCorrect == Spec => []TypeOK
<1>1. IInv => TypeOK
  BY DEF IInv
<1> QED
  BY <1>1, Invariance, PTL

\* A mutating request at the Forge always has its intent entry, at whatever
\* step the call died (_audit_intent fails closed).
THEOREM IntentBeforeMutationHolds == Spec => []IntentBeforeMutation
<1>1. IInv => IntentBeforeMutation
  BY DEF IInv, TypeOK, Recorded, IntentBeforeMutation
<1> QED
  BY <1>1, Invariance, PTL

\* No request below auto_execute lands without an approval a human gave to
\* that agent for that key (the tier gate of _govern).
THEOREM ActNeedsApprovalHolds == Spec => []ActNeedsApproval
<1>1. ASSUME IInv, NEW c \in reached, tier[c] # AutoExecute
      PROVE  /\ auth[c] # Nobody
             /\ SameAct(auth[c], c)
             /\ status[auth[c]] \in Granted
             /\ decidedAt[auth[c]] > 0
  <2>1. c \in Calls /\ auth[c] \in Calls \cup {Nobody}
    BY <1>1 DEF IInv, TypeOK
  <2>2. auth[c] # Nobody
    BY <1>1, <2>1 DEF IInv, Authorised
  <2>3. SameAct(auth[c], c) /\ status[auth[c]] \in Granted
    BY <1>1, <2>1, <2>2 DEF IInv, Authorised
  <2> QED
    BY <1>1, <2>1, <2>2, <2>3 DEF IInv, Rows
<1>2. IInv => ActNeedsApproval
  <2> SUFFICES ASSUME IInv PROVE ActNeedsApproval
    OBVIOUS
  <2> QED
    BY <1>1 DEF ActNeedsApproval, Granted
<1> QED
  BY <1>2, Invariance, PTL

\* A proposal reads executed only over an answered, ledgered act of its own
\* agent and key (mark_executed after the call).
THEOREM ExecutedIsLedgeredHolds == Spec => []ExecutedIsLedgered
<1>1. IInv => ExecutedIsLedgered
  BY DEF IInv
<1> QED
  BY <1>1, Invariance, PTL

\* A revocation is passed only by calls that were past the check already.
THEOREM KillSwitchHolds == Spec => []KillSwitch
<1>1. IInv => KillSwitch
  BY DEF IInv
<1> QED
  BY <1>1, Invariance, PTL

\* The at_most_once guard holds against every call that ended with a ledger
\* row before this one began.
THEOREM NoRepeatAfterLedgerHolds == Spec => []NoRepeatAfterLedger
<1>1. IInv => NoRepeatAfterLedger
  BY DEF IInv, TypeOK, Ordered, NoRepeatAfterLedger
<1> QED
  BY <1>1, Invariance, PTL

\* A spent approval authorises no call that begins after the one that spent it.
THEOREM SpentApprovalIsGoneHolds == Spec => []SpentApprovalIsGone
<1>1. IInv => SpentApprovalIsGone
  BY DEF IInv
<1> QED
  BY <1>1, Invariance, PTL

-----------------------------------------------------------------------------
(* CallPath implements Approval.  A step of CallPath is the abstract step of  *)
(* the same name, or leaves the abstract variables alone.                     *)

AbstractStutter == UNCHANGED <<status, attempts, Acted, Executor>>

LEMMA QuietSteps ==
    ASSUME UNCHANGED <<status, attempts, reached, auth, executedBy>>
    PROVE  AbstractStutter
  BY DEF AbstractStutter, Acted, Executor

LEMMA PassTierStutters ==
    ASSUME IInv, NEW c \in Calls, PassTier(c)
    PROVE  AbstractStutter
<1>1. c \notin reached /\ UNCHANGED <<status, attempts, reached, executedBy>>
  BY DEF IInv, Phases, Early, PassTier
<1>2. \A d \in Calls : d # c => auth'[d] = auth[d]
  BY DEF IInv, TypeOK, PassTier
<1>3. reached \subseteq Calls
  BY DEF IInv, TypeOK
<1>4. {d \in reached' : auth'[d] # Nobody} = {d \in reached : auth[d] # Nobody}
  BY <1>1, <1>2, <1>3
<1>5. Acted' = Acted
  BY <1>1, <1>2, <1>3, <1>4 DEF Acted
<1> QED
  BY <1>1, <1>5 DEF AbstractStutter, Executor

LEMMA ExecuteActs ==
    ASSUME IInv, NEW c \in Calls, Execute(c)
    PROVE  AbstractStutter \/ \E p \in Calls : Abstract!Act(c, p)
<1>1. UNCHANGED <<status, attempts, auth, executedBy>>
  BY DEF Execute
<1>2. Executor' = Executor
  BY <1>1 DEF Executor
<1>3. CASE reached' = reached
  BY <1>1, <1>3, QuietSteps
<1>4. CASE reached' = reached \cup {c} /\ auth[c] = Nobody
  <2>1. Acted' = Acted
    BY <1>1, <1>4 DEF Acted
  <2> QED
    BY <1>1, <1>2, <2>1 DEF AbstractStutter
<1>5. CASE reached' = reached \cup {c} /\ auth[c] # Nobody
  <2>1. auth[c] \in Calls /\ status[auth[c]] \in Granted
    BY <1>5 DEF IInv, TypeOK, Authorised
  <2>2. Acted' = Acted \cup {<<c, auth[c]>>}
    BY <1>1, <1>5 DEF Acted
  <2>3. Abstract!Act(c, auth[c])
    BY <1>1, <1>2, <2>1, <2>2 DEF Abstract!Act, Abstract!Granted, Granted
  <2> QED
    BY <2>1, <2>3
<1> QED
  BY <1>3, <1>4, <1>5 DEF Execute

LEMMA MarkExecutedExecutes ==
    ASSUME IInv, NEW c \in Calls, MarkExecuted(c)
    PROVE  AbstractStutter \/ \E p \in Calls : Abstract!Execute(c, p)
<1> DEFINE p == auth[c]
<1>1. CASE status[p] # "approved"
  BY <1>1, QuietSteps DEF MarkExecuted
<1>2. CASE status[p] = "approved"
  <2>1. p \in Calls /\ p # Nobody /\ c \in reached
    BY DEF IInv, TypeOK, Phases, MarkExecuted
  <2>2. Acted' = Acted /\ <<c, p>> \in Acted
    BY <2>1 DEF MarkExecuted, Acted
  <2>3. executedBy[p] = Nobody
    BY <1>2, <2>1 DEF IInv, Rows
  <2>4. executedBy' = [executedBy EXCEPT ![p] = c] /\ c # Nobody
    BY <1>2 DEF MarkExecuted
  <2>5. {q \in Calls : executedBy'[q] # Nobody} = {q \in Calls : executedBy[q] # Nobody} \cup {p}
    BY <2>1, <2>4 DEF IInv, TypeOK
  <2>6. \A q \in Calls : q # p => executedBy'[q] = executedBy[q]
    BY <2>4
  <2>7. executedBy'[p] = c
    BY <2>1, <2>4 DEF IInv, TypeOK
  <2>8. Executor' = Executor \cup {<<c, p>>}
    BY <2>1, <2>3, <2>5, <2>6, <2>7 DEF Executor
  <2>9. Abstract!Execute(c, p)
    BY <1>2, <2>1, <2>2, <2>8 DEF Abstract!Execute, MarkExecuted
  <2> QED
    BY <2>1, <2>9
<1> QED
  BY <1>1, <1>2

LEMMA RowSteps ==
    ASSUME IInv, NEW p \in Calls
    PROVE  /\ Submit(p) => Abstract!Submit(p)
           /\ Approve(p) \/ Reject(p) => Abstract!Decide(p)
           /\ MarkFailed(p) => AbstractStutter \/ \E q \in Calls : Abstract!Fail(q)
<1>1. Submit(p) => Abstract!Submit(p)
  BY DEF IInv, Phases, Early, Submit, Abstract!Submit, Acted, Executor
<1>2. Approve(p) \/ Reject(p) => Abstract!Decide(p)
  BY DEF Approve, Reject, Abstract!Decide, Acted, Executor
<1>3. ASSUME MarkFailed(p) PROVE AbstractStutter \/ \E q \in Calls : Abstract!Fail(q)
  <2>1. target[p] \in Calls
    BY <1>3 DEF IInv, Phases, MarkFailed
  <2>2. CASE status[target[p]] = "approved"
    <3>1. Abstract!Fail(target[p])
      BY <1>3, <2>2 DEF MarkFailed, Abstract!Fail, Acted, Executor
    <3> QED
      BY <2>1, <3>1
  <2>3. CASE status[target[p]] # "approved"
    BY <1>3, <2>3, QuietSteps DEF MarkFailed
  <2> QED
    BY <2>2, <2>3
<1> QED
  BY <1>1, <1>2, <1>3

LEMMA ExpireExpires ==
    ASSUME NEW due \in SUBSET Calls, Expire(due)
    PROVE  Abstract!Expire
<1>1. due \in SUBSET {p \in Calls : status[p] = "pending"}
  BY DEF Expire
<1> QED
  BY <1>1 DEF Expire, Abstract!Expire, Acted, Executor

LEMMA CallStepImplements ==
    ASSUME IInv, NEW c \in Calls, CallStep(c)
    PROVE  Abstract!Next \/ AbstractStutter
<1>1. CASE \/ ResolveGrant(c) \/ PassGates(c) \/ RefuseAtGate(c)
           \/ PassDuplicate(c) \/ RefuseAtDuplicate(c) \/ AuditIntent(c)
           \/ AuditIntentFails(c) \/ WriteLedger(c) \/ FailLookup(c) \/ Abandon(c)
  <2>1. UNCHANGED <<status, attempts, reached, auth, executedBy>>
    BY <1>1 DEF ResolveGrant, PassGates, RefuseAtGate, PassDuplicate, RefuseAtDuplicate,
       AuditIntent, AuditIntentFails, WriteLedger, FailLookup, Abandon
  <2> QED
    BY <2>1, QuietSteps
<1>2. CASE PassTier(c)
  BY <1>2, PassTierStutters
<1>3. CASE Submit(c)
  BY <1>3, RowSteps DEF Abstract!Next
<1>4. CASE Execute(c)
  BY <1>4, ExecuteActs DEF Abstract!Next
<1>5. CASE MarkExecuted(c)
  BY <1>5, MarkExecutedExecutes DEF Abstract!Next
<1>6. CASE MarkFailed(c)
  BY <1>6, RowSteps DEF Abstract!Next
<1> QED
  BY <1>1, <1>2, <1>3, <1>4, <1>5, <1>6 DEF CallStep

LEMMA StepImplements ==
    ASSUME IInv, [Next]_vars
    PROVE  Abstract!Next \/ AbstractStutter
<1>1. ASSUME NEW c \in Calls, NEW a \in Agents, NEW k \in Keys, Start(c, a, k)
      PROVE  AbstractStutter
  BY <1>1, QuietSteps DEF Start
<1>2. ASSUME NEW p \in Calls, Approve(p) \/ Reject(p)
      PROVE  Abstract!Next
  BY <1>2, RowSteps DEF Abstract!Next
<1>3. ASSUME NEW due \in SUBSET Calls, Expire(due)
      PROVE  Abstract!Next
  BY <1>3, ExpireExpires DEF Abstract!Next
<1>4. ASSUME NEW a \in Agents, Revoke(a) \/ Reinstate(a)
      PROVE  AbstractStutter
  BY <1>4, QuietSteps DEF Revoke, Reinstate
<1>5. ASSUME NEW old \in SUBSET Calls, SweepIncompleteCalls(old)
      PROVE  AbstractStutter
  BY <1>5, QuietSteps DEF SweepIncompleteCalls
<1>6. CASE UNCHANGED vars
  BY <1>6, QuietSteps DEF vars
<1> QED
  BY CallStepImplements, <1>1, <1>2, <1>3, <1>4, <1>5, <1>6 DEF Next

\* Every behaviour of the call path is a behaviour of Approval: proposals are
\* settled once, acted on only after a human's yes, and marked executed only
\* by a call that acted.
THEOREM Refinement == Spec => ImplementsApproval
<1>1. Init => Abstract!Init
  BY DEF Init, Abstract!Init, Acted, Executor
<1>2. IInv /\ [Next]_vars => [Abstract!Next]_(Abstract!approvalVars)
  BY StepImplements DEF Abstract!approvalVars, AbstractStutter
<1> QED
  BY <1>1, <1>2, Invariance, PTL DEF Spec, ImplementsApproval, Abstract!Spec

-----------------------------------------------------------------------------
(* What Approval promises, CallPath keeps.  The argument is about Approval     *)
(* alone: what a call does between its steps no longer matters.                *)

Attempted == {"executed", "failed"}
Final     == {"rejected", "expired"} \cup Attempted

\* attempt_count reads one for a proposal that was executed or failed, and zero
\* for any other: never more, though two overlapping calls may both have acted
\* under it (docs/decisions.md:17010, "0 or 1 and never more").
AttemptCountedOnce ==
    \A p \in Calls : attempts[p] = IF status[p] \in Attempted THEN 1 ELSE 0

\* The call a proposal names as its execution did contact the Forge under it.
TheExecutorActed == Executor \subseteq Acted

\* A settled proposal stays as it is: the deadline job, a late decision, a second
\* execution and the failure of an overlapping call all come too late.
SettledOnce ==
    [][\A p \in Calls : status[p] \in Final =>
          status'[p] = status[p] /\ attempts'[p] = attempts[p]]_vars

ApprovalInv ==
    /\ status \in [Calls -> {"none", "pending", "approved"} \cup Final]
    /\ attempts \in [Calls -> Nat]
    /\ AttemptCountedOnce
    /\ TheExecutorActed

LEMMA ApprovalStep ==
    ASSUME ApprovalInv, [Abstract!Next]_(Abstract!approvalVars)
    PROVE  /\ ApprovalInv'
           /\ \A p \in Calls : status[p] \in Final =>
                 status'[p] = status[p] /\ attempts'[p] = attempts[p]
<1> USE DEF ApprovalInv, AttemptCountedOnce, TheExecutorActed, Final, Attempted
<1>1. ASSUME NEW p \in Calls, Abstract!Submit(p) \/ Abstract!Decide(p)
      PROVE  ApprovalInv' /\ \A q \in Calls : status[q] \in Final =>
                 status'[q] = status[q] /\ attempts'[q] = attempts[q]
  BY <1>1 DEF Abstract!Submit, Abstract!Decide
<1>2. ASSUME NEW p \in Calls, Abstract!Fail(p)
      PROVE  ApprovalInv' /\ \A q \in Calls : status[q] \in Final =>
                 status'[q] = status[q] /\ attempts'[q] = attempts[q]
  BY <1>2 DEF Abstract!Fail
<1>3. CASE Abstract!Expire
  BY <1>3 DEF Abstract!Expire
<1>4. ASSUME NEW c \in Calls, NEW p \in Calls, Abstract!Act(c, p)
      PROVE  ApprovalInv' /\ \A q \in Calls : status[q] \in Final =>
                 status'[q] = status[q] /\ attempts'[q] = attempts[q]
  BY <1>4 DEF Abstract!Act
<1>5. ASSUME NEW c \in Calls, NEW p \in Calls, Abstract!Execute(c, p)
      PROVE  ApprovalInv' /\ \A q \in Calls : status[q] \in Final =>
                 status'[q] = status[q] /\ attempts'[q] = attempts[q]
  BY <1>5 DEF Abstract!Execute
<1>6. CASE UNCHANGED Abstract!approvalVars
  BY <1>6 DEF Abstract!approvalVars
<1>7. QED
  BY <1>1, <1>2, <1>3, <1>4, <1>5, <1>6 DEF Abstract!Next

LEMMA ApprovalInvariance == Abstract!Spec => []ApprovalInv
<1>1. Abstract!Init => ApprovalInv
  BY DEF Abstract!Init, ApprovalInv, AttemptCountedOnce, TheExecutorActed, Attempted, Final
<1>2. ApprovalInv /\ [Abstract!Next]_(Abstract!approvalVars) => ApprovalInv'
  BY ApprovalStep
<1>3. QED
  BY <1>1, <1>2, PTL DEF Abstract!Spec

\* One execution is counted for an approval, whatever calls overlap, so the
\* count never shows that two of them acted (mark_executed, mark_failed).
THEOREM AttemptCountedOnceHolds == Spec => []AttemptCountedOnce
<1>1. ApprovalInv => AttemptCountedOnce
  BY DEF ApprovalInv
<1>2. QED
  BY <1>1, ApprovalInvariance, Refinement, PTL DEF ImplementsApproval

\* What executed_call_id names acted under the proposal (mark_executed).
THEOREM TheExecutorActedHolds == Spec => []TheExecutorActed
<1>1. ApprovalInv => TheExecutorActed
  BY DEF ApprovalInv
<1>2. QED
  BY <1>1, ApprovalInvariance, Refinement, PTL DEF ImplementsApproval

\* Nothing moves a proposal that was rejected, expired, executed or failed
\* (decide, expire_overdue, mark_executed, mark_failed).
THEOREM SettledOnceHolds == Spec => SettledOnce
<1>1. ApprovalInv /\ [Abstract!Next]_(Abstract!approvalVars) =>
          [\A p \in Calls : status[p] \in Final =>
              status'[p] = status[p] /\ attempts'[p] = attempts[p]]_vars
  BY ApprovalStep
<1>2. QED
  BY <1>1, ApprovalInvariance, Refinement, PTL DEF ImplementsApproval, Abstract!Spec, SettledOnce
=============================================================================
