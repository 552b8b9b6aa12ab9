--------------------------- MODULE RecordsProofs ---------------------------
(***************************************************************************)
(* Proofs about what the Office keeps on record: the audit log, and the    *)
(* library and Packs of a venture.  The two models share nothing; each has *)
(* its own specification, Spec and PacksSpec.                              *)
(*                                                                         *)
(* What AuditChain keeps for every set of writers, any of them at          *)
(* REPEATABLE READ, and every length of log.  The links are right only     *)
(* because a transaction that has inserted holds the lock until it ends,   *)
(* so what it inserted lies above everything committed; and because a      *)
(* stale snapshot's tip already has a successor, which UNIQUE(prev_hash)   *)
(* refuses to give it twice.                                               *)
(*                                                                         *)
(* What Packs and Knowledge keep for every number of entries, humans,      *)
(* versions, runs and requests.  A run's source is told apart from what    *)
(* its version holds now only by whether the version was stored again; an  *)
(* approval from what the entry says only by whether it was rewritten      *)
(* between a reading and its write.                                        *)
(***************************************************************************)
EXTENDS AuditChain, Packs, WellFoundedInduction, TLAPS

\* Who has inserted holds the lock.
LockHeld ==
    /\ \A w \in Writers : pc[w] = "locked" <=> lock = w
    /\ \A w \in Writers : pending[w] # {} => pc[w] = "locked"

\* Every id the sequence gave is committed, pending, deleted or unused, and
\* no later id is any of these.
Accounted ==
    /\ log \cup lost \cup unused \subseteq 1 .. seq
    /\ \A w \in Writers : pending[w] \subseteq 1 .. seq
    /\ \A n \in 1 .. seq : n \in log \cup lost \cup unused \/ \E w \in Writers : n \in pending[w]
    /\ \A w \in Writers : pending[w] \cap (lost \cup unused) = {}

\* What is not yet committed lies above what is.
PendingAbove == \A w \in Writers : \A n \in pending[w], m \in log : m < n

\* The links of the entries of S are in the order of their ids.
InOrder(S) == \A n \in S : IsTip(prev[n], {m \in S : m < n})

Links == lost = {} =>
    /\ InOrder(log)
    /\ \A w \in Writers : InOrder(log \cup pending[w])
    /\ \A w \in Writers : pending[w] # {} => \E n \in pending[w] : IsTip(prev[n], log)

\* The tip of a snapshot the log has outgrown has a successor in the log.
Snapshots == lost = {} =>
    \A w \in RepeatableRead : pc[w] # "idle" =>
        /\ snapshot[w] = log \/ \E n \in log : IsTip(prev[n], snapshot[w])
        /\ pending[w] # {} => snapshot[w] = log

IInv ==
    /\ TypeOK
    /\ LockHeld
    /\ Accounted
    /\ PendingAbove
    /\ Links
    /\ Snapshots

\* A set has at most one tip (ORDER BY audit_id DESC LIMIT 1).
LEMMA TipUnique ==
    ASSUME NEW S \in SUBSET Int, NEW t, NEW u, IsTip(t, S), IsTip(u, S)
    PROVE  t = u
<1>1. CASE S = {}
  BY <1>1 DEF IsTip
<1>2. CASE S # {}
  <2>1. /\ t \in S /\ u \in S
        /\ t <= u /\ u <= t
        /\ t \in Int /\ u \in Int
    BY <1>2 DEF IsTip
  <2>2. QED
    BY <2>1
<1>3. QED
  BY <1>1, <1>2

\* A writer whose insert is not rejected saw all that is committed, even from
\* a snapshot (UNIQUE(prev_hash)).
LEMMA VisibleIsAll ==
    ASSUME IInv, lost = {}, NEW w \in Writers, pc[w] = "locked",
           NEW t, IsTip(t, Visible(w)), ~ Taken(t)
    PROVE  /\ IsTip(t, log \cup pending[w])
           /\ w \in RepeatableRead => snapshot[w] = log
<1> USE DEF IInv
<1>1. CASE w \notin RepeatableRead
  BY <1>1 DEF Visible
<1>2. CASE w \in RepeatableRead
  <2>1. snapshot[w] = log
    <3>1. CASE pending[w] # {}
      BY <1>2, <3>1 DEF Snapshots
    <3>2. CASE pending[w] = {}
      <4>1. IsTip(t, snapshot[w])
        <5>1. Visible(w) = snapshot[w]
          BY <1>2, <3>2 DEF Visible
        <5>2. QED
          BY <5>1
      <4>2. snapshot[w] \in SUBSET Int
        BY DEF TypeOK, Ids
      <4>3. ASSUME NEW n \in log, IsTip(prev[n], snapshot[w])
            PROVE  FALSE
        <5>1. prev[n] = t
          BY <4>1, <4>2, <4>3, TipUnique
        <5>2. QED
          BY <5>1 DEF Taken
      <4>4. QED
        BY <1>2, <4>3 DEF Snapshots
    <3>3. QED
      BY <3>1, <3>2
  <2>2. Visible(w) = log \cup pending[w]
    BY <1>2, <2>1 DEF Visible
  <2>3. QED
    BY <2>1, <2>2
<1>3. QED
  BY <1>1, <1>2

\* The invariant holds of an empty log.
LEMMA InitIInv == Init => IInv
<1>1. Init => TypeOK /\ LockHeld
  BY AuditConstants DEF Init, TypeOK, LockHeld
<1>2. Init => Accounted /\ PendingAbove
  BY AuditConstants DEF Init, Accounted, PendingAbove
<1>3. Init => Links /\ Snapshots
  BY AuditConstants DEF Init, Links, Snapshots, InOrder
<1>4. QED
  BY <1>1, <1>2, <1>3 DEF IInv

\* Ids stay within the sequence's bound, and a committed one is never unused.
LEMMA TypeStep ==
    ASSUME IInv, [Next]_vars
    PROVE  TypeOK'
<1> USE DEF IInv
<1>1. ASSUME NEW w \in Writers, Begin(w)
      PROVE  TypeOK'
  BY <1>1, AuditConstants DEF TypeOK, Begin
<1>2. ASSUME NEW w \in Writers, Lock(w)
      PROVE  TypeOK'
  BY <1>2, AuditConstants DEF TypeOK, Lock
<1>3. ASSUME NEW w \in Writers, AppendEntry(w)
      PROVE  TypeOK'
  BY <1>3, AuditConstants DEF TypeOK, Ids, AppendEntry
<1>4. ASSUME NEW w \in Writers, AppendRejected(w)
      PROVE  TypeOK'
  <2>1. /\ log' = log /\ lost' = lost
        /\ unused' \subseteq unused \cup pending[w] \cup {seq + 1}
        /\ seq' \in 0 .. MaxId
        /\ unused' \subseteq Ids
    <3>1. /\ log' = log /\ lost' = lost
          /\ \/ seq' = seq /\ unused' = unused \cup pending[w]
             \/ seq < MaxId /\ seq' = seq + 1 /\ unused' = unused \cup pending[w] \cup {seq + 1}
      BY <1>4 DEF AppendRejected
    <3>2. pending[w] \subseteq Ids /\ unused \subseteq Ids /\ seq \in 0 .. MaxId
      BY <1>4 DEF TypeOK
    <3>3. seq' \in 0 .. MaxId /\ (seq < MaxId => seq + 1 \in Ids)
      BY <3>1, <3>2, AuditConstants DEF Ids
    <3>4. QED
      BY <3>1, <3>2, <3>3
  <2>2. \A n \in pending[w] : n \notin log
    BY DEF PendingAbove, TypeOK, Ids
  <2>3. seq + 1 \notin log
    BY DEF Accounted, TypeOK
  <2>4. log' \cap (lost' \cup unused') = {}
    BY <2>1, <2>2, <2>3 DEF TypeOK
  <2>5. /\ pc' \in [Writers -> {"idle", "open", "locked"}]
        /\ lock' \in Writers \cup {Nobody}
        /\ snapshot' \in [Writers -> SUBSET Ids]
        /\ pending' \in [Writers -> SUBSET Ids]
    BY <1>4 DEF AppendRejected, End, TypeOK
  <2>6. QED
    BY <1>4, <2>1, <2>4, <2>5 DEF AppendRejected, TypeOK
<1>5. ASSUME NEW w \in Writers, Commit(w)
      PROVE  TypeOK'
  BY <1>5, AuditConstants DEF TypeOK, Accounted, Commit, End
<1>6. ASSUME NEW w \in Writers, Rollback(w)
      PROVE  TypeOK'
  <2>1. /\ log' = log /\ lost' = lost
        /\ unused' \subseteq unused \cup pending[w] \cup {seq + 1}
        /\ seq' \in 0 .. MaxId
        /\ unused' \subseteq Ids
    <3>1. /\ log' = log /\ lost' = lost
          /\ \/ seq' = seq /\ unused' = unused \cup pending[w]
             \/ seq < MaxId /\ seq' = seq + 1 /\ unused' = unused \cup pending[w] \cup {seq + 1}
      BY <1>6 DEF Rollback
    <3>2. pending[w] \subseteq Ids /\ unused \subseteq Ids /\ seq \in 0 .. MaxId
      BY <1>6 DEF TypeOK
    <3>3. seq' \in 0 .. MaxId /\ (seq < MaxId => seq + 1 \in Ids)
      BY <3>1, <3>2, AuditConstants DEF Ids
    <3>4. QED
      BY <3>1, <3>2, <3>3
  <2>2. \A n \in pending[w] : n \notin log
    BY DEF PendingAbove, TypeOK, Ids
  <2>3. seq + 1 \notin log
    BY DEF Accounted, TypeOK
  <2>4. log' \cap (lost' \cup unused') = {}
    BY <2>1, <2>2, <2>3 DEF TypeOK
  <2>5. /\ pc' \in [Writers -> {"idle", "open", "locked"}]
        /\ lock' \in Writers \cup {Nobody}
        /\ snapshot' \in [Writers -> SUBSET Ids]
        /\ pending' \in [Writers -> SUBSET Ids]
    BY <1>6 DEF Rollback, End, TypeOK
  <2>6. QED
    BY <1>6, <2>1, <2>4, <2>5 DEF Rollback, TypeOK
<1>7. CASE SweepAuditChain
  BY <1>7, AuditConstants DEF TypeOK, SweepAuditChain, Alarms
<1>8. ASSUME NEW n \in Ids, EditRow(n)
      PROVE  TypeOK'
  BY <1>8, AuditConstants DEF TypeOK, EditRow
<1>9. ASSUME NEW n \in Ids, DeleteRow(n)
      PROVE  TypeOK'
  BY <1>9, AuditConstants DEF TypeOK, DeleteRow
<1>10. CASE UNCHANGED vars
  BY <1>10 DEF TypeOK, vars
<1>11. QED
  BY <1>1, <1>2, <1>3, <1>4, <1>5, <1>6, <1>7, <1>8, <1>9, <1>10 DEF Next

\* The lock is given to one transaction and kept until it ends.
LEMMA LockStep ==
    ASSUME IInv, [Next]_vars
    PROVE  LockHeld'
<1> USE DEF IInv
<1>1. ASSUME NEW w \in Writers, Begin(w)
      PROVE  LockHeld'
  BY <1>1, AuditConstants DEF LockHeld, Begin
<1>2. ASSUME NEW w \in Writers, Lock(w)
      PROVE  LockHeld'
  BY <1>2, AuditConstants DEF TypeOK, LockHeld, Lock
<1>3. ASSUME NEW w \in Writers, AppendEntry(w)
      PROVE  LockHeld'
  BY <1>3, AuditConstants DEF LockHeld, AppendEntry
<1>4. ASSUME NEW w \in Writers, AppendRejected(w)
      PROVE  LockHeld'
  BY <1>4, AuditConstants DEF TypeOK, LockHeld, AppendRejected, End
<1>5. ASSUME NEW w \in Writers, Commit(w)
      PROVE  LockHeld'
  BY <1>5, AuditConstants DEF TypeOK, LockHeld, Commit, End
<1>6. ASSUME NEW w \in Writers, Rollback(w)
      PROVE  LockHeld'
  BY <1>6, AuditConstants DEF TypeOK, LockHeld, Rollback, End
<1>7. CASE SweepAuditChain
  BY <1>7, AuditConstants DEF LockHeld, SweepAuditChain
<1>8. ASSUME NEW n \in Ids, EditRow(n)
      PROVE  LockHeld'
  BY <1>8, AuditConstants DEF LockHeld, EditRow
<1>9. ASSUME NEW n \in Ids, DeleteRow(n)
      PROVE  LockHeld'
  BY <1>9, AuditConstants DEF LockHeld, DeleteRow
<1>10. CASE UNCHANGED vars
  BY <1>10 DEF LockHeld, vars
<1>11. QED
  BY <1>1, <1>2, <1>3, <1>4, <1>5, <1>6, <1>7, <1>8, <1>9, <1>10 DEF Next

\* Each id the sequence gives goes somewhere, once.
LEMMA AccountStep ==
    ASSUME IInv, [Next]_vars
    PROVE  Accounted'
<1> USE DEF IInv
<1>1. ASSUME NEW w \in Writers, Begin(w)
      PROVE  Accounted'
  BY <1>1, AuditConstants DEF Accounted, Begin
<1>2. ASSUME NEW w \in Writers, Lock(w)
      PROVE  Accounted'
  BY <1>2, AuditConstants DEF Accounted, Lock
<1>3. ASSUME NEW w \in Writers, AppendEntry(w)
      PROVE  Accounted'
  BY <1>3, AuditConstants DEF TypeOK, Accounted, AppendEntry
<1>4. ASSUME NEW w \in Writers, AppendRejected(w)
      PROVE  Accounted'
  <2>1. /\ log' = log /\ lost' = lost /\ seq' = seq + 1
        /\ unused' = unused \cup pending[w] \cup {seq + 1}
        /\ pending' = [pending EXCEPT ![w] = {}]
        /\ seq \in Nat
        /\ lock = w
    BY <1>4 DEF AppendRejected, End, TypeOK, LockHeld
  <2>2. \A v \in Writers : v # w => pending[v] = {}
    BY <2>1 DEF LockHeld
  <2>3. \A v \in Writers : pending'[v] = {}
    BY <2>1, <2>2 DEF TypeOK
  <2>4. log' \cup lost' \cup unused' \subseteq 1 .. seq'
    BY <2>1 DEF Accounted
  <2>5. \A n \in 1 .. seq' : n \in log' \cup lost' \cup unused'
    <3> TAKE n \in 1 .. seq'
    <3>1. CASE n = seq + 1
      BY <3>1, <2>1
    <3>2. CASE n \in 1 .. seq
      BY <3>2, <2>1, <2>2 DEF Accounted
    <3>3. QED
      BY <3>1, <3>2, <2>1
  <2>6. QED
    BY <2>3, <2>4, <2>5 DEF Accounted
<1>5. ASSUME NEW w \in Writers, Commit(w)
      PROVE  Accounted'
  BY <1>5, AuditConstants DEF Accounted, Commit, End
<1>6. ASSUME NEW w \in Writers, Rollback(w)
      PROVE  Accounted'
  BY <1>6, AuditConstants DEF TypeOK, LockHeld, Accounted, Rollback, End
<1>7. CASE SweepAuditChain
  BY <1>7, AuditConstants DEF Accounted, SweepAuditChain
<1>8. ASSUME NEW n \in Ids, EditRow(n)
      PROVE  Accounted'
  BY <1>8, AuditConstants DEF Accounted, EditRow
<1>9. ASSUME NEW n \in Ids, DeleteRow(n)
      PROVE  Accounted'
  BY <1>9, AuditConstants DEF Accounted, PendingAbove, DeleteRow
<1>10. CASE UNCHANGED vars
  BY <1>10 DEF Accounted, vars
<1>11. QED
  BY <1>1, <1>2, <1>3, <1>4, <1>5, <1>6, <1>7, <1>8, <1>9, <1>10 DEF Next

\* Only the lock's holder inserts or commits, so commits come in id order.
LEMMA PendingStep ==
    ASSUME IInv, [Next]_vars
    PROVE  PendingAbove'
<1> USE DEF IInv
<1>1. ASSUME NEW w \in Writers, Begin(w)
      PROVE  PendingAbove'
  BY <1>1, AuditConstants DEF PendingAbove, Begin
<1>2. ASSUME NEW w \in Writers, Lock(w)
      PROVE  PendingAbove'
  BY <1>2, AuditConstants DEF PendingAbove, Lock
<1>3. ASSUME NEW w \in Writers, AppendEntry(w)
      PROVE  PendingAbove'
  BY <1>3, AuditConstants DEF TypeOK, Accounted, PendingAbove, AppendEntry
<1>4. ASSUME NEW w \in Writers, AppendRejected(w)
      PROVE  PendingAbove'
  BY <1>4, AuditConstants DEF PendingAbove, AppendRejected, End
<1>5. ASSUME NEW w \in Writers, Commit(w)
      PROVE  PendingAbove'
  BY <1>5, AuditConstants DEF TypeOK, LockHeld, PendingAbove, Commit, End
<1>6. ASSUME NEW w \in Writers, Rollback(w)
      PROVE  PendingAbove'
  BY <1>6, AuditConstants DEF PendingAbove, Rollback, End
<1>7. CASE SweepAuditChain
  BY <1>7, AuditConstants DEF PendingAbove, SweepAuditChain
<1>8. ASSUME NEW n \in Ids, EditRow(n)
      PROVE  PendingAbove'
  BY <1>8, AuditConstants DEF PendingAbove, EditRow
<1>9. ASSUME NEW n \in Ids, DeleteRow(n)
      PROVE  PendingAbove'
  BY <1>9, AuditConstants DEF PendingAbove, DeleteRow
<1>10. CASE UNCHANGED vars
  BY <1>10 DEF PendingAbove, vars
<1>11. QED
  BY <1>1, <1>2, <1>3, <1>4, <1>5, <1>6, <1>7, <1>8, <1>9, <1>10 DEF Next

\* A new entry links to the tip of all that is committed.
LEMMA LinkStep ==
    ASSUME IInv, [Next]_vars
    PROVE  Links'
<1> USE DEF IInv
<1>1. ASSUME NEW w \in Writers, Begin(w)
      PROVE  Links'
  BY <1>1, AuditConstants DEF Links, InOrder, IsTip, Begin
<1>2. ASSUME NEW w \in Writers, Lock(w)
      PROVE  Links'
  BY <1>2, AuditConstants DEF Links, InOrder, Lock
<1>3. ASSUME NEW w \in Writers, AppendEntry(w)
      PROVE  Links'
  <2> SUFFICES ASSUME lost = {}
               PROVE  /\ InOrder(log)'
                      /\ \A v \in Writers : InOrder(log \cup pending[v])'
                      /\ \A v \in Writers : pending'[v] # {} =>
                            \E n \in pending'[v] : IsTip(prev'[n], log')
    BY <1>3 DEF AppendEntry, Links
  <2> DEFINE S == log \cup pending[w]
  <2>1. PICK t \in Ids \cup {Genesis} :
          IsTip(t, Visible(w)) /\ ~ Taken(t) /\ prev' = [prev EXCEPT ![seq + 1] = t]
    BY <1>3 DEF AppendEntry
  <2>2. /\ pc[w] = "locked" /\ lock = w /\ log' = log
        /\ pending' = [pending EXCEPT ![w] = @ \cup {seq + 1}]
        /\ seq + 1 \in Ids /\ seq \in Nat
    BY <1>3, AuditConstants DEF AppendEntry, LockHeld, TypeOK, Ids
  <2>3. IsTip(t, S)
    BY <2>1, <2>2, VisibleIsAll
  <2>4. /\ S \subseteq 1 .. seq /\ S \subseteq Ids
        /\ \A n \in S : prev'[n] = prev[n]
        /\ prev'[seq + 1] = t
    BY <2>1, <2>2 DEF Accounted, TypeOK
  <2>5. InOrder(log)'
    BY <2>2, <2>4 DEF InOrder, Links
  <2>6. \A v \in Writers : v # w => pending'[v] = {}
    BY <2>2 DEF LockHeld
  <2>7. InOrder(log \cup pending[w])'
    <3>1. (log \cup pending[w])' = S \cup {seq + 1}
      BY <2>2 DEF TypeOK
    <3>2. ASSUME NEW n \in S
          PROVE  IsTip(prev'[n], {m \in S \cup {seq + 1} : m < n})
      <4>1. {m \in S \cup {seq + 1} : m < n} = {m \in S : m < n}
        BY <2>2, <2>4
      <4>2. IsTip(prev[n], {m \in S : m < n})
        BY DEF Links, InOrder
      <4>3. QED
        BY <4>1, <4>2, <2>4
    <3>3. IsTip(prev'[seq + 1], {m \in S \cup {seq + 1} : m < seq + 1})
      <4>1. {m \in S \cup {seq + 1} : m < seq + 1} = S
        BY <2>2, <2>4
      <4>2. QED
        BY <4>1, <2>3, <2>4
    <3>4. QED
      BY <3>1, <3>2, <3>3 DEF InOrder
  <2>8. ASSUME NEW v \in Writers
        PROVE  InOrder(log \cup pending[v])'
    <3>1. CASE v = w
      BY <3>1, <2>7
    <3>2. CASE v # w
      BY <3>2, <2>5, <2>6
    <3>3. QED
      BY <3>1, <3>2
  <2>9. \E n \in pending'[w] : IsTip(prev'[n], log')
    <3>1. CASE pending[w] = {}
      BY <3>1, <2>2, <2>3, <2>4 DEF TypeOK
    <3>2. CASE pending[w] # {}
      BY <3>2, <2>2, <2>4 DEF Links
    <3>3. QED
      BY <3>1, <3>2
  <2>10. QED
    BY <2>5, <2>6, <2>8, <2>9
<1>4. ASSUME NEW w \in Writers, AppendRejected(w)
      PROVE  Links'
  BY <1>4, AuditConstants DEF Links, InOrder, IsTip, AppendRejected, End
<1>5. ASSUME NEW w \in Writers, Commit(w)
      PROVE  Links'
  <2> SUFFICES ASSUME lost = {}
               PROVE  /\ InOrder(log)'
                      /\ \A v \in Writers : InOrder(log \cup pending[v])'
                      /\ \A v \in Writers : pending'[v] # {} =>
                            \E n \in pending'[v] : IsTip(prev'[n], log')
    BY <1>5 DEF Commit, Links
  <2>1. /\ log' = log \cup pending[w]
        /\ pending' = [pending EXCEPT ![w] = {}]
        /\ prev' = prev
    BY <1>5 DEF Commit, End
  <2>2. InOrder(log)'
    BY <2>1 DEF Links, InOrder
  <2>3. CASE pending[w] = {}
    <3>1. log' = log /\ pending' = pending
      BY <2>1, <2>3 DEF TypeOK
    <3>2. QED
      BY <3>1, <2>1, <2>2 DEF Links, InOrder
  <2>4. CASE pending[w] # {}
    <3>1. \A v \in Writers : pending'[v] = {}
      BY <2>1, <2>4 DEF LockHeld, TypeOK
    <3>2. \A v \in Writers : InOrder(log \cup pending[v])'
      BY <3>1, <2>2
    <3>3. QED
      BY <3>1, <3>2, <2>2
  <2>5. QED
    BY <2>3, <2>4
<1>6. ASSUME NEW w \in Writers, Rollback(w)
      PROVE  Links'
  BY <1>6, AuditConstants DEF PendingAbove, Links, InOrder, IsTip, Snapshots, Rollback,
     End
<1>7. CASE SweepAuditChain
  BY <1>7, AuditConstants DEF Links, InOrder, IsTip, SweepAuditChain
<1>8. ASSUME NEW n \in Ids, EditRow(n)
      PROVE  Links'
  BY <1>8, AuditConstants DEF Links, InOrder, IsTip, EditRow
<1>9. ASSUME NEW n \in Ids, DeleteRow(n)
      PROVE  Links'
  BY <1>9, AuditConstants DEF Links, DeleteRow
<1>10. CASE UNCHANGED vars
  BY <1>10 DEF Links, InOrder, vars
<1>11. QED
  BY <1>1, <1>2, <1>3, <1>4, <1>5, <1>6, <1>7, <1>8, <1>9, <1>10 DEF Next

\* A commit gives the tip of every older snapshot a successor.
LEMMA SnapshotStep ==
    ASSUME IInv, [Next]_vars
    PROVE  Snapshots'
<1> USE DEF IInv
<1>1. ASSUME NEW w \in Writers, Begin(w)
      PROVE  Snapshots'
  BY <1>1, AuditConstants DEF TypeOK, Snapshots, Begin
<1>2. ASSUME NEW w \in Writers, Lock(w)
      PROVE  Snapshots'
  BY <1>2, AuditConstants DEF Snapshots, Lock
<1>3. ASSUME NEW w \in Writers, AppendEntry(w)
      PROVE  Snapshots'
  <2> SUFFICES ASSUME lost = {}, NEW v \in RepeatableRead, pc[v] # "idle"
               PROVE  /\ snapshot[v] = log \/ \E n \in log : IsTip(prev'[n], snapshot[v])
                      /\ pending'[v] # {} => snapshot[v] = log
    BY <1>3 DEF AppendEntry, Snapshots
  <2>1. PICK t \in Ids \cup {Genesis} :
          IsTip(t, Visible(w)) /\ ~ Taken(t) /\ prev' = [prev EXCEPT ![seq + 1] = t]
    BY <1>3 DEF AppendEntry
  <2>2. \A n \in log : prev'[n] = prev[n]
    BY <2>1 DEF Accounted, TypeOK
  <2>3. snapshot[v] = log \/ \E n \in log : IsTip(prev'[n], snapshot[v])
    BY <2>2 DEF Snapshots
  <2>4. CASE v = w
    BY <2>1, <2>3, <2>4, <1>3, VisibleIsAll DEF AppendEntry
  <2>5. CASE v # w
    BY <2>3, <2>5, <1>3, AuditConstants DEF AppendEntry, Snapshots
  <2>6. QED
    BY <2>4, <2>5
<1>4. ASSUME NEW w \in Writers, AppendRejected(w)
      PROVE  Snapshots'
  BY <1>4, AuditConstants DEF TypeOK, Snapshots, AppendRejected, End
<1>5. ASSUME NEW w \in Writers, Commit(w)
      PROVE  Snapshots'
  BY <1>5, AuditConstants DEF TypeOK, LockHeld, Links, Snapshots, Commit, End
<1>6. ASSUME NEW w \in Writers, Rollback(w)
      PROVE  Snapshots'
  BY <1>6, AuditConstants DEF TypeOK, Snapshots, Rollback, End
<1>7. CASE SweepAuditChain
  BY <1>7, AuditConstants DEF Snapshots, SweepAuditChain
<1>8. ASSUME NEW n \in Ids, EditRow(n)
      PROVE  Snapshots'
  BY <1>8, AuditConstants DEF Snapshots, EditRow
<1>9. ASSUME NEW n \in Ids, DeleteRow(n)
      PROVE  Snapshots'
  BY <1>9, AuditConstants DEF Snapshots, DeleteRow
<1>10. CASE UNCHANGED vars
  BY <1>10 DEF Snapshots, vars
<1>11. QED
  BY <1>1, <1>2, <1>3, <1>4, <1>5, <1>6, <1>7, <1>8, <1>9, <1>10 DEF Next

THEOREM Invariance == Spec => []IInv
<1>1. ASSUME IInv, [Next]_vars
      PROVE  IInv'
  BY <1>1, TypeStep, LockStep, AccountStep, PendingStep, LinkStep, SnapshotStep DEF IInv
<1>2. QED
  BY InitIInv, <1>1, PTL DEF Spec

\* The variables keep their types and a committed id is never one whose
\* insert rolled back (audit_log_chain).
THEOREM TypeCorrect == Spec => []TypeOK
<1>1. IInv => TypeOK
  BY DEF IInv
<1>2. QED
  BY <1>1, Invariance, PTL

\* The chain links in id order and does not fork (audit_log_chain).
THEOREM LinkOrderIsIdOrderHolds == Spec => []LinkOrderIsIdOrder
<1>1. IInv => LinkOrderIsIdOrder
  BY DEF IInv, Links, InOrder, LinkOrderIsIdOrder, Linked
<1>2. QED
  BY <1>1, Invariance, PTL

\* Entries are only added at the tip (nextval under the lock).
THEOREM AppendsAtTheTipHolds == Spec => AppendsAtTheTip
<1> DEFINE AtTip == \A n \in log' \ log, m \in log : m < n
<1>1. ASSUME IInv, [Next]_vars
      PROVE  AtTip
  <2>1. ASSUME NEW w \in Writers, Commit(w)
        PROVE  AtTip
    BY <1>1, <2>1 DEF IInv, PendingAbove, Commit
  <2>2. CASE log' \subseteq log
    BY <2>2
  <2>3. (\E w \in Writers : Commit(w)) \/ log' \subseteq log
    BY <1>1 DEF Next, Begin, Lock, AppendEntry, AppendRejected, Rollback, SweepAuditChain,
       EditRow, DeleteRow, vars
  <2>4. QED
    BY <2>1, <2>2, <2>3
<1>2. QED
  BY <1>1, Invariance, PTL DEF Spec, AppendsAtTheTip

\* A chain nobody damaged breaks, if at all, at an id whose insert rolled
\* back (audit_log_verify_chain).
LEMMA BreakIsAHole ==
    ASSUME IInv, edited = {}, lost = {}, ~ Ok
    PROVE  \E n \in unused, m \in log : n < m
<1> USE DEF IInv
<1>1. PICK n \in log : Breaks(n)
  BY DEF Ok
<1>2. Linked(n) /\ Recomputes(n)
  BY DEF Links, InOrder, Linked, Recomputes
<1>3. PICK m \in log : m < n /\ n - 1 \notin log
  BY <1>1, <1>2 DEF Breaks, Follows
<1>4. n \in Int /\ m \in Int /\ seq \in Int /\ 1 <= m /\ n <= seq
  BY DEF TypeOK, Accounted
<1>5. n - 1 \in 1 .. seq
  BY <1>3, <1>4
<1>6. ASSUME NEW w \in Writers, n - 1 \in pending[w]
      PROVE  FALSE
  <2>1. n < n - 1
    BY <1>6 DEF PendingAbove
  <2>2. QED
    BY <1>4, <2>1
<1>7. n - 1 \in unused
  BY <1>3, <1>5, <1>6 DEF Accounted
<1>8. QED
  BY <1>4, <1>7

\* The sweep never calls an undamaged chain broken unless an insert rolled
\* back below a committed entry (sweep_audit_chain).
THEOREM NoAlarmWithoutCauseHolds == Spec => []NoAlarmWithoutCause
<1>1. Init => NoAlarmWithoutCause
  BY DEF Init, NoAlarmWithoutCause
<1>2. ASSUME IInv, NoAlarmWithoutCause, [Next]_vars
      PROVE  NoAlarmWithoutCause'
  <2>1. CASE SweepAuditChain
    BY <1>2, <2>1, BreakIsAHole DEF SweepAuditChain, NoAlarmWithoutCause
  <2>2. ASSUME NEW n \in Ids, DeleteRow(n)
        PROVE  NoAlarmWithoutCause'
    BY <2>2 DEF DeleteRow, NoAlarmWithoutCause
  <2>3. CASE /\ alarms' = alarms /\ edited \subseteq edited' /\ lost' = lost
             /\ unused \subseteq unused' /\ log \subseteq log'
    BY <1>2, <2>3 DEF NoAlarmWithoutCause
  <2>4. QED
    BY <1>2, <2>1, <2>2, <2>3 DEF Next, Begin, Lock, AppendEntry, AppendRejected, Commit,
       Rollback, EditRow, vars
<1>3. QED
  BY <1>1, <1>2, Invariance, PTL DEF Spec

\* Every set of naturals that has a member has a least one.
LEMMA LeastOf ==
    ASSUME NEW S \in SUBSET Nat, S # {}
    PROVE  \E x \in S : \A y \in S : x <= y
<1>1. \E x \in S : \A y \in S : ~ (<<y, x>> \in OpToRel(<, Nat))
  BY NatLessThanWellFounded, WFMin, Zenon
<1>2. \A x, y \in Nat : y < x => <<y, x>> \in OpToRel(<, Nat)
  BY DEF OpToRel
<1>3. \E x \in S : \A y \in S : ~ (y < x)
  BY <1>1, <1>2, Zenon
<1>4. QED
  BY <1>3

\* A hole between two entries is seen at the first entry above it: the walk
\* down from there would otherwise reach the hole (audit_log_verify_chain).
LEMMA HoleShows ==
    ASSUME TypeOK, NEW n \in Ids \ log, NEW m \in log, m < n,
           NEW k \in log, n < k
    PROVE  ~ Ok
<1> DEFINE above == {j \in log : n < j}
<1>1. above \in SUBSET Nat /\ above # {}
  <2>1. \A j \in log : j \in Nat
    BY AuditConstants DEF TypeOK, Ids
  <2>2. above \subseteq log /\ k \in above
    OBVIOUS
  <2>3. QED
    BY <2>1, <2>2
<1>2. PICK first \in above : \A j \in above : first <= j
  BY <1>1, LeastOf
<1>3. m < first /\ first - 1 \notin above
  BY <1>1, <1>2 DEF TypeOK, Ids
<1>4. first - 1 \notin log
  BY <1>1, <1>2, <1>3 DEF TypeOK, Ids
<1>5. Breaks(first)
  BY <1>3, <1>4 DEF Breaks, Follows
<1>6. QED
  BY <1>2, <1>5 DEF Ok

\* What an owner does to the log shows, for every length of it: an edit always,
\* a deletion wherever an earlier entry is left, and the deletion of everything
\* by the sequence (docs/ledger.md, "What it detects").
THEOREM DamageShowsHolds == Spec => []DamageShows
<1>1. ASSUME IInv
      PROVE  DamageShows
  <2>1. edited \cap log # {} => ~ Ok
    BY DEF Ok, Breaks, Recomputes
  <2>2. lost \subseteq Ids \ log /\ lost \subseteq 1 .. seq
    BY <1>1 DEF IInv, TypeOK, Accounted
  <2>3. ASSUME NEW n \in lost, NEW m \in log, m < n, ~ TailGap
        PROVE  ~ Ok
    <3>1. PICK k \in log : ~ (k < n)
      BY <2>2, <2>3 DEF TailGap
    <3>2. n < k
      BY <1>1, <2>2, <3>1 DEF IInv, TypeOK, Ids
    <3>3. QED
      BY <1>1, <2>2, <2>3, <3>2, HoleShows DEF IInv
  <2>4. log = {} /\ lost # {} => TailGap
    BY <2>2 DEF TailGap
  <2>5. QED
    BY <2>1, <2>3, <2>4 DEF DamageShows
<1>2. QED
  BY <1>1, Invariance, PTL

-----------------------------------------------------------------------------
(* The library and the Packs of a venture.                                 *)

\* Who has an entry open read its words, and it is still there.
OpenIsThere ==
    \A h \in Humans : opening[h] # None /\ opening[h].do \in {"approve", "counsel"} =>
        text[opening[h].entry] # None

\* An approval and a review each rest on the entry's words as they are.
ReadAsItStands ==
    \A e \in Entries \ crossed :
        /\ approved_by[e] # None => approvedText[e] = text[e]
        /\ counsel_by[e] # None => counselText[e] = text[e]

\* A version that was not stored again holds what the run began with, and past
\* Gate 2 that is what the gate let through.
RunKeepsItsPack ==
    \A k \in Runs : run[k].gate # "none" /\ ~ run[k].rewritten =>
        /\ SourceOf(run[k].version) = run[k].began
        /\ run[k].gate \in {"6", "10", "11"} => run[k].began \in run[k].passed

\* So does what a pass of such a run carries.
PassKeepsItsPack ==
    \A r \in Requests : job[r].do = "advance" =>
        LET k == job[r].run IN
        /\ k \in Runs /\ job[r].gate \in Gates /\ job[r].source \in Sources
        /\ run[k].gate # "none"
        /\ ~ run[k].rewritten => /\ job[r].source = run[k].began
                                 /\ job[r].gate # "2" => run[k].began \in run[k].passed

\* A request that writes the live row names the version it writes.
WriterNamesItsVersion ==
    \A r \in Requests : job[r].do \in {"publish", "promote"} => job[r].version \in Versions

LibraryInv == LibraryTypeOK /\ OpenIsThere /\ ReadAsItStands

StoreInv ==
    /\ PacksTypeOK
    /\ RunKeepsItsPack
    /\ PassKeepsItsPack
    /\ WriterNamesItsVersion
    /\ ProvisionedWasValidated
    /\ LivePackRemains

PacksInv == LibraryInv /\ StoreInv

\* Nothing is stored, nothing approved and nothing runs.
LEMMA PacksInitInv == PacksInit => PacksInv
<1> SUFFICES ASSUME PacksInit PROVE PacksInv
  OBVIOUS
<1> USE KnowledgeConstants, PackConstants DEF PacksInit
<1>1. LibraryInv
  BY DEF LibraryInit, LibraryInv, LibraryTypeOK, OpenIsThere, ReadAsItStands, Openings
<1>2. PacksTypeOK
  BY <1>1 DEF PacksTypeOK, LibraryInv, NoRun, Run, NoJob, Job, Gates
<1>3. /\ RunKeepsItsPack /\ PassKeepsItsPack /\ WriterNamesItsVersion
      /\ ProvisionedWasValidated /\ LivePackRemains
  BY DEF RunKeepsItsPack, PassKeepsItsPack, WriterNamesItsVersion,
     ProvisionedWasValidated, LivePackRemains, NoRun, NoJob
<1>4. QED
  BY <1>1, <1>2, <1>3 DEF PacksInv, StoreInv

\* What a human has opened, entry by entry.
LEMMA Opened ==
    ASSUME LibraryInv, NEW h \in Humans, opening[h] # None
    PROVE  /\ opening[h] \in Openings
           /\ opening[h].do \in {"approve", "counsel"} =>
                 /\ opening[h].entry \in Entries
                 /\ opening[h].text \in Texts
                 /\ text[opening[h].entry] # None
<1>1. opening[h] \in Openings
  BY DEF LibraryInv, LibraryTypeOK
<1>2. QED
  BY <1>1 DEF LibraryInv, OpenIsThere, Openings

\* The library's acts: authoring takes the approval and the review away, and
\* who wrote over a reading is counted as having crossed it.
LEMMA LibraryStep ==
    ASSUME LibraryInv, NEW h \in Humans,
           Authors(h) \/ Reads(h) \/ Simulates(h) \/ Lose(h)
    PROVE  LibraryInv'
<1> USE KnowledgeConstants DEF LibraryInv
<1>1. ASSUME NEW e \in Entries, NEW t \in Texts, Author(h, e, t)
      PROVE  LibraryInv'
  <2>1. LibraryTypeOK'
    BY <1>1 DEF Author, Kept, LibraryTypeOK
  <2>2. OpenIsThere'
    BY <1>1, Opened DEF Author, LibraryTypeOK, OpenIsThere
  <2>3. ReadAsItStands'
    BY <1>1 DEF Author, Kept, LibraryTypeOK, ReadAsItStands
  <2>4. QED
    BY <2>1, <2>2, <2>3
<1>2. ASSUME NEW e \in Entries, NEW deed \in {"approve", "counsel"}, Open(h, deed, e)
      PROVE  LibraryInv'
  <2>1. [do |-> deed, entry |-> e, text |-> text[e]] \in Openings
    BY <1>2 DEF Open, Openings, LibraryTypeOK
  <2>2. LibraryTypeOK'
    BY <1>2, <2>1 DEF Open, LibraryTypeOK, entryVars, readVars
  <2>3. OpenIsThere' /\ ReadAsItStands'
    BY <1>2 DEF Open, LibraryTypeOK, OpenIsThere, ReadAsItStands, entryVars, readVars
  <2>4. QED
    BY <2>2, <2>3
<1>3. ASSUME Approve(h)
      PROVE  LibraryInv'
  <2> DEFINE e == opening[h].entry
  <2>1. e \in Entries /\ opening[h].text \in Texts /\ text[e] # None
    BY <1>3, Opened DEF Approve
  <2>2. LibraryTypeOK'
    BY <1>3, <2>1 DEF Approve, Done, Crossing, LibraryTypeOK
  <2>3. OpenIsThere'
    BY <1>3 DEF Approve, Done, LibraryTypeOK, OpenIsThere
  <2>4. ReadAsItStands'
    BY <1>3, <2>1 DEF Approve, Crossing, LibraryTypeOK, ReadAsItStands
  <2>5. QED
    BY <2>2, <2>3, <2>4
<1>4. ASSUME RecordCounselReview(h)
      PROVE  LibraryInv'
  <2> DEFINE e == opening[h].entry
  <2>1. e \in Entries /\ opening[h].text \in Texts /\ text[e] # None
    BY <1>4, Opened DEF RecordCounselReview
  <2>2. LibraryTypeOK'
    BY <1>4, <2>1 DEF RecordCounselReview, Done, Crossing, LibraryTypeOK
  <2>3. OpenIsThere'
    BY <1>4 DEF RecordCounselReview, Done, LibraryTypeOK, OpenIsThere
  <2>4. ReadAsItStands'
    BY <1>4, <2>1 DEF RecordCounselReview, Crossing, LibraryTypeOK, ReadAsItStands
  <2>5. QED
    BY <2>2, <2>3, <2>4
<1>5. ASSUME NEW deed \in {"declare", "leave"}, Ask(h, deed)
      PROVE  LibraryInv'
  <2>1. [do |-> deed, entry |-> None, text |-> None] \in Openings
    BY DEF Openings
  <2>2. LibraryTypeOK'
    BY <1>5, <2>1 DEF Ask, LibraryTypeOK, entryVars, readVars
  <2>3. OpenIsThere' /\ ReadAsItStands'
    BY <1>5 DEF Ask, LibraryTypeOK, OpenIsThere, ReadAsItStands, entryVars, readVars
  <2>4. QED
    BY <2>2, <2>3
<1>6. CASE Declare(h) \/ Leave(h) \/ Lose(h)
  <2>1. /\ UNCHANGED <<entryVars, readVars>>
        /\ simulated' \in BOOLEAN
        /\ opening' \in [Humans -> Openings \cup {None}]
        /\ \A g \in Humans : opening'[g] \in {opening[g], None}
    BY <1>6 DEF Declare, Leave, Lose, Done, LibraryTypeOK
  <2>2. LibraryTypeOK'
    BY <2>1 DEF LibraryTypeOK, entryVars, readVars
  <2>3. OpenIsThere' /\ ReadAsItStands'
    BY <2>1 DEF OpenIsThere, ReadAsItStands, entryVars, readVars
  <2>4. QED
    BY <2>2, <2>3
<1>7. QED
  BY <1>1, <1>2, <1>3, <1>4, <1>5, <1>6 DEF Authors, Reads, Simulates


\* A version has something stored if and only if it has a status, so the one
\* row of a status names a source.
LEMMA StoredSource ==
    ASSUME PacksTypeOK, NEW one \in {"live", "draft"}, The(one) # None
    PROVE  /\ The(one) \in Versions
           /\ status[The(one)] = one
           /\ SourceOf(The(one)) \in Sources
<1>1. The(one) \in Rows(one)
  BY DEF The
<1>2. The(one) \in Versions /\ status[The(one)] = one
  BY <1>1 DEF Rows
<1>3. QED
  BY <1>2 DEF PacksTypeOK, SourceOf

\* A step that leaves the library alone leaves its types.
LEMMA LibraryKept ==
    ASSUME LibraryTypeOK, UNCHANGED libraryVars
    PROVE  LibraryTypeOK'
BY DEF LibraryTypeOK, libraryVars, entryVars, readVars

\* A store under one version leaves that version the only one of its status,
\* and marks the runs that were started on it.
LEMMA StoreStep ==
    ASSUME StoreInv, NEW v \in Versions, NEW s \in Sources, NEW one \in {"live", "draft"},
           Store(v, s, one),
           UNCHANGED <<libraryVars, unreadable, signed, agenda>>,
           job' \in [Requests -> Job],
           \A r \in Requests : job'[r] \in {job[r], NoJob}
    PROVE  StoreInv'
<1> USE KnowledgeConstants, PackConstants DEF StoreInv
<1>1. /\ source' = [source EXCEPT ![v] = s]
      /\ status' = [u \in Versions |->
                      IF u = v THEN one
                      ELSE IF status[u] # one THEN status[u]
                      ELSE IF one = "live" THEN "superseded" ELSE "abandoned"]
      /\ vacant' \in {"never", "drafted over", vacant}
      /\ vacant' = "never" => one = "live" \/ (status[v] # "live" /\ vacant = "never")
      /\ run' = [k \in Runs |-> IF run[k].version = v THEN [run[k] EXCEPT !.rewritten = TRUE]
                                ELSE run[k]]
  BY DEF Store, Leaves
<1>2. ASSUME NEW k \in Runs
      PROVE  /\ run'[k] \in Run
             /\ run'[k].version = run[k].version /\ run'[k].began = run[k].began
             /\ run'[k].gate = run[k].gate /\ run'[k].provisioned = run[k].provisioned
             /\ run'[k].passed = run[k].passed
             /\ run'[k].rewritten \in {run[k].rewritten, TRUE}
             /\ run[k].version = v => run'[k].rewritten
  <2>1. run[k] \in Run
    BY DEF PacksTypeOK
  <2>2. CASE run[k].version = v
    <3>1. run'[k] = [run[k] EXCEPT !.rewritten = TRUE]
      BY <1>1, <2>2
    <3>2. QED
      BY <2>1, <3>1 DEF Run
  <2>3. CASE run[k].version # v
    BY <1>1, <2>1, <2>3
  <2>4. QED
    BY <2>2, <2>3
<1>3. run' \in [Runs -> Run]
  BY <1>1, <1>2
<1>4. \A k \in Runs : run[k].version # v => SourceOf(run[k].version)' = SourceOf(run[k].version)
  BY <1>1 DEF PacksTypeOK, Run, SourceOf
<1>5. PacksTypeOK'
  <2>1. LibraryTypeOK'
    BY LibraryKept DEF PacksTypeOK
  <2>2. /\ source' \in [Versions -> Sources \cup {None}]
        /\ status' \in [Versions -> {"none", "draft", "live", "superseded", "abandoned"}]
        /\ \A u \in Versions : status'[u] = "none" <=> source'[u] = None
        /\ \A u, w \in Versions :
              status'[u] \in {"live", "draft"} /\ status'[u] = status'[w] => u = w
    BY <1>1 DEF PacksTypeOK
  <2>3. QED
    BY <1>1, <1>3, <2>1, <2>2 DEF PacksTypeOK
<1>6. RunKeepsItsPack'
  BY <1>2, <1>4 DEF RunKeepsItsPack
<1>7. PassKeepsItsPack'
  <2>1. SUFFICES ASSUME NEW r \in Requests, job'[r].do = "advance"
                 PROVE  LET k == job[r].run IN
                        /\ job'[r] = job[r]
                        /\ k \in Runs /\ job[r].gate \in Gates /\ job[r].source \in Sources
                        /\ run'[k].gate # "none"
                        /\ ~ run'[k].rewritten =>
                              /\ job[r].source = run'[k].began
                              /\ job[r].gate # "2" => run'[k].began \in run'[k].passed
    BY DEF PassKeepsItsPack
  <2>2. job'[r] = job[r] /\ job[r].do = "advance"
    BY <2>1 DEF NoJob
  <2>3. job[r].run \in Runs
    BY <2>2 DEF PassKeepsItsPack
  <2> DEFINE k == job[r].run
  <2>4. /\ job[r].gate \in Gates /\ job[r].source \in Sources
        /\ run[k].gate # "none"
        /\ ~ run[k].rewritten =>
              /\ job[r].source = run[k].began
              /\ job[r].gate # "2" => run[k].began \in run[k].passed
    BY <2>2 DEF PassKeepsItsPack
  <2>5. /\ run'[k].began = run[k].began /\ run'[k].gate = run[k].gate
        /\ run'[k].passed = run[k].passed
        /\ run'[k].rewritten \in {run[k].rewritten, TRUE}
    BY <1>2, <2>3
  <2> HIDE DEF k
  <2>6. ~ run'[k].rewritten => ~ run[k].rewritten
    BY <2>5
  <2>7. k \in Runs
    BY <2>3 DEF k
  <2>8. QED
    BY <2>2, <2>4, <2>5, <2>6, <2>7 DEF k
<1>8. WriterNamesItsVersion'
  BY DEF WriterNamesItsVersion, NoJob
<1>9. ProvisionedWasValidated'
  BY <1>2 DEF ProvisionedWasValidated
<1>10. LivePackRemains'
  <2>1. CASE one = "live"
    BY <1>1, <2>1 DEF LivePackRemains, Rows
  <2>2. CASE one = "draft"
    BY <1>1, <2>2 DEF LivePackRemains, Rows
  <2>3. QED
    BY <2>1, <2>2
<1>11. QED
  BY <1>5, <1>6, <1>7, <1>8, <1>9, <1>10

\* Where only runs and requests move, only they can lose their types.
LEMMA RunsTyped ==
    ASSUME StoreInv, UNCHANGED <<libraryVars, packVars, unreadable, signed, agenda>>,
           run' \in [Runs -> Run], job' \in [Requests -> Job]
    PROVE  PacksTypeOK'
<1>1. LibraryTypeOK'
  BY LibraryKept DEF StoreInv, PacksTypeOK
<1>2. QED
  BY <1>1 DEF StoreInv, PacksTypeOK, packVars

\* A request that begins, goes on or ends; nothing else moves.
LEMMA JobStep ==
    ASSUME StoreInv,
           UNCHANGED <<libraryVars, packVars, unreadable, run, agenda>>,
           signed' \subseteq Sources,
           job' \in [Requests -> Job],
           PassKeepsItsPack', WriterNamesItsVersion'
    PROVE  StoreInv'
<1> USE DEF StoreInv
<1>1. PacksTypeOK'
  BY LibraryKept DEF PacksTypeOK, packVars
<1>2. RunKeepsItsPack' /\ ProvisionedWasValidated'
  BY DEF RunKeepsItsPack, ProvisionedWasValidated, SourceOf, packVars
<1>3. LivePackRemains'
  BY DEF LivePackRemains, Rows, packVars
<1>4. QED
  BY <1>1, <1>2, <1>3

\* A request that is not one of advance and writes no live row.
LEMMA OneJob ==
    ASSUME StoreInv, NEW r \in Requests, NEW j \in Job, job' = [job EXCEPT ![r] = j],
           UNCHANGED <<libraryVars, packVars, unreadable, run, agenda>>,
           signed' = signed,
           j.do \in {"publish", "promote"} => j.version \in Versions,
           j.do = "advance" =>
               /\ j.run \in Runs /\ j.gate \in Gates /\ j.source \in Sources
               /\ run[j.run].gate # "none"
               /\ ~ run[j.run].rewritten =>
                     /\ j.source = run[j.run].began
                     /\ j.gate # "2" => run[j.run].began \in run[j.run].passed
    PROVE  StoreInv'
<1>1. job' \in [Requests -> Job] /\ signed' \subseteq Sources
  BY DEF StoreInv, PacksTypeOK
<1>2. \A q \in Requests : job'[q] = IF q = r THEN j ELSE job[q]
  BY DEF StoreInv, PacksTypeOK
<1>3. PassKeepsItsPack'
  BY <1>2 DEF StoreInv, PassKeepsItsPack
<1>4. WriterNamesItsVersion'
  BY <1>2 DEF StoreInv, WriterNamesItsVersion
<1>5. QED
  BY <1>1, <1>3, <1>4, JobStep

\* Publishing and promoting: between its reading and its write a request holds
\* a source that may be stale, but it names the version it writes.
LEMMA PublishSteps ==
    ASSUME StoreInv, NEW r \in Requests, PublishStep(r), UNCHANGED <<libraryVars, agenda>>
    PROVE  StoreInv'
<1> USE KnowledgeConstants, PackConstants
<1>0. agenda.sources \subseteq Sources
  BY DEF StoreInv, PacksTypeOK
<1>1. ASSUME NEW v \in Versions, NEW s \in agenda.sources, ReadPublish(r, v, s)
      PROVE  StoreInv'
  <2> DEFINE j == [NoJob EXCEPT !.do = "publish", !.at = "write", !.version = v, !.source = s]
  <2>1. j \in Job /\ j.do = "publish" /\ j.version = v
    BY <1>0, <1>1 DEF NoJob, Job
  <2>2. QED
    BY <1>1, <2>1, OneJob DEF ReadPublish, BeginJob
<1>2. ASSUME ReadDraft(r)
      PROVE  StoreInv'
  <2> DEFINE j == [NoJob EXCEPT !.do = "promote", !.at = "abandon", !.version = The("draft"),
                                !.source = SourceOf(The("draft"))]
  <2>1. The("draft") # None
    BY <1>2 DEF ReadDraft, Readable, SourceOf
  <2>2. j \in Job /\ j.do = "promote" /\ j.version \in Versions
    BY <2>1, StoredSource DEF StoreInv, NoJob, Job
  <2>3. QED
    BY <1>2, <2>2, OneJob DEF ReadDraft, BeginJob
<1>3. ASSUME AbandonDraft(r)
      PROVE  StoreInv'
  <2>1. /\ status' = [u \in Versions |-> IF status[u] = "draft" THEN "abandoned" ELSE status[u]]
        /\ job' = [job EXCEPT ![r].at = "write"]
        /\ UNCHANGED <<libraryVars, agenda, source, vacant, unreadable, signed, run>>
    BY <1>3 DEF AbandonDraft, Leaves
  <2>2. ASSUME NEW q \in Requests
        PROVE  /\ job'[q] \in Job
               /\ job'[q].do = job[q].do /\ job'[q].version = job[q].version
               /\ job'[q].source = job[q].source /\ job'[q].run = job[q].run
               /\ job'[q].gate = job[q].gate
    <3>1. job[q] \in Job
      BY DEF StoreInv, PacksTypeOK
    <3>2. CASE q = r
      <4>1. job'[q] = [job[q] EXCEPT !.at = "write"]
        BY <2>1, <3>2 DEF StoreInv, PacksTypeOK
      <4>2. QED
        BY <3>1, <4>1 DEF Job
    <3>3. CASE q # r
      BY <2>1, <3>1, <3>3 DEF StoreInv, PacksTypeOK
    <3>4. QED
      BY <3>2, <3>3
  <2>3. PacksTypeOK'
    <3>1. LibraryTypeOK'
      BY <2>1, LibraryKept DEF StoreInv, PacksTypeOK
    <3>2. /\ status' \in [Versions -> {"none", "draft", "live", "superseded", "abandoned"}]
          /\ \A v \in Versions : status'[v] = "none" <=> source'[v] = None
          /\ \A u, v \in Versions :
                status'[u] \in {"live", "draft"} /\ status'[u] = status'[v] => u = v
      BY <2>1 DEF StoreInv, PacksTypeOK
    <3>3. job' \in [Requests -> Job]
      BY <2>1, <2>2 DEF StoreInv, PacksTypeOK
    <3>4. /\ source' \in [Versions -> Sources \cup {None}] /\ unreadable' \subseteq Sources
          /\ signed' \subseteq Sources /\ run' \in [Runs -> Run] /\ agenda' \in Agendas
          /\ vacant' \in {"unpublished", "drafted over", "never"}
      BY <2>1 DEF StoreInv, PacksTypeOK
    <3>5. QED
      BY <3>1, <3>2, <3>3, <3>4 DEF PacksTypeOK
  <2>4. RunKeepsItsPack' /\ ProvisionedWasValidated'
    BY <2>1 DEF StoreInv, RunKeepsItsPack, ProvisionedWasValidated, SourceOf
  <2>5. PassKeepsItsPack' /\ WriterNamesItsVersion'
    BY <2>1, <2>2 DEF StoreInv, PassKeepsItsPack, WriterNamesItsVersion
  <2>6. LivePackRemains'
    BY <2>1 DEF StoreInv, PacksTypeOK, LivePackRemains, Rows
  <2>7. QED
    BY <2>3, <2>4, <2>5, <2>6 DEF StoreInv
<1>4. ASSUME WriteLive(r)
      PROVE  StoreInv'
  <2>1. job[r].version \in Versions
    BY <1>4 DEF WriteLive, StoreInv, WriterNamesItsVersion
  <2>2. job[r].source \in Sources
    BY <1>4 DEF WriteLive, Readable, StoreInv, PacksTypeOK, Job
  <2>3. job' \in [Requests -> Job] /\ \A q \in Requests : job'[q] \in {job[q], NoJob}
    BY <1>4 DEF WriteLive, EndJob, StoreInv, PacksTypeOK, NoJob, Job
  <2>4. QED
    BY <1>4, <2>1, <2>2, <2>3, StoreStep DEF WriteLive
<1>5. QED
  BY <1>1, <1>2, <1>3, <1>4 DEF PublishStep

\* Runs: a run starts with the source that was read for it, and a pass takes
\* what the run's version holds now.
LEMMA RunSteps ==
    ASSUME StoreInv, NEW r \in Requests, RunStep(r), UNCHANGED <<libraryVars, agenda>>
    PROVE  StoreInv'
<1> USE KnowledgeConstants, PackConstants
<1>1. ASSUME ReadStart(r)
      PROVE  StoreInv'
  <2> DEFINE j == [NoJob EXCEPT !.do = "start", !.at = "write", !.version = The("live"),
                                !.source = Live]
  <2>1. The("live") # None
    BY <1>1 DEF ReadStart, Readable, Live, SourceOf
  <2>2. j \in Job /\ j.do = "start"
    BY <2>1, StoredSource DEF StoreInv, NoJob, Job, Live
  <2>3. QED
    BY <1>1, <2>2, OneJob DEF ReadStart, BeginJob
<1>2. ASSUME NEW k \in Runs, Advance(r, k)
      PROVE  StoreInv'
  <2> DEFINE j == [NoJob EXCEPT !.do = "advance", !.at = "gate", !.run = k,
                                !.source = PackOf(k), !.gate = run[k].gate]
  <2>1. run[k] \in Run /\ run[k].gate \in Gates /\ PackOf(k) \in Sources
    BY <1>2 DEF Advance, Readable, PackOf, SourceOf, StoreInv, PacksTypeOK, Run
  <2>2. /\ j \in Job /\ j.do = "advance" /\ j.run = k
        /\ j.source = SourceOf(run[k].version) /\ j.source \in Sources
        /\ j.gate = run[k].gate
    BY <2>1 DEF NoJob, Job, PackOf
  <2>3. /\ run[k].gate # "none"
        /\ ~ run[k].rewritten => /\ SourceOf(run[k].version) = run[k].began
                                 /\ run[k].gate # "2" => run[k].began \in run[k].passed
    BY <2>1 DEF StoreInv, RunKeepsItsPack, Gates
  <2>4. QED
    BY <1>2, <2>1, <2>2, <2>3, OneJob DEF Advance, BeginJob
<1>3. ASSUME NEW k \in Runs, StartRun(r, k)
      PROVE  StoreInv'
  <2> DEFINE new == [NoRun EXCEPT !.version = job[r].version, !.began = job[r].source,
                       !.gate = "2", !.rewritten = SourceOf(job[r].version) # job[r].source]
  <2>1. /\ run[k].gate = "none"
        /\ run' = [run EXCEPT ![k] = new]
        /\ UNCHANGED <<packVars, unreadable, signed>>
        /\ job' = [job EXCEPT ![r] = NoJob]
    BY <1>3 DEF StartRun, EndJob, NoRun
  <2>2. job[r] \in Job
    BY DEF StoreInv, PacksTypeOK
  <2>3. /\ new \in Run /\ new.gate = "2"
        /\ ~ new.rewritten => SourceOf(new.version) = new.began
    BY <2>2 DEF NoRun, Run, Job, Gates
  <2>4. job' \in [Requests -> Job] /\ run' \in [Runs -> Run]
    BY <2>1, <2>3 DEF StoreInv, PacksTypeOK, NoJob, Job
  <2>5. PacksTypeOK'
    BY <2>1, <2>4, RunsTyped
  <2>6. \A q \in Runs : run'[q] = IF q = k THEN new ELSE run[q]
    BY <2>1 DEF StoreInv, PacksTypeOK
  <2>7. RunKeepsItsPack'
    BY <2>1, <2>3, <2>6 DEF StoreInv, RunKeepsItsPack, SourceOf, packVars
  <2>8. ProvisionedWasValidated'
    BY <2>3, <2>6 DEF StoreInv, ProvisionedWasValidated
  <2>9. \A q \in Requests : job'[q] \in {job[q], NoJob}
    BY <2>1 DEF StoreInv, PacksTypeOK
  <2>10. PassKeepsItsPack'
    BY <2>1, <2>6, <2>9 DEF StoreInv, PassKeepsItsPack, NoJob
  <2>11. WriterNamesItsVersion' /\ LivePackRemains'
    BY <2>1, <2>9 DEF StoreInv, WriterNamesItsVersion, NoJob, LivePackRemains, Rows, packVars
  <2>12. QED
    BY <2>5, <2>7, <2>8, <2>10, <2>11 DEF StoreInv
<1>4. ASSUME PassGate(r)
      PROVE  StoreInv'
  <2> DEFINE k == job[r].run
             g == job[r].gate
             s == job[r].source
             next == Following[g]
             moved == [run[k] EXCEPT !.gate = next,
                         !.passed = IF g = "2" THEN @ \cup {s} ELSE @,
                         !.provisioned = IF g = "11" THEN s ELSE @]
  <2>1. /\ k \in Runs /\ g \in Gates /\ s \in Sources
        /\ run[k].gate # "none"
        /\ ~ run[k].rewritten => /\ s = run[k].began
                                 /\ g # "2" => run[k].began \in run[k].passed
    BY <1>4 DEF PassGate, StoreInv, PassKeepsItsPack
  <2>2. /\ run' = [run EXCEPT ![k] = moved]
        /\ job' = [job EXCEPT ![r] = IF next \in Gates THEN [@ EXCEPT !.gate = next] ELSE NoJob]
        /\ UNCHANGED <<packVars, unreadable, signed>>
    BY <1>4 DEF PassGate
  <2>3. /\ next \in {"6", "10", "11", "complete"}
        /\ next = "complete" => g = "11"
        /\ next \in Gates => next # "2" /\ next # "complete"
    BY <2>1 DEF Following, Gates
  <2>4. /\ moved \in Run /\ moved.version = run[k].version /\ moved.began = run[k].began
        /\ moved.rewritten = run[k].rewritten /\ moved.gate = next
        /\ moved.passed = IF g = "2" THEN run[k].passed \cup {s} ELSE run[k].passed
        /\ g = "11" => moved.provisioned = s
    <3>1. run[k] \in Run
      BY <2>1 DEF StoreInv, PacksTypeOK
    <3>2. run[k].passed \in SUBSET Sources /\ run[k].passed \cup {s} \in SUBSET Sources
      BY <2>1, <3>1 DEF Run
    <3>3. next \in Gates \cup {"none", "complete", "aborted"}
      BY <2>3 DEF Gates
    <3> HIDE DEF s, next
    <3>4. moved \in Run
      <4>1. ASSUME NEW p \in SUBSET Sources, NEW v \in Sources \cup {None}
            PROVE  [run[k] EXCEPT !.gate = next, !.passed = p, !.provisioned = v] \in Run
        BY <3>1, <3>3 DEF Run
      <4>2. CASE g = "2"
        BY <3>1, <3>2, <4>1, <4>2 DEF Run
      <4>3. CASE g = "11"
        BY <2>1, <3>1, <3>2, <4>1, <4>3 DEF Run
      <4>4. CASE g \notin {"2", "11"}
        BY <3>1, <3>2, <4>1, <4>4 DEF Run
      <4>5. QED
        BY <4>2, <4>3, <4>4
    <3>5. /\ moved.version = run[k].version /\ moved.began = run[k].began
          /\ moved.rewritten = run[k].rewritten /\ moved.gate = next
          /\ moved.passed = IF g = "2" THEN run[k].passed \cup {s} ELSE run[k].passed
      BY <3>1 DEF Run
    <3>6. g = "11" => moved.provisioned = s
      BY <3>1 DEF Run
    <3>7. QED
      BY <3>4, <3>5, <3>6
  <2>5. ~ moved.rewritten => moved.began \in moved.passed /\ SourceOf(moved.version) = moved.began
    BY <2>1, <2>4 DEF StoreInv, RunKeepsItsPack
  <2>6. \A q \in Runs : run'[q] = IF q = k THEN moved ELSE run[q]
    BY <2>2 DEF StoreInv, PacksTypeOK
  <2>7. run' \in [Runs -> Run]
    BY <2>2, <2>4 DEF StoreInv, PacksTypeOK
  <2>8. /\ job' \in [Requests -> Job]
        /\ \A q \in Requests : q # r => job'[q] = job[q]
        /\ \/ job'[r] = NoJob
           \/ /\ next \in Gates
              /\ job'[r].do = "advance" /\ job'[r].run = k
              /\ job'[r].source = s /\ job'[r].gate = next
    <3>1. job[r] \in Job /\ job[r].do = "advance"
      BY <1>4 DEF PassGate, StoreInv, PacksTypeOK
    <3>2. CASE next \in Gates
      <4>1. job' = [job EXCEPT ![r] = [job[r] EXCEPT !.gate = next]]
        BY <2>2, <3>2
      <4>2. [job[r] EXCEPT !.gate = next] \in Job
        BY <3>1, <3>2 DEF Job
      <4>3. QED
        BY <3>1, <3>2, <4>1, <4>2 DEF StoreInv, PacksTypeOK, Job
    <3>3. CASE next \notin Gates
      <4>1. job' = [job EXCEPT ![r] = NoJob] /\ NoJob \in Job
        BY <2>2, <3>3 DEF NoJob, Job
      <4>2. QED
        BY <4>1 DEF StoreInv, PacksTypeOK
    <3>4. QED
      BY <3>2, <3>3
  <2>9. PacksTypeOK'
    BY <2>2, <2>7, <2>8, RunsTyped
  <2>10. RunKeepsItsPack'
    <3> HIDE DEF moved
    <3>1. UNCHANGED source
      BY <2>2 DEF packVars
    <3>2. ASSUME NEW q \in Runs, run'[q].gate # "none", ~ run'[q].rewritten
          PROVE  /\ SourceOf(run[q].version)' = run'[q].began
                 /\ run'[q].gate \in {"6", "10", "11"} => run'[q].began \in run'[q].passed
      <4>1. CASE q = k
        BY <2>5, <2>6, <3>1, <3>2, <4>1 DEF SourceOf
      <4>2. CASE q # k
        BY <2>6, <3>1, <3>2, <4>2 DEF StoreInv, RunKeepsItsPack, SourceOf
      <4>3. QED
        BY <4>1, <4>2
    <3>3. QED
      BY <3>2 DEF RunKeepsItsPack
  <2>11. ProvisionedWasValidated'
    BY <2>1, <2>3, <2>4, <2>5, <2>6 DEF StoreInv, ProvisionedWasValidated
  <2>12. PassKeepsItsPack'
    <3>1. ASSUME NEW q \in Requests, job'[q].do = "advance", q # r
          PROVE  LET h == job'[q].run IN
                 /\ h \in Runs /\ job'[q].gate \in Gates /\ job'[q].source \in Sources
                 /\ run'[h].gate # "none"
                 /\ ~ run'[h].rewritten =>
                       /\ job'[q].source = run'[h].began
                       /\ job'[q].gate # "2" => run'[h].began \in run'[h].passed
      <4>1. job'[q] = job[q]
        BY <2>8, <3>1
      <4>2. LET h == job[q].run IN
            /\ h \in Runs /\ job[q].gate \in Gates /\ job[q].source \in Sources
            /\ run[h].gate # "none"
            /\ ~ run[h].rewritten => /\ job[q].source = run[h].began
                                     /\ job[q].gate # "2" => run[h].began \in run[h].passed
        BY <3>1, <4>1 DEF StoreInv, PassKeepsItsPack
      <4>3. CASE job[q].run = k
        <5>1. /\ run'[k].gate # "none" /\ run'[k].began = run[k].began
              /\ run'[k].rewritten = run[k].rewritten
              /\ run[k].passed \subseteq run'[k].passed
          <6> HIDE DEF next, moved
          <6>1. run'[k] = moved
            BY <2>1, <2>6
          <6>2. next # "none"
            BY <2>3
          <6>3. QED
            BY <2>4, <6>1, <6>2
        <5>2. QED
          BY <4>1, <4>2, <4>3, <5>1
      <4>4. CASE job[q].run # k
        BY <2>6, <4>1, <4>2, <4>4
      <4>5. QED
        BY <4>3, <4>4
    <3>2. ASSUME job'[r].do = "advance"
          PROVE  /\ job'[r].run = k /\ job'[r].gate \in Gates /\ job'[r].source = s
                 /\ run'[k].gate # "none"
                 /\ ~ run'[k].rewritten => s = run'[k].began /\ run'[k].began \in run'[k].passed
      <4>1. next \in Gates /\ job'[r].run = k /\ job'[r].source = s /\ job'[r].gate = next
        BY <2>8, <3>2 DEF NoJob
      <4>2. run'[k] = moved
        BY <2>1, <2>6
      <4>3. QED
        BY <2>1, <2>3, <2>4, <2>5, <4>1, <4>2
    <3>3. QED
      BY <2>1, <3>1, <3>2 DEF PassKeepsItsPack
  <2>13. WriterNamesItsVersion'
    BY <2>8 DEF StoreInv, WriterNamesItsVersion, NoJob
  <2>14. LivePackRemains'
    BY <2>2 DEF StoreInv, LivePackRemains, Rows, packVars
  <2>15. QED
    BY <2>9, <2>10, <2>11, <2>12, <2>13, <2>14 DEF StoreInv
<1>5. QED
  BY <1>1, <1>2, <1>3, <1>4 DEF RunStep

\* Everything else that a request, a release or an operator does.
LEMMA PackStepInv ==
    ASSUME StoreInv, PackStep, UNCHANGED <<libraryVars, agenda>>
    PROVE  StoreInv'
<1> USE KnowledgeConstants, PackConstants
<1>0. agenda.sources \subseteq Sources
  BY DEF StoreInv, PacksTypeOK
<1>1. ASSUME NEW r \in Requests, Die(r)
      PROVE  StoreInv'
  <2>1. NoJob \in Job /\ NoJob.do = "nothing"
    BY DEF NoJob, Job
  <2>2. QED
    BY <1>1, <2>1, OneJob DEF Die, EndJob
<1>2. ASSUME NEW v \in Versions, NEW s \in agenda.sources, SaveDraft(v, s)
      PROVE  StoreInv'
  <2>1. job' \in [Requests -> Job] /\ \A q \in Requests : job'[q] \in {job[q], NoJob}
    BY <1>2 DEF SaveDraft, StoreInv, PacksTypeOK
  <2>2. QED
    BY <1>0, <1>2, <2>1, StoreStep DEF SaveDraft
<1>3. ASSUME NEW s \in agenda.sources, Tighten(s)
      PROVE  StoreInv'
  <2>1. /\ unreadable' = unreadable \cup {s}
        /\ UNCHANGED <<packVars, signed, run, job>>
    BY <1>3 DEF Tighten
  <2>2. unreadable \subseteq Sources /\ s \in Sources
    BY <1>0 DEF StoreInv, PacksTypeOK
  <2>3. unreadable' \subseteq Sources
    BY <2>1, <2>2
  <2>4. PacksTypeOK'
    <3>1. LibraryTypeOK'
      BY LibraryKept DEF StoreInv, PacksTypeOK
    <3>2. QED
      BY <2>1, <2>3, <3>1 DEF StoreInv, PacksTypeOK, packVars
  <2>5. /\ RunKeepsItsPack' /\ PassKeepsItsPack' /\ WriterNamesItsVersion'
        /\ ProvisionedWasValidated' /\ LivePackRemains'
    BY <2>1 DEF StoreInv, RunKeepsItsPack, PassKeepsItsPack, WriterNamesItsVersion,
       ProvisionedWasValidated, LivePackRemains, Rows, SourceOf, packVars
  <2>6. QED
    BY <2>4, <2>5 DEF StoreInv
<1>4. ASSUME NEW k \in Runs, SignOffRun(k)
      PROVE  StoreInv'
  <2>1. signed' \subseteq Sources
    <3>1. PackOf(k) \in Sources
      <4>1. run[k] \in Run /\ PackOf(k) # None
        BY <1>4 DEF SignOffRun, Readable, StoreInv, PacksTypeOK
      <4>2. run[k].version \in Versions \cup {None}
        BY <4>1 DEF Run
      <4>3. QED
        BY <4>1, <4>2 DEF PackOf, SourceOf, StoreInv, PacksTypeOK
    <3>2. signed \subseteq Sources
      BY DEF StoreInv, PacksTypeOK
    <3>3. QED
      BY <1>4, <3>1, <3>2 DEF SignOffRun
  <2>2. job' \in [Requests -> Job] /\ PassKeepsItsPack' /\ WriterNamesItsVersion'
    BY <1>4 DEF SignOffRun, StoreInv, PacksTypeOK, PassKeepsItsPack, WriterNamesItsVersion
  <2>3. QED
    BY <1>4, <2>1, <2>2, JobStep DEF SignOffRun
<1>5. ASSUME NEW k \in Runs, AbortRun(k)
      PROVE  StoreInv'
  <2> DEFINE ended == [run[k] EXCEPT !.gate = "aborted"]
  <2>1. /\ run' = [run EXCEPT ![k] = ended]
        /\ UNCHANGED <<packVars, unreadable, signed, job>>
    BY <1>5 DEF AbortRun
  <2>2. /\ ended \in Run /\ ended.gate = "aborted"
        /\ ended.version = run[k].version /\ ended.began = run[k].began
        /\ ended.passed = run[k].passed /\ ended.rewritten = run[k].rewritten
    <3>1. run[k] \in Run /\ run[k].gate \in Gates
      BY <1>5 DEF AbortRun, ActiveRuns, StoreInv, PacksTypeOK
    <3>2. QED
      BY <3>1 DEF Run
  <2>3. run[k].gate # "none"
    BY <1>5 DEF AbortRun, ActiveRuns, Gates
  <2>4. \A q \in Runs : run'[q] = IF q = k THEN ended ELSE run[q]
    BY <2>1 DEF StoreInv, PacksTypeOK
  <2>5. run' \in [Runs -> Run]
    BY <2>1, <2>2 DEF StoreInv, PacksTypeOK
  <2>6. PacksTypeOK'
    <3>1. job' \in [Requests -> Job]
      BY <2>1 DEF StoreInv, PacksTypeOK
    <3>2. QED
      BY <2>1, <2>5, <3>1, RunsTyped
  <2>7. RunKeepsItsPack'
    BY <2>1, <2>2, <2>3, <2>4 DEF StoreInv, RunKeepsItsPack, SourceOf, packVars
  <2>8. ProvisionedWasValidated'
    BY <2>2, <2>4 DEF StoreInv, ProvisionedWasValidated
  <2>9. PassKeepsItsPack' /\ WriterNamesItsVersion'
    BY <2>1, <2>2, <2>4 DEF StoreInv, PassKeepsItsPack, WriterNamesItsVersion
  <2>10. LivePackRemains'
    BY <2>1 DEF StoreInv, LivePackRemains, Rows, packVars
  <2>11. QED
    BY <2>6, <2>7, <2>8, <2>9, <2>10 DEF StoreInv
<1>6. QED
  BY <1>1, <1>2, <1>3, <1>4, <1>5, PublishSteps, RunSteps DEF PackStep

\* Every step keeps the invariant.
LEMMA PacksStep ==
    ASSUME PacksInv, [PacksNext]_ventureVars
    PROVE  PacksInv'
<1>1. CASE PackStep /\ UNCHANGED <<libraryVars, agenda>>
  <2>1. StoreInv'
    BY <1>1, PackStepInv DEF PacksInv
  <2>2. LibraryInv'
    BY <1>1 DEF PacksInv, LibraryInv, LibraryTypeOK, OpenIsThere, ReadAsItStands,
       libraryVars, entryVars, readVars
  <2>3. QED
    BY <2>1, <2>2 DEF PacksInv
<1>2. ASSUME NEW h \in Humans, Authors(h) \/ Reads(h) \/ Simulates(h) \/ Lose(h),
             UNCHANGED <<packVars, unreadable, signed, run, job, agenda>>
      PROVE  PacksInv'
  <2>1. LibraryInv'
    BY <1>2, LibraryStep DEF PacksInv
  <2>2. PacksTypeOK'
    BY <1>2, <2>1 DEF PacksInv, LibraryInv, StoreInv, PacksTypeOK, packVars
  <2>3. /\ RunKeepsItsPack' /\ PassKeepsItsPack' /\ WriterNamesItsVersion'
        /\ ProvisionedWasValidated' /\ LivePackRemains'
    BY <1>2 DEF PacksInv, StoreInv, RunKeepsItsPack, PassKeepsItsPack,
       WriterNamesItsVersion, ProvisionedWasValidated, LivePackRemains, Rows, SourceOf, packVars
  <2>4. QED
    BY <2>1, <2>2, <2>3 DEF PacksInv, StoreInv
<1>3. CASE UNCHANGED ventureVars
  <2>1. UNCHANGED <<libraryVars, packVars, unreadable, signed, run, job, agenda>>
    BY <1>3 DEF ventureVars
  <2>2. LibraryTypeOK'
    BY <2>1, LibraryKept DEF PacksInv, LibraryInv
  <2>3. LibraryInv'
    BY <2>1, <2>2 DEF PacksInv, LibraryInv, OpenIsThere, ReadAsItStands, libraryVars,
       entryVars, readVars
  <2>4. /\ job' \in [Requests -> Job] /\ signed' \subseteq Sources
        /\ PassKeepsItsPack' /\ WriterNamesItsVersion'
    BY <2>1 DEF PacksInv, StoreInv, PacksTypeOK, PassKeepsItsPack, WriterNamesItsVersion
  <2>5. StoreInv'
    BY <2>1, <2>4, JobStep DEF PacksInv
  <2>6. QED
    BY <2>3, <2>5 DEF PacksInv
<1>4. QED
  BY <1>1, <1>2, <1>3 DEF PacksNext

THEOREM PacksInvariance == PacksSpec => []PacksInv
<1>1. QED
  BY PacksInitInv, PacksStep, PTL DEF PacksSpec

\* The store's types, and that a venture has one live Pack and one draft at
\* most, however publications, promotions and drafts interleave.
THEOREM PacksTypeCorrect == PacksSpec => []PacksTypeOK
<1>1. PacksInv => PacksTypeOK
  BY DEF PacksInv, StoreInv
<1>2. QED
  BY <1>1, PacksInvariance, PTL

\* An entry that is relied on says what its approver and the recorder of
\* counsel's review read, unless one of them was written over.
THEOREM ReliedOnWasReadHolds == PacksSpec => []ReliedOnWasRead
<1>1. PacksInv => ReliedOnWasRead
  BY DEF PacksInv, LibraryInv, ReadAsItStands, ReliedOnWasRead, ReliedOn
<1>2. QED
  BY <1>1, PacksInvariance, PTL

\* A run provisions what its Gate 2 let through, unless its version was stored
\* again under it, whatever passes of it and of others did meanwhile.
THEOREM ProvisionedWasValidatedHolds == PacksSpec => []ProvisionedWasValidated
<1>1. PacksInv => ProvisionedWasValidated
  BY DEF PacksInv, StoreInv
<1>2. QED
  BY <1>1, PacksInvariance, PTL

\* A publication that stops halfway leaves the Pack that was live.
THEOREM LivePackRemainsHolds == PacksSpec => []LivePackRemains
<1>1. PacksInv => LivePackRemains
  BY DEF PacksInv, StoreInv
<1>2. QED
  BY <1>1, PacksInvariance, PTL
=============================================================================
