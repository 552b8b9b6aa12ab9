----------------------------- MODULE AuditChain -----------------------------
(***************************************************************************)
(* The audit log's hash chain: the BEFORE INSERT trigger that gives each   *)
(* entry its id and its link under an advisory lock, transactions that     *)
(* commit or roll back around it, the verifier, and the scheduled sweep    *)
(* that turns the verifier's answer into incidents.  Rows an owner edits   *)
(* or deletes past the append-only role are modelled too: noticing them is *)
(* what the chain is for.                                                  *)
(*                                                                         *)
(* A hash covers an entry's id, and ids are never reused, so the digest of *)
(* an entry as it was appended is named by its id; 0 is the genesis hash.  *)
(* An edited entry recomputes to a digest no row stores.                   *)
(***************************************************************************)
EXTENDS Integers

CONSTANTS
    Writers,         \* transactions that write audit entries
    RepeatableRead,  \* those that run at REPEATABLE READ; the broker's never do
    Nobody,
    MaxId            \* bound on audit_log_audit_id_seq

ASSUME AuditConstants ==
    /\ RepeatableRead \subseteq Writers
    /\ Nobody \notin Writers
    /\ MaxId \in Nat

Ids == 1 .. MaxId
Genesis == 0

VARIABLES
    pc,        \* "idle", "open": in a transaction, "locked": holds the lock
    lock,      \* holder of pg_advisory_xact_lock('audit_log_chain')
    snapshot,  \* what a REPEATABLE READ transaction sees of others' entries
    pending,   \* entries a transaction has inserted and not committed
    seq,       \* last value of the sequence; it never goes back
    log,       \* committed entries
    prev,      \* prev_hash of each entry
    alarms,    \* kinds of incident the sweep has raised
    \* history, read by properties and by the edits themselves
    edited,    \* entries whose contents an owner altered
    lost,      \* committed entries an owner deleted
    unused     \* ids consumed by an insert that never committed

vars == <<pc, lock, snapshot, pending, seq, log, prev, alarms, edited, lost, unused>>

Alarms == {"audit_chain_broken", "audit_chain_tail_gap"}

TypeOK ==
    /\ pc \in [Writers -> {"idle", "open", "locked"}]
    /\ lock \in Writers \cup {Nobody}
    /\ snapshot \in [Writers -> SUBSET Ids]
    /\ pending \in [Writers -> SUBSET Ids]
    /\ seq \in 0 .. MaxId
    /\ log \subseteq Ids
    /\ prev \in [Ids -> Ids \cup {Genesis}]
    /\ alarms \subseteq Alarms
    /\ edited \subseteq Ids
    /\ lost \subseteq Ids
    /\ unused \subseteq Ids
    /\ log \cap (lost \cup unused) = {}

Init ==
    /\ pc = [w \in Writers |-> "idle"]
    /\ lock = Nobody
    /\ snapshot = [w \in Writers |-> {}]
    /\ pending = [w \in Writers |-> {}]
    /\ seq = 0
    /\ log = {}
    /\ prev = [n \in Ids |-> Genesis]
    /\ alarms = {}
    /\ edited = {}
    /\ lost = {}
    /\ unused = {}

\* t is the digest of the last entry of S: ORDER BY audit_id DESC LIMIT 1.
IsTip(t, S) ==
    \/ S = {} /\ t = Genesis
    \/ t \in S /\ \A m \in S : m <= t

-----------------------------------------------------------------------------
(* Writing.                                                                *)

Begin(w) ==
    /\ pc[w] = "idle"
    /\ pc' = [pc EXCEPT ![w] = "open"]
    /\ snapshot' = [snapshot EXCEPT ![w] = IF w \in RepeatableRead THEN log ELSE {}]
    /\ UNCHANGED <<lock, pending, seq, log, prev, alarms, edited, lost, unused>>

\* Every statement of a READ COMMITTED trigger takes a new snapshot.
Visible(w) == (IF w \in RepeatableRead THEN snapshot[w] ELSE log) \cup pending[w]

Lock_Shared(w) ==                                   \* mutant: the lock excludes nobody
    /\ pc[w] = "open"
    /\ lock' = w
    /\ pc' = [pc EXCEPT ![w] = "locked"]
    /\ UNCHANGED <<snapshot, pending, seq, log, prev, alarms, edited, lost, unused>>

Lock(w) ==
    /\ pc[w] = "open"
    /\ lock = Nobody
    /\ lock' = w
    /\ pc' = [pc EXCEPT ![w] = "locked"]
    /\ UNCHANGED <<snapshot, pending, seq, log, prev, alarms, edited, lost, unused>>

\* The end of a transaction that keeps the entries in kept.
End(w) ==
    /\ pc' = [pc EXCEPT ![w] = "idle"]
    /\ lock' = IF lock = w THEN Nobody ELSE lock
    /\ snapshot' = [snapshot EXCEPT ![w] = {}]
    /\ pending' = [pending EXCEPT ![w] = {}]

\* UNIQUE(prev_hash).
Taken(t) == \E m \in log : prev[m] = t

\* audit_log_chain, the lock held: an id, then the tip, then the link.
AppendEntry(w) ==
    /\ pc[w] = "locked"
    /\ seq < MaxId
    /\ seq' = seq + 1
    /\ \E t \in Ids \cup {Genesis} :
          /\ IsTip(t, Visible(w))
          /\ ~ Taken(t)
          /\ prev' = [prev EXCEPT ![seq + 1] = t]
    /\ pending' = [pending EXCEPT ![w] = @ \cup {seq + 1}]
    /\ UNCHANGED <<pc, lock, snapshot, log, alarms, edited, lost, unused>>

\* The insert violates UNIQUE(prev_hash): the transaction aborts, and the
\* sequence keeps the value it gave.
AppendRejected(w) ==
    /\ pc[w] = "locked"
    /\ seq < MaxId
    /\ seq' = seq + 1
    /\ \E t \in Ids \cup {Genesis} : IsTip(t, Visible(w)) /\ Taken(t)
    /\ unused' = unused \cup pending[w] \cup {seq + 1}
    /\ End(w)
    /\ UNCHANGED <<log, prev, alarms, edited, lost>>

Commit(w) ==
    /\ pc[w] # "idle"
    /\ log' = log \cup pending[w]
    /\ End(w)
    /\ UNCHANGED <<seq, prev, alarms, edited, lost, unused>>

\* An error after the insert, a lost connection, a cancelled request.
Rollback(w) ==
    /\ pc[w] # "idle"
    /\ unused' = unused \cup pending[w]
    /\ End(w)
    /\ UNCHANGED <<seq, log, prev, alarms, edited, lost>>

-----------------------------------------------------------------------------
(* Verifying.                                                              *)

\* A row audit_log_verify_chain stops at: its link is not the digest of the
\* row before it, its own digest does not recompute, or its id does not
\* follow the id before it (unchecked for the first row).
Linked(n)    == IsTip(prev[n], {m \in log : m < n})
Recomputes(n) == n \notin edited
Follows(n)   == (\E m \in log : m < n) => n - 1 \in log
Breaks_NoHash(n) == ~ Linked(n) \/ ~ Follows(n)     \* mutant: digests not recomputed

Breaks(n) == ~ Linked(n) \/ ~ Recomputes(n) \/ ~ Follows(n)

Ok == \A n \in log : ~ Breaks(n)

\* The sequence is ahead of max(audit_id).
TailGap == \E n \in 1 .. seq : \A m \in log : m < n

SweepAuditChain_GapBreaks ==                        \* mutant: tail_gap folded into ok
    /\ alarms' = alarms \cup (IF ~ Ok \/ TailGap THEN {"audit_chain_broken"} ELSE {})
    /\ UNCHANGED <<pc, lock, snapshot, pending, seq, log, prev, edited, lost, unused>>

SweepAuditChain ==
    /\ alarms' = alarms \cup (IF ~ Ok THEN {"audit_chain_broken"}
                              ELSE IF TailGap THEN {"audit_chain_tail_gap"} ELSE {})
    /\ UNCHANGED <<pc, lock, snapshot, pending, seq, log, prev, edited, lost, unused>>

-----------------------------------------------------------------------------
(* An owner's connection, which the append-only role does not bind.        *)

EditRow(n) ==
    /\ n \in log
    /\ edited' = edited \cup {n}
    /\ UNCHANGED <<pc, lock, snapshot, pending, seq, log, prev, alarms, lost, unused>>

DeleteRow(n) ==
    /\ n \in log
    /\ log' = log \ {n}
    /\ lost' = lost \cup {n}
    /\ UNCHANGED <<pc, lock, snapshot, pending, seq, prev, alarms, edited, unused>>

Next ==
    \/ \E w \in Writers :
          \/ Begin(w) \/ Lock(w) \/ AppendEntry(w) \/ AppendRejected(w)
          \/ Commit(w) \/ Rollback(w)
    \/ SweepAuditChain
    \/ \E n \in Ids : EditRow(n) \/ DeleteRow(n)

Spec == Init /\ [][Next]_vars

-----------------------------------------------------------------------------
(* Properties.                                                             *)

\* As long as nothing was deleted, each entry links to the entry with the
\* next lower id: link order is id order and there is no fork, although one
\* writer may hold a stale snapshot (audit_log_chain, UNIQUE(prev_hash)).
LinkOrderIsIdOrder == lost = {} => \A n \in log : Linked(n)

\* An entry is only ever added above every entry already there, whatever
\* order the transactions commit in (nextval under the lock).
AppendsAtTheTip == [][\A n \in log' \ log, m \in log : m < n]_vars

\* An edit is never missed, and a deletion is missed only where no earlier
\* entry is left to link to (docs/ledger.md, "What it detects").
DamageShows ==
    /\ edited \cap log # {} => ~ Ok
    /\ (\E n \in lost : (\E m \in log : m < n)) => ~ Ok \/ TailGap
    /\ log = {} /\ lost # {} => TailGap

\* The sweep calls the chain broken only if an entry was edited or deleted, or
\* an insert rolled back and a later one committed (sweep_audit_chain).
NoAlarmWithoutCause ==
    "audit_chain_broken" \in alarms =>
        edited # {} \/ lost # {} \/ \E n \in unused, m \in log : n < m

=============================================================================
