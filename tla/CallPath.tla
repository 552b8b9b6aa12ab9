------------------------------ MODULE CallPath ------------------------------
(***************************************************************************)
(* One agent's call to a Forge module, from OfficeClient.call to its end,  *)
(* with every other call that runs beside it, the humans who decide        *)
(* proposals and revoke agents, the deadline job, the incomplete-call      *)
(* sweep, and the death of the process at any point.                       *)
(*                                                                         *)
(* Each step of call() opens a database connection of its own at READ      *)
(* COMMITTED (broker/db.py), so the steps of different calls interleave    *)
(* freely.  Reads and choices that touch nothing another actor can see are *)
(* taken together with the shared read or write that follows them.         *)
(*                                                                         *)
(* Abstractions.  A key stands for the derived idempotency key, with its   *)
(* Forge and module (one payload per key).  Gates whose state no property  *)
(* mentions (the grant row, the shift, the manifest, the budget, the rate  *)
(* buckets, the credential) answer nondeterministically each time they are *)
(* read: whoever edits those tables may do it between any two steps.  A    *)
(* call submits at most one proposal, so the proposal is named by the call *)
(* that submitted it.                                                      *)
(***************************************************************************)
EXTENDS Integers, FiniteSets

CONSTANTS
    Agents,       \* office agents
    Keys,         \* acts: idempotency key with its forge and module
    Calls,        \* invocations of OfficeClient.call
    Mutating,     \* keys of modules with is_mutating (ResolvedGrant.must_fail_closed)
    AtMostOnce,   \* keys of modules with idempotency_support = 'at_most_once'
    Nobody        \* "no proposal", and "no agent / key yet" for an idle call

ASSUME CallConstants ==
    /\ Mutating \subseteq Keys
    /\ AtMostOnce \subseteq Keys
    /\ Nobody \notin Calls \cup Agents \cup Keys

\* 'suggest' is treated like 'propose' everywhere on this path.
AutoExecute == "auto_execute"
Tiers == {AutoExecute, "propose"}

VARIABLES
    \* one call
    pc,         \* the step a call is at
    who, what,  \* its agent and its key
    tier,       \* the tier that applies to it
    auth,       \* Governed.approved_proposal_id
    target,     \* the approved proposal _fail_approved found
    answered,   \* calls whose execute() returned a response
    \* the database
    status,     \* proposal.status; "none" before the row exists
    decidedAt,  \* rank of proposal.decided_at among the approvals; 0 = none
    clock,      \* the last rank given
    attempts,   \* proposal.attempt_count
    executedBy, \* proposal.executed_call_id
    revoked,    \* agents covered by a live revocation
    intents,    \* calls with a forge_call_intent audit entry
    ledger,     \* calls with an agent_call_ledger row
    reported,   \* calls named in a call_started_and_not_completed incident
    \* the outside world
    reached,    \* calls whose request landed at the Forge
    \* history, read by properties only
    before,     \* before[c]: the calls that had ended when c began
    inFlight    \* inFlight[a]: calls past the revocation check when a was revoked

callVars == <<pc, who, what, tier, auth, target, answered>>
rowVars  == <<status, decidedAt, clock, attempts, executedBy>>
logVars  == <<intents, ledger, reported>>
vars == <<callVars, rowVars, revoked, logVars, reached, before, inFlight>>

Running == {"resolve", "govern", "tier", "dup", "intent", "execute", "ledger",
            "spend", "failLookup", "failMark"}
Ended   == {"returned", "raised"}
\* Steps before the Forge that a call reaches only through check_revocations.
PastRevocation == {"tier", "dup", "intent", "execute"}
Statuses == {"none", "pending", "approved", "rejected", "expired", "executed", "failed"}

TypeOK ==
    /\ pc \in [Calls -> Running \cup Ended \cup {"idle"}]
    /\ who \in [Calls -> Agents \cup {Nobody}]
    /\ what \in [Calls -> Keys \cup {Nobody}]
    /\ tier \in [Calls -> Tiers]
    /\ auth \in [Calls -> Calls \cup {Nobody}]
    /\ target \in [Calls -> Calls \cup {Nobody}]
    /\ answered \subseteq Calls
    /\ status \in [Calls -> Statuses]
    /\ decidedAt \in [Calls -> Nat]
    /\ clock \in Nat
    /\ attempts \in [Calls -> Nat]
    /\ executedBy \in [Calls -> Calls \cup {Nobody}]
    /\ revoked \subseteq Agents
    /\ intents \subseteq Calls
    /\ ledger \subseteq Calls
    /\ reported \subseteq Calls
    /\ reached \subseteq Calls
    /\ before \in [Calls -> SUBSET Calls]
    /\ inFlight \in [Agents -> SUBSET Calls]

Init ==
    /\ pc = [c \in Calls |-> "idle"]
    /\ who = [c \in Calls |-> Nobody]
    /\ what = [c \in Calls |-> Nobody]
    /\ tier = [c \in Calls |-> AutoExecute]
    /\ auth = [c \in Calls |-> Nobody]
    /\ target = [c \in Calls |-> Nobody]
    /\ answered = {}
    /\ status = [c \in Calls |-> "none"]
    /\ decidedAt = [c \in Calls |-> 0]
    /\ clock = 0
    /\ attempts = [c \in Calls |-> 0]
    /\ executedBy = [c \in Calls |-> Nobody]
    /\ revoked = {}
    /\ intents = {}
    /\ ledger = {}
    /\ reported = {}
    /\ reached = {}
    /\ before = [c \in Calls |-> {}]
    /\ inFlight = [a \in Agents |-> {}]

-----------------------------------------------------------------------------
(* Rows a call reads.                                                      *)

SameAct(c, d) == who[c] = who[d] /\ what[c] = what[d]

\* Mutant: the agent left out of the WHERE clause.
ApprovedFor_KeyOnly(c) == {p \in Calls : what[p] = what[c] /\ status[p] = "approved"}

\* proposals.approved_for: the rows its WHERE clause matches ...
ApprovedFor(c) == {p \in Calls : SameAct(p, c) /\ status[p] = "approved"}

\* ... and the one ORDER BY decided_at DESC LIMIT 1 picks.
Latest(p, S) == p \in S /\ \A q \in S : decidedAt[q] <= decidedAt[p]

\* Mutant: a row without an outcome does not count as a prior call.
HasPriorCall_Answered(c) == \E d \in ledger \cap answered : SameAct(c, d)

\* ledger.has_prior_call: any row of this agent with this key, outcome or not.
HasPriorCall(c) == \E d \in ledger : SameAct(c, d)

\* proposals.effective_tier: a soft budget cap downgrades auto_execute.
EffectiveTier(t, softCapped) == IF softCapped /\ t = AutoExecute THEN "propose" ELSE t

-----------------------------------------------------------------------------
(* The steps of OfficeClient.call, in its order.                           *)

Goto(c, step) == pc' = [pc EXCEPT ![c] = step]

Start(c, a, k) ==
    /\ pc[c] = "idle"
    /\ Goto(c, "resolve")
    /\ who' = [who EXCEPT ![c] = a]
    /\ what' = [what EXCEPT ![c] = k]
    /\ before' = [before EXCEPT ![c] = {d \in Calls : pc[d] \in Ended}]
    /\ UNCHANGED <<tier, auth, target, answered, rowVars, revoked, logVars,
                   reached, inFlight>>

\* 2. resolve_grant, on a connection of its own.  Its refusals are audited
\* and raised; unlike every later refusal they do not go through
\* _fail_approved.
ResolveGrant(c) ==
    /\ pc[c] = "resolve"
    /\ \/ \E t \in Tiers : tier' = [tier EXCEPT ![c] = t] /\ Goto(c, "govern")
       \/ Goto(c, "raised") /\ UNCHANGED tier
    /\ UNCHANGED <<who, what, auth, target, answered, rowVars, revoked, logVars,
                   reached, before, inFlight>>

\* Mutant: an approval excuses a revocation.
PassGates_Approved(c) ==
    /\ pc[c] = "govern"
    /\ who[c] \in revoked => ApprovedFor(c) # {}
    /\ Goto(c, "tier")
    /\ \E softCapped \in BOOLEAN :
          tier' = [tier EXCEPT ![c] = EffectiveTier(tier[c], softCapped)]
    /\ UNCHANGED <<who, what, auth, target, answered, rowVars, revoked, logVars,
                   reached, before, inFlight>>

\* 3-5. check_revocations first; then the shift, the manifest and the budget,
\* any of which may refuse.
PassGates(c) ==
    /\ pc[c] = "govern"
    /\ who[c] \notin revoked
    /\ Goto(c, "tier")
    /\ \E softCapped \in BOOLEAN :
          tier' = [tier EXCEPT ![c] = EffectiveTier(tier[c], softCapped)]
    /\ UNCHANGED <<who, what, auth, target, answered, rowVars, revoked, logVars,
                   reached, before, inFlight>>

RefuseAtGate(c) ==
    /\ pc[c] = "govern"
    /\ Goto(c, "failLookup")
    /\ UNCHANGED <<who, what, tier, auth, target, answered, rowVars, revoked,
                   logVars, reached, before, inFlight>>

\* 6/7. The tier gate: auto_execute passes, otherwise the newest approved
\* proposal for this act is what the call acts on.
PassTier(c) ==
    /\ pc[c] = "tier"
    /\ \/ tier[c] = AutoExecute /\ UNCHANGED auth
       \/ /\ tier[c] # AutoExecute
          /\ \E p \in ApprovedFor(c) :
                Latest(p, ApprovedFor(c)) /\ auth' = [auth EXCEPT ![c] = p]
    /\ Goto(c, "dup")
    /\ UNCHANGED <<who, what, tier, target, answered, rowVars, revoked, logVars,
                   reached, before, inFlight>>

\* ... and with none a proposal is written and RequiresApproval is raised.
Submit(c) ==
    /\ pc[c] = "tier"
    /\ tier[c] # AutoExecute
    /\ ApprovedFor(c) = {}
    /\ status' = [status EXCEPT ![c] = "pending"]
    /\ Goto(c, "failLookup")
    /\ UNCHANGED <<who, what, tier, auth, target, answered, decidedAt, clock,
                   attempts, executedBy, revoked, logVars, reached, before,
                   inFlight>>

\* 8. limits.acquire lets the call through, and the at_most_once guard finds
\* no prior call ...
PassDuplicate(c) ==
    /\ pc[c] = "dup"
    /\ what[c] \in AtMostOnce => ~HasPriorCall(c)
    /\ Goto(c, "intent")
    /\ UNCHANGED <<who, what, tier, auth, target, answered, rowVars, revoked,
                   logVars, reached, before, inFlight>>

\* ... or one of them refuses (RateLimited, EscalateToHuman).
RefuseAtDuplicate(c) ==
    /\ pc[c] = "dup"
    /\ Goto(c, "failLookup")
    /\ UNCHANGED <<who, what, tier, auth, target, answered, rowVars, revoked,
                   logVars, reached, before, inFlight>>

\* 5. _audit_intent: written before the Forge is touched ...
AuditIntent(c) ==
    /\ pc[c] = "intent"
    /\ intents' = intents \cup {c}
    /\ Goto(c, "execute")
    /\ UNCHANGED <<who, what, tier, auth, target, answered, rowVars, revoked,
                   ledger, reported, reached, before, inFlight>>

\* Mutant: every call fails open.
AuditIntentFails_Open(c) ==
    /\ pc[c] = "intent"
    /\ Goto(c, "execute")
    /\ UNCHANGED <<who, what, tier, auth, target, answered, rowVars, revoked,
                   logVars, reached, before, inFlight>>

\* ... and when the write fails a mutating call stops (AuditUnavailable) while
\* a read goes on.
AuditIntentFails(c) ==
    /\ pc[c] = "intent"
    /\ Goto(c, IF what[c] \in Mutating THEN "failLookup" ELSE "execute")
    /\ UNCHANGED <<who, what, tier, auth, target, answered, rowVars, revoked,
                   logVars, reached, before, inFlight>>

\* 6. The credential resolver and executor.execute.  The request lands and is
\* answered; or it lands and httpx gives up waiting; or it never lands (no
\* credential, no connection).
Execute(c) ==
    /\ pc[c] = "execute"
    /\ \/ reached' = reached \cup {c} /\ answered' = answered \cup {c}
       \/ reached' = reached \cup {c} /\ UNCHANGED answered
       \/ UNCHANGED <<reached, answered>>
    /\ Goto(c, "ledger")
    /\ UNCHANGED <<who, what, tier, auth, target, rowVars, revoked, logVars,
                   before, inFlight>>

\* 7. _write_ledger, always; without a response the call then raises and the
\* proposal it acted on stays approved.
WriteLedger(c) ==
    /\ pc[c] = "ledger"
    /\ ledger' = ledger \cup {c}
    /\ Goto(c, IF c \notin answered THEN "raised"
               ELSE IF auth[c] = Nobody THEN "returned" ELSE "spend")
    /\ UNCHANGED <<who, what, tier, auth, target, answered, rowVars, revoked,
                   intents, reported, reached, before, inFlight>>

\* 14. _spend_approval: proposals.mark_executed moves the row only from
\* approved and raises LookupError otherwise; then the proposal_executed audit
\* entry, whose failure is raised.
MarkExecuted(c) ==
    /\ pc[c] = "spend"
    /\ LET p == auth[c] IN
       IF status[p] = "approved"
       THEN /\ status' = [status EXCEPT ![p] = "executed"]
            /\ executedBy' = [executedBy EXCEPT ![p] = c]
            /\ attempts' = [attempts EXCEPT ![p] = @ + 1]
            /\ Goto(c, "returned") \/ Goto(c, "raised")
       ELSE Goto(c, "raised") /\ UNCHANGED <<status, executedBy, attempts>>
    /\ UNCHANGED <<who, what, tier, auth, target, answered, decidedAt, clock,
                   revoked, logVars, reached, before, inFlight>>

\* _fail_approved looks the approval up again by the key ...
FailLookup(c) ==
    /\ pc[c] = "failLookup"
    /\ \E p \in ApprovedFor(c) :
          Latest(p, ApprovedFor(c)) /\ target' = [target EXCEPT ![c] = p]
    /\ Goto(c, "failMark")
    /\ UNCHANGED <<who, what, tier, auth, answered, rowVars, revoked, logVars,
                   reached, before, inFlight>>

\* Mutant: the UPDATE without its status = 'approved'.
MarkFailed_Unguarded(c) ==
    /\ pc[c] = "failMark"
    /\ status' = [status EXCEPT ![target[c]] = "failed"]
    /\ attempts' = [attempts EXCEPT ![target[c]] = @ + 1]
    /\ Goto(c, "raised")
    /\ UNCHANGED <<who, what, tier, auth, target, answered, decidedAt, clock,
                   executedBy, revoked, logVars, reached, before, inFlight>>

\* ... and proposals.mark_failed moves it, if it is approved still.
MarkFailed(c) ==
    /\ pc[c] = "failMark"
    /\ LET p == target[c] IN
       IF status[p] = "approved"
       THEN /\ status' = [status EXCEPT ![p] = "failed"]
            /\ attempts' = [attempts EXCEPT ![p] = @ + 1]
       ELSE UNCHANGED <<status, attempts>>
    /\ Goto(c, "raised")
    /\ UNCHANGED <<who, what, tier, auth, target, answered, decidedAt, clock,
                   executedBy, revoked, logVars, reached, before, inFlight>>

\* The call takes no further step: _fail_approved found nothing or its error
\* was suppressed, the step's database connection failed and the exception
\* left call(), or the process died.
Abandon(c) ==
    /\ pc[c] \in Running
    /\ Goto(c, "raised")
    /\ UNCHANGED <<who, what, tier, auth, target, answered, rowVars, revoked,
                   logVars, reached, before, inFlight>>

-----------------------------------------------------------------------------
(* Everybody else.                                                         *)

\* proposals.decide: a named human, from pending only.  It does not look at
\* expires_at.
Approve(p) ==
    /\ status[p] = "pending"
    /\ status' = [status EXCEPT ![p] = "approved"]
    /\ clock' = clock + 1
    /\ decidedAt' = [decidedAt EXCEPT ![p] = clock + 1]
    /\ UNCHANGED <<callVars, attempts, executedBy, revoked, logVars, reached,
                   before, inFlight>>

Reject(p) ==
    /\ status[p] = "pending"
    /\ status' = [status EXCEPT ![p] = "rejected"]
    /\ UNCHANGED <<callVars, decidedAt, clock, attempts, executedBy, revoked,
                   logVars, reached, before, inFlight>>

\* Mutant: the proposals of a revoked agent are left out.
Expire_Active(due) ==
    /\ due # {}
    /\ \A p \in due : status[p] = "pending" /\ who[p] \notin revoked
    /\ status' = [p \in Calls |-> IF p \in due THEN "expired" ELSE status[p]]
    /\ UNCHANGED <<callVars, decidedAt, clock, attempts, executedBy, revoked,
                   logVars, reached, before, inFlight>>

\* deadlines.expire_overdue_proposals, one UPDATE per tick: due is the set of
\* pending proposals whose expires_at has passed by then.
Expire(due) ==
    /\ due # {}
    /\ \A p \in due : status[p] = "pending"
    /\ status' = [p \in Calls |-> IF p \in due THEN "expired" ELSE status[p]]
    /\ UNCHANGED <<callVars, decidedAt, clock, attempts, executedBy, revoked,
                   logVars, reached, before, inFlight>>

\* revocation.revoke and revocation.reinstate at the agent scope.
Revoke(a) ==
    /\ a \notin revoked
    /\ revoked' = revoked \cup {a}
    /\ inFlight' = [inFlight EXCEPT ![a] =
                       {c \in Calls : who[c] = a /\ pc[c] \in PastRevocation}]
    /\ UNCHANGED <<callVars, rowVars, logVars, reached, before>>

Reinstate(a) ==
    /\ a \in revoked
    /\ revoked' = revoked \ {a}
    /\ UNCHANGED <<callVars, rowVars, logVars, reached, before, inFlight>>

\* Mutant: the join on the idempotency key instead of the call id.
Incomplete_ByKey == {c \in intents : ~HasPriorCall(c)}

\* sweeps.sweep_incomplete_calls: intents with no ledger row of the same
\* call_id, each reported once; old is the set of those past the cutoff of ten
\* Forge timeouts.  Its second query asks for ledger rows with a NULL ts_end;
\* _write_ledger always sets one, so it finds nothing.
Incomplete == {c \in intents : c \notin ledger}

SweepIncompleteCalls(old) ==
    /\ old # {}
    /\ old \subseteq Incomplete \ reported
    /\ reported' = reported \cup old
    /\ UNCHANGED <<callVars, rowVars, revoked, intents, ledger, reached, before,
                   inFlight>>

-----------------------------------------------------------------------------

CallStep(c) ==
    \/ ResolveGrant(c)
    \/ PassGates(c)
    \/ RefuseAtGate(c)
    \/ PassTier(c)
    \/ Submit(c)
    \/ PassDuplicate(c)
    \/ RefuseAtDuplicate(c)
    \/ AuditIntent(c)
    \/ AuditIntentFails(c)
    \/ Execute(c)
    \/ WriteLedger(c)
    \/ MarkExecuted(c)
    \/ FailLookup(c)
    \/ MarkFailed(c)
    \/ Abandon(c)

Next ==
    \/ \E c \in Calls, a \in Agents, k \in Keys : Start(c, a, k)
    \/ \E c \in Calls : CallStep(c)
    \/ \E p \in Calls : Approve(p)
    \/ \E p \in Calls : Reject(p)
    \/ \E due \in SUBSET Calls : Expire(due)
    \/ \E a \in Agents : Revoke(a)
    \/ \E a \in Agents : Reinstate(a)
    \/ \E old \in SUBSET Calls : SweepIncompleteCalls(old)

Spec == Init /\ [][Next]_vars

\* The broker's two background loops run for as long as it serves, so a
\* pending proposal is seen by a pass after its deadline and an orphaned
\* intent by a pass after its cutoff.  Calls and humans owe nothing: a call may
\* hang where it is.
Fairness ==
    /\ \A p \in Calls : WF_vars(\E due \in SUBSET Calls : p \in due /\ Expire(due))
    /\ \A c \in Calls :
          WF_vars(\E old \in SUBSET Calls : c \in old /\ SweepIncompleteCalls(old))

FairSpec == Spec /\ Fairness

-----------------------------------------------------------------------------
(* Properties.                                                             *)

\* A request to a mutating module has a forge_call_intent entry whatever
\* became of the call: an audit store that fails stops the call before the
\* Forge, and no crash can land between the two (office_client._audit_intent).
IntentBeforeMutation ==
    \A c \in reached : what[c] \in Mutating => c \in intents

\* A request below auto_execute landed at the Forge only under a proposal for
\* the same agent and the same key that a human approved: never one that is
\* still pending, was rejected, or expired under a racing deadline job.
ActNeedsApproval ==
    \A c \in reached :
        tier[c] # AutoExecute =>
            /\ auth[c] # Nobody
            /\ SameAct(auth[c], c)
            /\ status[auth[c]] \in {"approved", "executed", "failed"}
            /\ decidedAt[auth[c]] > 0

\* A proposal that reads executed names a call of the same agent and key whose
\* request landed, was answered, and is in the ledger: "a row reading executed
\* over an act that never happened" (decisions entry 198) cannot be written,
\* at whatever point the process dies.
ExecutedIsLedgered ==
    \A p \in Calls :
        status[p] = "executed" =>
            \E c \in Calls :
                /\ executedBy[p] = c
                /\ SameAct(c, p)
                /\ c \in reached \cap answered \cap ledger

\* The kill switch: while an agent is revoked, the only calls of that agent
\* between the revocation check and the Forge are those that were already
\* there when the revocation was written (revocation.check_revocations).
KillSwitch ==
    \A a \in revoked, c \in Calls :
        who[c] = a /\ pc[c] \in PastRevocation => c \in inFlight[a]

\* An at_most_once module is not contacted again by a call that began after
\* another call for the same act, by the same agent, had ended with a ledger
\* row, whatever that row says (the guard of step 4).
NoRepeatAfterLedger ==
    \A c \in reached :
        what[c] \in AtMostOnce =>
            ~ \E d \in before[c] : SameAct(c, d) /\ d \in ledger

\* An approval that was spent authorises nothing later: a call that began
\* after the executing call had ended does not act on the same proposal.
SpentApprovalIsGone ==
    \A c \in Calls :
        auth[c] # Nobody => executedBy[auth[c]] \notin before[c]

\* Nothing stays pending for ever: with the deadline loop running, every
\* proposal is decided or expires.
PendingIsSettled ==
    \A p \in Calls : status[p] = "pending" ~> status[p] # "pending"

\* A mutating request that landed at the Forge always ends up on record: in
\* the ledger, or in an incident that names the call (entry 199), however the
\* process died.
MutationIsAccounted ==
    \A c \in Calls :
        c \in reached /\ what[c] \in Mutating ~> c \in ledger \cup reported

\* CallPath implements Approval.
Acted    == {<<c, auth[c]>> : c \in {d \in reached : auth[d] # Nobody}}
Executor == {<<executedBy[p], p>> : p \in {q \in Calls : executedBy[q] # Nobody}}

Abstract == INSTANCE Approval WITH
    Proposals <- Calls, acted <- Acted, executor <- Executor

ImplementsApproval == Abstract!Spec
=============================================================================
