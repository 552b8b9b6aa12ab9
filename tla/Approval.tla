------------------------------ MODULE Approval ------------------------------
(***************************************************************************)
(* What a human approval promises, independently of how a call is made.    *)
(* Below the auto_execute tier an agent's act is first written down as a   *)
(* proposal; a human approves or rejects it, or its deadline expires it;   *)
(* an act is done only under an approval that was given; the proposal is   *)
(* marked executed only by a call that did the act, and whatever it is     *)
(* once settled it stays.  CallPath implements this specification.         *)
(***************************************************************************)
EXTENDS Integers

CONSTANTS Proposals,   \* the proposal rows
          Calls        \* the calls that may carry one out

VARIABLES
    status,     \* proposal.status
    attempts,   \* proposal.attempt_count
    acted,      \* pairs <<call, proposal>>: the call contacted the Forge under it
    executor    \* pairs <<call, proposal>>: proposal.executed_call_id

approvalVars == <<status, attempts, acted, executor>>

Granted == {"approved", "executed", "failed"}   \* a human said yes at some point

Init ==
    /\ status = [p \in Proposals |-> "none"]
    /\ attempts = [p \in Proposals |-> 0]
    /\ acted = {}
    /\ executor = {}

Submit(p) ==
    /\ status[p] = "none"
    /\ status' = [status EXCEPT ![p] = "pending"]
    /\ UNCHANGED <<attempts, acted, executor>>

Decide(p) ==
    /\ status[p] = "pending"
    /\ \E verdict \in {"approved", "rejected"} :
          status' = [status EXCEPT ![p] = verdict]
    /\ UNCHANGED <<attempts, acted, executor>>

\* One pass of the deadline job expires any number of unanswered proposals.
Expire ==
    /\ \E due \in SUBSET {p \in Proposals : status[p] = "pending"} :
          status' = [p \in Proposals |-> IF p \in due THEN "expired" ELSE status[p]]
    /\ UNCHANGED <<attempts, acted, executor>>

Act(c, p) ==
    /\ status[p] \in Granted
    /\ acted' = acted \cup {<<c, p>>}
    /\ UNCHANGED <<status, attempts, executor>>

Execute(c, p) ==
    /\ status[p] = "approved"
    /\ <<c, p>> \in acted
    /\ status' = [status EXCEPT ![p] = "executed"]
    /\ attempts' = [attempts EXCEPT ![p] = @ + 1]
    /\ executor' = executor \cup {<<c, p>>}
    /\ UNCHANGED acted

Fail(p) ==
    /\ status[p] = "approved"
    /\ status' = [status EXCEPT ![p] = "failed"]
    /\ attempts' = [attempts EXCEPT ![p] = @ + 1]
    /\ UNCHANGED <<acted, executor>>

Next ==
    \/ \E p \in Proposals : Submit(p) \/ Decide(p) \/ Fail(p)
    \/ Expire
    \/ \E c \in Calls, p \in Proposals : Act(c, p) \/ Execute(c, p)

Spec == Init /\ [][Next]_approvalVars
=============================================================================
