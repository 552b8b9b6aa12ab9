------------------------------ MODULE Metering ------------------------------
(***************************************************************************)
(* What meters a call before it reaches the Forge: the Forge manifest with *)
(* its incident and throttle (broker/manifest.py, broker/incidents.py),    *)
(* the two token buckets (broker/limits.py), the pool of connections they  *)
(* all draw on (broker/db.py), and the monthly sweep that holds the ledger *)
(* against the manifest (broker/sweeps.py).                                *)
(*                                                                         *)
(* One venture and one Forge.  The unit of a bucket is what a throttled    *)
(* agent regains in a second, so the throttled rate is 1 and a call costs  *)
(* Token.  ensure_bucket creates a bucket full, so each is taken to exist  *)
(* and to be full from the start.  now() is the start of a transaction: a  *)
(* call keeps the time it began to acquire (at), however long it then      *)
(* waits for a row.  A row lock a step takes and releases by committing is *)
(* not a state; the agent's row stays locked until the Forge's is settled. *)
(* A connection taken and given back within one step is not counted.       *)
(***************************************************************************)
EXTENDS Integers, FiniteSets

CONSTANTS
    Agents, Modules, Calls,
    Pool,          \* pool_max_size
    Token,         \* what one call costs
    Rate, Burst,   \* an agent's bucket
    FRate, FBurst, \* the Forge's bucket
    Throttle,      \* THROTTLE_SECONDS
    MaxClock,      \* bound: seconds
    Nobody         \* no call, no agent, no module

ASSUME MeteringConstants ==
    /\ {Pool, Token, Rate, FRate, Throttle} \subseteq Nat \ {0}
    /\ {Burst, FBurst, MaxClock} \subseteq Nat
    /\ Nobody \notin Calls \cup Agents \cup Modules

REQUIRED == "required"
DECLARED_ONLY == "declared_only"
UNDECLARED == "UNDECLARED"
Matches == {REQUIRED, DECLARED_ONLY, UNDECLARED}

VARIABLES
    clock,
    \* one call
    pc, who, what,
    match,     \* what manifest.check read
    at,        \* now() of its acquiring transaction
    \* rate_limit_bucket
    tokens, last, until,  \* an agent's tokens, last_refill, throttled_until
    rowLock,              \* the call that holds an agent's row
    ftokens, flast,       \* the Forge's
    \* other tables
    manifest,      \* venture_forge_manifest
    used,          \* modules in agent_call_ledger
    disposition,   \* manifest_disposition
    incidents,     \* calls with an incident of manifest.check
    \* the reconciliation sweep
    sweep, found, passed,
    \* history, read by properties only
    spent,     \* units taken from an agent's bucket since its throttle began ...
    since,     \* ... which is no later than this
    fspent,    \* units taken from the Forge's bucket
    gap        \* used and undeclared ever since the sweep began

callVars == <<pc, who, what, match, at>>
agentVars == <<tokens, last, rowLock, spent>>
throttleVars == <<until, since>>
forgeVars == <<ftokens, flast, fspent>>
sweepVars == <<disposition, sweep, found, passed>>
vars == <<clock, callVars, agentVars, throttleVars, forgeVars, manifest, used,
          incidents, sweepVars, gap>>

Ended == {"done", "refused"}
\* Where a call holds a connection while it waits for something else.
Holding == {"incident", "throttle", "agent", "forge"}

TypeOK ==
    /\ clock \in Nat
    /\ pc \in [Calls -> {"idle", "acquire", "send"} \cup Holding \cup Ended]
    /\ who \in [Calls -> Agents \cup {Nobody}]
    /\ what \in [Calls -> Modules \cup {Nobody}]
    /\ match \in [Calls -> Matches]
    /\ at \in [Calls -> Nat]
    /\ tokens \in [Agents -> 0 .. Burst]
    /\ last \in [Agents -> Nat]
    /\ until \in [Agents -> Nat]
    /\ rowLock \in [Agents -> Calls \cup {Nobody}]
    /\ ftokens \in 0 .. FBurst
    /\ flast \in Nat
    /\ manifest \in [Modules -> Matches]
    /\ used \subseteq Modules
    /\ disposition \in [Modules -> {"none", "pending", "settled"}]
    /\ incidents \subseteq Calls
    /\ sweep \in {"idle", "read", "record", "look", "failed"}
    /\ found \subseteq Modules
    /\ passed \in BOOLEAN
    /\ spent \in [Agents -> Nat]
    /\ since \in [Agents -> Nat]
    /\ fspent \in Nat
    /\ gap \subseteq Modules

Init ==
    /\ clock = 0
    /\ pc = [c \in Calls |-> "idle"]
    /\ who = [c \in Calls |-> Nobody]
    /\ what = [c \in Calls |-> Nobody]
    /\ match = [c \in Calls |-> REQUIRED]
    /\ at = [c \in Calls |-> 0]
    /\ tokens = [a \in Agents |-> Burst]
    /\ last = [a \in Agents |-> 0]
    /\ until = [a \in Agents |-> 0]
    /\ rowLock = [a \in Agents |-> Nobody]
    /\ ftokens = FBurst
    /\ flast = 0
    /\ manifest \in [Modules -> Matches]
    /\ used = {}
    /\ disposition = [m \in Modules |-> "none"]
    /\ incidents = {}
    /\ sweep = "idle"
    /\ found = {}
    /\ passed = FALSE
    /\ spent = [a \in Agents |-> 0]
    /\ since = [a \in Agents |-> 0]
    /\ fspent = 0
    /\ gap = {}

-----------------------------------------------------------------------------
(* Steps 3 and 4 of _govern: the manifest.                                 *)

InUse == Cardinality({c \in Calls : pc[c] \in Holding})
ConnectionFree == InUse < Pool

\* Opens the connection of _govern and reads the manifest.  A required module
\* leaves it again for the rate limit, the last of the gates.
Check(c, a, m) ==
    /\ pc[c] = "idle"
    /\ ConnectionFree
    /\ who' = [who EXCEPT ![c] = a]
    /\ what' = [what EXCEPT ![c] = m]
    /\ match' = [match EXCEPT ![c] = manifest[m]]
    /\ pc' = [pc EXCEPT ![c] = IF manifest[m] = REQUIRED THEN "acquire" ELSE "incident"]
    /\ UNCHANGED <<clock, at, agentVars, throttleVars, forgeVars, manifest, used,
                   incidents, sweepVars, gap>>

\* raise_incident: a transaction of its own, on a second connection.
RaiseIncident(c) ==
    /\ pc[c] = "incident"
    /\ ConnectionFree
    /\ incidents' = incidents \cup {c}
    /\ pc' = [pc EXCEPT ![c] = "throttle"]
    /\ UNCHANGED <<clock, who, what, match, at, agentVars, throttleVars, forgeVars,
                   manifest, used, sweepVars, gap>>

\* The times at which acquisitions of a that are under way began.
UnderWay(a) == {at[c] : c \in {d \in Calls : who[d] = a /\ pc[d] \in {"agent", "forge"}}}

\* GREATEST(throttled_until, now() + seconds).
Extended(a) ==
    IF until[a] > clock + Throttle THEN until[a] ELSE clock + Throttle

\* throttle_agent, again a transaction of its own.  An undeclared module is
\* then refused; one declared and not required goes on.
ThrottleAgent(c) ==
    /\ pc[c] = "throttle"
    /\ ConnectionFree
    /\ LET a == who[c] IN
       /\ rowLock[a] = Nobody
       /\ until' = [until EXCEPT ![a] = Extended(a)]
       /\ IF until[a] > clock
          THEN UNCHANGED <<since, spent>>
          ELSE /\ \E t \in UnderWay(a) \cup {clock} :
                    /\ \A u \in UnderWay(a) \cup {clock} : t <= u
                    /\ since' = [since EXCEPT ![a] = t]
               /\ spent' = [spent EXCEPT ![a] = 0]
    /\ pc' = [pc EXCEPT ![c] = IF match[c] = UNDECLARED THEN "refused" ELSE "acquire"]
    /\ UNCHANGED <<clock, who, what, match, at, tokens, last, rowLock, forgeVars,
                   manifest, used, incidents, sweepVars, gap>>

-----------------------------------------------------------------------------
(* Step 8: limits.acquire.                                                 *)

BeginAcquire(c) ==
    /\ pc[c] = "acquire"
    /\ ConnectionFree
    /\ at' = [at EXCEPT ![c] = clock]
    /\ pc' = [pc EXCEPT ![c] = "agent"]
    /\ UNCHANGED <<clock, who, what, match, agentVars, throttleVars, forgeVars,
                   manifest, used, incidents, sweepVars, gap>>

\* LEAST(max_tokens, ...).
Capped(n, most) == IF n < most THEN n ELSE most

\* Mutant of EffectiveRate: the throttle is not looked at.
EffectiveRate_Full(a, t) == Rate

\* effective_rate of an agent's bucket, at the acquirer's now().
EffectiveRate(a, t) == IF until[a] > t THEN 1 ELSE Rate

\* "refilled" of _ACQUIRE_SQL.  The bucket may have been refilled up to a
\* later moment than this transaction's now(): then the difference is taken.
Refilled(c) ==
    LET a == who[c] IN
    Capped(tokens[a] + EffectiveRate(a, at[c]) * (at[c] - last[a]), Burst)

\* Mutant of FRefilled: refilled to the ceiling by any passage of time.
FRefilled_Full(c) == IF at[c] > flast THEN FBurst ELSE ftokens

FRefilled(c) == Capped(ftokens + FRate * (at[c] - flast), FBurst)

Refuse(c) == pc' = [pc EXCEPT ![c] = "refused"]

\* The agent's bucket.  With less than a call in it, RateLimited; below zero,
\* the table's CHECK; both roll back.
TakeAgent(c) ==
    /\ pc[c] = "agent"
    /\ LET a == who[c] IN
       /\ rowLock[a] = Nobody
       /\ IF Refilled(c) >= Token
          THEN /\ rowLock' = [rowLock EXCEPT ![a] = c]
               /\ pc' = [pc EXCEPT ![c] = "forge"]
          ELSE /\ Refuse(c)
               /\ UNCHANGED rowLock
    /\ UNCHANGED <<clock, who, what, match, at, tokens, last, spent, throttleVars,
                   forgeVars, manifest, used, incidents, sweepVars, gap>>

\* The agent's debit, committed with the Forge's.
DebitAgent(c) ==
    LET a == who[c] IN
    /\ tokens' = [tokens EXCEPT ![a] = Refilled(c) - Token]
    /\ last' = [last EXCEPT ![a] = at[c]]
    /\ spent' = [spent EXCEPT ![a] = @ + Token]
    /\ rowLock' = [rowLock EXCEPT ![a] = Nobody]

\* The Forge's bucket: admitted; refused with the agent's debit kept; or
\* stopped by the CHECK, and the agent's debit rolled back with it.
TakeForge(c) ==
    /\ pc[c] = "forge"
    /\ \/ /\ FRefilled(c) >= Token
          /\ DebitAgent(c)
          /\ ftokens' = FRefilled(c) - Token
          /\ flast' = at[c]
          /\ fspent' = fspent + Token
          /\ pc' = [pc EXCEPT ![c] = "send"]
       \/ /\ FRefilled(c) \in 0 .. Token - 1
          /\ DebitAgent(c)
          /\ ftokens' = FRefilled(c)
          /\ flast' = at[c]
          /\ Refuse(c)
          /\ UNCHANGED fspent
       \/ /\ FRefilled(c) < 0
          /\ rowLock' = [rowLock EXCEPT ![who[c]] = Nobody]
          /\ Refuse(c)
          /\ UNCHANGED <<tokens, last, spent, forgeVars>>
    /\ UNCHANGED <<clock, who, what, match, at, throttleVars, manifest, used,
                   incidents, sweepVars, gap>>

\* The Forge is called and the ledger row written.  CallPath has the rest.
WriteCall(c) ==
    /\ pc[c] = "send"
    /\ used' = used \cup {what[c]}
    /\ pc' = [pc EXCEPT ![c] = "done"]
    /\ UNCHANGED <<clock, who, what, match, at, agentVars, throttleVars, forgeVars,
                   manifest, incidents, sweepVars, gap>>

\* Mutant of Waiting: a connection waited for while holding one has no deadline.
Waiting_Outer(c) == pc[c] = "acquire"

\* A call that waits for a connection.
Waiting(c) == pc[c] \in {"incident", "throttle", "acquire"}

\* PoolTimeout: no connection in time.  The call is refused and gives back
\* the one it holds; what it had not yet written is never written.
PoolTimeout(c) ==
    /\ Waiting(c)
    /\ ~ConnectionFree
    /\ Refuse(c)
    /\ UNCHANGED <<clock, who, what, match, at, agentVars, throttleVars, forgeVars,
                   manifest, used, incidents, sweepVars, gap>>

\* The call dies where it stands; its transaction rolls back.
Die(c) ==
    /\ pc[c] \notin Ended \cup {"idle"}
    /\ Refuse(c)
    /\ rowLock' = [a \in Agents |-> IF rowLock[a] = c THEN Nobody ELSE rowLock[a]]
    /\ UNCHANGED <<clock, who, what, match, at, tokens, last, spent, throttleVars,
                   forgeVars, manifest, used, incidents, sweepVars, gap>>

-----------------------------------------------------------------------------
(* The manifest, and the sweep that holds the ledger against it.           *)

\* A Pack applied again (upsert), or a row taken out by hand.
EditManifest(m, s) ==
    /\ manifest[m] # s
    /\ manifest' = [manifest EXCEPT ![m] = s]
    /\ gap' = IF s = UNDECLARED THEN gap ELSE gap \ {m}
    /\ UNCHANGED <<clock, callVars, agentVars, throttleVars, forgeVars, used,
                   incidents, sweepVars>>

InUseUndeclared == {m \in used : manifest[m] = UNDECLARED}

StartSweep ==
    /\ sweep = "idle"
    /\ InUseUndeclared # {}
    /\ sweep' = "read"
    /\ gap' = InUseUndeclared
    /\ UNCHANGED <<clock, callVars, agentVars, throttleVars, forgeVars, manifest,
                   used, incidents, disposition, found, passed>>

ReadLedger ==
    /\ sweep = "read"
    /\ found' = InUseUndeclared
    /\ sweep' = "record"
    /\ UNCHANGED <<clock, callVars, agentVars, throttleVars, forgeVars, manifest,
                   used, incidents, disposition, passed, gap>>

\* INSERT ... ON CONFLICT DO UPDATE of the counts only: a disposition stays.
Recorded ==
    [m \in Modules |-> IF m \in found /\ disposition[m] = "none"
                       THEN "pending" ELSE disposition[m]]

RecordUndeclared ==
    /\ sweep = "record"
    /\ disposition' = Recorded
    /\ sweep' = "look"
    /\ UNCHANGED <<clock, callVars, agentVars, throttleVars, forgeVars, manifest,
                   used, incidents, found, passed, gap>>

\* Mutant of Pending: what this pass has just recorded is not looked at.
Pending_Seen == {m \in Modules \ found : disposition[m] = "pending"}

Pending == {m \in Modules : disposition[m] = "pending"}

FinishSweep ==
    /\ sweep = "look"
    /\ passed' = (Pending = {})
    /\ sweep' = "idle"
    /\ found' = {}
    /\ UNCHANGED <<clock, callVars, agentVars, throttleVars, forgeVars, manifest,
                   used, incidents, disposition, gap>>

\* disposition(): a human declares, revokes or accepts the risk, and says why.
Dispose(m) ==
    /\ disposition[m] # "none"
    /\ disposition' = [disposition EXCEPT ![m] = "settled"]
    /\ UNCHANGED <<clock, callVars, agentVars, throttleVars, forgeVars, manifest,
                   used, incidents, sweep, found, passed, gap>>

Tick ==
    /\ clock < MaxClock
    /\ clock' = clock + 1
    /\ UNCHANGED <<callVars, agentVars, throttleVars, forgeVars, manifest, used,
                   incidents, sweepVars, gap>>

-----------------------------------------------------------------------------
Step(c) ==
    \/ RaiseIncident(c)
    \/ ThrottleAgent(c)
    \/ BeginAcquire(c)
    \/ TakeAgent(c)
    \/ TakeForge(c)
    \/ WriteCall(c)
    \/ PoolTimeout(c)

Sweep == StartSweep \/ ReadLedger \/ RecordUndeclared \/ FinishSweep

Next ==
    \/ \E c \in Calls : Step(c) \/ Die(c)
    \/ \E c \in Calls, a \in Agents, m \in Modules : Check(c, a, m)
    \/ \E m \in Modules, s \in Matches : EditManifest(m, s)
    \/ \E m \in Modules : Dispose(m)
    \/ Sweep
    \/ Tick

Spec == Init /\ [][Next]_vars

\* A call is run by an event loop that gets to it, and the pool either hands
\* it a connection or times it out.
FairSpec == Spec /\ \A c \in Calls : WF_vars(Step(c))

-----------------------------------------------------------------------------
(* Properties.                                                             *)

\* Whatever the agents do, and in whatever order calls that started at
\* different times reach its row, a Forge is sent no more than its burst and
\* its rate allow (broker/limits.py: a runaway cannot exhaust a Forge).
ForgeCeiling == fspent <= FBurst + FRate * clock

\* While an agent is throttled it gets its burst and then the throttled rate,
\* counted from the earliest acquisition already under way when the throttle
\* came: one that began before it, and waited, is metered by it too
\* (broker/limits.py, throttle_agent).
ThrottleSlows ==
    \A a \in Agents : until[a] > clock => spent[a] <= Burst + (clock - since[a])

\* A reconciliation that passed found every module, used before it began and
\* undeclared all the while, dispositioned by a human (broker/sweeps.py: a
\* module in use and undeclared fails the sweep until somebody answers it).
PassMeansDispositioned ==
    [][FinishSweep /\ passed' => \A m \in gap : disposition[m] = "settled"]_vars

\* Calls that hold a connection and wait for another one can fill the pool
\* (broker/manifest.py:79); none of them, and nobody behind them, hangs.
EveryCallEnds ==
    \A c \in Calls : (pc[c] # "idle") ~> (pc[c] \in Ended)
=============================================================================
