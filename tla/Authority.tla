------------------------------ MODULE Authority ------------------------------
(***************************************************************************)
(* Who may call a Forge: the Village's roster and the Office's copy of it  *)
(* (broker/roster.py, broker/sync_roster.py), the identities issued from   *)
(* it, the grants they hold (broker/grants.py, generators/                 *)
(* runtime_config.py), and the revocations over them                       *)
(* (broker/revocation.py).                                                 *)
(*                                                                         *)
(* One Forge, one module and one venture, so a grant is an agent and the   *)
(* writer it came from: the bootstrap or the provisioning ladder.  What an *)
(* agent may do is nowhere stored: it is derived, call by call, from all   *)
(* of these (Callable).  Humans' roles are Governance's.                   *)
(***************************************************************************)
EXTENDS Integers, FiniteSets

CONSTANTS
    Agents,
    Requests,   \* requests under way at one time
    Agendas,    \* bound: what one behaviour's humans ask for, and how often
    None        \* no agent

ASSUME AuthorityConstants ==
    /\ None \notin Agents
    /\ \A g \in Agendas : g.requests \in Nat

Origins == {"bootstrap", "ladder"}
Rows == Agents \X Origins

\* What a revocation covers: an agent here, an agent anywhere, or everybody.
Scopes == ({"agent_module", "agent"} \X Agents) \cup ({"venture", "forge"} \X {None})

VARIABLES
    village,     \* the agents the Village lists now
    roster,      \* village_agent.status, "none" when there is no row
    identity,    \* office_agent_identity.status, "none" when there is no row
    grants,      \* rows of agent_forge_grant
    activated,   \* those with an activated_at
    retired,     \* superseded_at: the ordinal of the write that set it, or 0
    revoked,     \* live revocations of each scope
    barred,      \* agents refused by a certification, an exclusion or a credential
    \* a request
    pc, act,
    here, gone,  \* the roster it will write, and the departures it will apply
    agenda,      \* what this behaviour's humans ask for
    requests,    \* how many requests there have been
    \* history, read by properties only
    crossed,     \* issued or reinstated as their departure was being applied
    imported,    \* departed by an import, which suspends nobody
    out          \* departed while holding a grant, and not pardoned since

agentVars == <<roster, identity>>
grantVars == <<grants, activated, retired>>
requestVars == <<pc, act, here, gone, requests>>
historyVars == <<crossed, imported, out>>
vars == <<village, agentVars, grantVars, revoked, barred, requestVars, agenda, historyVars>>

Acts ==
    [do : {"issue", "return", "register"}, of : Agents]
    \cup [do : {"retire"}, of : Rows]
    \cup [do : {"import", "sync"}, of : {None}]

Idle == [do |-> "nothing", of |-> None]

TypeOK ==
    /\ village \subseteq Agents
    /\ roster \in [Agents -> {"none", "active", "departed"}]
    /\ identity \in [Agents -> {"none", "active", "suspended"}]
    /\ grants \subseteq Rows
    /\ activated \subseteq grants
    /\ retired \in [Rows -> Nat]
    /\ \A g \in Rows : retired[g] # 0 => g \in grants
    /\ revoked \in [Scopes -> Nat]
    /\ barred \subseteq Agents
    /\ pc \in [Requests -> {"idle", "in", "fetch", "write"}]
    /\ act \in [Requests -> Acts \cup {Idle}]
    /\ here \in [Requests -> SUBSET Agents]
    /\ gone \in [Requests -> SUBSET Agents]
    /\ agenda \in Agendas
    /\ requests \in Nat
    /\ crossed \subseteq Agents
    /\ imported \subseteq Agents
    /\ out \subseteq Agents

\* A roster imported, identities issued to some of its agents, and the
\* bootstrap has given some of those an activated grant.
Init ==
    /\ village = Agents
    /\ roster \in [Agents -> {"none", "active"}]
    /\ \E made \in SUBSET {a \in Agents : roster[a] = "active"} :
        /\ identity = [a \in Agents |-> IF a \in made THEN "active" ELSE "none"]
        /\ \E held \in SUBSET made : grants = held \X {"bootstrap"}
    /\ activated = grants
    /\ retired = [g \in Rows |-> 0]
    /\ revoked = [s \in Scopes |-> 0]
    /\ barred = {}
    /\ pc = [r \in Requests |-> "idle"]
    /\ act = [r \in Requests |-> Idle]
    /\ here = [r \in Requests |-> {}]
    /\ gone = [r \in Requests |-> {}]
    /\ agenda \in Agendas
    /\ requests = 0
    /\ crossed = {} /\ imported = {} /\ out = {}

-----------------------------------------------------------------------------
(* What a call asks.                                                       *)

Live(g) == g \in grants /\ retired[g] = 0

\* The row resolve_grant reads: a live grant beats a retired one, then the
\* newest, and the ladder issues after the bootstrap.
Read(a) ==
    LET held == {g \in grants : g[1] = a}
        pool == IF \E g \in held : Live(g) THEN {g \in held : Live(g)} ELSE held
    IN  IF <<a, "ladder">> \in pool THEN {<<a, "ladder">>} ELSE pool

Covers(s, a) == s[1] \in {"venture", "forge"} \/ s[2] = a

Revoked(a) == \E s \in Scopes : Covers(s, a) /\ revoked[s] > 0

Callable(a) ==
    /\ identity[a] = "active"
    /\ a \notin barred
    /\ \E g \in Read(a) : Live(g) /\ g \in activated
    /\ ~ Revoked(a)

-----------------------------------------------------------------------------
(* What happens around the Office.                                         *)

Move(a) ==
    /\ "move" \in agenda.deeds
    /\ village' = (village \ {a}) \cup ({a} \ village)
    /\ UNCHANGED <<agentVars, grantVars, revoked, barred, requestVars, agenda, historyVars>>

Bar(a) ==
    /\ "bar" \in agenda.deeds
    /\ barred' = (barred \ {a}) \cup ({a} \ barred)
    /\ UNCHANGED <<village, agentVars, grantVars, revoked, requestVars, agenda, historyVars>>

-----------------------------------------------------------------------------
(* Requests that read, decide, and write later.                            *)

Arrive(r, a) ==
    /\ pc[r] = "idle"
    /\ a.do \in agenda.deeds
    /\ requests < agenda.requests
    /\ pc' = [pc EXCEPT ![r] = "in"]
    /\ act' = [act EXCEPT ![r] = a]
    /\ requests' = requests + 1
    /\ UNCHANGED <<village, agentVars, grantVars, revoked, barred, here, gone, agenda, historyVars>>

Finish(r) ==
    /\ pc' = [pc EXCEPT ![r] = "idle"]
    /\ act' = [act EXCEPT ![r] = Idle]
    /\ here' = [here EXCEPT ![r] = {}]
    /\ gone' = [gone EXCEPT ![r] = {}]
    /\ UNCHANGED requests

\* Crash, refusal by the database, or a lost connection: nothing is written.
Die(r) ==
    /\ pc[r] # "idle"
    /\ Finish(r)
    /\ UNCHANGED <<village, agentVars, grantVars, revoked, barred, agenda, historyVars>>

MayIssue(a) == roster[a] = "active" /\ identity[a] = "none"

MayReturn(a) == identity[a] = "suspended" /\ roster[a] = "active"

MayRetire(g) == Live(g)

Decide(r) ==
    LET a == act[r].of IN
    /\ pc[r] = "in"
    /\ act[r].do \in {"issue", "return", "register", "retire"}
    /\ IF \/ act[r].do = "issue" /\ MayIssue(a)
          \/ act[r].do = "return" /\ MayReturn(a)
          \/ act[r].do = "register"
          \/ act[r].do = "retire" /\ MayRetire(a)
       THEN /\ pc' = [pc EXCEPT ![r] = "write"]
            /\ UNCHANGED <<act, here, gone, requests>>
       ELSE Finish(r)
    /\ UNCHANGED <<village, agentVars, grantVars, revoked, barred, agenda, historyVars>>

Writes(r, deed) == pc[r] = "write" /\ act[r].do = deed

Crossing(a) == IF roster[a] = "departed" THEN crossed \cup {a} ELSE crossed

\* issue_identity: village_agent_ref is UNIQUE, so of two INSERTs one fails.
IssueIdentity(r) ==
    LET a == act[r].of IN
    /\ Writes(r, "issue")
    /\ identity' = IF identity[a] = "none" THEN [identity EXCEPT ![a] = "active"] ELSE identity
    /\ crossed' = IF identity[a] = "none" THEN Crossing(a) ELSE crossed
    /\ Finish(r)
    /\ UNCHANGED <<village, roster, grantVars, revoked, barred, agenda, imported, out>>

\* reinstate_identity: the identity alone; no grant comes back with it.
ReinstateIdentity(r) ==
    LET a == act[r].of IN
    /\ Writes(r, "return")
    /\ identity' = [identity EXCEPT ![a] = "active"]
    /\ crossed' = Crossing(a)
    /\ Finish(r)
    /\ UNCHANGED <<village, roster, grantVars, revoked, barred, agenda, imported, out>>

\* register_village_agent: ON CONFLICT DO NOTHING.
RegisterVillageAgent(r) ==
    LET a == act[r].of IN
    /\ Writes(r, "register")
    /\ roster' = IF roster[a] = "none" THEN [roster EXCEPT ![a] = "active"] ELSE roster
    /\ Finish(r)
    /\ UNCHANGED <<village, identity, grantVars, revoked, barred, agenda, historyVars>>

\* Mutant of MayStamp: the UPDATE has no "AND superseded_at IS NULL".
MayStamp_Any(g) == TRUE

MayStamp(g) == retired[g] = 0

\* retire.
Retire(r) ==
    LET g == act[r].of IN
    /\ Writes(r, "retire")
    /\ retired' = [retired EXCEPT ![g] = IF MayStamp(g) THEN requests ELSE @]
    /\ Finish(r)
    /\ UNCHANGED <<village, agentVars, grants, activated, revoked, barred, agenda, historyVars>>

-----------------------------------------------------------------------------
(* The two ways a roster is applied.                                       *)

\* roster.apply reads what it has, and a roster somebody pasted: it may be empty.
ReadImport(r, incoming) ==
    /\ pc[r] = "in" /\ act[r].do = "import"
    /\ here' = [here EXCEPT ![r] = incoming]
    /\ gone' = [gone EXCEPT ![r] = {a \in Agents \ incoming : roster[a] = "active"}]
    /\ pc' = [pc EXCEPT ![r] = "write"]
    /\ UNCHANGED <<village, agentVars, grantVars, revoked, barred, act, requests, agenda, historyVars>>

Rostered(r) ==
    [a \in Agents |-> IF a \in gone[r] THEN "departed"
                      ELSE IF a \in here[r] THEN "active" ELSE roster[a]]

Import(r) ==
    /\ Writes(r, "import")
    /\ roster' = Rostered(r)
    /\ imported' = imported \cup gone[r]
    /\ Finish(r)
    /\ UNCHANGED <<village, identity, grantVars, revoked, barred, agenda, crossed, out>>

\* sync_roster.apply asks the Village twice: for the differences, and for the
\* rows.  Neither answer may be empty.
FetchDiff(r) ==
    /\ pc[r] = "in" /\ act[r].do = "sync"
    /\ village # {}
    /\ gone' = [gone EXCEPT ![r] = {a \in Agents \ village : roster[a] # "none"}]
    /\ pc' = [pc EXCEPT ![r] = "fetch"]
    /\ UNCHANGED <<village, agentVars, grantVars, revoked, barred, act, here, requests, agenda,
                   historyVars>>

FetchRoster(r) ==
    /\ pc[r] = "fetch"
    /\ village # {}
    /\ here' = [here EXCEPT ![r] = village]
    /\ pc' = [pc EXCEPT ![r] = "write"]
    /\ UNCHANGED <<village, agentVars, grantVars, revoked, barred, act, gone, requests, agenda,
                   historyVars>>

\* Mutant of Suspends: only those who hold a grant.
Suspends_Holders(r) == {a \in gone[r] : \E g \in grants : g[1] = a}

\* The identities a sync suspends: of everybody departed.
Suspends(r) == gone[r]

\* Mutant of Holders: a grant that has not been activated is not counted.
Holders_Activated(r) == {a \in gone[r] : \E g \in activated : g[1] = a}

\* The departed it revokes: those with any grant row, whatever became of it.
Holders(r) == {a \in gone[r] : \E g \in grants : g[1] = a}

\* Roster, identities, revocations and the audit event, in one transaction.
Sync(r) ==
    LET gone_ == gone[r]
        held == {a \in gone_ : \E g \in grants : g[1] = a} IN
    /\ Writes(r, "sync")
    /\ roster' = Rostered(r)
    /\ identity' = [a \in Agents |-> IF a \in Suspends(r) /\ identity[a] = "active"
                                     THEN "suspended" ELSE identity[a]]
    /\ revoked' = [s \in Scopes |-> IF s[1] = "agent" /\ s[2] \in Holders(r)
                                    THEN revoked[s] + 1 ELSE revoked[s]]
    /\ crossed' = crossed \ gone_
    /\ imported' = imported \ gone_
    /\ out' = out \cup held
    /\ Finish(r)
    /\ UNCHANGED <<village, grantVars, barred, agenda>>

-----------------------------------------------------------------------------
(* One statement each: what was read before it does not change what it does. *)

Asks(deed) == deed \in agenda.deeds /\ requests < agenda.requests /\ requests' = requests + 1

Revoke(s) ==
    /\ Asks("revoke")
    /\ revoked' = [revoked EXCEPT ![s] = @ + 1]
    /\ UNCHANGED <<village, agentVars, grantVars, barred, pc, act, here, gone, agenda, historyVars>>

\* revocation.reinstate: one revocation; another of the same scope remains.
Lift(s) ==
    /\ Asks("lift")
    /\ revoked[s] > 0
    /\ revoked' = [revoked EXCEPT ![s] = @ - 1]
    /\ out' = IF s[1] = "agent" THEN out \ {s[2]} ELSE out
    /\ UNCHANGED <<village, agentVars, grantVars, barred, pc, act, here, gone, agenda, crossed,
                   imported>>

\* runtime_config.apply, at Gate 5: the ladder's grant, and a live bootstrap
\* grant of the same agent retired by it.  A row of the ladder's own that was
\* retired is written again and stays retired.
IssueGrant(a) ==
    LET row == <<a, "ladder">>
        old == <<a, "bootstrap">> IN
    /\ Asks("ladder")
    /\ identity[a] # "none"
    /\ grants' = grants \cup {row}
    /\ retired' = IF Live(old) /\ retired[row] = 0
                  THEN [retired EXCEPT ![old] = requests + 1] ELSE retired
    /\ UNCHANGED <<village, agentVars, activated, revoked, barred, pc, act, here, gone, agenda,
                   historyVars>>

\* Gate 11.
Activable(g) ==
    /\ identity[g[1]] = "active"
    /\ g[1] \notin barred
    /\ ~ Revoked(g[1])
    /\ Live(g)

Activate ==
    /\ Asks("ladder")
    /\ activated' = activated \cup {g \in grants : Activable(g)}
    /\ UNCHANGED <<village, agentVars, grants, retired, revoked, barred, pc, act, here, gone, agenda,
                   historyVars>>

\* deactivate: every active grant of the venture.
Deactivate ==
    /\ Asks("deactivate")
    /\ activated # {}
    /\ activated' = {}
    /\ UNCHANGED <<village, agentVars, grants, retired, revoked, barred, pc, act, here, gone, agenda,
                   historyVars>>

RequestStep(r) ==
    \/ Decide(r) \/ Die(r)
    \/ IssueIdentity(r) \/ ReinstateIdentity(r) \/ RegisterVillageAgent(r) \/ Retire(r)
    \/ \E incoming \in SUBSET Agents : ReadImport(r, incoming)
    \/ Import(r) \/ FetchDiff(r) \/ FetchRoster(r) \/ Sync(r)

Next ==
    \/ \E r \in Requests : RequestStep(r) \/ \E a \in Acts : Arrive(r, a)
    \/ \E a \in Agents : Move(a) \/ Bar(a) \/ IssueGrant(a)
    \/ \E s \in Scopes : Revoke(s) \/ Lift(s)
    \/ Activate \/ Deactivate

Spec == Init /\ [][Next]_vars

-----------------------------------------------------------------------------
(* Properties.                                                             *)

\* An agent whose departure a sync has applied cannot call, whatever is
\* granted, activated or lifted for it afterwards, unless its identity was
\* issued or reinstated by a request that had read the roster before that
\* departure, or its departure came by an import, which suspends nobody
\* (sync_roster.apply 269-283, roster.reinstate_identity, resolve_grant).
DepartedCannotCall ==
    \A a \in Agents : roster[a] = "departed" /\ Callable(a) => a \in crossed \cup imported

\* Coming back is not being pardoned: an agent that held a grant when it left
\* can be listed again and its identity reinstated, and still calls nothing
\* until a human lifts what the departure revoked (reinstate_identity's
\* "grants_reissued": False, sync_roster._revoke_departed).
ReturnRestoresNothing == \A a \in out : ~ Callable(a)

\* The moment a grant stopped answering is written once, by a human's
\* retirement or by the ladder's supersession, and never moved (grants.retire
\* 509-527, runtime_config.apply 340-363).
RetiredOnce == [][\A g \in Rows : retired[g] # 0 => retired'[g] = retired[g]]_retired
=============================================================================
