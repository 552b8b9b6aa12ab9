--------------------------- MODULE AuthorityProofs ---------------------------
(***************************************************************************)
(* What a departure takes away, for every number of agents and of requests *)
(* under way, whatever their humans ask for.                               *)
(***************************************************************************)
EXTENDS Authority, TLAPS

\* A request retires only a row it has read, and only a sync fetches.
RetireReads ==
    \A r \in Requests :
        /\ pc[r] = "write" /\ act[r].do = "retire" => act[r].of \in grants
        /\ pc[r] = "fetch" => act[r].do = "sync"

\* The departed who have an active identity.
Suspended ==
    \A a \in Agents :
        roster[a] = "departed" /\ identity[a] = "active" => a \in crossed \cup imported

\* What a departure revoked is in force until a human lifts it.
Unpardoned == \A a \in out : revoked[<<"agent", a>>] > 0

IInv == TypeOK /\ RetireReads /\ Suspended /\ Unpardoned

\* What a request is about follows from what it does.
LEMMA ActIsOf ==
    ASSUME TypeOK, NEW r \in Requests
    PROVE  /\ act[r].do \in {"issue", "return", "register"} => act[r].of \in Agents
           /\ act[r].do = "retire" => act[r].of \in Rows
<1>1. act[r] \in Acts \cup {Idle}
  BY DEF TypeOK
<1>2. QED
  BY <1>1 DEF Acts, Idle

\* The end of a request.
LEMMA FinishTypes ==
    ASSUME TypeOK, NEW r \in Requests, Finish(r)
    PROVE  /\ pc' \in [Requests -> {"idle", "in", "fetch", "write"}]
           /\ act' \in [Requests -> Acts \cup {Idle}]
           /\ here' \in [Requests -> SUBSET Agents]
           /\ gone' \in [Requests -> SUBSET Agents]
           /\ requests' = requests
           /\ \A q \in Requests : pc'[q] # "idle" => pc'[q] = pc[q] /\ act'[q] = act[q]
BY DEF TypeOK, Finish

LEMMA AgentScope ==
    ASSUME TypeOK, NEW a \in Agents
    PROVE  /\ <<"agent", a>> \in Scopes
           /\ <<"agent", a>>[1] = "agent" /\ <<"agent", a>>[2] = a
           /\ revoked[<<"agent", a>>] \in Nat
           /\ \A s \in Scopes : s[1] = "agent" /\ s[2] = a => s = <<"agent", a>>
BY DEF Scopes, TypeOK

LEMMA InitIInv == Init => IInv
<1> SUFFICES ASSUME Init PROVE IInv
  OBVIOUS
<1>1. PICK made \in SUBSET Agents : identity = [a \in Agents |-> IF a \in made THEN "active" ELSE "none"]
  BY DEF Init
<1>2. grants \subseteq Rows
  BY DEF Init, Rows, Origins
<1>3. TypeOK
  BY <1>1, <1>2 DEF Init, TypeOK
<1>4. RetireReads /\ Suspended /\ Unpardoned
  BY DEF Init, RetireReads, Suspended, Unpardoned
<1>5. QED
  BY <1>3, <1>4 DEF IInv

LEMMA DecideType ==
    ASSUME TypeOK, RetireReads, NEW r \in Requests, Decide(r)
    PROVE  TypeOK'
BY ActIsOf, FinishTypes, AuthorityConstants DEF TypeOK, Decide, historyVars, agentVars,
   grantVars, requestVars

LEMMA DieType ==
    ASSUME TypeOK, RetireReads, NEW r \in Requests, Die(r)
    PROVE  TypeOK'
BY ActIsOf, FinishTypes, AuthorityConstants DEF TypeOK, Die, historyVars, agentVars,
   grantVars, requestVars

LEMMA IssueIdentityType ==
    ASSUME TypeOK, RetireReads, NEW r \in Requests, IssueIdentity(r)
    PROVE  TypeOK'
BY ActIsOf, FinishTypes, AuthorityConstants DEF TypeOK, IssueIdentity, Writes, Crossing,
   historyVars, agentVars, grantVars, requestVars

LEMMA ReinstateIdentityType ==
    ASSUME TypeOK, RetireReads, NEW r \in Requests, ReinstateIdentity(r)
    PROVE  TypeOK'
BY ActIsOf, FinishTypes, AuthorityConstants DEF TypeOK, ReinstateIdentity, Writes,
   Crossing, historyVars, agentVars, grantVars, requestVars

LEMMA RegisterVillageAgentType ==
    ASSUME TypeOK, RetireReads, NEW r \in Requests, RegisterVillageAgent(r)
    PROVE  TypeOK'
BY ActIsOf, FinishTypes, AuthorityConstants DEF TypeOK, RegisterVillageAgent,
   historyVars, agentVars, grantVars, requestVars

LEMMA RetireType ==
    ASSUME TypeOK, RetireReads, NEW r \in Requests, Retire(r)
    PROVE  TypeOK'
BY ActIsOf, FinishTypes, AuthorityConstants DEF TypeOK, RetireReads, Retire, Writes,
   historyVars, agentVars, grantVars, requestVars

LEMMA ReadImportType ==
    ASSUME TypeOK, RetireReads, NEW r \in Requests, NEW incoming \in SUBSET Agents, ReadImport(r, incoming)
    PROVE  TypeOK'
BY AuthorityConstants DEF TypeOK, ReadImport, historyVars, agentVars, grantVars,
   requestVars

LEMMA ImportType ==
    ASSUME TypeOK, RetireReads, NEW r \in Requests, Import(r)
    PROVE  TypeOK'
BY ActIsOf, FinishTypes, AuthorityConstants DEF TypeOK, Import, Rostered, historyVars,
   agentVars, grantVars, requestVars

LEMMA FetchDiffType ==
    ASSUME TypeOK, RetireReads, NEW r \in Requests, FetchDiff(r)
    PROVE  TypeOK'
BY AuthorityConstants DEF TypeOK, FetchDiff, historyVars, agentVars, grantVars,
   requestVars

LEMMA FetchRosterType ==
    ASSUME TypeOK, RetireReads, NEW r \in Requests, FetchRoster(r)
    PROVE  TypeOK'
BY AuthorityConstants DEF TypeOK, FetchRoster, historyVars, agentVars, grantVars,
   requestVars

LEMMA SyncType ==
    ASSUME TypeOK, RetireReads, NEW r \in Requests, Sync(r)
    PROVE  TypeOK'
BY ActIsOf, FinishTypes, AuthorityConstants DEF TypeOK, Sync, Rostered, historyVars,
   agentVars, grantVars, requestVars

LEMMA ArriveType ==
    ASSUME TypeOK, RetireReads, NEW r \in Requests, NEW a \in Acts, Arrive(r, a)
    PROVE  TypeOK'
BY AuthorityConstants DEF TypeOK, Arrive, historyVars, agentVars, grantVars, requestVars

LEMMA MoveType ==
    ASSUME TypeOK, RetireReads, NEW a \in Agents, Move(a)
    PROVE  TypeOK'
BY AuthorityConstants DEF TypeOK, Move, historyVars, agentVars, grantVars, requestVars

LEMMA BarType ==
    ASSUME TypeOK, RetireReads, NEW a \in Agents, Bar(a)
    PROVE  TypeOK'
BY AuthorityConstants DEF TypeOK, Bar, historyVars, agentVars, grantVars, requestVars

LEMMA IssueGrantType ==
    ASSUME TypeOK, RetireReads, NEW a \in Agents, IssueGrant(a)
    PROVE  TypeOK'
BY AuthorityConstants DEF TypeOK, IssueGrant, Asks, Live, Rows, Origins, historyVars,
   agentVars, grantVars, requestVars

LEMMA RevokeType ==
    ASSUME TypeOK, RetireReads, NEW s \in Scopes, Revoke(s)
    PROVE  TypeOK'
BY AuthorityConstants DEF TypeOK, Revoke, Asks, historyVars, agentVars, grantVars,
   requestVars

LEMMA LiftType ==
    ASSUME TypeOK, RetireReads, NEW s \in Scopes, Lift(s)
    PROVE  TypeOK'
BY AuthorityConstants DEF TypeOK, Lift, Asks, historyVars, agentVars, grantVars,
   requestVars

LEMMA ActivateType ==
    ASSUME TypeOK, RetireReads, Activate
    PROVE  TypeOK'
BY AuthorityConstants DEF TypeOK, Activate, Asks, historyVars, agentVars, grantVars,
   requestVars

LEMMA DeactivateType ==
    ASSUME TypeOK, RetireReads, Deactivate
    PROVE  TypeOK'
BY AuthorityConstants DEF TypeOK, Deactivate, Asks, historyVars, agentVars, grantVars,
   requestVars

LEMMA TypeStep ==
    ASSUME TypeOK, RetireReads, [Next]_vars
    PROVE  TypeOK'
<1>1. ASSUME NEW r \in Requests, Decide(r) PROVE TypeOK'
  BY <1>1, DecideType
<1>2. ASSUME NEW r \in Requests, Die(r) PROVE TypeOK'
  BY <1>2, DieType
<1>3. ASSUME NEW r \in Requests, IssueIdentity(r) PROVE TypeOK'
  BY <1>3, IssueIdentityType
<1>4. ASSUME NEW r \in Requests, ReinstateIdentity(r) PROVE TypeOK'
  BY <1>4, ReinstateIdentityType
<1>5. ASSUME NEW r \in Requests, RegisterVillageAgent(r) PROVE TypeOK'
  BY <1>5, RegisterVillageAgentType
<1>6. ASSUME NEW r \in Requests, Retire(r) PROVE TypeOK'
  BY <1>6, RetireType
<1>7. ASSUME NEW r \in Requests, NEW incoming \in SUBSET Agents, ReadImport(r, incoming) PROVE TypeOK'
  BY <1>7, ReadImportType
<1>8. ASSUME NEW r \in Requests, Import(r) PROVE TypeOK'
  BY <1>8, ImportType
<1>9. ASSUME NEW r \in Requests, FetchDiff(r) PROVE TypeOK'
  BY <1>9, FetchDiffType
<1>10. ASSUME NEW r \in Requests, FetchRoster(r) PROVE TypeOK'
  BY <1>10, FetchRosterType
<1>11. ASSUME NEW r \in Requests, Sync(r) PROVE TypeOK'
  BY <1>11, SyncType
<1>12. ASSUME NEW r \in Requests, NEW a \in Acts, Arrive(r, a) PROVE TypeOK'
  BY <1>12, ArriveType
<1>13. ASSUME NEW a \in Agents, Move(a) PROVE TypeOK'
  BY <1>13, MoveType
<1>14. ASSUME NEW a \in Agents, Bar(a) PROVE TypeOK'
  BY <1>14, BarType
<1>15. ASSUME NEW a \in Agents, IssueGrant(a) PROVE TypeOK'
  BY <1>15, IssueGrantType
<1>16. ASSUME NEW s \in Scopes, Revoke(s) PROVE TypeOK'
  BY <1>16, RevokeType
<1>17. ASSUME NEW s \in Scopes, Lift(s) PROVE TypeOK'
  BY <1>17, LiftType
<1>18. ASSUME Activate PROVE TypeOK'
  BY <1>18, ActivateType
<1>19. ASSUME Deactivate PROVE TypeOK'
  BY <1>19, DeactivateType
<1>20. CASE UNCHANGED vars
  BY <1>20 DEF TypeOK, vars, agentVars, grantVars, requestVars, historyVars
<1>21. QED
  BY <1>1, <1>2, <1>3, <1>4, <1>5, <1>6, <1>7, <1>8, <1>9, <1>10, <1>11, <1>12, <1>13,
     <1>14, <1>15, <1>16, <1>17, <1>18, <1>19, <1>20 DEF Next, RequestStep

LEMMA RetireReadsStep ==
    ASSUME TypeOK, RetireReads, [Next]_vars
    PROVE  RetireReads'
<1>1. ASSUME NEW r \in Requests, Decide(r) PROVE RetireReads'
  BY <1>1, FinishTypes DEF TypeOK, RetireReads, Decide, MayRetire, Live, grantVars,
     requestVars
<1>2. ASSUME NEW r \in Requests, Die(r) PROVE RetireReads'
  BY <1>2, FinishTypes DEF RetireReads, Die, grantVars, requestVars
<1>3. ASSUME NEW r \in Requests, IssueIdentity(r) PROVE RetireReads'
  BY <1>3, FinishTypes DEF RetireReads, IssueIdentity, MayRetire, Live, historyVars,
     agentVars, grantVars, requestVars
<1>4. ASSUME NEW r \in Requests, ReinstateIdentity(r) PROVE RetireReads'
  BY <1>4, FinishTypes DEF RetireReads, ReinstateIdentity, MayRetire, Live, historyVars,
     agentVars, grantVars, requestVars
<1>5. ASSUME NEW r \in Requests, RegisterVillageAgent(r) PROVE RetireReads'
  BY <1>5, FinishTypes DEF RetireReads, RegisterVillageAgent, agentVars, grantVars,
     requestVars
<1>6. ASSUME NEW r \in Requests, Retire(r) PROVE RetireReads'
  BY <1>6, FinishTypes DEF RetireReads, Retire, grantVars, requestVars
<1>7. ASSUME NEW r \in Requests, NEW incoming \in SUBSET Agents, ReadImport(r, incoming) PROVE RetireReads'
  BY <1>7 DEF RetireReads, ReadImport, grantVars, requestVars
<1>8. ASSUME NEW r \in Requests, Import(r) PROVE RetireReads'
  BY <1>8, FinishTypes DEF RetireReads, Import, MayRetire, Live, historyVars, agentVars,
     grantVars, requestVars
<1>9. ASSUME NEW r \in Requests, FetchDiff(r) PROVE RetireReads'
  BY <1>9 DEF RetireReads, FetchDiff, grantVars, requestVars
<1>10. ASSUME NEW r \in Requests, FetchRoster(r) PROVE RetireReads'
  BY <1>10 DEF RetireReads, FetchRoster, grantVars, requestVars
<1>11. ASSUME NEW r \in Requests, Sync(r) PROVE RetireReads'
  BY <1>11, FinishTypes DEF RetireReads, Sync, MayRetire, Live, historyVars, agentVars,
     grantVars, requestVars
<1>12. ASSUME NEW r \in Requests, NEW a \in Acts, Arrive(r, a) PROVE RetireReads'
  BY <1>12 DEF RetireReads, Arrive, grantVars, requestVars
<1>13. ASSUME NEW a \in Agents, Move(a) PROVE RetireReads'
  BY <1>13 DEF RetireReads, Move, grantVars, requestVars
<1>14. ASSUME NEW a \in Agents, Bar(a) PROVE RetireReads'
  BY <1>14 DEF RetireReads, Bar, grantVars, requestVars
<1>15. ASSUME NEW a \in Agents, IssueGrant(a) PROVE RetireReads'
  BY <1>15 DEF RetireReads, IssueGrant, grantVars, requestVars
<1>16. ASSUME NEW s \in Scopes, Revoke(s) PROVE RetireReads'
  BY <1>16 DEF RetireReads, Revoke, grantVars, requestVars
<1>17. ASSUME NEW s \in Scopes, Lift(s) PROVE RetireReads'
  BY <1>17 DEF RetireReads, Lift, grantVars, requestVars
<1>18. ASSUME Activate PROVE RetireReads'
  BY <1>18 DEF RetireReads, Activate, grantVars, requestVars
<1>19. ASSUME Deactivate PROVE RetireReads'
  BY <1>19 DEF RetireReads, Deactivate, grantVars, requestVars
<1>20. CASE UNCHANGED vars
  BY <1>20 DEF RetireReads, vars, grantVars, requestVars
<1>21. QED
  BY <1>1, <1>2, <1>3, <1>4, <1>5, <1>6, <1>7, <1>8, <1>9, <1>10, <1>11, <1>12, <1>13,
     <1>14, <1>15, <1>16, <1>17, <1>18, <1>19, <1>20 DEF Next, RequestStep

LEMMA SuspendedStep ==
    ASSUME TypeOK, Suspended, [Next]_vars
    PROVE  Suspended'
<1>1. ASSUME NEW r \in Requests, Decide(r) PROVE Suspended'
  BY <1>1, ActIsOf DEF Suspended, Decide, historyVars, agentVars, requestVars
<1>2. ASSUME NEW r \in Requests, Die(r) PROVE Suspended'
  BY <1>2, ActIsOf DEF Suspended, Die, historyVars, agentVars, requestVars
<1>3. ASSUME NEW r \in Requests, IssueIdentity(r) PROVE Suspended'
  BY <1>3, ActIsOf DEF Suspended, IssueIdentity, Crossing, requestVars
<1>4. ASSUME NEW r \in Requests, ReinstateIdentity(r) PROVE Suspended'
  BY <1>4, ActIsOf DEF Suspended, ReinstateIdentity, Crossing, requestVars
<1>5. ASSUME NEW r \in Requests, RegisterVillageAgent(r) PROVE Suspended'
  BY <1>5, ActIsOf DEF Suspended, RegisterVillageAgent, historyVars, requestVars
<1>6. ASSUME NEW r \in Requests, Retire(r) PROVE Suspended'
  BY <1>6, ActIsOf DEF Suspended, Retire, Crossing, Rostered, Suspends, historyVars,
     agentVars, grantVars, requestVars
<1>7. ASSUME NEW r \in Requests, NEW incoming \in SUBSET Agents, ReadImport(r, incoming) PROVE Suspended'
  BY <1>7, ActIsOf DEF Suspended, ReadImport, historyVars, agentVars, requestVars
<1>8. ASSUME NEW r \in Requests, Import(r) PROVE Suspended'
  BY <1>8, ActIsOf DEF Suspended, Import, Rostered, requestVars
<1>9. ASSUME NEW r \in Requests, FetchDiff(r) PROVE Suspended'
  BY <1>9, ActIsOf DEF Suspended, FetchDiff, historyVars, agentVars, requestVars
<1>10. ASSUME NEW r \in Requests, FetchRoster(r) PROVE Suspended'
  BY <1>10, ActIsOf DEF Suspended, FetchRoster, historyVars, agentVars, requestVars
<1>11. ASSUME NEW r \in Requests, Sync(r) PROVE Suspended'
  BY <1>11, ActIsOf DEF Suspended, Sync, Rostered, Suspends, requestVars
<1>12. ASSUME NEW r \in Requests, NEW a \in Acts, Arrive(r, a) PROVE Suspended'
  BY <1>12, ActIsOf DEF Suspended, Arrive, historyVars, agentVars, requestVars
<1>13. ASSUME NEW a \in Agents, Move(a) PROVE Suspended'
  BY <1>13, ActIsOf DEF Suspended, Move, historyVars, agentVars
<1>14. ASSUME NEW a \in Agents, Bar(a) PROVE Suspended'
  BY <1>14, ActIsOf DEF Suspended, Bar, historyVars, agentVars
<1>15. ASSUME NEW a \in Agents, IssueGrant(a) PROVE Suspended'
  BY <1>15, ActIsOf DEF Suspended, IssueGrant, Writes, Crossing, Rostered, Suspends,
     historyVars, agentVars, grantVars, requestVars
<1>16. ASSUME NEW s \in Scopes, Revoke(s) PROVE Suspended'
  BY <1>16, ActIsOf DEF Suspended, Revoke, historyVars, agentVars, requestVars
<1>17. ASSUME NEW s \in Scopes, Lift(s) PROVE Suspended'
  BY <1>17, ActIsOf DEF Suspended, Lift, agentVars, requestVars
<1>18. ASSUME Activate PROVE Suspended'
  BY <1>18, ActIsOf DEF Suspended, Activate, Writes, Crossing, Rostered, Suspends,
     historyVars, agentVars, grantVars, requestVars
<1>19. ASSUME Deactivate PROVE Suspended'
  BY <1>19, ActIsOf DEF Suspended, Deactivate, Writes, Crossing, Rostered, Suspends,
     historyVars, agentVars, grantVars, requestVars
<1>20. CASE UNCHANGED vars
  BY <1>20 DEF Suspended, vars, agentVars, historyVars
<1>21. QED
  BY <1>1, <1>2, <1>3, <1>4, <1>5, <1>6, <1>7, <1>8, <1>9, <1>10, <1>11, <1>12, <1>13,
     <1>14, <1>15, <1>16, <1>17, <1>18, <1>19, <1>20 DEF Next, RequestStep

LEMMA UnpardonedStep ==
    ASSUME TypeOK, Unpardoned, [Next]_vars
    PROVE  Unpardoned'
<1>1. ASSUME NEW r \in Requests, Decide(r) PROVE Unpardoned'
  BY <1>1, AgentScope DEF Unpardoned, Decide, historyVars, requestVars
<1>2. ASSUME NEW r \in Requests, Die(r) PROVE Unpardoned'
  BY <1>2, AgentScope DEF Unpardoned, Die, historyVars, requestVars
<1>3. ASSUME NEW r \in Requests, IssueIdentity(r) PROVE Unpardoned'
  BY <1>3, AgentScope DEF Unpardoned, IssueIdentity, requestVars
<1>4. ASSUME NEW r \in Requests, ReinstateIdentity(r) PROVE Unpardoned'
  BY <1>4, AgentScope DEF Unpardoned, ReinstateIdentity, requestVars
<1>5. ASSUME NEW r \in Requests, RegisterVillageAgent(r) PROVE Unpardoned'
  BY <1>5, AgentScope DEF Unpardoned, RegisterVillageAgent, historyVars, requestVars
<1>6. ASSUME NEW r \in Requests, Retire(r) PROVE Unpardoned'
  BY <1>6, AgentScope DEF Unpardoned, Retire, historyVars, grantVars, requestVars
<1>7. ASSUME NEW r \in Requests, NEW incoming \in SUBSET Agents, ReadImport(r, incoming) PROVE Unpardoned'
  BY <1>7, AgentScope DEF Unpardoned, ReadImport, historyVars, requestVars
<1>8. ASSUME NEW r \in Requests, Import(r) PROVE Unpardoned'
  BY <1>8, AgentScope DEF Unpardoned, Import, requestVars
<1>9. ASSUME NEW r \in Requests, FetchDiff(r) PROVE Unpardoned'
  BY <1>9, AgentScope DEF Unpardoned, FetchDiff, historyVars, requestVars
<1>10. ASSUME NEW r \in Requests, FetchRoster(r) PROVE Unpardoned'
  BY <1>10, AgentScope DEF Unpardoned, FetchRoster, historyVars, requestVars
<1>11. ASSUME NEW r \in Requests, Sync(r) PROVE Unpardoned'
  <2>1. SUFFICES ASSUME NEW a \in out' PROVE revoked'[<<"agent", a>>] > 0
    BY DEF Unpardoned
  <2>2. a \in Agents
    BY <1>11, <2>1 DEF TypeOK, Sync
  <2>3. revoked' = [s \in Scopes |-> IF s[1] = "agent" /\ s[2] \in Holders(r)
                                    THEN revoked[s] + 1 ELSE revoked[s]]
    BY <1>11 DEF Sync
  <2>4. a \in out \/ a \in Holders(r)
    BY <1>11, <2>1 DEF Sync, Holders
  <2>5. CASE a \in Holders(r)
    BY <2>2, <2>3, <2>5, AgentScope
  <2>6. CASE a \in out
    BY <2>2, <2>3, <2>6, AgentScope DEF Unpardoned
  <2>7. QED
    BY <2>4, <2>5, <2>6
<1>12. ASSUME NEW r \in Requests, NEW a \in Acts, Arrive(r, a) PROVE Unpardoned'
  BY <1>12, AgentScope DEF Unpardoned, Arrive, historyVars, requestVars
<1>13. ASSUME NEW a \in Agents, Move(a) PROVE Unpardoned'
  BY <1>13, AgentScope DEF Unpardoned, Move, historyVars
<1>14. ASSUME NEW a \in Agents, Bar(a) PROVE Unpardoned'
  BY <1>14, AgentScope DEF Unpardoned, Bar, historyVars
<1>15. ASSUME NEW a \in Agents, IssueGrant(a) PROVE Unpardoned'
  BY <1>15, AgentScope DEF Unpardoned, IssueGrant, historyVars, grantVars, requestVars
<1>16. ASSUME NEW s \in Scopes, Revoke(s) PROVE Unpardoned'
  <2>1. SUFFICES ASSUME NEW a \in out' PROVE revoked'[<<"agent", a>>] > 0
    BY DEF Unpardoned
  <2>2. a \in out /\ a \in Agents
    BY <1>16, <2>1 DEF TypeOK, Revoke, historyVars
  <2>3. revoked' = [revoked EXCEPT ![s] = @ + 1] /\ revoked \in [Scopes -> Nat]
    BY <1>16 DEF Revoke, TypeOK
  <2>4. QED
    BY <2>2, <2>3, AgentScope DEF Unpardoned
<1>17. ASSUME NEW s \in Scopes, Lift(s) PROVE Unpardoned'
  <2>1. /\ revoked' = [revoked EXCEPT ![s] = @ - 1]
        /\ out' = IF s[1] = "agent" THEN out \ {s[2]} ELSE out
        /\ revoked \in [Scopes -> Nat] /\ out \subseteq Agents
    BY <1>17 DEF Lift, TypeOK
  <2>2. SUFFICES ASSUME NEW a \in out' PROVE revoked'[<<"agent", a>>] > 0
    BY DEF Unpardoned
  <2>3. a \in out /\ a \in Agents /\ <<"agent", a>> # s
    BY <2>1, <2>2
  <2>4. QED
    BY <2>1, <2>3, AgentScope DEF Unpardoned
<1>18. ASSUME Activate PROVE Unpardoned'
  BY <1>18, AgentScope DEF Unpardoned, Activate, historyVars, grantVars, requestVars
<1>19. ASSUME Deactivate PROVE Unpardoned'
  BY <1>19, AgentScope DEF Unpardoned, Deactivate, historyVars, grantVars, requestVars
<1>20. CASE UNCHANGED vars
  BY <1>20 DEF Unpardoned, vars, historyVars
<1>21. QED
  BY <1>1, <1>2, <1>3, <1>4, <1>5, <1>6, <1>7, <1>8, <1>9, <1>10, <1>11, <1>12, <1>13,
     <1>14, <1>15, <1>16, <1>17, <1>18, <1>19, <1>20 DEF Next, RequestStep

LEMMA Invariant == Spec => []IInv
<1>1. Init => IInv
  BY InitIInv
<1>2. IInv /\ [Next]_vars => IInv'
  BY TypeStep, RetireReadsStep, SuspendedStep, UnpardonedStep DEF IInv
<1>3. QED
  BY <1>1, <1>2, PTL DEF Spec

\* The variables of Authority keep their types, and no row is retired that was
\* never issued.
THEOREM TypeCorrect == Spec => []TypeOK
<1>1. IInv => TypeOK
  BY DEF IInv
<1>2. QED
  BY <1>1, Invariant, PTL

\* An agent whose departure a sync has applied cannot call, for every number of
\* agents, requests and revocations (DepartedCannotCall).
THEOREM DepartedCannotCallHolds == Spec => []DepartedCannotCall
<1>1. IInv => DepartedCannotCall
  BY DEF IInv, Suspended, DepartedCannotCall, Callable
<1>2. QED
  BY <1>1, Invariant, PTL

\* Coming back restores nothing that the departure revoked
\* (ReturnRestoresNothing).
THEOREM ReturnRestoresNothingHolds == Spec => []ReturnRestoresNothing
<1>1. IInv => ReturnRestoresNothing
  <2>1. SUFFICES ASSUME IInv, NEW a \in out PROVE ~ Callable(a)
    BY DEF ReturnRestoresNothing
  <2>2. a \in Agents /\ revoked[<<"agent", a>>] > 0
    BY <2>1 DEF IInv, TypeOK, Unpardoned
  <2>3. <<"agent", a>> \in Scopes
    BY <2>2 DEF Scopes
  <2>4. Covers(<<"agent", a>>, a)
    BY DEF Covers
  <2>5. Revoked(a)
    BY <2>2, <2>3, <2>4 DEF Revoked
  <2>6. QED
    BY <2>5 DEF Callable
<1>2. QED
  BY <1>1, Invariant, PTL

\* The moment a grant stopped answering is written once (RetiredOnce).
THEOREM RetiredOnceHolds == Spec => RetiredOnce
<1> DEFINE Once == \A g \in Rows : retired[g] # 0 => retired'[g] = retired[g]
<1>1. ASSUME TypeOK, Next PROVE Once
  <2>1. ASSUME NEW r \in Requests, Decide(r) PROVE Once
    BY <1>1, <2>1 DEF Decide, Asks, Writes, MayStamp, Live, grantVars
  <2>2. ASSUME NEW r \in Requests, Die(r) PROVE Once
    BY <1>1, <2>2 DEF Die, Asks, Writes, MayStamp, Live, grantVars
  <2>3. ASSUME NEW r \in Requests, IssueIdentity(r) PROVE Once
    BY <1>1, <2>3 DEF IssueIdentity, MayStamp, Live, grantVars
  <2>4. ASSUME NEW r \in Requests, ReinstateIdentity(r) PROVE Once
    BY <1>1, <2>4 DEF ReinstateIdentity, MayStamp, Live, grantVars
  <2>5. ASSUME NEW r \in Requests, RegisterVillageAgent(r) PROVE Once
    BY <1>1, <2>5 DEF RegisterVillageAgent, MayStamp, Live, grantVars
  <2>6. ASSUME NEW r \in Requests, Retire(r) PROVE Once
    BY <1>1, <2>6 DEF Retire, MayStamp, Live, grantVars
  <2>7. ASSUME NEW r \in Requests, NEW incoming \in SUBSET Agents, ReadImport(r, incoming) PROVE Once
    BY <1>1, <2>7 DEF ReadImport, Asks, Writes, MayStamp, Live, grantVars
  <2>8. ASSUME NEW r \in Requests, Import(r) PROVE Once
    BY <1>1, <2>8 DEF Import, MayStamp, Live, grantVars
  <2>9. ASSUME NEW r \in Requests, FetchDiff(r) PROVE Once
    BY <1>1, <2>9 DEF FetchDiff, Asks, Writes, MayStamp, Live, grantVars
  <2>10. ASSUME NEW r \in Requests, FetchRoster(r) PROVE Once
    BY <1>1, <2>10 DEF FetchRoster, Asks, Writes, MayStamp, Live, grantVars
  <2>11. ASSUME NEW r \in Requests, Sync(r) PROVE Once
    BY <1>1, <2>11 DEF Sync, MayStamp, Live, grantVars
  <2>12. ASSUME NEW r \in Requests, NEW a \in Acts, Arrive(r, a) PROVE Once
    BY <1>1, <2>12 DEF Arrive, Asks, Writes, MayStamp, Live, grantVars
  <2>13. ASSUME NEW a \in Agents, Move(a) PROVE Once
    BY <1>1, <2>13 DEF Move, Asks, Writes, MayStamp, Live, grantVars
  <2>14. ASSUME NEW a \in Agents, Bar(a) PROVE Once
    BY <1>1, <2>14 DEF Bar, Asks, Writes, MayStamp, Live, grantVars
  <2>15. ASSUME NEW a \in Agents, IssueGrant(a) PROVE Once
    BY <1>1, <2>15 DEF IssueGrant, Writes, MayStamp, Live, grantVars
  <2>16. ASSUME NEW s \in Scopes, Revoke(s) PROVE Once
    BY <1>1, <2>16 DEF Revoke, Writes, MayStamp, Live, grantVars
  <2>17. ASSUME NEW s \in Scopes, Lift(s) PROVE Once
    BY <1>1, <2>17 DEF Lift, Writes, MayStamp, Live, grantVars
  <2>18. ASSUME Activate PROVE Once
    BY <1>1, <2>18 DEF Activate, Writes, MayStamp, Live, grantVars
  <2>19. ASSUME Deactivate PROVE Once
    BY <1>1, <2>19 DEF Deactivate, Writes, MayStamp, Live, grantVars
  <2>20. QED
    BY <1>1, <2>1, <2>2, <2>3, <2>4, <2>5, <2>6, <2>7, <2>8, <2>9, <2>10, <2>11, <2>12,
       <2>13, <2>14, <2>15, <2>16, <2>17, <2>18, <2>19 DEF Next, RequestStep
<1>2. ASSUME TypeOK, UNCHANGED vars PROVE UNCHANGED retired
  BY <1>2 DEF vars, grantVars
<1>3. TypeOK /\ [Next]_vars => [Once]_retired
  BY <1>1, <1>2
<1>4. QED
  BY <1>3, TypeCorrect, PTL DEF Spec, RetiredOnce
=============================================================================
