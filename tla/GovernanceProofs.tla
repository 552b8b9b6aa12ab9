--------------------------- MODULE GovernanceProofs ---------------------------
(***************************************************************************)
(* What requests that decide, write, and only then record keep true, for   *)
(* every number of humans and of requests under way at one time.           *)
(***************************************************************************)
EXTENDS Governance, TLAPS

Under(r) == pc[r] \in {"write", "file", "record", "audit"}

\* A request under way has a human and a deed, and is at a step of that deed.
Formed ==
    \A r \in Requests :
        /\ pc[r] # "idle" => me[r] \in Humans /\ act[r] \in Acts
        /\ pc[r] \in {"idle", "in"} => seen[r] = {}
        /\ pc[r] = "file" => act[r].do = "discharge"
        /\ pc[r] = "record" => act[r].do = "resolve"
        /\ act[r].do = "discharge" => seen[r] \subseteq Discharges
        /\ act[r].do = "fixtures" => seen[r] \subseteq Fixtures

\* No fixture is an administrator, nor about to be one or to be named.
NoFixtureRules ==
    /\ \A h \in Fixtures : <<h, IVAN>> \notin roles /\ status[h] # "absent"
    /\ \A r \in Requests :
          Under(r) =>
              /\ act[r].do \in {"grant", "endow", "create"} /\ act[r].what = IVAN => act[r].of \notin Fixtures
              /\ act[r].do = "name" => act[r].of \notin Fixtures

\* Whoever is about to be removed leaves an administrator behind.
Remaining ==
    clash \/ /\ Administrators # {}
             /\ \A r \in Requests : Removal(r) => Administrators \ {act[r].of} # {}

\* An escalation is received and answered by whom it was routed to, once raised.
Routed ==
    /\ \A e \in Escalations :
          /\ path[e] = "unraised" => to[e] = None
          /\ received[e] # None => received[e] = to[e]
          /\ answer[e] # None => received[e] # None
    /\ \A r \in Requests :
          Under(r) =>
              /\ act[r].do \in {"receive", "answer"} => me[r] = to[act[r].of]
              /\ act[r].do = "answer" => received[act[r].of] # None

\* What an event says holds of the tables.
True(e, by, of, what) ==
    /\ e = "answer" => /\ of \in Escalations /\ what # None /\ by # None
                       /\ answer[of] = what /\ received[of] = by
    /\ e = "receive" => of \in Escalations /\ by # None /\ received[of] = by
    /\ e \in {"grant", "endow"} => <<of, what, by>> \in given
    /\ e \in {"revoke", "console_revoked"} => <<of, what, by>> \in taken
    /\ e = "console_granted" => \E h \in Humans : <<of, what, h>> \in given
    /\ e = "resolve" => /\ of \in Incidents /\ by # None
                        /\ resolved[of] = by /\ <<of, by>> \in history

TrueOf(r) == True(act[r].do, me[r], act[r].of, act[r].what)

\* No event says what did not happen, nor will a request that is about to
\* record one.
Truthful ==
    /\ \A v \in events : True(v.event, v.by, v.of, v.what)
    /\ \A r \in Requests :
          /\ pc[r] = "record" => resolved[act[r].of] = me[r]
          /\ pc[r] \in {"audit", "console"} /\ changed[r] => TrueOf(r)

\* A role somebody holds, and one a grant has left behind it, was given.
GivenFirst ==
    /\ \A g \in roles : \E h \in Humans : <<g[1], g[2], h>> \in given
    /\ \A r \in Requests :
          pc[r] \in {"audit", "console"} /\ act[r].do = "grant" =>
              \E h \in Humans : <<act[r].of, act[r].what, h>> \in given

\* What was filed before a request was decided and is in force still, the
\* request has found.
Found_ ==
    /\ \A d \in Discharges : predates[d] \subseteq used
    /\ \A d \in live : predates[d] \cap live = {}
    /\ \A r \in Requests :
          pc[r] \in {"write", "file"} /\ act[r].do = "discharge" =>
              before[r] \subseteq used /\ before[r] \cap live \subseteq seen[r]

IInv ==
    /\ TypeOK /\ Formed /\ NoFixtureRules /\ Remaining /\ Routed
    /\ GivenFirst /\ Truthful /\ Found_

-----------------------------------------------------------------------------

\* What a request is about follows from what it does.
LEMMA ActIsOf ==
    ASSUME TypeOK, NEW r \in Requests
    PROVE  /\ act[r].do \in {"grant", "revoke", "endow"} => act[r].of \in Humans /\ act[r].what \in Roles
           /\ act[r].do = "create" => act[r].of \in Humans /\ act[r].what \in Roles \cup {None}
           /\ act[r].do \in {"suspend", "activate", "name"} =>
                  act[r].of \in Humans /\ act[r].what = None
           /\ act[r].do \in {"fixtures", "discharge"} => act[r].of = None /\ act[r].what = None
           /\ act[r].do \in {"receive", "answer"} => act[r].of \in Escalations
           /\ act[r].do = "answer" => act[r].what \in Texts
           /\ act[r].do \in {"file", "account", "resolve"} => act[r].of \in Incidents
<1>1. act[r] \in Acts \cup {Idle}
  BY DEF TypeOK
<1>2. QED
  BY <1>1 DEF Acts, Idle

\* A create that is recorded goes on to endow with the same role.
LEMMA CreateEndows ==
    ASSUME TypeOK, NEW r \in Requests, act[r].do = "create", act[r].what # None
    PROVE  /\ [act[r] EXCEPT !.do = "endow"] \in Acts
           /\ [act[r] EXCEPT !.do = "endow"].do = "endow"
           /\ [act[r] EXCEPT !.do = "endow"].of = act[r].of
           /\ [act[r] EXCEPT !.do = "endow"].what = act[r].what
<1>1. act[r] \in Acts \cup {Idle}
  BY DEF TypeOK
<1>2. act[r] \in [do : {"grant", "revoke", "create", "endow"}, of : Humans, what : Roles]
  BY <1>1 DEF Acts, Idle
<1>3. QED
  BY <1>2 DEF Acts

\* The end of a request, and of its write.
LEMMA FinishTypes ==
    ASSUME TypeOK, NEW r \in Requests, Finish(r)
    PROVE  /\ pc' = [pc EXCEPT ![r] = "idle"]
           /\ pc' \in [Requests -> {"idle", "in", "write", "file", "record", "audit", "console"}]
           /\ me' \in [Requests -> People]
           /\ act' \in [Requests -> Acts \cup {Idle}]
           /\ held' \in [Requests -> SUBSET Roles]
           /\ seen' \in [Requests -> SUBSET (Humans \cup Discharges)]
           /\ changed' \in [Requests -> BOOLEAN]
           /\ before' \in [Requests -> SUBSET Discharges]
           /\ pc'[r] = "idle" /\ act'[r] = Idle
           /\ \A q \in Requests \ {r} :
                /\ pc'[q] = pc[q] /\ act'[q] = act[q] /\ me'[q] = me[q]
                /\ seen'[q] = seen[q] /\ changed'[q] = changed[q] /\ before'[q] = before[q]
BY DEF TypeOK, Finish, People

LEMMA CommittedTypes ==
    ASSUME TypeOK, NEW r \in Requests, NEW did \in BOOLEAN, Committed(r, did)
    PROVE  /\ pc' \in [Requests -> {"idle", "in", "write", "file", "record", "audit", "console"}]
           /\ seen' \in [Requests -> SUBSET (Humans \cup Discharges)]
           /\ changed' \in [Requests -> BOOLEAN]
           /\ before' \in [Requests -> SUBSET Discharges]
           /\ pc'[r] = "audit" /\ changed'[r] = did /\ seen'[r] = {}
           /\ me' = me /\ act' = act /\ held' = held /\ requests' = requests /\ events' = events
           /\ \A q \in Requests \ {r} :
                /\ pc'[q] = pc[q] /\ seen'[q] = seen[q] /\ changed'[q] = changed[q]
                /\ before'[q] = before[q]
BY DEF TypeOK, Committed

\* A request's variables at the end of a step of its own.
Stepped(r) ==
    /\ pc' \in [Requests -> {"idle", "in", "write", "file", "record", "audit", "console"}]
    /\ me' \in [Requests -> People]
    /\ act' \in [Requests -> Acts \cup {Idle}]
    /\ held' \in [Requests -> SUBSET Roles]
    /\ seen' \in [Requests -> SUBSET (Humans \cup Discharges)]
    /\ changed' \in [Requests -> BOOLEAN]
    /\ before' \in [Requests -> SUBSET Discharges]
    /\ \A q \in Requests \ {r} :
          /\ pc'[q] = pc[q] /\ act'[q] = act[q] /\ me'[q] = me[q]
          /\ seen'[q] = seen[q] /\ changed'[q] = changed[q] /\ before'[q] = before[q]

Ended(r) == pc'[r] = "idle" /\ act'[r] = Idle /\ seen'[r] = {}

Audited(r) ==
    \/ Ended(r)
    \/ /\ act[r].do = "create" /\ pc'[r] = "write" /\ act'[r] \in Acts
       /\ act'[r].do = "endow" /\ act'[r].of = act[r].of /\ act'[r].what = act[r].what
       /\ me'[r] = me[r] /\ seen'[r] = seen[r] /\ ~ changed'[r]
    \/ /\ act[r].do \in {"grant", "revoke"} /\ pc'[r] = "console" /\ act'[r] = act[r]
       /\ me'[r] = me[r] /\ seen'[r] = seen[r] /\ changed'[r] = changed[r]

LEMMA AuditOutcome ==
    ASSUME TypeOK, NEW r \in Requests, Audit(r)
    PROVE  /\ Stepped(r) /\ Audited(r)
           /\ pc[r] = "audit"
           /\ UNCHANGED <<people, escalationVars, incidentVars, dischargeVars, requests, agenda,
                          clash>>
<1>1. ASSUME act[r].do = "create", act[r].what # None PROVE Stepped(r) /\ Audited(r)
  <2>1. act' = [act EXCEPT ![r] = [act[r] EXCEPT !.do = "endow"]]
    BY <1>1 DEF Audit
  <2>2. act' \in [Requests -> Acts \cup {Idle}] /\ act'[r] = [act[r] EXCEPT !.do = "endow"]
    BY <1>1, <2>1, CreateEndows DEF TypeOK
  <2>3. act'[r] \in Acts /\ act'[r].do = "endow" /\ act'[r].of = act[r].of
        /\ act'[r].what = act[r].what
    BY <1>1, <2>2, CreateEndows
  <2>4. \A q \in Requests \ {r} : act'[q] = act[q]
    BY <2>1
  <2>5. /\ pc' = [pc EXCEPT ![r] = "write"] /\ changed' = [changed EXCEPT ![r] = FALSE]
        /\ UNCHANGED <<me, held, seen, before>>
    BY <1>1 DEF Audit
  <2>6. QED
    BY <1>1, <2>2, <2>3, <2>4, <2>5 DEF TypeOK, Stepped, Audited
<1>2. ASSUME act[r].do \in {"grant", "revoke"} PROVE Stepped(r) /\ Audited(r)
  <2>1. pc' = [pc EXCEPT ![r] = "console"] /\ UNCHANGED <<me, act, held, seen, changed, before>>
    BY <1>2 DEF Audit
  <2>2. QED
    BY <1>2, <2>1 DEF TypeOK, Stepped, Audited
<1>3. ASSUME ~ (act[r].do = "create" /\ act[r].what # None),
             act[r].do \notin {"grant", "revoke"}
      PROVE  Stepped(r) /\ Audited(r)
  <2>1. Finish(r)
    BY <1>3 DEF Audit
  <2>2. Ended(r)
    BY <2>1, FinishTypes DEF Ended, Finish
  <2>3. Stepped(r)
    BY <2>1, FinishTypes DEF Stepped
  <2>4. QED
    BY <2>2, <2>3 DEF Audited
<1>4. QED
  BY <1>1, <1>2, <1>3 DEF Audit

LEMMA ConsoleOutcome ==
    ASSUME TypeOK, NEW r \in Requests, ConsoleAudit(r)
    PROVE  /\ Stepped(r) /\ Ended(r) /\ pc[r] = "console"
           /\ UNCHANGED <<people, escalationVars, incidentVars, dischargeVars, requests, agenda,
                          clash>>
<1>1. Finish(r)
  BY DEF ConsoleAudit
<1>2. Ended(r)
  BY <1>1, FinishTypes DEF Ended, Finish
<1>3. Stepped(r)
  BY <1>1, FinishTypes DEF Stepped
<1>4. QED
  BY <1>2, <1>3 DEF ConsoleAudit

Decided(r) ==
    \/ Ended(r)
    \/ /\ Allowed(r) /\ pc'[r] = "write" /\ act'[r] = act[r] /\ me'[r] = me[r]
       /\ seen'[r] = Found(r)
       /\ before'[r] = IF act[r].do = "discharge" THEN used ELSE {}

LEMMA DecideOutcome ==
    ASSUME TypeOK, NEW r \in Requests, Decide(r)
    PROVE  /\ Stepped(r) /\ Decided(r) /\ pc[r] = "in"
           /\ UNCHANGED <<people, escalationVars, incidentVars, dischargeVars, events, requests,
                          agenda, clash>>
<1>1. ASSUME Allowed(r) PROVE Stepped(r) /\ Decided(r)
  <2>1. /\ pc' = [pc EXCEPT ![r] = "write"] /\ seen' = [seen EXCEPT ![r] = Found(r)]
        /\ before' = [before EXCEPT ![r] = IF act[r].do = "discharge" THEN used ELSE {}]
        /\ UNCHANGED <<me, act, held, changed>>
    BY <1>1 DEF Decide
  <2>2. Found(r) \subseteq Humans \cup Discharges
    BY GovernanceConstants DEF Found, TypeOK
  <2>3. used \subseteq Discharges
    BY DEF TypeOK
  <2>4. QED
    BY <1>1, <2>1, <2>2, <2>3 DEF TypeOK, Stepped, Decided
<1>2. ASSUME ~ Allowed(r) PROVE Stepped(r) /\ Decided(r)
  <2>1. Finish(r)
    BY <1>2 DEF Decide
  <2>2. Ended(r)
    BY <2>1, FinishTypes DEF Ended, Finish
  <2>3. Stepped(r)
    BY <2>1, FinishTypes DEF Stepped
  <2>4. QED
    BY <2>2, <2>3 DEF Decided
<1>3. QED
  BY <1>1, <1>2 DEF Decide

Resolving(r) ==
    \/ Ended(r) /\ resolved' = resolved
    \/ /\ pc'[r] = "record" /\ act'[r] = act[r] /\ me'[r] = me[r] /\ seen'[r] = seen[r]
       /\ resolved[act[r].of] = None
       /\ resolved' = [resolved EXCEPT ![act[r].of] = me[r]]

LEMMA ResolveOutcome ==
    ASSUME TypeOK, NEW r \in Requests, Resolve(r)
    PROVE  /\ Stepped(r) /\ Resolving(r) /\ pc[r] = "write" /\ act[r].do = "resolve"
           /\ UNCHANGED <<people, escalationVars, filed, accounts, history, dischargeVars, events,
                          requests, agenda, clash>>
<1>1. ASSUME resolved[act[r].of] = None PROVE Stepped(r) /\ Resolving(r)
  <2>1. /\ pc' = [pc EXCEPT ![r] = "record"]
        /\ resolved' = [resolved EXCEPT ![act[r].of] = me[r]]
        /\ UNCHANGED <<me, act, held, seen, changed, before>>
    BY <1>1 DEF Resolve
  <2>2. QED
    BY <1>1, <2>1 DEF TypeOK, Stepped, Resolving
<1>2. ASSUME resolved[act[r].of] # None PROVE Stepped(r) /\ Resolving(r)
  <2>1. Finish(r) /\ resolved' = resolved
    BY <1>2 DEF Resolve
  <2>2. QED
    BY <2>1, FinishTypes DEF Stepped, Ended, Finish, Resolving
<1>3. QED
  BY <1>1, <1>2 DEF Resolve, Writes


LEMMA TypeOKStep ==
    ASSUME TypeOK, Formed, NoFixtureRules, [Next]_vars
    PROVE  TypeOK'
<1>1. ASSUME NEW r \in Requests, NEW h \in Humans, NEW a \in Acts, Arrive(r, h, a) PROVE TypeOK'
  BY <1>1, ActIsOf, GovernanceConstants DEF TypeOK, Arrive, People, RolesOf, people,
     escalationVars, incidentVars, dischargeVars, requestVars, Committed, Finish
<1>2. ASSUME NEW r \in Requests, Decide(r) PROVE TypeOK'
  <2>1. Stepped(r) /\ Decided(r)
        /\ pc[r] = "in" /\ UNCHANGED <<people, escalationVars, incidentVars, dischargeVars, events,
                     requests, agenda, clash>>
    BY <1>2, DecideOutcome
  <2>2. CASE Ended(r)
    BY <2>1, <2>2, ActIsOf, GovernanceConstants DEF TypeOK, people, escalationVars,
       incidentVars, dischargeVars, Stepped
  <2>3. CASE ~ Ended(r)
    BY <2>1, <2>3, ActIsOf, GovernanceConstants DEF TypeOK, people, escalationVars,
       incidentVars, dischargeVars, Stepped
  <2>4. QED
    BY <2>2, <2>3
<1>3. ASSUME NEW r \in Requests, Audit(r) PROVE TypeOK'
  <2>1. Stepped(r) /\ Audited(r)
        /\ pc[r] = "audit" /\ UNCHANGED <<people, escalationVars, incidentVars, dischargeVars,
                     requests, agenda, clash>>
    BY <1>3, AuditOutcome
  <2>2. CASE Ended(r)
    BY <2>1, <2>2, ActIsOf, GovernanceConstants DEF TypeOK, people, escalationVars,
       incidentVars, dischargeVars, Stepped
  <2>3. CASE ~ Ended(r)
    BY <2>1, <2>3, ActIsOf, GovernanceConstants DEF TypeOK, people, escalationVars,
       incidentVars, dischargeVars, Stepped
  <2>4. QED
    BY <2>2, <2>3
<1>4. ASSUME NEW r \in Requests, Die(r) PROVE TypeOK'
  BY <1>4, FinishTypes, ActIsOf, GovernanceConstants DEF TypeOK, Die, people,
     escalationVars, incidentVars, dischargeVars
<1>5. ASSUME NEW r \in Requests, GrantRole(r) PROVE TypeOK'
  BY <1>5, CommittedTypes, ActIsOf, GovernanceConstants DEF TypeOK, Formed, GrantRole,
     Writes, people, escalationVars, incidentVars, dischargeVars, requestVars,
     Committed, Finish
<1>6. ASSUME NEW r \in Requests, RevokeRole(r) PROVE TypeOK'
  BY <1>6, CommittedTypes, ActIsOf, GovernanceConstants DEF TypeOK, Formed, RevokeRole,
     Writes, people, escalationVars, incidentVars, dischargeVars, requestVars,
     Committed, Finish
<1>7. ASSUME NEW r \in Requests, Suspend(r) PROVE TypeOK'
  BY <1>7, CommittedTypes, ActIsOf, GovernanceConstants DEF TypeOK, Suspend, people,
     escalationVars, incidentVars, dischargeVars, requestVars, Committed, Finish
<1>8. ASSUME NEW r \in Requests, Activate(r) PROVE TypeOK'
  BY <1>8, CommittedTypes, ActIsOf, GovernanceConstants DEF TypeOK, Activate, people,
     escalationVars, incidentVars, dischargeVars, requestVars, Committed, Finish
<1>9. ASSUME NEW r \in Requests, SuspendFixtures(r) PROVE TypeOK'
  BY <1>9, CommittedTypes, ActIsOf, GovernanceConstants DEF TypeOK, SuspendFixtures,
     people, escalationVars, incidentVars, dischargeVars, requestVars, Committed, Finish
<1>10. ASSUME NEW r \in Requests, CreateHuman(r) PROVE TypeOK'
  BY <1>10, CommittedTypes, ActIsOf, GovernanceConstants DEF TypeOK, CreateHuman,
     people, escalationVars, incidentVars, dischargeVars, requestVars, Committed, Finish
<1>11. ASSUME NEW r \in Requests, NameRecipient(r) PROVE TypeOK'
  BY <1>11, CommittedTypes, ActIsOf, GovernanceConstants DEF TypeOK, NoFixtureRules,
     NameRecipient, People, Writes, Unanswered, Said, InForce, Event, Found, RolesOf,
     Clashes, Under, people, escalationVars, incidentVars, dischargeVars, requestVars,
     Committed, Finish
<1>12. ASSUME NEW r \in Requests, RecordReceipt(r) PROVE TypeOK'
  BY <1>12, CommittedTypes, ActIsOf, GovernanceConstants DEF TypeOK, RecordReceipt,
     people, escalationVars, incidentVars, dischargeVars, requestVars, Committed, Finish
<1>13. ASSUME NEW r \in Requests, RecordAnswer(r) PROVE TypeOK'
  BY <1>13, CommittedTypes, ActIsOf, GovernanceConstants DEF TypeOK, RecordAnswer,
     Writes, Unanswered, Said, people, escalationVars, incidentVars, dischargeVars,
     requestVars, Committed, Finish
<1>14. ASSUME NEW r \in Requests, FileIncident(r) PROVE TypeOK'
  BY <1>14, CommittedTypes, ActIsOf, GovernanceConstants DEF TypeOK, Formed,
     FileIncident, Writes, people, escalationVars, incidentVars, dischargeVars,
     requestVars, Committed, Finish
<1>15. ASSUME NEW r \in Requests, AppendAccount(r) PROVE TypeOK'
  BY <1>15, CommittedTypes, ActIsOf, GovernanceConstants DEF TypeOK, Formed,
     AppendAccount, Writes, people, escalationVars, incidentVars, dischargeVars,
     requestVars, Committed, Finish
<1>16. ASSUME NEW r \in Requests, Resolve(r) PROVE TypeOK'
  <2>1. Stepped(r) /\ Resolving(r)
        /\ pc[r] = "write" /\ act[r].do = "resolve"
        /\ UNCHANGED <<people, escalationVars, filed, accounts, history, dischargeVars, events,
                     requests, agenda, clash>>
    BY <1>16, ResolveOutcome
  <2>2. CASE Ended(r)
    BY <2>1, <2>2, ActIsOf, GovernanceConstants DEF TypeOK, Formed, People, people,
       escalationVars, incidentVars, dischargeVars, requestVars, Stepped, Ended, Idle,
       Resolving
  <2>3. CASE ~ Ended(r)
    BY <2>1, <2>3, ActIsOf, GovernanceConstants DEF TypeOK, Formed, People, people,
       escalationVars, incidentVars, dischargeVars, requestVars, Stepped, Ended, Resolving
  <2>4. QED
    BY <2>2, <2>3
<1>17. ASSUME NEW r \in Requests, RecordHistory(r) PROVE TypeOK'
  <2>1. act[r].of \in Incidents /\ me[r] \in Humans
    BY <1>17, ActIsOf DEF RecordHistory, Formed
  <2>2. history' \subseteq Incidents \X Humans
    BY <1>17, <2>1 DEF TypeOK, RecordHistory
  <2>3. Committed(r, TRUE)
        /\ UNCHANGED <<people, escalationVars, filed, accounts, resolved, dischargeVars, agenda, clash>>
    BY <1>17 DEF RecordHistory
  <2>4. QED
    BY <2>2, <2>3, CommittedTypes DEF TypeOK, people, escalationVars, dischargeVars
<1>18. ASSUME NEW r \in Requests, Supersede(r) PROVE TypeOK'
  BY <1>18, ActIsOf, GovernanceConstants DEF TypeOK, Supersede, people, escalationVars,
     incidentVars, dischargeVars, requestVars, Committed, Finish
<1>19. ASSUME NEW r \in Requests, NEW d \in Discharges, FileDischarge(r, d) PROVE TypeOK'
  BY <1>19, CommittedTypes, ActIsOf, GovernanceConstants DEF TypeOK, FileDischarge,
     InForce, people, escalationVars, incidentVars, dischargeVars, requestVars,
     Committed, Finish
<1>20. ASSUME NEW e \in Escalations, NEW p \in {"governance", "operational"}, NEW by \in People, RaiseEscalation(e, p, by) PROVE TypeOK'
  BY <1>20, ActIsOf, GovernanceConstants DEF TypeOK, NoFixtureRules, RaiseEscalation,
     people, escalationVars, incidentVars, dischargeVars, requestVars, Committed, Finish
<1>21. CASE UNCHANGED vars
  BY <1>21 DEF TypeOK, Writes, Unanswered, Said, InForce, Event, Found, RolesOf,
     Clashes, Under, vars, people, escalationVars, incidentVars, dischargeVars,
     requestVars
<1>22. ASSUME NEW r \in Requests, ConsoleAudit(r) PROVE TypeOK'
  <2>1. Stepped(r) /\ UNCHANGED <<people, escalationVars, incidentVars, dischargeVars,
                                  requests, agenda, clash>>
    BY <1>22, ConsoleOutcome
  <2>2. QED
    BY <2>1, ActIsOf, GovernanceConstants DEF TypeOK, people, escalationVars,
       incidentVars, dischargeVars, Stepped
<1>23. QED
  BY <1>1, <1>2, <1>3, <1>4, <1>5, <1>6, <1>7, <1>8, <1>9, <1>10, <1>11, <1>12, <1>13,
     <1>14, <1>15, <1>16, <1>17, <1>18, <1>19, <1>20, <1>21, <1>22 DEF Next, Writing

LEMMA FormedStep ==
    ASSUME TypeOK, Formed, [Next]_vars
    PROVE  Formed'
<1>1. ASSUME NEW r \in Requests, NEW h \in Humans, NEW a \in Acts, Arrive(r, h, a) PROVE Formed'
  BY <1>1, ActIsOf DEF TypeOK, Formed, Arrive, requestVars, Committed, Finish
<1>2. ASSUME NEW r \in Requests, Decide(r) PROVE Formed'
  <2>1. Stepped(r) /\ Decided(r)
        /\ pc[r] = "in" /\ UNCHANGED <<people, escalationVars, incidentVars, dischargeVars, events,
                     requests, agenda, clash>>
    BY <1>2, DecideOutcome
  <2>2. CASE Ended(r)
    BY <2>1, <2>2, ActIsOf DEF Formed, Stepped, Ended, Idle
  <2>3. CASE ~ Ended(r)
    BY <2>1, <2>3, ActIsOf DEF TypeOK, Formed, Found, Stepped, Decided
  <2>4. QED
    BY <2>2, <2>3
<1>3. ASSUME NEW r \in Requests, Audit(r) PROVE Formed'
  <2>1. Stepped(r) /\ Audited(r)
        /\ pc[r] = "audit" /\ UNCHANGED <<people, escalationVars, incidentVars, dischargeVars,
                     requests, agenda, clash>>
    BY <1>3, AuditOutcome
  <2>2. CASE Ended(r)
    BY <2>1, <2>2, ActIsOf DEF Formed, Stepped, Ended
  <2>3. CASE ~ Ended(r)
    BY <2>1, <2>3, ActIsOf DEF Formed, Stepped, Audited
  <2>4. QED
    BY <2>2, <2>3
<1>4. ASSUME NEW r \in Requests, Die(r) PROVE Formed'
  BY <1>4, FinishTypes, ActIsOf DEF TypeOK, Formed, Die, requestVars, Committed, Finish
<1>5. ASSUME NEW r \in Requests, GrantRole(r) PROVE Formed'
  BY <1>5, CommittedTypes, ActIsOf DEF Formed, GrantRole, Writes, requestVars,
     Committed, Finish
<1>6. ASSUME NEW r \in Requests, RevokeRole(r) PROVE Formed'
  BY <1>6, CommittedTypes, ActIsOf DEF Formed, RevokeRole, Writes, requestVars,
     Committed, Finish
<1>7. ASSUME NEW r \in Requests, Suspend(r) PROVE Formed'
  BY <1>7, CommittedTypes, ActIsOf DEF Formed, Suspend, Writes, requestVars, Committed,
     Finish
<1>8. ASSUME NEW r \in Requests, Activate(r) PROVE Formed'
  BY <1>8, CommittedTypes, ActIsOf DEF Formed, Activate, Writes, requestVars, Committed,
     Finish
<1>9. ASSUME NEW r \in Requests, SuspendFixtures(r) PROVE Formed'
  BY <1>9, CommittedTypes, ActIsOf DEF Formed, SuspendFixtures, Writes, requestVars,
     Committed, Finish
<1>10. ASSUME NEW r \in Requests, CreateHuman(r) PROVE Formed'
  BY <1>10, CommittedTypes, ActIsOf DEF Formed, CreateHuman, Writes, requestVars,
     Committed, Finish
<1>11. ASSUME NEW r \in Requests, NameRecipient(r) PROVE Formed'
  BY <1>11, CommittedTypes, ActIsOf DEF Formed, NameRecipient, Writes, requestVars,
     Committed, Finish
<1>12. ASSUME NEW r \in Requests, RecordReceipt(r) PROVE Formed'
  BY <1>12, CommittedTypes, ActIsOf DEF Formed, RecordReceipt, Writes, requestVars,
     Committed, Finish
<1>13. ASSUME NEW r \in Requests, RecordAnswer(r) PROVE Formed'
  BY <1>13, CommittedTypes, ActIsOf DEF Formed, RecordAnswer, Writes, requestVars,
     Committed, Finish
<1>14. ASSUME NEW r \in Requests, FileIncident(r) PROVE Formed'
  BY <1>14, CommittedTypes, ActIsOf DEF Formed, FileIncident, Writes, requestVars,
     Committed, Finish
<1>15. ASSUME NEW r \in Requests, AppendAccount(r) PROVE Formed'
  BY <1>15, CommittedTypes, ActIsOf DEF Formed, AppendAccount, Writes, requestVars,
     Committed, Finish
<1>16. ASSUME NEW r \in Requests, Resolve(r) PROVE Formed'
  <2>1. Stepped(r) /\ Resolving(r)
        /\ pc[r] = "write" /\ act[r].do = "resolve"
        /\ UNCHANGED <<people, escalationVars, filed, accounts, history, dischargeVars, events,
                     requests, agenda, clash>>
    BY <1>16, ResolveOutcome
  <2>2. CASE Ended(r)
    BY <2>1, <2>2, ActIsOf DEF Formed, escalationVars, Stepped, Ended, Resolving
  <2>3. CASE ~ Ended(r)
    BY <2>1, <2>3, ActIsOf DEF Formed, Stepped, Resolving
  <2>4. QED
    BY <2>2, <2>3
<1>17. ASSUME NEW r \in Requests, RecordHistory(r) PROVE Formed'
  BY <1>17, CommittedTypes, ActIsOf DEF Formed, RecordHistory, requestVars, Committed,
     Finish
<1>18. ASSUME NEW r \in Requests, Supersede(r) PROVE Formed'
  BY <1>18, ActIsOf DEF Formed, Supersede, Writes, requestVars, Committed, Finish
<1>19. ASSUME NEW r \in Requests, NEW d \in Discharges, FileDischarge(r, d) PROVE Formed'
  BY <1>19, CommittedTypes, ActIsOf DEF Formed, FileDischarge, dischargeVars,
     requestVars, Committed, Finish
<1>20. ASSUME NEW e \in Escalations, NEW p \in {"governance", "operational"}, NEW by \in People, RaiseEscalation(e, p, by) PROVE Formed'
  BY <1>20, ActIsOf DEF Formed, RaiseEscalation, requestVars, Committed, Finish
<1>21. CASE UNCHANGED vars
  BY <1>21 DEF Formed, vars, requestVars
<1>22. ASSUME NEW r \in Requests, ConsoleAudit(r) PROVE Formed'
  BY <1>22, ConsoleOutcome, ActIsOf DEF Formed, Stepped, Ended
<1>23. QED
  BY <1>1, <1>2, <1>3, <1>4, <1>5, <1>6, <1>7, <1>8, <1>9, <1>10, <1>11, <1>12, <1>13,
     <1>14, <1>15, <1>16, <1>17, <1>18, <1>19, <1>20, <1>21, <1>22 DEF Next, Writing

LEMMA NoFixtureRulesStep ==
    ASSUME TypeOK, Formed, NoFixtureRules, [Next]_vars
    PROVE  NoFixtureRules'
<1>1. ASSUME NEW r \in Requests, NEW h \in Humans, NEW a \in Acts, Arrive(r, h, a) PROVE NoFixtureRules'
  BY <1>1, ActIsOf, GovernanceConstants DEF NoFixtureRules, Arrive, Under, people,
     requestVars, Committed, Finish
<1>2. ASSUME NEW r \in Requests, Decide(r) PROVE NoFixtureRules'
  <2>1. Stepped(r) /\ Decided(r)
        /\ pc[r] = "in" /\ UNCHANGED <<people, escalationVars, incidentVars, dischargeVars, events,
                     requests, agenda, clash>>
    BY <1>2, DecideOutcome
  <2>2. CASE Ended(r)
    BY <2>1, <2>2, ActIsOf, GovernanceConstants DEF NoFixtureRules, Under, people,
       Stepped, Ended
  <2>3. CASE ~ Ended(r)
    <3>1. Allowed(r) /\ act'[r] = act[r] /\ status' = status /\ roles' = roles
      BY <2>1, <2>3 DEF Decided, people
    <3>2. CASE act[r].do = "grant"
      <4>1. MaySetRole(r)
        BY <3>1, <3>2 DEF Allowed, MaySetStatus, MayCreate, MaySuspendFixtures, MayName,
           MayReceive, MayAnswer, MayFile, MayAccount, MayResolve, MayDischarge
      <4>2. act[r].what = IVAN => act[r].of \notin Fixtures
        BY <3>2, <4>1 DEF MaySetRole
      <4>3. QED
        BY <2>1, <3>1, <3>2, <4>2 DEF NoFixtureRules, Under, Stepped
    <3>3. CASE act[r].do = "create"
      <4>1. MayCreate(r)
        BY <3>1, <3>3 DEF Allowed, MaySetRole, MaySetStatus, MaySuspendFixtures, MayName,
           MayReceive, MayAnswer, MayFile, MayAccount, MayResolve, MayDischarge
      <4>2. act[r].of \notin Fixtures
        BY <4>1 DEF MayCreate, NoFixtureRules
      <4>3. QED
        BY <2>1, <3>1, <3>3, <4>2 DEF NoFixtureRules, Under, Stepped
    <3>4. CASE act[r].do = "name"
      <4>1. MayName(r)
        BY <3>1, <3>4 DEF Allowed, MaySetRole, MaySetStatus, MayCreate, MaySuspendFixtures,
           MayReceive, MayAnswer, MayFile, MayAccount, MayResolve, MayDischarge
      <4>2. act[r].of \notin Fixtures
        BY <4>1, GovernanceConstants DEF MayName, IsNamed
      <4>3. QED
        BY <2>1, <3>1, <3>4, <4>2 DEF NoFixtureRules, Under, Stepped
    <3>5. act[r].do # "endow"
      BY <3>1 DEF Allowed, MaySetRole, MaySetStatus, MayCreate, MaySuspendFixtures, MayName,
         MayReceive, MayAnswer, MayFile, MayAccount, MayResolve, MayDischarge
    <3>6. CASE act[r].do \notin {"grant", "create", "name"}
      BY <2>1, <3>1, <3>5, <3>6 DEF NoFixtureRules, Under, Stepped
    <3>7. QED
      BY <3>2, <3>3, <3>4, <3>6
  <2>4. QED
    BY <2>2, <2>3
<1>3. ASSUME NEW r \in Requests, Audit(r) PROVE NoFixtureRules'
  <2>1. Stepped(r) /\ Audited(r)
        /\ pc[r] = "audit" /\ UNCHANGED <<people, escalationVars, incidentVars, dischargeVars,
                     requests, agenda, clash>>
    BY <1>3, AuditOutcome
  <2>2. CASE Ended(r)
    BY <2>1, <2>2, ActIsOf, GovernanceConstants DEF NoFixtureRules, Under, people,
       Stepped, Ended
  <2>3. CASE ~ Ended(r)
    BY <2>1, <2>3, ActIsOf, GovernanceConstants DEF Formed, NoFixtureRules, Under,
       people, incidentVars, Stepped, Audited
  <2>4. QED
    BY <2>2, <2>3
<1>4. ASSUME NEW r \in Requests, Die(r) PROVE NoFixtureRules'
  BY <1>4, FinishTypes, ActIsOf, GovernanceConstants DEF NoFixtureRules, Die, Under,
     people
<1>5. ASSUME NEW r \in Requests, GrantRole(r) PROVE NoFixtureRules'
  BY <1>5, CommittedTypes, ActIsOf, GovernanceConstants DEF NoFixtureRules, GrantRole,
     Under, Writes, requestVars, Committed, Finish
<1>6. ASSUME NEW r \in Requests, RevokeRole(r) PROVE NoFixtureRules'
  BY <1>6, CommittedTypes, ActIsOf, GovernanceConstants DEF NoFixtureRules, RevokeRole,
     Under, Writes, requestVars, Committed, Finish
<1>7. ASSUME NEW r \in Requests, Suspend(r) PROVE NoFixtureRules'
  BY <1>7, CommittedTypes, ActIsOf, GovernanceConstants DEF NoFixtureRules, Suspend,
     Under, Writes, requestVars, Committed, Finish
<1>8. ASSUME NEW r \in Requests, Activate(r) PROVE NoFixtureRules'
  BY <1>8, CommittedTypes, ActIsOf, GovernanceConstants DEF NoFixtureRules, Activate,
     Under, Writes, requestVars, Committed, Finish
<1>9. ASSUME NEW r \in Requests, SuspendFixtures(r) PROVE NoFixtureRules'
  BY <1>9, CommittedTypes, ActIsOf, GovernanceConstants DEF NoFixtureRules,
     SuspendFixtures, Under, Writes, requestVars, Committed, Finish
<1>10. ASSUME NEW r \in Requests, CreateHuman(r) PROVE NoFixtureRules'
  BY <1>10, CommittedTypes, ActIsOf, GovernanceConstants DEF NoFixtureRules,
     CreateHuman, Under, Writes, requestVars, Committed, Finish
<1>11. ASSUME NEW r \in Requests, NameRecipient(r) PROVE NoFixtureRules'
  BY <1>11, CommittedTypes, ActIsOf, GovernanceConstants DEF NoFixtureRules,
     NameRecipient, Under, Writes, people, requestVars, Committed, Finish
<1>12. ASSUME NEW r \in Requests, RecordReceipt(r) PROVE NoFixtureRules'
  BY <1>12, CommittedTypes, ActIsOf, GovernanceConstants DEF NoFixtureRules,
     RecordReceipt, Under, Writes, people, requestVars, Committed, Finish
<1>13. ASSUME NEW r \in Requests, RecordAnswer(r) PROVE NoFixtureRules'
  BY <1>13, CommittedTypes, ActIsOf, GovernanceConstants DEF NoFixtureRules,
     RecordAnswer, Under, Writes, people, requestVars, Committed, Finish
<1>14. ASSUME NEW r \in Requests, FileIncident(r) PROVE NoFixtureRules'
  BY <1>14, CommittedTypes, ActIsOf, GovernanceConstants DEF NoFixtureRules,
     FileIncident, Under, Writes, people, requestVars, Committed, Finish
<1>15. ASSUME NEW r \in Requests, AppendAccount(r) PROVE NoFixtureRules'
  BY <1>15, CommittedTypes, ActIsOf, GovernanceConstants DEF NoFixtureRules,
     AppendAccount, Under, Writes, people, requestVars, Committed, Finish
<1>16. ASSUME NEW r \in Requests, Resolve(r) PROVE NoFixtureRules'
  <2>1. Stepped(r) /\ Resolving(r)
        /\ pc[r] = "write" /\ act[r].do = "resolve"
        /\ UNCHANGED <<people, escalationVars, filed, accounts, history, dischargeVars, events,
                     requests, agenda, clash>>
    BY <1>16, ResolveOutcome
  <2>2. CASE Ended(r)
    BY <2>1, <2>2, ActIsOf, GovernanceConstants DEF NoFixtureRules, Under, people,
       Stepped, Ended
  <2>3. CASE ~ Ended(r)
    BY <2>1, <2>3, ActIsOf, GovernanceConstants DEF NoFixtureRules, Under, people,
       Stepped, Resolving
  <2>4. QED
    BY <2>2, <2>3
<1>17. ASSUME NEW r \in Requests, RecordHistory(r) PROVE NoFixtureRules'
  BY <1>17, CommittedTypes, ActIsOf, GovernanceConstants DEF NoFixtureRules,
     RecordHistory, Under, people, requestVars, Committed, Finish
<1>18. ASSUME NEW r \in Requests, Supersede(r) PROVE NoFixtureRules'
  BY <1>18, ActIsOf, GovernanceConstants DEF NoFixtureRules, Supersede, Under, Writes,
     people, requestVars, Committed, Finish
<1>19. ASSUME NEW r \in Requests, NEW d \in Discharges, FileDischarge(r, d) PROVE NoFixtureRules'
  BY <1>19, CommittedTypes, ActIsOf, GovernanceConstants DEF NoFixtureRules,
     FileDischarge, Under, people, dischargeVars, requestVars, Committed, Finish
<1>20. ASSUME NEW e \in Escalations, NEW p \in {"governance", "operational"}, NEW by \in People, RaiseEscalation(e, p, by) PROVE NoFixtureRules'
  BY <1>20, ActIsOf, GovernanceConstants DEF NoFixtureRules, RaiseEscalation, Under,
     people, requestVars, Committed, Finish
<1>21. CASE UNCHANGED vars
  BY <1>21 DEF NoFixtureRules, Under, vars, people, requestVars
<1>22. ASSUME NEW r \in Requests, ConsoleAudit(r) PROVE NoFixtureRules'
  <2>1. Stepped(r) /\ Ended(r) /\ UNCHANGED people
    BY <1>22, ConsoleOutcome
  <2>2. QED
    BY <2>1, ActIsOf, GovernanceConstants DEF NoFixtureRules, Under, people, Stepped, Ended
<1>23. QED
  BY <1>1, <1>2, <1>3, <1>4, <1>5, <1>6, <1>7, <1>8, <1>9, <1>10, <1>11, <1>12, <1>13,
     <1>14, <1>15, <1>16, <1>17, <1>18, <1>19, <1>20, <1>21, <1>22 DEF Next, Writing

LEMMA RoutedStep ==
    ASSUME TypeOK, Formed, NoFixtureRules, Routed, [Next]_vars
    PROVE  Routed'
<1>1. ASSUME NEW r \in Requests, NEW h \in Humans, NEW a \in Acts, Arrive(r, h, a) PROVE Routed'
  BY <1>1, ActIsOf, GovernanceConstants DEF Routed, Arrive, Under, escalationVars,
     requestVars, Committed, Finish
<1>2. ASSUME NEW r \in Requests, Decide(r) PROVE Routed'
  <2>1. Stepped(r) /\ Decided(r)
        /\ pc[r] = "in" /\ UNCHANGED <<people, escalationVars, incidentVars, dischargeVars, events,
                     requests, agenda, clash>>
    BY <1>2, DecideOutcome
  <2>2. CASE Ended(r)
    BY <2>1, <2>2, ActIsOf, GovernanceConstants DEF NoFixtureRules, Routed, Under,
       people, escalationVars, incidentVars, Stepped, Ended
  <2>3. CASE ~ Ended(r)
    <3>1. Allowed(r) /\ pc'[r] = "write" /\ act'[r] = act[r] /\ me'[r] = me[r]
      BY <2>1, <2>3 DEF Decided
    <3>2. act[r].do = "receive" => OnlyTheRouted(r, act[r].of)
      BY <3>1 DEF Allowed, MaySetRole, MaySetStatus, MayCreate, MaySuspendFixtures, MayName,
         MayReceive, MayAnswer, MayFile, MayAccount, MayResolve, MayDischarge
    <3>3. act[r].do = "answer" => OnlyTheRouted(r, act[r].of) /\ received[act[r].of] # None
      BY <3>1 DEF Allowed, MaySetRole, MaySetStatus, MayCreate, MaySuspendFixtures, MayName,
         MayReceive, MayAnswer, MayFile, MayAccount, MayResolve, MayDischarge
    <3>4. QED
      BY <2>1, <3>1, <3>2, <3>3 DEF Routed, Under, OnlyTheRouted, escalationVars, Stepped
  <2>4. QED
    BY <2>2, <2>3
<1>3. ASSUME NEW r \in Requests, Audit(r) PROVE Routed'
  <2>1. Stepped(r) /\ Audited(r)
        /\ pc[r] = "audit" /\ UNCHANGED <<people, escalationVars, incidentVars, dischargeVars,
                     requests, agenda, clash>>
    BY <1>3, AuditOutcome
  <2>2. UNCHANGED <<path, to, received, answer>>
    BY <2>1 DEF escalationVars
  <2>3. ASSUME NEW q \in Requests, Under(q)', act'[q].do \in {"receive", "answer"}
        PROVE  q # r /\ Under(q) /\ act'[q] = act[q] /\ me'[q] = me[q]
    BY <2>1, <2>3 DEF Stepped, Audited, Ended, Under
  <2>4. QED
    BY <2>2, <2>3 DEF Routed
<1>4. ASSUME NEW r \in Requests, Die(r) PROVE Routed'
  BY <1>4, FinishTypes, ActIsOf, GovernanceConstants DEF Formed, Routed, Die, Under,
     people, escalationVars
<1>5. ASSUME NEW r \in Requests, GrantRole(r) PROVE Routed'
  BY <1>5, CommittedTypes, ActIsOf, GovernanceConstants DEF Routed, GrantRole, Under,
     Writes, escalationVars, requestVars, Committed, Finish
<1>6. ASSUME NEW r \in Requests, RevokeRole(r) PROVE Routed'
  BY <1>6, CommittedTypes, ActIsOf, GovernanceConstants DEF Routed, RevokeRole, Under,
     Writes, escalationVars, requestVars, Committed, Finish
<1>7. ASSUME NEW r \in Requests, Suspend(r) PROVE Routed'
  BY <1>7, CommittedTypes, ActIsOf, GovernanceConstants DEF Routed, Suspend, Under,
     Writes, escalationVars, requestVars, Committed, Finish
<1>8. ASSUME NEW r \in Requests, Activate(r) PROVE Routed'
  BY <1>8, CommittedTypes, ActIsOf, GovernanceConstants DEF Routed, Activate, Under,
     Writes, escalationVars, requestVars, Committed, Finish
<1>9. ASSUME NEW r \in Requests, SuspendFixtures(r) PROVE Routed'
  BY <1>9, CommittedTypes, ActIsOf, GovernanceConstants DEF Routed, SuspendFixtures,
     Under, Writes, escalationVars, requestVars, Committed, Finish
<1>10. ASSUME NEW r \in Requests, CreateHuman(r) PROVE Routed'
  BY <1>10, CommittedTypes, ActIsOf, GovernanceConstants DEF Routed, CreateHuman, Under,
     Writes, escalationVars, requestVars, Committed, Finish
<1>11. ASSUME NEW r \in Requests, NameRecipient(r) PROVE Routed'
  BY <1>11, CommittedTypes, ActIsOf, GovernanceConstants DEF Routed, NameRecipient,
     Under, Writes, requestVars, Committed, Finish
<1>12. ASSUME NEW r \in Requests, RecordReceipt(r) PROVE Routed'
  <2> DEFINE e == act[r].of
             did == received[e] = None
  <2>1. Committed(r, did) /\ did \in BOOLEAN
        /\ UNCHANGED <<people, recipient, path, raiser, to, answer>>
        /\ received' = [received EXCEPT ![e] = IF @ = None THEN me[r] ELSE @]
    BY <1>12 DEF RecordReceipt
  <2>2. act[r].do = "receive" /\ Under(r) /\ e \in Escalations
    BY <1>12, ActIsOf DEF RecordReceipt, Writes, Under
  <2> HIDE DEF did
  <2>3. me' = me /\ act' = act /\ pc'[r] = "audit"
        /\ \A q \in Requests \ {r} : pc'[q] = pc[q]
    BY <2>1, CommittedTypes
  <2>4. \A q \in Requests : Under(q)' => Under(q)
    BY <2>2, <2>3 DEF Under
  <2>5. me[r] = to[e]
    BY <2>2 DEF Routed
  <2>6. /\ \A f \in Escalations \ {e} : received'[f] = received[f]
        /\ received'[e] = IF received[e] = None THEN me[r] ELSE received[e]
    BY <2>1, <2>2 DEF TypeOK
  <2> HIDE DEF e
  <2>7. \A f \in Escalations :
            /\ path'[f] = "unraised" => to'[f] = None
            /\ received'[f] # None => received'[f] = to'[f]
            /\ answer'[f] # None => received'[f] # None
    BY <2>1, <2>5, <2>6 DEF Routed
  <2>8. \A f \in Escalations : received[f] # None => received'[f] # None
    BY <2>6
  <2>9. ASSUME NEW q \in Requests, Under(q)'
        PROVE  /\ act'[q].do \in {"receive", "answer"} => me'[q] = to'[act'[q].of]
               /\ act'[q].do = "answer" => received'[act'[q].of] # None
    BY <2>1, <2>3, <2>4, <2>8, <2>9, ActIsOf DEF Routed
  <2>10. QED
    BY <2>7, <2>9 DEF Routed
<1>13. ASSUME NEW r \in Requests, RecordAnswer(r) PROVE Routed'
  BY <1>13, CommittedTypes, ActIsOf, GovernanceConstants DEF Routed, RecordAnswer,
     Under, Writes, requestVars, Committed, Finish
<1>14. ASSUME NEW r \in Requests, FileIncident(r) PROVE Routed'
  BY <1>14, CommittedTypes, ActIsOf, GovernanceConstants DEF Routed, FileIncident,
     Under, Writes, escalationVars, requestVars, Committed, Finish
<1>15. ASSUME NEW r \in Requests, AppendAccount(r) PROVE Routed'
  BY <1>15, CommittedTypes, ActIsOf, GovernanceConstants DEF Routed, AppendAccount,
     Under, Writes, escalationVars, requestVars, Committed, Finish
<1>16. ASSUME NEW r \in Requests, Resolve(r) PROVE Routed'
  <2>1. Stepped(r) /\ Resolving(r)
        /\ pc[r] = "write" /\ act[r].do = "resolve"
        /\ UNCHANGED <<people, escalationVars, filed, accounts, history, dischargeVars, events,
                     requests, agenda, clash>>
    BY <1>16, ResolveOutcome
  <2>2. CASE Ended(r)
    BY <2>1, <2>2, ActIsOf, GovernanceConstants DEF NoFixtureRules, Routed, Under,
       escalationVars, Stepped, Ended
  <2>3. CASE ~ Ended(r)
    BY <2>1, <2>3, ActIsOf, GovernanceConstants DEF Formed, NoFixtureRules, Routed,
       Under, escalationVars, Stepped, Resolving
  <2>4. QED
    BY <2>2, <2>3
<1>17. ASSUME NEW r \in Requests, RecordHistory(r) PROVE Routed'
  BY <1>17, CommittedTypes, ActIsOf, GovernanceConstants DEF Routed, RecordHistory,
     Under, escalationVars, requestVars, Committed, Finish
<1>18. ASSUME NEW r \in Requests, Supersede(r) PROVE Routed'
  BY <1>18, ActIsOf, GovernanceConstants DEF Routed, Supersede, Under, Writes,
     escalationVars, requestVars, Committed, Finish
<1>19. ASSUME NEW r \in Requests, NEW d \in Discharges, FileDischarge(r, d) PROVE Routed'
  BY <1>19, CommittedTypes, ActIsOf, GovernanceConstants DEF Routed, FileDischarge,
     Under, escalationVars, dischargeVars, requestVars, Committed, Finish
<1>20. ASSUME NEW e \in Escalations, NEW p \in {"governance", "operational"}, NEW by \in People, RaiseEscalation(e, p, by) PROVE Routed'
  BY <1>20, ActIsOf, GovernanceConstants DEF TypeOK, Formed, Routed, RaiseEscalation,
     Under, requestVars, Committed, Finish
<1>21. CASE UNCHANGED vars
  BY <1>21 DEF Routed, Under, vars, escalationVars, requestVars
<1>22. ASSUME NEW r \in Requests, ConsoleAudit(r) PROVE Routed'
  <2>1. Stepped(r) /\ Ended(r) /\ UNCHANGED <<path, to, received, answer>>
    BY <1>22, ConsoleOutcome DEF escalationVars
  <2>2. ASSUME NEW q \in Requests, Under(q)'
        PROVE  q # r /\ Under(q) /\ act'[q] = act[q] /\ me'[q] = me[q]
    BY <2>1, <2>2 DEF Stepped, Ended, Under
  <2>3. QED
    BY <2>1, <2>2 DEF Routed
<1>23. QED
  BY <1>1, <1>2, <1>3, <1>4, <1>5, <1>6, <1>7, <1>8, <1>9, <1>10, <1>11, <1>12, <1>13,
     <1>14, <1>15, <1>16, <1>17, <1>18, <1>19, <1>20, <1>21, <1>22 DEF Next, Writing

LEMMA Found_Step ==
    ASSUME TypeOK, Formed, Found_, [Next]_vars
    PROVE  Found_'
<1>1. ASSUME NEW r \in Requests, NEW h \in Humans, NEW a \in Acts, Arrive(r, h, a) PROVE Found_'
  BY <1>1, ActIsOf DEF Found_, Arrive, dischargeVars, requestVars, Committed, Finish
<1>2. ASSUME NEW r \in Requests, Decide(r) PROVE Found_'
  <2>1. Stepped(r) /\ Decided(r)
        /\ pc[r] = "in" /\ UNCHANGED <<people, escalationVars, incidentVars, dischargeVars, events,
                     requests, agenda, clash>>
    BY <1>2, DecideOutcome
  <2>2. CASE Ended(r)
    BY <2>1, <2>2, ActIsOf DEF Found_, dischargeVars, Stepped, Ended
  <2>3. CASE ~ Ended(r)
    BY <2>1, <2>3, ActIsOf DEF Formed, Found_, Found, dischargeVars, Stepped, Ended,
       Decided
  <2>4. QED
    BY <2>2, <2>3
<1>3. ASSUME NEW r \in Requests, Audit(r) PROVE Found_'
  <2>1. Stepped(r) /\ Audited(r)
        /\ pc[r] = "audit" /\ UNCHANGED <<people, escalationVars, incidentVars, dischargeVars,
                     requests, agenda, clash>>
    BY <1>3, AuditOutcome
  <2>2. CASE Ended(r)
    BY <2>1, <2>2, ActIsOf DEF Found_, dischargeVars, Stepped, Ended
  <2>3. CASE ~ Ended(r)
    BY <2>1, <2>3, ActIsOf DEF Found_, dischargeVars, Stepped, Audited
  <2>4. QED
    BY <2>2, <2>3
<1>4. ASSUME NEW r \in Requests, Die(r) PROVE Found_'
  BY <1>4, FinishTypes, ActIsOf DEF Found_, Die, dischargeVars
<1>5. ASSUME NEW r \in Requests, GrantRole(r) PROVE Found_'
  BY <1>5, CommittedTypes, ActIsOf DEF Found_, GrantRole, dischargeVars, Finish
<1>6. ASSUME NEW r \in Requests, RevokeRole(r) PROVE Found_'
  <2> DEFINE did == <<act[r].of, act[r].what>> \in roles
  <2>1. Committed(r, did) /\ did \in BOOLEAN /\ UNCHANGED dischargeVars
    BY <1>6 DEF RevokeRole
  <2> HIDE DEF did
  <2>2. QED
    BY <2>1, CommittedTypes DEF Found_, dischargeVars
<1>7. ASSUME NEW r \in Requests, Suspend(r) PROVE Found_'
  BY <1>7, CommittedTypes, ActIsOf DEF Found_, Suspend, dischargeVars, Finish
<1>8. ASSUME NEW r \in Requests, Activate(r) PROVE Found_'
  BY <1>8, CommittedTypes, ActIsOf DEF Found_, Activate, dischargeVars, Finish
<1>9. ASSUME NEW r \in Requests, SuspendFixtures(r) PROVE Found_'
  BY <1>9, CommittedTypes, ActIsOf DEF Found_, SuspendFixtures, dischargeVars, Finish
<1>10. ASSUME NEW r \in Requests, CreateHuman(r) PROVE Found_'
  BY <1>10, CommittedTypes, ActIsOf DEF TypeOK, Found_, CreateHuman, dischargeVars,
     requestVars, Committed, Finish
<1>11. ASSUME NEW r \in Requests, NameRecipient(r) PROVE Found_'
  BY <1>11, CommittedTypes, ActIsOf DEF Found_, NameRecipient, dischargeVars, Finish
<1>12. ASSUME NEW r \in Requests, RecordReceipt(r) PROVE Found_'
  BY <1>12, CommittedTypes, ActIsOf DEF Found_, RecordReceipt, dischargeVars, Finish
<1>13. ASSUME NEW r \in Requests, RecordAnswer(r) PROVE Found_'
  BY <1>13, CommittedTypes, ActIsOf DEF TypeOK, Found_, RecordAnswer, dischargeVars,
     requestVars, Committed, Finish
<1>14. ASSUME NEW r \in Requests, FileIncident(r) PROVE Found_'
  BY <1>14, CommittedTypes, ActIsOf DEF Found_, FileIncident, dischargeVars, Finish
<1>15. ASSUME NEW r \in Requests, AppendAccount(r) PROVE Found_'
  BY <1>15, CommittedTypes, ActIsOf DEF Found_, AppendAccount, dischargeVars, Finish
<1>16. ASSUME NEW r \in Requests, Resolve(r) PROVE Found_'
  <2>1. Stepped(r) /\ Resolving(r)
        /\ pc[r] = "write" /\ act[r].do = "resolve"
        /\ UNCHANGED <<people, escalationVars, filed, accounts, history, dischargeVars, events,
                     requests, agenda, clash>>
    BY <1>16, ResolveOutcome
  <2>2. CASE Ended(r)
    BY <2>1, <2>2, ActIsOf DEF Found_, dischargeVars, Stepped, Ended
  <2>3. CASE ~ Ended(r)
    BY <2>1, <2>3, ActIsOf DEF Found_, dischargeVars, Stepped, Resolving
  <2>4. QED
    BY <2>2, <2>3
<1>17. ASSUME NEW r \in Requests, RecordHistory(r) PROVE Found_'
  BY <1>17, CommittedTypes, ActIsOf DEF Found_, RecordHistory, incidentVars,
     dischargeVars, requestVars, Committed, Finish
<1>18. ASSUME NEW r \in Requests, Supersede(r) PROVE Found_'
  BY <1>18, ActIsOf DEF Found_, Supersede, Writes, dischargeVars, requestVars,
     Committed, Finish
<1>19. ASSUME NEW r \in Requests, NEW d \in Discharges, FileDischarge(r, d) PROVE Found_'
  BY <1>19, CommittedTypes, ActIsOf DEF TypeOK, Formed, Found_, FileDischarge, InForce,
     dischargeVars, requestVars, Committed, Finish
<1>20. ASSUME NEW e \in Escalations, NEW p \in {"governance", "operational"}, NEW by \in People, RaiseEscalation(e, p, by) PROVE Found_'
  BY <1>20, ActIsOf DEF Found_, RaiseEscalation, dischargeVars, requestVars, Committed,
     Finish
<1>21. CASE UNCHANGED vars
  BY <1>21 DEF Found_, vars, dischargeVars, requestVars
<1>22. ASSUME NEW r \in Requests, ConsoleAudit(r) PROVE Found_'
  BY <1>22, ConsoleOutcome, ActIsOf DEF Found_, dischargeVars, Stepped, Ended
<1>23. QED
  BY <1>1, <1>2, <1>3, <1>4, <1>5, <1>6, <1>7, <1>8, <1>9, <1>10, <1>11, <1>12, <1>13,
     <1>14, <1>15, <1>16, <1>17, <1>18, <1>19, <1>20, <1>21, <1>22 DEF Next, Writing

-----------------------------------------------------------------------------
(* Somebody remains.                                                       *)

StillRemoving == \A q \in Requests : Removal(q)' => Removal(q) /\ act'[q] = act[q]

\* A step that removes no administrator and decides on no removal.
LEMMA Keeps ==
    ASSUME Remaining, StillRemoving, UNCHANGED clash, Administrators \subseteq Administrators'
    PROVE  Remaining'
BY DEF Remaining, StillRemoving

LEMMA CommittedRemoves ==
    ASSUME TypeOK, NEW r \in Requests, NEW did \in BOOLEAN, Committed(r, did)
    PROVE  StillRemoving /\ ~ Removal(r)'
BY CommittedTypes DEF StillRemoving, Removal

LEMMA EndedRemoves ==
    ASSUME TypeOK, NEW r \in Requests, Stepped(r), Ended(r)
    PROVE  StillRemoving
BY DEF StillRemoving, Removal, Stepped, Ended

LEMMA SameAdministrators ==
    ASSUME UNCHANGED people
    PROVE  Administrators' = Administrators
BY DEF people, Administrators

\* A removal that was decided on alone leaves somebody; one that was not is a
\* clash.
LEMMA Removes ==
    ASSUME TypeOK, Remaining, NEW r \in Requests, Removal(r), StillRemoving, ~ Removal(r)',
           Administrators' = Administrators \ {act[r].of}, clash' = (clash \/ Clashes(r))
    PROVE  Remaining'
<1>1. CASE clash \/ Clashes(r)
  BY <1>1 DEF Remaining
<1>2. CASE ~ clash /\ act[r].of \notin Administrators
  <2>1. UNCHANGED clash
    BY <1>2 DEF Clashes, TypeOK
  <2>2. Administrators' = Administrators
    BY <1>2
  <2>3. QED
    BY <2>1, <2>2, Keeps
<1>3. CASE ~ clash /\ act[r].of \in Administrators /\ ~ Clashes(r)
  <2>1. \A q \in Requests : ~ Removal(q)'
    BY <1>3 DEF Clashes, StillRemoving
  <2>2. Administrators' # {}
    BY <1>3 DEF Remaining
  <2>3. QED
    BY <2>1, <2>2 DEF Remaining
<1>4. QED
  BY <1>1, <1>2, <1>3

LEMMA RemainingStep ==
    ASSUME TypeOK, Formed, NoFixtureRules, Remaining, [Next]_vars
    PROVE  Remaining'
<1>1. ASSUME NEW r \in Requests, NEW h \in Humans, NEW a \in Acts, Arrive(r, h, a) PROVE Remaining'
  <2>1. StillRemoving /\ UNCHANGED <<people, clash>>
    BY <1>1 DEF StillRemoving, Removal, Arrive, requestVars
  <2>2. QED
    BY <2>1, SameAdministrators, Keeps
<1>2. ASSUME NEW r \in Requests, Decide(r) PROVE Remaining'
  <2>1. Stepped(r) /\ Decided(r) /\ UNCHANGED <<people, clash>>
    BY <1>2, DecideOutcome
  <2>2. CASE Ended(r)
    BY <2>1, <2>2, EndedRemoves, SameAdministrators, Keeps
  <2>3. CASE clash
    BY <2>1, <2>3 DEF Remaining
  <2>4. CASE ~ Ended(r) /\ ~ clash
    <3>1. Allowed(r) /\ act'[r] = act[r]
      BY <2>1, <2>4 DEF Decided
    <3>2. ASSUME Removal(r)' PROVE NotTheLast(act[r].of)
      BY <3>1, <3>2 DEF Removal, Allowed, MaySetRole, MaySetStatus, MayCreate,
         MaySuspendFixtures, MayName, MayReceive, MayAnswer, MayFile, MayAccount,
         MayResolve, MayDischarge
    <3>3. ASSUME Removal(r)' PROVE Administrators \ {act[r].of} # {}
      BY <2>4, <3>2, <3>3 DEF NotTheLast, Remaining, Administrators
    <3>4. ASSUME NEW q \in Requests \ {r}, Removal(q)' PROVE Removal(q) /\ act'[q] = act[q]
      BY <2>1, <3>4 DEF Stepped, Removal
    <3>5. Administrators' = Administrators
      BY <2>1, SameAdministrators
    <3>6. QED
      BY <2>1, <2>4, <3>1, <3>3, <3>4, <3>5 DEF Remaining
  <2>5. QED
    BY <2>2, <2>3, <2>4
<1>3. ASSUME NEW r \in Requests, Audit(r) PROVE Remaining'
  <2>1. Stepped(r) /\ Audited(r) /\ UNCHANGED <<people, clash>>
    BY <1>3, AuditOutcome
  <2>2. StillRemoving
    BY <2>1, EndedRemoves DEF StillRemoving, Removal, Stepped, Audited
  <2>3. QED
    BY <2>1, <2>2, SameAdministrators, Keeps
<1>4. ASSUME NEW r \in Requests, Die(r) PROVE Remaining'
  <2>1. StillRemoving /\ UNCHANGED <<people, clash>>
    BY <1>4, FinishTypes DEF StillRemoving, Removal, Die
  <2>2. QED
    BY <2>1, SameAdministrators, Keeps
<1>5. ASSUME NEW r \in Requests, GrantRole(r) PROVE Remaining'
  <2>1. Committed(r, <<act[r].of, act[r].what>> \notin roles) /\ (<<act[r].of, act[r].what>> \notin roles) \in BOOLEAN /\ UNCHANGED clash
    BY <1>5 DEF GrantRole, Said, Unanswered
  <2>2. Administrators \subseteq Administrators'
    BY <1>5, ActIsOf, GovernanceConstants DEF GrantRole, Administrators, people
  <2>3. QED
    BY <2>1, <2>2, CommittedRemoves, Keeps
<1>6. ASSUME NEW r \in Requests, RevokeRole(r) PROVE Remaining'
  <2>1. Committed(r, <<act[r].of, act[r].what>> \in roles) /\ (<<act[r].of, act[r].what>> \in roles) \in BOOLEAN
    BY <1>6 DEF RevokeRole
  <2>2. StillRemoving /\ ~ Removal(r)'
    BY <2>1, CommittedRemoves
  <2>3. CASE act[r].what = IVAN
    <3>1. Removal(r) /\ clash' = (clash \/ Clashes(r))
      BY <1>6, <2>3 DEF RevokeRole, Removal, Writes
    <3>2. Administrators' = Administrators \ {act[r].of}
      BY <1>6, <2>3 DEF RevokeRole, Administrators
    <3>3. QED
      BY <2>2, <3>1, <3>2, Removes
  <2>4. CASE act[r].what # IVAN
    <3>1. UNCHANGED clash
      BY <1>6, <2>4 DEF RevokeRole, TypeOK
    <3>2. Administrators' = Administrators
      BY <1>6, <2>4 DEF RevokeRole, Administrators
    <3>3. QED
      BY <2>2, <3>1, <3>2, Keeps
  <2>5. QED
    BY <2>3, <2>4
<1>7. ASSUME NEW r \in Requests, Suspend(r) PROVE Remaining'
  <2>1. StillRemoving /\ ~ Removal(r)'
    BY <1>7, CommittedRemoves DEF Suspend
  <2>2. Removal(r) /\ clash' = (clash \/ Clashes(r))
    BY <1>7 DEF Suspend, Removal, Writes
  <2>3. Administrators' = Administrators \ {act[r].of}
    BY <1>7 DEF Suspend, Administrators, TypeOK
  <2>4. QED
    BY <2>1, <2>2, <2>3, Removes
<1>8. ASSUME NEW r \in Requests, Activate(r) PROVE Remaining'
  <2>1. Committed(r, TRUE) /\ (TRUE) \in BOOLEAN /\ UNCHANGED clash
    BY <1>8 DEF Activate, Said, Unanswered
  <2>2. Administrators \subseteq Administrators'
    BY <1>8, ActIsOf, GovernanceConstants DEF Activate, Administrators, people
  <2>3. QED
    BY <2>1, <2>2, CommittedRemoves, Keeps
<1>9. ASSUME NEW r \in Requests, SuspendFixtures(r) PROVE Remaining'
  <2>1. Committed(r, TRUE) /\ (TRUE) \in BOOLEAN /\ UNCHANGED clash
    BY <1>9 DEF SuspendFixtures, Said, Unanswered
  <2>2. Administrators \subseteq Administrators'
    BY <1>9, ActIsOf, GovernanceConstants DEF SuspendFixtures, Administrators, Writes,
       Formed, NoFixtureRules, people
  <2>3. QED
    BY <2>1, <2>2, CommittedRemoves, Keeps
<1>10. ASSUME NEW r \in Requests, CreateHuman(r) PROVE Remaining'
  <2>1. Committed(r, TRUE) /\ (TRUE) \in BOOLEAN /\ UNCHANGED clash
    BY <1>10 DEF CreateHuman, Said, Unanswered
  <2>2. Administrators \subseteq Administrators'
    BY <1>10, ActIsOf, GovernanceConstants DEF CreateHuman, Administrators, people
  <2>3. QED
    BY <2>1, <2>2, CommittedRemoves, Keeps
<1>11. ASSUME NEW r \in Requests, NameRecipient(r) PROVE Remaining'
  <2>1. Committed(r, TRUE) /\ (TRUE) \in BOOLEAN /\ UNCHANGED clash
    BY <1>11 DEF NameRecipient, Said, Unanswered
  <2>2. Administrators \subseteq Administrators'
    BY <1>11, ActIsOf, GovernanceConstants DEF NameRecipient, Administrators, people
  <2>3. QED
    BY <2>1, <2>2, CommittedRemoves, Keeps
<1>12. ASSUME NEW r \in Requests, RecordReceipt(r) PROVE Remaining'
  <2>1. Committed(r, received[act[r].of] = None) /\ (received[act[r].of] = None) \in BOOLEAN /\ UNCHANGED clash
    BY <1>12 DEF RecordReceipt, Said, Unanswered
  <2>2. Administrators \subseteq Administrators'
    BY <1>12, ActIsOf, GovernanceConstants DEF RecordReceipt, Administrators, people
  <2>3. QED
    BY <2>1, <2>2, CommittedRemoves, Keeps
<1>13. ASSUME NEW r \in Requests, RecordAnswer(r) PROVE Remaining'
  <2>1. Committed(r, Said(r)) /\ (Said(r)) \in BOOLEAN /\ UNCHANGED clash
    BY <1>13 DEF RecordAnswer, Said, Unanswered
  <2>2. Administrators \subseteq Administrators'
    BY <1>13, ActIsOf, GovernanceConstants DEF RecordAnswer, Administrators, people
  <2>3. QED
    BY <2>1, <2>2, CommittedRemoves, Keeps
<1>14. ASSUME NEW r \in Requests, FileIncident(r) PROVE Remaining'
  <2>1. Committed(r, TRUE) /\ (TRUE) \in BOOLEAN /\ UNCHANGED clash
    BY <1>14 DEF FileIncident, Said, Unanswered
  <2>2. Administrators \subseteq Administrators'
    BY <1>14, ActIsOf, GovernanceConstants DEF FileIncident, Administrators, people
  <2>3. QED
    BY <2>1, <2>2, CommittedRemoves, Keeps
<1>15. ASSUME NEW r \in Requests, AppendAccount(r) PROVE Remaining'
  <2>1. Committed(r, TRUE) /\ (TRUE) \in BOOLEAN /\ UNCHANGED clash
    BY <1>15 DEF AppendAccount, Said, Unanswered
  <2>2. Administrators \subseteq Administrators'
    BY <1>15, ActIsOf, GovernanceConstants DEF AppendAccount, Administrators, people
  <2>3. QED
    BY <2>1, <2>2, CommittedRemoves, Keeps
<1>16. ASSUME NEW r \in Requests, Resolve(r) PROVE Remaining'
  <2>1. Stepped(r) /\ Resolving(r) /\ UNCHANGED <<people, clash>>
    BY <1>16, ResolveOutcome
  <2>2. StillRemoving
    BY <2>1, EndedRemoves DEF StillRemoving, Removal, Stepped, Resolving
  <2>3. QED
    BY <2>1, <2>2, SameAdministrators, Keeps
<1>17. ASSUME NEW r \in Requests, RecordHistory(r) PROVE Remaining'
  <2>1. Committed(r, TRUE) /\ (TRUE) \in BOOLEAN /\ UNCHANGED clash
    BY <1>17 DEF RecordHistory, Said, Unanswered
  <2>2. Administrators \subseteq Administrators'
    BY <1>17, ActIsOf, GovernanceConstants DEF RecordHistory, Administrators, people
  <2>3. QED
    BY <2>1, <2>2, CommittedRemoves, Keeps
<1>18. ASSUME NEW r \in Requests, Supersede(r) PROVE Remaining'
  <2>1. StillRemoving /\ UNCHANGED <<people, clash>>
    BY <1>18 DEF StillRemoving, Removal, Supersede, requestVars
  <2>2. QED
    BY <2>1, SameAdministrators, Keeps
<1>19. ASSUME NEW r \in Requests, NEW d \in Discharges, FileDischarge(r, d) PROVE Remaining'
  <2>1. Committed(r, TRUE) /\ (TRUE) \in BOOLEAN /\ UNCHANGED clash
    BY <1>19 DEF FileDischarge, Said, Unanswered
  <2>2. Administrators \subseteq Administrators'
    BY <1>19, ActIsOf, GovernanceConstants DEF FileDischarge, Administrators, people
  <2>3. QED
    BY <2>1, <2>2, CommittedRemoves, Keeps
<1>20. ASSUME NEW e \in Escalations, NEW p \in {"governance", "operational"}, NEW by \in People, RaiseEscalation(e, p, by) PROVE Remaining'
  <2>1. StillRemoving /\ UNCHANGED <<people, clash>>
    BY <1>20 DEF StillRemoving, Removal, RaiseEscalation, requestVars
  <2>2. QED
    BY <2>1, SameAdministrators, Keeps
<1>21. CASE UNCHANGED vars
  BY <1>21 DEF Remaining, Removal, Administrators, vars, people, requestVars
<1>22. ASSUME NEW r \in Requests, ConsoleAudit(r) PROVE Remaining'
  <2>1. Stepped(r) /\ Ended(r) /\ UNCHANGED <<people, clash>>
    BY <1>22, ConsoleOutcome
  <2>2. QED
    BY <2>1, EndedRemoves, SameAdministrators, Keeps
<1>23. QED
  BY <1>1, <1>2, <1>3, <1>4, <1>5, <1>6, <1>7, <1>8, <1>9, <1>10, <1>11, <1>12, <1>13,
     <1>14, <1>15, <1>16, <1>17, <1>18, <1>19, <1>20, <1>21, <1>22 DEF Next, Writing

-----------------------------------------------------------------------------
(* What is held was given.                                                 *)

\* A step that grants nothing, after which r's request has no grant behind it.
LEMMA GivesNothing ==
    ASSUME GivenFirst, roles' \subseteq roles, UNCHANGED given, NEW r \in Requests,
           \A q \in Requests \ {r} : pc'[q] = pc[q] /\ act'[q] = act[q],
           pc'[r] \in {"audit", "console"} =>
               act'[r].do # "grant" \/ (pc[r] = "audit" /\ act'[r] = act[r])
    PROVE  GivenFirst'
<1>1. \A g \in roles' : \E h \in Humans : <<g[1], g[2], h>> \in given'
  BY DEF GivenFirst
<1>2. ASSUME NEW q \in Requests, pc'[q] \in {"audit", "console"}, act'[q].do = "grant"
      PROVE  \E h \in Humans : <<act'[q].of, act'[q].what, h>> \in given'
  <2>1. pc[q] \in {"audit", "console"} /\ act'[q] = act[q]
    BY <1>2
  <2>2. QED
    BY <1>2, <2>1 DEF GivenFirst
<1>3. QED
  BY <1>1, <1>2 DEF GivenFirst

\* So are the writes but for the two of a role.
LEMMA CommitGivesNothing ==
    ASSUME TypeOK, GivenFirst, NEW r \in Requests, NEW did \in BOOLEAN, Committed(r, did),
           UNCHANGED <<roles, given>>, act[r].do # "grant"
    PROVE  GivenFirst'
<1>1. me' = me /\ act' = act /\ \A q \in Requests \ {r} : pc'[q] = pc[q]
  BY CommittedTypes
<1>2. QED
  BY <1>1, GivesNothing

\* A grant leaves its role given, by this human or by another before.
LEMMA GrantGives ==
    ASSUME TypeOK, Formed, GivenFirst, NEW r \in Requests, GrantRole(r)
    PROVE  GivenFirst'
<1> DEFINE row == <<act[r].of, act[r].what>>
<1>1. act[r].of \in Humans /\ act[r].what \in Roles /\ me[r] \in Humans
  BY ActIsOf DEF GrantRole, Writes, Formed
<1>2. /\ roles' = roles \cup {row} /\ Committed(r, row \notin roles)
      /\ given' = IF row \in roles THEN given ELSE given \cup {<<row[1], row[2], me[r]>>}
  BY DEF GrantRole
<1>3. act' = act /\ \A q \in Requests \ {r} : pc'[q] = pc[q]
  BY <1>2 DEF Committed
<1>4. given \subseteq given'
  BY <1>2
<1>5. \E h \in Humans : <<row[1], row[2], h>> \in given'
  <2>1. CASE row \in roles
    BY <1>4, <2>1 DEF GivenFirst
  <2>2. CASE row \notin roles
    BY <1>1, <1>2, <2>2
  <2>3. QED
    BY <2>1, <2>2
<1>6. \A g \in roles' : \E h \in Humans : <<g[1], g[2], h>> \in given'
  BY <1>2, <1>4, <1>5 DEF GivenFirst
<1>7. ASSUME NEW q \in Requests, pc'[q] \in {"audit", "console"}, act'[q].do = "grant"
      PROVE  \E h \in Humans : <<act'[q].of, act'[q].what, h>> \in given'
  <2>1. CASE q = r
    BY <1>3, <1>5, <2>1
  <2>2. CASE q # r
    BY <1>3, <1>4, <1>7, <2>2 DEF GivenFirst
  <2>3. QED
    BY <2>1, <2>2
<1>8. QED
  BY <1>6, <1>7 DEF GivenFirst

LEMMA GivenFirstStep ==
    ASSUME TypeOK, Formed, GivenFirst, [Next]_vars
    PROVE  GivenFirst'
<1>1. ASSUME NEW r \in Requests, NEW h \in Humans, NEW a \in Acts, Arrive(r, h, a)
      PROVE  GivenFirst'
  <2>1. /\ UNCHANGED <<roles, given>> /\ pc'[r] = "in"
        /\ \A q \in Requests \ {r} : pc'[q] = pc[q] /\ act'[q] = act[q]
    BY <1>1 DEF Arrive, people, TypeOK
  <2>2. QED
    BY <2>1, GivesNothing
<1>2. ASSUME NEW r \in Requests, Decide(r) PROVE GivenFirst'
  <2>1. Stepped(r) /\ UNCHANGED <<roles, given>> /\ pc'[r] \notin {"audit", "console"}
    BY <1>2, DecideOutcome DEF Decided, Ended, people
  <2>2. QED
    BY <2>1, GivesNothing DEF Stepped
<1>3. ASSUME NEW r \in Requests, Audit(r) PROVE GivenFirst'
  <2>1. Stepped(r) /\ Audited(r) /\ UNCHANGED <<roles, given>> /\ pc[r] = "audit"
    BY <1>3, AuditOutcome DEF people
  <2>2. pc'[r] \in {"audit", "console"} => act'[r] = act[r]
    BY <2>1 DEF Audited, Ended
  <2>3. QED
    BY <2>1, <2>2, GivesNothing DEF Stepped
<1>4. ASSUME NEW r \in Requests, ConsoleAudit(r) PROVE GivenFirst'
  <2>1. Stepped(r) /\ Ended(r) /\ UNCHANGED <<roles, given>>
    BY <1>4, ConsoleOutcome DEF people
  <2>2. QED
    BY <2>1, GivesNothing DEF Stepped, Ended
<1>5. ASSUME NEW r \in Requests, Die(r) PROVE GivenFirst'
  <2>1. Finish(r) /\ UNCHANGED <<roles, given>>
    BY <1>5 DEF Die, people
  <2>2. QED
    BY <2>1, FinishTypes, GivesNothing
<1>6. ASSUME NEW r \in Requests, GrantRole(r) PROVE GivenFirst'
  BY <1>6, GrantGives
<1>7. ASSUME NEW r \in Requests, RevokeRole(r) PROVE GivenFirst'
  <2>1. /\ roles' \subseteq roles /\ UNCHANGED given /\ act' = act /\ act[r].do = "revoke"
        /\ \A q \in Requests \ {r} : pc'[q] = pc[q]
    BY <1>7 DEF RevokeRole, Writes, Committed
  <2>2. QED
    BY <2>1, GivesNothing
<1>8. ASSUME NEW r \in Requests, Suspend(r) PROVE GivenFirst'
  <2>1. UNCHANGED <<roles, given>> /\ act[r].do # "grant"
    BY <1>8 DEF Suspend, Writes, people
  <2>2. PICK did \in BOOLEAN : Committed(r, did)
    BY <1>8 DEF Suspend
  <2>3. QED
    BY <2>1, <2>2, CommitGivesNothing
<1>9. ASSUME NEW r \in Requests, Activate(r) PROVE GivenFirst'
  <2>1. UNCHANGED <<roles, given>> /\ act[r].do # "grant"
    BY <1>9 DEF Activate, Writes, people
  <2>2. PICK did \in BOOLEAN : Committed(r, did)
    BY <1>9 DEF Activate
  <2>3. QED
    BY <2>1, <2>2, CommitGivesNothing
<1>10. ASSUME NEW r \in Requests, SuspendFixtures(r) PROVE GivenFirst'
  <2>1. UNCHANGED <<roles, given>> /\ act[r].do # "grant"
    BY <1>10 DEF SuspendFixtures, Writes, people
  <2>2. PICK did \in BOOLEAN : Committed(r, did)
    BY <1>10 DEF SuspendFixtures
  <2>3. QED
    BY <2>1, <2>2, CommitGivesNothing
<1>11. ASSUME NEW r \in Requests, CreateHuman(r) PROVE GivenFirst'
  <2>1. UNCHANGED <<roles, given>> /\ act[r].do # "grant"
    BY <1>11 DEF CreateHuman, Writes, people
  <2>2. PICK did \in BOOLEAN : Committed(r, did)
    BY <1>11 DEF CreateHuman
  <2>3. QED
    BY <2>1, <2>2, CommitGivesNothing
<1>12. ASSUME NEW r \in Requests, NameRecipient(r) PROVE GivenFirst'
  <2>1. UNCHANGED <<roles, given>> /\ act[r].do # "grant"
    BY <1>12 DEF NameRecipient, Writes, people
  <2>2. PICK did \in BOOLEAN : Committed(r, did)
    BY <1>12 DEF NameRecipient
  <2>3. QED
    BY <2>1, <2>2, CommitGivesNothing
<1>13. ASSUME NEW r \in Requests, RecordReceipt(r) PROVE GivenFirst'
  <2>1. UNCHANGED <<roles, given>> /\ act[r].do # "grant"
    BY <1>13 DEF RecordReceipt, Writes, people
  <2>2. PICK did \in BOOLEAN : Committed(r, did)
    BY <1>13 DEF RecordReceipt
  <2>3. QED
    BY <2>1, <2>2, CommitGivesNothing
<1>14. ASSUME NEW r \in Requests, RecordAnswer(r) PROVE GivenFirst'
  <2>1. UNCHANGED <<roles, given>> /\ act[r].do # "grant"
    BY <1>14 DEF RecordAnswer, Writes, people
  <2>2. PICK did \in BOOLEAN : Committed(r, did)
    BY <1>14 DEF RecordAnswer, Said, Unanswered
  <2>3. QED
    BY <2>1, <2>2, CommitGivesNothing
<1>15. ASSUME NEW r \in Requests, FileIncident(r) PROVE GivenFirst'
  <2>1. UNCHANGED <<roles, given>> /\ act[r].do # "grant"
    BY <1>15 DEF FileIncident, Writes, people
  <2>2. PICK did \in BOOLEAN : Committed(r, did)
    BY <1>15 DEF FileIncident
  <2>3. QED
    BY <2>1, <2>2, CommitGivesNothing
<1>16. ASSUME NEW r \in Requests, AppendAccount(r) PROVE GivenFirst'
  <2>1. UNCHANGED <<roles, given>> /\ act[r].do # "grant"
    BY <1>16 DEF AppendAccount, Writes, people
  <2>2. PICK did \in BOOLEAN : Committed(r, did)
    BY <1>16 DEF AppendAccount
  <2>3. QED
    BY <2>1, <2>2, CommitGivesNothing
<1>17. ASSUME NEW r \in Requests, Resolve(r) PROVE GivenFirst'
  <2>1. Stepped(r) /\ UNCHANGED <<roles, given>> /\ pc'[r] \notin {"audit", "console"}
    BY <1>17, ResolveOutcome DEF Resolving, Ended, people
  <2>2. QED
    BY <2>1, GivesNothing DEF Stepped
<1>18. ASSUME NEW r \in Requests, RecordHistory(r) PROVE GivenFirst'
  <2>1. UNCHANGED <<roles, given>> /\ act[r].do # "grant"
    BY <1>18 DEF RecordHistory, Formed, people
  <2>2. Committed(r, TRUE)
    BY <1>18 DEF RecordHistory
  <2>3. QED
    BY <2>1, <2>2, CommitGivesNothing
<1>19. ASSUME NEW r \in Requests, NEW d \in Discharges, FileDischarge(r, d) PROVE GivenFirst'
  <2>1. UNCHANGED <<roles, given>> /\ act[r].do # "grant"
    BY <1>19 DEF FileDischarge, Formed, people
  <2>2. Committed(r, TRUE)
    BY <1>19 DEF FileDischarge
  <2>3. QED
    BY <2>1, <2>2, CommitGivesNothing
<1>20. ASSUME NEW r \in Requests, Supersede(r) PROVE GivenFirst'
  <2>1. /\ UNCHANGED <<roles, given, act>> /\ pc'[r] = "file"
        /\ \A q \in Requests \ {r} : pc'[q] = pc[q]
    BY <1>20 DEF Supersede, people, TypeOK
  <2>2. QED
    BY <2>1, GivesNothing
<1>21. CASE \E e \in Escalations, p \in {"governance", "operational"}, by \in People :
               RaiseEscalation(e, p, by)
  BY <1>21 DEF RaiseEscalation, GivenFirst, people, requestVars
<1>22. CASE UNCHANGED vars
  BY <1>22 DEF GivenFirst, vars, people, requestVars
<1>23. QED
  BY <1>1, <1>2, <1>3, <1>4, <1>5, <1>6, <1>7, <1>8, <1>9, <1>10, <1>11, <1>12,
     <1>13, <1>14, <1>15, <1>16, <1>17, <1>18, <1>19, <1>20, <1>21, <1>22 DEF Next, Writing

-----------------------------------------------------------------------------
(* The log is true.                                                        *)

\* What the tables say once, they go on saying.
Growing ==
    /\ given \subseteq given' /\ taken \subseteq taken' /\ history \subseteq history'
    /\ \A e \in Escalations : /\ answer[e] # None => answer'[e] = answer[e]
                              /\ received[e] # None => received'[e] = received[e]
    /\ \A i \in Incidents : resolved[i] # None => resolved'[i] = resolved[i]

LEMMA TruthStays ==
    ASSUME Growing, NEW e, NEW by, NEW of, NEW what, True(e, by, of, what)
    PROVE  True(e, by, of, what)'
BY DEF Growing, True

\* A step after which only r's request may be about to record anything new.
LEMMA Tells ==
    ASSUME TypeOK, Formed, Truthful, Growing, UNCHANGED events, NEW r \in Requests,
           \A q \in Requests \ {r} :
               pc'[q] = pc[q] /\ act'[q] = act[q] /\ me'[q] = me[q] /\ changed'[q] = changed[q],
           pc'[r] = "record" => resolved'[act'[r].of] = me'[r],
           pc'[r] \in {"audit", "console"} /\ changed'[r] => TrueOf(r)'
    PROVE  Truthful'
<1>1. \A v \in events' : True(v.event, v.by, v.of, v.what)'
  BY TruthStays DEF Truthful
<1>2. ASSUME NEW q \in Requests, q # r, pc'[q] = "record"
      PROVE  resolved'[act'[q].of] = me'[q]
  <2>1. pc[q] = "record" /\ act[q].do = "resolve" /\ me[q] \in Humans
    BY <1>2 DEF Formed
  <2>2. act[q].of \in Incidents /\ resolved[act[q].of] = me[q] /\ me[q] # None
    BY <2>1, ActIsOf, GovernanceConstants DEF Truthful
  <2>3. QED
    BY <1>2, <2>2 DEF Growing
<1>3. ASSUME NEW q \in Requests, q # r, pc'[q] \in {"audit", "console"}, changed'[q]
      PROVE  TrueOf(q)'
  <2>1. True(act[q].do, me[q], act[q].of, act[q].what)
    BY <1>3 DEF Truthful, TrueOf
  <2>2. act'[q] = act[q] /\ me'[q] = me[q]
    BY <1>3
  <2>3. QED
    BY <2>1, <2>2 DEF Growing, True, TrueOf
<1>4. QED
  BY <1>1, <1>2, <1>3 DEF Truthful

\* A write that leaves its request with the event to tell.
LEMMA CommitTells ==
    ASSUME TypeOK, Formed, Truthful, NEW r \in Requests, NEW did \in BOOLEAN,
           Committed(r, did), Growing, changed'[r] => TrueOf(r)'
    PROVE  Truthful'
<1>1. /\ pc'[r] = "audit" /\ UNCHANGED <<me, act, events>>
      /\ \A q \in Requests \ {r} : pc'[q] = pc[q] /\ changed'[q] = changed[q]
  BY CommittedTypes
<1>2. QED
  BY <1>1, Tells

\* A step that touches nothing of what is told and of who tells it.
LEMMA TruthUnread ==
    ASSUME Truthful,
           UNCHANGED <<events, pc, act, me, changed, given, taken, history, answer, received,
                       resolved>>
    PROVE  Truthful'
<1>1. ASSUME NEW e, NEW by, NEW of, NEW what, True(e, by, of, what) PROVE True(e, by, of, what)'
  BY <1>1 DEF True
<1>2. \A v \in events' : True(v.event, v.by, v.of, v.what)'
  BY <1>1 DEF Truthful
<1>3. ASSUME NEW r \in Requests, pc'[r] = "record" PROVE resolved'[act'[r].of] = me'[r]
  BY <1>3 DEF Truthful
<1>4. ASSUME NEW r \in Requests, pc'[r] \in {"audit", "console"}, changed'[r] PROVE TrueOf(r)'
  <2>1. TrueOf(r)
    BY <1>4 DEF Truthful
  <2>2. QED
    BY <2>1 DEF TrueOf, True
<1>5. QED
  BY <1>2, <1>3, <1>4 DEF Truthful

LEMMA TruthfulStep ==
    ASSUME TypeOK, Formed, Routed, GivenFirst, Truthful, [Next]_vars
    PROVE  Truthful'
<1>1. ASSUME NEW r \in Requests, NEW h \in Humans, NEW a \in Acts, Arrive(r, h, a) PROVE Truthful'
  <2>1. Growing /\ UNCHANGED events
    BY <1>1 DEF Growing, Arrive, people, escalationVars, incidentVars
  <2>2. /\ pc'[r] \notin {"record", "audit", "console"}
        /\ \A q \in Requests \ {r} : /\ pc'[q] = pc[q] /\ act'[q] = act[q]
                                      /\ me'[q] = me[q] /\ changed'[q] = changed[q]
    BY <1>1 DEF Arrive
  <2>3. QED
    BY <2>1, <2>2, Tells
<1>2. ASSUME NEW r \in Requests, Decide(r) PROVE Truthful'
  <2>1. Stepped(r) /\ Decided(r) /\ UNCHANGED <<people, escalationVars, incidentVars, events>>
    BY <1>2, DecideOutcome
  <2>2. Growing
    BY <2>1 DEF Growing, people, escalationVars, incidentVars
  <2>3. pc'[r] \notin {"record", "audit", "console"}
    BY <2>1 DEF Decided, Ended
  <2>4. QED
    BY <2>1, <2>2, <2>3, Tells DEF Stepped
<1>3. ASSUME NEW r \in Requests, Audit(r) PROVE Truthful'
  <2>1. Stepped(r) /\ Audited(r) /\ pc[r] = "audit" /\ UNCHANGED <<people, escalationVars, incidentVars>>
    BY <1>3, AuditOutcome
  <2>2. Growing
    BY <2>1 DEF Growing, people, escalationVars, incidentVars
  <2>3. ASSUME NEW v \in events' PROVE True(v.event, v.by, v.of, v.what)
    BY <1>3, <2>1, <2>3 DEF Audit, Truthful, TrueOf, Event
  <2>4. \A v \in events' : True(v.event, v.by, v.of, v.what)'
    BY <2>2, <2>3, TruthStays
  <2>5. UNCHANGED <<given, taken, history, answer, received, resolved>>
    BY <2>1 DEF people, escalationVars, incidentVars
  <2>6. ASSUME NEW q \in Requests, pc'[q] = "record" PROVE resolved'[act'[q].of] = me'[q]
    BY <2>1, <2>5, <2>6 DEF Stepped, Audited, Ended, Truthful
  <2>7. ASSUME NEW q \in Requests, pc'[q] \in {"audit", "console"}, changed'[q] PROVE TrueOf(q)'
    <3>1. /\ pc[q] \in {"audit", "console"} /\ changed[q]
          /\ act'[q] = act[q] /\ me'[q] = me[q]
      BY <2>1, <2>7 DEF Stepped, Audited, Ended
    <3>2. QED
      BY <2>5, <3>1 DEF Truthful, TrueOf, True
  <2>8. QED
    BY <2>4, <2>6, <2>7 DEF Truthful
<1>4. ASSUME NEW r \in Requests, Die(r) PROVE Truthful'
  <2>1. Growing /\ UNCHANGED events
    BY <1>4 DEF Growing, Die, people, escalationVars, incidentVars
  <2>2. QED
    BY <1>4, <2>1, FinishTypes, Tells DEF Die
<1>5. ASSUME NEW r \in Requests, GrantRole(r) PROVE Truthful'
  <2>1. Committed(r, <<act[r].of, act[r].what>> \notin roles) /\ (<<act[r].of, act[r].what>> \notin roles) \in BOOLEAN
    BY <1>5 DEF GrantRole, Said, Unanswered
  <2>2. Growing
    BY <1>5, ActIsOf, GovernanceConstants DEF Growing, GrantRole, people,
       escalationVars, incidentVars
  <2>3. ASSUME changed'[r] PROVE TrueOf(r)'
    BY <1>5, <2>1, <2>3, CommittedTypes, ActIsOf, GovernanceConstants DEF GrantRole,
       Writes, TrueOf, True
  <2>4. QED
    BY <2>1, <2>2, <2>3, CommitTells
<1>6. ASSUME NEW r \in Requests, RevokeRole(r) PROVE Truthful'
  <2>1. Committed(r, <<act[r].of, act[r].what>> \in roles) /\ (<<act[r].of, act[r].what>> \in roles) \in BOOLEAN
    BY <1>6 DEF RevokeRole, Said, Unanswered
  <2>2. Growing
    BY <1>6, ActIsOf, GovernanceConstants DEF Growing, RevokeRole, people,
       escalationVars, incidentVars
  <2>3. ASSUME changed'[r] PROVE TrueOf(r)'
    <3>1. act[r].do = "revoke" /\ act[r] \in Acts /\ me[r] \in Humans /\ Under(r)
      BY <1>6 DEF RevokeRole, Writes, Formed, Under
    <3>2. act'[r] = act[r] /\ me'[r] = me[r]
      BY <2>1, CommittedTypes
    <3>3. <<act[r].of, act[r].what>> \in roles
      BY <2>1, <2>3, CommittedTypes
    <3>4. <<act[r].of, act[r].what, me[r]>> \in taken'
      BY <1>6, <3>3, <3>1, ActIsOf, GovernanceConstants DEF RevokeRole
    <3>5. QED
      BY <3>1, <3>2, <3>4 DEF TrueOf, True
  <2>4. QED
    BY <2>1, <2>2, <2>3, CommitTells
<1>7. ASSUME NEW r \in Requests, Suspend(r) PROVE Truthful'
  <2>1. Committed(r, TRUE) /\ (TRUE) \in BOOLEAN
    BY <1>7 DEF Suspend, Said, Unanswered
  <2>2. Growing
    BY <1>7, ActIsOf, GovernanceConstants DEF Growing, Suspend, people, escalationVars,
       incidentVars
  <2>3. ASSUME changed'[r] PROVE TrueOf(r)'
    BY <1>7, <2>1, <2>3, CommittedTypes, ActIsOf, GovernanceConstants DEF Suspend,
       Writes, TrueOf, True
  <2>4. QED
    BY <2>1, <2>2, <2>3, CommitTells
<1>8. ASSUME NEW r \in Requests, Activate(r) PROVE Truthful'
  <2>1. Committed(r, TRUE) /\ (TRUE) \in BOOLEAN
    BY <1>8 DEF Activate, Said, Unanswered
  <2>2. Growing
    BY <1>8, ActIsOf, GovernanceConstants DEF Growing, Activate, people, escalationVars,
       incidentVars
  <2>3. ASSUME changed'[r] PROVE TrueOf(r)'
    BY <1>8, <2>1, <2>3, CommittedTypes, ActIsOf, GovernanceConstants DEF Activate,
       Writes, TrueOf, True
  <2>4. QED
    BY <2>1, <2>2, <2>3, CommitTells
<1>9. ASSUME NEW r \in Requests, SuspendFixtures(r) PROVE Truthful'
  <2>1. Committed(r, TRUE) /\ (TRUE) \in BOOLEAN
    BY <1>9 DEF SuspendFixtures, Said, Unanswered
  <2>2. Growing
    BY <1>9, ActIsOf, GovernanceConstants DEF Growing, SuspendFixtures, people,
       escalationVars, incidentVars
  <2>3. ASSUME changed'[r] PROVE TrueOf(r)'
    BY <1>9, <2>1, <2>3, CommittedTypes, ActIsOf, GovernanceConstants DEF
       SuspendFixtures, Writes, TrueOf, True
  <2>4. QED
    BY <2>1, <2>2, <2>3, CommitTells
<1>10. ASSUME NEW r \in Requests, CreateHuman(r) PROVE Truthful'
  <2>1. Committed(r, TRUE) /\ (TRUE) \in BOOLEAN
    BY <1>10 DEF CreateHuman, Said, Unanswered
  <2>2. Growing
    BY <1>10, ActIsOf, GovernanceConstants DEF Growing, CreateHuman, people,
       escalationVars, incidentVars
  <2>3. ASSUME changed'[r] PROVE TrueOf(r)'
    BY <1>10, <2>1, <2>3, CommittedTypes, ActIsOf, GovernanceConstants DEF CreateHuman,
       Writes, TrueOf, True
  <2>4. QED
    BY <2>1, <2>2, <2>3, CommitTells
<1>11. ASSUME NEW r \in Requests, NameRecipient(r) PROVE Truthful'
  <2>1. Committed(r, TRUE) /\ (TRUE) \in BOOLEAN
    BY <1>11 DEF NameRecipient, Said, Unanswered
  <2>2. Growing
    BY <1>11, ActIsOf, GovernanceConstants DEF Growing, NameRecipient, people,
       escalationVars, incidentVars
  <2>3. ASSUME changed'[r] PROVE TrueOf(r)'
    BY <1>11, <2>1, <2>3, CommittedTypes, ActIsOf, GovernanceConstants DEF
       NameRecipient, Writes, TrueOf, True
  <2>4. QED
    BY <2>1, <2>2, <2>3, CommitTells
<1>12. ASSUME NEW r \in Requests, RecordReceipt(r) PROVE Truthful'
  <2>1. Committed(r, received[act[r].of] = None) /\ (received[act[r].of] = None) \in BOOLEAN
    BY <1>12 DEF RecordReceipt, Said, Unanswered
  <2>2. Growing
    BY <1>12, ActIsOf, GovernanceConstants DEF Growing, RecordReceipt, people,
       escalationVars, incidentVars
  <2>3. ASSUME changed'[r] PROVE TrueOf(r)'
    <3>1. act[r].do = "receive" /\ act[r] \in Acts /\ me[r] \in Humans /\ Under(r)
      BY <1>12 DEF RecordReceipt, Writes, Formed, Under
    <3>2. act'[r] = act[r] /\ me'[r] = me[r]
      BY <2>1, CommittedTypes
    <3>3. received[act[r].of] = None
      BY <2>1, <2>3, CommittedTypes
    <3>4. act[r].of \in Escalations /\ me[r] # None /\ received'[act[r].of] = me[r]
      BY <1>12, <3>3, <3>1, ActIsOf, GovernanceConstants DEF RecordReceipt, TypeOK
    <3>5. QED
      BY <3>1, <3>2, <3>4 DEF TrueOf, True
  <2>4. QED
    BY <2>1, <2>2, <2>3, CommitTells
<1>13. ASSUME NEW r \in Requests, RecordAnswer(r) PROVE Truthful'
  <2>1. Committed(r, Said(r)) /\ (Said(r)) \in BOOLEAN
    BY <1>13 DEF RecordAnswer, Said, Unanswered
  <2>2. Growing
    BY <1>13, ActIsOf, GovernanceConstants DEF Growing, RecordAnswer, Unanswered,
       people, escalationVars, incidentVars
  <2>3. ASSUME changed'[r] PROVE TrueOf(r)'
    <3>1. act[r].do = "answer" /\ act[r] \in Acts /\ me[r] \in Humans /\ Under(r)
      BY <1>13 DEF RecordAnswer, Writes, Formed, Under
    <3>2. act'[r] = act[r] /\ me'[r] = me[r]
      BY <2>1, CommittedTypes
    <3>3. Said(r)
      BY <2>1, <2>3, CommittedTypes
    <3>4. act[r].of \in Escalations /\ act[r].what # None /\ me[r] # None
          /\ answer'[act[r].of] = act[r].what /\ received'[act[r].of] = me[r]
      BY <1>13, <3>3, <3>1, ActIsOf, GovernanceConstants DEF RecordAnswer, Said, TypeOK,
         Routed
    <3>5. QED
      BY <3>1, <3>2, <3>4 DEF TrueOf, True
  <2>4. QED
    BY <2>1, <2>2, <2>3, CommitTells
<1>14. ASSUME NEW r \in Requests, FileIncident(r) PROVE Truthful'
  <2>1. Committed(r, TRUE) /\ (TRUE) \in BOOLEAN
    BY <1>14 DEF FileIncident, Said, Unanswered
  <2>2. Growing
    BY <1>14, ActIsOf, GovernanceConstants DEF Growing, FileIncident, people,
       escalationVars, incidentVars
  <2>3. ASSUME changed'[r] PROVE TrueOf(r)'
    BY <1>14, <2>1, <2>3, CommittedTypes, ActIsOf, GovernanceConstants DEF FileIncident,
       Writes, TrueOf, True, incidentVars
  <2>4. QED
    BY <2>1, <2>2, <2>3, CommitTells
<1>15. ASSUME NEW r \in Requests, AppendAccount(r) PROVE Truthful'
  <2>1. Committed(r, TRUE) /\ (TRUE) \in BOOLEAN
    BY <1>15 DEF AppendAccount, Said, Unanswered
  <2>2. Growing
    BY <1>15, ActIsOf, GovernanceConstants DEF Growing, AppendAccount, people,
       escalationVars, incidentVars
  <2>3. ASSUME changed'[r] PROVE TrueOf(r)'
    BY <1>15, <2>1, <2>3, CommittedTypes, ActIsOf, GovernanceConstants DEF
       AppendAccount, Writes, TrueOf, True, incidentVars
  <2>4. QED
    BY <2>1, <2>2, <2>3, CommitTells
<1>16. ASSUME NEW r \in Requests, Resolve(r) PROVE Truthful'
  <2>1. Stepped(r) /\ Resolving(r) /\ act[r].do = "resolve"
        /\ UNCHANGED <<people, escalationVars, history, events>>
    BY <1>16, ResolveOutcome
  <2>2. act[r].of \in Incidents
    BY <2>1, ActIsOf
  <2>3. Growing
    BY <2>1, <2>2 DEF Growing, people, escalationVars, Resolving, TypeOK
  <2>4. pc'[r] \notin {"audit", "console"} /\ (pc'[r] = "record" => resolved'[act'[r].of] = me'[r])
    BY <2>1, <2>2 DEF Resolving, Ended, TypeOK
  <2>5. QED
    BY <2>1, <2>3, <2>4, Tells DEF Stepped
<1>17. ASSUME NEW r \in Requests, RecordHistory(r) PROVE Truthful'
  <2>1. Committed(r, TRUE) /\ (TRUE) \in BOOLEAN
    BY <1>17 DEF RecordHistory, Said, Unanswered
  <2>2. Growing
    BY <1>17, ActIsOf, GovernanceConstants DEF Growing, RecordHistory, people,
       escalationVars, incidentVars
  <2>3. ASSUME changed'[r] PROVE TrueOf(r)'
    <3>1. act[r].do = "resolve" /\ act[r] \in Acts /\ me[r] \in Humans /\ Under(r)
      BY <1>17 DEF RecordHistory, Writes, Formed, Under
    <3>2. act'[r] = act[r] /\ me'[r] = me[r]
      BY <2>1, CommittedTypes
    <3>3. TRUE
      BY <2>1, <2>3, CommittedTypes
    <3>4. act[r].of \in Incidents /\ me[r] # None
          /\ resolved'[act[r].of] = me[r] /\ <<act[r].of, me[r]>> \in history'
      BY <1>17, <3>3, <3>1, ActIsOf, GovernanceConstants DEF RecordHistory, Truthful,
         incidentVars
    <3>5. QED
      BY <3>1, <3>2, <3>4 DEF TrueOf, True
  <2>4. QED
    BY <2>1, <2>2, <2>3, CommitTells
<1>18. ASSUME NEW r \in Requests, Supersede(r) PROVE Truthful'
  <2>1. Growing /\ UNCHANGED events
    BY <1>18 DEF Growing, Supersede, people, escalationVars, incidentVars
  <2>2. /\ pc'[r] \notin {"record", "audit", "console"}
        /\ \A q \in Requests \ {r} : /\ pc'[q] = pc[q] /\ act'[q] = act[q]
                                      /\ me'[q] = me[q] /\ changed'[q] = changed[q]
    BY <1>18 DEF Supersede, TypeOK
  <2>3. QED
    BY <2>1, <2>2, Tells
<1>19. ASSUME NEW r \in Requests, NEW d \in Discharges, FileDischarge(r, d) PROVE Truthful'
  <2>1. Committed(r, TRUE) /\ (TRUE) \in BOOLEAN
    BY <1>19 DEF FileDischarge, Said, Unanswered
  <2>2. Growing
    BY <1>19, ActIsOf, GovernanceConstants DEF Growing, FileDischarge, people,
       escalationVars, incidentVars
  <2>3. ASSUME changed'[r] PROVE TrueOf(r)'
    BY <1>19, <2>1, <2>3, CommittedTypes, ActIsOf, GovernanceConstants DEF
       FileDischarge, TrueOf, True, Formed
  <2>4. QED
    BY <2>1, <2>2, <2>3, CommitTells
<1>20. ASSUME NEW e \in Escalations, NEW p \in {"governance", "operational"}, NEW by \in People, RaiseEscalation(e, p, by) PROVE Truthful'
  <2>1. UNCHANGED <<events, pc, act, me, changed, given, taken, history, answer, received, resolved>>
    BY <1>20 DEF RaiseEscalation, people, incidentVars, requestVars
  <2>2. QED
    BY <2>1, TruthUnread
<1>21. CASE UNCHANGED vars
  <2>1. UNCHANGED <<events, pc, act, me, changed, given, taken, history, answer, received, resolved>>
    BY <1>21 DEF vars, people, escalationVars, incidentVars, requestVars
  <2>2. QED
    BY <2>1, TruthUnread
<1>22. ASSUME NEW r \in Requests, ConsoleAudit(r) PROVE Truthful'
  <2>1. Stepped(r) /\ Ended(r) /\ pc[r] = "console" /\ UNCHANGED <<people, escalationVars, incidentVars>>
    BY <1>22, ConsoleOutcome
  <2>2. UNCHANGED <<given, taken, history, answer, received, resolved>>
    BY <2>1 DEF people, escalationVars, incidentVars
  <2>3. True(ConsoleSays(r), me[r], act[r].of, act[r].what)
    BY <2>1 DEF ConsoleSays, True, Truthful, TrueOf, GivenFirst
  <2>4. events' = events \cup {Event(ConsoleSays(r), me[r], act[r].of, act[r].what)}
    BY <1>22 DEF ConsoleAudit
  <2>5. ASSUME NEW v \in events' PROVE True(v.event, v.by, v.of, v.what)
    BY <2>3, <2>4, <2>5 DEF Truthful, Event
  <2>6. \A v \in events' : True(v.event, v.by, v.of, v.what)'
    BY <2>2, <2>5 DEF True
  <2>7. ASSUME NEW q \in Requests, pc'[q] \in {"record", "audit", "console"}
        PROVE  /\ q # r /\ pc[q] = pc'[q] /\ act'[q] = act[q] /\ me'[q] = me[q]
               /\ changed'[q] = changed[q]
    BY <2>1, <2>7 DEF Stepped, Ended
  <2>8. ASSUME NEW q \in Requests, pc'[q] = "record" PROVE resolved'[act'[q].of] = me'[q]
    BY <2>2, <2>7, <2>8 DEF Truthful
  <2>9. ASSUME NEW q \in Requests, pc'[q] \in {"audit", "console"}, changed'[q] PROVE TrueOf(q)'
    <3>1. /\ pc[q] \in {"audit", "console"} /\ changed[q]
          /\ act'[q] = act[q] /\ me'[q] = me[q]
      BY <2>7, <2>9
    <3>2. QED
      BY <2>2, <3>1 DEF Truthful, TrueOf, True
  <2>10. QED
    BY <2>6, <2>8, <2>9 DEF Truthful
<1>23. QED
  BY <1>1, <1>2, <1>3, <1>4, <1>5, <1>6, <1>7, <1>8, <1>9, <1>10, <1>11, <1>12, <1>13,
     <1>14, <1>15, <1>16, <1>17, <1>18, <1>19, <1>20, <1>21, <1>22 DEF Next, Writing

-----------------------------------------------------------------------------
LEMMA InitIInv == Init => IInv
<1> SUFFICES ASSUME Init PROVE IInv
  OBVIOUS
<1>1. PICK others \in SUBSET (Humans \ Fixtures) :
        /\ status = [h \in Humans |->
                        IF h \in {Founder} \cup others \cup Fixtures THEN "active" ELSE "absent"]
        /\ roles = {<<h, IVAN>> : h \in {Founder} \cup others} \cup {<<h, OFFICER>> : h \in Fixtures}
  BY DEF Init
<1>2. Founder \in Humans \ Fixtures /\ Fixtures \subseteq Humans
  BY GovernanceConstants
<1>3. roles \subseteq Humans \X Roles
  BY <1>1, <1>2 DEF Roles
<1>4. given \subseteq Humans \X Roles \X Humans
  BY <1>2, <1>3 DEF Init
<1>5. TypeOK
  <2>1. status \in [Humans -> {"absent", "active", "suspended"}]
    BY <1>1
  <2>2. None \in People \ Fixtures
    BY <1>2, GovernanceConstants DEF People
  <2>3. 0 \in 0 .. agenda.requests
    BY GovernanceConstants DEF Init
  <2>4. QED
    BY <1>3, <1>4, <2>1, <2>2, <2>3 DEF Init, TypeOK
<1>6. Formed
  BY DEF Init, Formed
<1>7. NoFixtureRules
  <2>1. IVAN # OFFICER
    BY DEF IVAN, OFFICER
  <2>2. \A h \in Fixtures : <<h, IVAN>> \notin roles
    BY <1>1, <1>2, <2>1
  <2>3. \A h \in Fixtures : status[h] # "absent"
    BY <1>1, <1>2
  <2>4. QED
    BY <2>2, <2>3 DEF Init, NoFixtureRules, Under
<1>8. Remaining
  <2>1. Founder \in Administrators
    BY <1>1, <1>2 DEF Administrators
  <2>2. QED
    BY <2>1 DEF Init, Remaining, Removal
<1>9. Routed
  BY DEF Init, Routed, Under
<1>10. Truthful
  BY DEF Init, Truthful
<1>11. Found_
  BY DEF Init, Found_
<1>12. GivenFirst
  <2>1. \A g \in roles : <<g[1], g[2], Founder>> \in given
    BY DEF Init
  <2>2. QED
    BY <1>2, <2>1 DEF Init, GivenFirst
<1>13. QED
  BY <1>5, <1>6, <1>7, <1>8, <1>9, <1>10, <1>11, <1>12 DEF IInv

LEMMA Invariant == Spec => []IInv
<1>1. IInv /\ [Next]_vars => IInv'
  BY TypeOKStep, FormedStep, NoFixtureRulesStep, RemainingStep, RoutedStep,
     GivenFirstStep, TruthfulStep, Found_Step DEF IInv
<1>2. QED
  BY <1>1, InitIInv, PTL DEF Spec

\* The variables of Governance keep their types: above all, no fixture is ever
\* the recipient of escalations.
THEOREM TypeCorrect == Spec => []TypeOK
<1>1. IInv => TypeOK
  BY DEF IInv
<1>2. QED
  BY <1>1, Invariant, PTL

\* An administrator remains for every number of humans and of requests, unless
\* two removals were decided side by side (AdministratorRemains).
THEOREM AdministratorRemainsHolds == Spec => []AdministratorRemains
<1>1. IInv => AdministratorRemains
  BY DEF IInv, Remaining, AdministratorRemains
<1>2. QED
  BY <1>1, Invariant, PTL

\* What an event says is on record: by that human, but for the console's event
\* of a grant, which says only that somebody gave the role (EventsAreTrue).
THEOREM EventsAreTrueHolds == Spec => []EventsAreTrue
<1>1. IInv => EventsAreTrue
  BY DEF IInv, Truthful, True, EventsAreTrue
<1>2. QED
  BY <1>1, Invariant, PTL

\* Two discharges in force together were filed side by side
\* (LaterFilingReplaces).
THEOREM LaterFilingReplacesHolds == Spec => []LaterFilingReplaces
<1>1. IInv => LaterFilingReplaces
  BY DEF IInv, Found_, LaterFilingReplaces
<1>2. QED
  BY <1>1, Invariant, PTL

\* The first answer to an escalation stands (FirstAnswerStands).
THEOREM FirstAnswerStandsHolds == Spec => FirstAnswerStands
<1> DEFINE Stands == \A e \in Escalations :
                         /\ answer[e] # None => answer'[e] = answer[e]
                         /\ answer'[e] # None => received[e] = to[e]
<1>1. ASSUME IInv, Next PROVE Stands
  <2>1. Formed /\ Routed /\ TypeOK
    BY <1>1 DEF IInv
  <2>2. ASSUME NEW r \in Requests, RecordAnswer(r) PROVE Stands
    BY <2>1, <2>2, ActIsOf DEF Routed, RecordAnswer, Writes, Unanswered, Under
  <2>3. ASSUME answer' = answer PROVE Stands
    BY <2>1, <2>3 DEF Routed
  <2>4. QED
    <3>1. ASSUME NEW r \in Requests, Writing(r), ~ RecordAnswer(r)
          PROVE  answer' = answer
      BY <3>1 DEF Writing, GrantRole, RevokeRole, Suspend, Activate, SuspendFixtures,
         CreateHuman, NameRecipient, RecordReceipt, FileIncident, AppendAccount, Resolve,
         RecordHistory, Supersede, FileDischarge, escalationVars
    <3>2. ASSUME NEW r \in Requests,
                 \/ \E h \in Humans, a \in Acts : Arrive(r, h, a)
                 \/ Decide(r) \/ Audit(r) \/ ConsoleAudit(r) \/ Die(r)
          PROVE  answer' = answer
      BY <3>2 DEF Arrive, Decide, Audit, ConsoleAudit, Die, escalationVars
    <3>3. ASSUME NEW e \in Escalations, NEW p, NEW by \in People, RaiseEscalation(e, p, by)
          PROVE  answer' = answer
      BY <3>3 DEF RaiseEscalation
    <3> HIDE DEF Stands
    <3>4. QED
      BY <1>1, <2>2, <2>3, <3>1, <3>2, <3>3 DEF Next
<1>2. ASSUME IInv, UNCHANGED vars PROVE UNCHANGED vars
  BY <1>2
<1>3. IInv /\ [Next]_vars => [Stands]_vars
  BY <1>1
<1>4. QED
  BY <1>3, Invariant, PTL DEF Spec, FirstAnswerStands
=============================================================================
