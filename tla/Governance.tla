------------------------------ MODULE Governance ------------------------------
(***************************************************************************)
(* The humans of the office and what they do through the console           *)
(* (broker/humans.py, broker/escalation.py, broker/incidents.py,           *)
(* broker/discharges.py and the routes of broker/app.py that call them).   *)
(*                                                                         *)
(* A request is authenticated: it carries the roles its human held at that *)
(* moment from there on.  It is then decided, on those roles and on what   *)
(* the tables say now; it writes, and commits; and only after the commit   *)
(* does it write its audit event, in a transaction of its own; a change of *)
(* roles by the console then writes the route's event, in another.  It may *)
(* die between any two of these.  A role is taken to hold for every        *)
(* venture and the tables are one venture's.                               *)
(***************************************************************************)
EXTENDS Integers, FiniteSets

CONSTANTS
    Humans,
    Fixtures,     \* those whose origin is test_fixture
    Founder,      \* the human the bootstrap made
    Escalations, Incidents, Discharges, Texts,
    Requests,     \* requests under way at one time
    Agendas,      \* bound: what one behaviour's humans ask for, and how often
    None          \* no human, no text

ASSUME GovernanceConstants ==
    /\ Fixtures \subseteq Humans
    /\ Founder \in Humans \ Fixtures
    /\ \A g \in Agendas : g.requests \in Nat
    /\ None \notin Humans \cup Texts \cup Escalations \cup Incidents

OPERATOR == "venture_operator"
OFFICER == "compliance_officer"
IVAN == "ivan"
Roles == {OPERATOR, OFFICER, IVAN}
RoleRank == [r \in Roles |-> CASE r = OPERATOR -> 1 [] r = OFFICER -> 2 [] r = IVAN -> 3]

VARIABLES
    status,      \* office_human: absent, active or suspended
    roles,       \* live rows of office_human_role: <<human, role>>
    given,       \* every row of it ever: <<human, role, granted_by>>
    taken,       \* those revoked: <<human, role, revoked_by>>
    recipient,   \* escalation_recipient
    path, raiser, to, received, answer,   \* escalation_record
    filed, accounts, resolved,            \* incident and its two tables
    history,     \* institutional records of a resolution
    live, used,  \* obligation_discharge: in force, and all of them
    events,      \* the audit log
    \* a request
    pc, me, act, held, seen,
    changed,     \* its write changed a row
    agenda,      \* what this behaviour's humans ask for
    requests,    \* how many requests there have been
    \* history, read by properties only
    clash,       \* an administrator was removed under another such decision
    before,      \* the discharges filed before a request's decision
    predates     \* the discharges filed before the decision to file this one

people == <<status, roles, given, taken>>
escalationVars == <<recipient, path, raiser, to, received, answer>>
incidentVars == <<filed, accounts, resolved, history>>
dischargeVars == <<live, used, predates>>
requestVars == <<pc, me, act, held, seen, changed, before, requests>>
vars == <<people, escalationVars, incidentVars, dischargeVars, events, requestVars, agenda,
          clash>>

People == Humans \cup {None}

\* What can be asked, of whom or about what.  Nobody asks for "endow": it is
\* the grant that a request to create a human with a role goes on to.
Acts ==
    [do : {"grant", "revoke", "create", "endow"}, of : Humans, what : Roles]
    \cup [do : {"create", "suspend", "activate", "name"}, of : Humans, what : {None}]
    \cup [do : {"fixtures", "discharge"}, of : {None}, what : {None}]
    \cup [do : {"receive"}, of : Escalations, what : {None}]
    \cup [do : {"answer"}, of : Escalations, what : Texts]
    \cup [do : {"file", "account", "resolve"}, of : Incidents, what : {None}]

Idle == [do |-> "nothing", of |-> None, what |-> None]

Event(e, by, of, what) == [event |-> e, by |-> by, of |-> of, what |-> what]

TypeOK ==
    /\ status \in [Humans -> {"absent", "active", "suspended"}]
    /\ roles \subseteq Humans \X Roles
    /\ given \subseteq Humans \X Roles \X Humans
    /\ taken \subseteq Humans \X Roles \X Humans
    /\ recipient \in People \ Fixtures
    /\ path \in [Escalations -> {"unraised", "governance", "operational"}]
    /\ raiser \in [Escalations -> People]
    /\ to \in [Escalations -> People]
    /\ received \in [Escalations -> People]
    /\ answer \in [Escalations -> Texts \cup {None}]
    /\ filed \subseteq Incidents
    /\ accounts \subseteq Incidents \X Humans
    /\ resolved \in [Incidents -> People]
    /\ history \subseteq Incidents \X Humans
    /\ live \subseteq used
    /\ used \subseteq Discharges
    /\ pc \in [Requests -> {"idle", "in", "write", "file", "record", "audit", "console"}]
    /\ me \in [Requests -> People]
    /\ act \in [Requests -> Acts \cup {Idle}]
    /\ held \in [Requests -> SUBSET Roles]
    /\ seen \in [Requests -> SUBSET (Humans \cup Discharges)]
    /\ changed \in [Requests -> BOOLEAN]
    /\ agenda \in Agendas
    /\ requests \in 0 .. agenda.requests
    /\ clash \in BOOLEAN
    /\ before \in [Requests -> SUBSET Discharges]
    /\ predates \in [Discharges -> SUBSET Discharges]

\* The bootstrap made one human, who granted themself their role; they may
\* have made others of their kind, and the suites have made the fixtures.
Init ==
    /\ \E others \in SUBSET (Humans \ Fixtures) :
        /\ status = [h \in Humans |->
                        IF h \in {Founder} \cup others \cup Fixtures THEN "active" ELSE "absent"]
        /\ roles = {<<h, IVAN>> : h \in {Founder} \cup others} \cup {<<h, OFFICER>> : h \in Fixtures}
    /\ given = {<<g[1], g[2], Founder>> : g \in roles}
    /\ taken = {}
    /\ recipient = None
    /\ path = [e \in Escalations |-> "unraised"]
    /\ raiser = [e \in Escalations |-> None]
    /\ to = [e \in Escalations |-> None]
    /\ received = [e \in Escalations |-> None]
    /\ answer = [e \in Escalations |-> None]
    /\ filed = {}
    /\ accounts = {}
    /\ resolved = [i \in Incidents |-> None]
    /\ history = {}
    /\ live = {}
    /\ used = {}
    /\ events = {}
    /\ pc = [r \in Requests |-> "idle"]
    /\ me = [r \in Requests |-> None]
    /\ act = [r \in Requests |-> Idle]
    /\ held = [r \in Requests |-> {}]
    /\ seen = [r \in Requests |-> {}]
    /\ changed = [r \in Requests |-> FALSE]
    /\ agenda \in Agendas
    /\ requests = 0
    /\ clash = FALSE
    /\ before = [r \in Requests |-> {}]
    /\ predates = [d \in Discharges |-> {}]

Administrators == {h \in Humans : status[h] = "active" /\ <<h, IVAN>> \in roles}

-----------------------------------------------------------------------------
(* Who may do what.                                                        *)

RolesOf(h) == {r \in Roles : <<h, r>> \in roles}

\* A bearer token, and an account active now.
Arrive(r, h, a) ==
    /\ pc[r] = "idle"
    /\ a.do \in agenda.deeds /\ a.do # "endow" /\ a.what \in agenda.whats
    /\ requests < agenda.requests
    /\ status[h] = "active"
    /\ me' = [me EXCEPT ![r] = h]
    /\ act' = [act EXCEPT ![r] = a]
    /\ held' = [held EXCEPT ![r] = RolesOf(h)]
    /\ pc' = [pc EXCEPT ![r] = "in"]
    /\ requests' = requests + 1
    /\ UNCHANGED <<people, escalationVars, incidentVars, dischargeVars, events, seen, changed, before,
                   agenda, clash>>

Authorized(r, role) == \E own \in held[r] : RoleRank[own] >= RoleRank[role]

\* Strictly stronger, except at the top.
MayGrant(r, role) ==
    \E own \in held[r] : RoleRank[own] > RoleRank[role] \/ (own = role /\ role = IVAN)

\* Mutant of NotTheLast: nobody counts the others.
NotTheLast_Any(h) == TRUE

\* assert_not_the_last_administrator.
NotTheLast(h) == <<h, IVAN>> \in roles => Administrators \ {h} # {}

\* assert_named_human: not a fixture.
IsNamed(h) == h \notin Fixtures

OnlyTheRouted(r, e) ==
    /\ IsNamed(me[r])
    /\ me[r] = to[e]
    /\ me[r] # raiser[e]

\* The routes' guards, one operator each.
MaySetRole(r) ==
    LET a == act[r] IN
    /\ a.do \in {"grant", "revoke"}
    /\ status[a.of] # "absent"
    /\ MayGrant(r, a.what)
    /\ a.do = "grant" => a.of # me[r] /\ (a.what = IVAN => a.of \notin Fixtures)
    /\ a.do = "revoke" /\ a.what = IVAN => NotTheLast(a.of)

MaySetStatus(r) ==
    LET a == act[r] IN
    /\ a.do \in {"suspend", "activate"}
    /\ status[a.of] # "absent"
    /\ Authorized(r, OFFICER)
    /\ a.do = "suspend" => NotTheLast(a.of) /\ a.of # me[r]

MayCreate(r) ==
    LET a == act[r] IN
    /\ a.do = "create"
    /\ status[a.of] = "absent"
    /\ Authorized(r, OFFICER)
    /\ a.what # None => MayGrant(r, a.what)

MaySuspendFixtures(r) == act[r].do = "fixtures" /\ Authorized(r, IVAN)

MayName(r) ==
    LET a == act[r] IN
    /\ a.do = "name"
    /\ Authorized(r, IVAN)
    /\ status[a.of] # "absent"
    /\ IsNamed(me[r]) /\ IsNamed(a.of)

MayReceive(r) == act[r].do = "receive" /\ OnlyTheRouted(r, act[r].of)

MayAnswer(r) ==
    LET e == act[r].of IN
    /\ act[r].do = "answer"
    /\ OnlyTheRouted(r, e)
    /\ received[e] # None

MayFile(r) == act[r].do = "file" /\ Authorized(r, OFFICER)

MayAccount(r) ==
    /\ act[r].do = "account"
    /\ act[r].of \in filed
    /\ Authorized(r, OPERATOR)

MayResolve(r) ==
    LET i == act[r].of IN
    /\ act[r].do = "resolve"
    /\ i \in filed /\ resolved[i] = None
    /\ Authorized(r, OFFICER)

MayDischarge(r) == act[r].do = "discharge" /\ Authorized(r, IVAN)

Allowed(r) ==
    \/ MaySetRole(r) \/ MaySetStatus(r) \/ MayCreate(r) \/ MaySuspendFixtures(r)
    \/ MayName(r) \/ MayReceive(r) \/ MayAnswer(r)
    \/ MayFile(r) \/ MayAccount(r) \/ MayResolve(r) \/ MayDischarge(r)

\* What a decision read and its write will use: the fixtures to suspend, or
\* the rows an UPDATE of the discharges finds.
Found(r) ==
    CASE act[r].do = "fixtures" -> {h \in Fixtures : status[h] = "active"} \ {me[r]}
      [] act[r].do = "discharge" -> live
      [] OTHER -> {}

Finish(r) ==
    /\ pc' = [pc EXCEPT ![r] = "idle"]
    /\ me' = [me EXCEPT ![r] = None]
    /\ act' = [act EXCEPT ![r] = Idle]
    /\ held' = [held EXCEPT ![r] = {}]
    /\ seen' = [seen EXCEPT ![r] = {}]
    /\ changed' = [changed EXCEPT ![r] = FALSE]
    /\ before' = [before EXCEPT ![r] = {}]

Decide(r) ==
    /\ pc[r] = "in"
    /\ IF Allowed(r)
       THEN /\ pc' = [pc EXCEPT ![r] = "write"]
            /\ seen' = [seen EXCEPT ![r] = Found(r)]
            /\ before' = [before EXCEPT ![r] = IF act[r].do = "discharge" THEN used ELSE {}]
            /\ UNCHANGED <<me, act, held, changed>>
       ELSE Finish(r)
    /\ UNCHANGED <<people, escalationVars, incidentVars, dischargeVars, events, requests, agenda, clash>>

Die(r) ==
    /\ pc[r] # "idle"
    /\ Finish(r)
    /\ UNCHANGED <<people, escalationVars, incidentVars, dischargeVars, events, requests, agenda, clash>>

-----------------------------------------------------------------------------
(* The writes.  Each commits, and notes whether it changed a row.          *)

Writes(r, deed) == pc[r] = "write" /\ act[r].do = deed

Committed(r, did) ==
    /\ pc' = [pc EXCEPT ![r] = "audit"]
    /\ seen' = [seen EXCEPT ![r] = {}]
    /\ changed' = [changed EXCEPT ![r] = did]
    /\ before' = [before EXCEPT ![r] = {}]
    /\ UNCHANGED <<me, act, held, requests, events>>

\* grant_role, from either route: ON CONFLICT DO NOTHING.
GrantRole(r) ==
    LET row == <<act[r].of, act[r].what>> IN
    /\ Writes(r, "grant") \/ Writes(r, "endow")
    /\ roles' = roles \cup {row}
    /\ given' = IF row \in roles THEN given ELSE given \cup {<<row[1], row[2], me[r]>>}
    /\ Committed(r, row \notin roles)
    /\ UNCHANGED <<status, taken, escalationVars, incidentVars, dischargeVars, agenda, clash>>

\* A removal of an administrator that another has not finished deciding on.
Removal(r) ==
    /\ pc[r] = "write"
    /\ \/ act[r].do = "revoke" /\ act[r].what = IVAN
       \/ act[r].do = "suspend"

Clashes(r) == act[r].of \in Administrators /\ \E q \in Requests \ {r} : Removal(q)

RevokeRole(r) ==
    LET row == <<act[r].of, act[r].what>> IN
    /\ Writes(r, "revoke")
    /\ roles' = roles \ {row}
    /\ taken' = IF row \in roles THEN taken \cup {<<row[1], row[2], me[r]>>} ELSE taken
    /\ clash' = (clash \/ (row[2] = IVAN /\ Clashes(r)))
    /\ Committed(r, row \in roles)
    /\ UNCHANGED <<status, given, escalationVars, incidentVars, dischargeVars, agenda>>

Suspend(r) ==
    /\ Writes(r, "suspend")
    /\ status' = [status EXCEPT ![act[r].of] = "suspended"]
    /\ clash' = (clash \/ Clashes(r))
    /\ Committed(r, TRUE)
    /\ UNCHANGED <<roles, given, taken, escalationVars, incidentVars, dischargeVars, agenda>>

Activate(r) ==
    /\ Writes(r, "activate")
    /\ status' = [status EXCEPT ![act[r].of] = "active"]
    /\ Committed(r, TRUE)
    /\ UNCHANGED <<roles, given, taken, escalationVars, incidentVars, dischargeVars, agenda, clash>>

\* suspend_test_fixtures: every account read as an active fixture.
SuspendFixtures(r) ==
    /\ Writes(r, "fixtures")
    /\ status' = [h \in Humans |-> IF h \in seen[r] THEN "suspended" ELSE status[h]]
    /\ Committed(r, TRUE)
    /\ UNCHANGED <<roles, given, taken, escalationVars, incidentVars, dischargeVars, agenda, clash>>

\* create_human.  A request for a human with a role goes on to grant it.
CreateHuman(r) ==
    /\ Writes(r, "create")
    /\ status[act[r].of] = "absent"
    /\ status' = [status EXCEPT ![act[r].of] = "active"]
    /\ Committed(r, TRUE)
    /\ UNCHANGED <<roles, given, taken, escalationVars, incidentVars, dischargeVars, agenda, clash>>

NameRecipient(r) ==
    /\ Writes(r, "name")
    /\ recipient' = act[r].of
    /\ Committed(r, TRUE)
    /\ UNCHANGED <<people, path, raiser, to, received, answer, incidentVars, dischargeVars, agenda, clash>>

RecordReceipt(r) ==
    LET e == act[r].of IN
    /\ Writes(r, "receive")
    /\ received' = [received EXCEPT ![e] = IF @ = None THEN me[r] ELSE @]
    /\ Committed(r, received[e] = None)
    /\ UNCHANGED <<people, recipient, path, raiser, to, answer, incidentVars, dischargeVars, agenda, clash>>

\* Mutant of Unanswered: the UPDATE has no "AND answered_at IS NULL".
Unanswered_Any(e) == TRUE

Unanswered(e) == answer[e] = None

\* Mutant of Said: the event is written whatever the UPDATE changed.
Said_Any(r) == TRUE

\* Whether record_answer's UPDATE changed the row.
Said(r) == Unanswered(act[r].of)

RecordAnswer(r) ==
    LET e == act[r].of IN
    /\ Writes(r, "answer")
    /\ answer' = [answer EXCEPT ![e] = IF Unanswered(e) THEN act[r].what ELSE @]
    /\ Committed(r, Said(r))
    /\ UNCHANGED <<people, recipient, path, raiser, to, received, incidentVars, dischargeVars, agenda, clash>>

\* file_by_hand: the incident and its first account.
FileIncident(r) ==
    LET i == act[r].of IN
    /\ Writes(r, "file")
    /\ i \notin filed
    /\ filed' = filed \cup {i}
    /\ accounts' = accounts \cup {<<i, me[r]>>}
    /\ Committed(r, TRUE)
    /\ UNCHANGED <<people, escalationVars, resolved, history, dischargeVars, agenda, clash>>

AppendAccount(r) ==
    /\ Writes(r, "account")
    /\ accounts' = accounts \cup {<<act[r].of, me[r]>>}
    /\ Committed(r, TRUE)
    /\ UNCHANGED <<people, escalationVars, filed, resolved, history, dischargeVars, agenda, clash>>

\* resolve: one row an incident, so of two that both read none the second
\* fails; then a record of its own, and the event.
Resolve(r) ==
    LET i == act[r].of IN
    /\ Writes(r, "resolve")
    /\ IF resolved[i] = None
       THEN /\ resolved' = [resolved EXCEPT ![i] = me[r]]
            /\ pc' = [pc EXCEPT ![r] = "record"]
            /\ UNCHANGED <<me, act, held, seen, changed, before>>
       ELSE /\ Finish(r)
            /\ UNCHANGED resolved
    /\ UNCHANGED <<people, escalationVars, filed, accounts, history, dischargeVars, events,
                   requests, agenda, clash>>

RecordHistory(r) ==
    /\ pc[r] = "record"
    /\ history' = history \cup {<<act[r].of, me[r]>>}
    /\ Committed(r, TRUE)
    /\ UNCHANGED <<people, escalationVars, filed, accounts, resolved, dischargeVars, agenda, clash>>

\* file_discharge.  Its UPDATE waits for the rows it found, and leaves those
\* somebody has superseded meanwhile; a row filed since it began it never sees.
Supersede(r) ==
    /\ Writes(r, "discharge")
    /\ \A q \in Requests : pc[q] = "file" => seen[q] \cap seen[r] = {}
    /\ seen' = [seen EXCEPT ![r] = @ \cap live]
    /\ pc' = [pc EXCEPT ![r] = "file"]
    /\ UNCHANGED <<people, escalationVars, incidentVars, dischargeVars, events, me, act, held,
                   changed, before, requests, agenda, clash>>

\* Mutant of InForce: the UPDATE stamps one of the rows it found.
InForce_One(r, d) ==
    (live \ (IF seen[r] = {} THEN {} ELSE {CHOOSE x \in seen[r] : TRUE})) \cup {d}

InForce(r, d) == (live \ seen[r]) \cup {d}

FileDischarge(r, d) ==
    /\ pc[r] = "file"
    /\ d \notin used
    /\ live' = InForce(r, d)
    /\ used' = used \cup {d}
    /\ predates' = [predates EXCEPT ![d] = before[r]]
    /\ Committed(r, TRUE)
    /\ UNCHANGED <<people, escalationVars, incidentVars, agenda, clash>>

\* The event of the function that wrote, after its commit: grant_role,
\* revoke_role and the escalation's two write none if no row changed.
Audit(r) ==
    /\ pc[r] = "audit"
    /\ events' = IF changed[r] THEN events \cup {Event(act[r].do, me[r], act[r].of, act[r].what)}
                 ELSE events
    /\ CASE act[r].do = "create" /\ act[r].what # None ->
              /\ pc' = [pc EXCEPT ![r] = "write"]
              /\ act' = [act EXCEPT ![r].do = "endow"]
              /\ changed' = [changed EXCEPT ![r] = FALSE]
              /\ UNCHANGED <<me, held, seen, before>>
         [] act[r].do \in {"grant", "revoke"} ->
              /\ pc' = [pc EXCEPT ![r] = "console"]
              /\ UNCHANGED <<me, act, held, seen, changed, before>>
         [] OTHER -> Finish(r)
    /\ UNCHANGED <<people, escalationVars, incidentVars, dischargeVars, requests, agenda, clash>>

\* What set_role's own event says: of a removal whether the role existed, of
\* a grant nothing of the kind.
ConsoleSays(r) ==
    CASE act[r].do = "grant" -> "console_granted"
      [] act[r].do = "revoke" /\ changed[r] -> "console_revoked"
      [] OTHER -> "console_revoked_nothing"

\* set_role's own event, whatever the function changed and after the
\* function's own.
ConsoleAudit(r) ==
    /\ pc[r] = "console"
    /\ events' = events \cup {Event(ConsoleSays(r), me[r], act[r].of, act[r].what)}
    /\ Finish(r)
    /\ UNCHANGED <<people, escalationVars, incidentVars, dischargeVars, requests, agenda, clash>>

-----------------------------------------------------------------------------
\* raise_escalation: to the recipient named, if active, or inside the Village.
RaiseEscalation(e, p, by) ==
    /\ path[e] = "unraised"
    /\ path' = [path EXCEPT ![e] = p]
    /\ raiser' = [raiser EXCEPT ![e] = by]
    /\ \/ /\ p = "governance"
          /\ recipient # None
          /\ status[recipient] = "active"
          /\ to' = [to EXCEPT ![e] = recipient]
       \/ /\ p = "operational"
          /\ UNCHANGED to
    /\ UNCHANGED <<people, recipient, received, answer, incidentVars, dischargeVars, events,
                   requestVars, agenda, clash>>

Writing(r) ==
    \/ GrantRole(r) \/ RevokeRole(r)
    \/ Suspend(r) \/ Activate(r) \/ SuspendFixtures(r) \/ CreateHuman(r)
    \/ NameRecipient(r) \/ RecordReceipt(r) \/ RecordAnswer(r)
    \/ FileIncident(r) \/ AppendAccount(r) \/ Resolve(r) \/ RecordHistory(r)
    \/ Supersede(r) \/ \E d \in Discharges : FileDischarge(r, d)

Next ==
    \/ \E r \in Requests :
          \/ \E h \in Humans, a \in Acts : Arrive(r, h, a)
          \/ Decide(r) \/ Writing(r) \/ Audit(r) \/ ConsoleAudit(r) \/ Die(r)
    \/ \E e \in Escalations, p \in {"governance", "operational"}, by \in People :
          RaiseEscalation(e, p, by)

Spec == Init /\ [][Next]_vars

-----------------------------------------------------------------------------
(* Properties.                                                             *)

\* Somebody active can always administer the office, unless two removals of
\* administrators were decided side by side (broker/humans.py,
\* assert_not_the_last_administrator, counts and then writes).
AdministratorRemains == clash \/ Administrators # {}

\* The first answer to an escalation stands, whoever answers again, and was
\* preceded by a receipt (broker/escalation.py, record_answer).
FirstAnswerStands ==
    [][\A e \in Escalations :
         /\ answer[e] # None => answer'[e] = answer[e]
         /\ answer'[e] # None => received[e] = to[e]]_vars

\* What the audit log says is on record.  The events the writing functions
\* leave name the very act: the answer, the receipt, the grant, the removal or
\* the resolution, by that human.  Of set_role's own events, a removal that
\* says the role existed is that human's; but a grant is written also for a
\* role already held, so its human need not be the one who gave it: all that
\* holds is that somebody had (broker/humans.py, grant_role and revoke_role;
\* broker/escalation.py, record_receipt and record_answer; broker/app.py,
\* set_role).
EventsAreTrue ==
    \A v \in events :
        /\ v.event = "answer" => answer[v.of] = v.what /\ received[v.of] = v.by
        /\ v.event = "receive" => received[v.of] = v.by
        /\ v.event \in {"grant", "endow"} => <<v.of, v.what, v.by>> \in given
        /\ v.event \in {"revoke", "console_revoked"} => <<v.of, v.what, v.by>> \in taken
        /\ v.event = "console_granted" => \E h \in Humans : <<v.of, v.what, h>> \in given
        /\ v.event = "resolve" => resolved[v.of] = v.by /\ <<v.of, v.by>> \in history

\* Two discharges of one obligation are in force together only if they were
\* filed side by side: a filing replaces everything filed before it was decided
\* on, and nothing replaced comes back (broker/discharges.py, file_discharge).
LaterFilingReplaces == \A d, e \in live : e \notin predates[d]
=============================================================================
