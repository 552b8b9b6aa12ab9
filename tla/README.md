# The Office broker in TLA+

The Office gives AI agents governed access to outside systems, the Forges. A
broker decides whether an agent may act, writes down that it is about to act,
acts, and accounts for it; around that path stand humans who approve and
revoke, a provisioning ladder that builds and certifies a venture's agents,
shifts that keep one venture's PHI away from the next, and background sweeps
that look for what the rest has missed. All shared state is in PostgreSQL;
almost every hard behaviour comes from the fact that each step of an operation
opens a connection of its own at READ COMMITTED (`broker/db.py`), so the steps
of concurrent operations interleave and a process may die between any two.

Paths below are relative to the repository's `src` directory; `PROJECT.json`
names, for each definition, the lines it models.

## 1. Inventory

| component | state it keeps | operations | hard behaviour | what makes it correct |
|---|---|---|---|---|
| Call path (`client/office_client.py`) | none of its own; one call's local variables | `call`, its nine gates, `_audit_intent`, `_write_ledger`, `_spend_approval`, `_fail_approved` | two calls with one key; death between any two steps; a Forge that took the request and did not answer | no act without an intent, an approval below auto_execute, and an account of it |
| Proposals (`broker/proposals.py`, `deadlines.py`) | `proposal` | submit, decide, expire, mark_executed, mark_failed | deadline job against human against call | one settlement; executed means it happened |
| Call ledger (`broker/ledger.py`) | `agent_call_ledger` | record, has_prior_call | the guard reads before, the row is written after | an at_most_once act with a row is not repeated |
| Revocation, grants (`revocation.py`, `grants.py`) | `revocation`, `agent_forge_grant` | revoke, reinstate, resolve, retire, supersede, activate | revocation with calls in flight; a retirement against the ladder | a revoked agent starts nothing; coming back is no pardon |
| Limits, manifest (`limits.py`, `manifest.py`) | `rate_limit_bucket`, `throttle_factor`, `venture_forge_manifest`, `manifest_disposition` | acquire, throttle, check, reconcile | refill after a throttle; calls that wait on a row; connections held inside connections | what a Forge is sent is at most burst + rate x time; no call hangs |
| Budget ladder (`budget.py`) | `venture_budget` | evaluate, reverse | - (no code writes a cost, so it reads zero) | - |
| Shifts (`shifts.py`, `staffing.py`) | `shift_assignment`, `agent_working_memory` | assign, rotate, flush, sweep, end, remember | writes during a flush; operators racing; shifts that end behind an assignment | no agent carries PHI between ventures |
| Audit log (`audit.py`, migrations 0003-0005) | `audit_log`, its sequence | append, verify, sweep | ids drawn before commit, stale snapshots, rollbacks | one chain, in id order; damage shows; no false alarm |
| Sweeps (`sweeps.py`) | `sweep_run`, `incident` | incomplete calls, ended shifts, chain, certifications, verdicts, manifests | stale candidate lists; passes that die | everything owed is reached in the end |
| Provisioning (`provisioning.py`, `runtime_config.py`) | `provisioning_run`, gate results, reviews, grants | start, advance, review, correct, sign, abort, reject, activate | a pass in flight while the run is closed; tables that move between two gates | no gate skipped; nothing live that was not vetted, feasible, certified and signed |
| Generators and rules (`generators/`) | none; they read the registry, the library, the roster and the Forge | generate, validate | every pass generates anew | what is checked is what is issued |
| SimForge, certification (`simforge.py`, `certification.py`) | `curriculum_submission`, `certification` | submit, ingest, time out, supersede, attest, recompute staleness | late, repeated, stale verdicts; a pass that dies between two writes | a certification rests on an answer about what it names |
| Humans (`humans.py`) | `office_human`, `office_human_role`, `signoff_record` | create, grant, revoke, suspend, sign | last administrator; signer equals reviewer | somebody may always act; two people for two duties |
| Escalation, incidents, discharges | `escalation_record`, `incident`, `obligation_discharge` | raise, receive, answer, file, resolve | two answers; overlapping filings; an event after the commit | the first answer stands; the log says nothing false |
| Packs, ventures, simulation | `business_pack`, `venture_simulation` | publish, draft, promote, tighten, declare, leave | a version stored again under a run; a publication that stops halfway | what is provisioned was validated; a live Pack remains |
| Instructions, Forge registry (`instructions.py`, `forge_modules.py`) | `forge_operating_instruction`, `forge_module_registry`, exclusions | author, register, verify, exclude | a remembered answer about modules that come and go | what is taught is dispatched |
| Knowledge, compliance library, couplings | `compliance_library_entry` and others | author, approve, review, amend | approval of words re-authored since | what is relied on was read |
| Roster, Village, departments | `village_agent`, `office_agent_identity` | import, sync, issue, reinstate | the Village moves during a sync | nobody acts who has left |
| Read models, HTTP API, console, bootstrap, schema | none, or configuration | queries, routes | - | - |

The parts meet in four ways. *Calls*: the call path asks revocation, grants,
shifts, limits and budget in a fixed order, and ends in the ledger. *Shared
rows*: a proposal is read by the call path and written by humans, the deadline
job and other calls; a shift is written by operators, the Village sync and the
sweep; a certification is written by the ingest sweep, the staleness passes and
a human, and read by three gates. *Jobs*: `sweeps.run_forever` and
`deadlines.run_forever` walk lists read at the start of each pass. *The audit
log*: every component appends to it, so all of them meet at its advisory lock.

## 2. What is modelled

| module | models | lines up with |
|---|---|---|
| `Approval` | what a human approval promises: submitted, decided or expired once, acted on only when granted, marked executed by a call that acted | abstract; refined by `CallPath` |
| `CallPath` | one action per step of `OfficeClient.call`, with every other call, the deciders, the deadline job, revocation, the incomplete-call sweep and death at any step | `office_client.py`, `proposals.py`, `ledger.py`, `deadlines.py`, `revocation.py`, `sweeps.py` |
| `Shifts` | assignment, rotation, the flush transaction in two halves, the sweep, the Village ending a shift, working memory | `shifts.py`, `staffing.py`, `sync_shifts.py`, `sweeps.py`, migrations 0001 and 0028 |
| `AuditChain` | the insert trigger with its lock and sequence, transactions, the verifier, the sweep, and an owner who edits or deletes rows | migrations 0003-0005, `audit.py`, `sweeps.py` |
| `Provisioning` | a venture's runs: the passes of `advance()` racing over the ladder of gates, reviews, signatures, abandonment and rejection, issuing and activation of grants | `provisioning.py`, `humans.py`, `runtime_config.py`, migrations 0011, 0018 |
| `Certificate` | what a certification promises: an exam answered once, a grade awarded for an answer to the unit's own exam or declared, silence that takes no grade away, a grade withdrawn, an exam settled once it was answered | abstract; refined by `Exams` |
| `Exams` | how a unit comes to be certified and stops being: Gate 8's submissions, SimForge's answers, the ingest sweep, `record_result`, staleness, attestation, certification for simulation, abort and supersession | `provisioning.py`, `simforge.py`, `sweeps.py`, `certification.py`, `attestation.py`, `instructions.py`, `simulation.py` |
| `Metering` | the token buckets and their throttle, the manifest check with its incident, the connection pool, the reconciliation sweep | `limits.py`, `manifest.py`, `incidents.py`, `db.py`, `sweeps.py` |
| `Governance` | accounts and roles, escalations, incidents, discharges, as requests that authenticate, decide, write, and record an audit event after the commit | `humans.py`, `escalation.py`, `incidents.py`, `discharges.py`, `app.py` |
| `Authority` | the Village's roster and the Office's copy, identities, the grants' life, the four revocation scopes, and what follows from them for a call | `roster.py`, `sync_roster.py`, `grants.py`, `revocation.py`, `runtime_config.py` |
| `Knowledge` | compliance entries: authored, approved, reviewed by counsel, by humans who read before they write; simulation | `knowledge.py`, `simulation.py` |
| `Packs` (extends `Knowledge`) | publishing, drafting, promoting and tightening Packs while runs read them | `packs.py`, `provisioning.py` |
| `Validator` | the rules of Gate 2 over the world they read: the Forge and the memory of its answer, registry, exclusions, instructions, library, discharges | `validator.py`, `forge_modules.py`, `pack.py`, `scripts/` |
| `Gates` (extends `Validator`) | what the generators decide and what each gate from 0 to 12 reads and writes, over a world that changes between passes and between gates | `generators/`, `provisioning.py`, `runtime_config.py` |
| `*Proofs` | the theorems of section 5 | |
| `MC*` | constants, agendas and symmetry for TLC; nothing else | |

**CallPath.** `pc[c]` is the place of call `c` in `call()`; each action is
the code between two points at which another actor can be noticed. `what[c]` is
the idempotency key with its Forge and module, `auth[c]` the proposal the call
acts under, `status/decidedAt/attempts/executedBy` the proposal rows (a call
submits at most one, so a proposal carries its call's name), `intents` the
`forge_call_intent` entries, `ledger` the rows, `reached` the requests that
landed at a Forge and `answered` those whose response came back. The grant row,
the shift, the manifest, the budget, the buckets and the credential answer
nondeterministically each time they are read, since whoever edits those tables
may do so between any two steps. `Abandon` is the death of the process, or an
error that leaves `call()`, after any step.

**Shifts.** Every statement filters on the agent, so one agent is modelled.
`FlushDelete` and `FlushVerify` are the two halves of `flush_phi`'s
transaction: what it deletes stays visible to others until the second commits,
and its recount sees what was committed since. `Staff` is the read-only plan,
`AssignCheck` the reads of `assign_shift` and `Insert` the statement the two
exclusion constraints guard; between them anybody may move.

**AuditChain.** The digest of an entry as appended is named by its id, because
the hash covers the id and ids are never given twice; collisions of SHA-256 are
left out. A transaction takes its id inside the trigger, under the lock, and may
still roll back, which leaves the id unused for ever. One writer may hold a
stale snapshot: the broker never does that, and the schema's UNIQUE(prev_hash)
is there for whoever does.

**Provisioning and Gates** are two views of one ladder. *Provisioning* has
passes that race: a pass is one invocation of `advance()`, it reads the run and
the review once, then walks the gates, each of which reads, answers and is
followed by the `_set_status` write. No lock is held and no write is guarded,
so `pc[p]` stands between a gate's answer and that write, and a human stands
between reading a run and closing it (`closing`). Sixteen gates fall into seven
steps, and what the generators yield is any version, known by its hash and by
the grants it plans. The partial index `ux_run_active` is `Clashes`. *Gates*
takes one pass at a time and says what Provisioning leaves to choice: what each
gate reads. A Pack is a record of what the rules, the generators and the
reviewers' hours depend on; `broken` holds the rules over the document alone
that it does not meet. `Generated` is what `run_all` decides (who sits where,
at which tier, with which flags), and it is computed anew by every pass.
`World` lists what may happen between any two steps of a pass: the Forge loses
a module or goes silent, a registry row is typed, verified or derived, a module
is excluded, an instruction rewritten, a certification recorded, an agent
revoked, a discharge filed. Three history variables are read by properties
alone: what Gate 2 saw, what Gate 5 issued, what Gate 8 opened.

**Exams.** An exam is named by its `run_ref`, that is by unit, basis and answer
key; what SimForge has stored for one it does not revise. A content hash is the
ordinal of the instruction's version. Gate 8 runs in one transaction that bears
the time it began (`since`), and an instruction may be authored meanwhile. The
ingest sweep is four actions (poll, upsert, mark, end) and a staleness pass two
(select, update), each of which may be the last before the process dies.

**Metering.** `at[c]` is `now()` of the acquiring transaction, which a call keeps
however long it then waits for the row; buckets are refilled when read, at the
rate in force at that moment. `InUse` counts the connections held by callers
that will ask for another one.

**Governance and Authority** share one shape, the console's: a request is
authenticated with the roles it then has, is decided on what the tables say,
writes and commits, and writes its audit event in another transaction. It may
die between any two. A change of roles leaves two events: `grant_role` and
`revoke_role` write theirs if a row changed (`Audit`), and `set_role` then
writes the console's whatever changed, saying of a removal whether the role
existed (`ConsoleAudit`). The grant that goes with a new account (`endow`)
leaves only the function's. In *Authority* nothing stores what an agent may do:
`Callable` derives it from roster, identity, grants and revocations, as
`resolve_grant` and `check_revocations` do.

**Knowledge and Packs.** Who may rely on an entry is a matter of whose reading
it rests on, so an entry keeps its text, its author, its approver and its
counsel. Packs composes it with a run that reads a version by its id at each
gate, and with the ladder's gates that ask the library.

## 3. The runs

| run | instance | question |
|---|---|---|
| `callpath` | 2 calls, 2 agents, a mutating and a reading act | approvals are not borrowed; the path implements `Approval`; a revoked agent starts nothing; every mutation ends in the ledger or an incident |
| `shifts` | 3 shifts, 2 ventures, 2 memories, 1 operator, 4 instants, 2 quarters | a verified flush is one; assignment waits for it |
| `shifts_live` | 2 shifts, 2 operators, 3 instants | one venture per agent-quarter; every ended shift is flushed |
| `audit_chain` | 3 writers, 1 of them on a stale snapshot, 4 ids | damage shows; alarms have a cause |
| `provisioning` | 2 runs, 2 passes, 1 operator, 2 versions of the same plan, 1 grant | one active run; no gate skipped; activation is earned |
| `exams` | a module and the department, 3 submissions, 2 versions, an attestation, a declaration | what counts as certified was earned on what the row names; silence closes nothing and erases no holder's row; `Exams` implements `Certificate` |
| `exams_live` | 2 submissions, 2 releases of the Forge, 2 answer keys | stale certifications are caught; owed answers are ingested |
| `metering` | 2 calls of one agent, a pool of 2, 4 seconds | a Forge's ceiling and a throttle hold in any order; no call hangs; no sweep passes over an undeclared use |
| `governance` | 2 people and a fixture, 2 requests at a time, six agendas | an administrator remains; events name acts on record; the first answer stands; later filings replace |
| `authority` | 2 agents, 2 requests at a time, seven agendas | who left cannot call; who returns is not pardoned; a grant is retired once |
| `packs` | 2 versions, 2 sources, 1 entry, 3 humans, 2 requests, five agendas | what is provisioned was validated; a live Pack remains; what is relied on was read |
| `gates` | 2 seats, 2 modules, 2 agents, 10 Packs, nine agendas | unattended tiers were vetted; issued grants are feasible; exams teach what is dispatched |

*Why the bounds suffice.* Two calls are the least with which one acts on a
proposal while the other spends or fails it; two agents and two acts show that
the WHERE clauses name both. Three shifts are one flushed, one ended and
unflushed, and one being assigned; two memories let one be deleted and one
survive a flush; four instants order a shift's start, its end, and an assignment
on both sides of it. Three writers are one that holds the lock, one that waits
and one on an old snapshot; four ids leave room for a rolled-back id between two
committed ones and one after. Two passes let one decide on what the other has
changed, on one run or with a run closed and another started between them; two
versions make a signature void. Three submissions are one answered, one that
replaces it and one left open by an abort; two versions of an instruction make
the first one's exam outdated. Two calls over two connections exhaust the pool
while both want a second one; four seconds see a throttle begin, end, and a call
that began before it. Two requests are the least that can decide on the same
row; each agenda names the deeds that touch one set of tables, because what one
asks for touches little that another's does, and bounds the requests of one
behaviour (`requests`). In `gates` a behaviour has an agenda too: which Packs
there are, what may change (`may`), how often (`moves`, at most three), and the
gates at which humans come between passes (`attended`). Two seats, one of them
carrying a flag, tell the two reviewers apart; two agents let one be revoked or
leave and the other take the seat; each Pack differs from the first in what one
rule or generator reads. The counters (`MaxTime`, `MaxQuarter`, `MaxId`,
`MaxVersion`, `MaxApi`, `MaxKey`, `MaxDeclared`, `MaxAttested`, `MaxClock`,
`Runs`, the passes and the agendas) are the only bounds on behaviour; the rest
is the number of actors. `CHECK_DEADLOCK FALSE` is given where the system may
come to rest: every call ended, every shift past, every id used; a run may wait
for ever for a human. `metering` checks deadlock: its clock and its sweep go on.

*What the runs leave to the proofs.* The type invariants of the call path, the
shifts, the chain, the ladder, the exams, metering, governance, authority and
the gates are proved (section 5) and not in the configurations; that of `packs`
is both checked and proved.

*Fairness.* Only background jobs and the runtime owe progress. `CallPath`: weak
fairness of the two passes for each row they would pick up, since both loops
catch their own errors and tick for ever; nothing is assumed of calls or of
humans. `Shifts`: weak fairness of starting a pass and finishing a flush, strong
fairness of the sweep's flush (a row lock is queued, so the sweep gets it if it
becomes free again and again), a request's open transaction ends by commit or
disconnection, and from some time on the sweep is not killed. `Exams`: passes
are started again and go on unless killed, from some time on they are not, and
SimForge can be read now and then (strong fairness of reading a stored answer);
nothing is assumed of Gate 8 or of humans. `Metering`: weak fairness of each
call's own next step; a call waiting for a connection gets one or is refused by
the pool's timeout, which is one of its steps, so it is never stuck for want of
one. The others state no liveness: what they wait for is a human.

## 4. Findings

Each is a disagreement between the code and the repository's own text, or a
defect the code's own comments speak against; the quotations and lines are in
`PROJECT.json`. The models contain the behaviour, and where a property would be
refuted by it the property names the exception.

*Call path.* An approval is read before the Forge and spent after it, so two
overlapping calls both act under it; a crashed at_most_once act can be repeated,
because the guard asks the ledger, which is written after the Forge;
`_fail_approved` finds approvals of other calls by key; a refusal by
`resolve_grant` fails no approved proposal; `attempt_count`, kept to show an
approval acted on twice, cannot exceed one.

*Shifts.* The block in `assign_shift` looks at shifts that have ended, so one
assigned back to back begins unflushed; a rotation from an open shift marks it
attempted and nothing flushes what is written after.

*Audit chain.* An unused id between two entries is reported as a deletion on
every pass; `tail_gap` also appears while an insert is in flight.

*Ladder.* What is signed is not what Gate 11 activates; a rejection is not
terminal and aborted runs are revived by `_set_status`; one human may sign first
and review afterwards; Gate 11 reads the revocations in one statement and
activates in the next; a pass resumed behind 4.5 issues what no capacity check
saw; a second run's Gate 5 rewrites the tier of active grants; Gate 6 demands
instructions for excluded modules, Gate 5 passes their old grants over, which
keep the tier of an earlier run, and Gate 11 activates them; a
grant issued without a tier passes Gate 9 and stays inactive in silence; one
agent in two seats over a module gets the last title's tier.

*Rules.* V31 reads ceilings and never an override above one; a registry row
whose shape no manifest stated is stamped as evidence; the memory of a Forge's
answer is keyed by the Forge alone, so a probe answer about some modules is
taken for an answer about all.

*Exams.* `record_result` decides and then upserts, so a certification written in
between is erased by a timeout; the staleness pass updates by `cert_id` whatever
the row has become; exams of an aborted run stay open when Gate 8 commits after
the abort; an attested answer that names no model is polled for ever; an
instruction authored while Gate 8 runs leaves an exam whose release cannot be
recovered.

*Metering and budget.* A call that waited computes a negative refill; no ledger
row carries a cost, so the budget ladder reads zero.

*Humans and authority.* Two administrators can remove each other; the console
writes `console_role_granted` also for a role already held, so that event may
name a human who granted nothing, which `grant_role` calls a false entry:
`EventsAreTrue` asks of it only that somebody gave the role, and holds `by` to
the letter for the others it speaks of; a death after the commit loses the event; an
escalation can be routed to its raiser, who then may not answer it; overlapping
filings leave two discharges in force; a reinstatement racing a sync restores an
identity; a revocation lifted twice forgets who lifted it first; a retirement is
recorded twice; an import may be empty and departs everyone.

*Packs and library.* A draft stored under the live version takes the live Pack
away, and one stored under a run's version changes what the run reads;
`publish_draft` abandons the draft before it stores the live row; a declared
number of changed lines is compared with what was live when it was read; an
entry can be approved with words its approver was not shown, or by its second
author; a run that passed on the strength of simulation is asked nothing more
after the venture has left it.

## 5. What is proved

TLAPS checks these for every value of the constants that meets the modules'
named assumptions (`CallConstants`, `ShiftConstants`, `AuditConstants`,
`ProvisioningConstants`, `ExamsConstants`, `MeteringConstants`,
`GovernanceConstants`, `AuthorityConstants`, `KnowledgeConstants`,
`PackConstants`, `ValidatorConstants`, `PacksParse`, `GatesConstants`: sentinels
are not members of the sets they stand beside, bounds are naturals, rates and
tokens are positive, an agenda names sources there are, modules, positions and a
Pack's humans are finitely many, and a Pack is one its schema
accepts). Each proof module shows `Init => IInv`, one lemma per action or per
group of variables, and `IInv` implies the property; the temporal theorem
combines them with PTL. Every safety property of the runs, invariant, action
property or refinement, has its theorem.
Leaves are split until each is proved within a fifth of the prover's default time
limits (`tlapm --stretch 0.2`), so that a slower machine checks them too.

`CallPathProofs`. The invariant's parts are what the safety properties leave
unsaid: a call past the intent step either wrote the intent or is a read; `auth`
always names a proposal of the same agent and act which a human had approved,
and below auto_execute is never empty from the duplicate guard on; `executedBy`
is set exactly on executed proposals and names a call past the ledger; calls
past the revocation check of a revoked agent are those recorded when it was
revoked. Each property alone says nothing about a call still on its way to the
Forge. From it come `IntentBeforeMutationHolds`, `ActNeedsApprovalHolds`,
`ExecutedIsLedgeredHolds`, `KillSwitchHolds`, `NoRepeatAfterLedgerHolds`,
`SpentApprovalIsGoneHolds` and `Refinement` (`Spec => Abstract!Spec`).
What `Approval` promises is then proved of `Approval` alone and carried over by
the refinement: a settled proposal stays as it is (`SettledOnceHolds`), the call it
names as its execution acted (`TheExecutorActedHolds`), and `attempt_count` is one
or zero (`AttemptCountedOnceHolds`), also where two overlapping calls acted.

`ShiftsProofs`. The invariant adds that a queue holds existing rows, and that a
recount saw only ids already used, for a memory written later must not look
like a survivor: `FlushedIsGoneHolds`, `NoSwitchOverSurvivorsHolds`.
`OneVenturePerQuarterHolds` needs the exclusion constraints alone: what
`assign_shift` read before plays no part.

`RecordsProofs` holds two components, what is written for others to rely on.

- *The chain.* The lock has one holder, an id not yet committed lies above every
  committed one, each entry links to the one below it, and the tip of a snapshot
  the log has outgrown has a successor already: `LinkOrderIsIdOrderHolds`,
  `AppendsAtTheTipHolds`, `NoAlarmWithoutCauseHolds`. For `DamageShowsHolds` the
  argument goes from what is missing to what the verifier says: of the entries
  above a hole there is a least, and its predecessor is not there, so the walk
  reports (`LeastOf`, `HoleShows`); what is missing at the end is the tail gap.
- *Packs and the library.* A property of what is stored is lost between a
  request's read and its write, so the invariant says what each carries: a pass
  holds the Pack its run was started on (`RunKeepsItsPack`, `PassKeepsItsPack`),
  a request that writes the live row names the version it writes
  (`WriterNamesItsVersion`); who has an entry open read it (`OpenIsThere`), and
  an approval or a review rests on words that stand (`ReadAsItStands`):
  `ReliedOnWasReadHolds`,
  `ProvisionedWasValidatedHolds`, `LivePackRemainsHolds`.

`LadderProofs` holds the two components a venture climbs by.

- *The ladder.* The properties speak of runs; inductive they become with what
  the passes carry: the gates below a pass have passed for its run, the review
  it saw is still there, and a pass about to activate asked for a signature that
  was given: `NoGateSkippedHolds`, `OneActiveRunHolds`, `ActivationIsEarnedHolds`.
- *The exams.* A row's claim speaks of rows and answers. Inductive it is with
  what the sweep carries from its poll to its writes (`ResultCarried`,
  `AnswerMarked`) and what `record_result` found before its INSERT
  (`ReadyToWrite`), because the past stays: a committed submission, a stored
  answer, and an instruction whose number is never used again (`HistoryStep`,
  `ResolvedKept`). Hence `EarnedByItsExamHolds`, `ClosedMeansAnsweredHolds`,
  `NoAnswerErasesNothingHolds`. `ExamsRefinement` is
  `ExamsSpec => ImplementsCertificate`: the rows are what stands, the stored
  answers what was said, the answered submissions what is settled; a battery and
  a posted attestation map to Answer, an upsert to Award or to Await, a
  staleness pass to Withdraw of all it found at once, and the rest stutters. The
  department alone may be declared certified and may lose its grade to silence:
  `certify_for_simulation` and `record_result` do not see each other, which is
  the first finding on exams above and the reason for `Deferrable`. From
  `Certificate` alone follow two promises the rows thereby keep: every grade an
  exam gave, bad ones too, is what SimForge answered (`GradedByItsExamHolds`), and
  a module's stale certification stays so until it answers
  (`StaleUntilAnsweredHolds`).

`MeteringProofs`. A ceiling on what was spent is not inductive; what is, is the
sum of what a bucket holds and what was taken from it against its last refill,
whichever way a waiting call moves that (`ForgeMetered`, `AgentMetered`), with
two lemmas on refills: `ForgeCeilingHolds`, `ThrottleHolds`. What the
reconciliation owes an answer when it begins it has found once the ledger is
read, and has disposed of once that is recorded (`GapFollowed`):
`PassMeansDispositionedHolds`.

`GovernanceProofs`. A request between its decision and its write carries what
its human and the tables said: who is about to be removed leaves an
administrator behind (`Remaining`), what is about to be recorded is true
(`Truthful`), a role that is held or was just asked for was given by somebody
(`GivenFirst`, which the console's event of a grant rests on), and what was filed before a request was decided it has found
(`Found_`): `AdministratorRemainsHolds`, `EventsAreTrueHolds`,
`LaterFilingReplacesHolds`, `FirstAnswerStandsHolds`.

`AuthorityProofs`. The departed with an active identity are those the exceptions
name (`Suspended`), and what a departure revoked is in force until a human lifts
it (`Unpardoned`): `DepartedCannotCallHolds`, `ReturnRestoresNothingHolds`,
`RetiredOnceHolds`.

`GatesProofs`. `UnattendedWasVetted` is about rows that earlier runs have
written, so each carries what Gate 2 saw of its module; what makes it inductive
is `SeenSafe`: from Gate 2 on every seat with an unattended ceiling is over
modules seen safe. `ExamsTeachHolds` needs `SeenTaught`, which ties what Gate 2
saw to the modules the run's Pack operates, whatever the remembered answer held.
`IssuedWasFeasibleHolds` compares two sums: what Gate 4.5 projected, and what
the rows Gate 5 left behind ask of the reviewers. The invariant `FeasibleOK`
keeps the first within the reviewers' hours; `AskedWasProjected` shows that what
the rows ask is among what was projected, since where an agent has one seat over
a module the tier issued is the tier projected; and `OverrunGrows` lifts that to
the sums. The theory of sums under it (`SumsExist`, `SumsAgree`, `TotalStep`,
`TotalGrows`) takes the library's fold apart. The induction theorems of the
library are out of the provers' reach, so where those lemmas need induction they
take a least counterexample: a smallest subset on which the claim fails, or a
least number, by the well-foundedness of strict inclusion and of the naturals.

Only model-checked: the six liveness properties, `PendingIsSettled`,
`MutationIsAccounted`, `EndedShiftIsFlushed`, `StaleIsCaught`,
`AnswerIsIngested` and `EveryCallEnds`, because liveness under fairness is out of
the prover's reach. `DamageShows` does not cover the deletion of the whole log
followed by an append: the verifier does not ask which id the first entry has.
`IssuedWasFeasible` speaks of passes that Gate 4.5 checked, and leaves out the
old grants over modules excluded since.

## 6. What is not modelled

Text: prompts, generated artifacts, messages, the layout of entries. Pure
queries and routes. Authentication beyond whose roles a request carries. The
Forges themselves, except as "landed", "answered" and what they dispatch.
SHA-256 beyond injectivity. PostgreSQL beyond row locks, unique and exclusion
constraints, sequences and READ COMMITTED snapshots. By module:

- `CallPath`, `Shifts`: role and certification checks of a staffing plan are
  answered nondeterministically; the budget's arithmetic is left out, since the
  spend it reads is always zero.
- `Exams`: the evidence behind a verdict, tier caps, the submission text and its
  signature; one venture, one Forge, one department.
- `Metering`: buckets are created full and exist; the sweep's own connection and
  a connection held while waiting for a row are not counted.
- `Governance`: roles scoped to a venture, tokens, renaming, daily totals; the
  holder of the operational seat and the kinds an escalation may have; the
  deadline of an escalation, because nothing sets the `expires_at` the deadline
  job reads.
- `Authority`: one Forge, module and venture; the listings.
- `Knowledge`, `Packs`: playbooks, shares, personas and history; the count of
  changed lines; creating and closing a venture; the directory.
- `Validator`, `Gates`: V38 (duplicate grants, a warning at Gate 12), V39 (hours
  across ventures, a warning), V24 before Gate 4.5; the bootstrap's grants;
  unit B certified by declaration of simulation (it is `Exams`'); the order of
  submissions and the payloads; one department. Passes that race are
  `Provisioning`'s.
- Components marked `not_modelled` in `PROJECT.json`: credentials, couplings,
  the FunnelForge adapter, HTTP routes, read models, database layer, console and
  scripts keep no state of their own or only pass it through.

## 7. Plan

What is left, in order of worth:

| work | why |
|---|---|
| `Certificate` as the `certs` of `Gates` | joins two models that now share only an interface |
| `Gates` with two passes, to meet `Provisioning` | one model of the ladder |
| playbooks and personas, the venture's life cycle, V39 over two ventures | the remaining state of modelled components |
