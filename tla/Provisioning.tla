---------------------------- MODULE Provisioning ----------------------------
(***************************************************************************)
(* One venture's provisioning runs: the ladder of gates that advance()     *)
(* climbs, the humans who review, sign, correct, abandon and reject, and   *)
(* the grants that Gate 5 issues and Gate 11 activates.  advance() holds   *)
(* no lock and guards no write, so several passes may climb for one run,   *)
(* or for a run that was closed under them, and each may die at any step.  *)
(*                                                                         *)
(* Gates that read and write nothing another actor of this model sees are  *)
(* folded into the next one that does: see G4 .. G12.  What the generators *)
(* yield depends on tables that change at any time, so each generation     *)
(* yields some version of the artifacts; a version is told apart by its    *)
(* hash and by the grants it plans.  Grants are the ladder's own: a        *)
(* venture without a Phase 0 bootstrap has none that Gate 5 would retire.  *)
(* The Pack's gate_signoff_policy is distinct_humans.                      *)
(***************************************************************************)
EXTENDS Integers

CONSTANTS
    Runs,      \* provisioning_run rows of the venture
    Passes,    \* invocations of advance(), each good for one pass: the bound on them
    Humans,    \* venture operators
    Versions,  \* artifacts, by hash
    Grants,    \* agent_forge_grant rows of the venture
    Content,   \* the grants a version of the artifacts plans
    None       \* no version, no run

ASSUME ProvisioningConstants ==
    /\ Content \in [Versions -> SUBSET Grants]
    /\ None \notin Versions \cup Runs

G4  == 1   \* gates 0 - 4: validation, generation, human review
G5  == 2   \* 4.5, 5: capacity; grants issued, inactive
G7  == 3   \* 6, 7: knowledge bases; no grant active yet
G9  == 4   \* 8, 9: exams set; every grant certified
G10 == 5   \* 9.5, 10: held-out set; signature
G11 == 6   \* grants activated
G12 == 7   \* live
Gates == G4 .. G12

VARIABLES
    \* the database
    status, gate,      \* provisioning_run.status, .current_gate
    authors,           \* who recorded a Gate 4 review or a correction on the run
    signed,            \* signoff_record: the hash each human's signature is bound to
    issued, active,    \* grants that exist; grants with activated_at
    certified,         \* grants with both units certified and live
    revoked,           \* grants a live revocation covers
    \* passes
    pc,                \* where a pass stands
    of, at,            \* its run, and the gate it is at
    seenReview,        \* _Context.human_review_recorded, read when it began
    artifacts,         \* _Context.artifacts
    covered,           \* the revocations Gate 11 has read
    \* humans between their reading of a run and their write
    closing,           \* the run a human is about to close and how, or None
    \* history, read by properties only
    done,              \* gates that have passed for a run
    everSigned         \* hashes that were ever signed

runVars == <<status, gate>>
humanVars == <<authors, signed, everSigned>>
grantVars == <<issued, active, certified, revoked>>
passVars == <<pc, of, at, seenReview, artifacts, covered>>
vars == <<runVars, humanVars, grantVars, passVars, closing, done>>

Active == {"running", "blocked", "awaiting_human"}      \* the index ux_run_active
Statuses == {"none", "complete", "aborted", "rejected"} \cup Active
Closed == {"aborted", "rejected"}
Outcomes == {"passed", "blocked", "awaiting_human"}

TypeOK ==
    /\ status \in [Runs -> Statuses]
    /\ gate \in [Runs -> Gates]
    /\ authors \in [Runs -> SUBSET Humans]
    /\ signed \in [Humans -> Versions \cup {None}]
    /\ issued \subseteq Grants
    /\ active \subseteq issued
    /\ certified \subseteq Grants
    /\ revoked \subseteq Grants
    /\ pc \in [Passes -> {"idle", "gate", "activate", "ended"} \cup Outcomes]
    /\ of \in [Passes -> Runs \cup {None}]
    /\ at \in [Passes -> Gates]
    /\ seenReview \in [Passes -> BOOLEAN]
    /\ artifacts \in [Passes -> Versions \cup {None}]
    /\ covered \in [Passes -> SUBSET Grants]
    /\ closing \in [Humans -> (Runs \X Closed) \cup {None}]
    /\ done \in [Runs -> SUBSET Gates]
    /\ everSigned \subseteq Versions

Init ==
    /\ status = [r \in Runs |-> "none"]
    /\ gate = [r \in Runs |-> G4]
    /\ authors = [r \in Runs |-> {}]
    /\ signed = [h \in Humans |-> None]
    /\ issued = {}
    /\ active = {}
    /\ certified = {}
    /\ revoked = {}
    /\ pc = [p \in Passes |-> "idle"]
    /\ of = [p \in Passes |-> None]
    /\ at = [p \in Passes |-> G4]
    /\ seenReview = [p \in Passes |-> FALSE]
    /\ artifacts = [p \in Passes |-> None]
    /\ covered = [p \in Passes |-> {}]
    /\ closing = [h \in Humans |-> None]
    /\ done = [r \in Runs |-> {}]
    /\ everSigned = {}

\* Mutant: the index is not there.
Clashes_Never(r, s) == FALSE

\* ux_run_active: no second active run of the venture.
Clashes(r, s) == s \in Active /\ \E q \in Runs \ {r} : status[q] \in Active

-----------------------------------------------------------------------------
(* Humans and runs.                                                        *)

\* start_run: its own look at active_run spares the operator an error, the
\* index decides.
StartRun(r) ==
    /\ status[r] = "none"
    /\ ~ Clashes(r, "running")
    /\ status' = [status EXCEPT ![r] = "running"]
    /\ UNCHANGED <<gate, humanVars, grantVars, passVars, closing, done>>

\* record_human_review, at whatever status and gate the run has; and
\* correct_gate_review, once there is a review to correct.
Review(h, r) ==
    /\ status[r] # "none"
    /\ authors' = [authors EXCEPT ![r] = @ \cup {h}]
    /\ UNCHANGED <<runVars, signed, everSigned, grantVars, passVars, closing, done>>

\* sign_off's separation of duties: who has reviewed or corrected on this run
\* is refused.
MaySign(h, r) == h \notin authors[r]

\* sign_off_run: the artifacts are regenerated and are what the human was
\* shown.  The signature belongs to the venture, not to the run.
SignOffRun(h, r, v) ==
    /\ status[r] \notin {"none", "complete", "aborted"}
    /\ MaySign(h, r)
    /\ signed' = [signed EXCEPT ![h] = v]
    /\ everSigned' = everSigned \cup {v}
    /\ UNCHANGED <<runVars, authors, grantVars, passVars, closing, done>>

\* abort_run and reject_run read the run ...
Close(h, r, verdict) ==
    /\ closing[h] = None
    /\ \/ verdict = "aborted" /\ status[r] \notin {"none", "complete", "aborted"}
       \/ verdict = "rejected" /\ status[r] = "awaiting_human"
    /\ closing' = [closing EXCEPT ![h] = <<r, verdict>>]
    /\ UNCHANGED <<runVars, humanVars, grantVars, passVars, done>>

\* ... and then write, whatever the run has become since.
WriteClosed(h) ==
    /\ closing[h] # None
    /\ closing' = [closing EXCEPT ![h] = None]
    /\ status' = [status EXCEPT ![closing[h][1]] = closing[h][2]]
    /\ UNCHANGED <<gate, humanVars, grantVars, passVars, done>>

-----------------------------------------------------------------------------
(* advance().                                                              *)

\* Its start: get_run and _human_review_recorded, each read once.  Gate 3 runs
\* once in a pass, before the first gate that works on artifacts; what it will
\* yield is chosen here already, for nobody can tell before it is used.
Advance(p, r, v) ==
    /\ pc[p] = "idle"
    /\ status[r] \notin {"none", "complete", "aborted"}
    /\ pc' = [pc EXCEPT ![p] = "gate"]
    /\ of' = [of EXCEPT ![p] = r]
    /\ at' = [at EXCEPT ![p] = gate[r]]
    /\ seenReview' = [seenReview EXCEPT ![p] = gate[r] = G4 /\ authors[r] # {}]
    /\ artifacts' = [artifacts EXCEPT ![p] = v]
    /\ UNCHANGED <<runVars, humanVars, grantVars, covered, closing, done>>

\* A gate function has returned.
Return(p, outcome) ==
    /\ pc' = [pc EXCEPT ![p] = outcome]
    /\ done' = [done EXCEPT ![of[p]] = IF outcome = "passed" THEN @ \cup {at[p]} ELSE @]

\* It stopped at something this model does not hold: the validator, a
\* generator, capacity, a missing knowledge base, SimForge, the held-out set.
Block(p) ==
    /\ pc[p] = "gate"
    /\ at[p] # G12
    /\ Return(p, "blocked")
    /\ UNCHANGED <<runVars, humanVars, grantVars, of, at, seenReview, artifacts, covered,
                   closing>>

\* Between two gates that are folded here the run is set to running.
PassInnerGate(p) ==
    /\ pc[p] = "gate"
    /\ at[p] \in G4 .. G10
    /\ ~ Clashes(of[p], "running")
    /\ status' = [status EXCEPT ![of[p]] = "running"]
    /\ gate' = [gate EXCEPT ![of[p]] = at[p]]
    /\ UNCHANGED <<humanVars, grantVars, passVars, closing, done>>

\* Mutant: Gate 4 passes by itself.
Gate4_Auto(p) ==
    /\ pc[p] = "gate" /\ at[p] = G4
    /\ Return(p, "passed")
    /\ UNCHANGED <<runVars, humanVars, grantVars, of, at, seenReview, artifacts, covered,
                   closing>>

Gate4(p) ==
    /\ pc[p] = "gate" /\ at[p] = G4
    /\ Return(p, IF seenReview[p] THEN "passed" ELSE "awaiting_human")
    /\ UNCHANGED <<runVars, humanVars, grantVars, of, at, seenReview, artifacts, covered,
                   closing>>

\* runtime_config.apply: the planned grants are written, inactive; one that
\* is there keeps its activated_at, and one that is no longer planned stays.
Gate5(p) ==
    /\ pc[p] = "gate" /\ at[p] = G5
    /\ issued' = issued \cup Content[artifacts[p]]
    /\ Return(p, "passed")
    /\ UNCHANGED <<runVars, humanVars, active, certified, revoked, of, at, seenReview,
                   artifacts, covered, closing>>

\* Nothing that is active may be uncovered by a revocation.
Gate7(p) ==
    /\ pc[p] = "gate" /\ at[p] = G7
    /\ Return(p, IF active \subseteq revoked THEN "passed" ELSE "blocked")
    /\ UNCHANGED <<runVars, humanVars, grantVars, of, at, seenReview, artifacts, covered,
                   closing>>

\* Every grant no revocation covers is certified, and there is one.
Gate9(p) ==
    /\ pc[p] = "gate" /\ at[p] = G9
    /\ LET live == issued \ revoked IN
       Return(p, IF live # {} /\ live \subseteq certified THEN "passed" ELSE "blocked")
    /\ UNCHANGED <<runVars, humanVars, grantVars, of, at, seenReview, artifacts, covered,
                   closing>>

\* signoff_status: a signature stands while it is bound to these artifacts.
Valid(v) == \E h \in Humans : signed[h] = v

Gate10(p) ==
    /\ pc[p] = "gate" /\ at[p] = G10
    /\ Return(p, IF Valid(artifacts[p]) THEN "passed" ELSE "awaiting_human")
    /\ UNCHANGED <<runVars, humanVars, grantVars, of, at, seenReview, artifacts, covered,
                   closing>>

\* Gate 11 asks for the signature again, reads what is revoked ...
Gate11(p) ==
    /\ pc[p] = "gate" /\ at[p] = G11
    /\ IF Valid(artifacts[p])
       THEN /\ covered' = [covered EXCEPT ![p] = revoked]
            /\ pc' = [pc EXCEPT ![p] = "activate"]
            /\ UNCHANGED done
       ELSE Return(p, "blocked") /\ UNCHANGED covered
    /\ UNCHANGED <<runVars, humanVars, grantVars, of, at, seenReview, artifacts, closing>>

\* Mutant: the revoked and the uncertified are activated too.
Activate_All(p) ==
    /\ pc[p] = "activate"
    /\ active' = issued
    /\ Return(p, "passed")
    /\ UNCHANGED <<runVars, humanVars, issued, certified, revoked, of, at, seenReview,
                   artifacts, covered, closing>>

\* ... and activates every certified grant of the venture that was not
\* covered, but for those (withheld) of an identity that is not active or of
\* no tier.
Activate(p) ==
    /\ pc[p] = "activate"
    /\ \E withheld \in SUBSET Grants :
          active' = active \cup ((issued \cap certified) \ (covered[p] \cup withheld))
    /\ Return(p, "passed")
    /\ UNCHANGED <<runVars, humanVars, issued, certified, revoked, of, at, seenReview,
                   artifacts, covered, closing>>

Gate12(p) ==
    /\ pc[p] = "gate" /\ at[p] = G12
    /\ Return(p, "passed")
    /\ UNCHANGED <<runVars, humanVars, grantVars, of, at, seenReview, artifacts, covered,
                   closing>>

EndPass(p) ==
    /\ pc' = [pc EXCEPT ![p] = "ended"]
    /\ of' = [of EXCEPT ![p] = None]
    /\ at' = [at EXCEPT ![p] = G4]
    /\ seenReview' = [seenReview EXCEPT ![p] = FALSE]
    /\ artifacts' = [artifacts EXCEPT ![p] = None]
    /\ covered' = [covered EXCEPT ![p] = {}]

\* _set_status after a gate that stopped the run ...
SetStopped(p) ==
    /\ pc[p] \in {"blocked", "awaiting_human"}
    /\ ~ Clashes(of[p], pc[p])
    /\ status' = [status EXCEPT ![of[p]] = pc[p]]
    /\ gate' = [gate EXCEPT ![of[p]] = at[p]]
    /\ EndPass(p)
    /\ UNCHANGED <<humanVars, grantVars, closing, done>>

\* ... after one that passed, and the pass goes on ...
SetRunning(p) ==
    /\ pc[p] = "passed" /\ at[p] # G12
    /\ ~ Clashes(of[p], "running")
    /\ status' = [status EXCEPT ![of[p]] = "running"]
    /\ gate' = [gate EXCEPT ![of[p]] = at[p] + 1]
    /\ at' = [at EXCEPT ![p] = @ + 1]
    /\ pc' = [pc EXCEPT ![p] = "gate"]
    /\ covered' = [covered EXCEPT ![p] = {}]
    /\ seenReview' = [seenReview EXCEPT ![p] = FALSE]
    /\ UNCHANGED <<humanVars, grantVars, of, artifacts, closing, done>>

\* ... and after the last.
SetComplete(p) ==
    /\ pc[p] = "passed" /\ at[p] = G12
    /\ status' = [status EXCEPT ![of[p]] = "complete"]
    /\ gate' = [gate EXCEPT ![of[p]] = G12]
    /\ EndPass(p)
    /\ UNCHANGED <<humanVars, grantVars, closing, done>>

\* The index refuses the write, an audit entry fails, the process dies: the
\* pass ends where it is and what it has committed stays.
Die(p) ==
    /\ pc[p] \notin {"idle", "ended"}
    /\ EndPass(p)
    /\ UNCHANGED <<runVars, humanVars, grantVars, closing, done>>

-----------------------------------------------------------------------------
(* Everybody else.                                                         *)

\* A verdict certifies an agent's module and department; a new instruction, a
\* failed re-examination or a lost basis takes that back.
Certify(g) ==
    /\ certified' \in {certified \cup {g}, certified \ {g}}
    /\ UNCHANGED <<runVars, humanVars, issued, active, revoked, passVars, closing, done>>

\* revocation.revoke and reinstate, at whatever scope covers the grant.
Revoke(g) ==
    /\ revoked' \in {revoked \cup {g}, revoked \ {g}}
    /\ UNCHANGED <<runVars, humanVars, issued, active, certified, passVars, closing,
                   done>>

PassStep(p) ==
    \/ Block(p) \/ PassInnerGate(p)
    \/ Gate4(p) \/ Gate5(p) \/ Gate7(p) \/ Gate9(p) \/ Gate10(p)
    \/ Gate11(p) \/ Activate(p) \/ Gate12(p)
    \/ SetStopped(p) \/ SetRunning(p) \/ SetComplete(p) \/ Die(p)

Next ==
    \/ \E r \in Runs : StartRun(r)
    \/ \E h \in Humans, r \in Runs : Review(h, r)
    \/ \E h \in Humans, r \in Runs, v \in Versions : SignOffRun(h, r, v)
    \/ \E h \in Humans, r \in Runs, verdict \in Closed : Close(h, r, verdict)
    \/ \E h \in Humans : WriteClosed(h)
    \/ \E p \in Passes, r \in Runs, v \in Versions : Advance(p, r, v)
    \/ \E p \in Passes : PassStep(p)
    \/ \E g \in Grants : Certify(g) \/ Revoke(g)

Spec == Init /\ [][Next]_vars

-----------------------------------------------------------------------------
(* Properties.                                                             *)

\* Two runs of one venture are never active together, also when a pass in
\* flight writes to a run that was closed and another was started meanwhile
\* (ux_run_active: "two would both issue grants for this engagement").
OneActiveRun ==
    \A r, q \in Runs : status[r] \in Active /\ status[q] \in Active => r = q

\* No write, stale or concurrent, carries a run past a gate that did not pass
\* for it; above all, none passes Gate 4 without a human's review on that run
\* (advance, _set_status).
NoGateSkipped ==
    /\ \A r \in Runs : \A g \in Gates : g < gate[r] => g \in done[r]
    /\ \A r \in Runs : status[r] = "complete" => G12 \in done[r]
    /\ \A r \in Runs : G4 \in done[r] => authors[r] # {}

\* A grant becomes active only if it is certified at that moment, was not
\* revoked when Gate 11 looked, and the pass that activates it is of a reviewed
\* run and holds artifacts that a human signed (Gate 11).
ActivationIsEarned ==
    [][\A g \in active' \ active : \E p \in Passes :
          /\ pc[p] = "activate"
          /\ g \in certified \ covered[p]
          /\ authors[of[p]] # {}
          /\ artifacts[p] \in everSigned]_vars

=============================================================================
