---------------------------- MODULE LadderProofs ----------------------------
(***************************************************************************)
(* Proofs about how a venture climbs and how its units come to count: the  *)
(* provisioning ladder, and the examinations.  The two models share        *)
(* nothing; each has its own specification, Spec and ExamsSpec.            *)
(*                                                                         *)
(* What Provisioning keeps for every number of runs, passes, humans,       *)
(* versions and grants.  The ladder's properties speak of the runs alone;  *)
(* inductive they are only with what the passes carry: which gates lie     *)
(* behind a pass, what review it saw and which signature it asked for.     *)
(*                                                                         *)
(* What Exams keeps for every number of modules, submissions, runs and     *)
(* passes.  A row's claim speaks of rows and answers alone; inductive it   *)
(* is only with what the ingest sweep carries between its poll and its     *)
(* writes, and because what is on record stays: a committed submission, a  *)
(* stored answer, and an instruction, whose number is never used again.    *)
(* On that rests too that Exams implements Certificate.                    *)
(***************************************************************************)
EXTENDS Provisioning, Exams, TLAPS

Climbing(p) == pc[p] \notin {"idle", "ended"}

\* A pass in flight has a run and artifacts, and the gates below its own have
\* passed for that run.
PassesClimb ==
    \A p \in Passes : Climbing(p) =>
        /\ of[p] \in Runs
        /\ artifacts[p] \in Versions
        /\ \A g \in Gates : g < at[p] => g \in done[of[p]]
        /\ pc[p] = "passed" => at[p] \in done[of[p]]

\* The review a pass saw is there: reviews are never taken back.
ReviewsStay == \A p \in Passes : seenReview[p] => of[p] \in Runs /\ authors[of[p]] # {}

\* What is signed now was signed at some time, and so were the artifacts of a
\* pass that is about to activate.
SignaturesAsked ==
    /\ \A h \in Humans : signed[h] # None => signed[h] \in everSigned
    /\ \A p \in Passes : pc[p] = "activate" => at[p] = G11 /\ artifacts[p] \in everSigned

IInv ==
    /\ TypeOK
    /\ PassesClimb
    /\ ReviewsStay
    /\ SignaturesAsked
    /\ NoGateSkipped
    /\ OneActiveRun

\* The invariant holds of a venture without runs.
LEMMA InitIInv == Init => IInv
<1>1. Init => TypeOK
  BY ProvisioningConstants DEF Init, TypeOK, Statuses, Gates, G4, G12
<1>2. Init => PassesClimb /\ ReviewsStay /\ SignaturesAsked
  BY DEF Init, PassesClimb, Climbing, ReviewsStay, SignaturesAsked
<1>3. Init => NoGateSkipped /\ OneActiveRun
  BY DEF Init, NoGateSkipped, OneActiveRun, Active, Gates, G4
<1>4. QED
  BY <1>1, <1>2, <1>3 DEF IInv

\* Every step keeps the types.
LEMMA TypeStep ==
    ASSUME IInv, [Next]_vars
    PROVE  TypeOK'
<1>1. ASSUME NEW r \in Runs, StartRun(r)
      PROVE  TypeOK'
  BY <1>1, ProvisioningConstants DEF IInv, TypeOK, Statuses, Active, StartRun,
     humanVars, grantVars, passVars
<1>2. ASSUME NEW h \in Humans, NEW r \in Runs, Review(h, r)
      PROVE  TypeOK'
  BY <1>2, ProvisioningConstants DEF IInv, TypeOK, Review, runVars, grantVars, passVars
<1>3. ASSUME NEW h \in Humans, NEW r \in Runs, NEW v \in Versions, SignOffRun(h, r, v)
      PROVE  TypeOK'
  BY <1>3, ProvisioningConstants DEF IInv, TypeOK, SignOffRun, runVars, grantVars,
     passVars
<1>4. ASSUME NEW h \in Humans, NEW r \in Runs, NEW verdict \in Closed, Close(h, r, verdict)
      PROVE  TypeOK'
  BY <1>4, ProvisioningConstants DEF IInv, TypeOK, Close, runVars, humanVars, grantVars,
     passVars
<1>5. ASSUME NEW h \in Humans, WriteClosed(h)
      PROVE  TypeOK'
  BY <1>5, ProvisioningConstants DEF IInv, TypeOK, Statuses, Closed, WriteClosed,
     humanVars, grantVars, passVars
<1>6. ASSUME NEW p \in Passes, NEW r \in Runs, NEW v \in Versions, Advance(p, r, v)
      PROVE  TypeOK'
  BY <1>6, ProvisioningConstants DEF IInv, TypeOK, Advance, runVars, humanVars,
     grantVars
<1>7. ASSUME NEW p \in Passes, Block(p)
      PROVE  TypeOK'
  BY <1>7, ProvisioningConstants DEF IInv, TypeOK, Outcomes, Block, Return, runVars,
     humanVars, grantVars
<1>8. ASSUME NEW p \in Passes, PassInnerGate(p)
      PROVE  TypeOK'
  BY <1>8, ProvisioningConstants DEF IInv, TypeOK, Statuses, Active, PassInnerGate,
     humanVars, grantVars, passVars
<1>9. ASSUME NEW p \in Passes, Gate4(p)
      PROVE  TypeOK'
  BY <1>9, ProvisioningConstants DEF IInv, TypeOK, PassesClimb, Climbing, Outcomes,
     Gate4, Return, runVars, humanVars, grantVars
<1>10. ASSUME NEW p \in Passes, Gate5(p)
      PROVE  TypeOK'
  BY <1>10, ProvisioningConstants DEF IInv, TypeOK, PassesClimb, Climbing, Outcomes,
     Gate5, Return, runVars, humanVars
<1>11. ASSUME NEW p \in Passes, Gate7(p)
      PROVE  TypeOK'
  BY <1>11, ProvisioningConstants DEF IInv, TypeOK, PassesClimb, Climbing, Outcomes,
     Gate7, Return, runVars, humanVars, grantVars
<1>12. ASSUME NEW p \in Passes, Gate9(p)
      PROVE  TypeOK'
  BY <1>12, ProvisioningConstants DEF IInv, TypeOK, PassesClimb, Climbing, Outcomes,
     Gate9, Return, runVars, humanVars, grantVars
<1>13. ASSUME NEW p \in Passes, Gate10(p)
      PROVE  TypeOK'
  BY <1>13, ProvisioningConstants DEF IInv, TypeOK, PassesClimb, Climbing, Outcomes,
     Gate10, Return, runVars, humanVars, grantVars
<1>14. ASSUME NEW p \in Passes, Gate11(p)
      PROVE  TypeOK'
  BY <1>14, ProvisioningConstants DEF IInv, TypeOK, SignaturesAsked, Outcomes, G12,
     Gate11, Return, runVars, humanVars, grantVars
<1>15. ASSUME NEW p \in Passes, Activate(p)
      PROVE  TypeOK'
  BY <1>15, ProvisioningConstants DEF IInv, TypeOK, PassesClimb, Climbing, Outcomes,
     Activate, Return, runVars, humanVars
<1>16. ASSUME NEW p \in Passes, Gate12(p)
      PROVE  TypeOK'
  BY <1>16, ProvisioningConstants DEF IInv, TypeOK, PassesClimb, Climbing, Outcomes,
     Gate12, Return, runVars, humanVars, grantVars
<1>17. ASSUME NEW p \in Passes, SetStopped(p)
      PROVE  TypeOK'
  BY <1>17, ProvisioningConstants DEF IInv, TypeOK, PassesClimb, Climbing, Statuses,
     Active, Gates, G4, G12, SetStopped, EndPass, humanVars, grantVars
<1>18. ASSUME NEW p \in Passes, SetRunning(p)
      PROVE  TypeOK'
  BY <1>18, ProvisioningConstants DEF IInv, TypeOK, PassesClimb, Climbing, Statuses,
     Active, Gates, G4, G12, SetRunning, humanVars, grantVars
<1>19. ASSUME NEW p \in Passes, SetComplete(p)
      PROVE  TypeOK'
  BY <1>19, ProvisioningConstants DEF IInv, TypeOK, PassesClimb, Climbing, Statuses,
     Gates, G4, SetComplete, EndPass, humanVars, grantVars
<1>20. ASSUME NEW p \in Passes, Die(p)
      PROVE  TypeOK'
  BY <1>20, ProvisioningConstants DEF IInv, TypeOK, Gates, G4, G12, Die, EndPass,
     runVars, humanVars, grantVars
<1>21. ASSUME NEW g \in Grants, Certify(g)
      PROVE  TypeOK'
  BY <1>21, ProvisioningConstants DEF IInv, TypeOK, Certify, runVars, humanVars,
     passVars
<1>22. ASSUME NEW g \in Grants, Revoke(g)
      PROVE  TypeOK'
  BY <1>22, ProvisioningConstants DEF IInv, TypeOK, Revoke, runVars, humanVars, passVars
<1>23. CASE UNCHANGED vars
  BY <1>23 DEF IInv, TypeOK, vars, runVars, humanVars, grantVars, passVars
<1>24. QED
  BY <1>1, <1>2, <1>3, <1>4, <1>5, <1>6, <1>7, <1>8, <1>9, <1>10, <1>11, <1>12,
     <1>13, <1>14, <1>15, <1>16, <1>17, <1>18, <1>19, <1>20, <1>21, <1>22, <1>23 DEF Next, PassStep

\* A pass climbs one gate at a time and only from one that has passed (advance).
LEMMA ClimbStep ==
    ASSUME IInv, [Next]_vars
    PROVE  PassesClimb'
<1>1. ASSUME NEW r \in Runs, StartRun(r)
      PROVE  PassesClimb'
  BY <1>1, ProvisioningConstants DEF IInv, PassesClimb, Climbing, StartRun, passVars
<1>2. ASSUME NEW h \in Humans, NEW r \in Runs, Review(h, r)
      PROVE  PassesClimb'
  BY <1>2, ProvisioningConstants DEF IInv, PassesClimb, Climbing, Review, passVars
<1>3. ASSUME NEW h \in Humans, NEW r \in Runs, NEW v \in Versions, SignOffRun(h, r, v)
      PROVE  PassesClimb'
  BY <1>3, ProvisioningConstants DEF IInv, PassesClimb, Climbing, SignOffRun, passVars
<1>4. ASSUME NEW h \in Humans, NEW r \in Runs, NEW verdict \in Closed, Close(h, r, verdict)
      PROVE  PassesClimb'
  BY <1>4, ProvisioningConstants DEF IInv, PassesClimb, Climbing, Close, passVars
<1>5. ASSUME NEW h \in Humans, WriteClosed(h)
      PROVE  PassesClimb'
  BY <1>5, ProvisioningConstants DEF IInv, PassesClimb, Climbing, WriteClosed, passVars
<1>6. ASSUME NEW p \in Passes, NEW r \in Runs, NEW v \in Versions, Advance(p, r, v)
      PROVE  PassesClimb'
  BY <1>6, ProvisioningConstants DEF IInv, TypeOK, PassesClimb, Climbing, NoGateSkipped,
     Advance
<1>7. ASSUME NEW p \in Passes, Block(p)
      PROVE  PassesClimb'
  BY <1>7, ProvisioningConstants DEF IInv, PassesClimb, Climbing, Block, Return
<1>8. ASSUME NEW p \in Passes, PassInnerGate(p)
      PROVE  PassesClimb'
  BY <1>8, ProvisioningConstants DEF IInv, PassesClimb, Climbing, PassInnerGate,
     passVars
<1>9. ASSUME NEW p \in Passes, Gate4(p)
      PROVE  PassesClimb'
  BY <1>9, ProvisioningConstants DEF IInv, TypeOK, PassesClimb, Climbing, Gate4, Return
<1>10. ASSUME NEW p \in Passes, Gate5(p)
      PROVE  PassesClimb'
  BY <1>10, ProvisioningConstants DEF IInv, TypeOK, PassesClimb, Climbing, Gate5, Return
<1>11. ASSUME NEW p \in Passes, Gate7(p)
      PROVE  PassesClimb'
  BY <1>11, ProvisioningConstants DEF IInv, TypeOK, PassesClimb, Climbing, Gate7, Return
<1>12. ASSUME NEW p \in Passes, Gate9(p)
      PROVE  PassesClimb'
  BY <1>12, ProvisioningConstants DEF IInv, TypeOK, PassesClimb, Climbing, Gate9, Return
<1>13. ASSUME NEW p \in Passes, Gate10(p)
      PROVE  PassesClimb'
  BY <1>13, ProvisioningConstants DEF IInv, TypeOK, PassesClimb, Climbing, Gate10,
     Return
<1>14. ASSUME NEW p \in Passes, Gate11(p)
      PROVE  PassesClimb'
  BY <1>14, ProvisioningConstants DEF IInv, TypeOK, PassesClimb, Climbing, Gate11,
     Return
<1>15. ASSUME NEW p \in Passes, Activate(p)
      PROVE  PassesClimb'
  BY <1>15, ProvisioningConstants DEF IInv, TypeOK, PassesClimb, Climbing, Activate,
     Return
<1>16. ASSUME NEW p \in Passes, Gate12(p)
      PROVE  PassesClimb'
  BY <1>16, ProvisioningConstants DEF IInv, TypeOK, PassesClimb, Climbing, Gate12,
     Return
<1>17. ASSUME NEW p \in Passes, SetStopped(p)
      PROVE  PassesClimb'
  BY <1>17, ProvisioningConstants DEF IInv, TypeOK, PassesClimb, Climbing, SetStopped,
     EndPass
<1>18. ASSUME NEW p \in Passes, SetRunning(p)
      PROVE  PassesClimb'
  BY <1>18, ProvisioningConstants DEF IInv, TypeOK, PassesClimb, Climbing, Gates, G4,
     G12, SetRunning
<1>19. ASSUME NEW p \in Passes, SetComplete(p)
      PROVE  PassesClimb'
  BY <1>19, ProvisioningConstants DEF IInv, TypeOK, PassesClimb, Climbing, SetComplete,
     EndPass
<1>20. ASSUME NEW p \in Passes, Die(p)
      PROVE  PassesClimb'
  BY <1>20, ProvisioningConstants DEF IInv, TypeOK, PassesClimb, Climbing, Die, EndPass
<1>21. ASSUME NEW g \in Grants, Certify(g)
      PROVE  PassesClimb'
  BY <1>21, ProvisioningConstants DEF IInv, PassesClimb, Climbing, Certify, passVars
<1>22. ASSUME NEW g \in Grants, Revoke(g)
      PROVE  PassesClimb'
  BY <1>22, ProvisioningConstants DEF IInv, PassesClimb, Climbing, Revoke, passVars
<1>23. CASE UNCHANGED vars
  BY <1>23 DEF IInv, PassesClimb, Climbing, vars, passVars
<1>24. QED
  BY <1>1, <1>2, <1>3, <1>4, <1>5, <1>6, <1>7, <1>8, <1>9, <1>10, <1>11, <1>12,
     <1>13, <1>14, <1>15, <1>16, <1>17, <1>18, <1>19, <1>20, <1>21, <1>22, <1>23 DEF Next, PassStep

\* Reviews are only added (record_human_review).
LEMMA ReviewStep ==
    ASSUME IInv, [Next]_vars
    PROVE  ReviewsStay'
<1>1. ASSUME NEW r \in Runs, StartRun(r)
      PROVE  ReviewsStay'
  BY <1>1, ProvisioningConstants DEF IInv, ReviewsStay, StartRun, humanVars, passVars
<1>2. ASSUME NEW h \in Humans, NEW r \in Runs, Review(h, r)
      PROVE  ReviewsStay'
  BY <1>2, ProvisioningConstants DEF IInv, ReviewsStay, Review, passVars
<1>3. ASSUME NEW h \in Humans, NEW r \in Runs, NEW v \in Versions, SignOffRun(h, r, v)
      PROVE  ReviewsStay'
  BY <1>3, ProvisioningConstants DEF IInv, ReviewsStay, SignOffRun, passVars
<1>4. ASSUME NEW h \in Humans, NEW r \in Runs, NEW verdict \in Closed, Close(h, r, verdict)
      PROVE  ReviewsStay'
  BY <1>4, ProvisioningConstants DEF IInv, ReviewsStay, Close, humanVars, passVars
<1>5. ASSUME NEW h \in Humans, WriteClosed(h)
      PROVE  ReviewsStay'
  BY <1>5, ProvisioningConstants DEF IInv, ReviewsStay, WriteClosed, humanVars, passVars
<1>6. ASSUME NEW p \in Passes, NEW r \in Runs, NEW v \in Versions, Advance(p, r, v)
      PROVE  ReviewsStay'
  BY <1>6, ProvisioningConstants DEF IInv, TypeOK, ReviewsStay, Advance, humanVars
<1>7. ASSUME NEW p \in Passes, Block(p)
      PROVE  ReviewsStay'
  BY <1>7, ProvisioningConstants DEF IInv, ReviewsStay, Block, humanVars
<1>8. ASSUME NEW p \in Passes, PassInnerGate(p)
      PROVE  ReviewsStay'
  BY <1>8, ProvisioningConstants DEF IInv, ReviewsStay, PassInnerGate, humanVars,
     passVars
<1>9. ASSUME NEW p \in Passes, Gate4(p)
      PROVE  ReviewsStay'
  BY <1>9, ProvisioningConstants DEF IInv, ReviewsStay, Gate4, humanVars
<1>10. ASSUME NEW p \in Passes, Gate5(p)
      PROVE  ReviewsStay'
  BY <1>10, ProvisioningConstants DEF IInv, ReviewsStay, Gate5, humanVars
<1>11. ASSUME NEW p \in Passes, Gate7(p)
      PROVE  ReviewsStay'
  BY <1>11, ProvisioningConstants DEF IInv, ReviewsStay, Gate7, humanVars
<1>12. ASSUME NEW p \in Passes, Gate9(p)
      PROVE  ReviewsStay'
  BY <1>12, ProvisioningConstants DEF IInv, ReviewsStay, Gate9, humanVars
<1>13. ASSUME NEW p \in Passes, Gate10(p)
      PROVE  ReviewsStay'
  BY <1>13, ProvisioningConstants DEF IInv, ReviewsStay, Gate10, humanVars
<1>14. ASSUME NEW p \in Passes, Gate11(p)
      PROVE  ReviewsStay'
  BY <1>14, ProvisioningConstants DEF IInv, ReviewsStay, Gate11, humanVars
<1>15. ASSUME NEW p \in Passes, Activate(p)
      PROVE  ReviewsStay'
  BY <1>15, ProvisioningConstants DEF IInv, ReviewsStay, Activate, humanVars
<1>16. ASSUME NEW p \in Passes, Gate12(p)
      PROVE  ReviewsStay'
  BY <1>16, ProvisioningConstants DEF IInv, ReviewsStay, Gate12, humanVars
<1>17. ASSUME NEW p \in Passes, SetStopped(p)
      PROVE  ReviewsStay'
  BY <1>17, ProvisioningConstants DEF IInv, TypeOK, ReviewsStay, SetStopped, EndPass,
     humanVars
<1>18. ASSUME NEW p \in Passes, SetRunning(p)
      PROVE  ReviewsStay'
  BY <1>18, ProvisioningConstants DEF IInv, ReviewsStay, SetRunning, humanVars
<1>19. ASSUME NEW p \in Passes, SetComplete(p)
      PROVE  ReviewsStay'
  BY <1>19, ProvisioningConstants DEF IInv, TypeOK, ReviewsStay, SetComplete, EndPass,
     humanVars
<1>20. ASSUME NEW p \in Passes, Die(p)
      PROVE  ReviewsStay'
  BY <1>20, ProvisioningConstants DEF IInv, TypeOK, ReviewsStay, Die, EndPass, humanVars
<1>21. ASSUME NEW g \in Grants, Certify(g)
      PROVE  ReviewsStay'
  BY <1>21, ProvisioningConstants DEF IInv, ReviewsStay, Certify, humanVars, passVars
<1>22. ASSUME NEW g \in Grants, Revoke(g)
      PROVE  ReviewsStay'
  BY <1>22, ProvisioningConstants DEF IInv, ReviewsStay, Revoke, humanVars, passVars
<1>23. CASE UNCHANGED vars
  BY <1>23 DEF IInv, ReviewsStay, vars, humanVars, passVars
<1>24. QED
  BY <1>1, <1>2, <1>3, <1>4, <1>5, <1>6, <1>7, <1>8, <1>9, <1>10, <1>11, <1>12,
     <1>13, <1>14, <1>15, <1>16, <1>17, <1>18, <1>19, <1>20, <1>21, <1>22, <1>23 DEF Next, PassStep

\* Gate 11 goes on only under a signature it has read.
LEMMA SignatureStep ==
    ASSUME IInv, [Next]_vars
    PROVE  SignaturesAsked'
<1>1. ASSUME NEW r \in Runs, StartRun(r)
      PROVE  SignaturesAsked'
  BY <1>1, ProvisioningConstants DEF IInv, SignaturesAsked, StartRun, humanVars,
     passVars
<1>2. ASSUME NEW h \in Humans, NEW r \in Runs, Review(h, r)
      PROVE  SignaturesAsked'
  BY <1>2, ProvisioningConstants DEF IInv, SignaturesAsked, Review, passVars
<1>3. ASSUME NEW h \in Humans, NEW r \in Runs, NEW v \in Versions, SignOffRun(h, r, v)
      PROVE  SignaturesAsked'
  BY <1>3, ProvisioningConstants DEF IInv, SignaturesAsked, SignOffRun, passVars
<1>4. ASSUME NEW h \in Humans, NEW r \in Runs, NEW verdict \in Closed, Close(h, r, verdict)
      PROVE  SignaturesAsked'
  BY <1>4, ProvisioningConstants DEF IInv, SignaturesAsked, Close, humanVars, passVars
<1>5. ASSUME NEW h \in Humans, WriteClosed(h)
      PROVE  SignaturesAsked'
  BY <1>5, ProvisioningConstants DEF IInv, SignaturesAsked, WriteClosed, humanVars,
     passVars
<1>6. ASSUME NEW p \in Passes, NEW r \in Runs, NEW v \in Versions, Advance(p, r, v)
      PROVE  SignaturesAsked'
  BY <1>6, ProvisioningConstants DEF IInv, SignaturesAsked, Advance, humanVars
<1>7. ASSUME NEW p \in Passes, Block(p)
      PROVE  SignaturesAsked'
  BY <1>7, ProvisioningConstants DEF IInv, SignaturesAsked, Block, Return, humanVars
<1>8. ASSUME NEW p \in Passes, PassInnerGate(p)
      PROVE  SignaturesAsked'
  BY <1>8, ProvisioningConstants DEF IInv, SignaturesAsked, PassInnerGate, humanVars,
     passVars
<1>9. ASSUME NEW p \in Passes, Gate4(p)
      PROVE  SignaturesAsked'
  BY <1>9, ProvisioningConstants DEF IInv, SignaturesAsked, Gate4, Return, humanVars
<1>10. ASSUME NEW p \in Passes, Gate5(p)
      PROVE  SignaturesAsked'
  BY <1>10, ProvisioningConstants DEF IInv, SignaturesAsked, Gate5, Return, humanVars
<1>11. ASSUME NEW p \in Passes, Gate7(p)
      PROVE  SignaturesAsked'
  BY <1>11, ProvisioningConstants DEF IInv, SignaturesAsked, Gate7, Return, humanVars
<1>12. ASSUME NEW p \in Passes, Gate9(p)
      PROVE  SignaturesAsked'
  BY <1>12, ProvisioningConstants DEF IInv, SignaturesAsked, Gate9, Return, humanVars
<1>13. ASSUME NEW p \in Passes, Gate10(p)
      PROVE  SignaturesAsked'
  BY <1>13, ProvisioningConstants DEF IInv, SignaturesAsked, Gate10, Return, humanVars
<1>14. ASSUME NEW p \in Passes, Gate11(p)
      PROVE  SignaturesAsked'
  <2>1. CASE Valid(artifacts[p])
    <3>1. artifacts[p] \in everSigned
      BY <2>1, ProvisioningConstants, <1>14 DEF IInv, SignaturesAsked, PassesClimb,
         Climbing, Valid, Gate11
    <3>2. QED
      BY <2>1, <3>1, <1>14 DEF IInv, TypeOK, SignaturesAsked, Gate11, humanVars
  <2>2. CASE ~ Valid(artifacts[p])
    BY <2>2, <1>14 DEF IInv, TypeOK, SignaturesAsked, Gate11, Return, humanVars
  <2>3. QED
    BY <2>1, <2>2
<1>15. ASSUME NEW p \in Passes, Activate(p)
      PROVE  SignaturesAsked'
  BY <1>15, ProvisioningConstants DEF IInv, SignaturesAsked, Activate, Return, humanVars
<1>16. ASSUME NEW p \in Passes, Gate12(p)
      PROVE  SignaturesAsked'
  BY <1>16, ProvisioningConstants DEF IInv, SignaturesAsked, Gate12, Return, humanVars
<1>17. ASSUME NEW p \in Passes, SetStopped(p)
      PROVE  SignaturesAsked'
  BY <1>17, ProvisioningConstants DEF IInv, SignaturesAsked, SetStopped, EndPass,
     humanVars
<1>18. ASSUME NEW p \in Passes, SetRunning(p)
      PROVE  SignaturesAsked'
  BY <1>18, ProvisioningConstants DEF IInv, SignaturesAsked, SetRunning, humanVars
<1>19. ASSUME NEW p \in Passes, SetComplete(p)
      PROVE  SignaturesAsked'
  BY <1>19, ProvisioningConstants DEF IInv, SignaturesAsked, SetComplete, EndPass,
     humanVars
<1>20. ASSUME NEW p \in Passes, Die(p)
      PROVE  SignaturesAsked'
  BY <1>20, ProvisioningConstants DEF IInv, TypeOK, SignaturesAsked, Die, EndPass,
     humanVars
<1>21. ASSUME NEW g \in Grants, Certify(g)
      PROVE  SignaturesAsked'
  BY <1>21, ProvisioningConstants DEF IInv, SignaturesAsked, Certify, humanVars,
     passVars
<1>22. ASSUME NEW g \in Grants, Revoke(g)
      PROVE  SignaturesAsked'
  BY <1>22, ProvisioningConstants DEF IInv, SignaturesAsked, Revoke, humanVars, passVars
<1>23. CASE UNCHANGED vars
  BY <1>23 DEF IInv, SignaturesAsked, vars, humanVars, passVars
<1>24. QED
  BY <1>1, <1>2, <1>3, <1>4, <1>5, <1>6, <1>7, <1>8, <1>9, <1>10, <1>11, <1>12,
     <1>13, <1>14, <1>15, <1>16, <1>17, <1>18, <1>19, <1>20, <1>21, <1>22, <1>23 DEF Next, PassStep

\* A run's gate is written by a pass, and the pass has climbed to it (_set_status).
LEMMA GateStep ==
    ASSUME IInv, [Next]_vars
    PROVE  NoGateSkipped'
<1>1. ASSUME NEW r \in Runs, StartRun(r)
      PROVE  NoGateSkipped'
  BY <1>1, ProvisioningConstants DEF IInv, NoGateSkipped, StartRun, humanVars
<1>2. ASSUME NEW h \in Humans, NEW r \in Runs, Review(h, r)
      PROVE  NoGateSkipped'
  BY <1>2, ProvisioningConstants DEF IInv, NoGateSkipped, Review, runVars
<1>3. ASSUME NEW h \in Humans, NEW r \in Runs, NEW v \in Versions, SignOffRun(h, r, v)
      PROVE  NoGateSkipped'
  BY <1>3, ProvisioningConstants DEF IInv, NoGateSkipped, SignOffRun, runVars
<1>4. ASSUME NEW h \in Humans, NEW r \in Runs, NEW verdict \in Closed, Close(h, r, verdict)
      PROVE  NoGateSkipped'
  BY <1>4, ProvisioningConstants DEF IInv, NoGateSkipped, Close, runVars, humanVars
<1>5. ASSUME NEW h \in Humans, WriteClosed(h)
      PROVE  NoGateSkipped'
  BY <1>5, ProvisioningConstants DEF IInv, TypeOK, NoGateSkipped, Closed, WriteClosed,
     humanVars
<1>6. ASSUME NEW p \in Passes, NEW r \in Runs, NEW v \in Versions, Advance(p, r, v)
      PROVE  NoGateSkipped'
  BY <1>6, ProvisioningConstants DEF IInv, NoGateSkipped, Advance, runVars, humanVars
<1>7. ASSUME NEW p \in Passes, Block(p)
      PROVE  NoGateSkipped'
  BY <1>7, ProvisioningConstants DEF IInv, NoGateSkipped, Block, Return, runVars,
     humanVars
<1>8. ASSUME NEW p \in Passes, PassInnerGate(p)
      PROVE  NoGateSkipped'
  BY <1>8, ProvisioningConstants DEF IInv, PassesClimb, Climbing, NoGateSkipped,
     PassInnerGate, humanVars
<1>9. ASSUME NEW p \in Passes, Gate4(p)
      PROVE  NoGateSkipped'
  BY <1>9, ProvisioningConstants DEF IInv, ReviewsStay, NoGateSkipped, Gate4, Return,
     runVars, humanVars
<1>10. ASSUME NEW p \in Passes, Gate5(p)
      PROVE  NoGateSkipped'
  BY <1>10, ProvisioningConstants DEF IInv, NoGateSkipped, G4, G5, Gate5, Return,
     runVars, humanVars
<1>11. ASSUME NEW p \in Passes, Gate7(p)
      PROVE  NoGateSkipped'
  BY <1>11, ProvisioningConstants DEF IInv, NoGateSkipped, G4, G7, Gate7, Return,
     runVars, humanVars
<1>12. ASSUME NEW p \in Passes, Gate9(p)
      PROVE  NoGateSkipped'
  BY <1>12, ProvisioningConstants DEF IInv, NoGateSkipped, G4, G9, Gate9, Return,
     runVars, humanVars
<1>13. ASSUME NEW p \in Passes, Gate10(p)
      PROVE  NoGateSkipped'
  BY <1>13, ProvisioningConstants DEF IInv, NoGateSkipped, G4, G10, Gate10, Return,
     runVars, humanVars
<1>14. ASSUME NEW p \in Passes, Gate11(p)
      PROVE  NoGateSkipped'
  BY <1>14, ProvisioningConstants DEF IInv, TypeOK, NoGateSkipped, Gate11, Return,
     runVars, humanVars
<1>15. ASSUME NEW p \in Passes, Activate(p)
      PROVE  NoGateSkipped'
  BY <1>15, ProvisioningConstants DEF IInv, SignaturesAsked, NoGateSkipped, G4, G11,
     Activate, Return, runVars, humanVars
<1>16. ASSUME NEW p \in Passes, Gate12(p)
      PROVE  NoGateSkipped'
  BY <1>16, ProvisioningConstants DEF IInv, NoGateSkipped, G4, G12, Gate12, Return,
     runVars, humanVars
<1>17. ASSUME NEW p \in Passes, SetStopped(p)
      PROVE  NoGateSkipped'
  BY <1>17, ProvisioningConstants DEF IInv, PassesClimb, Climbing, NoGateSkipped,
     SetStopped, humanVars
<1>18. ASSUME NEW p \in Passes, SetRunning(p)
      PROVE  NoGateSkipped'
  BY <1>18, ProvisioningConstants DEF IInv, TypeOK, PassesClimb, Climbing,
     NoGateSkipped, Gates, G4, G12, SetRunning, humanVars
<1>19. ASSUME NEW p \in Passes, SetComplete(p)
      PROVE  NoGateSkipped'
  BY <1>19, ProvisioningConstants DEF IInv, PassesClimb, Climbing, NoGateSkipped,
     SetComplete, humanVars
<1>20. ASSUME NEW p \in Passes, Die(p)
      PROVE  NoGateSkipped'
  BY <1>20, ProvisioningConstants DEF IInv, NoGateSkipped, Die, runVars, humanVars
<1>21. ASSUME NEW g \in Grants, Certify(g)
      PROVE  NoGateSkipped'
  BY <1>21, ProvisioningConstants DEF IInv, NoGateSkipped, Certify, runVars, humanVars
<1>22. ASSUME NEW g \in Grants, Revoke(g)
      PROVE  NoGateSkipped'
  BY <1>22, ProvisioningConstants DEF IInv, NoGateSkipped, Revoke, runVars, humanVars
<1>23. CASE UNCHANGED vars
  BY <1>23 DEF IInv, NoGateSkipped, vars, runVars, humanVars
<1>24. QED
  BY <1>1, <1>2, <1>3, <1>4, <1>5, <1>6, <1>7, <1>8, <1>9, <1>10, <1>11, <1>12,
     <1>13, <1>14, <1>15, <1>16, <1>17, <1>18, <1>19, <1>20, <1>21, <1>22, <1>23 DEF Next, PassStep

\* Every write of an active status meets the index (ux_run_active).
LEMMA IndexStep ==
    ASSUME IInv, [Next]_vars
    PROVE  OneActiveRun'
<1>1. ASSUME NEW r \in Runs, StartRun(r)
      PROVE  OneActiveRun'
  BY <1>1, ProvisioningConstants DEF IInv, OneActiveRun, StartRun, Clashes
<1>2. ASSUME NEW h \in Humans, NEW r \in Runs, Review(h, r)
      PROVE  OneActiveRun'
  BY <1>2, ProvisioningConstants DEF IInv, OneActiveRun, Review, runVars
<1>3. ASSUME NEW h \in Humans, NEW r \in Runs, NEW v \in Versions, SignOffRun(h, r, v)
      PROVE  OneActiveRun'
  BY <1>3, ProvisioningConstants DEF IInv, OneActiveRun, SignOffRun, runVars
<1>4. ASSUME NEW h \in Humans, NEW r \in Runs, NEW verdict \in Closed, Close(h, r, verdict)
      PROVE  OneActiveRun'
  BY <1>4, ProvisioningConstants DEF IInv, OneActiveRun, Close, runVars
<1>5. ASSUME NEW h \in Humans, WriteClosed(h)
      PROVE  OneActiveRun'
  BY <1>5, ProvisioningConstants DEF IInv, TypeOK, OneActiveRun, Active, Closed,
     WriteClosed
<1>6. ASSUME NEW p \in Passes, NEW r \in Runs, NEW v \in Versions, Advance(p, r, v)
      PROVE  OneActiveRun'
  BY <1>6, ProvisioningConstants DEF IInv, OneActiveRun, Advance, runVars
<1>7. ASSUME NEW p \in Passes, Block(p)
      PROVE  OneActiveRun'
  BY <1>7, ProvisioningConstants DEF IInv, OneActiveRun, Block, runVars
<1>8. ASSUME NEW p \in Passes, PassInnerGate(p)
      PROVE  OneActiveRun'
  BY <1>8, ProvisioningConstants DEF IInv, OneActiveRun, PassInnerGate, Clashes
<1>9. ASSUME NEW p \in Passes, Gate4(p)
      PROVE  OneActiveRun'
  BY <1>9, ProvisioningConstants DEF IInv, OneActiveRun, Gate4, runVars
<1>10. ASSUME NEW p \in Passes, Gate5(p)
      PROVE  OneActiveRun'
  BY <1>10, ProvisioningConstants DEF IInv, OneActiveRun, Gate5, runVars
<1>11. ASSUME NEW p \in Passes, Gate7(p)
      PROVE  OneActiveRun'
  BY <1>11, ProvisioningConstants DEF IInv, OneActiveRun, Gate7, runVars
<1>12. ASSUME NEW p \in Passes, Gate9(p)
      PROVE  OneActiveRun'
  BY <1>12, ProvisioningConstants DEF IInv, OneActiveRun, Gate9, runVars
<1>13. ASSUME NEW p \in Passes, Gate10(p)
      PROVE  OneActiveRun'
  BY <1>13, ProvisioningConstants DEF IInv, OneActiveRun, Gate10, runVars
<1>14. ASSUME NEW p \in Passes, Gate11(p)
      PROVE  OneActiveRun'
  BY <1>14, ProvisioningConstants DEF IInv, OneActiveRun, Gate11, runVars
<1>15. ASSUME NEW p \in Passes, Activate(p)
      PROVE  OneActiveRun'
  BY <1>15, ProvisioningConstants DEF IInv, OneActiveRun, Activate, runVars
<1>16. ASSUME NEW p \in Passes, Gate12(p)
      PROVE  OneActiveRun'
  BY <1>16, ProvisioningConstants DEF IInv, OneActiveRun, Gate12, runVars
<1>17. ASSUME NEW p \in Passes, SetStopped(p)
      PROVE  OneActiveRun'
  BY <1>17, ProvisioningConstants DEF IInv, OneActiveRun, SetStopped, Clashes
<1>18. ASSUME NEW p \in Passes, SetRunning(p)
      PROVE  OneActiveRun'
  BY <1>18, ProvisioningConstants DEF IInv, OneActiveRun, SetRunning, Clashes
<1>19. ASSUME NEW p \in Passes, SetComplete(p)
      PROVE  OneActiveRun'
  BY <1>19, ProvisioningConstants DEF IInv, OneActiveRun, Active, SetComplete
<1>20. ASSUME NEW p \in Passes, Die(p)
      PROVE  OneActiveRun'
  BY <1>20, ProvisioningConstants DEF IInv, OneActiveRun, Die, runVars
<1>21. ASSUME NEW g \in Grants, Certify(g)
      PROVE  OneActiveRun'
  BY <1>21, ProvisioningConstants DEF IInv, OneActiveRun, Certify, runVars
<1>22. ASSUME NEW g \in Grants, Revoke(g)
      PROVE  OneActiveRun'
  BY <1>22, ProvisioningConstants DEF IInv, OneActiveRun, Revoke, runVars
<1>23. CASE UNCHANGED vars
  BY <1>23 DEF IInv, OneActiveRun, vars, runVars
<1>24. QED
  BY <1>1, <1>2, <1>3, <1>4, <1>5, <1>6, <1>7, <1>8, <1>9, <1>10, <1>11, <1>12,
     <1>13, <1>14, <1>15, <1>16, <1>17, <1>18, <1>19, <1>20, <1>21, <1>22, <1>23 DEF Next, PassStep

\* The invariant holds in every state of the ladder.
THEOREM Invariance == Spec => []IInv
<1>1. ASSUME IInv, [Next]_vars
      PROVE  IInv'
  BY <1>1, TypeStep, ClimbStep, ReviewStep, SignatureStep, GateStep, IndexStep DEF IInv
<1>2. QED
  BY InitIInv, <1>1, PTL DEF Spec

\* The variables keep their types, and only issued grants are active (Gate 11).
THEOREM TypeCorrect == Spec => []TypeOK
<1>1. IInv => TypeOK
  BY DEF IInv
<1>2. QED
  BY <1>1, Invariance, PTL

\* One active run per venture, whatever stale writes arrive (ux_run_active).
THEOREM OneActiveRunHolds == Spec => []OneActiveRun
<1>1. IInv => OneActiveRun
  BY DEF IInv
<1>2. QED
  BY <1>1, Invariance, PTL

\* No gate is skipped and no run passes Gate 4 unreviewed, whatever passes
\* climb together (advance).
THEOREM NoGateSkippedHolds == Spec => []NoGateSkipped
<1>1. IInv => NoGateSkipped
  BY DEF IInv
<1>2. QED
  BY <1>1, Invariance, PTL

\* A grant is activated only when certified, not seen revoked, on a reviewed
\* run and under a signature (Gate 11).
THEOREM ActivationIsEarnedHolds == Spec => ActivationIsEarned
<1> DEFINE Earned == \A g \in active' \ active : \E p \in Passes :
                        /\ pc[p] = "activate"
                        /\ g \in certified \ covered[p]
                        /\ authors[of[p]] # {}
                        /\ artifacts[p] \in everSigned
<1>1. ASSUME IInv, [Next]_vars
      PROVE  Earned
  <2> SUFFICES ASSUME NEW g \in active' \ active
               PROVE  \E p \in Passes : /\ pc[p] = "activate"
                                        /\ g \in certified \ covered[p]
                                        /\ authors[of[p]] # {}
                                        /\ artifacts[p] \in everSigned
    OBVIOUS
  <2>1. PICK p \in Passes : Activate(p)
    BY <1>1 DEF Next, PassStep, StartRun, Review, SignOffRun, Close, WriteClosed,
       Advance, Block, PassInnerGate, Gate4, Gate5, Gate7, Gate9, Gate10, Gate11,
       Gate12, SetStopped, SetRunning, SetComplete, Die, Certify, Revoke, vars,
       grantVars
  <2>2. g \in certified \ covered[p]
    BY <1>1, <2>1 DEF Activate
  <2>3. pc[p] = "activate" /\ at[p] = G11 /\ artifacts[p] \in everSigned
    BY <1>1, <2>1 DEF IInv, SignaturesAsked, Activate
  <2>4. of[p] \in Runs /\ G4 \in done[of[p]]
    BY <1>1, <2>3 DEF IInv, PassesClimb, Climbing, Gates, G4, G11, G12
  <2>5. authors[of[p]] # {}
    BY <1>1, <2>4 DEF IInv, NoGateSkipped
  <2>6. QED
    BY <2>2, <2>3, <2>5
<1>2. QED
  BY <1>1, Invariance, PTL DEF Spec, ActivationIsEarned

-----------------------------------------------------------------------------
(* Exams.                                                                  *)

Recorded(i) == phase[i] # "unused"

\* No submission and no row names an instruction that was not yet written.
BasesWritten ==
    /\ \A i \in Submissions : Recorded(i) =>
           \A m \in Modules : sub[i].exam.basis[m] <= live[m]
    /\ \A u \in Units : cert[u] # NoRow =>
           \A m \in Modules : cert[u].basis[m] <= live[m]

\* A staleness pass writes only to rows that are there.
FoundHaveRows == \A p \in StalePasses : \A f \in found[p] : cert[f[1]] # NoRow

\* What was closed or is about to be polled was committed.
ListedAreCommitted == \A i \in answered \cup todo : phase[i] = "committed"

\* The sweep carries, from its poll to the writes that follow, an answer that
\* SimForge has stored for the exam of a committed submission, or none.
ResultCarried ==
    ipc \in {"upsert", "mark"} =>
        /\ cur \in Submissions
        /\ phase[cur] = "committed"
        /\ got \in [verdict : Terminal \cup NotAnAnswer, model : Models]
        /\ got.verdict \in Terminal =>
               [exam |-> sub[cur].exam, verdict |-> got.verdict, model |-> got.model] \in answers

\* What is marked is an answer.
AnswerMarked == ipc = "mark" => got.verdict \in Terminal

\* What record_result found before its INSERT still stands at the INSERT: no row
\* of the holder where there was no answer, and else a release and a model.
ReadyToWrite ==
    ipc = "upsert" =>
        /\ got.verdict \in NotAnAnswer /\ sub[cur].exam.unit \in Modules =>
               cert[sub[cur].exam.unit] = NoRow
        /\ StateForVerdict(got.verdict) \in {"certified", "provisional"} =>
               /\ Resolved(cur) # {}
               /\ sub[cur].attested # 0 \/ got.model = "full"

ExamsInv ==
    /\ ExamsTypeOK
    /\ BasesWritten
    /\ FoundHaveRows
    /\ ListedAreCommitted
    /\ ResultCarried
    /\ AnswerMarked
    /\ ReadyToWrite
    /\ ClosedMeansAnswered
    /\ EarnedByItsExam

\* The invariant holds before the first exam.
LEMMA ExamsInitInv == ExamsInit => ExamsInv
<1> SUFFICES ASSUME ExamsInit PROVE ExamsInv
  OBVIOUS
<1>1. ExamsTypeOK
  <2>1. registry \in Apis /\ live \in Bases /\ key \in [Modules -> Keys]
    BY ExamsConstants DEF ExamsInit, Apis, VersionNumbers, Bases, Keys
  <2>2. names \in [Modules -> [1 .. MaxVersion -> Apis]]
    BY ExamsConstants DEF ExamsInit, Apis
  <2>3. simulation \in (0 .. MaxDeclared) \X BOOLEAN /\ attested \in Seq(BOOLEAN)
          /\ Len(attested) <= MaxAttested
    <3>1. simulation = <<0, FALSE>> /\ attested = <<>> /\ 0 \in 0 .. MaxDeclared /\ 0 <= MaxAttested
      BY ExamsConstants DEF ExamsInit
    <3>2. <<>> \in Seq(BOOLEAN) /\ Len(<<>>) = 0
      OBVIOUS
    <3>3. <<0, FALSE>> \in (0 .. MaxDeclared) \X BOOLEAN
      BY <3>1
    <3>4. QED
      BY <3>1, <3>2, <3>3
  <2>4. since \in [ExamRuns -> Bases]
    BY ExamsConstants DEF ExamsInit, Bases, VersionNumbers
  <2>5. QED
    BY <2>1, <2>2, <2>3, <2>4 DEF ExamsInit, ExamsTypeOK
<1>2. BasesWritten /\ FoundHaveRows /\ ListedAreCommitted
  BY DEF ExamsInit, BasesWritten, Recorded, FoundHaveRows, ListedAreCommitted
<1>3. ResultCarried /\ AnswerMarked /\ ReadyToWrite
  BY DEF ExamsInit, ResultCarried, AnswerMarked, ReadyToWrite
<1>4. ClosedMeansAnswered /\ EarnedByItsExam
  BY DEF ExamsInit, ClosedMeansAnswered, EarnedByItsExam, NoRow
<1>5. QED
  BY <1>1, <1>2, <1>3, <1>4 DEF ExamsInv

\* Who writes what: the library, the submissions, the answers, the rows, the
\* staleness passes and the ingest sweep.
LEMMA WhoWrites ==
    ASSUME ExamsNext
    PROVE  /\ UNCHANGED <<live, names>> \/ \E m \in Modules, v \in 0 .. registry : Author(m, v)
           /\ \/ UNCHANGED <<sub, phase>>
              \/ \E r \in ExamRuns :
                    \/ CommitGate(r) \/ CrashGate(r)
                    \/ \E i \in Submissions :
                          \/ \E m \in Modules, o \in BOOLEAN : SubmitModule(r, m, i, o)
                          \/ \E o \in BOOLEAN, q \in BOOLEAN, w \in PostedModels :
                                 SubmitDept(r, i, o, q, w)
           /\ UNCHANGED answered \/ Mark
           /\ \/ UNCHANGED answers
              \/ \E i \in Submissions, g \in agenda.gradings : Grade(i, g[1], g[2])
              \/ \E r \in ExamRuns, i \in Submissions, o \in BOOLEAN, q \in BOOLEAN,
                    w \in PostedModels : SubmitDept(r, i, o, q, w)
           /\ \/ UNCHANGED <<cert, found>>
              \/ UNCHANGED found /\ (CertifyForSimulation \/ Upsert)
              \/ \E p \in StalePasses : \/ \E units \in SUBSET Units : SelectStale(p, units)
                                        \/ UpdateStale(p) \/ CrashStale(p)
           /\ \/ UNCHANGED ingest
              \/ BeginIngest \/ Poll \/ Upsert \/ Mark \/ EndIngest \/ CrashIngest
<1> USE DEF forge, human, gate8, rows, ingest
<1>1. CASE Forge
  BY <1>1 DEF Forge, Release, ApproveKey, Author, Grade
<1>2. CASE Human
  BY <1>2 DEF Human, Declare, Leave, CertifyForSimulation, Attest
<1>3. ASSUME NEW r \in ExamRuns, Gate8(r)
      PROVE  /\ UNCHANGED <<live, names, answered, cert, found, ingest>>
             /\ \/ UNCHANGED <<sub, phase, answers>>
                \/ CommitGate(r) /\ UNCHANGED answers
                \/ CrashGate(r) /\ UNCHANGED answers
                \/ \E i \in Submissions :
                      \/ \E m \in Modules, o \in BOOLEAN : SubmitModule(r, m, i, o) /\ UNCHANGED answers
                      \/ \E o \in BOOLEAN, q \in BOOLEAN, w \in PostedModels :
                             SubmitDept(r, i, o, q, w)
  <2>1. CASE BeginGate(r) \/ SkipDept(r) \/ \E m \in Modules : PassOver(r, m)
    BY <2>1 DEF BeginGate, SkipDept, PassOver
  <2>2. CASE CommitGate(r) \/ CrashGate(r)
    BY <2>2 DEF CommitGate, CrashGate
  <2>3. ASSUME NEW m \in Modules, NEW i \in Submissions, NEW accepted \in Handovers,
               NEW started \in Openings, SubmitModule(r, m, i, accepted /\ started)
        PROVE  /\ UNCHANGED <<live, names, answered, cert, found, ingest, answers>>
               /\ (accepted /\ started) \in BOOLEAN
    BY <2>3 DEF SubmitModule
  <2>4. ASSUME NEW i \in Submissions, NEW ok \in Openings, NEW posted \in Postings,
               NEW w \in PostedModels, SubmitDept(r, i, ok, posted, w)
        PROVE  UNCHANGED <<live, names, answered, cert, found, ingest>>
    BY <2>4 DEF SubmitDept
  <2>5. QED
    BY <1>3, <2>1, <2>2, <2>3, <2>4, Zenon DEF Gate8, Openings, Postings
<1>4. ASSUME NEW r \in ExamRuns, Abort(r) \/ Supersede(r)
      PROVE  UNCHANGED <<live, names, sub, phase, answered, answers, cert, found, ingest>>
  BY <1>4 DEF Abort, Supersede
<1>5. ASSUME NEW p \in StalePasses, Staleness(p)
      PROVE  /\ UNCHANGED <<live, names, sub, phase, answered, answers, ingest>>
             /\ \/ \E units \in SUBSET Units : SelectStale(p, units)
                \/ UpdateStale(p) \/ CrashStale(p)
  <2>1. \A m \in Modules : {m} \in SUBSET Units
    BY DEF Units
  <2>2. \/ \E units \in SUBSET Units : SelectStale(p, units)
        \/ UpdateStale(p) \/ CrashStale(p)
    BY <1>5, <2>1 DEF Staleness
  <2>3. QED
    BY <2>2 DEF SelectStale, UpdateStale, CrashStale
<1>6. CASE Ingest
  <2>1. CASE BeginIngest \/ EndIngest \/ CrashIngest
    BY <2>1 DEF BeginIngest, EndIngest, CrashIngest
  <2>2. CASE Poll
    BY <2>2 DEF Poll, LeaveOpen, Take
  <2>3. CASE Upsert \/ Mark
    BY <2>3 DEF Upsert, Mark
  <2>4. QED
    BY <1>6, <2>1, <2>2, <2>3 DEF Ingest
<1>7. QED
  <2>1. Step
    BY DEF ExamsNext
  <2>3. CASE \E r \in ExamRuns : Gate8(r)
    BY <2>3, <1>3, Zenon
  <2>4. CASE \E r \in ExamRuns : Abort(r) \/ Supersede(r)
    BY <2>4, <1>4
  <2>5. CASE \E p \in StalePasses : Staleness(p)
    BY <2>5, <1>5
  <2>6. QED
    BY <2>1, <1>1, <1>2, <2>3, <2>4, <2>5, <1>6 DEF Step

\* The basis of a module's exam and of the department's name what is written.
LEMMA BasesOfExams ==
    ASSUME ExamsTypeOK, BasesWritten
    PROVE  /\ \A m \in Modules : Alone(m) \in Bases /\ \A w \in Modules : Alone(m)[w] <= live[w]
           /\ \A r \in ExamRuns : Covered(r) \in Bases /\ \A w \in Modules : Covered(r)[w] <= live[w]
<1>1. ASSUME NEW m \in Modules
      PROVE  Alone(m) \in Bases /\ \A w \in Modules : Alone(m)[w] <= live[w]
  BY ExamsConstants DEF Alone, Bases, VersionNumbers, ExamsTypeOK
<1>2. ASSUME NEW r \in ExamRuns
      PROVE  Covered(r) \in Bases /\ \A w \in Modules : Covered(r)[w] <= live[w]
  <2> DEFINE OpenedFor(i, w) == /\ phase[i] = "pending" /\ sub[i].run = r
                                /\ sub[i].opened /\ sub[i].exam.unit = w
  <2>1. ASSUME NEW w \in Modules
        PROVE  Covered(r)[w] \in VersionNumbers /\ Covered(r)[w] <= live[w]
    <3>1. CASE \E i \in Submissions : OpenedFor(i, w)
      <4> DEFINE j == CHOOSE i \in Submissions : OpenedFor(i, w)
      <4>1. j \in Submissions /\ OpenedFor(j, w)
        BY <3>1
      <4>2. Covered(r)[w] = sub[j].exam.basis[w]
        BY <3>1 DEF Covered
      <4>3. sub[j] \in Subs
        BY <4>1 DEF ExamsTypeOK
      <4>4. sub[j].exam.basis[w] \in VersionNumbers
        BY <4>3 DEF Subs, Exams, Bases
      <4>5. sub[j].exam.basis[w] <= live[w]
        BY <4>1 DEF BasesWritten, Recorded
      <4>6. QED
        BY <4>2, <4>4, <4>5
    <3>2. CASE ~ \E i \in Submissions : OpenedFor(i, w)
      <4>1. Covered(r)[w] = 0
        BY <3>2 DEF Covered
      <4>2. QED
        BY <4>1, ExamsConstants DEF ExamsTypeOK, Bases, VersionNumbers
    <3>3. QED
      BY <3>1, <3>2
  <2>2. QED
    BY <2>1 DEF Covered, Bases
<1>3. QED
  BY <1>1, <1>2

\* What Gate 8 records is a submission of the run, on a basis that is written.
LEMMA RecordSteps ==
    ASSUME ExamsTypeOK, BasesWritten, NEW r \in ExamRuns, NEW i \in Submissions,
           NEW exam \in Exams, NEW opened \in BOOLEAN, NEW att \in 0 .. MaxAttested,
           Record(i, r, exam, opened, att)
    PROVE  /\ phase[i] = "unused"
           /\ sub'[i] \in Subs /\ sub'[i].exam = exam /\ phase'[i] = "pending"
           /\ sub' \in [Submissions -> Subs \cup {NoSub}]
           /\ phase' \in [Submissions -> {"unused", "pending", "committed"}]
           /\ \A j \in Submissions \ {i} : sub'[j] = sub[j] /\ phase'[j] = phase[j]
<1> DEFINE new == [exam |-> exam, opened |-> opened, run |-> r, at |-> since[r], attested |-> att]
<1>1. new \in Subs
  BY DEF Subs, ExamsTypeOK
<1>2. sub' = [sub EXCEPT ![i] = new] /\ phase' = [phase EXCEPT ![i] = "pending"] /\ phase[i] = "unused"
  BY DEF Record
<1> HIDE DEF new
<1>3. new.exam = exam
  BY DEF new
<1>4. QED
  BY <1>1, <1>2, <1>3 DEF ExamsTypeOK

\* Every step that writes submissions records one, or ends a gate.
LEMMA SubmissionSteps ==
    ASSUME ExamsTypeOK, BasesWritten, ExamsNext
    PROVE  /\ sub' \in [Submissions -> Subs \cup {NoSub}]
           /\ phase' \in [Submissions -> {"unused", "pending", "committed"}]
           /\ \A i \in Submissions :
                  \/ sub'[i] = sub[i] /\ phase'[i] = phase[i]
                  \/ sub'[i] = sub[i] /\ phase[i] = "pending" /\ phase'[i] = "committed"
                  \/ phase[i] = "pending" /\ phase'[i] = "unused"
                  \/ /\ phase[i] = "unused" /\ phase'[i] = "pending"
                     /\ sub'[i] \in Subs
                     /\ live' = live
                     /\ \A w \in Modules : sub'[i].exam.basis[w] <= live[w]
<1>1. CASE UNCHANGED <<sub, phase>>
  BY <1>1 DEF ExamsTypeOK
<1>2. ASSUME NEW r \in ExamRuns, CommitGate(r) \/ CrashGate(r)
      PROVE  /\ sub' \in [Submissions -> Subs \cup {NoSub}]
             /\ phase' \in [Submissions -> {"unused", "pending", "committed"}]
             /\ \A i \in Submissions :
                  \/ sub'[i] = sub[i] /\ phase'[i] = phase[i]
                  \/ sub'[i] = sub[i] /\ phase[i] = "pending" /\ phase'[i] = "committed"
                  \/ phase[i] = "pending" /\ phase'[i] = "unused"
  <2>1. CASE CommitGate(r)
    BY <2>1 DEF CommitGate, ExamsTypeOK
  <2>2. CASE CrashGate(r)
    BY <2>2 DEF CrashGate, ExamsTypeOK
  <2>3. QED
    BY <1>2, <2>1, <2>2
<1>3. ASSUME NEW r \in ExamRuns, NEW i \in Submissions, NEW m \in Modules, NEW o \in BOOLEAN,
             SubmitModule(r, m, i, o)
      PROVE  /\ sub' \in [Submissions -> Subs \cup {NoSub}]
             /\ phase' \in [Submissions -> {"unused", "pending", "committed"}]
             /\ \A j \in Submissions \ {i} : sub'[j] = sub[j] /\ phase'[j] = phase[j]
             /\ phase[i] = "unused" /\ phase'[i] = "pending" /\ sub'[i] \in Subs
             /\ live' = live
             /\ \A w \in Modules : sub'[i].exam.basis[w] <= live[w]
  <2> DEFINE exam == [unit |-> m, basis |-> Alone(m), key |-> key[m]]
  <2>1. exam \in Exams
    BY BasesOfExams DEF Exams, Units, ExamsTypeOK
  <2>2. Record(i, r, exam, o, 0) /\ live' = live
    BY <1>3 DEF SubmitModule, forge
  <2>3. 0 \in 0 .. MaxAttested
    BY ExamsConstants
  <2>4. exam.basis = Alone(m)
    OBVIOUS
  <2> HIDE DEF exam
  <2>5. sub'[i].exam = exam
    BY <2>1, <2>2, <2>3, RecordSteps
  <2>6. QED
    BY <2>1, <2>2, <2>3, <2>4, <2>5, RecordSteps, BasesOfExams
<1>4. ASSUME NEW r \in ExamRuns, NEW i \in Submissions, NEW o \in BOOLEAN, NEW q \in BOOLEAN,
             NEW w \in PostedModels, SubmitDept(r, i, o, q, w)
      PROVE  /\ sub' \in [Submissions -> Subs \cup {NoSub}]
             /\ phase' \in [Submissions -> {"unused", "pending", "committed"}]
             /\ \A j \in Submissions \ {i} : sub'[j] = sub[j] /\ phase'[j] = phase[j]
             /\ phase[i] = "unused" /\ phase'[i] = "pending" /\ sub'[i] \in Subs
             /\ live' = live
             /\ \A v \in Modules : sub'[i].exam.basis[v] <= live[v]
  <2> DEFINE exam == [unit |-> Dept, basis |-> Covered(r), key |-> 0]
             att == IF q THEN Len(attested) ELSE 0
  <2>1. exam \in Exams
    BY BasesOfExams, ExamsConstants DEF Exams, Units, Keys
  <2>2. Record(i, r, exam, o, att) /\ live' = live
    BY <1>4 DEF SubmitDept, forge
  <2>3. att \in 0 .. MaxAttested
    BY ExamsConstants DEF ExamsTypeOK
  <2>4. exam.basis = Covered(r)
    OBVIOUS
  <2> HIDE DEF exam, att
  <2>5. sub'[i].exam = exam
    BY <2>1, <2>2, <2>3, RecordSteps
  <2>6. QED
    BY <2>1, <2>2, <2>3, <2>4, <2>5, RecordSteps, BasesOfExams
<1>5. QED
  <2>1. CASE \E r \in ExamRuns : CommitGate(r) \/ CrashGate(r)
    BY <2>1, <1>2
  <2>2. CASE \E r \in ExamRuns, i \in Submissions, m \in Modules, o \in BOOLEAN : SubmitModule(r, m, i, o)
    BY <2>2, <1>3
  <2>3. CASE \E r \in ExamRuns, i \in Submissions, o \in BOOLEAN, q \in BOOLEAN, w \in PostedModels :
                 SubmitDept(r, i, o, q, w)
    BY <2>3, <1>4
  <2>4. QED
    BY <1>1, <2>1, <2>2, <2>3, WhoWrites, Zenon

\* What is on record stays: a committed submission as it was, an answer, and
\* every instruction written, whose number is never used again.
LEMMA HistoryStep ==
    ASSUME ExamsTypeOK, BasesWritten, ExamsNext
    PROVE  /\ \A i \in Submissions : phase[i] = "committed" =>
                  phase'[i] = "committed" /\ sub'[i] = sub[i]
           /\ answers \subseteq answers'
           /\ live' \in Bases
           /\ names' \in [Modules -> [1 .. MaxVersion -> Apis]]
           /\ \A m \in Modules : /\ live[m] <= live'[m]
                                 /\ \A v \in 1 .. live[m] : names'[m][v] = names[m][v]
<1>1. \A i \in Submissions : phase[i] = "committed" =>
          phase'[i] = "committed" /\ sub'[i] = sub[i]
  BY SubmissionSteps
<1>2. answers \subseteq answers'
  <2>1. ASSUME NEW i, NEW v, NEW w, Grade(i, v, w)
        PROVE  answers \subseteq answers'
    BY <2>1 DEF Grade
  <2>2. ASSUME NEW r, NEW i, NEW o, NEW q, NEW w, SubmitDept(r, i, o, q, w)
        PROVE  answers \subseteq answers'
    BY <2>2 DEF SubmitDept
  <2>3. QED
    BY <2>1, <2>2, WhoWrites
<1> DEFINE Kept == /\ live' \in Bases
                   /\ names' \in [Modules -> [1 .. MaxVersion -> Apis]]
                   /\ \A m \in Modules : /\ live[m] <= live'[m]
                                         /\ \A v \in 1 .. live[m] : names'[m][v] = names[m][v]
<1>3. Kept
  <2>1. CASE UNCHANGED <<live, names>>
    BY <2>1 DEF ExamsTypeOK, Bases, VersionNumbers
  <2>2. ASSUME NEW m \in Modules, NEW v \in 0 .. registry, Author(m, v)
        PROVE  Kept
    <3>1. agenda.versions \in 0 .. MaxVersion
      BY ExamsConstants DEF ExamsTypeOK
    <3>2. live[m] \in 0 .. MaxVersion /\ live[m] + 1 \in 1 .. MaxVersion
      BY <2>2, <3>1, ExamsConstants DEF ExamsTypeOK, Bases, VersionNumbers, Author
    <3>3. v \in Apis
      BY ExamsConstants DEF ExamsTypeOK, Apis
    <3>4. live' = [live EXCEPT ![m] = live[m] + 1]
      BY <2>2 DEF Author
    <3>5. names' = [names EXCEPT ![m] = [names[m] EXCEPT ![live[m] + 1] = v]]
      BY <2>2 DEF Author
    <3>6. live' \in Bases /\ \A w \in Modules : live[w] <= live'[w]
      BY <3>2, <3>4, ExamsConstants DEF ExamsTypeOK, Bases, VersionNumbers
    <3>7. names[m] \in [1 .. MaxVersion -> Apis]
      BY DEF ExamsTypeOK
    <3>8. [names[m] EXCEPT ![live[m] + 1] = v] \in [1 .. MaxVersion -> Apis]
      BY <3>2, <3>3, <3>7
    <3>9. names' \in [Modules -> [1 .. MaxVersion -> Apis]]
      BY <3>5, <3>8 DEF ExamsTypeOK
    <3>10. \A w \in Modules : \A b \in 1 .. live[w] : names'[w][b] = names[w][b]
      BY <3>2, <3>5, <3>7, ExamsConstants DEF ExamsTypeOK, Bases, VersionNumbers
    <3>11. QED
      BY <3>6, <3>9, <3>10
  <2>3. QED
    BY <2>1, <2>2, WhoWrites
<1>4. QED
  BY <1>1, <1>2, <1>3

\* A row found stale is there, and stale.
LEMMA SelectTyped ==
    ASSUME ExamsTypeOK, NEW units \in SUBSET Units
    PROVE  /\ Select(units) \subseteq Units \X {"stale_instructions", "stale_forge"}
           /\ \A f \in Select(units) : cert[f[1]] # NoRow
<1>1. ASSUME NEW u \in units, StateNow(u) # cert[u].state
      PROVE  StateNow(u) \in {"stale_instructions", "stale_forge"} /\ cert[u] # NoRow
  BY <1>1 DEF StateNow, NoRow
<1>2. QED
  BY <1>1 DEF Select

\* What a poll takes: an answer stored for the exam, or none; and then a row may
\* be written.
LEMMA TakeCarries ==
    ASSUME ExamsTypeOK, NEW i \in Submissions, NEW g, Take(i, g)
    PROVE  /\ g \in [verdict : Terminal \cup NotAnAnswer, model : Models]
           /\ g.verdict \in Terminal =>
                 [exam |-> sub[i].exam, verdict |-> g.verdict, model |-> g.model] \in answers
<1>1. g \in Reading(i)
  BY DEF Take
<1>2. CASE g = TimedOut
  BY <1>2 DEF TimedOut, NotAnAnswer, Models, Terminal
<1>3. CASE g \in [verdict : Silences, model : {"none"}]
  BY <1>3, ExamsConstants DEF NotAnAnswer, Models, Terminal
<1>4. ASSUME NEW a \in AnswersTo(sub[i].exam), g = [verdict |-> a.verdict, model |-> a.model]
      PROVE  /\ g \in [verdict : Terminal \cup NotAnAnswer, model : Models]
             /\ [exam |-> sub[i].exam, verdict |-> g.verdict, model |-> g.model] \in answers
  <2>1. a \in answers /\ a \in Answers /\ a.exam = sub[i].exam
    BY DEF AnswersTo, ExamsTypeOK
  <2>2. a = [exam |-> a.exam, verdict |-> a.verdict, model |-> a.model]
    BY <2>1 DEF Answers
  <2>3. QED
    BY <1>4, <2>1, <2>2 DEF Answers
<1>5. QED
  BY <1>1, <1>2, <1>3, <1>4 DEF Reading, Stored

\* The release of a committed submission, once found, is found again.
LEMMA ResolvedKept ==
    ASSUME ExamsTypeOK, BasesWritten, ExamsNext,
           NEW i \in Submissions, phase[i] = "committed"
    PROVE  Resolved(i)' = Resolved(i)
<1>1. sub'[i] = sub[i]
  BY HistoryStep
<1>2. sub[i] \in Subs
  BY DEF ExamsTypeOK
<1>3. ASSUME NEW m \in Members(sub[i].exam.basis)
      PROVE  names'[m][sub[i].exam.basis[m]] = names[m][sub[i].exam.basis[m]]
  <2>1. m \in Modules /\ sub[i].exam.basis[m] # 0
    BY DEF Members
  <2>2. sub[i].exam.basis[m] \in VersionNumbers /\ sub[i].exam.basis[m] <= live[m]
    BY <1>2, <2>1 DEF Subs, Exams, Bases, BasesWritten, Recorded
  <2>3. sub[i].exam.basis[m] \in 1 .. live[m]
    BY <2>1, <2>2, ExamsConstants DEF VersionNumbers, ExamsTypeOK, Bases
  <2>4. QED
    BY <2>1, <2>3, HistoryStep
<1> DEFINE b == sub[i].exam.basis
           v == {names[m][b[m]] : m \in Members(b)}
           w == {names'[m][b[m]] : m \in Members(b)}
<1>4. v = w
  BY <1>3
<1>5. Resolved(i) = {a \in Apis : v = {a} /\ \A m \in Members(b) : b[m] = sub[i].at[m]}
  BY DEF Resolved, InForce
<1>6. Resolved(i)' = {a \in Apis : w = {a} /\ \A m \in Members(b) : b[m] = sub[i].at[m]}
  BY <1>1 DEF Resolved, InForce, Members, Apis
<1>7. QED
  BY <1>4, <1>5, <1>6

\* What record_result writes is a row.
LEMMA NewRowTyped ==
    ASSUME ExamsTypeOK, ResultCarried, ipc = "upsert"
    PROVE  /\ NewRow \in Rows /\ NewRow # NoRow
           /\ NewRow.state = StateForVerdict(got.verdict)
           /\ NewRow.origin = IF sub[cur].attested # 0 THEN "attested" ELSE "tested"
           /\ NewRow.basis = sub[cur].exam.basis
           /\ NewRow.api = IF Resolved(cur) = {} THEN -1 ELSE CHOOSE a \in Resolved(cur) : TRUE
           /\ sub[cur].exam.unit \in Units
<1>1. cur \in Submissions /\ sub[cur] \in Subs /\ got.verdict \in Terminal \cup NotAnAnswer
  BY DEF ResultCarried, ExamsTypeOK
<1>2. StateForVerdict(got.verdict) \in States
  BY <1>1 DEF StateForVerdict, States
<1>3. sub[cur].exam \in Exams /\ sub[cur].exam.basis \in Bases /\ sub[cur].attested \in 0 .. MaxAttested
  BY <1>1 DEF Subs, Exams
<1>4. (IF Resolved(cur) = {} THEN -1 ELSE CHOOSE a \in Resolved(cur) : TRUE) \in Apis \cup {-1}
  BY DEF Resolved
<1>5. 0 \in 0 .. MaxDeclared
  BY ExamsConstants
<1>6. NewRow \in Rows
  BY <1>2, <1>3, <1>4, <1>5 DEF NewRow, Rows, Origins
<1>7. NewRow # NoRow
  BY <1>2 DEF NewRow, NoRow, States
<1>8. sub[cur].exam.unit \in Units
  BY <1>3 DEF Exams
<1>9. QED
  BY <1>6, <1>7, <1>8 DEF NewRow

\* The Forge, the humans and the gates keep their types.
LEMMA OfficeTypes ==
    ASSUME ExamsTypeOK, ExamsNext
    PROVE  /\ registry' \in Apis
           /\ key' \in [Modules -> Keys]
           /\ simulation' \in (0 .. MaxDeclared) \X BOOLEAN
           /\ attested' \in Seq(BOOLEAN) /\ Len(attested') <= MaxAttested
           /\ superseded' \subseteq Submissions
           /\ run' \in [ExamRuns -> {"active", "aborting", "aborted"}]
           /\ pass' \in [ExamRuns -> {"idle", "modules", "commit"}]
           /\ since' \in [ExamRuns -> Bases]
           /\ handled' \in [ExamRuns -> SUBSET Modules]
           /\ agenda' \in Agendas
<1> USE DEF forge, human, gate8, rows, ingest
<1>a. agenda' = agenda
  BY DEF ExamsNext
<1>b. agenda.declared \in 0 .. MaxDeclared /\ agenda.attested \in 0 .. MaxAttested
  BY ExamsConstants DEF ExamsTypeOK
<1>0. CASE UNCHANGED <<registry, key, human, superseded, gate8>>
  BY <1>0, <1>a DEF ExamsTypeOK
<1>1. CASE Release
  <2>1. registry' \in Apis /\ UNCHANGED <<key, human, superseded, gate8>>
    BY <1>1, ExamsConstants DEF Release, ExamsTypeOK, Apis
  <2>2. QED
    BY <2>1, <1>a DEF ExamsTypeOK
<1>2. ASSUME NEW m \in Modules, ApproveKey(m)
      PROVE  key' \in [Modules -> Keys] /\ UNCHANGED <<registry, human, superseded, gate8>>
  BY <1>2, ExamsConstants DEF ApproveKey, ExamsTypeOK, Keys
<1>3. CASE Declare \/ Leave
  <2>1. simulation[1] \in 0 .. MaxDeclared
    BY DEF ExamsTypeOK
  <2>2. CASE Declare
    <3>1. simulation[1] + 1 \in 0 .. MaxDeclared
      BY <2>1, <2>2, <1>b, ExamsConstants DEF Declare
    <3>2. simulation' = <<simulation[1] + 1, TRUE>> /\ UNCHANGED <<registry, key, attested, superseded, gate8>>
      BY <2>2 DEF Declare
    <3>3. simulation' \in (0 .. MaxDeclared) \X BOOLEAN
      BY <3>1, <3>2
    <3>4. QED
      BY <3>2, <3>3, <1>a DEF ExamsTypeOK
  <2>3. CASE Leave
    <3>1. simulation' = <<simulation[1], FALSE>> /\ UNCHANGED <<registry, key, attested, superseded, gate8>>
      BY <2>3 DEF Leave
    <3>2. simulation' \in (0 .. MaxDeclared) \X BOOLEAN
      BY <2>1, <3>1
    <3>3. QED
      BY <3>1, <3>2, <1>a DEF ExamsTypeOK
  <2>4. QED
    BY <1>3, <2>2, <2>3
<1>4. ASSUME NEW passed \in BOOLEAN, Attest(passed)
      PROVE  /\ attested' \in Seq(BOOLEAN) /\ Len(attested') <= MaxAttested
             /\ UNCHANGED <<registry, key, simulation, superseded, gate8>>
  <2>1. attested' = Append(attested, passed) /\ Len(attested) < agenda.attested
    BY <1>4 DEF Attest
  <2>2. attested \in Seq(BOOLEAN)
    BY DEF ExamsTypeOK
  <2>3. Append(attested, passed) \in Seq(BOOLEAN) /\ Len(Append(attested, passed)) = Len(attested) + 1
          /\ Len(attested) \in Nat
    BY <2>2
  <2>4. Len(attested') <= MaxAttested
    BY <2>1, <2>3, <1>b, ExamsConstants
  <2>5. QED
    BY <1>4, <2>1, <2>3, <2>4 DEF Attest
<1>5. ASSUME NEW r \in ExamRuns, Gate8(r) \/ Abort(r) \/ Supersede(r)
      PROVE  /\ UNCHANGED <<registry, key, human>>
             /\ superseded' \subseteq Submissions
             /\ run' \in [ExamRuns -> {"active", "aborting", "aborted"}]
             /\ pass' \in [ExamRuns -> {"idle", "modules", "commit"}]
             /\ since' \in [ExamRuns -> Bases]
             /\ handled' \in [ExamRuns -> SUBSET Modules]
  <2>1. CASE BeginGate(r) \/ SkipDept(r)
    BY <2>1 DEF BeginGate, SkipDept, ExamsTypeOK
  <2>2. CASE \E m \in Modules : PassOver(r, m) \/ \E i, o : SubmitModule(r, m, i, o)
    BY <2>2 DEF PassOver, SubmitModule, ExamsTypeOK
  <2>3. CASE \E i, o, q, w : SubmitDept(r, i, o, q, w)
    BY <2>3 DEF SubmitDept, ExamsTypeOK
  <2>4. CASE CommitGate(r) \/ CrashGate(r)
    <3>1. [m \in Modules |-> 0] \in Bases
      BY ExamsConstants DEF Bases, VersionNumbers
    <3>2. EndGate(r) /\ UNCHANGED <<registry, key, human, superseded, run>>
      BY <2>4 DEF CommitGate, CrashGate
    <3>3. QED
      BY <3>1, <3>2 DEF EndGate, ExamsTypeOK
  <2>5. CASE Abort(r) \/ Supersede(r)
    BY <2>5 DEF Abort, Supersede, ExamsTypeOK
  <2>6. QED
    BY <1>5, <2>1, <2>2, <2>3, <2>4, <2>5 DEF Gate8
<1>6. CASE \/ CertifyForSimulation
           \/ \E m \in Modules, v \in 0 .. registry : Author(m, v)
           \/ \E i \in Submissions, g \in agenda.gradings : Grade(i, g[1], g[2])
  BY <1>6, <1>0 DEF CertifyForSimulation, Author, Grade
<1>7. ASSUME NEW p \in StalePasses, Staleness(p)
      PROVE  UNCHANGED <<registry, key, human, superseded, gate8>>
  BY <1>7 DEF Staleness, SelectStale, UpdateStale, CrashStale
<1>8. CASE Ingest
  <2>1. UNCHANGED <<registry, key, human, superseded, gate8>>
    BY <1>8 DEF Ingest, BeginIngest, Poll, LeaveOpen, Take, Upsert, Mark, EndIngest, CrashIngest
  <2>2. QED
    BY <2>1, <1>0
<1>9. QED
  <2>1. Step
    BY DEF ExamsNext
  <2>2. CASE \E m \in Modules : ApproveKey(m)
    BY <2>2, <1>2, <1>a DEF ExamsTypeOK
  <2>3. CASE \E passed \in BOOLEAN : Attest(passed)
    BY <2>3, <1>4, <1>a DEF ExamsTypeOK
  <2>4. CASE \E r \in ExamRuns : Gate8(r) \/ Abort(r) \/ Supersede(r)
    BY <2>4, <1>5, <1>a DEF ExamsTypeOK
  <2>5. CASE \E p \in StalePasses : Staleness(p)
    BY <2>5, <1>7, <1>0
  <2>6. QED
    BY <2>1, <1>1, <2>2, <1>3, <2>3, <2>4, <2>5, <1>6, <1>8, Zenon DEF Step, Forge, Human

\* A staleness pass marks a row that is there, and changes nothing else of it.
Marked(u) ==
    /\ cert[u] # NoRow
    /\ cert'[u] # NoRow
    /\ cert'[u].state \in {"stale_instructions", "stale_forge"}
    /\ cert'[u].basis = cert[u].basis

\* The rows and what the passes found keep their types; a row there remains.
LEMMA RowTypes ==
    ASSUME ExamsTypeOK, ResultCarried, FoundHaveRows, ExamsNext
    PROVE  /\ cert' \in [Units -> Rows \cup {NoRow}]
           /\ found' \in [StalePasses -> SUBSET (Units \X {"stale_instructions", "stale_forge"})]
           /\ \A u \in Units :
                 \/ cert'[u] = cert[u]
                 \/ Marked(u)
                 \/ /\ u = Dept /\ cert'[u].origin = "simulation" /\ cert'[u].basis = live /\ cert'[u] # NoRow
                    /\ live' = live
                 \/ /\ Upsert /\ u = sub[cur].exam.unit /\ cert'[u] = NewRow
           /\ FoundHaveRows'
<1>1. CASE UNCHANGED <<cert, found>>
  BY <1>1 DEF ExamsTypeOK, FoundHaveRows
<1>2. CASE UNCHANGED found /\ CertifyForSimulation
  <2> DEFINE row == [state |-> "certified", origin |-> "simulation", basis |-> live,
                     api |-> registry, declared |-> simulation[1], attested |-> 0]
  <2>1. row \in Rows
    BY ExamsConstants DEF ExamsTypeOK, Rows, States, Origins
  <2>2. row # NoRow /\ row.origin = "simulation" /\ row.basis = live
    BY DEF NoRow
  <2>3. cert' = [cert EXCEPT ![Dept] = row] /\ live' = live
    BY <1>2 DEF CertifyForSimulation, forge
  <2> HIDE DEF row
  <2>4. Dept \in Units
    BY DEF Units
  <2>5. QED
    BY <1>2, <2>1, <2>2, <2>3, <2>4 DEF ExamsTypeOK, FoundHaveRows
<1>3. CASE UNCHANGED found /\ Upsert
  <2>1. cert' = [cert EXCEPT ![sub[cur].exam.unit] = NewRow] /\ ipc = "upsert"
    BY <1>3 DEF Upsert
  <2>2. NewRow \in Rows /\ NewRow # NoRow /\ sub[cur].exam.unit \in Units
    BY <2>1, NewRowTyped
  <2>3. \A u \in Units : cert'[u] = IF u = sub[cur].exam.unit THEN NewRow ELSE cert[u]
    BY <2>1 DEF ExamsTypeOK
  <2>4. cert' \in [Units -> Rows \cup {NoRow}]
    BY <2>1, <2>2 DEF ExamsTypeOK
  <2>5. \A q \in StalePasses : \A f \in found[q] : f[1] \in Units
    BY DEF ExamsTypeOK
  <2>6. FoundHaveRows'
    BY <1>3, <2>2, <2>3, <2>5 DEF FoundHaveRows
  <2>7. QED
    BY <1>3, <2>3, <2>4, <2>6 DEF ExamsTypeOK
<1>4. ASSUME NEW p \in StalePasses, NEW units \in SUBSET Units, SelectStale(p, units)
      PROVE  /\ cert' = cert
             /\ found' \in [StalePasses -> SUBSET (Units \X {"stale_instructions", "stale_forge"})]
             /\ FoundHaveRows'
  BY <1>4, SelectTyped DEF SelectStale, ExamsTypeOK, FoundHaveRows
<1>5. ASSUME NEW p \in StalePasses, UpdateStale(p)
      PROVE  /\ cert' \in [Units -> Rows \cup {NoRow}]
             /\ found' \in [StalePasses -> SUBSET (Units \X {"stale_instructions", "stale_forge"})]
             /\ \A u \in Units : cert'[u] = cert[u] \/ Marked(u)
             /\ FoundHaveRows'
  <2> DEFINE hit(u) == \E s \in States : <<u, s>> \in found[p]
             st(u) == CHOOSE s \in States : <<u, s>> \in found[p]
  <2>1. cert' = [u \in Units |-> IF hit(u) THEN [cert[u] EXCEPT !.state = st(u)] ELSE cert[u]]
          /\ found' = [found EXCEPT ![p] = {}]
    BY <1>5 DEF UpdateStale
  <2>2. ASSUME NEW u \in Units, hit(u)
        PROVE  Marked(u) /\ cert'[u] \in Rows
    <3>1. st(u) \in States /\ <<u, st(u)>> \in found[p]
      BY <2>2
    <3>2. found[p] \subseteq Units \X {"stale_instructions", "stale_forge"}
      BY DEF ExamsTypeOK
    <3>3. st(u) \in {"stale_instructions", "stale_forge"}
      BY <3>1, <3>2
    <3>4. cert[u] # NoRow
      BY <3>1 DEF FoundHaveRows
    <3>5. cert[u] \in Rows
      BY <3>4 DEF ExamsTypeOK
    <3>6. cert'[u] = [cert[u] EXCEPT !.state = st(u)]
      BY <2>1, <2>2
    <3> HIDE DEF st
    <3>7. [cert[u] EXCEPT !.state = st(u)] \in Rows
      BY <3>3, <3>5 DEF Rows, States
    <3>8. [cert[u] EXCEPT !.state = st(u)].state = st(u)
            /\ [cert[u] EXCEPT !.state = st(u)].basis = cert[u].basis
      BY <3>5 DEF Rows
    <3>9. cert'[u] # NoRow
      BY <3>3, <3>6, <3>8 DEF NoRow
    <3>10. QED
      BY <3>3, <3>4, <3>6, <3>7, <3>8, <3>9 DEF Marked
  <2>3. ASSUME NEW u \in Units, ~ hit(u)
        PROVE  cert'[u] = cert[u]
    BY <2>1, <2>3
  <2>4. cert' \in [Units -> Rows \cup {NoRow}]
    <3>1. \A u \in Units : cert'[u] \in Rows \cup {NoRow}
      BY <2>2, <2>3 DEF ExamsTypeOK
    <3>2. \E f : cert' = [u \in Units |-> f[u]]
      <4>1. cert' = [u \in Units |-> cert'[u]]
        BY <2>1, Zenon
      <4>2. QED
        BY <4>1, Zenon
    <3>3. QED
      BY <3>1, <3>2
  <2>5. \A u \in Units : cert[u] # NoRow => cert'[u] # NoRow
    BY <2>2, <2>3 DEF Marked
  <2>6. found' \in [StalePasses -> SUBSET (Units \X {"stale_instructions", "stale_forge"})]
          /\ \A q \in StalePasses : found'[q] \subseteq found[q]
    BY <2>1 DEF ExamsTypeOK
  <2>7. \A q \in StalePasses : \A f \in found[q] : f[1] \in Units
    BY DEF ExamsTypeOK
  <2>8. FoundHaveRows'
    BY <2>5, <2>6, <2>7 DEF FoundHaveRows
  <2>9. QED
    BY <2>2, <2>3, <2>4, <2>6, <2>8
<1>6. ASSUME NEW p \in StalePasses, CrashStale(p)
      PROVE  /\ cert' = cert
             /\ found' \in [StalePasses -> SUBSET (Units \X {"stale_instructions", "stale_forge"})]
             /\ FoundHaveRows'
  BY <1>6 DEF CrashStale, ExamsTypeOK, FoundHaveRows
<1>7. QED
  BY <1>1, <1>2, <1>3, <1>4, <1>5, <1>6, WhoWrites DEF ExamsTypeOK

\* The ingest sweep and what it closes keep their types, and it lists, carries
\* and closes committed submissions only.
LEMMA IngestStep ==
    ASSUME ExamsInv, ExamsNext
    PROVE  /\ answered' \subseteq Submissions
           /\ ipc' \in {"idle", "poll", "upsert", "mark"}
           /\ todo' \subseteq Submissions
           /\ cur' \in Submissions \cup {Nobody}
           /\ got' \in [verdict : Terminal \cup NotAnAnswer, model : Models] \cup {NoAnswer}
           /\ ListedAreCommitted'
           /\ ResultCarried'
           /\ AnswerMarked'
           /\ ClosedMeansAnswered'
<1> USE DEF ExamsInv
<1>1. \A i \in Submissions : phase[i] = "committed" =>
          phase'[i] = "committed" /\ sub'[i] = sub[i]
  BY HistoryStep
<1>2. answers \subseteq answers'
  BY HistoryStep
<1> DEFINE Swept == /\ ipc' \in {"idle", "poll", "upsert", "mark"}
                    /\ todo' \subseteq Submissions
                    /\ cur' \in Submissions \cup {Nobody}
                    /\ got' \in [verdict : Terminal \cup NotAnAnswer, model : Models] \cup {NoAnswer}
                    /\ \A i \in todo' : phase'[i] = "committed"
                    /\ ResultCarried'
                    /\ AnswerMarked'
<1>3. ASSUME UNCHANGED ingest
      PROVE  Swept
  BY <1>1, <1>2, <1>3 DEF ingest, ExamsTypeOK, ListedAreCommitted, ResultCarried, AnswerMarked
<1>4. ASSUME BeginIngest \/ EndIngest \/ CrashIngest \/ Mark \/ \E i \in todo : LeaveOpen(i)
      PROVE  Swept
  <2>1. todo' \subseteq Submissions /\ \A i \in todo' : phase'[i] = "committed"
    <3>1. todo' \subseteq todo \cup Open
      BY <1>4 DEF BeginIngest, EndIngest, CrashIngest, Mark, LeaveOpen
    <3>2. QED
      BY <3>1, <1>1 DEF Open, ListedAreCommitted, ExamsTypeOK
  <2>2. ipc' \in {"idle", "poll"}
    BY <1>4 DEF BeginIngest, EndIngest, CrashIngest, Mark, LeaveOpen
  <2>3. (cur' = cur /\ got' = got) \/ (cur' = Nobody /\ got' = NoAnswer)
    BY <1>4 DEF BeginIngest, EndIngest, CrashIngest, Mark, LeaveOpen
  <2>4. QED
    BY <2>1, <2>2, <2>3 DEF ResultCarried, AnswerMarked, ExamsTypeOK
<1>5. ASSUME NEW i \in todo, NEW g \in Reading(i), Take(i, g)
      PROVE  Swept
  <2>1. i \in Submissions /\ phase[i] = "committed"
    BY DEF ExamsTypeOK, ListedAreCommitted
  <2>2. /\ g \in [verdict : Terminal \cup NotAnAnswer, model : Models]
        /\ g.verdict \in Terminal =>
              [exam |-> sub[i].exam, verdict |-> g.verdict, model |-> g.model] \in answers
    BY <1>5, <2>1, TakeCarries
  <2>3. ipc' = "upsert" /\ cur' = i /\ got' = g /\ todo' = todo \ {i}
    BY <1>5 DEF Take
  <2>4. ResultCarried'
    BY <1>1, <1>2, <2>1, <2>2, <2>3 DEF ResultCarried
  <2>5. QED
    BY <1>1, <2>1, <2>2, <2>3, <2>4 DEF AnswerMarked, ListedAreCommitted, ExamsTypeOK
<1>6. ASSUME Upsert
      PROVE  Swept
  <2>1. todo' = todo /\ ipc = "upsert"
    BY <1>6 DEF Upsert
  <2>2. CASE got.verdict \in Terminal
    <3>1. ipc' = "mark" /\ cur' = cur /\ got' = got
      BY <1>6, <2>2 DEF Upsert, Closes
    <3>2. QED
      BY <1>1, <1>2, <2>1, <2>2, <3>1 DEF ExamsTypeOK, ListedAreCommitted, ResultCarried, AnswerMarked
  <2>3. CASE got.verdict \notin Terminal
    <3>1. ipc' = "poll" /\ cur' = Nobody /\ got' = NoAnswer
      BY <1>6, <2>3 DEF Upsert, Closes
    <3>2. QED
      BY <1>1, <2>1, <3>1 DEF ExamsTypeOK, ListedAreCommitted, ResultCarried, AnswerMarked
  <2>4. QED
    BY <2>2, <2>3
<1>7. Swept
  BY <1>3, <1>4, <1>5, <1>6, WhoWrites DEF Poll
<1>8. /\ answered' \subseteq Submissions
      /\ \A i \in answered' : phase'[i] = "committed"
      /\ ClosedMeansAnswered'
  <2>1. CASE UNCHANGED answered
    BY <2>1, <1>1, <1>2 DEF ExamsTypeOK, ListedAreCommitted, ClosedMeansAnswered, AnswersTo
  <2>2. CASE Mark
    <3>1. answered' = answered \cup {cur} /\ ipc = "mark"
      BY <2>2 DEF Mark
    <3>2. cur \in Submissions /\ phase[cur] = "committed"
            /\ [exam |-> sub[cur].exam, verdict |-> got.verdict, model |-> got.model] \in answers
      BY <3>1 DEF ResultCarried, AnswerMarked
    <3>3. AnswersTo(sub[cur].exam) # {}
      BY <3>2 DEF AnswersTo
    <3>4. \A i \in answered' : i \in Submissions /\ phase[i] = "committed" /\ AnswersTo(sub[i].exam) # {}
      BY <3>1, <3>2, <3>3 DEF ExamsTypeOK, ListedAreCommitted, ClosedMeansAnswered
    <3>5. QED
      BY <3>4, <1>1, <1>2 DEF ClosedMeansAnswered, AnswersTo
  <2>3. QED
    BY <2>1, <2>2, WhoWrites
<1>9. QED
  BY <1>7, <1>8 DEF ListedAreCommitted

\* What SimForge stores is an answer.
LEMMA AnswerTypes ==
    ASSUME ExamsTypeOK, BasesWritten, ExamsNext
    PROVE  answers' \subseteq Answers
<1>1. ASSUME NEW i \in Submissions, NEW g \in agenda.gradings, Grade(i, g[1], g[2])
      PROVE  answers' \subseteq Answers
  <2>1. agenda.gradings \subseteq Gradings
    BY ExamsConstants DEF ExamsTypeOK
  <2>2. g[1] \in Terminal /\ g[2] \in Models
    BY <2>1, ExamsConstants DEF Terminal, Models
  <2>3. sub[i].exam \in Exams
    BY <1>1 DEF Grade, ExamsTypeOK, Subs
  <2>4. [exam |-> sub[i].exam, verdict |-> g[1], model |-> g[2]] \in Answers
    BY <2>2, <2>3 DEF Answers
  <2>5. QED
    BY <1>1, <2>4 DEF Grade, ExamsTypeOK
<1>2. ASSUME NEW r \in ExamRuns, NEW i \in Submissions, NEW o \in BOOLEAN, NEW q \in BOOLEAN,
             NEW w \in PostedModels, SubmitDept(r, i, o, q, w)
      PROVE  answers' \subseteq Answers
  <2> DEFINE exam == [unit |-> Dept, basis |-> Covered(r), key |-> 0]
             verdict == IF attested[Len(attested)] THEN "PASS" ELSE "FAIL"
  <2>1. exam \in Exams
    BY BasesOfExams, ExamsConstants DEF Exams, Units, Keys
  <2>2. verdict \in Terminal /\ w \in Models
    BY ExamsConstants DEF Terminal, Models
  <2>3. answers' \subseteq answers \cup {[exam |-> exam, model |-> w, verdict |-> verdict]}
    BY <1>2, Zenon DEF SubmitDept
  <2> HIDE DEF exam, verdict
  <2>4. [exam |-> exam, model |-> w, verdict |-> verdict] \in Answers
    BY <2>1, <2>2 DEF Answers
  <2>5. QED
    BY <2>3, <2>4 DEF ExamsTypeOK
<1>3. QED
  BY <1>1, <1>2, WhoWrites DEF ExamsTypeOK

\* Every step keeps the types.
LEMMA ExamsTypeStep ==
    ASSUME ExamsInv, ExamsNext
    PROVE  ExamsTypeOK'
<1> USE DEF ExamsInv
<1>1. \A i \in Submissions : phase'[i] # "unused" => sub'[i] \in Subs
  BY SubmissionSteps DEF ExamsTypeOK
<1>2. cert' \in [Units -> Rows \cup {NoRow}]
        /\ found' \in [StalePasses -> SUBSET (Units \X {"stale_instructions", "stale_forge"})]
  BY RowTypes
<1>3. QED
  <2> HIDE DEF ExamsInv
  <2>1. ExamsTypeOK /\ BasesWritten
    BY DEF ExamsInv
  <2>2. /\ sub' \in [Submissions -> Subs \cup {NoSub}]
        /\ phase' \in [Submissions -> {"unused", "pending", "committed"}]
    BY <2>1, SubmissionSteps
  <2>3. live' \in Bases /\ names' \in [Modules -> [1 .. MaxVersion -> Apis]]
    BY <2>1, HistoryStep
  <2>4. QED
    BY <1>1, <1>2, <2>1, <2>2, <2>3, OfficeTypes, IngestStep, AnswerTypes
       DEF ExamsTypeOK, Apis, Keys, Models, Terminal, NotAnAnswer, NoAnswer

\* Every step leaves submissions and rows on instructions that are written.
LEMMA BasesStep ==
    ASSUME ExamsInv, ExamsNext
    PROVE  BasesWritten'
<1> USE DEF ExamsInv
<1>1. \A m \in Modules : live[m] \in Nat /\ live'[m] \in Nat /\ live[m] <= live'[m]
  BY HistoryStep, ExamsConstants DEF ExamsTypeOK, Bases, VersionNumbers
<1>2. ASSUME NEW i \in Submissions, Recorded(i)', NEW m \in Modules
      PROVE  sub'[i].exam.basis[m] <= live'[m]
  <2>1. CASE sub'[i] = sub[i] /\ phase[i] # "unused"
    <3>1. sub[i].exam.basis[m] \in VersionNumbers
      BY <2>1 DEF ExamsTypeOK, Subs, Exams, Bases
    <3>2. sub[i].exam.basis[m] <= live[m]
      BY <2>1 DEF BasesWritten, Recorded
    <3>3. QED
      BY <3>1, <3>2, <2>1, <1>1, ExamsConstants DEF VersionNumbers
  <2>2. CASE live' = live /\ \A w \in Modules : sub'[i].exam.basis[w] <= live[w]
    BY <2>2
  <2>3. QED
    BY <1>2, <2>1, <2>2, SubmissionSteps DEF Recorded
<1>3. ASSUME NEW u \in Units, cert'[u] # NoRow, NEW m \in Modules
      PROVE  cert'[u].basis[m] <= live'[m]
  <2>1. ASSUME cert[u] # NoRow
        PROVE  cert[u].basis[m] <= live'[m]
    <3>1. cert[u].basis[m] \in VersionNumbers
      BY <2>1 DEF ExamsTypeOK, Rows, Bases
    <3>2. cert[u].basis[m] <= live[m]
      BY <2>1 DEF BasesWritten
    <3>3. QED
      BY <3>1, <3>2, <1>1, ExamsConstants DEF VersionNumbers
  <2>2. CASE cert'[u] = cert[u] \/ Marked(u)
    BY <1>3, <2>1, <2>2 DEF Marked
  <2>3. CASE cert'[u].basis = live /\ live' = live
    BY <2>3, <1>1
  <2>4. CASE Upsert /\ cert'[u] = NewRow
    <3>1. ipc = "upsert" /\ live' = live
      BY <2>4 DEF Upsert, forge
    <3>2. cur \in Submissions /\ phase[cur] = "committed"
      BY <3>1 DEF ResultCarried
    <3>3. NewRow.basis = sub[cur].exam.basis
      BY <3>1, NewRowTyped
    <3>4. sub[cur].exam.basis[m] <= live[m]
      BY <3>2 DEF BasesWritten, Recorded
    <3>5. QED
      BY <2>4, <3>1, <3>3, <3>4
  <2>5. QED
    BY <2>2, <2>3, <2>4, RowTypes
<1>4. QED
  BY <1>2, <1>3 DEF BasesWritten

\* What an upsert was found to need, it still finds.
LEMMA ReadyStep ==
    ASSUME ExamsInv, ExamsNext
    PROVE  ReadyToWrite'
<1> USE DEF ExamsInv
<1> SUFFICES ASSUME ipc' = "upsert"
             PROVE  ReadyToWrite'
  BY DEF ReadyToWrite
<1>1. CASE UNCHANGED ingest
  <2>1. ipc = "upsert" /\ cur' = cur /\ got' = got
    BY <1>1 DEF ingest
  <2>2. cur \in Submissions /\ phase[cur] = "committed"
    BY <2>1 DEF ResultCarried
  <2>3. PICK i \in Submissions : i = cur
    BY <2>2
  <2>a. sub'[i] = sub[i] /\ Resolved(i)' = Resolved(i)
    BY <2>2, <2>3, HistoryStep, ResolvedKept
  <2>4. ASSUME sub[cur].exam.unit \in Modules, cert[sub[cur].exam.unit] = NoRow
        PROVE  cert'[sub[cur].exam.unit] = NoRow
    <3>1. sub[cur].exam.unit \in Units /\ sub[cur].exam.unit # Dept
      BY <2>4, ExamsConstants DEF Units
    <3>2. ~ Upsert
      <4>1. Upsert => ipc' # "upsert"
        BY DEF Upsert
      <4>2. QED
        BY <4>1
    <3>3. QED
      BY <2>4, <3>1, <3>2, RowTypes DEF Marked
  <2>5. QED
    BY <2>1, <2>3, <2>a, <2>4 DEF ReadyToWrite
<1>2. ASSUME NEW i \in todo, NEW g \in Reading(i), Take(i, g)
      PROVE  ReadyToWrite'
  <2>1. i \in Submissions /\ phase[i] = "committed"
    BY DEF ExamsTypeOK, ListedAreCommitted
  <2>2. sub'[i] = sub[i] /\ Resolved(i)' = Resolved(i)
    BY <2>1, HistoryStep, ResolvedKept
  <2>3. cur' = i /\ got' = g /\ cert' = cert /\ ~ Refuses(i, g) /\ ~ Preserves(i, g)
    BY <1>2 DEF Take
  <2>4. QED
    BY <2>2, <2>3 DEF ReadyToWrite, Refuses, Preserves
<1>3. QED
  <2>1. BeginIngest \/ EndIngest \/ CrashIngest \/ Mark \/ Upsert => ipc' # "upsert"
    BY DEF BeginIngest, EndIngest, CrashIngest, Mark, Upsert
  <2>2. ASSUME NEW i \in todo, LeaveOpen(i)
        PROVE  ipc' # "upsert"
    BY <2>2 DEF LeaveOpen
  <2>3. QED
    BY <1>1, <1>2, <2>1, <2>2, WhoWrites DEF Poll

\* What counts as examined was examined, and on what is still the text.
LEMMA EarnedStep ==
    ASSUME ExamsInv, ExamsNext
    PROVE  EarnedByItsExam'
<1> USE DEF ExamsInv
<1> SUFFICES ASSUME NEW u \in Units,
                    cert'[u] # NoRow, cert'[u].origin # "simulation",
                    cert'[u].state \in {"certified", "provisional"}
             PROVE  /\ \E a \in answers' : /\ a.exam.unit = u
                                           /\ a.exam.basis = cert'[u].basis
                                           /\ StateForVerdict(a.verdict) = cert'[u].state
                                           /\ cert'[u].origin = "tested" => a.model = "full"
                    /\ \A m \in Members(cert'[u].basis) :
                           names'[m][cert'[u].basis[m]] = cert'[u].api
  BY DEF EarnedByItsExam, StateForVerdict, Members
<1>1. CASE cert'[u] = cert[u]
  <2>1. cert[u] \in Rows
    BY <1>1 DEF ExamsTypeOK
  <2>2. \A m \in Modules : cert[u].basis[m] \in VersionNumbers /\ cert[u].basis[m] <= live[m]
    BY <1>1, <2>1 DEF Rows, Bases, BasesWritten
  <2>3. \A m \in Members(cert[u].basis) : m \in Modules /\ cert[u].basis[m] \in 1 .. live[m]
    BY <2>2, ExamsConstants DEF Members, VersionNumbers, ExamsTypeOK, Bases
  <2>4. \A m \in Members(cert[u].basis) : names'[m][cert[u].basis[m]] = names[m][cert[u].basis[m]]
    BY <2>3, HistoryStep
  <2>5. answers \subseteq answers'
    BY HistoryStep
  <2>6. QED
    BY <1>1, <2>4, <2>5 DEF EarnedByItsExam
<1>2. CASE Upsert /\ u = sub[cur].exam.unit /\ cert'[u] = NewRow
  <2>1. ipc = "upsert" /\ names' = names /\ answers' = answers
    BY <1>2 DEF Upsert, forge
  <2>2. /\ NewRow.state = StateForVerdict(got.verdict)
        /\ NewRow.origin = IF sub[cur].attested # 0 THEN "attested" ELSE "tested"
        /\ NewRow.basis = sub[cur].exam.basis
        /\ NewRow.api = IF Resolved(cur) = {} THEN -1 ELSE CHOOSE a \in Resolved(cur) : TRUE
    BY <2>1, NewRowTyped
  <2>3. /\ got.verdict \in Terminal \cup NotAnAnswer
        /\ got.verdict \in Terminal =>
              [exam |-> sub[cur].exam, verdict |-> got.verdict, model |-> got.model] \in answers
    BY <2>1 DEF ResultCarried
  <2>4. got.verdict \in Terminal
    BY <1>2, <2>2, <2>3 DEF StateForVerdict, NotAnAnswer, Terminal
  <2>5. Resolved(cur) # {} /\ (sub[cur].attested # 0 \/ got.model = "full")
    BY <1>2, <2>1, <2>2 DEF ReadyToWrite
  <2>6. NewRow.api \in Resolved(cur)
    BY <2>2, <2>5
  <2>7. \A m \in Members(sub[cur].exam.basis) : names[m][sub[cur].exam.basis[m]] = NewRow.api
    <3> DEFINE b == sub[cur].exam.basis
               v == {names[m][b[m]] : m \in Members(b)}
    <3>1. v = {NewRow.api}
      BY <2>6 DEF Resolved
    <3>2. QED
      BY <3>1
  <2>8. \E a \in answers : /\ a.exam.unit = u
                           /\ a.exam.basis = NewRow.basis
                           /\ StateForVerdict(a.verdict) = NewRow.state
                           /\ NewRow.origin = "tested" => a.model = "full"
    BY <1>2, <2>2, <2>3, <2>4, <2>5
  <2>9. QED
    BY <1>2, <2>1, <2>2, <2>7, <2>8
<1>3. ~ Marked(u)
  BY DEF Marked
<1>4. QED
  BY <1>1, <1>2, <1>3, RowTypes

\* Every step keeps the invariant.
LEMMA ExamsStep == ExamsInv /\ [ExamsNext]_examsVars => ExamsInv'
<1>1. ASSUME ExamsInv, ExamsNext
      PROVE  ExamsInv'
  <2>1. ExamsTypeOK /\ ResultCarried /\ FoundHaveRows
    BY <1>1 DEF ExamsInv
  <2>2. FoundHaveRows'
    BY <1>1, <2>1, RowTypes
  <2>3. ListedAreCommitted' /\ ResultCarried' /\ AnswerMarked' /\ ClosedMeansAnswered'
    BY <1>1, IngestStep
  <2>4. QED
    BY <1>1, <2>2, <2>3, ExamsTypeStep, BasesStep, ReadyStep, EarnedStep DEF ExamsInv
<1>2. ASSUME ExamsInv, UNCHANGED examsVars
      PROVE  ExamsInv'
  <2> USE DEF ExamsInv, examsVars, moving, forge, human, rows, gate8, ingest
  <2>1. ExamsTypeOK'
    BY <1>2 DEF ExamsTypeOK
  <2>2. BasesWritten' /\ FoundHaveRows' /\ ListedAreCommitted'
    BY <1>2 DEF BasesWritten, Recorded, FoundHaveRows, ListedAreCommitted
  <2>3. ResultCarried' /\ AnswerMarked'
    BY <1>2 DEF ResultCarried, AnswerMarked
  <2>4. ReadyToWrite'
    BY <1>2 DEF ReadyToWrite, Resolved, InForce, Members
  <2>5. ClosedMeansAnswered' /\ EarnedByItsExam'
    BY <1>2 DEF ClosedMeansAnswered, EarnedByItsExam, AnswersTo, Members
  <2>6. QED
    BY <2>1, <2>2, <2>3, <2>4, <2>5
<1>3. QED
  BY <1>1, <1>2

\* The invariant of the examinations, in every behaviour.
THEOREM ExamsInvariance == ExamsSpec => []ExamsInv
<1>1. QED
  BY ExamsInitInv, ExamsStep, PTL DEF ExamsSpec

\* Every state has its types: a submission on record is one, what the sweep
\* holds is a verdict, and a staleness pass would only ever write stale.
THEOREM ExamsTypeCorrect == ExamsSpec => []ExamsTypeOK
<1>1. ExamsInv => ExamsTypeOK
  BY DEF ExamsInv
<1>2. QED
  BY <1>1, ExamsInvariance, PTL

\* A submission is closed only on an answer SimForge has stored, whatever is
\* killed, abandoned or replaced meanwhile (TERMINAL_VERDICTS,
\* mark_result_received).
THEOREM ClosedMeansAnsweredHolds == ExamsSpec => []ClosedMeansAnswered
<1>1. ExamsInv => ClosedMeansAnswered
  BY DEF ExamsInv
<1>2. QED
  BY <1>1, ExamsInvariance, PTL

\* What counts as certified on an examination was earned by one, of that unit
\* and on exactly the instructions the row names (record_result).
THEOREM EarnedByItsExamHolds == ExamsSpec => []EarnedByItsExam
<1>1. ExamsInv => EarnedByItsExam
  BY DEF ExamsInv
<1>2. QED
  BY <1>1, ExamsInvariance, PTL

\* No step puts what is not an answer in the place of a holder's row: the row is
\* missing still when the INSERT of a TIMEOUT runs (record_result).
THEOREM NoAnswerErasesNothingHolds == ExamsSpec => NoAnswerErasesNothing
<1>1. ExamsInv /\ [ExamsNext]_examsVars =>
          [\A m \in Modules : cert[m] # NoRow /\ cert'[m].state \in NotAnswered
                                  => cert'[m] = cert[m]]_examsVars
  <2>1. ASSUME ExamsInv, ExamsNext, NEW m \in Modules, cert[m] # NoRow,
               cert'[m].state \in NotAnswered
        PROVE  cert'[m] = cert[m]
    <3>1. m \in Units /\ m # Dept
      BY ExamsConstants DEF Units
    <3>2. ~ Marked(m)
      BY <2>1 DEF Marked, NotAnswered
    <3>3. ASSUME Upsert, m = sub[cur].exam.unit, cert'[m] = NewRow
          PROVE  FALSE
      <4>1. ipc = "upsert"
        BY <3>3 DEF Upsert
      <4>2. NewRow.state = StateForVerdict(got.verdict) /\ got.verdict \in Terminal \cup NotAnAnswer
        BY <2>1, <4>1, NewRowTyped DEF ExamsInv, ResultCarried
      <4>3. got.verdict \in NotAnAnswer
        BY <2>1, <3>3, <4>2 DEF StateForVerdict, NotAnswered, Terminal
      <4>4. QED
        BY <2>1, <3>3, <4>1, <4>3 DEF ExamsInv, ReadyToWrite
    <3>4. QED
      BY <2>1, <3>1, <3>2, <3>3, RowTypes DEF ExamsInv
  <2>2. QED
    BY <2>1
<1>2. QED
  BY <1>1, ExamsInvariance, PTL DEF ExamsSpec, NoAnswerErasesNothing

\* Certificate's variables, as Exams keeps them.
CertificateStutter == UNCHANGED <<Said, Standing, Settled>>

\* What nobody writes is still said, standing and settled.
LEMMA PromiseKept ==
    ASSUME ExamsInv, ExamsNext
    PROVE  /\ answers' = answers => Said' = Said
           /\ cert' = cert => Standing' = Standing
           /\ answered' = answered => Settled' = Settled
<1>1. answers' = answers => Said' = Said
  BY DEF Said
<1>2. cert' = cert => Standing' = Standing
  BY DEF Standing
<1>3. ASSUME answered' = answered
      PROVE  Settled' = Settled
  <2>1. \A i \in answered : sub'[i] = sub[i]
    BY HistoryStep DEF ExamsInv, ExamsTypeOK, ListedAreCommitted
  <2>2. QED
    BY <1>3, <2>1 DEF Settled
<1>4. QED
  BY <1>1, <1>2, <1>3

\* What SimForge stores answers an exam that had no answer.
LEMMA AnswerAnswers ==
    ASSUME ExamsInv, ExamsNext,
           NEW exam \in Exams, NEW v \in Terminal, NEW model, AnswersTo(exam) = {},
           answers' = answers \cup {[exam |-> exam, verdict |-> v, model |-> model]},
           cert' = cert, answered' = answered
    PROVE  Promise!Next
<1>1. StateForVerdict(v) \in Promise!Grades
  BY DEF StateForVerdict, Terminal, Promise!Grades
<1>2. Said' = Said \cup {[exam |-> exam, grade |-> StateForVerdict(v)]}
  <2> DEFINE new == [exam |-> exam, verdict |-> v, model |-> model]
  <2>1. new.exam = exam /\ new.verdict = v /\ answers' = answers \cup {new}
    OBVIOUS
  <2> HIDE DEF new
  <2>2. QED
    BY <2>1 DEF Said
<1>3. \A a \in Said : a.exam # exam
  BY DEF Said, AnswersTo
<1>4. Promise!Answer(exam, StateForVerdict(v))
  BY <1>2, <1>3, PromiseKept DEF Promise!Answer
<1>5. QED
  BY <1>1, <1>4 DEF Promise!Next

\* A staleness pass withdraws what it found.
LEMMA UpdateWithdraws ==
    ASSUME ExamsInv, ExamsNext, NEW p \in StalePasses, UpdateStale(p)
    PROVE  Promise!Next
<1> DEFINE Wrote(u, s) == <<u, s>> \in found[p]
           units == {u \in Units : \E s \in States : Wrote(u, s)}
           g == [u \in units |-> CHOOSE s \in States : Wrote(u, s)]
<1>1. ASSUME NEW u \in units
      PROVE  /\ g[u] \in Promise!Withdrawn
             /\ cert[u] # NoRow /\ cert[u] \in Rows
             /\ cert'[u] = [cert[u] EXCEPT !.state = g[u]]
  <2>1. u \in Units /\ \E s \in States : Wrote(u, s)
    OBVIOUS
  <2>2. Wrote(u, g[u]) /\ g[u] \in States
    BY <2>1
  <2>3. g[u] \in {"stale_instructions", "stale_forge"}
    <3>1. found[p] \in SUBSET (Units \X {"stale_instructions", "stale_forge"})
      BY DEF ExamsInv, ExamsTypeOK
    <3>2. <<u, g[u]>> \in found[p]
      BY <2>2
    <3> HIDE DEF g
    <3>3. QED
      BY <3>1, <3>2
  <2>4. cert[u] # NoRow
    <3>1. \A f \in found[p] : cert[f[1]] # NoRow
      BY DEF ExamsInv, FoundHaveRows
    <3>2. QED
      BY <2>2, <3>1
  <2>5. cert[u] \in Rows
    BY <2>1, <2>4 DEF ExamsInv, ExamsTypeOK
  <2>6. cert'[u] = [cert[u] EXCEPT !.state = g[u]]
    BY <2>1 DEF UpdateStale
  <2>7. QED
    BY <2>3, <2>4, <2>5, <2>6 DEF Promise!Withdrawn
<1>2. ASSUME NEW u \in Units \ units
      PROVE  cert'[u] = cert[u]
  BY DEF UpdateStale
<1>3. g \in [units -> Promise!Withdrawn]
  BY <1>1
<1>4. units \in SUBSET {u \in Units : Standing[u] # Promise!Ungraded}
  BY <1>1 DEF Standing, Promise!Ungraded, Rows, States
<1> HIDE DEF units, g
<1>5. ASSUME NEW u \in Units
      PROVE  Standing'[u] = IF u \in units THEN [Standing[u] EXCEPT !.grade = g[u]] ELSE Standing[u]
  <2>1. CASE u \in units
    <3>1. cert[u] # NoRow /\ cert[u] \in Rows /\ cert'[u] = [cert[u] EXCEPT !.state = g[u]]
      BY <1>1, <2>1
    <3>2. g[u] \in Promise!Withdrawn
      BY <1>1, <2>1
    <3>3. cert'[u] # NoRow /\ cert'[u].state = g[u] /\ cert'[u].basis = cert[u].basis
            /\ cert'[u].origin = cert[u].origin
      BY <3>1, <3>2 DEF Rows, NoRow, Promise!Withdrawn
    <3>4. QED
      BY <2>1, <3>1, <3>3 DEF Standing
  <2>2. CASE u \notin units
    BY <1>2, <2>2 DEF Standing
  <2>3. QED
    BY <2>1, <2>2
<1>6. Standing' = [u \in Units |->
                     IF u \in units THEN [Standing[u] EXCEPT !.grade = g[u]] ELSE Standing[u]]
  BY <1>5 DEF Standing
<1>7. Said' = Said /\ Settled' = Settled
  BY PromiseKept DEF UpdateStale, rows
<1>8. Promise!Withdraw(units)
  BY <1>3, <1>6, <1>7 DEF Promise!Withdraw
<1>9. QED
  BY <1>4, <1>8 DEF Promise!Next

\* One row written is one unit's standing.
LEMMA StandingWritten ==
    ASSUME ExamsTypeOK, NEW u \in Units, NEW row \in Rows,
           cert' = [cert EXCEPT ![u] = row]
    PROVE  Standing' = [Standing EXCEPT ![u] =
              [grade |-> row.state, basis |-> row.basis,
               by |-> IF row.origin = "simulation" THEN "declaration" ELSE "exam"]]
<1>1. row # NoRow
  BY DEF Rows, States, NoRow
<1>2. cert'[u] = row /\ \A w \in Units \ {u} : cert'[w] = cert[w]
  BY DEF ExamsTypeOK
<1>3. QED
  BY <1>1, <1>2 DEF Standing

\* A certification for simulation is a declaration.
LEMMA SimulationDeclares ==
    ASSUME ExamsInv, ExamsNext, CertifyForSimulation
    PROVE  Promise!Next
<1> DEFINE row == [state |-> "certified", origin |-> "simulation", basis |-> live,
                   api |-> registry, declared |-> simulation[1], attested |-> 0]
<1>1. row \in Rows
  BY ExamsConstants DEF ExamsInv, ExamsTypeOK, Rows, States, Origins
<1>2. Dept \in Units /\ cert' = [cert EXCEPT ![Dept] = row]
  BY DEF CertifyForSimulation, Units
<1>3. row.state = "certified" /\ row.basis = live /\ row.origin = "simulation" /\ live \in Bases
  BY DEF ExamsInv, ExamsTypeOK
<1> HIDE DEF row
<1>4. Standing' = [Standing EXCEPT ![Dept] =
                     [grade |-> "certified", basis |-> live, by |-> "declaration"]]
  BY <1>1, <1>2, <1>3, StandingWritten DEF ExamsInv
<1>5. Said' = Said /\ Settled' = Settled
  BY PromiseKept DEF CertifyForSimulation, rows
<1>6. Promise!Declare(Dept, live)
  BY <1>4, <1>5 DEF Promise!Declare
<1>7. QED
  BY <1>3, <1>6 DEF Promise!Next

\* A result recorded is an award of what SimForge said or, where it said
\* nothing, takes no grade away.
LEMMA UpsertAwards ==
    ASSUME ExamsInv, ExamsNext, Upsert
    PROVE  Promise!Next
<1> DEFINE e == sub[cur].exam
           g == StateForVerdict(got.verdict)
<1>1. ipc = "upsert" /\ cert' = [cert EXCEPT ![e.unit] = NewRow]
  BY DEF Upsert
<1>2. /\ NewRow \in Rows
      /\ NewRow.state = g
      /\ NewRow.origin = IF sub[cur].attested # 0 THEN "attested" ELSE "tested"
      /\ NewRow.basis = e.basis
      /\ e.unit \in Units
  BY <1>1, NewRowTyped DEF ExamsInv
<1>3. /\ got.verdict \in Terminal \cup NotAnAnswer
      /\ got.verdict \in Terminal =>
            [exam |-> e, verdict |-> got.verdict, model |-> got.model] \in answers
      /\ e \in Exams
  BY <1>1 DEF ExamsInv, ResultCarried, ExamsTypeOK, Subs
<1> HIDE DEF e
<1>4. Promise!Stands(e, g)
  BY <1>1, <1>2, StandingWritten DEF Promise!Stands, ExamsInv
<1>5. Said' = Said /\ Settled' = Settled
  BY PromiseKept DEF Upsert, rows
<1>6. CASE got.verdict \in Terminal
  <2>1. g \in Promise!Grades
    BY <1>6 DEF StateForVerdict, Terminal, Promise!Grades
  <2>2. [exam |-> e, grade |-> g] \in Said
    BY <1>3, <1>6 DEF Said
  <2>3. Promise!Award(e, g)
    BY <1>4, <1>5, <2>2 DEF Promise!Award
  <2>4. QED
    BY <1>3, <2>1, <2>3 DEF Promise!Next
<1>7. CASE got.verdict \in NotAnAnswer
  <2>1. g \in Promise!Waiting
    BY <1>7 DEF StateForVerdict, NotAnAnswer, Promise!Waiting
  <2>2. Standing[e.unit] = Promise!Ungraded \/ e.unit \in {Dept}
    BY <1>1, <1>2, <1>7 DEF ExamsInv, ReadyToWrite, Standing, Promise!Ungraded, Units, e
  <2>3. Promise!Await(e)
    BY <1>4, <1>5, <2>1, <2>2 DEF Promise!Await
  <2>4. QED
    BY <1>3, <2>3 DEF Promise!Next
<1>8. QED
  BY <1>3, <1>6, <1>7

\* A submission is closed on an answer.
LEMMA MarkSettles ==
    ASSUME ExamsInv, ExamsNext, Mark
    PROVE  Promise!Next
<1>1. /\ cur \in Submissions
      /\ sub[cur].exam \in Exams
      /\ [exam |-> sub[cur].exam, verdict |-> got.verdict, model |-> got.model] \in answers
  BY DEF Mark, ExamsInv, ResultCarried, AnswerMarked, ExamsTypeOK, Subs
<1>2. answered' = answered \cup {cur} /\ sub' = sub /\ answers' = answers /\ cert' = cert
  BY DEF Mark
<1>3. Settled' = Settled \cup {sub[cur].exam}
  BY <1>2 DEF Settled
<1>4. \E a \in Said : a.exam = sub[cur].exam
  <2> DEFINE a == [exam |-> sub[cur].exam, verdict |-> got.verdict, model |-> got.model]
  <2>1. a \in answers /\ a.exam = sub[cur].exam
    BY <1>1
  <2> HIDE DEF a
  <2>2. [exam |-> a.exam, grade |-> StateForVerdict(a.verdict)] \in Said
    BY <2>1 DEF Said
  <2>3. QED
    BY <2>1, <2>2
<1>5. Promise!Settle(sub[cur].exam)
  BY <1>2, <1>3, <1>4, PromiseKept DEF Promise!Settle
<1>6. QED
  BY <1>1, <1>5 DEF Promise!Next

\* Every step is one of Certificate's, or changes nothing of it.
LEMMA CertificateStep ==
    ASSUME ExamsInv, ExamsNext
    PROVE  Promise!Next \/ CertificateStutter
<1>1. ASSUME NEW i \in Submissions, NEW x \in agenda.gradings, Grade(i, x[1], x[2])
      PROVE  Promise!Next
  <2>1. sub[i].exam \in Exams /\ x[1] \in Terminal
    BY <1>1, ExamsConstants DEF Grade, ExamsInv, ExamsTypeOK, Subs, Terminal
  <2>2. QED
    BY <1>1, <2>1, AnswerAnswers DEF Grade, rows
<1>2. ASSUME NEW r \in ExamRuns, NEW i \in Submissions, NEW o \in BOOLEAN, NEW q \in BOOLEAN,
             NEW w \in PostedModels, SubmitDept(r, i, o, q, w)
      PROVE  Promise!Next \/ CertificateStutter
  <2> DEFINE exam == [unit |-> Dept, basis |-> Covered(r), key |-> 0]
             v == IF attested[Len(attested)] THEN "PASS" ELSE "FAIL"
  <2>1. exam \in Exams
    BY BasesOfExams, ExamsConstants DEF ExamsInv, Exams, Units, Keys
  <2>2. v \in Terminal
    BY DEF Terminal
  <2>3. cert' = cert /\ answered' = answered
    BY <1>2 DEF SubmitDept
  <2>4. \/ answers' = answers
        \/ AnswersTo(exam) = {} /\ answers' = answers \cup {[exam |-> exam, verdict |-> v, model |-> w]}
    BY <1>2 DEF SubmitDept
  <2> HIDE DEF exam, v
  <2>5. QED
    BY <2>1, <2>2, <2>3, <2>4, AnswerAnswers, PromiseKept DEF CertificateStutter
<1>3. CASE UNCHANGED <<answers, cert, answered>>
  BY <1>3, PromiseKept DEF CertificateStutter
<1>4. ASSUME NEW p \in StalePasses, NEW units, SelectStale(p, units)
      PROVE  CertificateStutter
  BY <1>4, PromiseKept DEF CertificateStutter, SelectStale, rows
<1>5. ASSUME NEW p \in StalePasses, CrashStale(p)
      PROVE  CertificateStutter
  BY <1>5, PromiseKept DEF CertificateStutter, CrashStale, rows
<1>6. QED
  BY <1>1, <1>2, <1>3, <1>4, <1>5, WhoWrites, UpdateWithdraws, SimulationDeclares,
     UpsertAwards, MarkSettles

\* Every behaviour of the examinations is a behaviour of Certificate: a grade
\* comes from an answer to an examination of the unit, on the instructions that
\* examination was about, or from a declaration for simulation; silence takes no
\* holder's grade; a withdrawn grade stays withdrawn until then; and only an
\* answered examination is closed (record_result, recompute_staleness,
\* certify_for_simulation, mark_result_received).
THEOREM ExamsRefinement == ExamsSpec => ImplementsCertificate
<1>1. ExamsInit => Promise!Init
  BY DEF ExamsInit, Promise!Init, Promise!Ungraded, Said, Standing, Settled
<1>2. ExamsInv /\ [ExamsNext]_examsVars => [Promise!Next]_(Promise!certificateVars)
  <2>1. ASSUME ExamsInv, ExamsNext
        PROVE  [Promise!Next]_(Promise!certificateVars)
    BY <2>1, CertificateStep DEF CertificateStutter, Promise!certificateVars
  <2>2. ASSUME UNCHANGED examsVars
        PROVE  [Promise!Next]_(Promise!certificateVars)
    BY <2>2 DEF examsVars, moving, rows, Promise!certificateVars, Said, Standing, Settled
  <2>3. QED
    BY <2>1, <2>2
<1>3. QED
  BY <1>1, <1>2, ExamsInvariance, PTL DEF ExamsSpec, ImplementsCertificate, Promise!Spec

-----------------------------------------------------------------------------
(* What Certificate promises, the examinations keep.                          *)

\* Every grade an exam gave, a failure or a revocation as much as a pass, is the
\* one SimForge answered to an exam of that unit on the instructions named.
GradedByItsExam ==
    \A u \in Units :
        Standing[u].grade \in Promise!Grades /\ Standing[u].by = "exam" =>
            \E a \in Said : /\ a.exam.unit = u
                            /\ a.exam.basis = Standing[u].basis
                            /\ a.grade = Standing[u].grade

\* No exam is answered in two ways.
AnsweredOnce == \A a, b \in Said : a.exam = b.exam => a = b

\* A module's stale certification stays stale, on the instructions it was for,
\* until SimForge answers an exam: no silence, declaration or late write of
\* another pass brings it back.
Regraded(m) == /\ Standing'[m].grade \in Promise!Grades
               /\ Standing'[m].by = "exam"
StaleUntilAnswered ==
    [][\A m \in Modules : Standing[m].grade \in Promise!Withdrawn =>
          \/ /\ Standing'[m].grade \in Promise!Withdrawn
             /\ Standing'[m].basis = Standing[m].basis
          \/ Regraded(m)]_examsVars

PromiseInv == GradedByItsExam /\ AnsweredOnce

\* Standing is a function on the units, whatever it says of them.
LEMMA StandsOnUnits == Standing = [u \in Units |-> Standing[u]]
BY DEF Standing

\* A step of Certificate that writes one unit.
LEMMA OneStands ==
    ASSUME NEW e \in Exams, NEW g,
           Standing' = [Standing EXCEPT ![e.unit] = [grade |-> g, basis |-> e.basis, by |-> "exam"]]
    PROVE  /\ Standing'[e.unit].grade = g /\ Standing'[e.unit].basis = e.basis
           /\ Standing'[e.unit].by = "exam"
           /\ \A u \in Units \ {e.unit} : Standing'[u] = Standing[u]
<1>1. e.unit \in Units
  BY DEF Exams
<1>2. QED
  BY <1>1, StandsOnUnits

LEMMA PromiseStep ==
    ASSUME PromiseInv, [Promise!Next]_(Promise!certificateVars)
    PROVE  /\ PromiseInv'
           /\ \A m \in Modules : Standing[m].grade \in Promise!Withdrawn =>
                 \/ /\ Standing'[m].grade \in Promise!Withdrawn
                    /\ Standing'[m].basis = Standing[m].basis
                 \/ Regraded(m)
<1> DEFINE Kept == \A m \in Modules : Standing[m].grade \in Promise!Withdrawn =>
                       \/ /\ Standing'[m].grade \in Promise!Withdrawn
                          /\ Standing'[m].basis = Standing[m].basis
                       \/ Regraded(m)
<1>1. ASSUME UNCHANGED <<Said, Standing>>
      PROVE  PromiseInv' /\ Kept
  BY <1>1 DEF PromiseInv, GradedByItsExam, AnsweredOnce
<1>2. ASSUME NEW e \in Exams, NEW g \in Promise!Grades, Promise!Answer(e, g)
      PROVE  PromiseInv' /\ Kept
  <2>1. Said' = Said \cup {[exam |-> e, grade |-> g]} /\ Standing' = Standing
        /\ \A a \in Said : a.exam # e
    BY <1>2 DEF Promise!Answer
  <2>2. AnsweredOnce'
    BY <2>1 DEF PromiseInv, AnsweredOnce
  <2>3. GradedByItsExam' /\ Kept
    BY <2>1 DEF PromiseInv, GradedByItsExam
  <2>4. QED
    BY <2>2, <2>3 DEF PromiseInv
<1>3. ASSUME NEW e \in Exams, NEW g \in Promise!Grades, Promise!Award(e, g)
      PROVE  PromiseInv' /\ Kept
  <2> DEFINE said == [exam |-> e, grade |-> g]
  <2>1. said \in Said /\ Said' = Said /\ Promise!Stands(e, g)
    BY <1>3 DEF Promise!Award
  <2>2. /\ Standing'[e.unit].grade = g /\ Standing'[e.unit].basis = e.basis
        /\ Standing'[e.unit].by = "exam"
        /\ \A u \in Units \ {e.unit} : Standing'[u] = Standing[u]
    BY <2>1, OneStands DEF Promise!Stands
  <2>3. said.exam = e /\ said.grade = g
    OBVIOUS
  <2> HIDE DEF said
  <2>4. GradedByItsExam'
    BY <2>1, <2>2, <2>3 DEF PromiseInv, GradedByItsExam
  <2>5. Kept
    BY <2>2 DEF Regraded, Units
  <2>6. QED
    BY <2>1, <2>4, <2>5 DEF PromiseInv, AnsweredOnce
<1>4. ASSUME NEW e \in Exams, Promise!Await(e)
      PROVE  PromiseInv' /\ Kept
  <2>1. PICK g \in Promise!Waiting : Promise!Stands(e, g)
    BY <1>4 DEF Promise!Await
  <2>2. Said' = Said /\ (Standing[e.unit] = Promise!Ungraded \/ e.unit = Dept)
    BY <1>4 DEF Promise!Await
  <2>3. /\ Standing'[e.unit].grade = g
        /\ \A u \in Units \ {e.unit} : Standing'[u] = Standing[u]
    BY <2>1, OneStands DEF Promise!Stands
  <2>4. g \notin Promise!Grades
    BY DEF Promise!Waiting, Promise!Grades
  <2>5. GradedByItsExam'
    BY <2>2, <2>3, <2>4 DEF PromiseInv, GradedByItsExam
  <2>6. Dept \notin Modules /\ Promise!Ungraded.grade \notin Promise!Withdrawn
    BY ExamsConstants DEF Promise!Ungraded, Promise!Withdrawn
  <2>7. Kept
    BY <2>2, <2>3, <2>6 DEF Units
  <2>8. QED
    BY <2>2, <2>5, <2>7 DEF PromiseInv, AnsweredOnce
<1>5. ASSUME NEW b \in Bases, Promise!Declare(Dept, b)
      PROVE  PromiseInv' /\ Kept
  <2>1. /\ Said' = Said /\ Standing'[Dept].by = "declaration"
        /\ \A u \in Units \ {Dept} : Standing'[u] = Standing[u]
    BY <1>5, StandsOnUnits DEF Promise!Declare, Units
  <2>2. GradedByItsExam'
    BY <2>1 DEF PromiseInv, GradedByItsExam
  <2>3. Kept
    BY <2>1, ExamsConstants DEF Units
  <2>4. QED
    BY <2>1, <2>2, <2>3 DEF PromiseInv, AnsweredOnce
<1>6. ASSUME NEW units \in SUBSET {u \in Units : Standing[u] # Promise!Ungraded},
             Promise!Withdraw(units)
      PROVE  PromiseInv' /\ Kept
  <2>1. PICK g \in [units -> Promise!Withdrawn] :
            Standing' = [u \in Units |->
                IF u \in units THEN [Standing[u] EXCEPT !.grade = g[u]] ELSE Standing[u]]
    BY <1>6 DEF Promise!Withdraw
  <2>2. ASSUME NEW u \in units
        PROVE  Standing'[u] = [Standing[u] EXCEPT !.grade = g[u]] /\ Standing[u] # Promise!Ungraded
    BY <2>1
  <2>3. ASSUME NEW u \in units
        PROVE  Standing'[u].grade = g[u] /\ Standing'[u].basis = Standing[u].basis
    <3>1. Standing[u] = [grade |-> cert[u].state, basis |-> cert[u].basis,
                         by |-> IF cert[u].origin = "simulation" THEN "declaration" ELSE "exam"]
      BY <2>2 DEF Standing, Promise!Ungraded
    <3>2. QED
      BY <2>2, <3>1
  <2>4. /\ Said' = Said
        /\ \A u \in Units \ units : Standing'[u] = Standing[u]
        /\ \A u \in units : g[u] \in Promise!Withdrawn /\ g[u] \notin Promise!Grades
    BY <1>6, <2>1 DEF Promise!Withdraw, Promise!Withdrawn, Promise!Grades
  <2>5. GradedByItsExam'
    BY <2>3, <2>4 DEF PromiseInv, GradedByItsExam
  <2>6. Kept
    BY <2>3, <2>4 DEF Units
  <2>7. QED
    BY <2>4, <2>5, <2>6 DEF PromiseInv, AnsweredOnce
<1>7. ASSUME NEW e \in Exams, Promise!Settle(e)
      PROVE  UNCHANGED <<Said, Standing>>
  BY <1>7 DEF Promise!Settle
<1>8. CASE UNCHANGED Promise!certificateVars
  BY <1>1, <1>8 DEF Promise!certificateVars
<1>9. QED
  BY <1>1, <1>2, <1>3, <1>4, <1>5, <1>6, <1>7, <1>8 DEF Promise!Next

LEMMA PromiseInvariance == Promise!Spec => []PromiseInv
<1>1. Promise!Init => PromiseInv
  BY DEF Promise!Init, Promise!Ungraded, Promise!Grades, PromiseInv, GradedByItsExam,
     AnsweredOnce
<1>2. PromiseInv /\ [Promise!Next]_(Promise!certificateVars) => PromiseInv'
  BY PromiseStep
<1>3. QED
  BY <1>1, <1>2, PTL DEF Promise!Spec

\* What a row says an exam gave, SimForge said, be it good or bad (record_result,
\* VERDICT_TO_STATE, recompute_staleness).
THEOREM GradedByItsExamHolds == ExamsSpec => []GradedByItsExam
<1>1. PromiseInv => GradedByItsExam
  BY DEF PromiseInv
<1>2. QED
  BY <1>1, PromiseInvariance, ExamsRefinement, PTL DEF ImplementsCertificate

\* Staleness is lifted by an exam alone (recompute_staleness, record_result).
THEOREM StaleUntilAnsweredHolds == ExamsSpec => StaleUntilAnswered
<1>1. PromiseInv /\ [Promise!Next]_(Promise!certificateVars) =>
          [\A m \in Modules : Standing[m].grade \in Promise!Withdrawn =>
              \/ /\ Standing'[m].grade \in Promise!Withdrawn
                 /\ Standing'[m].basis = Standing[m].basis
              \/ Regraded(m)]_examsVars
  BY PromiseStep
<1>2. QED
  BY <1>1, PromiseInvariance, ExamsRefinement, PTL
     DEF ImplementsCertificate, Promise!Spec, StaleUntilAnswered
=============================================================================
