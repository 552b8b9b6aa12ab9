---------------------------- MODULE GatesProofs ----------------------------
(***************************************************************************)
(* Type correctness of Gates; that no agent is let act unattended over a   *)
(* module whose registry row Gate 2 did not see to be safe; that no exam   *)
(* is opened that the answer and the texts of Gate 2 do not bear; and that *)
(* the grants issued ask no more of the reviewers than they have hours for.*)
(*                                                                         *)
(* UnattendedWasVetted is about rows that earlier runs have written, so    *)
(* each carries what Gate 2 saw (its shape).  What makes it inductive is   *)
(* the link between a run and that sight: from Gate 2 on, every seat whose *)
(* ceiling is auto_execute is over modules seen safe, and a run keeps its  *)
(* Pack (SeenSafe).  Gate 5 may then issue auto_execute below such a       *)
(* ceiling, or above one by an override, and in no other way.              *)
(*                                                                         *)
(* IssuedWasFeasible needs that a pass which checked still stands on the   *)
(* projection it checked (CheckedOK), that what is issued asks for a part  *)
(* of it (AskedWasProjected), and that demand grows with its set, for      *)
(* which the sums of the library are taken apart below.                    *)
(***************************************************************************)
EXTENDS Gates, FiniteSetTheorems, TLAPS

RunOK ==
    /\ agenda \in Agendas
    /\ run \in Run \cup {None}
    /\ reviewed \in BOOLEAN
    /\ pass \in {"idle", "begun", "ready"}
    /\ pass # "idle" => Open
    /\ artifacts # None <=> pass = "ready"
    /\ artifacts \in Artifacts \cup {None}
    /\ checked \in BOOLEAN

SeenSafe ==
    Beyond => \A p \in Positions :
        run.pack.position[p].ceiling = "auto_execute" =>
            \A m \in run.pack.position[p].modules : vetted.shape[m] = "safe"

VettedOK ==
    /\ vetted \in Vetted \cup {None}
    /\ Beyond => vetted # None
    /\ SeenSafe

StandingOK ==
    /\ unitA \in Standing
    /\ unitB \in {"none", "failed", "certified"}
    /\ revoked \subseteq Agents \X Modules
    /\ roster \subseteq Agents
    /\ content \in Contents

Grants == [Agents -> [Modules -> Grant \cup {None}]]

GrantsOK == grants \in Grants /\ UnattendedWasVetted

SignedOK == spare \in Nat /\ signed \in Artifacts \cup {None}

IInv == WorldTypeOK /\ RunOK /\ VettedOK /\ StandingOK /\ GrantsOK /\ SignedOK

LEMMA IInvTypes == IInv => TypeOK
BY DEF IInv, RunOK, VettedOK, StandingOK, GrantsOK, SignedOK, Grants, TypeOK

-----------------------------------------------------------------------------
(* What the operators yield.                                               *)

LEMMA PackTyped ==
    ASSUME NEW pack \in Packs
    PROVE  /\ pack.declared \subseteq Modules
           /\ \A p \in Positions :
                /\ pack.position[p].modules \subseteq Modules
                /\ pack.position[p].flags \subseteq Flags
                /\ pack.position[p].ceiling \in Tiers
                /\ \A m \in Modules : pack.position[p].override[m] \in Tiers \cup {None}
BY PacksParse DEF Pack, Position

LEMMA OperatedTyped ==
    ASSUME NEW pack \in Packs
    PROVE  Operated(pack) \subseteq Modules
BY PackTyped DEF Operated

LEMMA ReadTyped ==
    ASSUME WorldTypeOK, NEW memory \in Answer \cup {None}, NEW candidates \in SUBSET Modules
    PROVE  Read(memory, candidates) \in Answer \cup {None}
BY DEF WorldTypeOK, Read, Fresh, Answer

LEMMA AnswerTyped ==
    ASSUME WorldTypeOK, NEW pack \in Packs
    PROVE  AfterV32(pack) \in Answer \cup {None}
<1>1. AfterV2(pack) \in Answer \cup {None}
  BY ReadTyped DEF AfterV2, WorldTypeOK
<1>2. AfterV11(pack) \in Answer \cup {None}
  <2>1. Teachable(pack) \in SUBSET Modules
    BY OperatedTyped DEF Teachable
  <2> QED BY <1>1, <2>1, ReadTyped DEF AfterV11
<1>3. pack.declared \in SUBSET Modules
  BY PackTyped
<1> QED BY <1>2, <1>3, ReadTyped DEF AfterV32

\* What V31 lets through acts alone over safe modules only.
LEMMA ReportVets ==
    ASSUME WorldTypeOK, NEW pack \in Packs, Passed(pack),
           NEW p \in Positions, pack.position[p].ceiling = "auto_execute",
           NEW m \in pack.position[p].modules
    PROVE  registry[m] = "safe"
<1>1. V31(pack) = "PASS"
  <2>1. V31(pack) \in {"PASS", "WARN"}
    BY DEF Report, Passed
  <2> QED BY <2>1 DEF V31, Unasked
<1>2. m \in UNION {pack.position[q].modules : q \in {q \in Positions : pack.position[q].ceiling = "auto_execute"}}
  OBVIOUS
<1>3. registry[m] # "unsafe" /\ Evidence(m)
  BY <1>1, <1>2 DEF V31, Unasked
<1> QED BY <1>3 DEF Evidence

LEMMA GeneratedTyped ==
    ASSUME WorldTypeOK, StandingOK, run \in Run
    PROVE  Generated \in Artifacts
<1>1. run.pack \in Packs
  BY DEF Run
<1>2. \A p \in Positions : Appointed(p) \in SUBSET Agents
  BY DEF Appointed, Eligible, StandingOK
<1>3. \A a \in Agents, m \in Modules : Earned(a, m) \in Tiers \cup {None}
  BY DEF Earned
<1>4. \A a \in Agents : Held(a) \in SUBSET Modules
  BY DEF Held
<1>5. \A p \in Positions : EffectiveFlags(p) \in SUBSET Flags
  <2>1. \A m \in Modules : Implied[m] \in SUBSET Flags
    BY ValidatorConstants
  <2>2. \A p \in Positions : Seat(p).flags \subseteq Flags /\ Seat(p).modules \subseteq Modules
    BY <1>1, PackTyped DEF Seat
  <2> QED BY <2>1, <2>2 DEF EffectiveFlags
<1>6. text \in [Modules -> Texts \cup {None}]
  BY DEF WorldTypeOK
<1>7. content \in Contents
  BY DEF StandingOK
<1> QED BY <1>2, <1>3, <1>4, <1>5, <1>6, <1>7
        DEF Generated, Artifacts, RoleDefinition, Appointment, AppointedAgent

LEMMA LowerTyped ==
    ASSUME NEW t \in Tiers, NEW u \in Tiers
    PROVE  /\ Lower(t, u) \in {t, u}
           /\ Lower(t, u) = "auto_execute" => t = "auto_execute"
BY DEF Lower, Tiers, TierRank

LEMMA LastIsSeat ==
    ASSUME NEW S \in SUBSET Positions, S # {}
    PROVE  Last(S) \in S
<1>1. \E p \in S : \A q \in S : Title[q] <= Title[p]
  BY GatesConstants
<1> QED BY <1>1 DEF Last

\* A grant Gate 5 writes keeps its shape, and acts unattended only under a
\* ceiling Gate 2 has seen to be over safe modules, or by an override.
LEMMA UpsertTyped ==
    ASSUME IInv, Beyond, artifacts \in Artifacts, NEW a \in Agents, NEW m \in Modules,
           SeatsOver(a, m) # {}, m \notin excluded
    PROVE  /\ Upserted(a, m) \in Grant
           /\ Upserted(a, m).tier = "auto_execute" =>
                 Upserted(a, m).shape = "safe" \/ Upserted(a, m).lifted
<1> DEFINE p == Last(SeatsOver(a, m))
<1>1. p \in Positions /\ m \in Seat(p).modules
  BY LastIsSeat DEF SeatsOver
<1>2. run \in Run /\ run.pack \in Packs /\ vetted \in Vetted
  BY DEF IInv, RunOK, VettedOK, Beyond, Run
<1>3. /\ Seat(p).ceiling \in Tiers
      /\ Seat(p).override[m] \in Tiers \cup {None}
  BY <1>1, <1>2, PackTyped DEF Seat
<1>4. Declared(Seat(p), m) \in Tiers
  BY <1>3 DEF Declared
<1>5. artifacts.earned[a][m] \in Tiers \cup {None}
  BY DEF Artifacts, AppointedAgent
<1>6. None \notin Tiers
  BY ValidatorConstants
<1>7. Planned(p, a, m) \in Tiers \cup {None}
  BY <1>4, <1>5, LowerTyped DEF Planned
<1>8. Planned(p, a, m) = "auto_execute" => Declared(Seat(p), m) = "auto_execute"
  BY <1>4, <1>5, <1>6, LowerTyped DEF Planned, Tiers
<1>9. Upserted(a, m) =
        [tier |-> Planned(p, a, m), operation |-> unitA[a][m] # None, department |-> unitB # "none",
         active |-> grants[a][m] # None /\ grants[a][m].active,
         shape |-> vetted.shape[m],
         lifted |-> Seat(p).override[m] # None /\ Seat(p).override[m] # Seat(p).ceiling]
  BY DEF Upserted
<1>10. grants[a][m] \in Grant \cup {None}
  BY DEF IInv, GrantsOK, Grants
<1>11. (grants[a][m] # None /\ grants[a][m].active) \in BOOLEAN
  BY <1>10 DEF Grant
<1>12. vetted.shape[m] \in Shapes
  BY <1>2 DEF Vetted
<1>13. Upserted(a, m) \in Grant
  BY <1>7, <1>9, <1>11, <1>12 DEF Grant
<1>14. ASSUME Declared(Seat(p), m) = "auto_execute",
              ~ (Seat(p).override[m] # None /\ Seat(p).override[m] # Seat(p).ceiling)
       PROVE  vetted.shape[m] = "safe"
  <2>1. Seat(p).ceiling = "auto_execute"
    BY <1>14 DEF Declared
  <2> QED BY <2>1, <1>1 DEF IInv, VettedOK, SeenSafe, Seat
<1>15. /\ Upserted(a, m).tier = Planned(p, a, m)
       /\ Upserted(a, m).shape = vetted.shape[m]
  BY <1>9
<1>16. Upserted(a, m).lifted = (Seat(p).override[m] # None /\ Seat(p).override[m] # Seat(p).ceiling)
  BY <1>9
<1>17. ASSUME Upserted(a, m).tier = "auto_execute", ~ Upserted(a, m).lifted
       PROVE  Upserted(a, m).shape = "safe"
  <2>1. Declared(Seat(p), m) = "auto_execute"
    BY <1>8, <1>15, <1>17
  <2>2. ~ (Seat(p).override[m] # None /\ Seat(p).override[m] # Seat(p).ceiling)
    BY <1>16, <1>17
  <2> QED BY <2>1, <2>2, <1>14, <1>15
<1> QED BY <1>13, <1>17

-----------------------------------------------------------------------------
(* The run and its pass.                                                   *)

\* A gate that goes on, or is where the pass ends, keeps the run's row.
LEMMA GateRun ==
    ASSUME RunOK, pass # "idle", NEW next \in Gate,
           (Passes(next) /\ checked' \in BOOLEAN) \/ Stops
    PROVE  RunOK'
<1>1. Open /\ run \in Run
  BY DEF RunOK, Open
<1>2. CASE Passes(next) /\ checked' \in BOOLEAN
  <2>1. run' \in Run /\ run'.status = run.status
    BY <1>1, <1>2 DEF Passes, Run
  <2>2. Open'
    BY <1>1, <2>1, GatesConstants DEF Open
  <2> QED BY <1>2, <2>1, <2>2 DEF RunOK, Passes
<1>3. CASE Stops
  BY <1>1, <1>3 DEF RunOK, Stops, Idle, runVars, Open
<1> QED BY <1>2, <1>3

\* ... and what Gate 2 saw is still what it was.
LEMMA GateVetted ==
    ASSUME VettedOK, Beyond, NEW next \in Gate, run \in Run,
           run' = run \/ run' = [run EXCEPT !.gate = next], vetted' = vetted
    PROVE  VettedOK'
<1>1. run'.pack = run.pack
  BY DEF Run
<1>2. /\ vetted # None
      /\ \A p \in Positions : run.pack.position[p].ceiling = "auto_execute" =>
            \A m \in run.pack.position[p].modules : vetted.shape[m] = "safe"
  BY DEF VettedOK, SeenSafe
<1>3. SeenSafe'
  BY <1>1, <1>2 DEF SeenSafe
<1> QED BY <1>2, <1>3 DEF VettedOK

\* The two together, for a gate after Gate 2.
LEMMA GateStep ==
    ASSUME IInv, pass # "idle", NEW g \in Gate \ {"0", "2"}, run.gate = g, NEW next \in Gate,
           (Passes(next) /\ checked' \in BOOLEAN) \/ Stops, vetted' = vetted
    PROVE  RunOK' /\ VettedOK'
<1>1. Open /\ run \in Run /\ Beyond
  BY DEF IInv, RunOK, Open, Beyond
<1>2. run' = run \/ run' = [run EXCEPT !.gate = next]
  BY DEF Passes, Stops, runVars
<1>3. VettedOK'
  BY <1>1, <1>2, GateVetted DEF IInv
<1>4. RunOK'
  BY GateRun DEF IInv
<1> QED BY <1>3, <1>4

\* What a step leaves alone.
LEMMA WorldKept == WorldTypeOK /\ UNCHANGED worldVars => WorldTypeOK'
BY DEF WorldTypeOK, worldVars, forgeVars, ruleVars

LEMMA StandingKept == StandingOK /\ UNCHANGED standing => StandingOK'
BY DEF StandingOK, standing

LEMMA GrantsKept == GrantsOK /\ grants' = grants => GrantsOK'
BY DEF GrantsOK, Grants, UnattendedWasVetted

LEMMA SignedKept == SignedOK /\ UNCHANGED <<spare, signed>> => SignedOK'
BY DEF SignedOK

LEMMA RunKept == RunOK /\ UNCHANGED <<runVars, passVars>> => RunOK'
BY DEF RunOK, Open, runVars, passVars

LEMMA VettedKept == VettedOK /\ UNCHANGED <<run, vetted>> => VettedOK'
BY DEF VettedOK, SeenSafe, Beyond

\* A gate that only decides whether the pass goes on.
LEMMA Decides ==
    ASSUME IInv, pass # "idle", NEW g \in Gate \ {"0", "2"}, run.gate = g, NEW next \in Gate,
           NEW through, Goes(next, through), UNCHANGED worldVars, Untouched
    PROVE  IInv'
<1>1. (Passes(next) /\ checked' \in BOOLEAN) \/ Stops
  BY DEF Goes, IInv, RunOK
<1>2. RunOK' /\ VettedOK'
  BY <1>1, GateStep DEF Untouched, history
<1> QED BY <1>2, WorldKept, StandingKept, GrantsKept, SignedKept DEF IInv, Untouched
-----------------------------------------------------------------------------
(* One step per action.                                                    *)

LEMMA InitIInv == Init => IInv
<1> SUFFICES ASSUME Init PROVE IInv
  OBVIOUS
<1>1. agenda \in Agenda
  BY GatesConstants DEF Init
<1>2. /\ agenda.moves \in Nat
      /\ agenda.forge \subseteq {"manifest", "probe", "silent"}
      /\ agenda.registry \subseteq [Modules -> Shapes]
      /\ agenda.text \subseteq [Modules -> Texts \cup {None}]
      /\ agenda.unitA \subseteq Standing
      /\ agenda.unitB \subseteq {"none", "failed", "certified"}
  BY <1>1 DEF Agenda
<1>3. WorldTypeOK
  BY <1>2 DEF Init, WorldTypeOK
<1>4. RunOK /\ VettedOK /\ SignedOK
  BY <1>2 DEF Init, RunOK, VettedOK, SeenSafe, SignedOK, Beyond
<1>5. StandingOK
  BY <1>2 DEF Init, StandingOK, Contents
<1>6. GrantsOK
  BY DEF Init, GrantsOK, Grants, UnattendedWasVetted
<1> QED BY <1>3, <1>4, <1>5, <1>6 DEF IInv

LEMMA StartRunStep == ASSUME IInv, NEW pack \in agenda.packs, StartRun(pack) PROVE IInv'
<1>1. pack \in Packs
  BY GatesConstants DEF IInv, RunOK, Agenda
<1>2. run' = [status |-> "open", gate |-> "0", pack |-> pack]
  BY DEF StartRun
<1>3. run' \in Run /\ run' # None /\ run'.gate = "0" /\ run'.status = "open"
  BY <1>1, <1>2, GatesConstants DEF Run, Gate
<1>4. RunOK'
  BY <1>3 DEF IInv, RunOK, StartRun, passVars, Open
<1>5. VettedOK'
  BY <1>3 DEF IInv, VettedOK, SeenSafe, Beyond, StartRun
<1>6. SignedOK'
  BY DEF IInv, SignedOK, StartRun
<1> QED BY <1>4, <1>5, <1>6, WorldKept, StandingKept, GrantsKept DEF IInv, StartRun

LEMMA AbandonStep == ASSUME IInv, Abandon PROVE IInv'
<1>1. /\ run \in Run /\ run' \in Run /\ run' # None /\ run # None
      /\ run'.gate = run.gate /\ run'.pack = run.pack
  BY GatesConstants DEF IInv, RunOK, Abandon, Open, Run
<1>2. RunOK'
  BY <1>1 DEF IInv, RunOK, Abandon, Idle
<1>3. VettedOK'
  BY <1>1 DEF IInv, VettedOK, SeenSafe, Beyond, Abandon, history
<1> QED BY <1>2, <1>3, WorldKept, StandingKept, GrantsKept, SignedKept DEF IInv, Abandon

LEMMA HumanStep == ASSUME IInv, Review \/ SignOffRun PROVE IInv'
<1>1. CASE Review
  <2>1. RunOK'
    BY <1>1 DEF IInv, RunOK, Review, passVars, Open
  <2>2. VettedOK'
    BY <1>1, VettedKept DEF IInv, Review, history
  <2> QED BY <1>1, <2>1, <2>2, WorldKept, StandingKept, GrantsKept, SignedKept DEF IInv, Review
<1>2. CASE SignOffRun
  <2>1. run \in Run
    BY <1>2 DEF IInv, RunOK, SignOffRun, Attended, Open
  <2>2. signed' \in Artifacts /\ spare' \in Nat
    BY <1>2, <2>1, GeneratedTyped DEF IInv, SignOffRun, SignedOK
  <2>3. RunOK' /\ VettedOK'
    BY <1>2, RunKept, VettedKept DEF IInv, SignOffRun, runVars, history
  <2>4. SignedOK'
    BY <2>2 DEF SignedOK
  <2> QED BY <1>2, <2>3, <2>4, WorldKept, StandingKept, GrantsKept DEF IInv, SignOffRun
<1> QED BY <1>1, <1>2

LEMMA PassStep == ASSUME IInv, Advance \/ Die PROVE IInv'
<1>1. RunOK'
  BY DEF IInv, RunOK, Advance, Die, Idle, runVars, Open
<1>2. VettedOK'
  BY VettedKept DEF IInv, Advance, Die, runVars, history
<1> QED BY <1>1, <1>2, WorldKept, StandingKept, GrantsKept, SignedKept DEF IInv, Advance, Die

LEMMA Gate0Step == ASSUME IInv, Gate0 PROVE IInv'
<1>1. run \in Run /\ run.pack \in Packs /\ run.gate = "0" /\ pass # "idle"
  BY DEF IInv, RunOK, Gate0, At, Open, Run
<1>2. (Passes("2") /\ checked' \in BOOLEAN) \/ Stops
  BY DEF Gate0, Goes, IInv, RunOK
<1>3. RunOK'
  BY <1>1, <1>2, GateRun DEF IInv, Gate
<1>4. run'.gate \in {"0", "2"}
  BY <1>1, <1>2 DEF Passes, Stops, runVars, Run
<1>5. VettedOK'
  BY <1>4 DEF IInv, VettedOK, SeenSafe, Beyond, Gate0, Untouched, history
<1>6. WorldTypeOK'
  BY <1>1, AnswerTyped DEF IInv, WorldTypeOK, Gate0, forgeVars, ruleVars
<1> QED BY <1>3, <1>5, <1>6, StandingKept, GrantsKept, SignedKept DEF IInv, Gate0, Untouched

\* The one gate that makes SeenSafe true.
LEMMA Gate2Step == ASSUME IInv, Gate2 PROVE IInv'
<1>1. run \in Run /\ run.pack \in Packs /\ run.gate = "2" /\ pass # "idle" /\ run # None
  BY GatesConstants DEF IInv, RunOK, Gate2, At, Open, Run
<1>2. (Passes("3") /\ checked' \in BOOLEAN) \/ Stops
  BY DEF Gate2, Goes, IInv, RunOK
<1>3. RunOK'
  BY <1>1, <1>2, GateRun DEF IInv, Gate
<1>4. VettedOK'
  <2>1. CASE Passed(run.pack)
    <3> DEFINE seen == [shape |-> registry, excused |-> excluded, text |-> text,
                        named |-> Named(AfterV32(run.pack))]
    <3>1. vetted' = seen
      BY <2>1 DEF Gate2
    <3>2. Named(AfterV32(run.pack)) \subseteq Modules
      BY <1>1, AnswerTyped DEF IInv, Named, Answer
    <3>3. seen \in Vetted
      BY <3>2 DEF IInv, WorldTypeOK, Vetted
    <3>4. vetted'.shape = registry
      BY <3>1
    <3>5. run'.pack = run.pack
      BY <1>1, <1>2 DEF Passes, Stops, runVars, Run
    <3>6. \A p \in Positions : run.pack.position[p].ceiling = "auto_execute" =>
            \A m \in run.pack.position[p].modules : registry[m] = "safe"
      BY <1>1, <2>1, ReportVets DEF IInv
    <3>7. SeenSafe'
      BY <3>4, <3>5, <3>6 DEF SeenSafe
    <3> QED BY <3>1, <3>3, <3>7, GatesConstants DEF VettedOK
  <2>2. CASE ~ Passed(run.pack)
    <3>1. run' = run /\ vetted' = vetted
      BY <2>2 DEF Gate2, Goes, Stops, runVars
    <3> QED BY <3>1, VettedKept DEF IInv
  <2> QED BY <2>1, <2>2
<1>5. WorldTypeOK'
  BY <1>1, AnswerTyped DEF IInv, WorldTypeOK, Gate2, forgeVars, ruleVars
<1> QED BY <1>3, <1>4, <1>5, StandingKept, GrantsKept, SignedKept DEF IInv, Gate2

LEMMA GenerateStep == ASSUME IInv, Generate PROVE IInv'
<1>1. run \in Run /\ Open /\ Beyond
  BY DEF IInv, RunOK, Generate, Open, Beyond
<1>2. Generated \in Artifacts /\ Generated # None
  BY <1>1, GeneratedTyped, GatesConstants DEF IInv
<1>3. RunOK'
  <2>1. CASE Generates
    <3>1. run' \in Run /\ run'.status = run.status
      BY <1>1, <2>1 DEF Generate, Run, Gate
    <3> QED BY <1>1, <1>2, <2>1, <3>1, GatesConstants DEF IInv, RunOK, Generate, Open
  <2>2. CASE ~ Generates
    BY <2>2, GateRun DEF IInv, Generate, Gate
  <2> QED BY <2>1, <2>2
<1>4. run' = run \/ run' = [run EXCEPT !.gate = "3.5"]
  BY DEF Generate, Stops, runVars
<1>5. VettedOK'
  BY <1>1, <1>4, GateVetted DEF IInv, Gate, Generate, Untouched, history
<1> QED BY <1>3, <1>5, WorldKept, StandingKept, GrantsKept, SignedKept DEF IInv, Generate, Untouched

\* Gates 3.5, 4, 7, 9, 9.5 and 10.
LEMMA DecidingStep ==
    ASSUME IInv, Gate3_5 \/ Gate4 \/ Gate6 \/ Gate7 \/ Gate9 \/ Gate9_5 \/ Gate10
    PROVE  IInv'
<1>1. CASE Gate3_5
  <2>1. Goes("4", RequiredNotDeclared = {} /\ ~ HardOnGap)
    BY <1>1 DEF Gate3_5
  <2> QED BY <1>1, <2>1, Decides DEF Gate3_5, Ready, At, Gate
<1>2. CASE Gate4
  BY <1>2, Decides DEF Gate4, Ready, At, Gate
<1>3. CASE Gate6
  <2>1. PICK through : Goes("7", through)
    BY <1>3 DEF Gate6
  <2> QED BY <1>3, <2>1, Decides DEF Gate6, Ready, At, Gate
<1>4. CASE Gate7
  <2>1. Goes("8", \A g \in Live : ~ The(g).active)
    BY <1>4 DEF Gate7
  <2> QED BY <1>4, <2>1, Decides DEF Gate7, At, Gate
<1>5. CASE Gate9
  <2>1. Goes("9.5", AllEarned)
    BY <1>5 DEF Gate9
  <2> QED BY <1>5, <2>1, Decides DEF Gate9, At, Gate
<1>6. CASE Gate9_5
  <2>1. PICK through : Goes("10", through)
    BY <1>6 DEF Gate9_5
  <2> QED BY <1>6, <2>1, Decides DEF Gate9_5, At, Gate
<1>7. CASE Gate10
  <2>1. Goes("11", signed = artifacts)
    BY <1>7 DEF Gate10
  <2> QED BY <1>7, <2>1, Decides DEF Gate10, Ready, At, Gate
<1> QED BY <1>1, <1>2, <1>3, <1>4, <1>5, <1>6, <1>7

LEMMA Gate4_5Step == ASSUME IInv, Gate4_5 PROVE IInv'
<1>1. (Passes("5") /\ checked' \in BOOLEAN) \/ Stops
  BY DEF Gate4_5
<1>2. pass # "idle" /\ run.gate = "4.5" /\ UNCHANGED worldVars /\ Untouched
  BY DEF Gate4_5, Ready, At
<1>3. RunOK' /\ VettedOK'
  BY <1>1, <1>2, GateStep DEF Gate, Untouched, history
<1> QED BY <1>2, <1>3, WorldKept, StandingKept, GrantsKept, SignedKept DEF IInv, Untouched

\* The one gate that issues.
LEMMA Gate5Step == ASSUME IInv, Gate5 PROVE IInv'
<1>1. /\ pass = "ready" /\ run.gate = "5" /\ UNCHANGED worldVars
      /\ Passes("6") /\ checked' = checked /\ vetted' = vetted
      /\ UNCHANGED <<spare, signed, standing>>
  BY DEF Gate5, Ready, At
<1>2. checked' \in BOOLEAN
  BY <1>1 DEF IInv, RunOK
<1>3. RunOK' /\ VettedOK'
  BY <1>1, <1>2, GateStep DEF Gate
<1>4. Beyond /\ artifacts \in Artifacts
  BY <1>1 DEF IInv, RunOK, Open, Beyond
<1>5. GrantsOK'
  <2>1. grants' = [a \in Agents |-> [m \in Modules |-> Upserted(a, m)]]
    BY DEF Gate5
  <2>2. ASSUME NEW a \in Agents, NEW m \in Modules
        PROVE  /\ Upserted(a, m) \in Grant \cup {None}
               /\ Upserted(a, m) # None =>
                     (Upserted(a, m).tier = "auto_execute" =>
                         Upserted(a, m).shape = "safe" \/ Upserted(a, m).lifted)
    <3>1. CASE SeatsOver(a, m) = {} \/ m \in excluded
      <4>1. Upserted(a, m) = grants[a][m]
        BY <3>1 DEF Upserted
      <4> QED BY <4>1 DEF IInv, GrantsOK, Grants, UnattendedWasVetted
    <3>2. CASE SeatsOver(a, m) # {} /\ m \notin excluded
      BY <1>4, <3>2, UpsertTyped
    <3> QED BY <3>1, <3>2
  <2> QED BY <2>1, <2>2 DEF GrantsOK, Grants, UnattendedWasVetted
<1> QED BY <1>1, <1>3, <1>5, WorldKept, StandingKept, SignedKept DEF IInv

LEMMA Gate8Step == ASSUME IInv, Gate8 PROVE IInv'
<1>1. /\ pass # "idle" /\ run.gate = "8" /\ UNCHANGED worldVars /\ vetted' = vetted
      /\ UNCHANGED <<spare, signed, grants, standing>>
  BY DEF Gate8, Ready, At
<1>2. (Passes("9") /\ checked' \in BOOLEAN) \/ Stops
  BY DEF Gate8, Goes, IInv, RunOK
<1>3. RunOK' /\ VettedOK'
  BY <1>1, <1>2, GateStep DEF Gate
<1> QED BY <1>1, <1>3, WorldKept, StandingKept, GrantsKept, SignedKept DEF IInv

\* Neither the tier nor what it was issued on is touched.
LEMMA Restamped ==
    ASSUME GrantsOK, grants' \in Grants,
           \A a \in Agents, m \in Modules : grants'[a][m] # None =>
               /\ grants[a][m] # None
               /\ grants'[a][m].tier = grants[a][m].tier
               /\ grants'[a][m].shape = grants[a][m].shape
               /\ grants'[a][m].lifted = grants[a][m].lifted
    PROVE  GrantsOK'
BY DEF GrantsOK, UnattendedWasVetted

LEMMA Gate11Step == ASSUME IInv, Gate11 PROVE IInv'
<1>1. /\ pass # "idle" /\ run.gate = "11" /\ UNCHANGED worldVars
      /\ UNCHANGED <<spare, signed, standing, history>>
  BY DEF Gate11, Ready, At
<1>2. (Passes("12") /\ checked' \in BOOLEAN) \/ Stops
  BY DEF Gate11, Goes, IInv, RunOK
<1>3. RunOK' /\ VettedOK'
  BY <1>1, <1>2, GateStep DEF Gate, history
<1>4. GrantsOK'
  <2>1. CASE grants' = grants
    BY <2>1, GrantsKept DEF IInv
  <2>2. CASE grants' = [a \in Agents |-> [m \in Modules |-> Activated(a, m)]]
    <3>1. \A a \in Agents, m \in Modules :
            \/ Activated(a, m) = grants[a][m]
            \/ grants[a][m] # None /\ Activated(a, m) = [grants[a][m] EXCEPT !.active = TRUE]
      <4>1. \A a \in Agents, m \in Modules : <<a, m>> \in Live => grants[a][m] # None
        BY DEF Live
      <4>2. ASSUME NEW a \in Agents, NEW m \in Modules
            PROVE  \/ Activated(a, m) = grants[a][m]
                   \/ <<a, m>> \in Live /\ Activated(a, m) = [grants[a][m] EXCEPT !.active = TRUE]
        BY Zenon DEF Activated
      <4> QED BY <4>1, <4>2
    <3>2. \A a \in Agents, m \in Modules : grants[a][m] \in Grant \cup {None}
      BY DEF IInv, GrantsOK, Grants
    <3>3. \A a \in Agents, m \in Modules : Activated(a, m) # None =>
            /\ Activated(a, m) \in Grant
            /\ grants[a][m] # None
            /\ Activated(a, m).tier = grants[a][m].tier
            /\ Activated(a, m).shape = grants[a][m].shape
            /\ Activated(a, m).lifted = grants[a][m].lifted
      <4> SUFFICES ASSUME NEW a \in Agents, NEW m \in Modules, Activated(a, m) # None
                   PROVE  /\ Activated(a, m) \in Grant
                          /\ grants[a][m] # None
                          /\ Activated(a, m).tier = grants[a][m].tier
                          /\ Activated(a, m).shape = grants[a][m].shape
                          /\ Activated(a, m).lifted = grants[a][m].lifted
        OBVIOUS
      <4>1. grants[a][m] # None /\ grants[a][m] \in Grant
        BY <3>1, <3>2
      <4>2. Activated(a, m) \in {grants[a][m], [grants[a][m] EXCEPT !.active = TRUE]}
        BY <3>1
      <4> QED BY <4>1, <4>2 DEF Grant
    <3>4. grants' \in Grants
      BY <2>2, <3>3 DEF Grants
    <3>5. \A a \in Agents, m \in Modules : grants'[a][m] = Activated(a, m)
      BY <2>2
    <3> QED BY <3>3, <3>4, <3>5, Restamped DEF IInv
  <2> QED BY <2>1, <2>2 DEF Gate11
<1> QED BY <1>1, <1>3, <1>4, WorldKept, StandingKept, SignedKept DEF IInv

LEMMA Gate12Step == ASSUME IInv, Gate12 PROVE IInv'
<1>1. /\ run \in Run /\ run' \in Run /\ run' # None /\ run # None
      /\ run'.gate = run.gate /\ run'.pack = run.pack
  BY GatesConstants DEF IInv, RunOK, Gate12, At, Open, Run
<1>2. RunOK'
  BY <1>1 DEF IInv, RunOK, Gate12, Idle
<1>3. VettedOK'
  BY <1>1 DEF IInv, VettedOK, SeenSafe, Beyond, Gate12, Untouched, history
<1> QED BY <1>2, <1>3, WorldKept, StandingKept, GrantsKept, SignedKept DEF IInv, Gate12, Untouched

\* The registry's writers leave rows of the shapes there are.
LEMMA RegistryTurnsTyped == ASSUME WorldTypeOK, RegistryTurns PROVE WorldTypeOK'
<1>2. ASSUME NEW m \in Modules, Register(m) PROVE WorldTypeOK'
  BY <1>2 DEF WorldTypeOK, Register, forgeVars, Shapes
<1>3. ASSUME NEW said \in [Modules -> {"safe", "unsafe"}] \cup {None}, Verify(said) PROVE WorldTypeOK'
  <2>1. \A m \in Modules : Corrected(m, said) \in Shapes
    BY <1>3 DEF WorldTypeOK, Corrected, Shapes
  <2>2. registry' \in [Modules -> Shapes]
    BY <1>3, <2>1 DEF WorldTypeOK, Verify
  <2> QED BY <1>3, <2>2 DEF WorldTypeOK, Verify, forgeVars
<1>4. ASSUME NEW pack \in agenda.packs, NEW said \in [Modules -> {"safe", "unsafe"}], Derive(pack, said)
      PROVE  WorldTypeOK'
  <2>1. registry' \in [Modules -> Shapes]
    BY <1>4 DEF WorldTypeOK, Derive, Shapes
  <2> QED BY <1>4, <2>1 DEF WorldTypeOK, Derive, forgeVars
<1> QED BY <1>2, <1>3, <1>4 DEF RegistryTurns

\* ... and the library's, the simulation's and the discharges' theirs.
LEMMA LibraryTurnsTyped == ASSUME WorldTypeOK, LibraryTurns PROVE WorldTypeOK'
<1>1. ASSUME NEW f \in Flags, NEW status \in {"draft", "relied"}, Load(f, status) PROVE WorldTypeOK'
  BY <1>1 DEF WorldTypeOK, Load, forgeVars
<1>2. ASSUME NEW f \in Flags, NEW kind \in {"narrow", "policy", "current"}, FileDischarge(f, kind) PROVE WorldTypeOK'
  BY <1>2 DEF WorldTypeOK, FileDischarge, forgeVars
<1>3. ASSUME NEW f \in Flags, DischargeEnds(f) PROVE WorldTypeOK'
  BY <1>3 DEF WorldTypeOK, DischargeEnds, forgeVars
<1>4. CASE Simulate
  BY <1>4 DEF WorldTypeOK, Simulate, forgeVars
<1> QED BY <1>1, <1>2, <1>3, <1>4 DEF LibraryTurns

\* The world turns, and touches of the grants the department's reference only.
LEMMA TurnStep == ASSUME IInv, Turn PROVE IInv'
<1>1. /\ spare' \in Nat /\ UNCHANGED <<runVars, passVars, signed, history>>
  BY DEF IInv, SignedOK, Turn
<1>2. RunOK' /\ VettedOK' /\ SignedOK'
  BY <1>1, RunKept, VettedKept DEF IInv, SignedOK, history, runVars
<1>3. CASE UNCHANGED <<standing, grants>> /\ (ForgeTurns \/ Expire)
  <2>1. WorldTypeOK'
    BY <1>3 DEF IInv, WorldTypeOK, ForgeTurns, Expire, forgeVars, ruleVars
  <2> QED BY <1>2, <1>3, <2>1, StandingKept, GrantsKept DEF IInv
<1>4. CASE UNCHANGED <<standing, grants>> /\ \E m \in Modules : Exclude(m) \/ Readmit(m)
  <2>1. WorldTypeOK'
    BY <1>4 DEF IInv, WorldTypeOK, Exclude, Readmit, forgeVars
  <2> QED BY <1>2, <1>4, <2>1, StandingKept, GrantsKept DEF IInv
<1>11. CASE UNCHANGED <<standing, grants>> /\ RegistryTurns
  <2>1. WorldTypeOK'
    BY <1>11, RegistryTurnsTyped DEF IInv
  <2> QED BY <1>2, <1>11, <2>1, StandingKept, GrantsKept DEF IInv
<1>5. CASE UNCHANGED <<standing, grants>> /\ \E m \in Modules, t \in Texts : Instruct(m, t)
  <2>1. WorldTypeOK'
    BY <1>5 DEF IInv, WorldTypeOK, Instruct, forgeVars
  <2> QED BY <1>2, <1>5, <2>1, StandingKept, GrantsKept DEF IInv
<1>6. CASE UNCHANGED <<standing, grants>> /\ (LibraryTurns \/ VillageTurns)
  <2>1. WorldTypeOK'
    BY <1>6, LibraryTurnsTyped DEF IInv, WorldTypeOK, VillageTurns, forgeVars
  <2> QED BY <1>2, <1>6, <2>1, StandingKept, GrantsKept DEF IInv
<1>7. CASE \E a \in Agents, m \in Modules, s \in Tiers \cup {"failed"} : Certify(a, m, s)
  <2>1. StandingOK'
    BY <1>7 DEF IInv, StandingOK, Standing, Certify
  <2> QED BY <1>2, <1>7, <2>1, WorldKept, GrantsKept DEF IInv, Certify
<1>8. CASE \E s \in {"failed", "certified"} : CertifyDepartment(s)
  <2>1. StandingOK' /\ UNCHANGED worldVars
    BY <1>8 DEF IInv, StandingOK, CertifyDepartment
  <2>2. grants' = [a \in Agents |-> [m \in Modules |->
                     IF grants[a][m] = None THEN None ELSE [grants[a][m] EXCEPT !.department = TRUE]]]
    BY <1>8 DEF CertifyDepartment
  <2>3. ASSUME NEW a \in Agents, NEW m \in Modules
        PROVE  /\ grants'[a][m] \in Grant \cup {None}
               /\ grants'[a][m] # None =>
                     /\ grants[a][m] # None
                     /\ grants'[a][m].tier = grants[a][m].tier
                     /\ grants'[a][m].shape = grants[a][m].shape
                     /\ grants'[a][m].lifted = grants[a][m].lifted
    <3>1. grants[a][m] \in Grant \cup {None}
      BY DEF IInv, GrantsOK, Grants
    <3>2. grants'[a][m] = IF grants[a][m] = None THEN None ELSE [grants[a][m] EXCEPT !.department = TRUE]
      BY <2>2
    <3> QED BY <3>1, <3>2 DEF Grant
  <2>4. grants' \in Grants
    BY <2>2, <2>3 DEF Grants
  <2>5. GrantsOK'
    BY <2>3, <2>4, Restamped DEF IInv
  <2> QED BY <1>2, <2>1, <2>5, WorldKept DEF IInv
<1>9. CASE \E a \in Agents : Sync(a) \/ \E m \in Modules : Revoke(a, m)
  <2>1. PICK a \in Agents : Sync(a) \/ \E m \in Modules : Revoke(a, m)
    BY <1>9
  <2>2. CASE Sync(a)
    <3>1. roster' \subseteq Agents /\ UNCHANGED <<unitA, unitB, revoked, content>>
      BY <2>2 DEF IInv, StandingOK, Sync
    <3> QED BY <1>2, <2>2, <3>1, WorldKept, GrantsKept DEF IInv, StandingOK, Sync
  <2>3. CASE \E m \in Modules : Revoke(a, m)
    <3>1. PICK m \in Modules : Revoke(a, m)
      BY <2>3
    <3>2. <<a, m>> \in Agents \X Modules
      OBVIOUS
    <3>3. revoked' \subseteq Agents \X Modules /\ UNCHANGED <<unitA, unitB, roster, content>>
      BY <3>1, <3>2 DEF IInv, StandingOK, Revoke
    <3> QED BY <1>2, <3>1, <3>3, WorldKept, GrantsKept DEF IInv, StandingOK, Revoke
  <2> QED BY <2>1, <2>2, <2>3
<1>10. CASE Refile
  <2>1. StandingOK' /\ UNCHANGED worldVars /\ grants' = grants
    BY <1>10 DEF IInv, StandingOK, Refile
  <2> QED BY <1>2, <2>1, WorldKept, GrantsKept DEF IInv
<1> QED BY <1>3, <1>4, <1>5, <1>6, <1>7, <1>8, <1>9, <1>10, <1>11 DEF Turn, World

LEMMA StutterStep == ASSUME IInv, UNCHANGED vars PROVE IInv'
<1>1. /\ UNCHANGED worldVars /\ UNCHANGED standing /\ grants' = grants
      /\ UNCHANGED <<spare, signed>> /\ UNCHANGED <<runVars, passVars>> /\ vetted' = vetted /\ run' = run
  BY DEF vars, history, runVars
<1> QED BY <1>1, WorldKept, StandingKept, GrantsKept, SignedKept, RunKept, VettedKept DEF IInv

LEMMA NextStep == ASSUME IInv, Next PROVE IInv'
BY StartRunStep, AbandonStep, HumanStep, PassStep, TurnStep, Gate0Step, Gate2Step, GenerateStep,
   DecidingStep, Gate4_5Step, Gate5Step, Gate8Step, Gate11Step, Gate12Step DEF Next

THEOREM Inductive == Spec => []IInv
<1>1. IInv /\ [Next]_vars => IInv'
  BY NextStep, StutterStep
<1> QED BY InitIInv, <1>1, PTL DEF Spec

\* Every row keeps its shape, a pass is of an open run and holds artifacts
\* exactly when it is ready, and no run stands beyond Gate 2 without what
\* Gate 2 saw (advance, _Context.artifacts).
THEOREM TypeCorrect == Spec => []TypeOK
BY Inductive, IInvTypes, PTL

\* Whatever is registered, certified, excluded, rewritten, re-run or signed
\* while runs are under way, no grant lets an agent act unattended over a module
\* whose row its run's Gate 2 did not see verified and safe, overrides of a
\* ceiling apart (_v31_unattended_writes, runtime_config.apply).
THEOREM UnattendedWasVettedHolds == Spec => []UnattendedWasVetted
<1>1. IInv => UnattendedWasVetted
  BY DEF IInv, GrantsOK
<1> QED BY Inductive, <1>1, PTL

-----------------------------------------------------------------------------
(* What the exams teach.  V11 and V32 share one answer: the memory V11 left *)
(* is what V32 reads, so what V11 let pass is in the answer Gate 2 keeps.   *)

SeenTaught ==
    Beyond => \A m \in Operated(run.pack) :
        m \in vetted.excused \/ (m \in vetted.named /\ vetted.text[m] \in Teaching)

TaughtOK ==
    /\ SeenTaught
    /\ ~ Beyond => exams = {}
    /\ ExamsTeach

\* What V11 lets through is dispatched, and taught by a text that teaches.
LEMMA ReportTeaches ==
    ASSUME WorldTypeOK, NEW pack \in Packs, Passed(pack),
           NEW m \in Operated(pack), m \notin excluded
    PROVE  m \in Named(AfterV32(pack)) /\ text[m] \in Teaching
<1>1. V11(pack, AfterV11(pack)) = "PASS"
  <2>1. V11(pack, AfterV11(pack)) \in {"PASS", "WARN"}
    BY DEF Report, Passed
  <2> QED BY <2>1 DEF V11, Unasked, Fails
<1>2. m \in Teachable(pack)
  BY DEF Teachable
<1>3. /\ Taught(pack)
      /\ AfterV11(pack) # None
      /\ m \in AfterV11(pack).modules
  BY <1>1, <1>2 DEF V11, Fails, Unasked
<1>4. AfterV32(pack) = AfterV11(pack)
  BY <1>3 DEF AfterV32, Read
<1> QED BY <1>2, <1>3, <1>4 DEF Taught, Named

LEMMA TaughtKept ==
    ASSUME TaughtOK, UNCHANGED <<vetted, exams>>, run' = run \/ (run'.pack = run.pack /\ Beyond),
           Beyond' <=> Beyond
    PROVE  TaughtOK'
<1>1. SeenTaught'
  <2>1. CASE run' = run
    BY <2>1 DEF TaughtOK, SeenTaught, Operated
  <2>2. CASE run'.pack = run.pack /\ Beyond
    BY <2>2 DEF TaughtOK, SeenTaught, Operated
  <2> QED BY <2>1, <2>2
<1>2. ExamsTeach'
  BY DEF TaughtOK, ExamsTeach
<1> QED BY <1>1, <1>2 DEF TaughtOK

\* A gate behind Gate 2 stays behind it.
LEMMA TaughtGate ==
    ASSUME IInv, TaughtOK, pass # "idle", NEW g \in Gate \ {"0", "2"}, run.gate = g,
           NEW next \in Gate \ {"0", "2"}, Passes(next) \/ Stops, UNCHANGED <<vetted, exams>>
    PROVE  TaughtOK'
<1>1. run \in Run /\ Beyond
  BY DEF IInv, RunOK, Open, Beyond
<1>2. run' = run \/ run' = [run EXCEPT !.gate = next]
  BY DEF Passes, Stops, runVars
<1>3. run'.pack = run.pack /\ run' \in Run
  BY <1>1, <1>2 DEF Run
<1>4. Beyond'
  BY <1>1, <1>2, <1>3, GatesConstants DEF Beyond, Run
<1> QED BY <1>1, <1>3, <1>4, TaughtKept

LEMMA TaughtDecides ==
    ASSUME IInv, TaughtOK, pass # "idle", NEW g \in Gate \ {"0", "2"}, run.gate = g,
           NEW next \in Gate \ {"0", "2"}, NEW through, Goes(next, through), Untouched
    PROVE  TaughtOK'
BY TaughtGate DEF Goes, Untouched, history

LEMMA TaughtRuns ==
    ASSUME IInv, TaughtOK, (\E pack \in agenda.packs : StartRun(pack)) \/ Abandon \/ Gate12
    PROVE  TaughtOK'
<1>1. CASE \E pack \in agenda.packs : StartRun(pack)
  BY <1>1, GatesConstants DEF StartRun, TaughtOK, SeenTaught, Beyond, ExamsTeach
<1>2. CASE Abandon \/ Gate12
  <2>1. run \in Run /\ run' \in Run /\ run'.gate = run.gate /\ run'.pack = run.pack
    BY <1>2 DEF IInv, RunOK, Abandon, Gate12, At, Open, Run
  <2>2. Beyond' <=> Beyond
    BY <2>1, GatesConstants DEF Beyond
  <2>3. UNCHANGED <<vetted, exams>>
    BY <1>2 DEF Abandon, Gate12, Untouched, history
  <2>4. SeenTaught'
    BY <2>1, <2>2, <2>3 DEF TaughtOK, SeenTaught, Operated
  <2>5. ExamsTeach'
    BY <2>3 DEF TaughtOK, ExamsTeach
  <2> QED BY <2>2, <2>3, <2>4, <2>5 DEF TaughtOK
<1> QED BY <1>1, <1>2

LEMMA TaughtGate0 == ASSUME IInv, TaughtOK, Gate0 PROVE TaughtOK'
<1>1. run \in Run /\ ~ Beyond
  BY DEF IInv, RunOK, Gate0, At, Open, Beyond
<1>2. run' = run \/ run' = [run EXCEPT !.gate = "2"]
  BY DEF Gate0, Goes, Passes, Stops, runVars
<1>3. ~ Beyond'
  BY <1>1, <1>2 DEF Beyond, Run
<1>4. UNCHANGED <<vetted, exams>>
  BY DEF Gate0, Untouched, history
<1> QED BY <1>1, <1>3, <1>4 DEF TaughtOK, SeenTaught, ExamsTeach

LEMMA TaughtGate2 == ASSUME IInv, TaughtOK, Gate2 PROVE TaughtOK'
<1>1. run \in Run /\ run.pack \in Packs /\ ~ Beyond /\ exams = {}
  BY DEF IInv, RunOK, Gate2, At, Open, Beyond, Run, TaughtOK
<1>2. exams' = {}
  BY <1>1 DEF Gate2
<1>3. CASE Passed(run.pack)
  <2>1. run' = [run EXCEPT !.gate = "3"]
    BY <1>3 DEF Gate2, Goes, Passes
  <2>2. run'.pack = run.pack /\ Beyond'
    BY <1>1, <2>1, GatesConstants DEF Beyond, Run, Gate
  <2>3. vetted' = [shape |-> registry, excused |-> excluded, text |-> text,
                   named |-> Named(AfterV32(run.pack))]
    BY <1>3 DEF Gate2
  <2>4. /\ vetted'.excused = excluded
        /\ vetted'.named = Named(AfterV32(run.pack))
        /\ vetted'.text = text
    BY <2>3
  <2>5. \A m \in Operated(run.pack) : m \in excluded \/ (m \in Named(AfterV32(run.pack)) /\ text[m] \in Teaching)
    BY <1>1, <1>3, ReportTeaches DEF IInv
  <2>6. SeenTaught'
    BY <2>2, <2>4, <2>5 DEF SeenTaught, Operated
  <2> QED BY <1>2, <2>2, <2>6 DEF TaughtOK, ExamsTeach
<1>4. CASE ~ Passed(run.pack)
  <2>1. run' = run /\ vetted' = vetted
    BY <1>4 DEF Gate2, Goes, Stops, runVars
  <2> QED BY <1>1, <1>2, <2>1 DEF TaughtOK, SeenTaught, Beyond, ExamsTeach
<1> QED BY <1>3, <1>4

\* The one gate that opens exams.
LEMMA TaughtGate8 == ASSUME IInv, TaughtOK, Gate8 PROVE TaughtOK'
<1>1. run \in Run /\ Beyond /\ pass # "idle" /\ run.gate = "8" /\ vetted' = vetted
  BY DEF IInv, RunOK, Gate8, Ready, At, Open, Beyond
<1>2. Passes("9") \/ Stops
  BY DEF Gate8, Goes
<1>3. run' = run \/ run' = [run EXCEPT !.gate = "9"]
  BY <1>2 DEF Passes, Stops, runVars
<1>4. run'.pack = run.pack /\ Beyond'
  BY <1>1, <1>3, GatesConstants DEF Beyond, Run, Gate
<1>5. SeenTaught'
  BY <1>1, <1>4 DEF TaughtOK, SeenTaught, Operated
<1>6. \A e \in exams' : e.module \in Operated(run.pack) /\ e.text = text[e.module]
  <2>1. CASE exams' = {}
    BY <2>1
  <2>2. CASE \E reply \in [Attempted -> Replies],
               before \in 0 .. Cardinality(Agents) :
                  exams' = UNION {Opened(m, reply[m], before) : m \in Attempted}
    <3>1. PICK reply \in [Attempted -> Replies],
               before \in 0 .. Cardinality(Agents) :
                  exams' = UNION {Opened(m, reply[m], before) : m \in Attempted}
      BY <2>2
    <3>2. \A m \in Attempted : \A e \in Opened(m, reply[m], before) : e.module = m /\ e.text = text[m]
      BY DEF Opened
    <3>3. Attempted \subseteq Operated(run.pack)
      BY DEF Attempted
    <3> QED BY <3>1, <3>2, <3>3
  <2> QED BY <2>1, <2>2 DEF Gate8
<1>7. ExamsTeach'
  BY <1>1, <1>6 DEF TaughtOK, SeenTaught, ExamsTeach
<1> QED BY <1>4, <1>5, <1>7 DEF TaughtOK

LEMMA TaughtStep == ASSUME IInv, TaughtOK, [Next]_vars PROVE TaughtOK'
<1>1. CASE Review \/ SignOffRun \/ Advance \/ Die \/ Turn \/ UNCHANGED vars
  <2>1. UNCHANGED <<vetted, exams>> /\ run' = run
    BY <1>1 DEF Review, SignOffRun, Advance, Die, Turn, vars, runVars, history
  <2> QED BY <2>1, TaughtKept DEF Beyond
<1>2. CASE Generate
  <2>2. run \in Run /\ Beyond
    BY <1>2 DEF IInv, RunOK, Generate, Open, Beyond
  <2>3. run' = run \/ run' = [run EXCEPT !.gate = "3.5"]
    BY <1>2 DEF Generate, Stops, runVars
  <2>4. run'.pack = run.pack /\ Beyond'
    BY <2>2, <2>3, GatesConstants DEF Beyond, Run, Gate
  <2> QED BY <1>2, <2>2, <2>4, TaughtKept DEF Generate, Untouched, history
<1>3. CASE Gate3_5
  <2>1. Goes("4", RequiredNotDeclared = {} /\ ~ HardOnGap)
    BY <1>3 DEF Gate3_5
  <2> QED BY <1>3, <2>1, TaughtDecides DEF Gate3_5, Ready, At, Gate
<1>4. CASE Gate4
  BY <1>4, TaughtDecides DEF Gate4, Ready, At, Gate
<1>5. CASE Gate6
  <2>1. PICK through : Goes("7", through)
    BY <1>5 DEF Gate6
  <2> QED BY <1>5, <2>1, TaughtDecides DEF Gate6, Ready, At, Gate
<1>6. CASE Gate7
  <2>1. Goes("8", \A g \in Live : ~ The(g).active)
    BY <1>6 DEF Gate7
  <2> QED BY <1>6, <2>1, TaughtDecides DEF Gate7, At, Gate
<1>7. CASE Gate9
  <2>1. Goes("9.5", AllEarned)
    BY <1>7 DEF Gate9
  <2> QED BY <1>7, <2>1, TaughtDecides DEF Gate9, At, Gate
<1>8. CASE Gate9_5
  <2>1. PICK through : Goes("10", through)
    BY <1>8 DEF Gate9_5
  <2> QED BY <1>8, <2>1, TaughtDecides DEF Gate9_5, At, Gate
<1>9. CASE Gate10
  <2>1. Goes("11", signed = artifacts)
    BY <1>9 DEF Gate10
  <2> QED BY <1>9, <2>1, TaughtDecides DEF Gate10, Ready, At, Gate
<1>10. CASE Gate4_5
  <2>1. Passes("5") \/ Stops
    BY <1>10 DEF Gate4_5
  <2> QED BY <1>10, <2>1, TaughtGate DEF Gate4_5, Ready, At, Gate, Untouched, history
<1>11. CASE Gate5
  <2>1. Passes("6") /\ UNCHANGED <<vetted, exams>>
    BY <1>11 DEF Gate5
  <2> QED BY <1>11, <2>1, TaughtGate DEF Gate5, Ready, At, Gate
<1>12. CASE Gate11
  <2>1. (Passes("12") \/ Stops) /\ UNCHANGED <<vetted, exams>>
    BY <1>12 DEF Gate11, Goes, history
  <2> QED BY <1>12, <2>1, TaughtGate DEF Gate11, Ready, At, Gate
<1> QED BY <1>1, <1>2, <1>3, <1>4, <1>5, <1>6, <1>7, <1>8, <1>9, <1>10, <1>11, <1>12,
           TaughtRuns, TaughtGate0, TaughtGate2, TaughtGate8 DEF Next

\* No exam is opened over a module the Forge did not dispatch when Gate 2 asked
\* it, nor on a text that teaches nothing, exclusions and later texts apart,
\* whatever the memory of the Forge's answer held (_v11_instructions_authored,
\* forge_modules.read, _gate_8).
THEOREM ExamsTeachHolds == Spec => []ExamsTeach
<1>1. Init => TaughtOK
  BY DEF Init, TaughtOK, SeenTaught, Beyond, ExamsTeach
<1>2. IInv /\ TaughtOK /\ [Next]_vars => TaughtOK'
  BY TaughtStep
<1>3. TaughtOK => ExamsTeach
  BY DEF TaughtOK
<1> QED BY Inductive, <1>1, <1>2, <1>3, PTL DEF Spec

-----------------------------------------------------------------------------
(* Sums over finite sets.  The fold of the library picks its elements in an  *)
(* order of its own; induction is by the least subset that would fail.        *)

\* The element a fold takes next.
Pick(s) == CHOOSE x \in s : TRUE

\* g is the sum of f over every subset of S, as a fold takes it.
SumsUp(g, f, S) ==
    g = [s \in SUBSET S |-> IF s = {} THEN 0 ELSE f[Pick(s)] + g[s \ {Pick(s)}]]

Total(f, S) == (CHOOSE g : SumsUp(g, f, S))[S]

\* Of the sets of subsets of a finite set, one that is not empty has a least.
LEMMA Smallest ==
    \A S, Bad :
        IsFiniteSet(S) /\ (\A T \in Bad : T \subseteq S) /\ Bad # {} =>
            \E T \in Bad : \A U \in Bad : U \subseteq T => U = T
<1> SUFFICES ASSUME NEW S, NEW Bad, IsFiniteSet(S), \A T \in Bad : T \subseteq S, Bad # {}
             PROVE  \E T \in Bad : \A U \in Bad : U \subseteq T => U = T
  OBVIOUS
<1>1. IsWellFoundedOn(StrictSubsetOrdering(S), SUBSET S)
  BY FS_StrictSubsetOrderingWellFounded, FS_FiniteSubsetsOfFinite, Zenon
<1>2. Bad \in SUBSET SUBSET S
  OBVIOUS
<1>3. \E T \in Bad : \A U \in Bad : ~ (<<U, T>> \in StrictSubsetOrdering(S))
  BY <1>1, <1>2, WFMin, Zenon
<1>4. QED
  BY <1>2, <1>3 DEF StrictSubsetOrdering

LEMMA PickIn == \A s : s # {} => Pick(s) \in s
BY DEF Pick

\* Two such sums agree wherever both are defined.
LEMMA SumsAgree ==
    ASSUME NEW f, NEW S, NEW T, NEW g, NEW h, SumsUp(g, f, S), SumsUp(h, f, T),
           NEW u, u \subseteq S, u \subseteq T, IsFiniteSet(u)
    PROVE  g[u] = h[u]
<1> DEFINE Bad == {v \in SUBSET u : g[v] # h[v]}
<1>1. Bad = {}
  <2> SUFFICES ASSUME Bad # {} PROVE FALSE
    OBVIOUS
  <2>0. \A W \in Bad : W \subseteq u
    OBVIOUS
  <2>1. PICK v \in Bad : \A w \in Bad : w \subseteq v => w = v
    <3> HIDE DEF Bad
    <3>1. QED
      BY <2>0, Smallest
  <2>2. v \in SUBSET S /\ v \in SUBSET T /\ g[v] # h[v]
    OBVIOUS
  <2>3. g[v] = (IF v = {} THEN 0 ELSE f[Pick(v)] + g[v \ {Pick(v)}])
    BY <2>2 DEF SumsUp
  <2>4. h[v] = (IF v = {} THEN 0 ELSE f[Pick(v)] + h[v \ {Pick(v)}])
    BY <2>2 DEF SumsUp
  <2>5. v # {}
    BY <2>2, <2>3, <2>4
  <2>6. Pick(v) \in v
    BY <2>5, PickIn
  <2>7. v \ {Pick(v)} \notin Bad
    BY <2>1, <2>6
  <2>8. g[v \ {Pick(v)}] = h[v \ {Pick(v)}]
    BY <2>7
  <2>9. QED
    BY <2>2, <2>3, <2>4, <2>5, <2>8
<1>2. QED
  BY <1>1

\* There is such a sum.
LEMMA SumsExist ==
    ASSUME NEW f, NEW S, IsFiniteSet(S)
    PROVE  \E g : SumsUp(g, f, S)
<1> DEFINE Bad == {T \in SUBSET S : ~ \E g : SumsUp(g, f, T)}
<1>1. Bad = {}
  <2> SUFFICES ASSUME Bad # {} PROVE FALSE
    OBVIOUS
  <2>0. \A W \in Bad : W \subseteq S
    OBVIOUS
  <2>1. PICK T \in Bad : \A U \in Bad : U \subseteq T => U = T
    <3> HIDE DEF Bad
    <3>1. QED
      BY <2>0, Smallest
  <2> DEFINE G(U) == CHOOSE g : SumsUp(g, f, U)
             h == [s \in SUBSET T |-> IF s = {} THEN 0
                                      ELSE f[Pick(s)] + G(s \ {Pick(s)})[s \ {Pick(s)}]]
  <2>2. ASSUME NEW U \in SUBSET T, U # T
        PROVE  SumsUp(G(U), f, U)
    <3>1. \E g : SumsUp(g, f, U)
      BY <2>1, <2>2
    <3>2. QED
      BY <3>1
  <2>3. ASSUME NEW s \in SUBSET T
        PROVE  h[s] = IF s = {} THEN 0 ELSE f[Pick(s)] + h[s \ {Pick(s)}]
    <3>1. CASE s = {}
      BY <3>1
    <3>2. CASE s # {}
      <4> DEFINE t == s \ {Pick(s)}
      <4>1. Pick(s) \in s
        BY <3>2, PickIn
      <4>2. t \in SUBSET T /\ t # T
        BY <4>1
      <4>3. SumsUp(G(t), f, t)
        BY <2>2, <4>2
      <4>4. h[s] = f[Pick(s)] + G(t)[t]
        BY <3>2
      <4>5. G(t)[t] = IF t = {} THEN 0 ELSE f[Pick(t)] + G(t)[t \ {Pick(t)}]
        BY <4>3 DEF SumsUp
      <4>6. h[t] = IF t = {} THEN 0 ELSE f[Pick(t)] + G(t \ {Pick(t)})[t \ {Pick(t)}]
        BY <4>2
      <4>7. ASSUME t # {}
            PROVE  G(t)[t \ {Pick(t)}] = G(t \ {Pick(t)})[t \ {Pick(t)}]
        <5> DEFINE w == t \ {Pick(t)}
        <5>1. Pick(t) \in t
          BY <4>7, PickIn
        <5>2. w \in SUBSET T /\ w # T /\ w \subseteq t /\ w \subseteq w
          BY <4>2, <5>1
        <5>3. SumsUp(G(w), f, w)
          BY <2>2, <5>2
        <5>4. IsFiniteSet(w)
          BY <5>2, FS_Subset
        <5> HIDE DEF w, G, t
        <5>5. QED
          BY <4>3, <5>2, <5>3, <5>4, SumsAgree DEF w
      <4>8. G(t)[t] = h[t]
        BY <4>5, <4>6, <4>7
      <4>9. QED
        BY <3>2, <4>4, <4>8
    <3>3. QED
      BY <3>1, <3>2
  <2>4. SumsUp(h, f, T)
    <3> HIDE DEF G
    <3>1. h = [s \in SUBSET T |-> h[s]]
      OBVIOUS
    <3>2. [s \in SUBSET T |-> h[s]] = [s \in SUBSET T |-> IF s = {} THEN 0 ELSE f[Pick(s)] + h[s \ {Pick(s)}]]
      BY <2>3
    <3> HIDE DEF h
    <3>3. QED
      BY <3>1, <3>2 DEF SumsUp
  <2>5. QED
    BY <2>1, <2>4
<1>2. QED
  BY <1>1

\* The fold of the library is this sum.
LEMMA SumIsTotal ==
    ASSUME NEW f, NEW S
    PROVE  MapThenSumSet(LAMBDA x : f[x], S) = Total(f, S)
BY DEF MapThenSumSet, MapThenFoldSet, Total, SumsUp, Pick

LEMMA TotalStep ==
    ASSUME NEW f, NEW S, IsFiniteSet(S)
    PROVE  /\ Total(f, {}) = 0
           /\ S # {} => Total(f, S) = f[Pick(S)] + Total(f, S \ {Pick(S)})
<1> DEFINE G(T) == CHOOSE g : SumsUp(g, f, T)
<1>1. ASSUME NEW T, IsFiniteSet(T)
      PROVE  SumsUp(G(T), f, T) /\ Total(f, T) = G(T)[T]
  BY <1>1, SumsExist DEF Total
<1>2. Total(f, {}) = 0
  <2>1. IsFiniteSet({})
    BY FS_EmptySet
  <2>2. SumsUp(G({}), f, {}) /\ Total(f, {}) = G({})[{}]
    BY <1>1, <2>1
  <2> HIDE DEF G
  <2>3. QED
    BY <2>2 DEF SumsUp
<1>3. ASSUME S # {}
      PROVE  Total(f, S) = f[Pick(S)] + Total(f, S \ {Pick(S)})
  <2> DEFINE R == S \ {Pick(S)}
  <2>1. SumsUp(G(S), f, S) /\ Total(f, S) = G(S)[S]
    BY <1>1
  <2>2. IsFiniteSet(R) /\ R \in SUBSET S
    BY FS_Subset
  <2>3. SumsUp(G(R), f, R) /\ Total(f, R) = G(R)[R]
    BY <1>1, <2>2
  <2> HIDE DEF G
  <2>4. G(S)[S] = f[Pick(S)] + G(S)[R]
    BY <1>3, <2>1 DEF SumsUp
  <2>5. G(S)[R] = G(R)[R]
    <3> HIDE DEF R
    <3>1. QED
      BY <2>1, <2>2, <2>3, SumsAgree
  <2>6. QED
    BY <2>1, <2>3, <2>4, <2>5
<1>4. QED
  BY <1>2, <1>3

LEMMA TotalNat ==
    ASSUME NEW S, IsFiniteSet(S), NEW f, \A x \in S : f[x] \in Nat
    PROVE  \A T \in SUBSET S : Total(f, T) \in Nat
<1> DEFINE Bad == {T \in SUBSET S : Total(f, T) \notin Nat}
<1> SUFFICES ASSUME Bad # {} PROVE FALSE
  OBVIOUS
<1>1. \A W \in Bad : W \subseteq S
  OBVIOUS
<1>2. PICK T \in Bad : \A U \in Bad : U \subseteq T => U = T
  <2> HIDE DEF Bad
  <2>1. QED
    BY <1>1, Smallest
<1>3. T \in SUBSET S /\ IsFiniteSet(T) /\ Total(f, T) \notin Nat
  BY FS_Subset
<1>4. T # {}
  <2>1. Total(f, {}) = 0
    BY <1>3, TotalStep
  <2>2. QED
    BY <1>3, <2>1
<1>5. Pick(T) \in T
  BY <1>4, PickIn
<1>6. Total(f, T \ {Pick(T)}) \in Nat
  BY <1>2, <1>3, <1>5
<1>7. Total(f, T) = f[Pick(T)] + Total(f, T \ {Pick(T)})
  BY <1>3, <1>4, TotalStep
<1>8. QED
  BY <1>3, <1>5, <1>6, <1>7

\* It does not matter which element is taken out.
LEMMA TotalAny ==
    ASSUME NEW S, IsFiniteSet(S), NEW f, \A x \in S : f[x] \in Nat
    PROVE  \A T \in SUBSET S : \A x \in T : Total(f, T) = f[x] + Total(f, T \ {x})
<1> DEFINE Bad == {T \in SUBSET S : \E x \in T : Total(f, T) # f[x] + Total(f, T \ {x})}
<1> SUFFICES ASSUME Bad # {} PROVE FALSE
  OBVIOUS
<1>1. \A W \in Bad : W \subseteq S
  OBVIOUS
<1>2. PICK T \in Bad : \A U \in Bad : U \subseteq T => U = T
  <2> HIDE DEF Bad
  <2>1. QED
    BY <1>1, Smallest
<1>3. T \in SUBSET S /\ IsFiniteSet(T)
  BY FS_Subset
<1>4. PICK x \in T : Total(f, T) # f[x] + Total(f, T \ {x})
  OBVIOUS
<1> DEFINE y == Pick(T)
           P == T \ {y}
           Q == T \ {x}
           R == T \ {x, y}
<1>5. y \in T
  BY PickIn
<1>6. Total(f, T) = f[y] + Total(f, P)
  BY <1>3, <1>4, TotalStep
<1>7. x # y
  BY <1>4, <1>6
<1>8. P \in SUBSET S /\ Q \in SUBSET S /\ R \in SUBSET S /\ P # T /\ Q # T /\ P \subseteq T /\ Q \subseteq T
  BY <1>3, <1>4, <1>5
<1>9. Total(f, P) = f[x] + Total(f, R)
  <2>1. P \notin Bad /\ x \in P /\ P \ {x} = R
    BY <1>2, <1>4, <1>7, <1>8
  <2>2. QED
    BY <1>8, <2>1
<1>10. Total(f, Q) = f[y] + Total(f, R)
  <2>1. Q \notin Bad /\ y \in Q /\ Q \ {y} = R
    BY <1>2, <1>5, <1>7, <1>8
  <2>2. QED
    BY <1>8, <2>1
<1>11. f[x] \in Nat /\ f[y] \in Nat /\ Total(f, R) \in Nat
  BY <1>3, <1>4, <1>5, <1>8, TotalNat
<1> HIDE DEF y, P, Q, R, Bad
<1>12. f[y] + (f[x] + Total(f, R)) = f[x] + (f[y] + Total(f, R))
  BY <1>11
<1>13. Total(f, Q) = Total(f, T \ {x})
  BY DEF Q
<1>14. QED
  BY <1>4, <1>6, <1>9, <1>10, <1>12, <1>13

\* A sum of natural numbers does not fall as its set grows.
LEMMA TotalGrows ==
    ASSUME NEW S, IsFiniteSet(S), NEW f, \A x \in S : f[x] \in Nat
    PROVE  \A T \in SUBSET S : Total(f, T) <= Total(f, S)
<1> DEFINE Bad == {T \in SUBSET S : \E U \in SUBSET T : ~ (Total(f, U) <= Total(f, T))}
<1>0. Bad = {}
  <2> SUFFICES ASSUME Bad # {} PROVE FALSE
    OBVIOUS
  <2>1. \A W \in Bad : W \subseteq S
    OBVIOUS
  <2>2. PICK T \in Bad : \A V \in Bad : V \subseteq T => V = T
    <3> HIDE DEF Bad
    <3>1. QED
      BY <2>1, Smallest
  <2>3. T \in SUBSET S
    OBVIOUS
  <2>4. PICK U \in SUBSET T : ~ (Total(f, U) <= Total(f, T))
    OBVIOUS
  <2>5. Total(f, T) \in Nat /\ Total(f, U) \in Nat
    BY <2>3, TotalNat
  <2>6. U # T
    BY <2>4, <2>5
  <2>7. PICK x \in T : x \notin U
    BY <2>6
  <2> DEFINE R == T \ {x}
  <2>8. R \in SUBSET S /\ R \subseteq T /\ R # T /\ U \in SUBSET R
    BY <2>3, <2>7
  <2>9. Total(f, U) <= Total(f, R)
    BY <2>2, <2>8
  <2>10. Total(f, T) = f[x] + Total(f, R)
    BY <2>3, TotalAny
  <2>11. f[x] \in Nat /\ Total(f, R) \in Nat
    BY <2>3, <2>8, TotalNat
  <2> HIDE DEF R, Bad
  <2>12. QED
    BY <2>4, <2>5, <2>9, <2>10, <2>11
<1>1. QED
  BY <1>0

\* The sums the capacity of reviewers is reckoned from.
LEMMA FieldSums ==
    ASSUME NEW U, NEW S \in SUBSET U
    PROVE  /\ MapThenSumSet(LAMBDA d : d.volume, S) = Total([d \in U |-> d.volume], S)
           /\ MapThenSumSet(LAMBDA d : d.hours, S) = Total([d \in U |-> d.hours], S)
           /\ MapThenSumSet(LAMBDA d : d.hours * d.minutes, S) = Total([d \in U |-> d.hours * d.minutes], S)
<1>1. MapThenSumSet(LAMBDA d : d.volume, S) = Total([d \in U |-> d.volume], S)
  <2> DEFINE f == [d \in U |-> d.volume]
             F(g) == [s \in SUBSET S |-> IF s = {} THEN 0 ELSE f[Pick(s)] + g[s \ {Pick(s)}]]
             H(g) == [s \in SUBSET S |-> IF s = {} THEN 0 ELSE Pick(s).volume + g[s \ {Pick(s)}]]
  <2>1. ASSUME NEW g PROVE F(g) = H(g)
    <3>1. \A s \in SUBSET S : s # {} => f[Pick(s)] = Pick(s).volume
      BY PickIn
    <3> HIDE DEF f
    <3>2. QED
      BY <3>1
  <2>2. MapThenSumSet(LAMBDA d : d.volume, S) = (CHOOSE g : g = H(g))[S]
    BY DEF MapThenSumSet, MapThenFoldSet, Pick
  <2>3. Total(f, S) = (CHOOSE g : g = F(g))[S]
    BY DEF Total, SumsUp
  <2> HIDE DEF F, H
  <2>4. (CHOOSE g : g = H(g)) = (CHOOSE g : g = F(g))
    BY <2>1
  <2>5. QED
    BY <2>2, <2>3, <2>4
<1>2. MapThenSumSet(LAMBDA d : d.hours, S) = Total([d \in U |-> d.hours], S)
  <2> DEFINE f == [d \in U |-> d.hours]
             F(g) == [s \in SUBSET S |-> IF s = {} THEN 0 ELSE f[Pick(s)] + g[s \ {Pick(s)}]]
             H(g) == [s \in SUBSET S |-> IF s = {} THEN 0 ELSE Pick(s).hours + g[s \ {Pick(s)}]]
  <2>1. ASSUME NEW g PROVE F(g) = H(g)
    <3>1. \A s \in SUBSET S : s # {} => f[Pick(s)] = Pick(s).hours
      BY PickIn
    <3> HIDE DEF f
    <3>2. QED
      BY <3>1
  <2>2. MapThenSumSet(LAMBDA d : d.hours, S) = (CHOOSE g : g = H(g))[S]
    BY DEF MapThenSumSet, MapThenFoldSet, Pick
  <2>3. Total(f, S) = (CHOOSE g : g = F(g))[S]
    BY DEF Total, SumsUp
  <2> HIDE DEF F, H
  <2>4. (CHOOSE g : g = H(g)) = (CHOOSE g : g = F(g))
    BY <2>1
  <2>5. QED
    BY <2>2, <2>3, <2>4
<1>3. MapThenSumSet(LAMBDA d : d.hours * d.minutes, S) = Total([d \in U |-> d.hours * d.minutes], S)
  <2> DEFINE f == [d \in U |-> d.hours * d.minutes]
             F(g) == [s \in SUBSET S |-> IF s = {} THEN 0 ELSE f[Pick(s)] + g[s \ {Pick(s)}]]
             H(g) == [s \in SUBSET S |-> IF s = {} THEN 0 ELSE Pick(s).hours * Pick(s).minutes + g[s \ {Pick(s)}]]
  <2>1. ASSUME NEW g PROVE F(g) = H(g)
    <3>1. \A s \in SUBSET S : s # {} => f[Pick(s)] = Pick(s).hours * Pick(s).minutes
      BY PickIn
    <3> HIDE DEF f
    <3>2. QED
      BY <3>1
  <2>2. MapThenSumSet(LAMBDA d : d.hours * d.minutes, S) = (CHOOSE g : g = H(g))[S]
    BY DEF MapThenSumSet, MapThenFoldSet, Pick
  <2>3. Total(f, S) = (CHOOSE g : g = F(g))[S]
    BY DEF Total, SumsUp
  <2> HIDE DEF F, H
  <2>4. (CHOOSE g : g = H(g)) = (CHOOSE g : g = F(g))
    BY <2>1
  <2>5. QED
    BY <2>2, <2>3, <2>4
<1>4. QED
  BY <1>1, <1>2, <1>3

-----------------------------------------------------------------------------
(* What the grants ask of the reviewers.  Gate 4.5 finds a projection to be   *)
(* within their hours; what Gate 5 issues asks for a part of it, and a part   *)
(* of what is feasible is feasible.                                           *)

LEMMA TimesGrows == \A a, b, w \in Nat : a <= b => a * w <= b * w
<1> SUFFICES ASSUME NEW a \in Nat, NEW b \in Nat, NEW w \in Nat, a <= b
             PROVE  a * w <= b * w
  OBVIOUS
<1>1. b - a \in Nat
  OBVIOUS
<1>2. (b - a) * w \in Nat /\ b * w = a * w + (b - a) * w
  BY <1>1
<1>3. QED
  BY <1>2

\* More approvals are no lighter.
LEMMA OverrunGrows ==
    ASSUME NEW pack \in Packs, HoursAreSplit(pack),
           NEW B, IsFiniteSet(B), \A d \in B : d.volume \in Nat,
           NEW A \in SUBSET B, Overrun(pack, A)
    PROVE  Overrun(pack, B)
<1> DEFINE Humans(r) == {h \in pack.humans : h.role = r}
           Hours(r) == MapThenSumSet(LAMBDA h : h.hours, Humans(r))
           Weighted(r) == MapThenSumSet(LAMBDA h : h.hours * h.minutes, Humans(r))
           Of(S, r) == {d \in S : d.role = r}
           Demand(S, r) == MapThenSumSet(LAMBDA d : d.volume, Of(S, r))
           Over(S, r) == IF Hours(r) = 0 THEN Demand(S, r) > 0
                         ELSE Demand(S, r) * Weighted(r) > 36 * Hours(r) * Hours(r)
<1>1. \A S : Overrun(pack, S) <=> \E r \in Roles : Over(S, r)
  BY DEF Overrun
<1>2. PICK r \in Roles : Over(A, r)
  BY <1>1
<1>3. Hours(r) \in Nat /\ Weighted(r) \in Nat
  <2> DEFINE U == Humans(r)
             f == [h \in U |-> h.hours]
             g == [h \in U |-> h.hours * h.minutes]
  <2>1. IsFiniteSet(U)
    BY PacksParse, FS_Subset
  <2>2. \A h \in U : h.hours \in Nat /\ h.minutes \in Nat
    BY PacksParse DEF HoursAreSplit, Pack, Human
  <2>3. \A h \in U : f[h] \in Nat /\ g[h] \in Nat
    BY <2>2
  <2>4. Total(f, U) \in Nat /\ Total(g, U) \in Nat
    <3> HIDE DEF f, g, U
    <3>1. QED
      BY <2>1, <2>3, TotalNat
  <2>5. Hours(r) = Total(f, U) /\ Weighted(r) = Total(g, U)
    BY FieldSums
  <2>6. QED
    BY <2>4, <2>5
<1>4. Demand(A, r) \in Nat /\ Demand(B, r) \in Nat /\ Demand(A, r) <= Demand(B, r)
  <2> DEFINE U == Of(B, r)
             T == Of(A, r)
             f == [d \in U |-> d.volume]
  <2>1. IsFiniteSet(U) /\ T \in SUBSET U
    BY FS_Subset
  <2>2. \A d \in U : f[d] \in Nat
    OBVIOUS
  <2>3. Demand(A, r) = Total(f, T) /\ Demand(B, r) = Total(f, U)
    BY <2>1, FieldSums
  <2>4. Total(f, T) \in Nat /\ Total(f, U) \in Nat /\ Total(f, T) <= Total(f, U)
    <3> HIDE DEF f, U, T
    <3>1. QED
      BY <2>1, <2>2, TotalNat, TotalGrows
  <2>5. QED
    BY <2>3, <2>4
<1> HIDE DEF Hours, Weighted, Demand
<1>5. Demand(A, r) * Weighted(r) <= Demand(B, r) * Weighted(r)
  BY <1>3, <1>4, TimesGrows
<1>6. /\ Demand(A, r) * Weighted(r) \in Nat /\ Demand(B, r) * Weighted(r) \in Nat
      /\ 36 * Hours(r) * Hours(r) \in Nat
  BY <1>3, <1>4
<1>7. Over(B, r)
  BY <1>2, <1>3, <1>4, <1>5, <1>6
<1> HIDE DEF Over
<1>8. QED
  BY <1>1, <1>7

LEMMA ImageFinite ==
    ASSUME NEW S, IsFiniteSet(S), NEW f, NEW T, T \subseteq {f[x] : x \in S}
    PROVE  IsFiniteSet(T)
<1> DEFINE g == [x \in S |-> f[x]]
<1>1. g \in Surjection(S, {f[x] : x \in S})
  BY DEF Surjection
<1>2. IsFiniteSet({f[x] : x \in S})
  <2> HIDE DEF g
  <2>1. QED
    BY <1>1, FS_Surjection
<1>3. QED
  BY <1>2, FS_Subset

Counted == Beyond => VolumeDeclared(run.pack) /\ HoursAreSplit(run.pack)

CheckedOK ==
    checked => /\ pass = "ready" /\ Beyond
               /\ ~ Overrun(run.pack, Projection)

IssuedOK == issued # None => issued.pack \in Packs /\ issued.artifacts \in Artifacts

FeasibleOK == Counted /\ CheckedOK /\ IssuedOK /\ IssuedWasFeasible

\* A step that moves no grant to another tier, and takes and adds none.
TiersKept ==
    \A a \in Agents, m \in Modules :
        /\ grants'[a][m] = None <=> grants[a][m] = None
        /\ grants[a][m] # None => grants'[a][m].tier = grants[a][m].tier

LEMMA ReportCounts ==
    ASSUME NEW pack \in Packs, Passed(pack)
    PROVE  VolumeDeclared(pack) /\ HoursAreSplit(pack)
<1>1. V13(pack) \in {"PASS", "WARN"}
  BY DEF Report, Passed
<1> QED BY <1>1 DEF V13, Fails

LEMMA ProjectionFinite ==
    ASSUME run \in Run, artifacts \in Artifacts, VolumeDeclared(run.pack)
    PROVE  IsFiniteSet(Projection) /\ \A d \in Projection : d.volume \in Nat
<1>1. run.pack \in Packs
  BY DEF Run
<1> DEFINE f == [x \in Positions \X Modules |-> Approval(run.pack, x[1], artifacts.flags[x[1]], x[2])]
<1>2. ASSUME NEW d \in Projection
      PROVE  \E p \in Positions, m \in Modules :
                /\ d = Approval(run.pack, p, artifacts.flags[p], m)
                /\ ~ run.pack.position[p].pending /\ m \in run.pack.position[p].modules
  <2>1. PICK p \in Positions :
            /\ ~ Seat(p).pending
            /\ \E m \in Seat(p).steps : d = Approval(run.pack, p, artifacts.flags[p], m)
    BY <1>2 DEF Projection
  <2>2. Seat(p).steps \subseteq Seat(p).modules /\ Seat(p).modules \subseteq Modules
    BY <1>1, PacksParse DEF Parses, Pack, Position, Seat
  <2>3. QED
    BY <2>1, <2>2 DEF Seat
<1>3. Projection \subseteq {f[x] : x \in Positions \X Modules}
  <2> SUFFICES ASSUME NEW d \in Projection
               PROVE  d \in {f[x] : x \in Positions \X Modules}
    OBVIOUS
  <2>1. PICK p \in Positions, m \in Modules : d = Approval(run.pack, p, artifacts.flags[p], m)
    BY <1>2
  <2>2. <<p, m>> \in Positions \X Modules /\ f[<<p, m>>] = d
    BY <2>1
  <2> HIDE DEF f
  <2>3. QED
    BY <2>2
<1>4. IsFiniteSet(Projection)
  <2>1. IsFiniteSet(Positions \X Modules)
    BY ValidatorConstants, FS_Product
  <2> HIDE DEF f
  <2>2. QED
    BY <1>3, <2>1, ImageFinite
<1>5. ASSUME NEW d \in Projection
      PROVE  d.volume \in Nat
  <2>1. PICK p \in Positions, m \in Modules :
            /\ d = Approval(run.pack, p, artifacts.flags[p], m)
            /\ ~ run.pack.position[p].pending /\ m \in run.pack.position[p].modules
    BY <1>2
  <2>2. run.pack.position[p].volume[m] \in Nat
    BY <1>1, <2>1, PacksParse DEF VolumeDeclared, Pack, Position
  <2>3. QED
    BY <2>1, <2>2 DEF Approval
<1>6. QED
  BY <1>4, <1>5

LEMMA AskedKept ==
    ASSUME issued # None, IssuedOK, issued' = issued, TiersKept
    PROVE  Asked' = Asked
<1>1. ASSUME NEW p \in Positions
      PROVE  /\ issued.pack.position[p].steps \subseteq Modules
             /\ issued.artifacts.seat[p] \subseteq Agents
  <2>1. issued.pack \in Packs /\ issued.artifacts \in Artifacts
    BY DEF IssuedOK
  <2>2. issued.pack.position[p].steps \subseteq Modules
    BY <2>1, PacksParse DEF Parses, Pack, Position
  <2>3. issued.artifacts.seat[p] \subseteq Agents
    BY <2>1 DEF Artifacts, Appointment
  <2>4. QED
    BY <2>2, <2>3
<1> DEFINE seat(p) == issued.pack.position[p]
           alone(a, p, m) == \A q \in Positions \ {p} : ~ (a \in issued.artifacts.seat[q] /\ m \in seat(q).modules)
           asks(p, m) == \E a \in issued.artifacts.seat[p] :
                              /\ alone(a, p, m) /\ grants[a][m] # None
                              /\ grants[a][m].tier \in {"suggest", "propose"}
           asked(p, m) == \E a \in issued.artifacts.seat[p] :
                              /\ alone(a, p, m) /\ grants'[a][m] # None
                              /\ grants'[a][m].tier \in {"suggest", "propose"}
           of(p, m) == Approval(issued.pack, p, issued.artifacts.flags[p], m)
<1>2. ASSUME NEW p \in Positions, NEW m \in seat(p).steps
      PROVE  asked(p, m) <=> asks(p, m)
  <2>1. \A a \in issued.artifacts.seat[p] :
            /\ grants'[a][m] = None <=> grants[a][m] = None
            /\ grants[a][m] # None => grants'[a][m].tier = grants[a][m].tier
    BY <1>1, <1>2 DEF TiersKept
  <2> HIDE DEF alone
  <2>2. QED
    BY <2>1
<1>3. Asked = UNION {{of(p, m) : m \in {m \in seat(p).steps \ issued.excluded : asks(p, m)}} :
                     p \in {p \in Positions : ~ seat(p).pending}}
  BY DEF Asked
<1>4. Asked' = UNION {{of(p, m) : m \in {m \in seat(p).steps \ issued.excluded : asked(p, m)}} :
                      p \in {p \in Positions : ~ seat(p).pending}}
  BY DEF Asked
<1> HIDE DEF seat, asks, asked, of
<1>5. QED
  BY <1>2, <1>3, <1>4

\* What a step does that neither checks nor issues.
LEMMA FeasibleKept ==
    ASSUME IInv, FeasibleOK, issued' = issued, TiersKept, Counted',
           \/ checked' = FALSE
           \/ /\ checked' = checked /\ UNCHANGED <<pass, artifacts>>
              /\ run'.pack = run.pack /\ (Beyond => Beyond')
    PROVE  FeasibleOK'
<1>1. IssuedOK'
  BY DEF FeasibleOK, IssuedOK
<1>2. IssuedWasFeasible'
  BY AskedKept DEF FeasibleOK, IssuedWasFeasible
<1>3. CheckedOK'
  <2>1. CASE checked' = FALSE
    BY <2>1 DEF CheckedOK
  <2>2. CASE /\ checked' = checked /\ UNCHANGED <<pass, artifacts>>
             /\ run'.pack = run.pack /\ (Beyond => Beyond')
    <3>1. Projection' = Projection
      BY <2>2 DEF Projection, Seat, AsksNobody, Effective
    <3>2. QED
      BY <2>2, <3>1 DEF FeasibleOK, CheckedOK
  <2>3. QED
    BY <2>1, <2>2
<1>4. QED
  BY <1>1, <1>2, <1>3 DEF FeasibleOK

LEMMA SameGrants == grants' = grants => TiersKept
BY DEF TiersKept

\* A gate behind Gate 2 stays behind it.
LEMMA FeasibleGate ==
    ASSUME IInv, FeasibleOK, pass # "idle", NEW g \in Gate \ {"0", "2"}, run.gate = g,
           NEW next \in Gate \ {"0", "2"}, (Passes(next) /\ UNCHANGED checked) \/ Stops,
           issued' = issued, TiersKept
    PROVE  FeasibleOK'
<1>1. run \in Run /\ Beyond
  BY DEF IInv, RunOK, Open, Beyond
<1>2. run' = run \/ run' = [run EXCEPT !.gate = next]
  BY DEF Passes, Stops, runVars
<1>3. run'.pack = run.pack /\ Beyond'
  BY <1>1, <1>2, GatesConstants DEF Beyond, Run
<1>4. Counted'
  BY <1>1, <1>3 DEF FeasibleOK, Counted
<1>5. \/ checked' = FALSE
      \/ checked' = checked /\ UNCHANGED <<pass, artifacts>>
  BY DEF Passes, Stops, Idle
<1> QED BY <1>3, <1>4, <1>5, FeasibleKept

LEMMA FeasibleDecides ==
    ASSUME IInv, FeasibleOK, pass # "idle", NEW g \in Gate \ {"0", "2"}, run.gate = g,
           NEW next \in Gate \ {"0", "2"}, NEW through, Goes(next, through), Untouched
    PROVE  FeasibleOK'
<1>1. issued' = issued /\ grants' = grants
  BY DEF Untouched, history
<1>2. (Passes(next) /\ UNCHANGED checked) \/ Stops
  BY DEF Goes
<1> QED BY <1>1, <1>2, FeasibleGate, SameGrants

\* No pass, nothing checked.
LEMMA IdleUnchecked == FeasibleOK /\ (pass # "ready" \/ ~ Beyond) => ~ checked
BY DEF FeasibleOK, CheckedOK

LEMMA FeasibleRuns ==
    ASSUME IInv, FeasibleOK, (\E pack \in agenda.packs : StartRun(pack)) \/ Abandon \/ Gate12
    PROVE  FeasibleOK'
<1>1. CASE \E pack \in agenda.packs : StartRun(pack)
  <2>1. ~ Beyond' /\ issued' = issued /\ grants' = grants /\ checked' = checked
    BY <1>1, GatesConstants DEF StartRun, Beyond, passVars
  <2>2. checked \in BOOLEAN /\ ~ checked
    BY <1>1, IdleUnchecked DEF StartRun, IInv, RunOK
  <2> QED BY <2>1, <2>2, FeasibleKept, SameGrants DEF Counted
<1>2. CASE Abandon \/ Gate12
  <2>1. run \in Run /\ run' \in Run /\ run'.gate = run.gate /\ run'.pack = run.pack
    BY <1>2 DEF IInv, RunOK, Abandon, Gate12, At, Open, Run
  <2>2. Beyond' <=> Beyond
    BY <2>1, GatesConstants DEF Beyond
  <2>3. issued' = issued /\ grants' = grants /\ checked' = FALSE
    BY <1>2 DEF Abandon, Gate12, Untouched, history, Idle
  <2>4. Counted'
    BY <2>1, <2>2 DEF FeasibleOK, Counted
  <2> QED BY <2>3, <2>4, FeasibleKept, SameGrants
<1> QED BY <1>1, <1>2

LEMMA FeasibleEarly == ASSUME IInv, FeasibleOK, Gate0 \/ Gate2 PROVE FeasibleOK'
<1>1. run \in Run /\ run.pack \in Packs /\ ~ Beyond
  BY DEF IInv, RunOK, Gate0, Gate2, At, Open, Beyond, Run
<1>2. checked' = FALSE
  <2>1. checked \in BOOLEAN /\ ~ checked
    BY <1>1, IdleUnchecked DEF IInv, RunOK
  <2>2. checked' = checked \/ checked' = FALSE
    BY DEF Gate0, Gate2, Goes, Stops, Idle
  <2> QED BY <2>1, <2>2
<1>3. issued' = issued /\ grants' = grants
  BY DEF Gate0, Gate2, Untouched, history
<1>4. Counted'
  <2>1. CASE run' = run
    BY <1>1, <2>1 DEF Counted, Beyond
  <2>2. CASE Gate0 /\ run' = [run EXCEPT !.gate = "2"]
    BY <1>1, <2>2 DEF Counted, Beyond, Run
  <2>3. CASE Gate2 /\ run' = [run EXCEPT !.gate = "3"] /\ Passed(run.pack)
    <3>1. run'.pack = run.pack
      BY <1>1, <2>3 DEF Run
    <3> QED BY <1>1, <2>3, <3>1, ReportCounts DEF Counted
  <2>4. run' = run \/ (Gate0 /\ run' = [run EXCEPT !.gate = "2"])
        \/ (Gate2 /\ run' = [run EXCEPT !.gate = "3"] /\ Passed(run.pack))
    BY DEF Gate0, Gate2, Goes, Passes, Stops, runVars
  <2> QED BY <2>1, <2>2, <2>3, <2>4
<1> QED BY <1>2, <1>3, <1>4, FeasibleKept, SameGrants

\* The one gate that checks.
LEMMA FeasibleGate4_5 == ASSUME IInv, FeasibleOK, Gate4_5 PROVE FeasibleOK'
<1>1. /\ run \in Run /\ Beyond /\ pass = "ready" /\ run.gate = "4.5"
      /\ issued' = issued /\ grants' = grants
  BY DEF IInv, RunOK, Gate4_5, Ready, At, Open, Beyond, Untouched, history
<1>2. CASE Stops
  BY <1>1, <1>2, FeasibleGate, SameGrants DEF Gate
<1>3. CASE Feasible /\ Passes("5") /\ checked' = TRUE
  <2>1. run' = [run EXCEPT !.gate = "5"] /\ UNCHANGED <<pass, artifacts>>
    BY <1>3 DEF Passes
  <2>2. run'.pack = run.pack /\ Beyond'
    BY <1>1, <2>1, GatesConstants DEF Beyond, Run, Gate
  <2>3. Projection' = Projection
    BY <2>1, <2>2 DEF Projection, Seat, AsksNobody, Effective
  <2>4. CheckedOK'
    BY <1>1, <1>3, <2>1, <2>2, <2>3 DEF Feasible, CheckedOK
  <2>5. Counted'
    BY <1>1, <2>2 DEF FeasibleOK, Counted
  <2>6. IssuedOK' /\ IssuedWasFeasible'
    BY <1>1, AskedKept, SameGrants DEF FeasibleOK, IssuedOK, IssuedWasFeasible
  <2> QED BY <2>4, <2>5, <2>6 DEF FeasibleOK
<1> QED BY <1>2, <1>3 DEF Gate4_5

\* Where an agent has one seat over a module, the tier issued is the tier
\* projected, so what the grant asks for was in the projection.
LEMMA AskedWasProjected ==
    ASSUME IInv, Gate5, Beyond, run \in Run, artifacts \in Artifacts
    PROVE  Asked' \subseteq Projection
<1>1. /\ grants' = [a \in Agents |-> [m \in Modules |-> Upserted(a, m)]]
      /\ artifacts' = artifacts
      /\ issued'.pack = run.pack /\ issued'.artifacts = artifacts /\ issued'.excluded = excluded
  BY DEF Gate5, Passes
<1>2. ASSUME NEW p \in Positions
      PROVE  /\ Seat(p).steps \subseteq Seat(p).modules /\ Seat(p).modules \subseteq Modules
             /\ artifacts.seat[p] \subseteq Agents
  <2>1. run.pack \in Packs
    BY DEF Run
  <2> QED BY <2>1, PacksParse DEF Parses, Pack, Position, Seat, Artifacts, Appointment
<1> DEFINE alone(a, p, m) == \A q \in Positions \ {p} : ~ (a \in artifacts.seat[q] /\ m \in Seat(q).modules)
           asks(p, m) == \E a \in artifacts.seat[p] :
                              /\ alone(a, p, m) /\ grants'[a][m] # None
                              /\ grants'[a][m].tier \in {"suggest", "propose"}
           of(p, m) == Approval(run.pack, p, artifacts.flags[p], m)
<1>3. Asked' = UNION {{of(p, m) : m \in {m \in Seat(p).steps \ excluded : asks(p, m)}} :
                      p \in {p \in Positions : ~ Seat(p).pending}}
  BY <1>1 DEF Asked, Seat
<1>4. Projection = UNION {{of(p, m) : m \in {m \in Seat(p).steps : ~ AsksNobody(p, m)}} :
                          p \in {p \in Positions : ~ Seat(p).pending}}
  BY DEF Projection
<1>5. ASSUME NEW p \in Positions, NEW m \in Seat(p).steps, m \notin excluded, asks(p, m)
      PROVE  ~ AsksNobody(p, m)
  <2>1. PICK a \in artifacts.seat[p] :
            /\ alone(a, p, m) /\ grants'[a][m] # None
            /\ grants'[a][m].tier \in {"suggest", "propose"}
    BY <1>5
  <2>2. a \in Agents /\ m \in Modules /\ m \in Seat(p).modules
    BY <1>2, <1>5
  <2>3. SeatsOver(a, m) = {p}
    BY <2>1, <2>2 DEF SeatsOver
  <2>4. Last({p}) = p
    BY LastIsSeat DEF Last
  <2>5. grants'[a][m] = Upserted(a, m)
    BY <1>1, <2>2
  <2>6. Upserted(a, m).tier = Planned(p, a, m)
    BY <1>5, <2>3, <2>4 DEF Upserted
  <2>7. Planned(p, a, m) \in {"suggest", "propose"}
    BY <2>1, <2>5, <2>6
  <2>8. Effective(p, a, m) = Planned(p, a, m)
    BY <2>7, ValidatorConstants DEF Planned, Effective, Tiers
  <2>9. Effective(p, a, m) # "auto_execute"
    BY <2>7, <2>8
  <2> QED BY <2>1, <2>9 DEF AsksNobody
<1> HIDE DEF asks, of
<1> QED BY <1>3, <1>4, <1>5

\* The one gate that issues.
LEMMA FeasibleGate5 == ASSUME IInv, FeasibleOK, Gate5 PROVE FeasibleOK'
<1>1. /\ run \in Run /\ run.pack \in Packs /\ Beyond /\ pass = "ready" /\ artifacts \in Artifacts
      /\ run' = [run EXCEPT !.gate = "6"] /\ UNCHANGED <<pass, artifacts, checked>>
      /\ issued' = [pack |-> run.pack, artifacts |-> artifacts, checked |-> checked, excluded |-> excluded]
  BY DEF IInv, RunOK, Gate5, Ready, At, Open, Beyond, Run, Passes
<1>2. run'.pack = run.pack /\ Beyond'
  BY <1>1, GatesConstants DEF Beyond, Run, Gate
<1>3. Counted'
  BY <1>1, <1>2 DEF FeasibleOK, Counted
<1>4. CheckedOK'
  <2>1. Projection' = Projection
    BY <1>1, <1>2 DEF Projection, Seat, AsksNobody, Effective
  <2> QED BY <1>1, <1>2, <2>1 DEF FeasibleOK, CheckedOK
<1>5. issued'.pack = run.pack /\ issued'.artifacts = artifacts /\ issued'.checked = checked
  BY <1>1
<1>6. IssuedOK'
  BY <1>1, <1>5 DEF IssuedOK
<1>7. IssuedWasFeasible'
  <2> SUFFICES ASSUME checked, Overrun(run.pack, Asked') PROVE FALSE
    BY <1>5 DEF IssuedWasFeasible
  <2>1. Asked' \subseteq Projection
    BY <1>1, AskedWasProjected
  <2>2. IsFiniteSet(Projection) /\ (\A d \in Projection : d.volume \in Nat) /\ HoursAreSplit(run.pack)
    BY <1>1, ProjectionFinite DEF FeasibleOK, Counted
  <2>3. Overrun(run.pack, Projection)
    BY <1>1, <2>1, <2>2, OverrunGrows
  <2> QED BY <2>3 DEF FeasibleOK, CheckedOK
<1> QED BY <1>3, <1>4, <1>6, <1>7 DEF FeasibleOK

LEMMA FeasibleGate11 == ASSUME IInv, FeasibleOK, Gate11 PROVE FeasibleOK'
<1>1. (Passes("12") /\ UNCHANGED checked) \/ Stops
  BY DEF Gate11, Goes
<1>2. TiersKept
  <2>1. CASE grants' = grants
    BY <2>1, SameGrants
  <2>2. CASE grants' = [a \in Agents |-> [m \in Modules |-> Activated(a, m)]]
    <3> SUFFICES ASSUME NEW a \in Agents, NEW m \in Modules
                 PROVE  /\ Activated(a, m) = None <=> grants[a][m] = None
                        /\ grants[a][m] # None => Activated(a, m).tier = grants[a][m].tier
      BY <2>2 DEF TiersKept
    <3>1. CASE Activated(a, m) = grants[a][m]
      BY <3>1
    <3>2. CASE Activated(a, m) # grants[a][m]
      <4>1. <<a, m>> \in Live /\ Activated(a, m) = [grants[a][m] EXCEPT !.active = TRUE]
        BY <3>2, Zenon DEF Activated
      <4>2. grants[a][m] # None /\ grants[a][m] \in Grant
        BY <4>1 DEF Live, IInv, GrantsOK, Grants
      <4>3. Activated(a, m) \in Grant /\ Activated(a, m).tier = grants[a][m].tier
        BY <4>1, <4>2 DEF Grant
      <4>4. None \notin Grant
        BY GatesConstants
      <4> QED BY <4>2, <4>3, <4>4
    <3> QED BY <3>1, <3>2
  <2> QED BY <2>1, <2>2 DEF Gate11
<1>3. pass # "idle" /\ run.gate = "11" /\ issued' = issued
  BY DEF Gate11, Ready, At, history
<1> QED BY <1>1, <1>2, <1>3, FeasibleGate DEF Gate

LEMMA FeasibleTurn == ASSUME IInv, FeasibleOK, Turn PROVE FeasibleOK'
<1>1. UNCHANGED <<run, passVars, issued>>
  BY DEF Turn, runVars, history
<1>2. TiersKept
  <2>1. CASE grants' = grants
    BY <2>1, SameGrants
  <2>2. CASE \E s \in {"failed", "certified"} : CertifyDepartment(s)
    <3>1. grants' = [a \in Agents |-> [m \in Modules |->
                        IF grants[a][m] = None THEN None ELSE [grants[a][m] EXCEPT !.department = TRUE]]]
      BY <2>2 DEF CertifyDepartment
    <3> SUFFICES ASSUME NEW a \in Agents, NEW m \in Modules
                 PROVE  /\ grants'[a][m] = None <=> grants[a][m] = None
                        /\ grants[a][m] # None => grants'[a][m].tier = grants[a][m].tier
      BY DEF TiersKept
    <3>2. CASE grants[a][m] = None
      BY <3>1, <3>2
    <3>3. CASE grants[a][m] # None
      <4>1. grants[a][m] \in Grant
        BY <3>3 DEF IInv, GrantsOK, Grants
      <4>2. grants'[a][m] = [grants[a][m] EXCEPT !.department = TRUE]
        BY <3>1, <3>3
      <4>3. grants'[a][m] \in Grant /\ grants'[a][m].tier = grants[a][m].tier
        BY <4>1, <4>2 DEF Grant
      <4>4. None \notin Grant
        BY GatesConstants
      <4> QED BY <3>3, <4>3, <4>4
    <3> QED BY <3>2, <3>3
  <2>3. grants' = grants \/ \E s \in {"failed", "certified"} : CertifyDepartment(s)
    BY DEF Turn, World, Certify, Revoke, Sync, Refile
  <2> QED BY <2>1, <2>2, <2>3
<1>3. Counted' /\ (Beyond => Beyond')
  BY <1>1 DEF FeasibleOK, Counted, Beyond
<1> QED BY <1>1, <1>2, <1>3, FeasibleKept DEF passVars

LEMMA FeasibleStep == ASSUME IInv, FeasibleOK, [Next]_vars PROVE FeasibleOK'
<1>1. CASE Review \/ SignOffRun \/ Advance \/ Die \/ UNCHANGED vars
  <2>1. run' = run /\ issued' = issued /\ grants' = grants
    BY <1>1 DEF Review, SignOffRun, Advance, Die, vars, runVars, history
  <2>2. \/ checked' = FALSE
        \/ checked' = checked /\ UNCHANGED <<pass, artifacts>>
    <3>1. CASE Advance
      BY <3>1, IdleUnchecked DEF Advance, IInv, RunOK
    <3> QED BY <1>1, <3>1 DEF Review, SignOffRun, Die, Idle, vars, passVars
  <2>3. Counted' /\ (Beyond => Beyond')
    BY <2>1 DEF FeasibleOK, Counted, Beyond
  <2> QED BY <2>1, <2>2, <2>3, FeasibleKept, SameGrants
<1>2. CASE Generate
  <2>2. run \in Run /\ Beyond /\ checked \in BOOLEAN /\ ~ checked
    BY <1>2, IdleUnchecked DEF IInv, RunOK, Generate, Open, Beyond
  <2>3. run' = run \/ run' = [run EXCEPT !.gate = "3.5"]
    BY <1>2 DEF Generate, Stops, runVars
  <2>4. run'.pack = run.pack /\ Beyond'
    BY <2>2, <2>3, GatesConstants DEF Beyond, Run, Gate
  <2>5. checked' = FALSE
    BY <1>2, <2>2 DEF Generate, Stops, Idle
  <2>6. Counted'
    BY <2>2, <2>4 DEF FeasibleOK, Counted
  <2>7. issued' = issued /\ grants' = grants
    BY <1>2 DEF Generate, Untouched, history
  <2> QED BY <2>5, <2>6, <2>7, FeasibleKept, SameGrants
<1>3. CASE Gate3_5
  <2>1. Goes("4", RequiredNotDeclared = {} /\ ~ HardOnGap)
    BY <1>3 DEF Gate3_5
  <2> QED BY <1>3, <2>1, FeasibleDecides DEF Gate3_5, Ready, At, Gate
<1>4. CASE Gate4
  BY <1>4, FeasibleDecides DEF Gate4, Ready, At, Gate
<1>5. CASE Gate6
  <2>1. PICK through : Goes("7", through)
    BY <1>5 DEF Gate6
  <2> QED BY <1>5, <2>1, FeasibleDecides DEF Gate6, Ready, At, Gate
<1>6. CASE Gate7
  <2>1. Goes("8", \A g \in Live : ~ The(g).active)
    BY <1>6 DEF Gate7
  <2> QED BY <1>6, <2>1, FeasibleDecides DEF Gate7, At, Gate
<1>7. CASE Gate9
  <2>1. Goes("9.5", AllEarned)
    BY <1>7 DEF Gate9
  <2> QED BY <1>7, <2>1, FeasibleDecides DEF Gate9, At, Gate
<1>8. CASE Gate9_5
  <2>1. PICK through : Goes("10", through)
    BY <1>8 DEF Gate9_5
  <2> QED BY <1>8, <2>1, FeasibleDecides DEF Gate9_5, At, Gate
<1>9. CASE Gate10
  <2>1. Goes("11", signed = artifacts)
    BY <1>9 DEF Gate10
  <2> QED BY <1>9, <2>1, FeasibleDecides DEF Gate10, Ready, At, Gate
<1>10. CASE Gate8
  <2>1. ((Passes("9") /\ UNCHANGED checked) \/ Stops) /\ issued' = issued /\ grants' = grants
    BY <1>10 DEF Gate8, Goes
  <2> QED BY <1>10, <2>1, FeasibleGate, SameGrants DEF Gate8, Ready, At, Gate
<1> QED BY <1>1, <1>2, <1>3, <1>4, <1>5, <1>6, <1>7, <1>8, <1>9, <1>10, FeasibleRuns, FeasibleEarly,
           FeasibleGate4_5, FeasibleGate5, FeasibleGate11, FeasibleTurn DEF Next

\* What the grants ask of the reviewers is within the hours Gate 4.5 found them
\* to have, whatever happened to the registry, the certifications and the
\* exclusions between the two gates (_gate_4_5, runtime_config.apply).
THEOREM IssuedWasFeasibleHolds == Spec => []IssuedWasFeasible
<1>1. Init => FeasibleOK
  BY DEF Init, FeasibleOK, Counted, CheckedOK, IssuedOK, IssuedWasFeasible, Beyond
<1>2. IInv /\ FeasibleOK /\ [Next]_vars => FeasibleOK'
  BY FeasibleStep
<1>3. FeasibleOK => IssuedWasFeasible
  BY DEF FeasibleOK
<1> QED BY Inductive, <1>1, <1>2, <1>3, PTL DEF Spec
=============================================================================
