--------------------------- MODULE MeteringProofs ---------------------------
(***************************************************************************)
(* What the two token buckets keep for every number of calls and agents    *)
(* and every rate, burst and throttle.                                     *)
(***************************************************************************)
EXTENDS Metering, TLAPS

Acquiring(c) == pc[c] \in {"agent", "forge"}

\* A call that has begun has an agent and a module.
Named == \A c \in Calls : pc[c] # "idle" => who[c] \in Agents /\ what[c] \in Modules

\* The row a call settles is still the row it tested.
Locked ==
    \A c \in Calls : pc[c] = "forge" =>
        rowLock[who[c]] = c /\ Refilled(c) >= Token

\* What the Forge's bucket holds and what was taken from it are together no more
\* than it was given up to last_refill, in whichever direction that moved.
ForgeMetered ==
    /\ flast <= clock
    /\ \A c \in Calls : Acquiring(c) => at[c] <= clock
    /\ ftokens + fspent <= FBurst + FRate * flast

\* The same of a throttled agent's, since its throttle began.
AgentMetered ==
    /\ \A a \in Agents : since[a] <= clock
    /\ \A c \in Calls : Acquiring(c) /\ until[who[c]] > clock => since[who[c]] <= at[c]
    /\ \A a \in Agents : until[a] > clock /\ spent[a] # 0 =>
           /\ since[a] <= last[a]
           /\ last[a] <= clock
           /\ tokens[a] + spent[a] <= Burst + (last[a] - since[a])

IInv == TypeOK /\ Named /\ Locked /\ ForgeMetered /\ AgentMetered

\* A bucket is refilled to no more than its ceiling, and a throttled one by no
\* more than the seconds that went by.
LEMMA RefillBound ==
    ASSUME TypeOK, NEW c \in Calls, who[c] \in Agents
    PROVE  /\ Refilled(c) \in Int
           /\ Refilled(c) <= Burst
           /\ until[who[c]] > at[c] => Refilled(c) <= tokens[who[c]] + (at[c] - last[who[c]])
<1>1. /\ tokens[who[c]] \in Int /\ at[c] \in Int /\ last[who[c]] \in Int
      /\ Burst \in Int /\ Rate \in Int
  BY MeteringConstants DEF TypeOK
<1>2. EffectiveRate(who[c], at[c]) \in Int
  BY <1>1 DEF EffectiveRate
<1>3. EffectiveRate(who[c], at[c]) * (at[c] - last[who[c]]) \in Int
  BY <1>1, <1>2
<1>4. until[who[c]] > at[c] =>
          EffectiveRate(who[c], at[c]) * (at[c] - last[who[c]]) = at[c] - last[who[c]]
  BY <1>1 DEF EffectiveRate
<1>5. QED
  BY <1>1, <1>3, <1>4 DEF Refilled, Capped

\* The Forge's is given at most its rate for the time between the two refills.
LEMMA FRefillBound ==
    ASSUME TypeOK, NEW c \in Calls
    PROVE  /\ FRefilled(c) \in Int
           /\ FRefilled(c) <= FBurst
           /\ FRefilled(c) <= ftokens + FRate * at[c] - FRate * flast
<1>1. at[c] \in Int /\ flast \in Int /\ ftokens \in Int /\ FRate \in Int /\ FBurst \in Int
  BY MeteringConstants DEF TypeOK
<1>2. FRate * at[c] \in Int /\ FRate * flast \in Int
  BY <1>1
<1>3. FRate * (at[c] - flast) = FRate * at[c] - FRate * flast
  BY <1>1
<1>4. QED
  BY <1>1, <1>2, <1>3 DEF FRefilled, Capped

\* The invariant holds of full buckets at time zero.
LEMMA InitIInv == Init => IInv
<1> SUFFICES ASSUME Init PROVE IInv
  OBVIOUS
<1>1. TypeOK
  <2>1. 0 \in Nat /\ Burst \in 0 .. Burst /\ FBurst \in 0 .. FBurst
    BY MeteringConstants
  <2>2. QED
    BY <2>1 DEF Init, TypeOK, Matches
<1>2. Named /\ Locked
  BY DEF Init, Named, Locked
<1>3. ForgeMetered /\ AgentMetered
  BY MeteringConstants DEF Init, ForgeMetered, AgentMetered, Acquiring
<1>4. QED
  BY <1>1, <1>2, <1>3 DEF IInv

\* Every step keeps the types.
LEMMA TypeStep ==
    ASSUME IInv, [Next]_vars
    PROVE  TypeOK'
<1>1. ASSUME NEW c \in Calls, RaiseIncident(c)
      PROVE  TypeOK'
  BY <1>1, MeteringConstants DEF IInv, TypeOK, RaiseIncident, agentVars, throttleVars,
     forgeVars, sweepVars, Holding
<1>2. ASSUME NEW c \in Calls, ThrottleAgent(c)
      PROVE  TypeOK'
  BY <1>2, MeteringConstants DEF IInv, TypeOK, Named, ThrottleAgent, forgeVars,
     sweepVars, Ended, Extended, UnderWay
<1>3. ASSUME NEW c \in Calls, BeginAcquire(c)
      PROVE  TypeOK'
  BY <1>3, MeteringConstants DEF IInv, TypeOK, BeginAcquire, agentVars, throttleVars,
     forgeVars, sweepVars, Holding
<1>4. ASSUME NEW c \in Calls, TakeAgent(c)
      PROVE  TypeOK'
  BY <1>4, MeteringConstants DEF IInv, TypeOK, TakeAgent, throttleVars, forgeVars,
     sweepVars, Ended, Holding, Refuse
<1>5. ASSUME NEW c \in Calls, TakeForge(c)
      PROVE  TypeOK'
  <2>1. who[c] \in Agents /\ pc[c] = "forge"
    BY <1>5 DEF IInv, Named, TakeForge
  <2>2. Refilled(c) \in Int /\ Refilled(c) <= Burst /\ Refilled(c) >= Token
    BY <2>1, RefillBound DEF IInv, Locked
  <2>3. FRefilled(c) \in Int /\ FRefilled(c) <= FBurst
    BY FRefillBound DEF IInv
  <2>4. Token \in Nat /\ Token # 0
    BY MeteringConstants
  <2>5. Refilled(c) - Token \in 0 .. Burst
    BY <2>2, <2>4, MeteringConstants
  <2>6. FRefilled(c) >= Token => FRefilled(c) - Token \in 0 .. FBurst
    BY <2>3, <2>4, MeteringConstants
  <2>7. FRefilled(c) \in 0 .. Token - 1 => FRefilled(c) \in 0 .. FBurst
    BY <2>3, <2>4, MeteringConstants
  <2>8. QED
    BY <1>5, <2>1, <2>4, <2>5, <2>6, <2>7, MeteringConstants DEF IInv, TypeOK,
       TakeForge, DebitAgent, Refuse, throttleVars, forgeVars, sweepVars, Ended
<1>6. ASSUME NEW c \in Calls, WriteCall(c)
      PROVE  TypeOK'
  BY <1>6, MeteringConstants DEF IInv, TypeOK, Named, WriteCall, agentVars,
     throttleVars, forgeVars, sweepVars, Ended
<1>7. ASSUME NEW c \in Calls, PoolTimeout(c)
      PROVE  TypeOK'
  BY <1>7, MeteringConstants DEF IInv, TypeOK, PoolTimeout, agentVars, throttleVars,
     forgeVars, sweepVars, Ended, Refuse
<1>8. ASSUME NEW c \in Calls, Die(c)
      PROVE  TypeOK'
  BY <1>8, MeteringConstants DEF IInv, TypeOK, Die, throttleVars, forgeVars, sweepVars,
     Ended, Refuse
<1>9. ASSUME NEW c \in Calls, NEW a \in Agents, NEW m \in Modules, Check(c, a, m)
      PROVE  TypeOK'
  BY <1>9, MeteringConstants DEF IInv, TypeOK, Check, agentVars, throttleVars,
     forgeVars, sweepVars, Holding
<1>10. ASSUME NEW m \in Modules, NEW s \in Matches, EditManifest(m, s)
      PROVE  TypeOK'
  BY <1>10, MeteringConstants DEF IInv, TypeOK, EditManifest, callVars, agentVars,
     throttleVars, forgeVars, sweepVars
<1>11. ASSUME NEW m \in Modules, Dispose(m)
      PROVE  TypeOK'
  BY <1>11, MeteringConstants DEF IInv, TypeOK, Dispose, callVars, agentVars,
     throttleVars, forgeVars
<1>12. ASSUME StartSweep
      PROVE  TypeOK'
  BY <1>12, MeteringConstants DEF IInv, TypeOK, StartSweep, callVars, agentVars,
     throttleVars, forgeVars, InUseUndeclared
<1>13. ASSUME ReadLedger
      PROVE  TypeOK'
  BY <1>13, MeteringConstants DEF IInv, TypeOK, ReadLedger, callVars, agentVars,
     throttleVars, forgeVars, InUseUndeclared
<1>14. ASSUME RecordUndeclared
      PROVE  TypeOK'
  BY <1>14, MeteringConstants DEF IInv, TypeOK, RecordUndeclared, callVars, agentVars,
     throttleVars, forgeVars, Recorded
<1>15. ASSUME FinishSweep
      PROVE  TypeOK'
  BY <1>15, MeteringConstants DEF IInv, TypeOK, FinishSweep, callVars, agentVars,
     throttleVars, forgeVars
<1>16. ASSUME Tick
      PROVE  TypeOK'
  BY <1>16, MeteringConstants DEF IInv, TypeOK, Tick, callVars, agentVars, throttleVars,
     forgeVars, sweepVars
<1>17. CASE UNCHANGED vars
  BY <1>17 DEF IInv, TypeOK, vars, callVars, agentVars, throttleVars, forgeVars,
     sweepVars
<1>18. QED
  BY <1>1, <1>2, <1>3, <1>4, <1>5, <1>6, <1>7, <1>8, <1>9, <1>10, <1>11, <1>12, <1>13,
     <1>14, <1>15, <1>16, <1>17 DEF Next, Step, Sweep

\* Nobody takes a call's agent or module from it.
LEMMA NamedStep ==
    ASSUME IInv, [Next]_vars
    PROVE  Named'
<1>1. ASSUME NEW c \in Calls, RaiseIncident(c)
      PROVE  Named'
  BY <1>1, MeteringConstants DEF IInv, Named, RaiseIncident
<1>2. ASSUME NEW c \in Calls, ThrottleAgent(c)
      PROVE  Named'
  BY <1>2, MeteringConstants DEF IInv, Named, ThrottleAgent
<1>3. ASSUME NEW c \in Calls, BeginAcquire(c)
      PROVE  Named'
  BY <1>3, MeteringConstants DEF IInv, Named, BeginAcquire
<1>4. ASSUME NEW c \in Calls, TakeAgent(c)
      PROVE  Named'
  BY <1>4, MeteringConstants DEF IInv, TypeOK, Named, TakeAgent, Refuse
<1>5. ASSUME NEW c \in Calls, TakeForge(c)
      PROVE  Named'
  BY <1>5, MeteringConstants DEF IInv, TypeOK, Named, TakeForge, Refuse
<1>6. ASSUME NEW c \in Calls, WriteCall(c)
      PROVE  Named'
  BY <1>6, MeteringConstants DEF IInv, Named, WriteCall
<1>7. ASSUME NEW c \in Calls, PoolTimeout(c)
      PROVE  Named'
  BY <1>7, MeteringConstants DEF IInv, Named, PoolTimeout, Refuse, Waiting
<1>8. ASSUME NEW c \in Calls, Die(c)
      PROVE  Named'
  BY <1>8, MeteringConstants DEF IInv, Named, Die, Refuse
<1>9. ASSUME NEW c \in Calls, NEW a \in Agents, NEW m \in Modules, Check(c, a, m)
      PROVE  Named'
  BY <1>9, MeteringConstants DEF IInv, TypeOK, Named, Check
<1>10. ASSUME NEW m \in Modules, NEW s \in Matches, EditManifest(m, s)
      PROVE  Named'
  BY <1>10, MeteringConstants DEF IInv, Named, EditManifest, callVars
<1>11. ASSUME NEW m \in Modules, Dispose(m)
      PROVE  Named'
  BY <1>11, MeteringConstants DEF IInv, Named, Dispose, callVars
<1>12. ASSUME StartSweep
      PROVE  Named'
  BY <1>12, MeteringConstants DEF IInv, Named, StartSweep, callVars
<1>13. ASSUME ReadLedger
      PROVE  Named'
  BY <1>13, MeteringConstants DEF IInv, Named, ReadLedger, callVars
<1>14. ASSUME RecordUndeclared
      PROVE  Named'
  BY <1>14, MeteringConstants DEF IInv, Named, RecordUndeclared, callVars
<1>15. ASSUME FinishSweep
      PROVE  Named'
  BY <1>15, MeteringConstants DEF IInv, Named, FinishSweep, callVars
<1>16. ASSUME Tick
      PROVE  Named'
  BY <1>16, MeteringConstants DEF IInv, Named, Tick, callVars
<1>17. CASE UNCHANGED vars
  BY <1>17 DEF IInv, Named, vars, callVars
<1>18. QED
  BY <1>1, <1>2, <1>3, <1>4, <1>5, <1>6, <1>7, <1>8, <1>9, <1>10, <1>11, <1>12, <1>13,
     <1>14, <1>15, <1>16, <1>17 DEF Next, Step, Sweep

\* While a call holds its agent's row, nobody moves what it tested.
LEMMA LockedStep ==
    ASSUME IInv, [Next]_vars
    PROVE  Locked'
<1>1. ASSUME NEW c \in Calls, RaiseIncident(c)
      PROVE  Locked'
  BY <1>1, MeteringConstants DEF IInv, Locked, RaiseIncident, agentVars, throttleVars,
     Refilled, EffectiveRate
<1>2. ASSUME NEW c \in Calls, ThrottleAgent(c)
      PROVE  Locked'
  BY <1>2, MeteringConstants DEF IInv, Locked, ThrottleAgent, Refilled, EffectiveRate
<1>3. ASSUME NEW c \in Calls, BeginAcquire(c)
      PROVE  Locked'
  BY <1>3, MeteringConstants DEF IInv, Locked, BeginAcquire, agentVars, throttleVars,
     Refilled, EffectiveRate
<1>4. ASSUME NEW c \in Calls, TakeAgent(c)
      PROVE  Locked'
  BY <1>4, MeteringConstants DEF IInv, TypeOK, Named, Locked, TakeAgent, throttleVars,
     Refuse, Refilled, EffectiveRate
<1>5. ASSUME NEW c \in Calls, TakeForge(c)
      PROVE  Locked'
  BY <1>5, MeteringConstants DEF IInv, TypeOK, Named, Locked, TakeForge, throttleVars,
     Refuse, DebitAgent, Refilled, EffectiveRate
<1>6. ASSUME NEW c \in Calls, WriteCall(c)
      PROVE  Locked'
  BY <1>6, MeteringConstants DEF IInv, Locked, WriteCall, agentVars, throttleVars,
     Refilled, EffectiveRate
<1>7. ASSUME NEW c \in Calls, PoolTimeout(c)
      PROVE  Locked'
  BY <1>7, MeteringConstants DEF IInv, Locked, PoolTimeout, agentVars, throttleVars,
     Refuse, Refilled, EffectiveRate
<1>8. ASSUME NEW c \in Calls, Die(c)
      PROVE  Locked'
  BY <1>8, MeteringConstants DEF IInv, TypeOK, Named, Locked, Die, throttleVars, Refuse,
     Refilled, EffectiveRate
<1>9. ASSUME NEW c \in Calls, NEW a \in Agents, NEW m \in Modules, Check(c, a, m)
      PROVE  Locked'
  BY <1>9, MeteringConstants DEF IInv, Locked, Check, agentVars, throttleVars, Refilled,
     EffectiveRate
<1>10. ASSUME NEW m \in Modules, NEW s \in Matches, EditManifest(m, s)
      PROVE  Locked'
  BY <1>10, MeteringConstants DEF IInv, Locked, EditManifest, callVars, agentVars,
     throttleVars, Refilled, EffectiveRate
<1>11. ASSUME NEW m \in Modules, Dispose(m)
      PROVE  Locked'
  BY <1>11, MeteringConstants DEF IInv, Locked, Dispose, callVars, agentVars,
     throttleVars, Refilled, EffectiveRate
<1>12. ASSUME StartSweep
      PROVE  Locked'
  BY <1>12, MeteringConstants DEF IInv, Locked, StartSweep, callVars, agentVars,
     throttleVars, Refilled, EffectiveRate
<1>13. ASSUME ReadLedger
      PROVE  Locked'
  BY <1>13, MeteringConstants DEF IInv, Locked, ReadLedger, callVars, agentVars,
     throttleVars, Refilled, EffectiveRate
<1>14. ASSUME RecordUndeclared
      PROVE  Locked'
  BY <1>14, MeteringConstants DEF IInv, Locked, RecordUndeclared, callVars, agentVars,
     throttleVars, Refilled, EffectiveRate
<1>15. ASSUME FinishSweep
      PROVE  Locked'
  BY <1>15, MeteringConstants DEF IInv, Locked, FinishSweep, callVars, agentVars,
     throttleVars, Refilled, EffectiveRate
<1>16. ASSUME Tick
      PROVE  Locked'
  BY <1>16, MeteringConstants DEF IInv, Locked, Tick, callVars, agentVars, throttleVars,
     Refilled, EffectiveRate
<1>17. CASE UNCHANGED vars
  BY <1>17 DEF IInv, Locked, vars, callVars, agentVars, throttleVars, Refilled,
     EffectiveRate
<1>18. QED
  BY <1>1, <1>2, <1>3, <1>4, <1>5, <1>6, <1>7, <1>8, <1>9, <1>10, <1>11, <1>12, <1>13,
     <1>14, <1>15, <1>16, <1>17 DEF Next, Step, Sweep

\* The Forge's bucket is only drawn on for what time has put into it.
LEMMA ForgeStep ==
    ASSUME IInv, [Next]_vars
    PROVE  ForgeMetered'
<1>1. ASSUME NEW c \in Calls, RaiseIncident(c)
      PROVE  ForgeMetered'
  BY <1>1, MeteringConstants DEF IInv, ForgeMetered, RaiseIncident, forgeVars,
     FRefilled, Acquiring
<1>2. ASSUME NEW c \in Calls, ThrottleAgent(c)
      PROVE  ForgeMetered'
  BY <1>2, MeteringConstants DEF IInv, ForgeMetered, ThrottleAgent, forgeVars,
     FRefilled, Acquiring
<1>3. ASSUME NEW c \in Calls, BeginAcquire(c)
      PROVE  ForgeMetered'
  BY <1>3, MeteringConstants DEF IInv, TypeOK, ForgeMetered, BeginAcquire, forgeVars,
     FRefilled, Acquiring
<1>4. ASSUME NEW c \in Calls, TakeAgent(c)
      PROVE  ForgeMetered'
  BY <1>4, MeteringConstants DEF IInv, TypeOK, ForgeMetered, TakeAgent, forgeVars,
     Refuse, FRefilled, Acquiring
<1>5. ASSUME NEW c \in Calls, TakeForge(c)
      PROVE  ForgeMetered'
  <2>1. who[c] \in Agents /\ pc[c] = "forge"
    BY <1>5 DEF IInv, Named, TakeForge
  <2>2. /\ FRefilled(c) \in Int
        /\ FRefilled(c) <= ftokens + FRate * at[c] - FRate * flast
    BY FRefillBound DEF IInv
  <2>3. /\ FRate * at[c] \in Int /\ FRate * flast \in Int /\ Token \in Int /\ FBurst \in Int
        /\ ftokens \in Int /\ fspent \in Int
    BY MeteringConstants DEF IInv, TypeOK
  <2>4. ftokens' + fspent' <= FBurst + FRate * flast'
    BY <1>5, <2>2, <2>3 DEF IInv, ForgeMetered, TakeForge, forgeVars
  <2>5. flast' <= clock'
    BY <1>5, <2>1 DEF IInv, ForgeMetered, Acquiring, TakeForge, forgeVars
  <2>6. \A d \in Calls : Acquiring(d)' => at[d]' <= clock'
    BY <1>5 DEF IInv, TypeOK, ForgeMetered, Acquiring, TakeForge, Refuse
  <2>7. QED
    BY <2>4, <2>5, <2>6 DEF ForgeMetered
<1>6. ASSUME NEW c \in Calls, WriteCall(c)
      PROVE  ForgeMetered'
  BY <1>6, MeteringConstants DEF IInv, ForgeMetered, WriteCall, forgeVars, FRefilled,
     Acquiring
<1>7. ASSUME NEW c \in Calls, PoolTimeout(c)
      PROVE  ForgeMetered'
  BY <1>7, MeteringConstants DEF IInv, ForgeMetered, PoolTimeout, forgeVars, Refuse,
     FRefilled, Acquiring
<1>8. ASSUME NEW c \in Calls, Die(c)
      PROVE  ForgeMetered'
  BY <1>8, MeteringConstants DEF IInv, ForgeMetered, Die, forgeVars, Refuse, FRefilled,
     Acquiring
<1>9. ASSUME NEW c \in Calls, NEW a \in Agents, NEW m \in Modules, Check(c, a, m)
      PROVE  ForgeMetered'
  BY <1>9, MeteringConstants DEF IInv, ForgeMetered, Check, forgeVars, FRefilled,
     Acquiring
<1>10. ASSUME NEW m \in Modules, NEW s \in Matches, EditManifest(m, s)
      PROVE  ForgeMetered'
  BY <1>10, MeteringConstants DEF IInv, ForgeMetered, EditManifest, callVars, forgeVars,
     FRefilled, Acquiring
<1>11. ASSUME NEW m \in Modules, Dispose(m)
      PROVE  ForgeMetered'
  BY <1>11, MeteringConstants DEF IInv, ForgeMetered, Dispose, callVars, forgeVars,
     FRefilled, Acquiring
<1>12. ASSUME StartSweep
      PROVE  ForgeMetered'
  BY <1>12, MeteringConstants DEF IInv, ForgeMetered, StartSweep, callVars, forgeVars,
     FRefilled, Acquiring
<1>13. ASSUME ReadLedger
      PROVE  ForgeMetered'
  BY <1>13, MeteringConstants DEF IInv, ForgeMetered, ReadLedger, callVars, forgeVars,
     FRefilled, Acquiring
<1>14. ASSUME RecordUndeclared
      PROVE  ForgeMetered'
  BY <1>14, MeteringConstants DEF IInv, ForgeMetered, RecordUndeclared, callVars,
     forgeVars, FRefilled, Acquiring
<1>15. ASSUME FinishSweep
      PROVE  ForgeMetered'
  BY <1>15, MeteringConstants DEF IInv, ForgeMetered, FinishSweep, callVars, forgeVars,
     FRefilled, Acquiring
<1>16. ASSUME Tick
      PROVE  ForgeMetered'
  BY <1>16, MeteringConstants DEF IInv, TypeOK, ForgeMetered, Tick, callVars, forgeVars,
     FRefilled, Acquiring
<1>17. CASE UNCHANGED vars
  BY <1>17 DEF IInv, ForgeMetered, vars, callVars, forgeVars, FRefilled, Acquiring
<1>18. QED
  BY <1>1, <1>2, <1>3, <1>4, <1>5, <1>6, <1>7, <1>8, <1>9, <1>10, <1>11, <1>12, <1>13,
     <1>14, <1>15, <1>16, <1>17 DEF Next, Step, Sweep

\* A throttled agent is only given the seconds since its throttle began.
LEMMA AgentStep ==
    ASSUME IInv, [Next]_vars
    PROVE  AgentMetered'
<1>1. ASSUME NEW c \in Calls, RaiseIncident(c)
      PROVE  AgentMetered'
  BY <1>1, MeteringConstants DEF IInv, AgentMetered, RaiseIncident, agentVars,
     throttleVars, FRefilled, Acquiring
<1>2. ASSUME NEW c \in Calls, ThrottleAgent(c)
      PROVE  AgentMetered'
  <2>1. who[c] \in Agents
    BY <1>2 DEF IInv, Named, ThrottleAgent
  <2>2. CASE until[who[c]] > clock
    BY <1>2, <2>1, <2>2, MeteringConstants DEF IInv, AgentMetered, Acquiring,
       ThrottleAgent
  <2>3. CASE ~(until[who[c]] > clock)
    <3>1. PICK t \in UnderWay(who[c]) \cup {clock} :
              /\ \A u \in UnderWay(who[c]) \cup {clock} : t <= u
              /\ since' = [since EXCEPT ![who[c]] = t]
      BY <1>2, <2>3 DEF ThrottleAgent
    <3>2. t \in Nat /\ t <= clock
      BY <3>1 DEF IInv, TypeOK, UnderWay
    <3>3. \A d \in Calls : Acquiring(d) /\ who[d] = who[c] => t <= at[d]
      BY <3>1 DEF UnderWay, Acquiring
    <3>4. QED
      BY <1>2, <2>1, <2>3, <3>1, <3>2, <3>3, MeteringConstants DEF IInv, TypeOK,
         AgentMetered, Acquiring, ThrottleAgent
  <2>4. QED
    BY <2>2, <2>3
<1>3. ASSUME NEW c \in Calls, BeginAcquire(c)
      PROVE  AgentMetered'
  BY <1>3, MeteringConstants DEF IInv, TypeOK, Named, AgentMetered, BeginAcquire,
     agentVars, throttleVars, FRefilled, Acquiring
<1>4. ASSUME NEW c \in Calls, TakeAgent(c)
      PROVE  AgentMetered'
  BY <1>4, MeteringConstants DEF IInv, TypeOK, AgentMetered, TakeAgent, throttleVars,
     Refuse, FRefilled, Acquiring
<1>5. ASSUME NEW c \in Calls, TakeForge(c)
      PROVE  AgentMetered'
  <2>1. who[c] \in Agents /\ pc[c] = "forge" /\ at[c] <= clock
    BY <1>5 DEF IInv, Named, ForgeMetered, Acquiring, TakeForge
  <2>2. /\ Refilled(c) \in Int /\ Refilled(c) <= Burst
        /\ until[who[c]] > at[c] =>
               Refilled(c) <= tokens[who[c]] + (at[c] - last[who[c]])
    BY <2>1, RefillBound DEF IInv
  <2>3. CASE DebitAgent(c)
    <3>1. \A a \in Agents : until[a] > clock /\ spent'[a] # 0 =>
              /\ since[a] <= last'[a] /\ last'[a] <= clock
              /\ tokens'[a] + spent'[a] <= Burst + (last'[a] - since[a])
      BY <2>1, <2>2, <2>3, MeteringConstants DEF IInv, TypeOK, AgentMetered, Acquiring,
         DebitAgent
    <3>2. QED
      BY <1>5, <3>1 DEF IInv, TypeOK, AgentMetered, Acquiring, TakeForge, Refuse,
         throttleVars
  <2>4. CASE UNCHANGED <<tokens, last, spent>>
    BY <1>5, <2>4 DEF IInv, TypeOK, AgentMetered, Acquiring, TakeForge, Refuse,
       throttleVars
  <2>5. QED
    BY <1>5, <2>3, <2>4 DEF TakeForge
<1>6. ASSUME NEW c \in Calls, WriteCall(c)
      PROVE  AgentMetered'
  BY <1>6, MeteringConstants DEF IInv, AgentMetered, WriteCall, agentVars, throttleVars,
     FRefilled, Acquiring
<1>7. ASSUME NEW c \in Calls, PoolTimeout(c)
      PROVE  AgentMetered'
  BY <1>7, MeteringConstants DEF IInv, AgentMetered, PoolTimeout, agentVars,
     throttleVars, Refuse, FRefilled, Acquiring
<1>8. ASSUME NEW c \in Calls, Die(c)
      PROVE  AgentMetered'
  BY <1>8, MeteringConstants DEF IInv, AgentMetered, Die, throttleVars, Refuse,
     FRefilled, Acquiring
<1>9. ASSUME NEW c \in Calls, NEW a \in Agents, NEW m \in Modules, Check(c, a, m)
      PROVE  AgentMetered'
  BY <1>9, MeteringConstants DEF IInv, AgentMetered, Check, agentVars, throttleVars,
     FRefilled, Acquiring
<1>10. ASSUME NEW m \in Modules, NEW s \in Matches, EditManifest(m, s)
      PROVE  AgentMetered'
  BY <1>10, MeteringConstants DEF IInv, AgentMetered, EditManifest, callVars, agentVars,
     throttleVars, FRefilled, Acquiring
<1>11. ASSUME NEW m \in Modules, Dispose(m)
      PROVE  AgentMetered'
  BY <1>11, MeteringConstants DEF IInv, AgentMetered, Dispose, callVars, agentVars,
     throttleVars, FRefilled, Acquiring
<1>12. ASSUME StartSweep
      PROVE  AgentMetered'
  BY <1>12, MeteringConstants DEF IInv, AgentMetered, StartSweep, callVars, agentVars,
     throttleVars, FRefilled, Acquiring
<1>13. ASSUME ReadLedger
      PROVE  AgentMetered'
  BY <1>13, MeteringConstants DEF IInv, AgentMetered, ReadLedger, callVars, agentVars,
     throttleVars, FRefilled, Acquiring
<1>14. ASSUME RecordUndeclared
      PROVE  AgentMetered'
  BY <1>14, MeteringConstants DEF IInv, AgentMetered, RecordUndeclared, callVars,
     agentVars, throttleVars, FRefilled, Acquiring
<1>15. ASSUME FinishSweep
      PROVE  AgentMetered'
  BY <1>15, MeteringConstants DEF IInv, AgentMetered, FinishSweep, callVars, agentVars,
     throttleVars, FRefilled, Acquiring
<1>16. ASSUME Tick
      PROVE  AgentMetered'
  BY <1>16, MeteringConstants DEF IInv, TypeOK, Named, AgentMetered, Tick, callVars,
     agentVars, throttleVars, FRefilled, Acquiring
<1>17. CASE UNCHANGED vars
  BY <1>17 DEF IInv, AgentMetered, vars, callVars, agentVars, throttleVars, FRefilled,
     Acquiring
<1>18. QED
  BY <1>1, <1>2, <1>3, <1>4, <1>5, <1>6, <1>7, <1>8, <1>9, <1>10, <1>11, <1>12, <1>13,
     <1>14, <1>15, <1>16, <1>17 DEF Next, Step, Sweep

\* The invariant, of every behaviour.
LEMMA Invariant == Spec => []IInv
<1>1. IInv /\ [Next]_vars => IInv'
  BY TypeStep, NamedStep, LockedStep, ForgeStep, AgentStep DEF IInv
<1>2. QED
  BY <1>1, InitIInv, PTL DEF Spec

\* Every variable keeps its type: no bucket is overdrawn, none overfilled.
THEOREM TypeCorrect == Spec => []TypeOK
<1>1. IInv => TypeOK
  BY DEF IInv
<1>2. QED
  BY <1>1, Invariant, PTL

\* A Forge is sent no more than its burst and its rate allow, however many calls
\* there are and in whatever order they reach its row (broker/limits.py).
THEOREM ForgeCeilingHolds == Spec => []ForgeCeiling
<1>1. ASSUME IInv
      PROVE  ForgeCeiling
  <2>1. /\ FRate \in Nat /\ flast \in Nat /\ clock \in Nat /\ flast <= clock
        /\ ftokens \in Nat /\ fspent \in Nat /\ FBurst \in Nat
    BY <1>1, MeteringConstants DEF IInv, TypeOK, ForgeMetered
  <2>2. FRate * clock - FRate * flast = FRate * (clock - flast)
    BY <2>1
  <2>3. FRate * (clock - flast) \in Nat /\ FRate * clock \in Nat /\ FRate * flast \in Nat
    BY <2>1
  <2>4. QED
    BY <1>1, <2>1, <2>2, <2>3 DEF IInv, ForgeMetered, ForgeCeiling
<1>2. QED
  BY <1>1, Invariant, PTL

\* A throttled agent gets its burst and then the throttled rate, acquisitions that
\* began before the throttle included (broker/limits.py, throttle_agent).
THEOREM ThrottleHolds == Spec => []ThrottleSlows
<1>1. ASSUME IInv
      PROVE  ThrottleSlows
  BY <1>1, MeteringConstants DEF IInv, TypeOK, AgentMetered, ThrottleSlows
<1>2. QED
  BY <1>1, Invariant, PTL

-----------------------------------------------------------------------------
(* The reconciliation.                                                     *)

\* What the sweep owes an answer is used and undeclared; once the ledger is read
\* the sweep has found it, and once that is recorded it has a disposition.
GapFollowed ==
    /\ gap \subseteq InUseUndeclared
    /\ sweep = "record" => gap \subseteq found
    /\ sweep = "look" => \A m \in gap : disposition[m] # "none"

\* Every step keeps it: a module leaves the gap when it is declared, and a
\* disposition is never taken back.
LEMMA GapStep ==
    ASSUME TypeOK, GapFollowed, [Next]_vars
    PROVE  GapFollowed'
<1> USE DEF GapFollowed, InUseUndeclared
<1>1. ASSUME NEW c \in Calls, Step(c) \/ Die(c) \/ \E a \in Agents, m \in Modules : Check(c, a, m)
      PROVE  UNCHANGED <<manifest, gap, sweepVars>> /\ used \subseteq used'
  BY <1>1 DEF Step, RaiseIncident, ThrottleAgent, BeginAcquire, TakeAgent, TakeForge,
     WriteCall, PoolTimeout, Die, Check
<1>2. CASE UNCHANGED <<manifest, gap, sweepVars>> /\ used \subseteq used'
  BY <1>2 DEF sweepVars
<1>3. ASSUME NEW m \in Modules, NEW s \in Matches, EditManifest(m, s)
      PROVE  GapFollowed'
  <2>1. manifest' = [manifest EXCEPT ![m] = s] /\ UNCHANGED <<used, sweepVars>>
          /\ gap' = IF s = UNDECLARED THEN gap ELSE gap \ {m}
    BY <1>3 DEF EditManifest
  <2>2. gap' \subseteq InUseUndeclared'
    BY <2>1 DEF TypeOK
  <2>3. QED
    BY <2>1, <2>2 DEF sweepVars
<1>4. ASSUME NEW m \in Modules, Dispose(m)
      PROVE  GapFollowed'
  BY <1>4 DEF Dispose, TypeOK
<1>5. CASE StartSweep
  BY <1>5 DEF StartSweep
<1>6. CASE ReadLedger
  BY <1>6 DEF ReadLedger
<1>7. CASE RecordUndeclared
  BY <1>7 DEF RecordUndeclared, Recorded, TypeOK
<1>8. CASE FinishSweep
  BY <1>8 DEF FinishSweep
<1>9. CASE Tick \/ UNCHANGED vars
  BY <1>9 DEF Tick, vars, sweepVars
<1>10. QED
  BY <1>1, <1>2, <1>3, <1>4, <1>5, <1>6, <1>7, <1>8, <1>9 DEF Next, Sweep

\* No reconciliation passes over a module that was in use and undeclared before
\* it began and all through it, and that no human has answered for, whatever is
\* called, declared or disposed of meanwhile (broker/sweeps.py).
THEOREM PassMeansDispositionedHolds == Spec => PassMeansDispositioned
<1>1. Init => GapFollowed
  BY DEF Init, GapFollowed
<1>2. TypeOK /\ GapFollowed /\ [Next]_vars => GapFollowed'
  BY GapStep
<1>3. TypeOK /\ GapFollowed =>
          [FinishSweep /\ passed' => \A m \in gap : disposition[m] = "settled"]_vars
  <2>1. ASSUME TypeOK, GapFollowed, FinishSweep, passed', NEW m \in gap
        PROVE  disposition[m] = "settled"
    <3>1. m \in Modules /\ disposition[m] # "none"
      BY <2>1 DEF GapFollowed, TypeOK, FinishSweep
    <3>2. Pending = {}
      BY <2>1 DEF FinishSweep
    <3>3. QED
      BY <2>1, <3>1, <3>2 DEF Pending, TypeOK
  <2>2. QED
    BY <2>1
<1>4. QED
  BY <1>1, <1>2, <1>3, TypeCorrect, PTL DEF Spec, PassMeansDispositioned
=============================================================================
