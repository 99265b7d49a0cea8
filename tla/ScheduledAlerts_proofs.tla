------------------------ MODULE ScheduledAlerts_proofs ------------------------
(***************************************************************************)
(* Theorems about the evaluation under its lock for every set of workers,   *)
(* machines, rules and hosts, from those about its two parts: a step of the *)
(* composition is a step of DistributedLock or leaves it alone, and a step  *)
(* that evaluators, operators, agents or time may take when no lock lets an *)
(* evaluation begin (FreeNext), or leaves the engine alone.                 *)
(***************************************************************************)
EXTENDS ScheduledAlerts, AlertEngine_proofs

LP == INSTANCE DistributedLock_proofs
          WITH Proc <- Evaluator, Host <- Machine, HostOf <- MachineOf,
               Faulty <- LockFails, pc <- lockPc

\* An evaluation is under way only where the lock runs the job.
Linked == \A e \in Evaluator : pc[e] # "idle" => lockPc[e] = "running"

\* Every run is under a lock of its own.
RunsCovered == \A e \in LP!Running : LP!Covered(e)

SchedInv == BaseInv /\ LP!LockInv /\ Linked

-----------------------------------------------------------------------------
\* The lock of ScheduledAlerts is the one DistributedLock_proofs speaks of.
LEMMA SameHolders ==
    /\ Lock!Running = LP!Running
    /\ \A e \in Evaluator : Lock!HoldsKey(e) <=> LP!HoldsKey(e)
    /\ \A e \in Evaluator : Lock!HoldsFile(e) <=> LP!HoldsFile(e)
BY DEF Lock!Running, LP!Running, Lock!HoldsKey, LP!HoldsKey, Lock!HoldsFile, LP!HoldsFile

LEMMA SameEnter == ASSUME NEW e \in Evaluator, Lock!Enter(e) PROVE LP!Enter(e)
<1>1. Lock!Fire(e) => LP!Fire(e)
  BY DEF Lock!Fire, LP!Fire, Lock!FreshToken, LP!FreshToken
<1>2. Lock!FireWithoutToken(e) => LP!FireWithoutToken(e)
  BY DEF Lock!FireWithoutToken, LP!FireWithoutToken
<1>3. Lock!SetKey(e) => LP!SetKey(e)
  BY DEF Lock!SetKey, LP!SetKey
<1>4. Lock!KeyHeld(e) => LP!KeyHeld(e)
  BY DEF Lock!KeyHeld, LP!KeyHeld
<1>5. Lock!SetFails(e) => LP!SetFails(e)
  BY DEF Lock!SetFails, LP!SetFails
<1>6. Lock!TakeFile(e) => LP!TakeFile(e)
  BY DEF Lock!TakeFile, LP!TakeFile
<1>7. Lock!Skip(e) => LP!Skip(e)
  BY DEF Lock!Skip, LP!Skip
<1>8. QED
  BY <1>1, <1>2, <1>3, <1>4, <1>5, <1>6, <1>7 DEF Lock!Enter, LP!Enter

LEMMA SameExit ==
    ASSUME NEW e \in Evaluator,
           Lock!Finish(e) \/ Lock!ReleaseKey(e) \/ Lock!ReleaseFails(e) \/ Lock!Unlock(e)
    PROVE  LP!Exit(e)
<1>1. Lock!Finish(e) => LP!Finish(e)
  BY DEF Lock!Finish, LP!Finish
<1>2. Lock!ReleaseKey(e) => LP!ReleaseKey(e)
  BY SameHolders DEF Lock!ReleaseKey, LP!ReleaseKey
<1>3. Lock!ReleaseFails(e) => LP!ReleaseFails(e)
  BY DEF Lock!ReleaseFails, LP!ReleaseFails
<1>4. Lock!Unlock(e) => LP!Unlock(e)
  BY SameHolders DEF Lock!Unlock, LP!Unlock
<1>5. QED
  BY <1>1, <1>2, <1>3, <1>4 DEF LP!Exit

LEMMA SameFailures ==
    ASSUME NEW e \in Evaluator
    PROVE  (Lock!Crash(e) => LP!Crash(e)) /\ (Lock!Restart(e) => LP!Restart(e))
<1>1. Lock!Crash(e) => LP!Crash(e)
  BY SameHolders DEF Lock!Crash, LP!Crash
<1>2. Lock!Restart(e) => LP!Restart(e)
  BY DEF Lock!Restart, LP!Restart
<1>3. QED
  BY <1>1, <1>2

LEMMA SameTimers == (Lock!Tick => LP!Tick) /\ (Lock!RedisForgets => LP!RedisForgets)
BY DEF Lock!Tick, LP!Tick, Lock!RedisForgets, LP!RedisForgets

-----------------------------------------------------------------------------
\* What a step is to the lock.
LEMMA LockStep == [ScheduledNext]_allVars => KeyEnds \/ [LP!ProcessStep]_LP!vars
<1>. SUFFICES ASSUME [ScheduledNext]_allVars, ~KeyEnds PROVE [LP!ProcessStep]_LP!vars
  OBVIOUS
<1>. USE DEF LP!ProcessStep
<1>1. ASSUME NEW e \in Evaluator, Enter(e) PROVE LP!ProcessStep
  BY <1>1, SameEnter DEF Enter
<1>2. ASSUME NEW e \in Evaluator, Start(e) \/ Proceed(e) PROVE UNCHANGED LP!vars
  BY <1>2 DEF Start, Proceed, lockVars, LP!vars
<1>3. ASSUME NEW e \in Evaluator, Finish(e) \/ FinishAtOnce(e) \/ Exit(e)
      PROVE  LP!ProcessStep
  BY <1>3, SameExit DEF Finish, FinishAtOnce, Exit
<1>4. ASSUME NEW e \in Evaluator, Crash(e) \/ Restart(e) PROVE LP!ProcessStep
  BY <1>4, SameFailures DEF Crash, Restart
<1>5. CASE Environment \/ UNCHANGED allVars
  BY <1>5 DEF Environment, allVars, lockVars, LP!vars
<1>6. QED
  BY <1>1, <1>2, <1>3, <1>4, <1>5 DEF ScheduledNext, Run

LEMMA LockStepIsNext == [ScheduledNext]_allVars => [LP!Next]_LP!vars
<1>1. KeyEnds => LP!Tick \/ LP!RedisForgets
  BY SameTimers DEF KeyEnds
<1>2. QED
  BY <1>1, LockStep DEF LP!Next, LP!ProcessStep

\* What a step is to the engine.
LEMMA EngineStep == [ScheduledNext]_allVars => [FreeNext]_vars
<1>. SUFFICES ASSUME [ScheduledNext]_allVars PROVE [FreeNext]_vars
  OBVIOUS
<1>1. ASSUME NEW e \in Evaluator, Enter(e) \/ Exit(e) \/ FinishAtOnce(e) \/ Restart(e)
      PROVE  UNCHANGED vars
  BY <1>1 DEF Enter, Exit, FinishAtOnce, Restart
<1>2. ASSUME NEW e \in Evaluator, Start(e) \/ Proceed(e) \/ Finish(e) PROVE Turn(e)
  BY <1>2 DEF Start, Proceed, Finish, Turn, Evaluate
<1>3. ASSUME NEW e \in Evaluator, Crash(e) PROVE Turn(e) \/ UNCHANGED vars
  BY <1>3 DEF Crash, Turn
<1>4. CASE KeyEnds \/ Environment \/ UNCHANGED allVars
  BY <1>4 DEF KeyEnds, Environment, allVars, FreeNext
<1>5. QED
  BY <1>1, <1>2, <1>3, <1>4 DEF ScheduledNext, Run, FreeNext

-----------------------------------------------------------------------------
\* A step of e keeps Linked when it moves nobody else and e is not in an evaluation
\* that the lock does not run.
LEMMA LinkedStep ==
    ASSUME Linked, NEW e \in Evaluator,
           \A x \in Evaluator \ {e} : pc'[x] = pc[x] /\ lockPc'[x] = lockPc[x],
           pc'[e] # "idle" => lockPc'[e] = "running"
    PROVE  Linked'
BY DEF Linked

\* An evaluation returns, raises or dies.
Ends(e) == Return(e) \/ InsertFails(e) \/ NotificationFails(e) \/ Abort(e)

\* Where a step of the engine leaves the program counters.
LEMMA TurnMoves ==
    ASSUME TypeOK, NEW e \in Evaluator,
           BeginEvaluation(e) \/ Proceed(e) \/ Ends(e)
    PROVE  /\ \A x \in Evaluator \ {e} : pc'[x] = pc[x]
           /\ pc[e] = "idle" => BeginEvaluation(e)
           /\ Ends(e) => pc'[e] = "idle"
<1>. USE DEF GoTo, Leave, TypeOK
<1>1. CASE BeginEvaluation(e) \/ ReadMetrics(e) \/ CheckCooldown(e)
  BY <1>1 DEF BeginEvaluation, ReadMetrics, CheckCooldown, Ends, Return, InsertFails,
              NotificationFails, Abort, EndsSilently
<1>2. CASE Check(e)
  BY <1>2 DEF Check, Ends, Return, InsertFails, NotificationFails, Abort, EndsSilently
<1>3. CASE FindExisting(e) \/ UpdateAlert(e) \/ InsertAlert(e)
  BY <1>3 DEF FindExisting, UpdateAlert, InsertAlert, Ends, Return, InsertFails,
              NotificationFails, Abort, EndsSilently
<1>4. CASE InsertEvent(e)
  BY <1>4 DEF InsertEvent, Ends, Return, InsertFails, NotificationFails, Abort, EndsSilently
<1>5. CASE Ends(e)
  BY <1>5 DEF Ends, Return, InsertFails, NotificationFails, Abort, EndsSilently
<1>6. CASE InsertNotification(e) /\ ~Ends(e)
  BY <1>6 DEF InsertNotification
<1>7. QED
  BY <1>1, <1>2, <1>3, <1>4, <1>5, <1>6 DEF Proceed

\* Where a step of the lock does.
LEMMA LockMoves ==
    ASSUME LP!TypeOK, NEW e \in Evaluator,
           LP!Enter(e) \/ LP!Exit(e) \/ LP!Crash(e) \/ LP!Restart(e)
    PROVE  /\ \A x \in Evaluator \ {e} : lockPc'[x] = lockPc[x]
           /\ lockPc[e] = "running" => LP!Finish(e) \/ LP!Crash(e)
<1>. USE DEF LP!TypeOK
<1>1. CASE LP!Enter(e)
  <2>1. \E l : lockPc' = [lockPc EXCEPT ![e] = l]
    BY <1>1 DEF LP!Enter, LP!Fire, LP!FireWithoutToken, LP!SetKey, LP!KeyHeld,
                LP!SetFails, LP!TakeFile, LP!Skip
  <2>2. lockPc[e] # "running"
    BY <1>1 DEF LP!Enter, LP!Fire, LP!FireWithoutToken, LP!SetKey, LP!KeyHeld,
                LP!SetFails, LP!TakeFile, LP!Skip
  <2>3. QED
    BY <2>1, <2>2
<1>2. CASE LP!Exit(e)
  <2>1. \E l : lockPc' = [lockPc EXCEPT ![e] = l]
    BY <1>2 DEF LP!Exit, LP!Finish, LP!ReleaseKey, LP!ReleaseFails, LP!Unlock
  <2>2. LP!Finish(e) \/ lockPc[e] # "running"
    BY <1>2 DEF LP!Exit, LP!ReleaseKey, LP!ReleaseFails, LP!Unlock
  <2>3. QED
    BY <2>1, <2>2
<1>3. CASE LP!Crash(e)
  BY <1>3 DEF LP!Crash
<1>4. CASE LP!Restart(e)
  BY <1>4 DEF LP!Restart
<1>5. QED
  BY <1>1, <1>2, <1>3, <1>4

LEMMA StepLinked ==
    ASSUME SchedInv, [ScheduledNext]_allVars
    PROVE  Linked'
<1>. USE DEF SchedInv, BaseInv, LP!LockInv
<1>1. ASSUME NEW e \in Evaluator, Enter(e) PROVE Linked'
  <2>1. LP!Enter(e) /\ UNCHANGED pc
    BY <1>1, SameEnter DEF Enter, vars
  <2>2. lockPc[e] # "running"
    BY <2>1 DEF LP!Enter, LP!Fire, LP!FireWithoutToken, LP!SetKey, LP!KeyHeld,
                LP!SetFails, LP!TakeFile, LP!Skip
  <2>3. pc'[e] = "idle"
    BY <2>1, <2>2 DEF Linked
  <2>4. QED
    BY <2>1, <2>3, LockMoves, LinkedStep
<1>2. ASSUME NEW e \in Evaluator, Exit(e) PROVE Linked'
  <2>1. LP!Exit(e) /\ UNCHANGED pc
    BY <1>2, SameExit DEF Exit, vars
  <2>2. lockPc[e] # "running"
    BY <1>2 DEF Exit, Lock!ReleaseKey, Lock!ReleaseFails, Lock!Unlock
  <2>3. pc'[e] = "idle"
    BY <2>1, <2>2 DEF Linked
  <2>4. QED
    BY <2>1, <2>3, LockMoves, LinkedStep
<1>3. ASSUME NEW e \in Evaluator, Start(e) \/ Proceed(e) PROVE Linked'
  <2>1. BeginEvaluation(e) \/ Proceed(e)
    BY <1>3 DEF Start
  <2>2. UNCHANGED lockPc
    BY <1>3 DEF Start, Proceed, lockVars
  <2>3. lockPc[e] = "running"
    <3>1. CASE Start(e)
      BY <3>1 DEF Start
    <3>2. CASE ~Start(e)
      <4>1. pc[e] # "idle"
        BY <1>3, <3>2 DEF Proceed, ReadMetrics, Check, CheckCooldown, FindExisting,
                          UpdateAlert, InsertAlert, InsertEvent, InsertNotification
      <4>2. QED
        BY <4>1 DEF Linked
    <3>3. QED
      BY <3>1, <3>2
  <2>4. QED
    BY <2>1, <2>2, <2>3, TurnMoves, LinkedStep
<1>4. ASSUME NEW e \in Evaluator, Finish(e) PROVE Linked'
  <2>1. LP!Exit(e)
    BY <1>4, SameExit DEF Finish
  <2>2. Ends(e)
    BY <1>4 DEF Finish, Ends
  <2>3. QED
    BY <2>1, <2>2, TurnMoves, LockMoves, LinkedStep
<1>5. ASSUME NEW e \in Evaluator, FinishAtOnce(e) PROVE Linked'
  <2>1. LP!Exit(e) /\ UNCHANGED pc /\ pc[e] = "idle"
    BY <1>5, SameExit DEF FinishAtOnce, vars
  <2>2. QED
    BY <2>1, LockMoves, LinkedStep
<1>6. ASSUME NEW e \in Evaluator, Crash(e) PROVE Linked'
  <2>1. LP!Crash(e)
    BY <1>6, SameFailures DEF Crash
  <2>2. pc'[e] = "idle" /\ \A x \in Evaluator \ {e} : pc'[x] = pc[x]
    BY <1>6, TurnMoves DEF Crash, Ends, vars
  <2>3. QED
    BY <2>1, <2>2, LockMoves, LinkedStep
<1>7. ASSUME NEW e \in Evaluator, Restart(e) PROVE Linked'
  <2>1. LP!Restart(e) /\ UNCHANGED pc
    BY <1>7, SameFailures DEF Restart, vars
  <2>2. pc'[e] = "idle"
    BY <2>1 DEF LP!Restart, Linked
  <2>3. QED
    BY <2>1, <2>2, LockMoves, LinkedStep
<1>8. CASE KeyEnds
  BY <1>8 DEF KeyEnds, Lock!Tick, Lock!RedisForgets, vars, Linked
<1>9. CASE Environment
  <2>1. UNCHANGED <<pc, lockPc>>
    BY <1>9
    DEF Environment, lockVars, Operate, Acknowledge, Resolve, SetAlertStatus,
        CreateRule, EnableRule, DisableRule, DeleteRule, SetRule, Observe, Report,
        SetStatus, Tick, locals
  <2>2. QED
    BY <2>1 DEF Linked
<1>10. CASE UNCHANGED allVars
  BY <1>10 DEF allVars, vars, lockVars, Linked
<1>11. QED
  BY <1>1, <1>2, <1>3, <1>4, <1>5, <1>6, <1>7, <1>8, <1>9, <1>10
  DEF ScheduledNext, Run

LEMMA ScheduledInitInv == ScheduledInit => SchedInv
<1>1. Lock!Init => LP!LockInv
  <2>1. Lock!Init => LP!Init
    BY DEF Lock!Init, LP!Init
  <2>2. QED
    BY <2>1, LP!InitInv, ScheduleAssumption, AlertAssumption
<1>2. QED
  BY <1>1, InitBase DEF ScheduledInit, SchedInv, Init, Linked

LEMMA ScheduledStepInv == SchedInv /\ [ScheduledNext]_allVars => SchedInv'
<1>1. LP!LockInv /\ [LP!Next]_LP!vars => LP!LockInv'
  BY LP!StepInv, ScheduleAssumption, AlertAssumption
<1>2. QED
  BY <1>1, LockStepIsNext, EngineStep, StepBase, StepLinked DEF SchedInv

LEMMA ScheduledInvariance == ScheduledSpec => []SchedInv
BY ScheduledInitInv, ScheduledStepInv, PTL DEF ScheduledSpec

\* Every variable of the two parts keeps its type.
THEOREM ScheduledTypes == ScheduledSpec => [](TypeOK /\ Lock!TypeOK)
<1>1. LP!TypeOK <=> Lock!TypeOK
  BY DEF LP!TypeOK, Lock!TypeOK, LP!PC, Lock!PC
<1>2. SchedInv => TypeOK /\ Lock!TypeOK
  BY <1>1 DEF SchedInv, BaseInv, LP!LockInv
<1>3. QED
  BY <1>2, ScheduledInvariance, PTL

-----------------------------------------------------------------------------
\* While keys last, every run keeps a lock of its own: nobody takes it away, and
\* neither does Redis.
LEMMA StepRunsCovered ==
    ASSUME KeysLast, SchedInv, RunsCovered, [ScheduledNext]_allVars
    PROVE  RunsCovered'
<1>. SUFFICES ASSUME NEW e \in Evaluator, e \in LP!Running' PROVE LP!Covered(e)'
  BY DEF RunsCovered, LP!Running
<1>1. CASE KeyEnds
  <2>1. UNCHANGED <<lockPc, token, flock>>
    BY <1>1 DEF KeyEnds, Lock!Tick, Lock!RedisForgets
  <2>2. e \in LP!Running /\ LP!Covered(e)
    BY <2>1 DEF LP!Running, RunsCovered
  <2>3. CASE LP!HoldsFile(e)
    BY <2>1, <2>3 DEF LP!Covered, LP!HoldsFile
  <2>4. CASE LP!HoldsKey(e)
    <3>1. key' # None
      BY <1>1, <2>2, <2>4, SameHolders DEF KeyEnds
    <3>2. key' = key
      BY <1>1, <3>1 DEF KeyEnds, Lock!Tick, Lock!RedisForgets
    <3>3. QED
      BY <2>1, <2>4, <3>2 DEF LP!Covered, LP!HoldsKey
  <2>5. QED
    BY <2>2, <2>3, <2>4 DEF LP!Covered
<1>2. CASE ~KeyEnds
  <2>1. [LP!ProcessStep]_LP!vars
    BY <1>2, LockStep
  <2>2. e \in LP!Running => LP!Covered(e)
    BY DEF RunsCovered
  <2>3. QED
    BY <2>1, <2>2, LP!StepCovered, ScheduleAssumption, AlertAssumption DEF SchedInv
<1>3. QED
  BY <1>1, <1>2

\* Without Redis there is no key to lose: the runs hold files.
LEMMA RunsHoldFiles ==
    ASSUME ~HasRedis, SchedInv, NEW e \in LP!Running
    PROVE  LP!HoldsFile(e)
BY LP!RunnersHoldFile, ScheduleAssumption, AlertAssumption DEF SchedInv

LEMMA RunsCoveredInvariance ==
    ASSUME KeysLast \/ ~HasRedis PROVE ScheduledSpec => []RunsCovered
<1>1. CASE ~HasRedis
  <2>1. SchedInv => RunsCovered
    BY <1>1, RunsHoldFiles DEF RunsCovered, LP!Covered
  <2>2. QED
    BY <2>1, ScheduledInvariance, PTL
<1>2. CASE KeysLast
  <2>1. ScheduledInit => RunsCovered
    BY DEF ScheduledInit, Lock!Init, RunsCovered, LP!Running
  <2>2. SchedInv /\ RunsCovered /\ [ScheduledNext]_allVars => RunsCovered'
    BY <1>2, StepRunsCovered
  <2>3. QED
    BY <2>1, <2>2, ScheduledInvariance, PTL DEF ScheduledSpec
<1>3. QED
  BY <1>1, <1>2

\* Sets are counted alike in both.
LEMMA SameFinite == ASSUME NEW S PROVE LP!IsFiniteSet(S) <=> IsFiniteSet(S)
BY DEF LP!IsFiniteSet, IsFiniteSet

LEMMA SameCardinality == ASSUME NEW S PROVE LP!Cardinality(S) = Cardinality(S)
BY DEF LP!Cardinality, Cardinality

\* So the evaluations under way are no more than the locks.
LEMMA FewRuns == SchedInv /\ RunsCovered => RunsPerLock
<1>. SUFFICES ASSUME SchedInv, RunsCovered PROVE RunsPerLock
  OBVIOUS
<1>. DEFINE S == {e \in Evaluator : pc[e] # "idle"}
<1>1. S \in SUBSET Evaluator /\ \A e \in S : LP!Covered(e)
  BY DEF SchedInv, Linked, RunsCovered, LP!Running
<1>2. LP!IsFiniteSet(Machine)
  BY SameFinite, ScheduleAssumption
<1>3. LP!Cardinality(S) <= LP!Cardinality(Machine) + (IF HasRedis THEN 1 ELSE 0)
  <2>. HIDE DEF S
  <2>1. QED
    BY <1>1, <1>2, LP!CoveredAreFew, ScheduleAssumption, AlertAssumption DEF SchedInv
<1>4. LP!Cardinality(S) = Cardinality(S) /\ LP!Cardinality(Machine) = Cardinality(Machine)
  BY SameCardinality
<1>5. QED
  BY <1>3, <1>4 DEF RunsPerLock, Locks

\* However many workers run the scheduler, and however they and Redis fail, no more
\* evaluations are under way than there are machines and, with Redis, one: while no
\* evaluation outlasts its key (scheduler.py:59-108, 111-123).
THEOREM RunsAreFew ==
    ASSUME KeysLast \/ ~HasRedis PROVE ScheduledSpec => []RunsPerLock
BY FewRuns, ScheduledInvariance, RunsCoveredInvariance, PTL

-----------------------------------------------------------------------------
\* The OPEN alerts of a rule and host, and the evaluators that will insert one more.
PairsBounded ==
    \A r \in Rule, h \in Host : Bounded(OpenAlerts(r, h), Inserting(r, h), Locks)

LEMMA LocksAre == Locks \in Nat
BY ScheduleAssumption, FS_CardinalityType DEF Locks

LEMMA StepPairs ==
    ASSUME SchedInv, RunsPerLock', PairsBounded, [ScheduledNext]_allVars
    PROVE  PairsBounded'
<1>. SUFFICES ASSUME NEW r \in Rule, NEW h \in Host
              PROVE  Bounded(OpenAlerts(r, h)', Inserting(r, h)', Locks)
  BY DEF PairsBounded, Bounded
<1>. DEFINE S == {e \in Evaluator : pc'[e] # "idle"}
<1>1. Inserting(r, h)' \subseteq S /\ S \in SUBSET Evaluator /\ Cardinality(S) <= Locks
  BY DEF Inserting, RunsPerLock
<1>2. Cardinality(Inserting(r, h)') <= Locks
  <2>. HIDE DEF S
  <2>1. IsFiniteSet(S) /\ Cardinality(S) \in Nat
    BY <1>1, EvaluatorsAre
  <2>2. /\ IsFiniteSet(Inserting(r, h)')
        /\ Cardinality(Inserting(r, h)') <= Cardinality(S)
    BY <1>1, <2>1, FS_Subset
  <2>3. Cardinality(Inserting(r, h)') \in Nat
    BY <2>2, FS_CardinalityType
  <2>4. QED
    BY <1>1, <2>1, <2>2, <2>3, LocksAre
<1>3. [FreeNext]_vars
  BY EngineStep
<1>4. Bounded(OpenAlerts(r, h), Inserting(r, h), Locks)
  BY DEF PairsBounded
<1>5. QED
  BY <1>2, <1>3, <1>4, LocksAre, StepBounded DEF SchedInv

LEMMA InitPairs == ScheduledInit => PairsBounded
<1>. SUFFICES ASSUME ScheduledInit, NEW r \in Rule, NEW h \in Host
              PROVE  Bounded(OpenAlerts(r, h), Inserting(r, h), Locks)
  BY DEF PairsBounded
<1>1. OpenAlerts(r, h) = {} /\ Inserting(r, h) = {}
  BY DEF ScheduledInit, Init, OpenAlerts, Ids, Inserting
<1>2. Cardinality({}) = 0
  BY FS_EmptySet
<1>3. QED
  BY <1>1, <1>2, LocksAre DEF Bounded

\* So a standing condition is at most that many OPEN alerts, whatever the number of
\* workers: nothing but the lock stands between the SELECT and the INSERT of two of
\* them (scheduler.py:59-84, alert_engine.py:137-148).
THEOREM OpenAlertsAreFew ==
    ASSUME KeysLast \/ ~HasRedis PROVE ScheduledSpec => []OpenAlertsPerLock
<1>1. ScheduledSpec => []PairsBounded
  BY InitPairs, StepPairs, ScheduledInvariance, RunsAreFew, PTL DEF ScheduledSpec
<1>2. SchedInv /\ PairsBounded => OpenAlertsPerLock
  <2>. SUFFICES ASSUME SchedInv, PairsBounded, NEW r \in Rule, NEW h \in Host
                PROVE  Cardinality(OpenAlerts(r, h)) <= Locks
    BY DEF OpenAlertsPerLock
  <2>1. Cardinality(OpenAlerts(r, h)) \in Nat
    BY OpenAlertsAre DEF SchedInv, BaseInv
  <2>2. Inserting(r, h) \in SUBSET Evaluator
    BY DEF Inserting
  <2>3. Cardinality(Inserting(r, h)) \in Nat
    BY <2>2, EvaluatorsAre
  <2>4. QED
    BY <2>1, <2>3, LocksAre DEF PairsBounded, Bounded
<1>3. QED
  BY <1>1, <1>2, ScheduledInvariance, PTL

-----------------------------------------------------------------------------
\* Where the file lock is all there is, and all workers are on one machine, the
\* composition is the engine with its evaluations one at a time: the lock implements
\* what AlertEngine assumes of it with Overlap FALSE, crashes, skips and restarts
\* included (scheduler.py:72-84, 111-123).
THEOREM FileLockImplementsEngine ==
    ASSUME ~HasRedis, \A m, n \in Machine : m = n
    PROVE  ScheduledSpec => ImplementsEngine
<1>1. ScheduledInit => Init
  BY DEF ScheduledInit
<1>2. SchedInv /\ [ScheduledNext]_allVars => [Next]_vars
  <2>. SUFFICES ASSUME SchedInv, [ScheduledNext]_allVars PROVE [Next]_vars
    OBVIOUS
  <2>1. ASSUME NEW e \in Evaluator, Start(e) PROVE ReadRules(e)
    <3>1. e \in LP!Running /\ pc[e] = "idle"
      BY <2>1 DEF Start, BeginEvaluation, LP!Running
    <3>2. ASSUME NEW x \in Evaluator, pc[x] # "idle" PROVE FALSE
      <4>1. x \in LP!Running
        BY <3>2 DEF SchedInv, Linked, LP!Running
      <4>2. flock[MachineOf[x]] = x /\ flock[MachineOf[e]] = e
        BY <3>1, <4>1, RunsHoldFiles DEF LP!HoldsFile
      <4>3. MachineOf[x] = MachineOf[e]
        BY ScheduleAssumption
      <4>4. QED
        BY <3>1, <3>2, <4>2, <4>3
    <3>3. QED
      BY <2>1, <3>2 DEF Start, ReadRules
  <2>2. ASSUME NEW e \in Evaluator, Proceed(e) \/ Finish(e) PROVE Evaluate(e) \/ Abort(e)
    BY <2>2 DEF Proceed, Finish, Evaluate
  <2>3. ASSUME NEW e \in Evaluator, Crash(e) PROVE Abort(e) \/ UNCHANGED vars
    BY <2>3 DEF Crash
  <2>4. ASSUME NEW e \in Evaluator, Enter(e) \/ Exit(e) \/ FinishAtOnce(e) \/ Restart(e)
        PROVE  UNCHANGED vars
    BY <2>4 DEF Enter, Exit, FinishAtOnce, Restart
  <2>5. CASE KeyEnds \/ Environment \/ UNCHANGED allVars
    BY <2>5 DEF KeyEnds, Environment, allVars, Next
  <2>6. ASSUME NEW e \in Evaluator, Run(e) PROVE [Next]_vars
    BY <2>1, <2>2, <2>4, <2>6 DEF Run, Next, Evaluate
  <2>7. QED
    BY <2>3, <2>4, <2>5, <2>6 DEF ScheduledNext, Next
<1>3. QED
  BY <1>1, <1>2, ScheduledInvariance, PTL DEF ScheduledSpec, ImplementsEngine, Spec

\* There, what is proved of a lone evaluation holds whatever the number of workers:
\* one OPEN alert per rule and host, and triggers a cooldown apart.
THEOREM AloneUnderFileLock ==
    ASSUME ~HasRedis, \A m, n \in Machine : m = n, ~Overlap
    PROVE  ScheduledSpec => []OneOpenAlert /\ CooldownRespected
BY FileLockImplementsEngine, OneOpenAlertPerPair, TriggersAreCooldownApart, PTL
DEF ImplementsEngine
=============================================================================
