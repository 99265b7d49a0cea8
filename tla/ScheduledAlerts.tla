--------------------------- MODULE ScheduledAlerts ---------------------------
(***************************************************************************)
(* The alert evaluation as the scheduler runs it: evaluate_alert_rules       *)
(* wrapped in with_lock("alert_evaluation") in every worker process          *)
(* (scheduler.py:111-123, 146-153, 203-205).  An evaluator of AlertEngine is *)
(* a process of DistributedLock, and what the constant Overlap of            *)
(* AlertEngine leaves open, which evaluations meet, is here the lock's doing. *)
(* Overlap does not occur in ScheduledSpec.                                  *)
(*                                                                         *)
(* The job's call is the body of the with block: the lock is running exactly *)
(* while it lasts, and its return or exception is the beginning of __exit__. *)
(* The clocks of alerts and of keys tick apart, so that an evaluation may    *)
(* take any time of either.                                                 *)
(***************************************************************************)
EXTENDS AlertEngine

CONSTANTS
    Machine, MachineOf, \* the machine of each worker process
    Token, Timeout,     \* of the lock
    LockFails,          \* may Redis fail and workers die (within an evaluation
                        \* if it may also raise, Faulty)
    HasRedis,           \* was the redis package importable
    KeysLast            \* does no evaluation outlast its lock_timeout, nor Redis
                        \* lose a key in use

VARIABLES
    lockPc,                     \* where each process is in the lock
    token, client, key, ttl, flock

Lock == INSTANCE DistributedLock
            WITH Proc <- Evaluator, Host <- Machine, HostOf <- MachineOf,
                 Faulty <- LockFails, pc <- lockPc

lockVars == <<lockPc, token, client, key, ttl, flock>>
allVars == <<vars, lockVars>>

\* LockAssumption of this instance, and finitely many lock files.
ASSUME ScheduleAssumption ==
    /\ MachineOf \in [Evaluator -> Machine] /\ IsFiniteSet(Machine)
    /\ Timeout \in Nat \ {0}
    /\ LockFails \in BOOLEAN /\ HasRedis \in BOOLEAN /\ KeysLast \in BOOLEAN
    /\ None \notin Evaluator \cup Token

ScheduledInit == Init /\ Lock!Init

-----------------------------------------------------------------------------
\* A faulty variant of the action below: the wrapper hands the call to a thread of
\* its own and does not wait for it.
StartDetached(e) ==
    /\ lockPc[e] = "running"
    /\ BeginEvaluation(e)
    /\ Lock!Finish(e)

-----------------------------------------------------------------------------
\* Around the job: its trigger fires, the lock is taken or the run skipped, and
\* after the job the lock is left.
Enter(e) == Lock!Enter(e) /\ UNCHANGED vars

Exit(e) == (Lock!ReleaseKey(e) \/ Lock!ReleaseFails(e) \/ Lock!Unlock(e)) /\ UNCHANGED vars

\* "return fn(*args, **kwargs)" within the with block.
Start(e) ==
    /\ lockPc[e] = "running"
    /\ BeginEvaluation(e)
    /\ UNCHANGED lockVars

\* The statements of an evaluation that goes on; none looks at the lock.
Proceed(e) ==
    /\ \/ ReadMetrics(e) \/ Check(e) \/ CheckCooldown(e) \/ FindExisting(e)
       \/ UpdateAlert(e) \/ InsertAlert(e) \/ InsertEvent(e) \/ InsertNotification(e)
    /\ UNCHANGED lockVars

\* The evaluation returns or raises, and __exit__ begins.
Finish(e) ==
    (Return(e) \/ InsertFails(e) \/ NotificationFails(e) \/ Abort(e)) /\ Lock!Finish(e)

\* So it does when no rule is enabled or the very first SELECT raises.
FinishAtOnce(e) ==
    /\ lockPc[e] = "running" /\ pc[e] = "idle"
    /\ Faulty \/ \A r \in Rule : rules[r] # "enabled"
    /\ Lock!Finish(e)
    /\ UNCHANGED vars

\* The worker dies, and its evaluation if one is under way; it is replaced.
Crash(e) == Lock!Crash(e) /\ (Abort(e) \/ (pc[e] = "idle" /\ UNCHANGED vars))

Restart(e) == Lock!Restart(e) /\ UNCHANGED vars

\* A key expires or is lost: in use, only if keys do not last.
KeyEnds ==
    /\ Lock!Tick \/ Lock!RedisForgets
    /\ KeysLast /\ key' = None => \A e \in Lock!Running : ~Lock!HoldsKey(e)
    /\ UNCHANGED vars

Environment == (Operate \/ Observe \/ Tick) /\ UNCHANGED lockVars

Run(e) == Start(e) \/ Proceed(e) \/ Finish(e) \/ FinishAtOnce(e)

ScheduledNext ==
    \/ \E e \in Evaluator : Enter(e) \/ Run(e) \/ Exit(e) \/ Crash(e) \/ Restart(e)
    \/ KeyEnds \/ Environment

ScheduledSpec == ScheduledInit /\ [][ScheduledNext]_allVars

\* As in the two modules: triggers fire, threads are scheduled, time passes.
ScheduledFairSpec ==
    /\ ScheduledSpec
    /\ \A e \in Evaluator : WF_allVars(Enter(e) \/ Run(e) \/ Exit(e) \/ Restart(e))
    /\ WF_allVars(KeyEnds) /\ WF_allVars(Tick /\ UNCHANGED lockVars)

-----------------------------------------------------------------------------
\* What runs may meet in: a lock file per machine, and the Redis key.
Locks == Cardinality(Machine) + (IF HasRedis THEN 1 ELSE 0)

\* The lock does not exclude (a held key sends the next worker to the file,
\* scheduler.py:65-72), but no more evaluations meet than there are locks, however
\* workers and Redis fail, while no evaluation outlasts its key.
RunsPerLock == Cardinality({e \in Evaluator : pc[e] # "idle"}) <= Locks

\* So a standing condition is at most that many OPEN alerts of a rule and host,
\* whatever the number of workers (scheduler.py:59-84, alert_engine.py:137-148).
OpenAlertsPerLock ==
    \A r \in Rule, h \in Host : Cardinality(OpenAlerts(r, h)) <= Locks

\* Nobody dies, and an evaluation ends by its return or at a notification, where
\* as shipped each one does that raises an alert.
Undisturbed ==
    \A e \in Evaluator : ~Crash(e) /\ ~FinishAtOnce(e)
                         /\ (Finish(e) => Return(e) \/ NotificationFails(e))

\* A standing condition is alerted although other workers skip the job, die with a
\* lock, or find Redis gone: once workers stop dying and nothing but the INSERT of a
\* notification raises, there is an OPEN alert for good (scheduler.py:59-108,
\* alert_engine.py:79-148).
ConditionAlertsUnderLock == <>[][Undisturbed]_allVars => StandingConditionAlerts

\* On one machine without the redis package the lock makes the evaluation what
\* AlertEngine is with Overlap FALSE: one at a time, crashes and skips included
\* ("Skipping ... already running on another instance", scheduler.py:72-84, 119-121).
ImplementsEngine == Spec
=============================================================================
