-------------------------- MODULE MCScheduledAlerts --------------------------
(* Instances of ScheduledAlerts for TLC: the workers of one container and a rule
   cut down from the seeded ones (schema.sql:574-578). *)
EXTENDS ScheduledAlerts, TLC

CONSTANTS e1, e2, e3, h1, r1, m1, t1, t2, t3

R(metric, op, threshold, duration, cooldown) ==
    r1 :> [hostname |-> AnyHost, metric |-> metric, operator |-> op,
           threshold |-> threshold, duration |-> duration, cooldown |-> cooldown]

\* On the status, in the likeness of "Host Unreachable" but with duration 1, and
\* without a cooldown.
StatusNow == R("status", "=", 0, 1, 0)

\* A condition that has to stand over two rows.
TwoRows == R("column", ">=", 1, 2, 1)

OneMachine == [e \in Evaluator |-> m1]

Alike == Permutations(Evaluator) \cup Permutations(Token)

\* What the locks and the OPEN alerts depend on: no action looks at which alerts
\* have a notification.
WithoutNotifications ==
    <<rules, rows, status, alerts, pc, work, cur, target, lockVars>>
=============================================================================
