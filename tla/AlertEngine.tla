----------------------------- MODULE AlertEngine -----------------------------
(***************************************************************************)
(* The evaluation of alert rules (src/backend/modules/alert_engine.py) as   *)
(* the scheduler's threads run it, with the API calls that change the same  *)
(* rows (api_alerts.py).  Every database statement autocommits, so each one *)
(* is an action of its own and anything may happen between two of them.     *)
(*                                                                         *)
(* An evaluator is one scheduled invocation of evaluate_alert_rules.        *)
(* Overlap says whether two of them may be under way at once: FALSE is what *)
(* the job's lock is for, TRUE is what it may come to.  ScheduledAlerts puts *)
(* DistributedLock in the place of this constant.                           *)
(***************************************************************************)
EXTENDS Naturals, Sequences, FiniteSets

CONSTANTS
    Evaluator,  \* scheduler threads, one per worker process
    Host,       \* hostnames
    Rule,       \* ids of alert_rules
    RuleOf,     \* the columns of each rule
    AnyHost,    \* the hostname '%'
    Value,      \* the numbers a metric column may hold
    None,       \* NULL, a missing row, Python's None
    Overlap,    \* may evaluations overlap
    Faulty,     \* may a statement raise or a worker die in mid-evaluation
    Window,     \* bound: rows kept per host, no rule looks further back
    MaxAge,     \* bound: ages beyond every cooldown are alike
    MaxClosed   \* bound: operators close at most this many alerts

Compare(v, op, t) ==
    CASE op = ">"  -> v > t
      [] op = "<"  -> v < t
      [] op = ">=" -> v >= t
      [] op = "<=" -> v <= t
      [] op = "="  -> v = t
      [] op = "!=" -> v # t
      [] OTHER     -> FALSE

ASSUME AlertAssumption ==
    /\ RuleOf \in [Rule -> [hostname  : Host \cup {AnyHost},
                            metric    : {"column", "status"},
                            operator  : {">", "<", ">=", "<=", "=", "!="},
                            threshold : Nat,
                            duration  : Nat,
                            cooldown  : Nat]]
    /\ IsFiniteSet(Evaluator) /\ Value \subseteq Nat
    /\ None \notin Rule \cup Value /\ AnyHost \notin Host
    /\ Overlap \in BOOLEAN /\ Faulty \in BOOLEAN
    /\ Window \in Nat \ {0} /\ MaxAge \in Nat /\ MaxClosed \in Nat
    /\ \A r \in Rule : RuleOf[r].duration <= Window /\ RuleOf[r].cooldown <= MaxAge

VARIABLES
    rules,      \* alert_rules: state of each id
    rows,       \* metrics: the newest rows of each host, newest first
    status,     \* hosts.status
    alerts,     \* the alerts table, ids are positions
    notified,   \* ids of alerts with a notification
    silent,     \* history: ids whose evaluation ended before their notification
    pc,         \* where each evaluator is
    work,       \* the (rule, host) pairs its loops still have to visit
    cur,        \* the pair its loops are at
    target      \* existing["id"] or alert_id in _trigger_alert

tables == <<rules, rows, status, alerts, notified, silent>>
locals == <<pc, work, cur, target>>
vars == <<rules, rows, status, alerts, notified, silent, pc, work, cur, target>>

Pair == Rule \X Host
PC == {"idle", "metrics", "loop", "cooldown", "existing", "update", "insert",
       "event", "notify"}
AlertRow == [rule : Rule \cup {None}, host : Host,
             status : {"OPEN", "ACKNOWLEDGED", "RESOLVED"}, age : Nat]
Ids == 1..Len(alerts)

Init ==
    /\ rules \in [Rule -> {"enabled", "absent"}]
    /\ rows = [h \in Host |-> <<>>]
    /\ status = [h \in Host |-> "UP"]
    /\ alerts = <<>>
    /\ notified = {} /\ silent = {}
    /\ pc = [e \in Evaluator |-> "idle"]
    /\ work = [e \in Evaluator |-> {}]
    /\ cur = [e \in Evaluator |-> None]
    /\ target = [e \in Evaluator |-> None]

-----------------------------------------------------------------------------
Applies(r, h) == RuleOf[r].hostname \in {AnyHost, h}

Breaches(r, v) ==
    v # None /\ Compare(v, RuleOf[r].operator, RuleOf[r].threshold)

\* _check_duration_breach: the newest rows, whether or not they were checks.
DurationBreach(r, h) ==
    LET n == RuleOf[r].duration
    IN  \/ n <= 1
        \/ /\ Len(rows[h]) >= n
           /\ RuleOf[r].metric # "status"      \* metrics has no such column
           /\ \A i \in 1..n : Breaches(r, rows[h][i])

\* "status" is looked up in hosts: 1 when UP, 0 otherwise.
StatusBreach(r, h) ==
    status[h] # None /\ Breaches(r, IF status[h] = "UP" THEN 1 ELSE 0)

\* _check_cooldown: over all alerts of the RULE, whatever host they are for.
InCooldown(r) == \E i \in Ids : alerts[i].rule = r /\ alerts[i].age < RuleOf[r].cooldown

OpenAlerts(r, h) ==
    {i \in Ids : alerts[i].rule = r /\ alerts[i].host = h /\ alerts[i].status = "OPEN"}

\* The loops are rule by rule; neither query fixes an order.
NextPairs(e) ==
    LET same == {x \in work[e] : cur[e] # None /\ x[1] = cur[e][1]}
    IN  IF same # {} THEN same ELSE work[e]

GoTo(e, l) == pc' = [pc EXCEPT ![e] = l]

\* The evaluator returns or its exception reaches the scheduler.
Leave(e) ==
    /\ GoTo(e, "idle")
    /\ work' = [work EXCEPT ![e] = {}]
    /\ cur' = [cur EXCEPT ![e] = None]
    /\ target' = [target EXCEPT ![e] = None]

-----------------------------------------------------------------------------
\* Faulty variants of the actions below, one mistake each: what the properties
\* have to tell from the code.

\* The cooldown looks at OPEN alerts only.
CheckCooldownOfOpen(e) ==
    LET r == cur[e][1]
    IN  /\ pc[e] = "cooldown"
        /\ GoTo(e, IF \E i \in Ids : /\ alerts[i].rule = r /\ alerts[i].status = "OPEN"
                                    /\ alerts[i].age < RuleOf[r].cooldown
                   THEN "loop" ELSE "existing")
        /\ UNCHANGED <<tables, work, cur, target>>

\* Any alert of the rule, however old, holds the next one back.
CheckCooldownForever(e) ==
    /\ pc[e] = "cooldown"
    /\ GoTo(e, IF \E i \in Ids : alerts[i].rule = cur[e][1] THEN "loop" ELSE "existing")
    /\ UNCHANGED <<tables, work, cur, target>>

\* Only an alert triggered within the cooldown is found.
FindRecent(e) ==
    LET open == {i \in OpenAlerts(cur[e][1], cur[e][2]) :
                    alerts[i].age < RuleOf[cur[e][1]].cooldown}
    IN  /\ pc[e] = "existing"
        /\ \/ /\ open # {}
              /\ \E i \in open : target' = [target EXCEPT ![e] = i]
              /\ GoTo(e, "update")
           \/ /\ open = {}
              /\ GoTo(e, "insert")
              /\ UNCHANGED target
        /\ UNCHANGED <<tables, work, cur>>

\* execute in place of execute_returning_id: no id comes back.
InsertAlertWithoutId(e) ==
    /\ pc[e] = "insert"
    /\ rules[cur[e][1]] # "deleted"
    /\ alerts' = Append(alerts, [rule |-> cur[e][1], host |-> cur[e][2],
                                 status |-> "OPEN", age |-> 0])
    /\ GoTo(e, "event")
    /\ UNCHANGED <<rules, rows, status, notified, silent, work, cur, target>>

\* The notification is left to somebody else.
InsertEventOnly(e) ==
    /\ pc[e] = "event"
    /\ target' = [target EXCEPT ![e] = None]
    /\ GoTo(e, "loop")
    /\ UNCHANGED <<tables, work, cur>>

-----------------------------------------------------------------------------
\* SELECT ... WHERE enabled=TRUE; with no rules it returns at once.
BeginEvaluation(e) ==
    LET on == {r \in Rule : rules[r] = "enabled"}
    IN  /\ pc[e] = "idle"
        /\ on # {}
        /\ work' = [work EXCEPT ![e] = on \X Host]
        /\ GoTo(e, "metrics")
        /\ UNCHANGED <<tables, cur, target>>

\* The scheduler calls evaluate_alert_rules under the job's lock.
ReadRules(e) ==
    /\ Overlap \/ \A x \in Evaluator : pc[x] = "idle"
    /\ BeginEvaluation(e)

\* The latest row of each host.  What the loops do with the snapshot alone, the
\* choice of hosts and the comparison of a column, is settled here.
ReadMetrics(e) ==
    /\ pc[e] = "metrics"
    /\ work' = [work EXCEPT ![e] = {x \in @ :
            LET r == x[1]  h == x[2]
            IN  /\ Applies(r, h) /\ rows[h] # <<>>
                /\ RuleOf[r].metric = "status" \/ Breaches(r, rows[h][1])}]
    /\ GoTo(e, "loop")
    /\ UNCHANGED <<tables, cur, target>>

\* One turn of the loops: the status lookup or the duration query, both live.
Check(e) ==
    /\ pc[e] = "loop"
    /\ \E x \in NextPairs(e) :
        /\ work' = [work EXCEPT ![e] = @ \ {x}]
        /\ cur' = [cur EXCEPT ![e] = x]
        /\ IF /\ RuleOf[x[1]].metric = "status" => StatusBreach(x[1], x[2])
              /\ DurationBreach(x[1], x[2])
           THEN GoTo(e, "cooldown")
           ELSE UNCHANGED pc
    /\ UNCHANGED <<tables, target>>

Return(e) ==
    /\ pc[e] = "loop"
    /\ work[e] = {}
    /\ Leave(e)
    /\ UNCHANGED tables

CheckCooldown(e) ==
    /\ pc[e] = "cooldown"
    /\ GoTo(e, IF InCooldown(cur[e][1]) THEN "loop" ELSE "existing")
    /\ UNCHANGED <<tables, work, cur, target>>

\* _trigger_alert: the SELECT of an OPEN alert of this rule and host.
FindExisting(e) ==
    LET open == OpenAlerts(cur[e][1], cur[e][2])
    IN  /\ pc[e] = "existing"
        /\ \/ /\ open # {}
              /\ \E i \in open : target' = [target EXCEPT ![e] = i]
              /\ GoTo(e, "update")
           \/ /\ open = {}
              /\ GoTo(e, "insert")
              /\ UNCHANGED target
        /\ UNCHANGED <<tables, work, cur>>

\* UPDATE ... WHERE id: the row may have been closed since it was read.
UpdateAlert(e) ==
    /\ pc[e] = "update"
    /\ alerts' = [alerts EXCEPT ![target[e]].age = 0]
    /\ target' = [target EXCEPT ![e] = None]
    /\ GoTo(e, "loop")
    /\ UNCHANGED <<rules, rows, status, notified, silent, work, cur>>

InsertAlert(e) ==
    /\ pc[e] = "insert"
    /\ rules[cur[e][1]] # "deleted"
    /\ alerts' = Append(alerts, [rule |-> cur[e][1], host |-> cur[e][2],
                                 status |-> "OPEN", age |-> 0])
    /\ target' = [target EXCEPT ![e] = Len(alerts) + 1]
    /\ GoTo(e, "event")
    /\ UNCHANGED <<rules, rows, status, notified, silent, work, cur>>

\* The rule is gone: the foreign key fails and the whole evaluation ends.
InsertFails(e) ==
    /\ pc[e] = "insert"
    /\ rules[cur[e][1]] = "deleted"
    /\ Leave(e)
    /\ UNCHANGED tables

\* INSERT INTO events, which nothing here reads.
InsertEvent(e) ==
    /\ pc[e] = "event"
    /\ GoTo(e, "notify")
    /\ UNCHANGED <<tables, work, cur, target>>

\* INSERT INTO notifications; log_event, which never raises, ends the call.  It
\* passes only where the table was made by hand: see NotificationFails.
InsertNotification(e) ==
    /\ pc[e] = "notify"
    /\ notified' = notified \cup {target[e]}
    /\ target' = [target EXCEPT ![e] = None]
    /\ GoTo(e, "loop")
    /\ UNCHANGED <<rules, rows, status, alerts, silent, work, cur>>

\* A thread that ends between an alert and its notification leaves it silent.
EndsSilently(e) ==
    /\ Leave(e)
    /\ silent' = IF pc[e] \in {"event", "notify"} THEN silent \cup {target[e]} ELSE silent
    /\ UNCHANGED <<rules, rows, status, alerts, notified>>

\* As the schema is shipped there is no such table: MySQL refuses its CREATE for
\* the column "read", a reserved word.  The INSERT raises, the evaluation ends with
\* it, and the pairs it still had to visit wait for the next one.
NotificationFails(e) ==
    /\ pc[e] = "notify"
    /\ EndsSilently(e)

\* Any statement raises, or the worker is killed.
Abort(e) ==
    /\ Faulty
    /\ pc[e] # "idle"
    /\ EndsSilently(e)

-----------------------------------------------------------------------------
Closed == {i \in Ids : alerts[i].status # "OPEN"}

SetAlertStatus(i, s) ==
    /\ alerts[i].status = "OPEN" => Cardinality(Closed) < MaxClosed
    /\ alerts' = [alerts EXCEPT ![i].status = s]
    /\ UNCHANGED <<rules, rows, status, notified, silent, locals>>

\* Neither call looks at the status the alert has.
Acknowledge(i) == SetAlertStatus(i, "ACKNOWLEDGED")
Resolve(i) == SetAlertStatus(i, "RESOLVED")

SetRule(r, from, to) ==
    /\ rules[r] \in from
    /\ rules' = [rules EXCEPT ![r] = to]
    /\ UNCHANGED <<rows, status, notified, silent, locals>>

CreateRule(r) == SetRule(r, {"absent"}, "enabled") /\ UNCHANGED alerts
EnableRule(r) == SetRule(r, {"disabled"}, "enabled") /\ UNCHANGED alerts
DisableRule(r) == SetRule(r, {"enabled"}, "disabled") /\ UNCHANGED alerts

\* ON DELETE SET NULL.
DeleteRule(r) ==
    /\ SetRule(r, {"enabled", "disabled"}, "deleted")
    /\ alerts' = [i \in Ids |->
            IF alerts[i].rule = r THEN [alerts[i] EXCEPT !.rule = None] ELSE alerts[i]]

\* An agent's or poller's row arrives; only the newest ones matter.
Report(h, v) ==
    /\ rows' = [rows EXCEPT ![h] =
                  SubSeq(<<v>> \o @, 1, IF Len(@) < Window THEN Len(@) + 1 ELSE Window)]
    /\ UNCHANGED <<rules, status, alerts, notified, silent, locals>>

\* host_checker and the agent API change a host's status, and deleting the
\* host removes its row.  Only a status that some rule looks up matters.
SetStatus(h, s) ==
    /\ \E r \in Rule : RuleOf[r].metric = "status" /\ Applies(r, h)
    /\ status[h] # s
    /\ status' = [status EXCEPT ![h] = s]
    /\ UNCHANGED <<rules, rows, alerts, notified, silent, locals>>

Tick ==
    /\ alerts' = [i \in Ids |->
            [alerts[i] EXCEPT !.age = IF @ < MaxAge THEN @ + 1 ELSE @]]
    /\ UNCHANGED <<rules, rows, status, notified, silent, locals>>

-----------------------------------------------------------------------------
Evaluate(e) ==
    \/ ReadRules(e) \/ ReadMetrics(e) \/ Check(e) \/ Return(e)
    \/ CheckCooldown(e) \/ FindExisting(e) \/ UpdateAlert(e)
    \/ InsertAlert(e) \/ InsertFails(e) \/ InsertEvent(e) \/ InsertNotification(e)
    \/ NotificationFails(e)

Operate ==
    \/ \E i \in Ids : Acknowledge(i) \/ Resolve(i)
    \/ \E r \in Rule : CreateRule(r) \/ EnableRule(r) \/ DisableRule(r) \/ DeleteRule(r)

Observe ==
    \E h \in Host :
        \/ \E v \in Value \cup {None} : Report(h, v)
        \/ \E s \in {"UP", "DOWN", None} : SetStatus(h, s)

Next ==
    \/ \E e \in Evaluator : Evaluate(e) \/ Abort(e)
    \/ Operate \/ Observe \/ Tick

Spec == Init /\ [][Next]_vars

-----------------------------------------------------------------------------
TypeOK ==
    /\ rules \in [Rule -> {"absent", "enabled", "disabled", "deleted"}]
    /\ rows \in [Host -> Seq(Value \cup {None})]
    /\ status \in [Host -> {"UP", "DOWN", None}]
    /\ alerts \in Seq(AlertRow)
    /\ notified \in SUBSET Nat /\ silent \in SUBSET Nat
    /\ pc \in [Evaluator -> PC]
    /\ work \in [Evaluator -> SUBSET Pair]
    /\ cur \in [Evaluator -> Pair \cup {None}]
    /\ target \in [Evaluator -> Nat \cup {None}]

\* One OPEN alert per rule and host: a condition that stands is one alert, not a
\* new one every evaluation (the SELECT and the INSERT of lines 137-148).
OneOpenAlert ==
    \A i, j \in Ids :
        /\ alerts[i].rule # None /\ alerts[i].rule = alerts[j].rule
        /\ alerts[i].host = alerts[j].host
        /\ alerts[i].status = "OPEN" /\ alerts[j].status = "OPEN"
        => i = j

\* When evaluations do overlap, a rule and host get at most one OPEN alert per
\* evaluator, however inserts interleave with operators closing alerts: each
\* one inserts at most once on what it read (lines 137-148).
DuplicatesBounded ==
    \A r \in Rule, h \in Host :
        Cardinality(OpenAlerts(r, h)) <= Cardinality(Evaluator)

\* "Creates notification entries for triggered alerts" (lines 6, 135), and where
\* it does not, an evaluation broke off: an alert that has no notification and that
\* nobody is about to notify of is one whose own evaluation raised or died between
\* the two INSERTs (lines 143-153), whatever becomes of the alert meanwhile.
NoSilentAlert ==
    \A i \in Ids : i \in notified \cup silent \/
        \E e \in Evaluator : target[e] = i /\ pc[e] \in {"event", "notify"}

\* Two triggers of one rule are a cooldown apart, although the cooldown is read
\* two statements before the alert is written (lines 124-127, 137-148).
CooldownRespected ==
    [][\A e \in Evaluator : UpdateAlert(e) \/ InsertAlert(e) =>
          ~InCooldown(cur[e][1])]_vars

-----------------------------------------------------------------------------
\* The rule is on and its condition stands on the host, in hosts or in as many
\* newest rows as the rule's duration asks for.
Stands(r, h) ==
    /\ rules[r] = "enabled" /\ Applies(r, h) /\ rows[h] # <<>>
    /\ IF RuleOf[r].metric = "status"
       THEN StatusBreach(r, h)
       ELSE /\ Len(rows[h]) >= RuleOf[r].duration
            /\ \A i \in 1..Len(rows[h]) : Breaches(r, rows[h][i])

\* Somebody is told of a standing condition: once it stands for good and the
\* operators leave the alerts alone, an OPEN alert is there for good
\* ("Evaluates alert rules against live metrics and creates/triggers alerts",
\* alert_engine.py:3).
StandingConditionAlerts ==
    \A r \in Rule, h \in Host :
        <>[]Stands(r, h) /\ <>[][~Operate]_vars => <>[](OpenAlerts(r, h) # {})
=============================================================================
