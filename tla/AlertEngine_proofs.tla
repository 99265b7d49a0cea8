-------------------------- MODULE AlertEngine_proofs --------------------------
(***************************************************************************)
(* Theorems about AlertEngine for every set of rules, hosts, metric values  *)
(* and evaluators.                                                          *)
(***************************************************************************)
EXTENDS AlertEngine, SequenceTheorems, FiniteSetTheorems, TLAPS

\* The pair and the row that the later statements of a turn speak of.
LocalsOK ==
    \A e \in Evaluator :
        /\ pc[e] \in {"cooldown", "existing", "update", "insert", "event", "notify"}
              => cur[e] \in Pair
        /\ pc[e] \in {"update", "event", "notify"} => target[e] \in Ids

\* At most one evaluation is under way.
Alone ==
    \A x, y \in Evaluator : pc[x] # "idle" /\ pc[y] # "idle" => x = y

\* What a lone evaluator read about the alerts is still so when it writes.
ReadStillTrue ==
    \A e \in Evaluator :
        /\ pc[e] = "insert" => OpenAlerts(cur[e][1], cur[e][2]) = {}
        /\ pc[e] \in {"existing", "update", "insert"} => ~InCooldown(cur[e][1])

BaseInv == TypeOK /\ LocalsOK
AloneInv == BaseInv /\ Alone /\ ReadStillTrue /\ OneOpenAlert

\* What an evaluator may do whether or not a lock lets it begin, and all that may
\* happen if none does.
Turn(e) == BeginEvaluation(e) \/ Evaluate(e) \/ Abort(e)
FreeNext == (\E e \in Evaluator : Turn(e)) \/ Operate \/ Observe \/ Tick

LEMMA NextIsFree == [Next]_vars => [FreeNext]_vars
BY DEF Next, FreeNext, Turn

-----------------------------------------------------------------------------
\* A step of e keeps LocalsOK when it keeps the others' locals and the rows, and
\* leaves e itself with the pair and the row its next statement needs.
LEMMA LocalsStep ==
    ASSUME LocalsOK, NEW e \in Evaluator, Ids \subseteq Ids',
           \A x \in Evaluator \ {e} :
               pc'[x] = pc[x] /\ cur'[x] = cur[x] /\ target'[x] = target[x],
           pc'[e] \in {"cooldown", "existing", "update", "insert", "event", "notify"}
              => cur'[e] \in Pair,
           pc'[e] \in {"update", "event", "notify"} => target'[e] \in Ids'
    PROVE  LocalsOK'
BY DEF LocalsOK

LEMMA IdsAreNat == ASSUME TypeOK PROVE Len(alerts) \in Nat /\ Ids \subseteq Nat
BY DEF TypeOK, Ids

\* Rows stay rows when one column is assigned.
LEMMA RowUpdates ==
    ASSUME NEW a \in AlertRow
    PROVE  /\ \A n \in Nat : [a EXCEPT !.age = n] \in AlertRow
           /\ \A s \in {"ACKNOWLEDGED", "RESOLVED"} : [a EXCEPT !.status = s] \in AlertRow
           /\ [a EXCEPT !.rule = None] \in AlertRow
BY DEF AlertRow

LEMMA RowColumns ==
    ASSUME NEW a \in AlertRow
    PROVE  /\ \A n : /\ [a EXCEPT !.age = n].age = n
                     /\ [a EXCEPT !.age = n].rule = a.rule
                     /\ [a EXCEPT !.age = n].host = a.host
                     /\ [a EXCEPT !.age = n].status = a.status
           /\ /\ [a EXCEPT !.rule = None].rule = None
              /\ [a EXCEPT !.rule = None].age = a.age
              /\ [a EXCEPT !.rule = None].host = a.host
              /\ [a EXCEPT !.rule = None].status = a.status
BY DEF AlertRow

\* The actions of an evaluator that leave every table as it is; those that end it
\* may add to the history.
LEMMA EvaluateReads ==
    ASSUME TypeOK, LocalsOK, NEW e \in Evaluator,
           \/ BeginEvaluation(e) \/ ReadMetrics(e) \/ Check(e) \/ Return(e)
           \/ CheckCooldown(e) \/ FindExisting(e) \/ InsertFails(e)
           \/ NotificationFails(e) \/ Abort(e)
    PROVE  TypeOK' /\ LocalsOK' /\ UNCHANGED <<rules, rows, status, alerts, notified>>
<1>. USE AlertAssumption DEF TypeOK, tables, PC, GoTo, Leave
<1>1. CASE BeginEvaluation(e)
  <2>1. {r \in Rule : rules[r] = "enabled"} \X Host \subseteq Pair
    BY DEF Pair
  <2>2. TypeOK' /\ UNCHANGED tables
    BY <1>1, <2>1 DEF BeginEvaluation
  <2>3. LocalsOK'
    BY <1>1, LocalsStep DEF BeginEvaluation, Ids
  <2>4. QED
    BY <2>2, <2>3
<1>2. CASE ReadMetrics(e)
  <2>1. TypeOK' /\ UNCHANGED tables
    BY <1>2 DEF ReadMetrics
  <2>2. LocalsOK'
    BY <1>2, LocalsStep DEF ReadMetrics, Ids
  <2>3. QED
    BY <2>1, <2>2
<1>3. CASE Check(e)
  <2>1. PICK x \in NextPairs(e) :
           /\ work' = [work EXCEPT ![e] = @ \ {x}]
           /\ cur' = [cur EXCEPT ![e] = x]
           /\ pc' = [pc EXCEPT ![e] = "cooldown"] \/ UNCHANGED pc
    BY <1>3 DEF Check
  <2>2. x \in Pair
    BY <2>1 DEF NextPairs
  <2>3. pc[e] = "loop" /\ UNCHANGED <<tables, target>>
    BY <1>3 DEF Check
  <2>4. TypeOK' /\ UNCHANGED tables
    BY <2>1, <2>2, <2>3
  <2>5. LocalsOK'
    BY <2>1, <2>2, <2>3, LocalsStep DEF Ids
  <2>6. QED
    BY <2>4, <2>5
<1>4. CASE Return(e)
  BY <1>4, LocalsStep DEF Return, Ids
<1>5. CASE CheckCooldown(e)
  <2>1. TypeOK' /\ UNCHANGED tables
    BY <1>5 DEF CheckCooldown
  <2>2. LocalsOK'
    BY <1>5, LocalsStep DEF CheckCooldown, LocalsOK, Ids
  <2>3. QED
    BY <2>1, <2>2
<1>6. CASE FindExisting(e)
  <2>1. /\ pc[e] = "existing" /\ UNCHANGED <<tables, work, cur>>
        /\ \/ /\ pc' = [pc EXCEPT ![e] = "update"]
              /\ \E i \in Ids : target' = [target EXCEPT ![e] = i]
           \/ pc' = [pc EXCEPT ![e] = "insert"] /\ UNCHANGED target
    BY <1>6 DEF FindExisting, OpenAlerts
  <2>2. target' \in [Evaluator -> Nat \cup {None}]
    BY <2>1, IdsAreNat
  <2>3. pc' \in [Evaluator -> PC]
    <3>1. pc' = [pc EXCEPT ![e] = "update"] \/ pc' = [pc EXCEPT ![e] = "insert"]
      BY <2>1
    <3>2. QED
      BY <3>1
  <2>4. TypeOK' /\ UNCHANGED tables
    BY <2>1, <2>2, <2>3
  <2>5. cur[e] \in Pair /\ UNCHANGED Ids
    BY <2>1 DEF LocalsOK, Ids
  <2>6. \A x \in Evaluator \ {e} :
           pc'[x] = pc[x] /\ cur'[x] = cur[x] /\ target'[x] = target[x]
    BY <2>1
  <2>7. /\ cur'[e] \in Pair
        /\ pc'[e] \in {"update", "event", "notify"} => target'[e] \in Ids'
    BY <2>1, <2>5
  <2>8. LocalsOK'
    BY <2>5, <2>6, <2>7, LocalsStep
  <2>9. QED
    BY <2>4, <2>8
<1>7. CASE InsertFails(e)
  BY <1>7, LocalsStep DEF InsertFails, Ids
<1>8. CASE NotificationFails(e) \/ Abort(e)
  <2>1. EndsSilently(e)
    BY <1>8 DEF NotificationFails, Abort
  <2>2. silent' \in SUBSET Nat
    BY <2>1, IdsAreNat DEF EndsSilently, LocalsOK
  <2>3. LocalsOK'
    BY <2>1, LocalsStep DEF EndsSilently, Ids
  <2>4. QED
    BY <2>1, <2>2, <2>3 DEF EndsSilently
<1>9. QED
  BY <1>1, <1>2, <1>3, <1>4, <1>5, <1>6, <1>7, <1>8

\* The statements of _trigger_alert that write.
LEMMA EvaluateWrites ==
    ASSUME TypeOK, LocalsOK, NEW e \in Evaluator,
           UpdateAlert(e) \/ InsertAlert(e) \/ InsertEvent(e) \/ InsertNotification(e)
    PROVE  TypeOK' /\ LocalsOK'
<1>. USE AlertAssumption DEF TypeOK, PC, GoTo
<1>1. CASE UpdateAlert(e)
  <2>1. target[e] \in 1..Len(alerts)
    BY <1>1 DEF UpdateAlert, LocalsOK, Ids
  <2>2. [alerts[target[e]] EXCEPT !.age = 0] \in AlertRow
    <3>1. alerts[target[e]] \in AlertRow
      BY <2>1
    <3>2. QED
      BY <3>1, RowUpdates
  <2>3. alerts' \in Seq(AlertRow) /\ Len(alerts') = Len(alerts)
    <3>1. alerts' = [alerts EXCEPT ![target[e]] = [alerts[target[e]] EXCEPT !.age = 0]]
      BY <1>1 DEF UpdateAlert
    <3>2. QED
      BY <2>1, <2>2, <3>1, ExceptSeq
  <2>4. TypeOK'
    BY <1>1, <2>3 DEF UpdateAlert
  <2>5. LocalsOK'
    BY <1>1, <2>3, LocalsStep DEF UpdateAlert, Ids
  <2>6. QED
    BY <2>4, <2>5
<1>2. CASE InsertAlert(e)
  <2>1. cur[e] \in Pair
    BY <1>2 DEF InsertAlert, LocalsOK
  <2>2. [rule |-> cur[e][1], host |-> cur[e][2], status |-> "OPEN", age |-> 0]
           \in AlertRow
    BY <2>1 DEF AlertRow, Pair
  <2>3. alerts' \in Seq(AlertRow) /\ Len(alerts') = Len(alerts) + 1
    BY <1>2, <2>2 DEF InsertAlert
  <2>4. TypeOK'
    BY <1>2, <2>3 DEF InsertAlert
  <2>5. Ids \subseteq Ids' /\ target'[e] \in Ids'
    BY <1>2, <2>3 DEF InsertAlert, Ids
  <2>6. LocalsOK'
    BY <1>2, <2>1, <2>5, LocalsStep DEF InsertAlert
  <2>7. QED
    BY <2>4, <2>6
<1>3. CASE InsertEvent(e)
  <2>0. UNCHANGED Ids
    BY <1>3 DEF InsertEvent, tables, Ids
  <2>1. cur[e] \in Pair /\ target[e] \in Ids
    BY <1>3 DEF InsertEvent, LocalsOK
  <2>2. TypeOK'
    BY <1>3, <2>1, IdsAreNat DEF InsertEvent, tables
  <2>3. LocalsOK'
    BY <1>3, <2>0, <2>1, LocalsStep DEF InsertEvent, tables
  <2>4. QED
    BY <2>2, <2>3
<1>4. CASE InsertNotification(e)
  <2>1. target[e] \in Ids /\ UNCHANGED Ids
    BY <1>4 DEF InsertNotification, LocalsOK, Ids
  <2>2. TypeOK'
    BY <1>4, <2>1, IdsAreNat DEF InsertNotification
  <2>3. LocalsOK'
    BY <1>4, <2>1, LocalsStep DEF InsertNotification
  <2>4. QED
    BY <2>2, <2>3
<1>5. QED
  BY <1>1, <1>2, <1>3, <1>4

\* What operators, agents and time do to the tables.
LEMMA EnvironmentTypes ==
    ASSUME TypeOK, LocalsOK, Operate \/ Observe \/ Tick
    PROVE  TypeOK' /\ LocalsOK'
<1>. USE AlertAssumption DEF TypeOK
<1>0. ASSUME UNCHANGED locals, alerts' \in Seq(AlertRow), Len(alerts') = Len(alerts)
      PROVE  LocalsOK'
  BY <1>0 DEF LocalsOK, Ids, locals
<1>1. ASSUME NEW i \in Ids, NEW s \in {"ACKNOWLEDGED", "RESOLVED"},
             SetAlertStatus(i, s)
      PROVE  TypeOK' /\ LocalsOK'
  <2>1. i \in 1..Len(alerts) /\ alerts[i] \in AlertRow
    BY DEF Ids
  <2>2. alerts' = [alerts EXCEPT ![i] = [alerts[i] EXCEPT !.status = s]]
    BY <1>1 DEF SetAlertStatus
  <2>3. [alerts[i] EXCEPT !.status = s] \in AlertRow
    BY <2>1, RowUpdates
  <2>4. alerts' \in Seq(AlertRow) /\ Len(alerts') = Len(alerts)
    BY <2>1, <2>2, <2>3, ExceptSeq
  <2>5. QED
    BY <1>0, <1>1, <2>4 DEF SetAlertStatus, locals
<1>2. ASSUME NEW r \in Rule, CreateRule(r) \/ EnableRule(r) \/ DisableRule(r)
      PROVE  TypeOK' /\ LocalsOK'
  <2>1. /\ \E t \in {"enabled", "disabled"} : rules' = [rules EXCEPT ![r] = t]
        /\ UNCHANGED <<rows, status, alerts, notified, silent, locals>>
    BY <1>2 DEF CreateRule, EnableRule, DisableRule, SetRule
  <2>2. TypeOK'
    BY <2>1 DEF locals
  <2>3. QED
    BY <1>0, <2>1, <2>2
<1>3. ASSUME NEW r \in Rule, DeleteRule(r) PROVE TypeOK' /\ LocalsOK'
  <2>1. \A i \in Ids : (IF alerts[i].rule = r THEN [alerts[i] EXCEPT !.rule = None]
                        ELSE alerts[i]) \in AlertRow
    <3>1. \A i \in Ids : alerts[i] \in AlertRow
      BY DEF Ids
    <3>2. QED
      BY <3>1, RowUpdates
  <2>2. alerts' \in Seq(AlertRow) /\ Len(alerts') = Len(alerts)
    <3>. DEFINE row(i) == IF alerts[i].rule = r THEN [alerts[i] EXCEPT !.rule = None]
                          ELSE alerts[i]
    <3>1. alerts' = [i \in 1..Len(alerts) |-> row(i)]
      BY <1>3 DEF DeleteRule, Ids
    <3>2. \A i \in 1..Len(alerts) : row(i) \in AlertRow
      BY <2>1 DEF Ids
    <3>. HIDE DEF row
    <3>3. QED
      BY <3>1, <3>2, IdsAreNat
  <2>3. QED
    BY <1>0, <1>3, <2>2 DEF DeleteRule, SetRule, locals
<1>4. ASSUME NEW h \in Host, NEW v \in Value \cup {None}, Report(h, v)
      PROVE  TypeOK' /\ LocalsOK'
  <2>. DEFINE n == IF Len(rows[h]) < Window THEN Len(rows[h]) + 1 ELSE Window
  <2>1. SubSeq(<<v>> \o rows[h], 1, n) \in Seq(Value \cup {None})
    <3>1. rows[h] \in Seq(Value \cup {None})
      OBVIOUS
    <3>2. /\ <<v>> \o rows[h] \in Seq(Value \cup {None})
          /\ Len(<<v>> \o rows[h]) = 1 + Len(rows[h])
      BY <3>1
    <3>3. n \in Nat /\ n <= 1 + Len(rows[h])
      BY <3>1
    <3>4. \A i \in 1..n : (<<v>> \o rows[h])[i] \in Value \cup {None}
      <4>1. 1..n \subseteq 1..Len(<<v>> \o rows[h])
        BY <3>1, <3>2, <3>3
      <4>2. QED
        BY <3>2, <4>1
    <3>5. QED
      BY <3>3, <3>4, SubSeqProperties
  <2>2. rows' \in [Host -> Seq(Value \cup {None})]
    BY <1>4, <2>1 DEF Report
  <2>3. QED
    BY <1>0, <1>4, <2>2 DEF Report, locals
<1>5. ASSUME NEW h \in Host, NEW s \in {"UP", "DOWN", None}, SetStatus(h, s)
      PROVE  TypeOK' /\ LocalsOK'
  BY <1>0, <1>5 DEF SetStatus, locals
<1>6. CASE Tick
  <2>1. \A i \in Ids : [alerts[i] EXCEPT !.age = IF @ < MaxAge THEN @ + 1 ELSE @]
                          \in AlertRow
    <3>1. ASSUME NEW i \in Ids
          PROVE  (IF alerts[i].age < MaxAge THEN alerts[i].age + 1 ELSE alerts[i].age)
                    \in Nat /\ alerts[i] \in AlertRow
      <4>1. alerts[i] \in AlertRow
        BY DEF Ids
      <4>2. alerts[i].age \in Nat
        BY <4>1 DEF AlertRow
      <4>3. QED
        BY <4>1, <4>2
    <3>2. QED
      BY <3>1, RowUpdates
  <2>2. alerts' \in Seq(AlertRow) /\ Len(alerts') = Len(alerts)
    BY <1>6, <2>1 DEF Tick, Ids
  <2>3. QED
    BY <1>0, <1>6, <2>2 DEF Tick, locals
<1>7. CASE Operate
  <2>1. CASE \E i \in Ids : Acknowledge(i) \/ Resolve(i)
    BY <1>1, <2>1 DEF Acknowledge, Resolve
  <2>2. CASE \E r \in Rule :
                CreateRule(r) \/ EnableRule(r) \/ DisableRule(r) \/ DeleteRule(r)
    BY <1>2, <1>3, <2>2
  <2>3. QED
    BY <1>7, <2>1, <2>2 DEF Operate
<1>8. CASE Observe
  BY <1>4, <1>5, <1>8 DEF Observe
<1>9. QED
  BY <1>6, <1>7, <1>8

LEMMA InitBase == Init => BaseInv
BY AlertAssumption DEF Init, BaseInv, TypeOK, LocalsOK, PC, Ids

LEMMA StepBase == BaseInv /\ [FreeNext]_vars => BaseInv'
<1>. SUFFICES ASSUME BaseInv, [FreeNext]_vars PROVE BaseInv'
  OBVIOUS
<1>. USE DEF BaseInv
<1>1. ASSUME NEW e \in Evaluator, Turn(e) PROVE BaseInv'
  BY <1>1, EvaluateReads, EvaluateWrites DEF Turn, Evaluate, ReadRules
<1>2. CASE UNCHANGED vars
  BY <1>2 DEF vars, TypeOK, LocalsOK, Ids
<1>3. QED
  BY <1>1, <1>2, EnvironmentTypes DEF FreeNext

\* Every variable keeps its type.
THEOREM TypeCorrect == Spec => []TypeOK
<1>1. Spec => []BaseInv
  BY InitBase, StepBase, NextIsFree, PTL DEF Spec
<1>2. QED
  BY <1>1, PTL DEF BaseInv

-----------------------------------------------------------------------------
\* What every step does to the alerts unless it triggers one: rows are neither
\* added nor opened, none gets younger or moves to another rule or host.
Quiet ==
    /\ Len(alerts') = Len(alerts)
    /\ \A i \in Ids :
        /\ alerts'[i].rule \in {alerts[i].rule, None}
        /\ alerts'[i].host = alerts[i].host
        /\ alerts'[i].status = "OPEN" => alerts[i].status = "OPEN"
        /\ alerts'[i].age >= alerts[i].age

LEMMA RowTypes ==
    ASSUME TypeOK, NEW i \in Ids
    PROVE  alerts[i] \in AlertRow /\ alerts[i].age \in Nat
<1>1. alerts[i] \in AlertRow
  BY DEF TypeOK, Ids
<1>2. QED
  BY <1>1 DEF AlertRow

LEMMA QuietSteps ==
    ASSUME BaseInv, [FreeNext]_vars, \A e \in Evaluator : ~UpdateAlert(e) /\ ~InsertAlert(e)
    PROVE  Quiet
<1>. USE DEF BaseInv
<1>0. ASSUME UNCHANGED alerts PROVE Quiet
  BY <1>0, RowTypes DEF Quiet
<1>1. ASSUME NEW e \in Evaluator, Turn(e) PROVE Quiet
  <2>1. UNCHANGED alerts
    BY <1>1, EvaluateReads
    DEF Turn, Evaluate, ReadRules, InsertEvent, InsertNotification, tables
  <2>2. QED
    BY <1>0, <2>1
<1>2. ASSUME NEW i \in Ids, NEW s \in {"ACKNOWLEDGED", "RESOLVED"}, SetAlertStatus(i, s)
      PROVE  Quiet
  <2>1. alerts' = [alerts EXCEPT ![i] = [alerts[i] EXCEPT !.status = s]]
    BY <1>2 DEF SetAlertStatus
  <2>2. \A j \in Ids : alerts'[j] = IF j = i THEN [alerts[i] EXCEPT !.status = s]
                                            ELSE alerts[j]
    BY <2>1 DEF TypeOK, Ids
  <2>3. Len(alerts') = Len(alerts)
    BY <2>1 DEF TypeOK, Ids
  <2>4. QED
    BY <2>2, <2>3, RowTypes DEF Quiet, AlertRow
<1>3. ASSUME NEW r \in Rule, DeleteRule(r) PROVE Quiet
  <2>1. \A i \in Ids : alerts'[i] = IF alerts[i].rule = r
                                    THEN [alerts[i] EXCEPT !.rule = None] ELSE alerts[i]
    BY <1>3 DEF DeleteRule, TypeOK, Ids
  <2>2. Len(alerts') = Len(alerts)
    BY <1>3 DEF DeleteRule, TypeOK, Ids
  <2>3. \A i \in Ids : /\ alerts'[i].rule \in {alerts[i].rule, None}
                        /\ alerts'[i].host = alerts[i].host
                        /\ alerts'[i].status = alerts[i].status
                        /\ alerts'[i].age = alerts[i].age
    <3>. SUFFICES ASSUME NEW i \in Ids
                  PROVE  /\ alerts'[i].rule \in {alerts[i].rule, None}
                         /\ alerts'[i].host = alerts[i].host
                         /\ alerts'[i].status = alerts[i].status
                         /\ alerts'[i].age = alerts[i].age
      OBVIOUS
    <3>1. alerts[i] \in AlertRow
      BY RowTypes
    <3>2. CASE alerts[i].rule = r
      <4>1. alerts'[i] = [alerts[i] EXCEPT !.rule = None]
        BY <2>1, <3>2
      <4>2. QED
        BY <3>1, <4>1, RowColumns
    <3>3. CASE alerts[i].rule # r
      BY <2>1, <3>3
    <3>4. QED
      BY <3>2, <3>3
  <2>4. QED
    BY <2>2, <2>3, RowTypes DEF Quiet
<1>4. CASE Tick
  <2>1. \A i \in Ids : alerts'[i] = [alerts[i] EXCEPT !.age = IF @ < MaxAge THEN @ + 1 ELSE @]
    BY <1>4 DEF Tick, TypeOK, Ids
  <2>2. Len(alerts') = Len(alerts)
    BY <1>4 DEF Tick, TypeOK, Ids
  <2>3. \A i \in Ids : /\ alerts'[i].age >= alerts[i].age
                        /\ alerts'[i].rule = alerts[i].rule
                        /\ alerts'[i].host = alerts[i].host
                        /\ alerts'[i].status = alerts[i].status
    <3>. SUFFICES ASSUME NEW i \in Ids
                  PROVE  /\ alerts'[i].age >= alerts[i].age
                         /\ alerts'[i].rule = alerts[i].rule
                         /\ alerts'[i].host = alerts[i].host
                         /\ alerts'[i].status = alerts[i].status
      OBVIOUS
    <3>. DEFINE n == IF alerts[i].age < MaxAge THEN alerts[i].age + 1 ELSE alerts[i].age
    <3>1. n >= alerts[i].age
      BY RowTypes, AlertAssumption
    <3>2. alerts'[i] = [alerts[i] EXCEPT !.age = n]
      BY <2>1
    <3>. HIDE DEF n
    <3>3. QED
      BY <3>1, <3>2, RowTypes, RowColumns
  <2>4. QED
    BY <2>2, <2>3 DEF Quiet
<1>5. CASE Observe
  BY <1>0, <1>5 DEF Observe, Report, SetStatus
<1>6. CASE Operate
  <2>1. ASSUME NEW r \in Rule, CreateRule(r) \/ EnableRule(r) \/ DisableRule(r)
        PROVE  Quiet
    BY <1>0, <2>1 DEF CreateRule, EnableRule, DisableRule
  <2>2. QED
    BY <1>2, <1>3, <1>6, <2>1 DEF Operate, Acknowledge, Resolve
<1>7. CASE UNCHANGED vars
  BY <1>0, <1>7 DEF vars
<1>8. QED
  BY <1>1, <1>4, <1>5, <1>6, <1>7 DEF FreeNext

LEMMA QuietKeeps ==
    ASSUME BaseInv, BaseInv', Quiet
    PROVE  /\ OneOpenAlert => OneOpenAlert'
           /\ \A r \in Rule, h \in Host :
                 OpenAlerts(r, h) = {} => OpenAlerts(r, h)' = {}
           /\ \A r \in Rule : ~InCooldown(r) => ~InCooldown(r)'
<1>. USE AlertAssumption DEF BaseInv, Quiet
<1>1. UNCHANGED Ids
  BY DEF Ids
<1>2. OneOpenAlert => OneOpenAlert'
  BY <1>1 DEF OneOpenAlert
<1>3. ASSUME NEW r \in Rule, NEW h \in Host, OpenAlerts(r, h) = {}
      PROVE  OpenAlerts(r, h)' = {}
  BY <1>1, <1>3 DEF OpenAlerts
<1>4. ASSUME NEW r \in Rule, ~InCooldown(r) PROVE ~InCooldown(r)'
  <2>. SUFFICES ASSUME NEW i \in Ids, alerts'[i].rule = r,
                       alerts'[i].age < RuleOf[r].cooldown
                PROVE  FALSE
    BY <1>1 DEF InCooldown
  <2>1. alerts[i].rule = r
    OBVIOUS
  <2>2. alerts[i].age \in Nat /\ alerts'[i].age \in Nat
    <3>1. alerts'[i] \in AlertRow
      BY <1>1 DEF TypeOK, Ids
    <3>2. QED
      BY <3>1, RowTypes DEF AlertRow
  <2>3. RuleOf[r].cooldown \in Nat
    OBVIOUS
  <2>4. QED
    BY <1>4, <2>1, <2>2, <2>3 DEF InCooldown
<1>5. QED
  BY <1>2, <1>3, <1>4

-----------------------------------------------------------------------------
\* What a trigger does to the alerts.
LEMMA UpdateEffect ==
    ASSUME BaseInv, NEW e \in Evaluator, UpdateAlert(e)
    PROVE  /\ target[e] \in Ids /\ Len(alerts') = Len(alerts)
           /\ \A i \in Ids : /\ alerts'[i].rule = alerts[i].rule
                             /\ alerts'[i].host = alerts[i].host
                             /\ alerts'[i].status = alerts[i].status
<1>1. target[e] \in Ids
  BY DEF BaseInv, LocalsOK, UpdateAlert
<1>. DEFINE a == [alerts[target[e]] EXCEPT !.age = 0]
<1>2. alerts \in Seq(AlertRow) /\ a \in AlertRow /\ alerts' = [alerts EXCEPT ![target[e]] = a]
  BY <1>1, RowTypes, RowUpdates DEF BaseInv, TypeOK, UpdateAlert
<1>3. /\ \A i \in Ids : alerts'[i] = IF i = target[e] THEN a ELSE alerts[i]
      /\ Len(alerts') = Len(alerts)
  <2>. HIDE DEF a
  <2>1. QED
    BY <1>1, <1>2, ExceptSeq DEF Ids
<1>4. Len(alerts') = Len(alerts)
  BY <1>3
<1>5. ASSUME NEW i \in Ids
      PROVE  /\ alerts'[i].rule = alerts[i].rule
             /\ alerts'[i].host = alerts[i].host
             /\ alerts'[i].status = alerts[i].status
  <2>1. alerts[i] \in AlertRow
    BY RowTypes DEF BaseInv
  <2>2. CASE i = target[e]
    <3>1. alerts'[i] = [alerts[i] EXCEPT !.age = 0]
      BY <1>3, <2>2
    <3>2. QED
      BY <2>1, <3>1, RowColumns
  <2>3. CASE i # target[e]
    BY <1>3, <2>3
  <2>4. QED
    BY <2>2, <2>3
<1>6. QED
  BY <1>1, <1>4, <1>5

LEMMA InsertEffect ==
    ASSUME BaseInv, NEW e \in Evaluator, InsertAlert(e)
    PROVE  /\ cur[e] \in Pair /\ Len(alerts') = Len(alerts) + 1
           /\ \A i \in Ids : alerts'[i] = alerts[i]
           /\ alerts'[Len(alerts) + 1].rule = cur[e][1]
           /\ alerts'[Len(alerts) + 1].host = cur[e][2]
           /\ Ids' = Ids \cup {Len(alerts) + 1} /\ Len(alerts) + 1 \notin Ids
<1>1. alerts \in Seq(AlertRow) /\ cur[e] \in Pair
  BY DEF BaseInv, LocalsOK, InsertAlert, TypeOK
<1>. DEFINE a == [rule |-> cur[e][1], host |-> cur[e][2], status |-> "OPEN", age |-> 0]
<1>2. a.rule = cur[e][1] /\ a.host = cur[e][2]
  OBVIOUS
<1>3. alerts' = Append(alerts, a)
  BY DEF InsertAlert
<1>. HIDE DEF a
<1>4. /\ Len(alerts') = Len(alerts) + 1 /\ alerts'[Len(alerts) + 1] = a
      /\ \A i \in Ids : alerts'[i] = alerts[i]
  BY <1>1, <1>3 DEF Ids
<1>5. Ids' = Ids \cup {Len(alerts) + 1} /\ Len(alerts) + 1 \notin Ids
  BY <1>1, <1>4 DEF Ids
<1>6. QED
  BY <1>1, <1>2, <1>4, <1>5

-----------------------------------------------------------------------------
LEMMA InitAlone == Init => AloneInv
BY InitBase, AlertAssumption
DEF Init, AloneInv, Alone, ReadStillTrue, OneOpenAlert, Ids

\* Where the other evaluators are when one takes a step.
LEMMA StepAlone ==
    ASSUME ~Overlap, BaseInv, Alone, [Next]_vars
    PROVE  Alone'
<1>. USE DEF Alone, BaseInv, TypeOK, PC, GoTo, Leave
<1>1. ASSUME NEW e \in Evaluator, ReadRules(e) PROVE Alone'
  BY <1>1 DEF ReadRules, BeginEvaluation
<1>2. ASSUME NEW e \in Evaluator, Evaluate(e) \/ Abort(e), ~ReadRules(e) PROVE Alone'
  <2>1. pc[e] # "idle" /\ \E l \in PC : pc' = [pc EXCEPT ![e] = l]
    <3>1. CASE Check(e)
      BY <3>1 DEF Check
    <3>2. CASE ~Check(e)
      BY <1>2, <3>2
      DEF Evaluate, Abort, ReadMetrics, Return, CheckCooldown, FindExisting,
          UpdateAlert, InsertAlert, InsertFails, InsertEvent, InsertNotification,
          NotificationFails, EndsSilently
    <3>3. QED
      BY <3>1, <3>2
  <2>2. QED
    BY <2>1
<1>3. CASE Operate \/ Observe \/ Tick \/ UNCHANGED vars
  <2>1. UNCHANGED pc
    BY <1>3 DEF Operate, Acknowledge, Resolve, SetAlertStatus, CreateRule, EnableRule,
                DisableRule, DeleteRule, SetRule, Observe, Report, SetStatus, Tick,
                locals, vars
  <2>2. QED
    BY <2>1
<1>4. QED
  BY <1>1, <1>2, <1>3 DEF Next

LEMMA StepOneOpen ==
    ASSUME AloneInv, BaseInv', [Next]_vars
    PROVE  OneOpenAlert'
<1>. USE DEF AloneInv
<1>1. ASSUME NEW e \in Evaluator, UpdateAlert(e) PROVE OneOpenAlert'
  <2>1. UNCHANGED Ids
    BY <1>1, UpdateEffect DEF Ids
  <2>2. QED
    BY <1>1, <2>1, UpdateEffect DEF OneOpenAlert
<1>2. ASSUME NEW e \in Evaluator, InsertAlert(e) PROVE OneOpenAlert'
  <2>. DEFINE n == Len(alerts) + 1
  <2>1. \A i \in Ids : ~(/\ alerts[i].rule = cur[e][1] /\ alerts[i].host = cur[e][2]
                         /\ alerts[i].status = "OPEN")
    BY <1>2 DEF InsertAlert, ReadStillTrue, OpenAlerts
  <2>2. /\ \A i \in Ids : alerts'[i] = alerts[i]
        /\ alerts'[n].rule = cur[e][1] /\ alerts'[n].host = cur[e][2]
        /\ Ids' = Ids \cup {n} /\ n \notin Ids
    BY <1>2, InsertEffect
  <2>. HIDE DEF n
  <2>3. QED
    BY <2>1, <2>2 DEF OneOpenAlert
<1>3. CASE \A e \in Evaluator : ~UpdateAlert(e) /\ ~InsertAlert(e)
  BY <1>3, NextIsFree, QuietSteps, QuietKeeps
<1>4. QED
  BY <1>1, <1>2, <1>3

\* Nobody else moves an evaluator that has read the alerts, or the pair it read for.
LEMMA ReadersStay ==
    ASSUME BaseInv, [FreeNext]_vars, NEW x \in Evaluator,
           pc'[x] \in {"existing", "update", "insert"}, ~CheckCooldown(x), ~FindExisting(x)
    PROVE  pc'[x] = pc[x] /\ cur'[x] = cur[x]
<1>. USE DEF BaseInv, TypeOK, LocalsOK, PC, GoTo, Leave
<1>1. ASSUME NEW e \in Evaluator, Turn(e)
      PROVE  pc'[x] = pc[x] /\ cur'[x] = cur[x]
  <2>1. CASE Check(e)
    <3>1. PICK y : /\ cur' = [cur EXCEPT ![e] = y]
                   /\ pc' = [pc EXCEPT ![e] = "cooldown"] \/ UNCHANGED pc
      BY <2>1 DEF Check
    <3>2. pc[e] = "loop"
      BY <2>1 DEF Check
    <3>3. x # e
      BY <3>1, <3>2
    <3>4. QED
      BY <3>1, <3>3
  <2>2. CASE UpdateAlert(e) \/ InsertAlert(e)
    <3>1. UNCHANGED cur /\ \E l \in {"loop", "event"} : pc' = [pc EXCEPT ![e] = l]
      BY <2>2 DEF UpdateAlert, InsertAlert
    <3>2. QED
      BY <3>1
  <2>3. CASE ~Check(e) /\ ~UpdateAlert(e) /\ ~InsertAlert(e)
    <3>1. \/ BeginEvaluation(e) \/ ReadMetrics(e) \/ Return(e) \/ CheckCooldown(e)
          \/ FindExisting(e) \/ InsertFails(e) \/ InsertEvent(e)
          \/ InsertNotification(e) \/ NotificationFails(e) \/ Abort(e)
      BY <1>1, <2>3 DEF Turn, Evaluate, ReadRules
    <3>2. CASE e = x
      BY <3>1, <3>2
      DEF Abort, BeginEvaluation, ReadMetrics, Return, InsertFails, InsertEvent,
          InsertNotification, NotificationFails, EndsSilently
    <3>3. CASE e # x
      BY <3>1, <3>3
      DEF Abort, BeginEvaluation, ReadMetrics, Return, CheckCooldown,
          FindExisting, InsertFails, InsertEvent, InsertNotification,
          NotificationFails, EndsSilently
    <3>4. QED
      BY <3>2, <3>3
  <2>4. QED
    BY <2>1, <2>2, <2>3
<1>2. CASE Operate \/ Observe \/ Tick \/ UNCHANGED vars
  BY <1>2
  DEF Operate, Acknowledge, Resolve, SetAlertStatus, CreateRule, EnableRule,
      DisableRule, DeleteRule, SetRule, Observe, Report, SetStatus, Tick,
      locals, vars
<1>3. QED
  BY <1>1, <1>2 DEF FreeNext

LEMMA StepRead ==
    ASSUME ~Overlap, AloneInv, BaseInv', Alone', [Next]_vars
    PROVE  ReadStillTrue'
<1>. USE DEF AloneInv
<1>1. ASSUME NEW e \in Evaluator, UpdateAlert(e) \/ InsertAlert(e) PROVE ReadStillTrue'
  <2>1. /\ pc[e] # "idle" /\ pc'[e] \in {"loop", "event"}
        /\ \A x \in Evaluator \ {e} : pc'[x] = pc[x]
    BY <1>1 DEF UpdateAlert, InsertAlert, GoTo, BaseInv, TypeOK
  <2>2. \A x \in Evaluator \ {e} : pc'[x] = "idle"
    BY <2>1 DEF Alone
  <2>3. QED
    BY <2>1, <2>2 DEF ReadStillTrue
<1>2. CASE \A e \in Evaluator : ~UpdateAlert(e) /\ ~InsertAlert(e)
  <2>1. /\ \A r \in Rule, h \in Host : OpenAlerts(r, h) = {} => OpenAlerts(r, h)' = {}
        /\ \A r \in Rule : ~InCooldown(r) => ~InCooldown(r)'
    BY <1>2, NextIsFree, QuietSteps, QuietKeeps
  <2>2. ASSUME NEW x \in Evaluator, pc'[x] \in {"existing", "update", "insert"}
        PROVE  /\ cur[x] \in Pair /\ cur'[x] = cur[x]
               /\ pc'[x] = "insert" => OpenAlerts(cur[x][1], cur[x][2]) = {}
               /\ ~InCooldown(cur[x][1])
    <3>. USE <2>2 DEF BaseInv, TypeOK, LocalsOK, PC, GoTo, Leave
    <3>1. CASE CheckCooldown(x)
      BY <3>1 DEF CheckCooldown
    <3>2. CASE FindExisting(x)
      BY <3>2 DEF FindExisting, ReadStillTrue
    <3>3. CASE ~CheckCooldown(x) /\ ~FindExisting(x)
      <4>1. pc'[x] = pc[x] /\ cur'[x] = cur[x]
        BY <3>3, NextIsFree, ReadersStay
      <4>2. QED
        BY <4>1 DEF ReadStillTrue
    <3>4. QED
      BY <3>1, <3>2, <3>3
  <2>3. \A x \in Evaluator : pc'[x] \in {"existing", "update", "insert"} =>
           cur[x][1] \in Rule /\ cur[x][2] \in Host
    BY <2>2 DEF Pair
  <2>4. \A r \in Rule, h \in Host : OpenAlerts(r, h) = {} =>
           \A i \in Ids' : ~(/\ alerts'[i].rule = r /\ alerts'[i].host = h
                            /\ alerts'[i].status = "OPEN")
    BY <2>1 DEF OpenAlerts
  <2>5. \A r \in Rule : ~InCooldown(r) =>
           ~\E i \in Ids' : alerts'[i].rule = r /\ alerts'[i].age < RuleOf[r].cooldown
    BY <2>1 DEF InCooldown
  <2>6. ASSUME NEW x \in Evaluator, pc'[x] \in {"existing", "update", "insert"}
        PROVE  /\ pc'[x] = "insert" => OpenAlerts(cur[x][1], cur[x][2])' = {}
               /\ ~InCooldown(cur[x][1])'
    <3>1. cur'[x] = cur[x] /\ cur[x][1] \in Rule /\ cur[x][2] \in Host
      BY <2>2, <2>3, <2>6
    <3>2. pc'[x] = "insert" => OpenAlerts(cur[x][1], cur[x][2])' = {}
      BY <2>2, <2>4, <2>6, <3>1 DEF OpenAlerts
    <3>3. ~InCooldown(cur[x][1])'
      BY <2>2, <2>5, <2>6, <3>1 DEF InCooldown
    <3>4. QED
      BY <3>2, <3>3
  <2>7. QED
    BY <2>6 DEF ReadStillTrue
<1>3. QED
  BY <1>1, <1>2

LEMMA AloneInvariance == ASSUME ~Overlap PROVE Spec => []AloneInv
<1>1. AloneInv /\ [Next]_vars => AloneInv'
  BY StepBase, NextIsFree, StepAlone, StepOneOpen, StepRead DEF AloneInv
<1>2. QED
  BY <1>1, InitAlone, PTL DEF Spec

\* When evaluations do not overlap, a standing condition is one OPEN alert per
\* rule and host, whatever operators, agents and failures do between the SELECT
\* and the INSERT (alert_engine.py:137-148).
THEOREM OneOpenAlertPerPair == ASSUME ~Overlap PROVE Spec => []OneOpenAlert
BY AloneInvariance, PTL DEF AloneInv

\* When evaluations do not overlap, no trigger of a rule falls into the cooldown
\* of an earlier one (alert_engine.py:124-127, 137-148).
THEOREM TriggersAreCooldownApart ==
    ASSUME ~Overlap PROVE Spec => CooldownRespected
<1>1. AloneInv /\ [Next]_vars =>
        [\A e \in Evaluator : UpdateAlert(e) \/ InsertAlert(e) =>
            ~InCooldown(cur[e][1])]_vars
  BY DEF AloneInv, ReadStillTrue, UpdateAlert, InsertAlert
<1>2. QED
  BY <1>1, AloneInvariance, PTL DEF Spec, CooldownRespected

-----------------------------------------------------------------------------
\* Overlapping, failing and dying evaluators included, with a table of notifications
\* or without: an alert nobody is told of, or about to be, is one whose evaluation
\* broke off between its two INSERTs (alert_engine.py:143-153).
THEOREM AlertsAreAnnounced == Spec => []NoSilentAlert
<1>. DEFINE Inv == BaseInv /\ NoSilentAlert
<1>1. Init => Inv
  BY InitBase DEF Init, NoSilentAlert, Ids
<1>2. Inv /\ [Next]_vars => Inv'
  <2>. SUFFICES ASSUME Inv, BaseInv', [Next]_vars PROVE NoSilentAlert'
    BY StepBase, NextIsFree
  <2>1. ASSUME NEW e \in Evaluator, InsertAlert(e) PROVE NoSilentAlert'
    <3>1. /\ Ids' = Ids \cup {Len(alerts) + 1}
          /\ target'[e] = Len(alerts) + 1 /\ pc'[e] = "event"
          /\ pc[e] = "insert" /\ UNCHANGED <<notified, silent>>
          /\ \A x \in Evaluator \ {e} : pc'[x] = pc[x] /\ target'[x] = target[x]
      BY <2>1, InsertEffect DEF InsertAlert, GoTo, BaseInv, TypeOK
    <3>2. QED
      BY <3>1 DEF NoSilentAlert
  <2>2. ASSUME NEW e \in Evaluator, InsertEvent(e) \/ InsertNotification(e)
        PROVE  NoSilentAlert'
    <3>1. UNCHANGED <<Ids, silent>>
      BY <2>2 DEF InsertEvent, InsertNotification, tables, Ids
    <3>2. \A x \in Evaluator \ {e} : pc'[x] = pc[x] /\ target'[x] = target[x]
      BY <2>2 DEF InsertEvent, InsertNotification, GoTo, BaseInv, TypeOK
    <3>3. CASE InsertEvent(e)
      BY <3>1, <3>2, <3>3 DEF InsertEvent, GoTo, tables, BaseInv, TypeOK, NoSilentAlert
    <3>4. CASE InsertNotification(e)
      BY <3>1, <3>2, <3>4 DEF InsertNotification, GoTo, BaseInv, TypeOK, NoSilentAlert
    <3>5. QED
      BY <2>2, <3>3, <3>4
  <2>3. ASSUME NEW e \in Evaluator, Evaluate(e), ~InsertAlert(e), ~InsertEvent(e),
               ~InsertNotification(e), ~NotificationFails(e)
        PROVE  NoSilentAlert'
    <3>1. UNCHANGED <<Ids, notified>>
      <4>1. CASE UpdateAlert(e)
        BY <4>1, UpdateEffect DEF UpdateAlert, Ids
      <4>2. CASE ~UpdateAlert(e)
        BY <2>3, <4>2, EvaluateReads DEF Evaluate, ReadRules, BaseInv, tables, Ids
      <4>3. QED
        BY <4>1, <4>2
    <3>2. /\ pc[e] \notin {"event", "notify"}
          /\ \A x \in Evaluator \ {e} : pc'[x] = pc[x] /\ target'[x] = target[x]
      <4>1. CASE Check(e)
        BY <4>1 DEF Check, GoTo, BaseInv, TypeOK
      <4>2. CASE ~Check(e)
        BY <2>3, <4>2
        DEF Evaluate, ReadRules, BeginEvaluation, ReadMetrics, Return, CheckCooldown,
            FindExisting, UpdateAlert, InsertFails, GoTo, Leave, BaseInv, TypeOK
      <4>3. QED
        BY <4>1, <4>2
    <3>3. UNCHANGED silent
      BY <2>3
      DEF Evaluate, ReadRules, BeginEvaluation, ReadMetrics, Check, Return,
          CheckCooldown, FindExisting, UpdateAlert, InsertFails, tables
    <3>4. QED
      BY <3>1, <3>2, <3>3 DEF NoSilentAlert
  <2>4. ASSUME NEW e \in Evaluator, NotificationFails(e) \/ Abort(e)
        PROVE  NoSilentAlert'
    <3>1. EndsSilently(e)
      BY <2>4 DEF NotificationFails, Abort
    <3>2. /\ UNCHANGED <<Ids, notified>> /\ silent \subseteq silent'
          /\ pc[e] \in {"event", "notify"} => target[e] \in silent'
          /\ \A x \in Evaluator \ {e} : pc'[x] = pc[x] /\ target'[x] = target[x]
      BY <3>1 DEF EndsSilently, Leave, GoTo, Ids, BaseInv, TypeOK
    <3>3. QED
      BY <3>2 DEF NoSilentAlert
  <2>5. CASE Operate \/ Observe \/ Tick \/ UNCHANGED vars
    <3>1. UNCHANGED <<pc, target, notified, silent>>
      BY <2>5
      DEF Operate, Acknowledge, Resolve, SetAlertStatus, CreateRule, EnableRule,
          DisableRule, DeleteRule, SetRule, Observe, Report, SetStatus, Tick,
          locals, vars
    <3>2. \A e \in Evaluator : ~UpdateAlert(e) /\ ~InsertAlert(e)
      BY <2>5, <3>1 DEF UpdateAlert, InsertAlert, GoTo, BaseInv, TypeOK
    <3>3. UNCHANGED Ids
      BY <3>2, NextIsFree, QuietSteps DEF Quiet, Ids
    <3>4. QED
      BY <3>1, <3>3 DEF NoSilentAlert
  <2>6. QED
    BY <2>1, <2>2, <2>3, <2>4, <2>5 DEF Next
<1>3. QED
  BY <1>1, <1>2, PTL DEF Spec

-----------------------------------------------------------------------------
\* The evaluators that found no OPEN alert for a pair and are about to insert one.
Inserting(r, h) == {e \in Evaluator : pc[e] = "insert" /\ cur[e] = <<r, h>>}

\* No more than n: alerts A that are open, and evaluators P that will open one more each.
Bounded(A, P, n) == Cardinality(A) + Cardinality(P) <= n

DuplicateInv ==
    /\ BaseInv
    /\ \A r \in Rule, h \in Host :
          Bounded(OpenAlerts(r, h), Inserting(r, h), Cardinality(Evaluator))

LEMMA EvaluatorsAre ==
    ASSUME NEW S \in SUBSET Evaluator
    PROVE  /\ IsFiniteSet(S) /\ Cardinality(S) \in Nat /\ Cardinality(Evaluator) \in Nat
           /\ Cardinality(S) <= Cardinality(Evaluator)
<1>1. IsFiniteSet(S) /\ Cardinality(S) <= Cardinality(Evaluator)
  BY AlertAssumption, FS_Subset
<1>2. QED
  BY <1>1, AlertAssumption, FS_CardinalityType

LEMMA OpenAlertsAre ==
    ASSUME TypeOK, NEW r, NEW h
    PROVE  IsFiniteSet(OpenAlerts(r, h)) /\ Cardinality(OpenAlerts(r, h)) \in Nat
<1>1. IsFiniteSet(Ids)
  BY IdsAreNat, FS_Interval DEF Ids
<1>2. IsFiniteSet(OpenAlerts(r, h))
  BY <1>1, FS_Subset DEF OpenAlerts
<1>3. QED
  BY <1>2, FS_CardinalityType

\* What keeps the count within the bound: nothing is added; one of those about to
\* insert does; or no alert is open.
LEMMA StaysBounded ==
    ASSUME NEW A, IsFiniteSet(A), NEW B, NEW P \in SUBSET Evaluator, NEW Q \in SUBSET Evaluator,
           NEW n \in Nat, Bounded(A, P, n), Cardinality(Q) <= n,
           \/ B \subseteq A /\ Q \subseteq P
           \/ \E e \in P : \E i : B \subseteq A \cup {i} /\ Q \subseteq P \ {e}
           \/ B = {}
    PROVE  Bounded(B, Q, n)
<1>1. Cardinality(P) \in Nat /\ Cardinality(Q) \in Nat /\ IsFiniteSet(P)
  BY EvaluatorsAre
<1>2. Cardinality(A) \in Nat
  BY FS_CardinalityType
<1>3. CASE B \subseteq A /\ Q \subseteq P
  <2>1. IsFiniteSet(B) /\ Cardinality(B) <= Cardinality(A) /\ Cardinality(Q) <= Cardinality(P)
    BY <1>1, <1>3, FS_Subset
  <2>2. Cardinality(B) \in Nat
    BY <2>1, FS_CardinalityType
  <2>3. QED
    BY <1>1, <1>2, <2>1, <2>2 DEF Bounded
<1>4. ASSUME NEW e \in P, NEW i, B \subseteq A \cup {i}, Q \subseteq P \ {e}
      PROVE  Bounded(B, Q, n)
  <2>1. IsFiniteSet(P \ {e}) /\ Cardinality(P \ {e}) = Cardinality(P) - 1
    BY <1>1, FS_RemoveElement
  <2>2. Cardinality(Q) <= Cardinality(P \ {e})
    BY <1>4, <2>1, FS_Subset
  <2>3. /\ IsFiniteSet(A \cup {i})
        /\ i \in A => Cardinality(A \cup {i}) = Cardinality(A)
        /\ i \notin A => Cardinality(A \cup {i}) = Cardinality(A) + 1
    BY FS_AddElement
  <2>4. Cardinality(A \cup {i}) <= Cardinality(A) + 1
    BY <1>2, <2>3
  <2>5. IsFiniteSet(B) /\ Cardinality(B) <= Cardinality(A \cup {i})
    BY <1>4, <2>3, FS_Subset
  <2>6. Cardinality(B) \in Nat /\ Cardinality(A \cup {i}) \in Nat
    BY <2>3, <2>5, FS_CardinalityType
  <2>7. QED
    BY <1>1, <1>2, <2>1, <2>2, <2>4, <2>5, <2>6 DEF Bounded
<1>5. CASE B = {}
  <2>1. Cardinality(B) = 0
    BY <1>5, FS_EmptySet
  <2>2. QED
    BY <1>1, <2>1 DEF Bounded
<1>6. QED
  BY <1>3, <1>4, <1>5

\* Who is about to insert after a step: those who were, and those who found nothing.
LEMMA InsertersAre ==
    ASSUME BaseInv, [FreeNext]_vars, NEW r \in Rule, NEW h \in Host
    PROVE  OpenAlerts(r, h) = {} \/ Inserting(r, h)' \subseteq Inserting(r, h)
<1>. SUFFICES ASSUME NEW e \in Evaluator, pc'[e] = "insert", cur'[e] = <<r, h>>,
                     OpenAlerts(r, h) # {}
              PROVE  pc[e] = "insert" /\ cur[e] = <<r, h>>
  BY DEF Inserting
<1>1. ~CheckCooldown(e)
  BY DEF CheckCooldown, GoTo, BaseInv, TypeOK
<1>2. ASSUME FindExisting(e) PROVE FALSE
  <2>1. /\ UNCHANGED cur
        /\ \/ pc' = [pc EXCEPT ![e] = "update"]
           \/ OpenAlerts(cur[e][1], cur[e][2]) = {}
    BY <1>2 DEF FindExisting, GoTo
  <2>2. OpenAlerts(cur[e][1], cur[e][2]) = {}
    BY <2>1 DEF BaseInv, TypeOK
  <2>3. cur[e][1] = r /\ cur[e][2] = h
    BY <2>1
  <2>4. QED
    BY <2>2, <2>3
<1>3. QED
  BY <1>1, <1>2, ReadersStay

\* Whatever bounds the evaluators that are about to insert bounds the OPEN alerts.
LEMMA StepBounded ==
    ASSUME BaseInv, [FreeNext]_vars, NEW n \in Nat, NEW r \in Rule, NEW h \in Host,
           Bounded(OpenAlerts(r, h), Inserting(r, h), n),
           Cardinality(Inserting(r, h)') <= n
    PROVE  Bounded(OpenAlerts(r, h)', Inserting(r, h)', n)
<1>. DEFINE A == OpenAlerts(r, h)
            P == Inserting(r, h)
<1>2. /\ IsFiniteSet(A) /\ Bounded(A, P, n) /\ Cardinality(P') <= n
      /\ P \in SUBSET Evaluator /\ P' \in SUBSET Evaluator
  BY OpenAlertsAre DEF Inserting, BaseInv
<1>3. ASSUME NEW e \in Evaluator, InsertAlert(e)
      PROVE  Bounded(A', P', n)
  <2>1. /\ cur[e] \in Pair /\ Ids' = Ids \cup {Len(alerts) + 1}
        /\ \A i \in Ids : alerts'[i] = alerts[i]
        /\ alerts'[Len(alerts) + 1].rule = cur[e][1]
        /\ alerts'[Len(alerts) + 1].host = cur[e][2]
    BY <1>3, InsertEffect
  <2>2. /\ pc[e] = "insert" /\ pc'[e] = "event" /\ UNCHANGED cur
        /\ \A x \in Evaluator \ {e} : pc'[x] = pc[x]
    BY <1>3 DEF InsertAlert, GoTo, BaseInv, TypeOK
  <2>3. P' \subseteq P \ {e}
    BY <2>2 DEF Inserting
  <2>4. A' \subseteq A \cup {Len(alerts) + 1}
    BY <2>1 DEF OpenAlerts
  <2>5. CASE cur[e] = <<r, h>>
    <3>1. e \in P
      BY <2>2, <2>5 DEF Inserting
    <3>. HIDE DEF A, P
    <3>2. \E x \in P : \E i : A' \subseteq A \cup {i} /\ P' \subseteq P \ {x}
      BY <2>3, <2>4, <3>1
    <3>3. QED
      BY <1>2, <3>2, StaysBounded
  <2>6. CASE cur[e] # <<r, h>>
    <3>1. Len(alerts) + 1 \notin A'
      BY <2>1, <2>6 DEF OpenAlerts, Pair
    <3>2. A' \subseteq A /\ P' \subseteq P
      BY <2>3, <2>4, <3>1
    <3>3. QED
      BY <1>2, <3>2, StaysBounded
  <2>7. QED
    BY <2>5, <2>6
<1>4. CASE \A e \in Evaluator : ~InsertAlert(e)
  <2>1. A' \subseteq A
    <3>1. CASE \E e \in Evaluator : UpdateAlert(e)
      <4>1. UNCHANGED Ids /\ \A i \in Ids : /\ alerts'[i].rule = alerts[i].rule
                                             /\ alerts'[i].host = alerts[i].host
                                             /\ alerts'[i].status = alerts[i].status
        BY <3>1, UpdateEffect DEF Ids
      <4>2. QED
        BY <4>1 DEF OpenAlerts
    <3>2. CASE \A e \in Evaluator : ~UpdateAlert(e)
      <4>1. Quiet
        BY <1>4, <3>2, QuietSteps
      <4>2. QED
        BY <4>1, AlertAssumption DEF OpenAlerts, Quiet, Ids
    <3>3. QED
      BY <3>1, <3>2
  <2>2. A = {} \/ P' \subseteq P
    BY InsertersAre
  <2>3. A' = {} \/ (A' \subseteq A /\ P' \subseteq P)
    BY <2>1, <2>2
  <2>4. QED
    BY <1>2, <2>3, StaysBounded
<1>5. QED
  BY <1>3, <1>4

LEMMA StepDuplicates ==
    ASSUME DuplicateInv, [FreeNext]_vars
    PROVE  DuplicateInv'
<1>. DEFINE n == Cardinality(Evaluator)
<1>1. BaseInv'
  BY StepBase DEF DuplicateInv
<1>2. n \in Nat
  BY AlertAssumption, FS_CardinalityType
<1>3. ASSUME NEW r \in Rule, NEW h \in Host
      PROVE  Bounded(OpenAlerts(r, h)', Inserting(r, h)', n)
  <2>1. Inserting(r, h)' \in SUBSET Evaluator
    BY DEF Inserting
  <2>2. Cardinality(Inserting(r, h)') <= n
    BY <2>1, EvaluatorsAre
  <2>3. Bounded(OpenAlerts(r, h), Inserting(r, h), n)
    BY DEF DuplicateInv
  <2>. HIDE DEF n
  <2>4. QED
    BY <1>2, <2>2, <2>3, StepBounded DEF DuplicateInv
<1>4. QED
  BY <1>1, <1>3 DEF DuplicateInv, Bounded

\* Overlapping evaluations leave at most one OPEN alert of a rule and host per
\* evaluator, although nothing holds the rows between the SELECT and the INSERT
\* and operators close alerts meanwhile (alert_engine.py:137-148).
THEOREM OpenAlertsAreBounded == Spec => []DuplicatesBounded
<1>1. Init => DuplicateInv
  <2>. SUFFICES ASSUME Init, NEW r \in Rule, NEW h \in Host
                PROVE  Bounded(OpenAlerts(r, h), Inserting(r, h), Cardinality(Evaluator))
    BY InitBase DEF DuplicateInv
  <2>1. OpenAlerts(r, h) = {} /\ Inserting(r, h) = {}
    BY DEF Init, OpenAlerts, Inserting, Ids
  <2>2. Cardinality(Evaluator) \in Nat
    BY AlertAssumption, FS_CardinalityType
  <2>3. QED
    BY <2>1, <2>2, FS_EmptySet DEF Bounded
<1>2. DuplicateInv => DuplicatesBounded
  <2>. SUFFICES ASSUME DuplicateInv, NEW r \in Rule, NEW h \in Host
                PROVE  Cardinality(OpenAlerts(r, h)) <= Cardinality(Evaluator)
    BY DEF DuplicatesBounded
  <2>1. Bounded(OpenAlerts(r, h), Inserting(r, h), Cardinality(Evaluator))
    BY DEF DuplicateInv
  <2>2. /\ Cardinality(Inserting(r, h)) \in Nat /\ Cardinality(Evaluator) \in Nat
        /\ Cardinality(OpenAlerts(r, h)) \in Nat
    BY EvaluatorsAre, OpenAlertsAre DEF Inserting, DuplicateInv, BaseInv
  <2>3. QED
    BY <2>1, <2>2 DEF Bounded
<1>3. QED
  BY <1>1, <1>2, StepDuplicates, NextIsFree, PTL DEF Spec
=============================================================================
