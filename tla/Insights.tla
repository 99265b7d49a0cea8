------------------------------- MODULE Insights -------------------------------
(***************************************************************************)
(* The anomaly analysis (src/backend/modules/ai/log_intelligence.py), run   *)
(* by its job and by hand without the job's lock (api_ai.py), beside other  *)
(* requests that ask the LLM.  Each database statement is an action of its  *)
(* own; what the LLM does is LlmFallback.                                   *)
(***************************************************************************)
EXTENDS LlmFallback

CONSTANTS
    Job,            \* threads of the scheduler: they only run the analysis
    Pair,           \* hosts' metrics: pairs of a host and one of four metrics
    Histories,      \* what the newest 100 values of a pair may be, oldest first
    MinPoints,      \* MIN_DATA_POINTS
    MaxResolved     \* bound: insights that operators resolve

ASSUME InsightAssumption ==
    /\ Job \subseteq Thread /\ None \notin Pair
    /\ Histories \subseteq Seq(Nat) \ {<<>>}
    /\ MinPoints \in Nat /\ MaxResolved \in Nat

VARIABLES
    series,         \* metric_history: the newest values of each pair
    open,           \* ai_insights: how many of each pair are OPEN
    resolved,       \* and how many are RESOLVED
    op,             \* what each thread runs
    pc,             \* where it is in analyze_anomalies
    work,           \* the pairs its pass has still to visit
    cur             \* the anomalous pair it is at

insightVars == <<series, open, resolved, op, pc, work, cur>>
vars == <<insightVars, llmVars>>

Init ==
    /\ LlmInit
    /\ series \in [Pair -> Histories]
    /\ op = [t \in Thread |-> "idle"]
    /\ pc = [t \in Thread |-> "none"]
    /\ work = [t \in Thread |-> {}]
    /\ cur = [t \in Thread |-> None]
    /\ open = [p \in Pair |-> 0] /\ resolved = [p \in Pair |-> 0]

-----------------------------------------------------------------------------
\* Sums of the values and of their squares.
SumUpTo(s) == LET sum[i \in 0..Len(s)] == IF i = 0 THEN 0 ELSE sum[i - 1] + s[i]
              IN  sum[Len(s)]
Squares(s) == [i \in DOMAIN s |-> s[i] * s[i]]

\* n * (n - 1) times the sample variance of s; its root is Python's stdev.
Spread(s) == Len(s) * SumUpTo(Squares(s)) - SumUpTo(s) * SumUpTo(s)

\* n times the distance of v from the mean of s.
Distance(v, s) == IF Len(s) * v >= SumUpTo(s) THEN Len(s) * v - SumUpTo(s)
                                              ELSE SumUpTo(s) - Len(s) * v

\* Faulty variant: the value is compared with those before it.
ExceedsTheRest(s, z) ==
    LET rest == SubSeq(s, 1, Len(s) - 1)
        d == Distance(s[Len(s)], rest)
    IN  /\ Len(s) >= MinPoints /\ Spread(rest) > 0
        /\ d * d * (Len(rest) - 1) > z * z * Len(rest) * Spread(rest)

\* abs(z_score) > z for the newest value, which is one of those that mean and
\* deviation are taken of.
Exceeds(s, z) ==
    LET d == Distance(s[Len(s)], s)
    IN  /\ Len(s) >= MinPoints /\ Spread(s) > 0
        /\ d * d * (Len(s) - 1) > z * z * Len(s) * Spread(s)

Anomalies == {s \in Histories : Exceeds(s, 3)}
Extremes == {s \in Histories : Exceeds(s, 5)}

\* The severity of a new insight; it is stored and nothing reads it.
Severity(s) == IF s \in Extremes THEN "CRITICAL" ELSE "WARNING"

-----------------------------------------------------------------------------
PcAt(t, l) == pc' = [pc EXCEPT ![t] = l]

\* Back to the loop over hosts and metrics.
Proceed(t) == PcAt(t, "visit") /\ cur' = [cur EXCEPT ![t] = None]

\* analyze_anomalies returns or raises.
Leave(t) ==
    /\ op' = [op EXCEPT ![t] = "idle"]
    /\ PcAt(t, "none")
    /\ work' = [work EXCEPT ![t] = {}]
    /\ cur' = [cur EXCEPT ![t] = None]

\* The job fires or an admin posts run-analysis.  All hosts are taken to have
\* reported within the hour; hosts and metrics are visited in any order.
Start(t) ==
    /\ op[t] = "idle"
    /\ op' = [op EXCEPT ![t] = "analyze"]
    /\ PcAt(t, "visit")
    /\ work' = [work EXCEPT ![t] = Pair]
    /\ UNCHANGED <<series, open, resolved, cur, llmVars>>

\* The history of the next pair is read and judged.
Visit(t) ==
    /\ pc[t] = "visit"
    /\ \E p \in work[t] :
           /\ work' = [work EXCEPT ![t] = @ \ {p}]
           /\ IF series[p] \in Anomalies
              THEN PcAt(t, "existing") /\ cur' = [cur EXCEPT ![t] = p]
              ELSE UNCHANGED <<pc, cur>>
    /\ UNCHANGED <<series, open, resolved, op, llmVars>>

Return(t) ==
    /\ pc[t] = "visit" /\ work[t] = {}
    /\ Leave(t)
    /\ UNCHANGED <<series, open, resolved, llmVars>>

\* Faulty variants: any insight of the pair is taken for a standing one; one of
\* more than an hour ago is not.
FindAny(t) ==
    /\ pc[t] = "existing"
    /\ PcAt(t, IF open[cur[t]] + resolved[cur[t]] > 0 THEN "update" ELSE "insert")
    /\ UNCHANGED <<series, open, resolved, op, work, cur, llmVars>>

FindRecent(t) ==
    /\ pc[t] = "existing"
    /\ \E old \in BOOLEAN : PcAt(t, IF open[cur[t]] > 0 /\ ~old THEN "update" ELSE "insert")
    /\ UNCHANGED <<series, open, resolved, op, work, cur, llmVars>>

FindExisting(t) ==
    /\ pc[t] = "existing"
    /\ PcAt(t, IF open[cur[t]] > 0 THEN "update" ELSE "insert")
    /\ UNCHANGED <<series, open, resolved, op, work, cur, llmVars>>

\* By id: the values of the row are renewed, also when it was resolved since;
\* status and severity stay.
UpdateInsight(t) ==
    /\ pc[t] = "update"
    /\ Proceed(t)
    /\ UNCHANGED <<series, open, resolved, op, work, llmVars>>

InsertInsight(t) ==
    /\ pc[t] = "insert"
    /\ open' = [open EXCEPT ![cur[t]] = @ + 1]
    /\ PcAt(t, "notify")
    /\ UNCHANGED <<series, resolved, op, work, cur, llmVars>>

\* A row in notifications, which nothing here reads; it passes only where the table
\* was made by hand.
Notify(t) ==
    /\ pc[t] = "notify"
    /\ PcAt(t, "ask")
    /\ UNCHANGED <<series, open, resolved, op, work, cur, llmVars>>

\* As the schema is shipped MySQL refuses its CREATE TABLE notifications for the
\* column "read", a reserved word: the INSERT raises, the pass ends with it and the
\* LLM is not asked.
NotifyFails(t) ==
    /\ pc[t] = "notify"
    /\ Leave(t)
    /\ UNCHANGED <<series, open, resolved, llmVars>>

\* _generate_remediation_suggestion asks the chain.
AskForCommand(t) ==
    /\ pc[t] = "ask"
    /\ Ask(t, None)
    /\ PcAt(t, "answer")
    /\ UNCHANGED <<series, open, resolved, op, work, cur>>

\* A text becomes a suggestion, unless it is JSON that is not an object with a
\* text as its risk; that raises, as may ask_llm, into the handler of the loop.
Answer(t) ==
    /\ pc[t] = "answer" /\ result[t] # None
    /\ \/ result[t] = "text" /\ PcAt(t, "suggest") /\ UNCHANGED cur
       \/ Proceed(t)
    /\ Take(t)
    /\ UNCHANGED <<series, open, resolved, op, work>>

\* The pending row that Remediation takes on, and its notification; should that one
\* raise, the handler of the loop takes it and the row stays.
Suggest(t) ==
    /\ pc[t] = "suggest"
    /\ Proceed(t)
    /\ UNCHANGED <<series, open, resolved, op, work, llmVars>>

\* A statement of the analysis raises: inside _generate_remediation_suggestion
\* the loop goes on, elsewhere the pass is over.
Fault(t) ==
    /\ pc[t] \notin {"none", "ask", "answer"} /\ faults < MaxFaults
    /\ faults' = faults + 1
    /\ IF pc[t] = "suggest" THEN Proceed(t) /\ UNCHANGED <<op, work>> ELSE Leave(t)
    /\ UNCHANGED <<series, open, resolved, llmTables, at, pos, only, reply, result>>

-----------------------------------------------------------------------------
\* POST /ai/ask, /ai/suggest and /ai/analyze-logs ask the chain, a test asks
\* the provider it names; what they make of the answer is not stored here.
Question(t) ==
    /\ t \notin Job /\ op[t] = "idle"
    /\ op' = [op EXCEPT ![t] = "ask"]
    /\ \E p \in Provider \cup {None} : Ask(t, p)
    /\ UNCHANGED <<series, open, resolved, pc, work, cur>>

AnswerQuestion(t) ==
    /\ op[t] = "ask" /\ result[t] # None
    /\ op' = [op EXCEPT ![t] = "idle"]
    /\ Take(t)
    /\ UNCHANGED <<series, open, resolved, pc, work, cur>>

\* POST /ai/insights/<id>/resolve.
Resolve(p) ==
    /\ open[p] > 0 /\ resolved[p] < MaxResolved
    /\ open' = [open EXCEPT ![p] = @ - 1]
    /\ resolved' = [resolved EXCEPT ![p] = @ + 1]
    /\ UNCHANGED <<series, op, pc, work, cur, llmVars>>

\* Agents report; a host is deleted and reports anew.
Sample(p) ==
    /\ \E s \in Histories : series' = [series EXCEPT ![p] = s]
    /\ UNCHANGED <<open, resolved, op, pc, work, cur, llmVars>>

Analyze(t) ==
    \/ Visit(t) \/ Return(t) \/ FindExisting(t) \/ UpdateInsight(t) \/ InsertInsight(t)
    \/ Notify(t) \/ NotifyFails(t) \/ AskForCommand(t) \/ Answer(t) \/ Suggest(t)

Continue(t) == Analyze(t) \/ AnswerQuestion(t) \/ (LlmStep(t) /\ UNCHANGED insightVars)

Next ==
    \/ \E t \in Thread : \/ Start(t) \/ Question(t) \/ Continue(t) \/ Fault(t)
                         \/ LlmFault(t) /\ UNCHANGED insightVars
    \/ \E p \in Pair : Resolve(p) \/ Sample(p)

\* Threads run on, every request to a provider has a timeout, and the job fires
\* again and again in its thread.
Fairness ==
    /\ \A t \in Thread : WF_vars(Continue(t))
    /\ \A t \in Job : WF_vars(Start(t))

Spec == Init /\ [][Next]_vars /\ Fairness

-----------------------------------------------------------------------------
\* The newest value is part of its own baseline (log_intelligence.py:34-37, 93-97):
\* ten values, the MIN_DATA_POINTS of line 22, are not anomalous although the newest
\* is far off, and fewer than 27 not CRITICAL (line 100).
FindingsNeedHistory ==
    \A p \in Pair :
        /\ series[p] \in Anomalies => Len(series[p]) >= 11
        /\ Severity(series[p]) = "CRITICAL" => Len(series[p]) >= 27

\* Passes of the job and by hand may find no OPEN insight and insert one each
\* (log_intelligence.py:114-118, api_ai.py:80): as many as there are threads
\* stand OPEN for a pair, whatever is resolved or fails in between, and no more.
OpenInsightsBounded ==
    \A p \in Pair : open[p] <= Cardinality(Thread)

\* A pair that stays anomalous has an OPEN insight for good in the end, also when
\* its insights were resolved under the passes that update them
\* (log_intelligence.py:114-118, api_ai.py:34).
StandingAnomalyIsOpen ==
    \A p \in Pair : <>[](series[p] \in Anomalies) => <>[](open[p] > 0)
=============================================================================
