--------------------------- MODULE Insights_proofs ---------------------------
(***************************************************************************)
(* Theorems about Insights for every set of threads, providers and pairs.    *)
(* CallInv says where a call of ask_llm may be, ForgottenInv which           *)
(* providers count old failures, InsertInv what the passes may still insert.  *)
(***************************************************************************)
EXTENDS Insights, FiniteSetTheorems, SequenceTheorems, TLAPS

\* A call's result is there once it is over, and the caller's next call waits for it
\* to be taken.
CallInv ==
    /\ at \in [Thread -> At]
    /\ pos \in [Thread -> Nat]
    /\ only \in [Thread -> Provider \cup {None}]
    /\ result \in [Thread -> {None, "text", "failed", "raised"}]
    /\ \A t \in Thread : result[t] # None => at[t] = "out"

LEMMA InitCall == Init => CallInv
BY LlmAssumption DEF Init, LlmInit, CallInv, At

\* The steps of ask_llm itself.
LEMMA StepCall ==
    ASSUME CallInv, NEW t \in Thread, LlmStep(t) \/ LlmFault(t)
    PROVE  CallInv'
<1>. USE LlmAssumption DEF CallInv, GoAt
<1>1. at[t] # "out" /\ result[t] = None /\ UNCHANGED only
  BY DEF LlmStep, Choose, NobodyLeft, Request, RecordOk, Reset, RecordFailure, LlmFault
<1>2. ASSUME NEW l \in At, GoAt(t, l), UNCHANGED <<pos, result>> PROVE CallInv'
  BY <1>1, <1>2
<1>3. ASSUME NEW r \in {"text", "failed", "raised"}, End(t, r), UNCHANGED pos PROVE CallInv'
  BY <1>1, <1>3 DEF End, At
<1>4. ASSUME NextProvider(t) PROVE CallInv'
  <2>1. CASE only[t] # None
    BY <1>3, <1>4, <2>1 DEF NextProvider
  <2>2. CASE only[t] = None
    <3>1. /\ GoAt(t, "choose") /\ UNCHANGED result
          /\ pos' = [pos EXCEPT ![t] = @ + 1]
      BY <1>4, <2>2 DEF NextProvider
    <3>2. pos' \in [Thread -> Nat]
      BY <3>1
    <3>3. at' \in [Thread -> At]
      BY <3>1 DEF At
    <3>4. \A u \in Thread : result'[u] # None => at'[u] = "out"
      BY <1>1, <3>1
    <3>5. QED
      BY <1>1, <3>1, <3>2, <3>3, <3>4
  <2>3. QED
    BY <2>1, <2>2
<1>5. CASE Choose(t)
  BY <1>2, <1>4, <1>5 DEF Choose, At
<1>6. CASE NobodyLeft(t)
  BY <1>3, <1>6 DEF NobodyLeft
<1>7. CASE Request(t)
  <2>1. PICK r \in Replies :
           GoAt(t, CASE r \in {"good", "odd", "garbled"} -> "record_ok"
                     [] r = "error" -> "record_error"
                     [] r = "timeout" -> "record_fail")
    BY <1>7 DEF Request
  <2>2. \E l \in At : GoAt(t, l)
    BY <2>1 DEF Replies, At
  <2>3. QED
    BY <1>2, <1>7, <2>2 DEF Request
<1>8. CASE RecordOk(t)
  BY <1>2, <1>8 DEF RecordOk, At
<1>9. CASE Reset(t)
  BY <1>2, <1>3, <1>9 DEF Reset, ReadReply, At
<1>10. CASE RecordFailure(t)
  BY <1>4, <1>10 DEF RecordFailure
<1>11. CASE LlmFault(t)
  BY <1>2, <1>3, <1>11 DEF LlmFault, At
<1>12. QED
  BY <1>5, <1>6, <1>7, <1>8, <1>9, <1>10, <1>11 DEF LlmStep

LEMMA NextCall == CallInv /\ [Next]_vars => CallInv'
<1>. SUFFICES ASSUME CallInv, [Next]_vars PROVE CallInv'
  OBVIOUS
<1>1. ASSUME NEW t \in Thread, AskForCommand(t) \/ Question(t) PROVE CallInv'
  <2>1. PICK p \in Provider \cup {None} : Ask(t, p)
    BY <1>1 DEF AskForCommand, Question
  <2>2. QED
    BY <2>1 DEF Ask, GoAt, At, CallInv
<1>2. ASSUME NEW t \in Thread, Answer(t) \/ AnswerQuestion(t) PROVE CallInv'
  BY <1>2 DEF Answer, AnswerQuestion, Take, CallInv
<1>3. ASSUME NEW t \in Thread,
             \/ Start(t) \/ Visit(t) \/ Return(t) \/ FindExisting(t) \/ UpdateInsight(t)
             \/ InsertInsight(t) \/ Notify(t) \/ NotifyFails(t) \/ Suggest(t) \/ Fault(t)
      PROVE  CallInv'
  BY <1>3
  DEF Start, Visit, Return, FindExisting, UpdateInsight, InsertInsight, Notify, NotifyFails,
      Suggest, Fault, llmVars, CallInv
<1>4. ASSUME NEW p \in Pair, Resolve(p) \/ Sample(p) PROVE CallInv'
  BY <1>4 DEF Resolve, Sample, llmVars, CallInv
<1>5. CASE UNCHANGED vars
  BY <1>5 DEF vars, llmVars, CallInv
<1>6. QED
  BY <1>1, <1>2, <1>3, <1>4, <1>5, StepCall DEF Next, Continue, Analyze

-----------------------------------------------------------------------------
\* The providers whose count has old failures and no reset on its way.
Unforgotten == {p \in stale : ~\E t \in Thread : at[t] = "reset" /\ Chosen(t) = p}

ForgottenInv ==
    /\ at \in [Thread -> At] /\ faults \in Nat
    /\ IsFiniteSet(Unforgotten) /\ Cardinality(Unforgotten) <= faults

LEMMA InitForgotten == Init => ForgottenInv
<1>. SUFFICES ASSUME Init PROVE ForgottenInv
  OBVIOUS
<1>1. Unforgotten = {} /\ faults = 0 /\ at \in [Thread -> At]
  BY DEF Init, LlmInit, Unforgotten, At
<1>2. QED
  BY <1>1, FS_EmptySet DEF ForgottenInv

\* Nothing is left behind as long as no provider joins the set.
LEMMA NoneLeftBehind ==
    ASSUME ForgottenInv, at' \in [Thread -> At], faults' \in Nat, faults' >= faults,
           Unforgotten' \subseteq Unforgotten
    PROVE  ForgottenInv'
<1>1. /\ IsFiniteSet(Unforgotten')
      /\ Cardinality(Unforgotten') <= Cardinality(Unforgotten)
  BY FS_Subset DEF ForgottenInv
<1>2. Cardinality(Unforgotten') \in Nat /\ Cardinality(Unforgotten) \in Nat
  BY <1>1, FS_CardinalityType DEF ForgottenInv
<1>3. QED
  BY <1>1, <1>2 DEF ForgottenInv

\* A step that leaves the place of every reset alone, and puts nobody on the list.
LEMMA ResetsStay ==
    ASSUME ForgottenInv, at' \in [Thread -> At], UNCHANGED <<faults, stale>>,
           \A t \in Thread : at[t] = "reset" =>
               at'[t] = "reset" /\ pos'[t] = pos[t] /\ only'[t] = only[t]
    PROVE  ForgottenInv'
<1>1. \A t \in Thread : at[t] = "reset" => Chosen(t)' = Chosen(t)
  BY DEF Chosen
<1>2. Unforgotten' \subseteq Unforgotten
  BY <1>1 DEF Unforgotten
<1>3. QED
  BY <1>2, NoneLeftBehind DEF ForgottenInv

LEMMA ForgottenStep ==
    ASSUME ForgottenInv, CallInv, NEW t \in Thread, LlmStep(t)
    PROVE  ForgottenInv'
<1>. USE DEF ForgottenInv
<1>1. CASE Choose(t) \/ NobodyLeft(t) \/ Request(t) \/ RecordFailure(t)
  <2>1. /\ at[t] # "reset" /\ UNCHANGED <<faults, stale, only>>
    BY <1>1 DEF Choose, NobodyLeft, Request, RecordFailure, llmTables
  <2>2. PICK l \in At : at' = [at EXCEPT ![t] = l]
    <3>1. CASE Choose(t)
      BY <3>1 DEF Choose, NextProvider, End, GoAt, At
    <3>2. CASE NobodyLeft(t)
      BY <3>2 DEF NobodyLeft, End, GoAt, At
    <3>3. CASE Request(t)
      BY <3>3 DEF Request, Replies, GoAt, At
    <3>4. CASE RecordFailure(t)
      BY <3>4 DEF RecordFailure, NextProvider, End, GoAt, At
    <3>5. QED
      BY <1>1, <3>1, <3>2, <3>3, <3>4
  <2>3. pos' = pos \/ pos' = [pos EXCEPT ![t] = @ + 1]
    BY <1>1 DEF Choose, NobodyLeft, Request, RecordFailure, NextProvider
  <2>4. ASSUME NEW u \in Thread, at[u] = "reset"
        PROVE  at'[u] = "reset" /\ pos'[u] = pos[u] /\ only'[u] = only[u]
    BY <2>1, <2>2, <2>3, <2>4 DEF CallInv
  <2>5. at' \in [Thread -> At]
    BY <2>2
  <2>6. QED
    BY <2>1, <2>4, <2>5, ResetsStay
<1>2. CASE RecordOk(t)
  <2>1. /\ at' = [at EXCEPT ![t] = "reset"] /\ stale' \subseteq stale \cup {Chosen(t)}
        /\ UNCHANGED <<faults, pos, only>>
    BY <1>2 DEF RecordOk, GoAt
  <2>2. at' \in [Thread -> At] /\ at'[t] = "reset"
    BY <2>1 DEF At
  <2>3. \A u \in Thread : Chosen(u)' = Chosen(u)
    BY <2>1 DEF Chosen
  <2>4. Unforgotten' \subseteq Unforgotten
    BY <2>1, <2>2, <2>3 DEF Unforgotten
  <2>5. QED
    BY <2>1, <2>2, <2>4, NoneLeftBehind
<1>3. CASE Reset(t)
  <2>1. stale' = stale \ {Chosen(t)} /\ UNCHANGED <<faults, pos, only>>
    BY <1>3 DEF Reset
  <2>2. PICK l \in At : at' = [at EXCEPT ![t] = l]
    BY <1>3 DEF Reset, ReadReply, End, GoAt, At
  <2>3. at' \in [Thread -> At]
    BY <2>2
  <2>4. \A u \in Thread : Chosen(u)' = Chosen(u)
    BY <2>1 DEF Chosen
  <2>5. Unforgotten' \subseteq Unforgotten
    BY <2>1, <2>2, <2>4 DEF Unforgotten
  <2>6. QED
    BY <2>1, <2>3, <2>5, NoneLeftBehind
<1>4. QED
  BY <1>1, <1>2, <1>3 DEF LlmStep

\* A reset that raises leaves one provider behind, and is one fault.
LEMMA ForgottenFault ==
    ASSUME ForgottenInv, NEW t \in Thread, LlmFault(t)
    PROVE  ForgottenInv'
<1>. USE DEF ForgottenInv
<1>1. faults' = faults + 1 /\ UNCHANGED <<stale, pos, only>>
  BY DEF LlmFault, llmTables
<1>2. PICK l \in At : at' = [at EXCEPT ![t] = l]
  BY DEF LlmFault, End, GoAt, At
<1>3. \A u \in Thread : Chosen(u)' = Chosen(u)
  BY <1>1 DEF Chosen
<1>4. Unforgotten' \subseteq Unforgotten \cup {Chosen(t)}
  BY <1>1, <1>2, <1>3 DEF Unforgotten
<1>5. /\ IsFiniteSet(Unforgotten \cup {Chosen(t)})
      /\ Cardinality(Unforgotten \cup {Chosen(t)}) <= Cardinality(Unforgotten) + 1
      /\ Cardinality(Unforgotten) \in Nat
  <2>1. Cardinality(Unforgotten) \in Nat
    BY FS_CardinalityType
  <2>2. IsFiniteSet(Unforgotten \cup {Chosen(t)})
    BY FS_AddElement
  <2>3. \/ Cardinality(Unforgotten \cup {Chosen(t)}) = Cardinality(Unforgotten)
        \/ Cardinality(Unforgotten \cup {Chosen(t)}) = Cardinality(Unforgotten) + 1
    BY FS_AddElement
  <2>4. QED
    BY <2>1, <2>2, <2>3
<1>6. /\ IsFiniteSet(Unforgotten')
      /\ Cardinality(Unforgotten') <= Cardinality(Unforgotten \cup {Chosen(t)})
  BY <1>4, <1>5, FS_Subset
<1>7. /\ Cardinality(Unforgotten') \in Nat
      /\ Cardinality(Unforgotten \cup {Chosen(t)}) \in Nat
  BY <1>5, <1>6, FS_CardinalityType
<1>8. QED
  BY <1>1, <1>2, <1>5, <1>6, <1>7

LEMMA NextForgotten == ForgottenInv /\ CallInv /\ [Next]_vars => ForgottenInv'
<1>. SUFFICES ASSUME ForgottenInv, CallInv, [Next]_vars PROVE ForgottenInv'
  OBVIOUS
<1>1. ASSUME NEW t \in Thread, AskForCommand(t) \/ Question(t) PROVE ForgottenInv'
  <2>1. PICK p \in Provider \cup {None} : Ask(t, p)
    BY <1>1 DEF AskForCommand, Question
  <2>2. /\ at[t] = "out" /\ at' = [at EXCEPT ![t] = "choose"]
        /\ only' = [only EXCEPT ![t] = p] /\ UNCHANGED <<faults, stale, pos>>
    BY <2>1 DEF Ask, GoAt, llmTables
  <2>3. at' \in [Thread -> At]
    BY <2>2 DEF At, ForgottenInv
  <2>4. ASSUME NEW u \in Thread, at[u] = "reset"
        PROVE  at'[u] = "reset" /\ pos'[u] = pos[u] /\ only'[u] = only[u]
    BY <2>2, <2>4 DEF CallInv
  <2>5. QED
    BY <2>2, <2>3, <2>4, ResetsStay
<1>2. ASSUME NEW t \in Thread, Answer(t) \/ AnswerQuestion(t) PROVE ForgottenInv'
  <2>1. result[t] # None /\ Take(t)
    BY <1>2 DEF Answer, AnswerQuestion
  <2>2. at[t] = "out"
    BY <2>1 DEF CallInv
  <2>3. /\ only' = [only EXCEPT ![t] = None] /\ pos' = [pos EXCEPT ![t] = 1]
        /\ UNCHANGED <<faults, stale, at>>
    BY <2>1 DEF Take, llmTables
  <2>4. ASSUME NEW u \in Thread, at[u] = "reset"
        PROVE  at'[u] = "reset" /\ pos'[u] = pos[u] /\ only'[u] = only[u]
    BY <2>2, <2>3, <2>4 DEF CallInv
  <2>5. at' \in [Thread -> At]
    BY <2>3 DEF ForgottenInv
  <2>6. QED
    BY <2>3, <2>4, <2>5, ResetsStay
<1>3. ASSUME UNCHANGED llmVars PROVE ForgottenInv'
  BY <1>3, ResetsStay DEF llmVars, ForgottenInv
<1>4. ASSUME NEW t \in Thread, Fault(t) PROVE ForgottenInv'
  <2>1. faults' = faults + 1 /\ UNCHANGED <<stale, at, pos, only>>
    BY <1>4 DEF Fault, llmTables
  <2>2. Unforgotten' = Unforgotten
    BY <2>1 DEF Unforgotten, Chosen
  <2>3. QED
    BY <2>1, <2>2, NoneLeftBehind DEF ForgottenInv
<1>5. ASSUME NEW t \in Thread,
             \/ Start(t) \/ Visit(t) \/ Return(t) \/ FindExisting(t) \/ UpdateInsight(t)
             \/ InsertInsight(t) \/ Notify(t) \/ NotifyFails(t) \/ Suggest(t)
      PROVE  UNCHANGED llmVars
  BY <1>5 DEF Start, Visit, Return, FindExisting, UpdateInsight, InsertInsight, Notify,
              NotifyFails, Suggest
<1>6. ASSUME NEW p \in Pair, Resolve(p) \/ Sample(p) PROVE UNCHANGED llmVars
  BY <1>6 DEF Resolve, Sample
<1>7. CASE UNCHANGED vars
  BY <1>3, <1>7 DEF vars
<1>8. QED
  BY <1>1, <1>2, <1>3, <1>4, <1>5, <1>6, <1>7, ForgottenStep, ForgottenFault
  DEF Next, Continue, Analyze

\* However the two statements of a success (llm.py:83-84) interleave with failures,
\* each statement that raises leaves at most one provider with a count of failures
\* from before its last success, among any number of threads and providers.
THEOREM OldFailuresStayFew == Spec => []OldFailuresAreForgotten
<1>1. ForgottenInv => OldFailuresAreForgotten
  BY DEF ForgottenInv, Unforgotten, OldFailuresAreForgotten
<1>2. QED
  BY InitCall, NextCall, InitForgotten, NextForgotten, <1>1, PTL DEF Spec

-----------------------------------------------------------------------------
\* The passes that have found no OPEN insight of p and have not inserted theirs.
Inserting(p) == {t \in Thread : pc[t] = "insert" /\ cur[t] = p}

Bounded(p) == open[p] + Cardinality(Inserting(p)) <= Cardinality(Thread)

InsertTypes ==
    /\ open \in [Pair -> Nat]
    /\ pc \in [Thread -> {"none", "visit", "existing", "update", "insert", "notify", "ask",
                          "answer", "suggest"}]
    /\ cur \in [Thread -> Pair \cup {None}]
    /\ work \in [Thread -> SUBSET Pair]
    /\ \A t \in Thread : pc[t] \in {"existing", "insert"} => cur[t] \in Pair

InsertInv == InsertTypes /\ \A p \in Pair : Bounded(p)

\* Passes are threads, of which there are finitely many.
LEMMA InsertingFinite ==
    ASSUME NEW S, S \subseteq Thread
    PROVE  IsFiniteSet(S) /\ Cardinality(S) \in Nat /\ Cardinality(S) <= Cardinality(Thread)
<1>1. IsFiniteSet(S) /\ Cardinality(S) <= Cardinality(Thread)
  BY LlmAssumption, FS_Subset
<1>2. QED
  BY <1>1, FS_CardinalityType

LEMMA ThreadCount == Cardinality(Thread) \in Nat
BY InsertingFinite

LEMMA InitInsert == Init => InsertInv
<1>. SUFFICES ASSUME Init PROVE InsertInv
  OBVIOUS
<1>1. InsertTypes
  BY InsightAssumption DEF Init, InsertTypes
<1>2. ASSUME NEW p \in Pair PROVE Bounded(p)
  <2>1. open[p] = 0 /\ Inserting(p) \subseteq Thread
    BY DEF Init, Inserting
  <2>2. QED
    BY <2>1, InsertingFinite, ThreadCount DEF Bounded
<1>3. QED
  BY <1>1, <1>2 DEF InsertInv

\* A step that adds neither an insight nor a pass about to insert one.
LEMMA NoMore ==
    ASSUME InsertInv, InsertTypes', NEW p \in Pair, open'[p] <= open[p],
           Inserting(p)' \subseteq Inserting(p)
    PROVE  Bounded(p)'
<1>1. Inserting(p) \subseteq Thread
  BY DEF Inserting
<1>2. /\ IsFiniteSet(Inserting(p)) /\ Cardinality(Inserting(p)) \in Nat
      /\ Cardinality(Inserting(p)') \in Nat
  BY <1>1, InsertingFinite
<1>3. Cardinality(Inserting(p)') <= Cardinality(Inserting(p))
  BY <1>2, FS_Subset
<1>4. open[p] + Cardinality(Inserting(p)) <= Cardinality(Thread)
  BY DEF InsertInv, Bounded
<1>5. open[p] \in Nat /\ open'[p] \in Nat
  BY DEF InsertInv, InsertTypes
<1>6. QED
  BY <1>2, <1>3, <1>4, <1>5, ThreadCount DEF Bounded

LEMMA FindStep == ASSUME InsertInv, NEW t \in Thread, FindExisting(t) PROVE InsertInv'
<1>. USE DEF InsertInv, InsertTypes
<1>1. /\ pc' = [pc EXCEPT ![t] = IF open[cur[t]] > 0 THEN "update" ELSE "insert"]
      /\ UNCHANGED <<open, cur, work>> /\ pc[t] = "existing"
  BY DEF FindExisting, PcAt
<1>2. InsertTypes'
  BY <1>1
<1>3. ASSUME NEW p \in Pair PROVE Bounded(p)'
  <2>1. CASE open[p] > 0
    <3>1. Inserting(p)' \subseteq Inserting(p)
      BY <1>1, <2>1 DEF Inserting
    <3>2. open'[p] <= open[p]
      BY <1>1
    <3>3. QED
      BY <1>2, <3>1, <3>2, NoMore
  <2>2. CASE open[p] = 0
    <3>1. Inserting(p)' \subseteq Thread
      BY DEF Inserting
    <3>2. QED
      BY <1>1, <2>2, <3>1, InsertingFinite, ThreadCount DEF Bounded
  <2>3. QED
    BY <2>1, <2>2
<1>4. QED
  BY <1>2, <1>3

LEMMA InsertStep == ASSUME InsertInv, NEW t \in Thread, InsertInsight(t) PROVE InsertInv'
<1>. USE DEF InsertInv, InsertTypes
<1>1. /\ pc[t] = "insert" /\ cur[t] \in Pair
      /\ open' = [open EXCEPT ![cur[t]] = @ + 1]
      /\ pc' = [pc EXCEPT ![t] = "notify"]
      /\ UNCHANGED <<cur, work>>
  BY DEF InsertInsight, PcAt
<1>2. InsertTypes'
  BY <1>1
<1>3. ASSUME NEW p \in Pair PROVE Bounded(p)'
  <2>1. CASE p # cur[t]
    <3>1. Inserting(p)' \subseteq Inserting(p) /\ open'[p] <= open[p]
      BY <1>1, <2>1 DEF Inserting
    <3>2. QED
      BY <1>2, <3>1, NoMore
  <2>2. CASE p = cur[t]
    <3>1. open'[p] = open[p] + 1
      BY <1>1, <2>2
    <3>2. Inserting(p)' = Inserting(p) \ {t}
      BY <1>1 DEF Inserting
    <3>3. t \in Inserting(p)
      BY <1>1, <2>2 DEF Inserting
    <3>4. IsFiniteSet(Inserting(p)) /\ Cardinality(Inserting(p)) \in Nat
      <4>1. Inserting(p) \subseteq Thread
        BY DEF Inserting
      <4>2. QED
        BY <4>1, InsertingFinite
    <3>5. Cardinality(Inserting(p)') = Cardinality(Inserting(p)) - 1
      BY <3>2, <3>3, <3>4, FS_RemoveElement
    <3>6. open[p] + Cardinality(Inserting(p)) <= Cardinality(Thread)
      BY DEF Bounded
    <3>7. open[p] \in Nat
      OBVIOUS
    <3>8. QED
      BY <3>1, <3>4, <3>5, <3>6, <3>7, ThreadCount DEF Bounded
  <2>3. QED
    BY <2>1, <2>2
<1>4. QED
  BY <1>2, <1>3

\* Every other step of a thread leaves open alone, and moves nobody to "insert".
LEMMA OtherStep ==
    ASSUME InsertInv, NEW t \in Thread,
           \/ Start(t) \/ Visit(t) \/ Return(t) \/ UpdateInsight(t) \/ Notify(t)
           \/ NotifyFails(t) \/ AskForCommand(t) \/ Answer(t) \/ Suggest(t) \/ Fault(t)
    PROVE  InsertInv'
<1>. USE DEF InsertInv, InsertTypes
<1>1. open' = open
  BY DEF Start, Visit, Return, UpdateInsight, Notify, NotifyFails, AskForCommand, Answer,
         Suggest, Fault
<1>2. PICK l \in {"none", "visit", "existing", "notify", "ask", "answer", "suggest"},
          c \in Pair \cup {None} :
          /\ pc' = [pc EXCEPT ![t] = l] /\ cur' = [cur EXCEPT ![t] = c]
          /\ l = "existing" => c \in Pair
  <2>1. CASE Visit(t)
    <3>1. PICK p \in work[t] : IF series[p] \in Anomalies
              THEN PcAt(t, "existing") /\ cur' = [cur EXCEPT ![t] = p]
              ELSE UNCHANGED <<pc, cur>>
      BY <2>1 DEF Visit
    <3>2. p \in Pair /\ pc[t] = "visit"
      BY <2>1 DEF Visit
    <3>3. CASE series[p] \in Anomalies
      BY <3>1, <3>2, <3>3 DEF PcAt
    <3>4. CASE series[p] \notin Anomalies
      <4>1. pc' = [pc EXCEPT ![t] = "visit"] /\ cur' = [cur EXCEPT ![t] = cur[t]]
        BY <3>1, <3>2, <3>4
      <4>2. cur[t] \in Pair \cup {None}
        OBVIOUS
      <4>3. QED
        BY <4>1, <4>2
    <3>5. QED
      BY <3>3, <3>4
  <2>2. CASE Return(t) \/ NotifyFails(t)
    BY <2>2 DEF Return, NotifyFails, Leave, PcAt
  <2>3. CASE UpdateInsight(t) \/ Suggest(t)
    BY <2>3 DEF UpdateInsight, Suggest, Proceed, PcAt
  <2>4. CASE Start(t)
    <3>1. pc' = [pc EXCEPT ![t] = "visit"] /\ cur' = [cur EXCEPT ![t] = cur[t]]
      BY <2>4 DEF Start, PcAt
    <3>2. QED
      BY <3>1
  <2>5. CASE Notify(t)
    <3>1. pc' = [pc EXCEPT ![t] = "ask"] /\ cur' = [cur EXCEPT ![t] = cur[t]]
      BY <2>5 DEF Notify, PcAt
    <3>2. QED
      BY <3>1
  <2>6. CASE AskForCommand(t)
    <3>1. pc' = [pc EXCEPT ![t] = "answer"] /\ cur' = [cur EXCEPT ![t] = cur[t]]
      BY <2>6 DEF AskForCommand, PcAt
    <3>2. QED
      BY <3>1
  <2>7. CASE Answer(t)
    <3>1. CASE PcAt(t, "suggest") /\ UNCHANGED cur
      <4>1. pc' = [pc EXCEPT ![t] = "suggest"] /\ cur' = [cur EXCEPT ![t] = cur[t]]
        BY <3>1 DEF PcAt
      <4>2. QED
        BY <4>1
    <3>2. CASE Proceed(t)
      BY <3>2 DEF Proceed, PcAt
    <3>3. QED
      BY <2>7, <3>1, <3>2 DEF Answer
  <2>8. CASE Fault(t)
    BY <2>8 DEF Fault, Proceed, Leave, PcAt
  <2>9. QED
    BY <2>1, <2>2, <2>3, <2>4, <2>5, <2>6, <2>7, <2>8
<1>3. work' \in [Thread -> SUBSET Pair]
  <2>1. CASE Visit(t)
    <3>1. PICK p \in work[t] : work' = [work EXCEPT ![t] = @ \ {p}]
      BY <2>1 DEF Visit
    <3>2. QED
      BY <3>1
  <2>2. CASE ~Visit(t)
    <3>1. work' = work \/ work' = [work EXCEPT ![t] = Pair] \/ work' = [work EXCEPT ![t] = {}]
      BY <2>2 DEF Start, Return, UpdateInsight, Notify, NotifyFails, AskForCommand, Answer,
                  Suggest, Fault, Leave
    <3>2. QED
      BY <3>1
  <2>3. QED
    BY <2>1, <2>2
<1>4. InsertTypes'
  BY <1>1, <1>2, <1>3
<1>5. ASSUME NEW p \in Pair PROVE Bounded(p)'
  <2>1. Inserting(p)' \subseteq Inserting(p)
    BY <1>2 DEF Inserting
  <2>2. open'[p] <= open[p]
    BY <1>1
  <2>3. QED
    BY <1>4, <2>1, <2>2, NoMore
<1>6. QED
  BY <1>4, <1>5

LEMMA ResolveStep == ASSUME InsertInv, NEW q \in Pair, Resolve(q) PROVE InsertInv'
<1>. USE DEF InsertInv, InsertTypes
<1>1. /\ open[q] > 0 /\ open' = [open EXCEPT ![q] = @ - 1] /\ UNCHANGED <<pc, cur, work>>
  BY DEF Resolve
<1>2. InsertTypes'
  BY <1>1
<1>3. ASSUME NEW p \in Pair PROVE Bounded(p)'
  <2>1. Inserting(p)' \subseteq Inserting(p)
    BY <1>1 DEF Inserting
  <2>2. open'[p] <= open[p]
    BY <1>1
  <2>3. QED
    BY <1>2, <2>1, <2>2, NoMore
<1>4. QED
  BY <1>2, <1>3

LEMMA NothingInserted == InsertInv /\ UNCHANGED <<open, pc, cur, work>> => InsertInv'
BY DEF InsertInv, InsertTypes, Bounded, Inserting

LEMMA NextInsert == InsertInv /\ [Next]_vars => InsertInv'
<1>. SUFFICES ASSUME InsertInv, [Next]_vars PROVE InsertInv'
  OBVIOUS
<1>1. ASSUME NEW t \in Thread, Question(t) \/ AnswerQuestion(t) PROVE InsertInv'
  BY <1>1, NothingInserted DEF Question, AnswerQuestion
<1>2. ASSUME UNCHANGED insightVars PROVE InsertInv'
  BY <1>2, NothingInserted DEF insightVars
<1>3. ASSUME NEW p \in Pair, Sample(p) PROVE InsertInv'
  BY <1>3, NothingInserted DEF Sample
<1>4. CASE UNCHANGED vars
  BY <1>2, <1>4 DEF vars
<1>5. QED
  BY <1>1, <1>2, <1>3, <1>4, FindStep, InsertStep, OtherStep, ResolveStep
  DEF Next, Continue, Analyze

\* The look for an OPEN insight and the insert are two statements, and the pass by
\* hand takes no lock: no more insights than threads ever stand OPEN for a pair, and
\* a pass that finds one adds none, for any number of threads, hosts and metrics.
THEOREM OpenInsightsStayFew == Spec => []OpenInsightsBounded
<1>1. InsertInv => OpenInsightsBounded
  <2>. SUFFICES ASSUME InsertInv, NEW p \in Pair PROVE open[p] <= Cardinality(Thread)
    BY DEF OpenInsightsBounded
  <2>1. Inserting(p) \subseteq Thread
    BY DEF Inserting
  <2>2. open[p] \in Nat /\ Cardinality(Inserting(p)) \in Nat
    BY <2>1, InsertingFinite DEF InsertInv, InsertTypes
  <2>3. QED
    BY <2>2, ThreadCount DEF InsertInv, Bounded
<1>2. QED
  BY InitInsert, NextInsert, <1>1, PTL DEF Spec
=============================================================================
