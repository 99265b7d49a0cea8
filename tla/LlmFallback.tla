----------------------------- MODULE LlmFallback -----------------------------
(***************************************************************************)
(* Questions to the LLM providers (src/backend/modules/ai/llm.py): the      *)
(* chain of providers, the health row each of them has in the database, and *)
(* the circuit breaker read from it.  Several threads ask at once; each     *)
(* database statement is an action of its own.                              *)
(***************************************************************************)
EXTENDS Naturals, Sequences, FiniteSets

CONSTANTS
    Thread,     \* threads that call ask_llm
    Provider,   \* names of providers
    Keyed,      \* the providers an API key is configured for
    Order,      \* AI_PROVIDER_ORDER
    None,       \* NULL, Python's None
    Threshold,  \* failures that open the circuit
    MaxFaults   \* bound: database statements that raise

ASSUME LlmAssumption ==
    /\ IsFiniteSet(Thread)
    /\ Keyed \subseteq Provider /\ Order \in Seq(Provider)
    /\ None \notin Provider \cup {"text", "failed", "raised"}
    /\ Threshold \in Nat /\ MaxFaults \in Nat

VARIABLES
    last,       \* ai_provider_health.last_test_success
    failed,     \* ai_provider_health.failed_calls
    stale,      \* providers whose count has failures from before a success
    faults,     \* statements that have raised
    at,         \* where each thread is in ask_llm, "out" outside of it
    pos,        \* the place in the chain its loop is at
    only,       \* the provider it was called with
    reply,      \* what the provider has answered
    result      \* how the call ended

llmTables == <<last, failed, stale>>
llmVars == <<last, failed, stale, faults, at, pos, only, reply, result>>

Replies == {"good", "odd", "garbled", "error", "timeout"}
At == {"out", "choose", "request", "record_ok", "reset", "record_error", "record_fail"}

\* A BOOLEAN column is a TINYINT: the driver gives the integers 0 and 1 for it.
Column(success) == IF success THEN "1" ELSE "0"

LlmInit ==
    /\ last = [p \in Provider |-> "NULL"]
    /\ failed = [p \in Provider |-> 0]
    /\ stale = {} /\ faults = 0
    /\ at = [t \in Thread |-> "out"]
    /\ pos = [t \in Thread |-> 1]
    /\ only = [t \in Thread |-> None]
    /\ reply = [t \in Thread |-> None]
    /\ result = [t \in Thread |-> None]

-----------------------------------------------------------------------------
\* Counts of Threshold and beyond are alike.
Plus1(n) == IF n < Threshold THEN n + 1 ELSE n

\* The provider a call is at; none once its loop is over.
Chosen(t) == IF only[t] # None THEN only[t]
             ELSE IF pos[t] <= Len(Order) THEN Order[pos[t]] ELSE None

\* Python's "is False": 0 is not the object False, so that no circuit is ever open.
IsFalse(v) == v = "False"

\* is_circuit_open; recent: is the last call less than 300 seconds ago.
CircuitOpen(p, recent) == IsFalse(last[p]) /\ failed[p] >= Threshold /\ recent

GoAt(t, l) == at' = [at EXCEPT ![t] = l]

\* ask_llm returns, or raises, to its caller.
End(t, r) ==
    /\ GoAt(t, "out")
    /\ result' = [result EXCEPT ![t] = r]
    /\ reply' = [reply EXCEPT ![t] = None]

\* The provider has failed: the caller gets that if it named the provider, the
\* loop goes on otherwise.
NextProvider(t) ==
    IF only[t] # None
    THEN End(t, "failed") /\ UNCHANGED pos
    ELSE /\ GoAt(t, "choose")
         /\ pos' = [pos EXCEPT ![t] = @ + 1]
         /\ reply' = [reply EXCEPT ![t] = None]
         /\ UNCHANGED result

\* ask_llm(..., provider=p), p = None for the chain.
Ask(t, p) ==
    /\ at[t] = "out" /\ result[t] = None
    /\ only' = [only EXCEPT ![t] = p]
    /\ GoAt(t, "choose")
    /\ UNCHANGED <<llmTables, faults, pos, reply, result>>

\* The caller takes the result.
Take(t) ==
    /\ result' = [result EXCEPT ![t] = None]
    /\ only' = [only EXCEPT ![t] = None]
    /\ pos' = [pos EXCEPT ![t] = 1]
    /\ UNCHANGED <<llmTables, faults, at, reply>>

-----------------------------------------------------------------------------
\* A named provider is asked whatever its circuit.
Choose(t) ==
    /\ at[t] = "choose" /\ Chosen(t) # None
    /\ \E recent \in BOOLEAN :
           LET p == Chosen(t)
               skip == p \notin Keyed \/ (only[t] = None /\ CircuitOpen(p, recent))
           IN  IF skip
               THEN NextProvider(t)
               ELSE /\ GoAt(t, "request")
                    /\ UNCHANGED <<pos, reply, result>>
    /\ UNCHANGED <<llmTables, faults, only>>

NobodyLeft(t) ==
    /\ at[t] = "choose" /\ Chosen(t) = None
    /\ End(t, "failed")
    /\ UNCHANGED <<llmTables, faults, pos, only>>

\* good: 200 with the expected fields.  odd: 200, JSON without them.
\* garbled: 200, not JSON.  error: another status or no connection.
Request(t) ==
    /\ at[t] = "request"
    /\ \E r \in Replies :
           /\ reply' = [reply EXCEPT ![t] = IF r \in {"error", "timeout"} THEN None ELSE r]
           /\ GoAt(t, CASE r \in {"good", "odd", "garbled"} -> "record_ok"
                        [] r = "error" -> "record_error"
                        [] r = "timeout" -> "record_fail")
    /\ UNCHANGED <<llmTables, faults, pos, only, result>>

RecordOk(t) ==
    /\ at[t] = "record_ok"
    /\ last' = [last EXCEPT ![Chosen(t)] = Column(TRUE)]
    /\ stale' = IF failed[Chosen(t)] = 0 THEN stale ELSE stale \cup {Chosen(t)}
    /\ GoAt(t, "reset")
    /\ UNCHANGED <<failed, faults, pos, only, reply, result>>

\* response.json(), then the fields of the reply: what does not parse is caught
\* and recorded as a failure as well, what lacks the fields raises out of
\* ask_llm, and the rest of the chain is not asked.
ReadReply(t) ==
    IF reply[t] = "garbled"
    THEN /\ GoAt(t, "record_fail")
         /\ reply' = [reply EXCEPT ![t] = None]
         /\ UNCHANGED result
    ELSE End(t, IF reply[t] = "odd" THEN "raised" ELSE "text")

\* Faulty variant: only an open circuit is reset.
ResetIfOpen(t) ==
    LET p == Chosen(t)
    IN  /\ at[t] = "reset"
        /\ IF CircuitOpen(p, TRUE)
           THEN failed' = [failed EXCEPT ![p] = 0] /\ stale' = stale \ {p}
           ELSE UNCHANGED <<failed, stale>>
        /\ ReadReply(t)
        /\ UNCHANGED <<last, faults, pos, only>>

\* reset_circuit.
Reset(t) ==
    LET p == Chosen(t)
    IN  /\ at[t] = "reset"
        /\ failed' = [failed EXCEPT ![p] = 0]
        /\ stale' = stale \ {p}
        /\ ReadReply(t)
        /\ UNCHANGED <<last, faults, pos, only>>

RecordFailure(t) ==
    LET p == Chosen(t)
    IN  /\ at[t] \in {"record_error", "record_fail"}
        /\ last' = [last EXCEPT ![p] = Column(FALSE)]
        /\ failed' = [failed EXCEPT ![p] = Plus1(@)]
        /\ NextProvider(t)
        /\ UNCHANGED <<stale, faults, only>>

\* A statement raises.  Inside the try block of _make_request the failure is
\* taken for one of the provider and recorded as such; in its handlers, and
\* where the provider's row is ensured, it leaves ask_llm.
LlmFault(t) ==
    /\ faults < MaxFaults /\ at[t] \notin {"out", "request"}
    /\ faults' = faults + 1
    /\ IF at[t] \in {"record_ok", "reset", "record_error"}
       THEN /\ GoAt(t, "record_fail")
            /\ reply' = [reply EXCEPT ![t] = None]
            /\ UNCHANGED result
       ELSE End(t, "raised")
    /\ UNCHANGED <<llmTables, pos, only>>

LlmStep(t) == Choose(t) \/ NobodyLeft(t) \/ Request(t) \/ RecordOk(t) \/ Reset(t)
                \/ RecordFailure(t)

-----------------------------------------------------------------------------
\* However the two statements of a success (llm.py:83-84) interleave with other
\* threads' failures, once no reset is on its way failed_calls counts no failure
\* from before the last recorded success; each reset that raises may leave one
\* provider with such a count, until its next success.
OldFailuresAreForgotten ==
    Cardinality({p \in stale : ~\E t \in Thread : at[t] = "reset" /\ Chosen(t) = p}) <= faults
=============================================================================
