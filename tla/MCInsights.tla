----------------------------- MODULE MCInsights ------------------------------
(* Instances of Insights for TLC. *)
EXTENDS Insights, TLC

CONSTANTS t1, t2, p1, p2, p3, cpu1

\* n values: 1 and 2 in turn, then a jump to 100.
Jump(n) == [i \in 1..n |-> IF i = n THEN 100 ELSE 1 + (i % 2)]

\* As many values as MIN_DATA_POINTS asks for, and one less than a CRITICAL insight
\* takes.
Jumps == {Jump(10), Jump(26)}

Chain == <<p1, p2>>
=============================================================================
