---------------------------- MODULE MCAgentFleet -----------------------------
(* Instances of AgentFleet for TLC. *)
EXTENDS AgentFleet, TLC

CONSTANTS c1, r1, r2, h1, h2, i1, m1

OneMachine == m1 :> h1
OneAddress == m1 :> i1

\* The server's threads are alike.
Threads == Permutations(Request)
=============================================================================
