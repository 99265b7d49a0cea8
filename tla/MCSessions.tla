----------------------------- MODULE MCSessions ------------------------------
(* Instances of Sessions for TLC. *)
EXTENDS Sessions

CONSTANTS r1, r2, e1, e2, i1, i2, k1
=============================================================================
