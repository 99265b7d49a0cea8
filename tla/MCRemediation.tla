---------------------------- MODULE MCRemediation ----------------------------
(* Instances of Remediation for TLC: three requests that race, so that two may be
   about a suggestion and a third come later; two commands that tell an approved
   one from a modified one, and a blocked command. *)
EXTENDS Remediation, TLC

CONSTANTS r1, r2, r3, s1, safe1, safe2, bad

Symmetry == Permutations({r1, r2, r3}) \cup Permutations({safe1, safe2})
=============================================================================
