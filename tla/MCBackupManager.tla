--------------------------- MODULE MCBackupManager ---------------------------
(* Instances of BackupManager for TLC: two calls that overlap, and two
   directories the archives may be in. *)
EXTENDS BackupManager, TLC

CONSTANTS w1, w2, d1, d2

Symmetry == Permutations({w1, w2}) \cup Permutations({d1, d2})
=============================================================================
