------------------------------ MODULE MCDbRestore ------------------------------
(* Small instances of DbRestore. *)
EXTENDS DbRestore, TLC

CONSTANTS scheduled, manual, free

\* The names outside the schedule are alike.
Symmetry == Permutations({manual, free})
================================================================================
