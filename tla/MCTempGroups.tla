------------------------------ MODULE MCTempGroups ------------------------------
(* Instances of TempGroups for TLC. *)
EXTENDS TempGroups
=================================================================================
