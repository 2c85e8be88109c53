---------------------------- MODULE MCPlayer ----------------------------
(* Small instances of Player. *)
EXTENDS Player, TLC
================================================================================
