------------------------------- MODULE KeptStates -------------------------------
(***************************************************************************)
(* What a restore of the database promises, whatever crashes in between:   *)
(* the database always holds one whole state, which changes either by the  *)
(* work of the manager or by one switch to a state that is kept in a copy, *)
(* and a switch never throws away the only copy of a state.                *)
(***************************************************************************)
EXTENDS Naturals

VARIABLES
  db,      \* the state the database holds; work numbers its states
  latest,  \* the newest state there has been
  kept     \* the states of which there is a copy

vars == <<db, latest, kept>>

TypeOK == db \in Nat /\ latest \in Nat /\ kept \subseteq Nat

Init == TypeOK /\ db <= latest /\ \A d \in kept : d <= latest

\* Somebody works with the manager: a state nobody has seen before.
Work ==
  /\ latest' = latest + 1
  /\ db' = latest + 1
  /\ kept' = kept

\* The state is copied, or a copy is removed by its owner.
Keep   == kept' = kept \cup {db} /\ UNCHANGED <<db, latest>>
Forget == kept' \subseteq kept /\ UNCHANGED <<db, latest>>

\* The switch, forth or back.
Switch ==
  /\ db \in kept
  /\ db' \in kept
  /\ UNCHANGED <<latest, kept>>

Next == Work \/ Keep \/ Forget \/ Switch

Spec == Init /\ [][Next]_vars
================================================================================
