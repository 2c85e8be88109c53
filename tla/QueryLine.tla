------------------------------- MODULE QueryLine -------------------------------
(***************************************************************************)
(* What the SSH query client promises to those who give it commands: the   *)
(* commands that are not settled stand in one line, each of them once.  A  *)
(* command joins at the end; one leaves when it is answered or its time is *)
(* up, and the others keep their order; all leave together when the        *)
(* connection is gone.                                                     *)
(***************************************************************************)
EXTENDS Sequences, SequencesExt

CONSTANT Commands

VARIABLE line

Init == line = <<>>

Join(k) == k \notin ToSet(line) /\ line' = Append(line, k)

Leave == \E i \in DOMAIN line : line' = RemoveAt(line, i)

Clear == line' = <<>>

Next == (\E k \in Commands : Join(k)) \/ Leave \/ Clear

Spec == Init /\ [][Next]_line
================================================================================
