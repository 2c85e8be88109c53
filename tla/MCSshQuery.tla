------------------------------- MODULE MCSshQuery -------------------------------
(* Instances of SshQuery for TLC. *)
EXTENDS SshQuery

TwoSessions == 1 .. 2
ThreeSessions == 1 .. 3
=================================================================================
