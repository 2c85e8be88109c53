---------------------------- MODULE MCSupportQueue ----------------------------
(* Small instances of SupportQueue. *)
EXTENDS SupportQueue, TLC

CONSTANTS u1, us, a1, a2, s1, t1, t2, adm

\* One identity on two connections, or on one, and a supporter.
TwoOnly   == (a1 :> u1) @@ (a2 :> u1) @@ (s1 :> us)
Single    == (a1 :> u1) @@ (s1 :> us)
================================================================================
