---------------------------- MODULE MCBotConnection ----------------------------
(* Instances of BotConnection for TLC. *)
EXTENDS BotConnection, TLC

Jobs2 == {"j1", "j2"}
=================================================================================
