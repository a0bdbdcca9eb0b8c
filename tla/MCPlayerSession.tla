--------------------------- MODULE MCPlayerSession ---------------------------
(***************************************************************************)
(* The instance of PlayerSession that is model-checked: two clients, two   *)
(* of whose identities collide.                                            *)
(***************************************************************************)
EXTENDS PlayerSession, TLC

Identities == {1, 5}
=============================================================================
