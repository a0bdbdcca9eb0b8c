---------------------------- MODULE MCNetChannel ----------------------------
(***************************************************************************)
(* Workloads for model-checking NetChannel between a client and a server.  *)
(***************************************************************************)
EXTENDS NetChannel

Load(client, server) ==
    [e \in End |-> IF e = "client" THEN client ELSE server]

Messages(urgent, vim, common) ==
    [c \in Class |-> CASE c = "urgent" -> urgent
                       [] c = "vim"    -> vim
                       [] c = "common" -> common]

Nothing == Messages(0, 0, 0)

OneStream  == Load(Messages(0, 2, 0), Nothing)
OneCommon  == Load(Messages(0, 2, 1), Nothing)
=============================================================================
