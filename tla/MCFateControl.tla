---------------------------- MODULE MCFateControl ----------------------------
(* Two handlers and the monitor, three process slots. *)
EXTENDS FateControl

MCClients == {1, 2}
MCOps == {"start", "stop", "restart"}
MCStartStop == {"start", "stop"}
MCProcs == {11, 12, 13}
==============================================================================
