----------------------------- MODULE MCGlobalXP -----------------------------
(* Days shrunk to ticks, in the order the code's periods have. *)
EXTENDS GlobalXP

MCPauses == <<2, 3>>
=============================================================================
