------------------------- MODULE MCInstanceHandoff -------------------------
(* Three incarnations: an owner and two newcomers that race for its lease. *)
EXTENDS InstanceHandoff

MCProcs == 1..3
============================================================================
