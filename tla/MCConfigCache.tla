---------------------------- MODULE MCConfigCache ----------------------------
(* A document that three values are written to, so that an edit during a write *)
(* may leave it dirty for ever, and one that comes and goes.                   *)
EXTENDS ConfigCache

CONSTANTS k1, k2, f1, f2

MCKeys == {k1, k2}
MCFields == {f1, f2}
MCValues == [k \in MCKeys |-> IF k = k1 THEN {{}, {f1}, {f2}} ELSE {{}, {f1}}]
MCOneKey == {k1}
MCOneValues == [k \in MCOneKey |-> {{}, {f1}}]
==============================================================================
