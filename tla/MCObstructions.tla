--------------------------- MODULE MCObstructions ---------------------------
(* Something near and nothing near; two directions, so that one can stay
   blocked while the other clears. *)
EXTENDS Obstructions

MCEchoes == {15, 100}
=============================================================================
