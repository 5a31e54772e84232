------------------------------ MODULE MCWheels ------------------------------
(* Motors 3 and 4 turn, so that a slip in either shows. *)
EXTENDS Wheels
=============================================================================
