----------------------------- MODULE MCSensors -----------------------------
(* A climate sensor at either address, none, and an unknown chip. *)
EXTENDS Sensors

MCChips == {[address |-> "EC", known |-> TRUE], [address |-> "EE", known |-> TRUE],
            [address |-> "EC", known |-> FALSE], [address |-> "none", known |-> FALSE]}
=============================================================================
