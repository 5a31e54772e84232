------------------------------ MODULE MCRover ------------------------------
(* Instances of the main board: sets of controller packets, each for one part
   of its behaviour. *)
EXTENDS Rover

(* A packet of the connected controller with buttons b and throttle r2. *)
Pad(b, r2) == [bits |-> {"connected"} \union b, r2 |-> r2, l2 |-> 0, lx |-> 0, sum |-> TRUE]

Released == Pad({}, 0)
Gone == [Released EXCEPT !.bits = {}]
Corrupt == [Pad({"cross", "record"}, 1) EXCEPT !.sum = FALSE]

(* Every mode and every light, but nothing ever recorded or replayed. *)
ModePackets ==
  {Released, Gone, Corrupt, Pad({}, 1), Pad({"cross"}, 1), Pad({"auto"}, 1),
   Pad({"r3", "horn"}, 0), Pad({"led"}, 0),
   [Released EXCEPT !.l2 = 1, !.lx = -4]}

(* Recording and replaying. *)
ReplayPackets ==
  {Released, Gone, Pad({"record"}, 1), Pad({"replay"}, 0)}
StopPackets == {Released, Pad({"record"}, 1), Pad({"replay"}, 0)}

(* ... and the arm; a button is released by the packet of another, or by the
   loss of the controller. *)
ArmReplayPackets ==
  {Gone, Pad({"record"}, 1), Pad({"replay"}, 0), Pad({"cross"}, 0)}

MCThrottle == {0, 1, 30}
MCAngle == {-1, 0}
Bumper == {"COLLISION"}
=============================================================================
