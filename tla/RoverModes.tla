----------------------------- MODULE RoverModes -----------------------------
(***************************************************************************)
(* What the mode state machine of the rover promises, with no queue, no    *)
(* packets and no tasks: which mode may follow which, that the laser is    *)
(* switched in the driving mode alone and dark in every other, and that    *)
(* the arm works in the arm mode alone.  Module Rover implements it.       *)
(***************************************************************************)

VARIABLES mode, laser, arm

vars == <<mode, laser, arm>>

(* Every change of mode puts the laser out; the arm follows the mode. *)
Move(from, to) ==
  /\ mode \in from
  /\ mode' = to
  /\ laser' = FALSE
  /\ arm' = (to = "arm")

Connect        == Move({"disconnected"}, "driving")
LoseController == Move({"driving", "recording", "replaying", "arm"}, "disconnected")
MeetObstacle   == Move({"driving"}, "error")
Choose         == \E m \in {"recording", "replaying", "arm", "autonomous"} : Move({"driving"}, m)
Resume         == Move({"recording", "replaying", "arm", "autonomous", "error"}, "driving")

SwitchLaser ==
  /\ mode = "driving"
  /\ laser' = ~laser
  /\ UNCHANGED <<mode, arm>>

Init == mode = "disconnected" /\ laser = FALSE /\ arm = FALSE
Next == Connect \/ LoseController \/ MeetObstacle \/ Choose \/ Resume \/ SwitchLaser
Spec == Init /\ [][Next]_vars
=============================================================================
