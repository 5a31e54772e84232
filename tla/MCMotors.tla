------------------------------ MODULE MCMotors ------------------------------
(* Three of the 256 throttles, with their entries of throttle_map_high
   (hardware.c:57). *)
EXTENDS Motors

CONSTANTS main, replay

MCThrottle == {0, 1, 255}
MCThrottleMap == [t \in MCThrottle |-> CASE t = 0 -> 0 [] t = 1 -> 2457 [] t = 255 -> 8191]
Half == {0, 255}
HalfMap == [t \in Half |-> MCThrottleMap[t]]
TwoTasks == {main, replay}
=============================================================================
