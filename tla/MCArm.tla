------------------------------- MODULE MCArm -------------------------------
(* Four positions of the sticks: released (within the dead zone), one joint
   to each side, and both axes of both sticks pushed.  The limits are a few
   rounds apart, not a multiple of a round. *)
EXTENDS Arm

Stick(lx, ly, rx, ry) == [lx |-> lx, ly |-> ly, rx |-> rx, ry |-> ry]
MCSticks == {Stick(9, -9, 0, 8), Stick(-127, 20, 0, 0), Stick(127, 80, 0, 0),
             Stick(30, -128, 100, 40)}
MCMin == [j \in Joint |-> -70]
MCMax == [j \in Joint |-> IF j = "rotator" THEN 100 ELSE -10]
=============================================================================
