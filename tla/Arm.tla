-------------------------------- MODULE Arm --------------------------------
(***************************************************************************)
(* The mechanical arm (mainboard/main/arm.c).  The main task calls         *)
(* arm_enable when the arm mode is entered or left and arm_move for every  *)
(* packet; both post to a short queue without waiting.  arm_task works on  *)
(* the last command it took until another one is waiting.                  *)
(*                                                                         *)
(* Angles are in twentieths of a degree, the change in one round of        *)
(* arm_task for an axis value of one: the code's floats divide by          *)
(* RESOLUTION and so are whole numbers here.  Definitions that the other   *)
(* device, Ring, has too are named after the arm.                          *)
(***************************************************************************)
EXTENDS Integers, Sequences

CONSTANTS
  ARM_QUEUE_LEN,        (* slots of the arm's queue: 4                     *)
  Sticks,               (* positions of the two sticks                     *)
  MIN_ANGLE, MAX_ANGLE  (* limits of each joint                            *)

RESOLUTION == 20
Joint == {"rotator", "boom", "grapple", "arm"}
Axis == -128..127

ASSUME ArmAssumption ==
  /\ ARM_QUEUE_LEN \in Nat \ {0}
  /\ Sticks \subseteq [lx: Axis, ly: Axis, rx: Axis, ry: Axis]
  /\ MIN_ANGLE \in [Joint -> Int]
  /\ MAX_ANGLE \in [Joint -> Int]
  /\ \A j \in Joint : MIN_ANGLE[j] <= MAX_ANGLE[j]
  /\ MIN_ANGLE["rotator"] <= 0 /\ 0 <= MAX_ANGLE["rotator"]

VARIABLES
  status_arm_enabled, (* written by the main task, read in arm_move        *)
  arm_queue,          (* commands arm_task has not taken yet               *)
  moving,             (* arm_task is in its inner loop                     *)
  delta,              (* what a round of that loop adds to each joint      *)
  angle,              (* the joints' angles, as sent to the servos         *)
  refused             (* history, read by no action: the queue was full    *)
                      (* when the arm was last disabled                    *)

task == <<moving, delta, angle>>
arm_vars == <<status_arm_enabled, arm_queue, task, refused>>

Still == [j \in Joint |-> 0]
COMMAND_STOP == [command |-> "stop", delta |-> Still]

(* An axis value is halved towards zero. *)
Halved(v) == IF v < 0 THEN -((-v) \div 2) ELSE v \div 2
Magnitude(v) == IF v < 0 THEN -v ELSE v

(* abs() of a float delta: its whole degrees. *)
Degrees(d) == Magnitude(d) \div RESOLUTION

(* One servo for the two axes of a stick: x and y as the change of x's joint
   and of y's joint. *)
OneServo(x, y) ==
  IF Degrees(x) > Degrees(y) THEN [x |-> x, y |-> 0] ELSE [x |-> 0, y |-> y]

(* COMMAND_MOVE_ANGLE of the halved axes, with the deltas arm_task makes of
   it when it takes it. *)
COMMAND_MOVE_ANGLE(lx, ly, rx, ry) ==
  LET left == OneServo(-lx, ly) right == OneServo(rx, ry)
  IN [command |-> "move",
      delta |-> [j \in Joint |-> CASE j = "rotator" -> left.x
                                   [] j = "boom"    -> left.y
                                   [] j = "grapple" -> right.x
                                   [] j = "arm"     -> right.y]]

DEAD_ZONE == 4
Command(s) ==
  LET lx == Halved(s.lx) ly == Halved(s.ly) rx == Halved(s.rx) ry == Halved(s.ry)
  IN IF \E v \in {lx, ly, rx, ry} : Magnitude(v) > DEAD_ZONE
     THEN COMMAND_MOVE_ANGLE(lx, ly, rx, ry)
     ELSE COMMAND_STOP

Delta == -64..64
Deltas == [Joint -> Delta]
ArmCommands == {COMMAND_STOP} \cup [command: {"move"}, delta: Deltas]

(* The limits are part of the type: no servo is ever told to turn beyond
   them, whatever the sticks do. *)
ArmTypeOK ==
  /\ status_arm_enabled \in BOOLEAN
  /\ arm_queue \in Seq(ArmCommands)
  /\ Len(arm_queue) <= ARM_QUEUE_LEN
  /\ moving \in BOOLEAN
  /\ delta \in Deltas
  /\ angle \in [Joint -> Int]
  /\ refused \in BOOLEAN
  /\ \A j \in Joint : MIN_ANGLE[j] <= angle[j] /\ angle[j] <= MAX_ANGLE[j]

(* arm_init *)
ArmInit ==
  /\ status_arm_enabled = FALSE
  /\ arm_queue = <<>>
  /\ moving = FALSE
  /\ delta = Still
  /\ angle = [MIN_ANGLE EXCEPT !["rotator"] = 0]
  /\ refused = FALSE

-----------------------------------------------------------------------------
(* The main task *)

(* xQueueSend without waiting, its result ignored. *)
Post(c) ==
  arm_queue' = IF Len(arm_queue) < ARM_QUEUE_LEN THEN Append(arm_queue, c) ELSE arm_queue

(* arm_move *)
ArmMove(s) ==
  /\ status_arm_enabled
  /\ Post(Command(s))
  /\ UNCHANGED <<status_arm_enabled, task, refused>>

Full == Len(arm_queue) = ARM_QUEUE_LEN

(* Mutant: the STOP is posted when the arm is enabled. *)
ArmEnableLate(enabled) ==
  /\ status_arm_enabled # enabled
  /\ status_arm_enabled' = enabled
  /\ IF enabled THEN Post(COMMAND_STOP) ELSE UNCHANGED arm_queue
  /\ refused' = (~enabled /\ Full)
  /\ UNCHANGED task

(* arm_enable with the value it has already does nothing. *)
ArmEnable(enabled) ==
  /\ status_arm_enabled # enabled
  /\ status_arm_enabled' = enabled
  /\ IF enabled THEN UNCHANGED arm_queue ELSE Post(COMMAND_STOP)
  /\ refused' = (~enabled /\ Full)
  /\ UNCHANGED task

-----------------------------------------------------------------------------
(* arm_task *)

(* xQueueReceive; a STOP goes back to waiting. *)
ArmReceive ==
  /\ ~moving
  /\ arm_queue # <<>>
  /\ arm_queue' = Tail(arm_queue)
  /\ moving' = (Head(arm_queue).command = "move")
  /\ delta' = Head(arm_queue).delta
  /\ UNCHANGED <<status_arm_enabled, angle, refused>>

Clamp(j, a) ==
  IF a > MAX_ANGLE[j] THEN MAX_ANGLE[j] ELSE IF a < MIN_ANGLE[j] THEN MIN_ANGLE[j] ELSE a

(* Mutant: a joint near its upper limit is not moved on. *)
RoundShort ==
  /\ moving
  /\ arm_queue = <<>>
  /\ angle' = [j \in Joint |-> IF angle[j] + delta[j] > MAX_ANGLE[j]
                               THEN angle[j] ELSE Clamp(j, angle[j] + delta[j])]
  /\ UNCHANGED <<status_arm_enabled, arm_queue, moving, delta, refused>>

(* A round of the inner loop, to the end of its delay. *)
Round ==
  /\ moving
  /\ arm_queue = <<>>
  /\ angle' = [j \in Joint |-> Clamp(j, angle[j] + delta[j])]
  /\ UNCHANGED <<status_arm_enabled, arm_queue, moving, delta, refused>>

(* Mutant: the loop is left for a full queue only. *)
InterruptedNot ==
  /\ moving
  /\ Len(arm_queue) = ARM_QUEUE_LEN
  /\ moving' = FALSE
  /\ UNCHANGED <<status_arm_enabled, arm_queue, delta, angle, refused>>

(* A message is waiting: the loop ends. *)
Interrupted ==
  /\ moving
  /\ arm_queue # <<>>
  /\ moving' = FALSE
  /\ UNCHANGED <<status_arm_enabled, arm_queue, delta, angle, refused>>

-----------------------------------------------------------------------------
MainTask ==
  \/ \E s \in Sticks : ArmMove(s)
  \/ \E b \in BOOLEAN : ArmEnable(b)

ArmTask == ArmReceive \/ Round \/ Interrupted

ArmNext == MainTask \/ ArmTask

ArmSpec == ArmInit /\ [][ArmNext]_arm_vars

(* arm_task blocks in xQueueReceive and in its delay only. *)
ArmFairSpec == ArmSpec /\ WF_arm_vars(ArmTask)

-----------------------------------------------------------------------------
(* Properties *)

AtRest == ~moving /\ arm_queue = <<>>

(* A disabled arm with no command left before it moves in one case only: the
   queue was full when the arm mode was left, and refused the STOP
   (arm.c:71-85).  Whatever else was queued or under way then, the STOP is the
   last command carried out, and no stick is obeyed after it. *)
OnlyRefusedStopMoves == ~status_arm_enabled /\ moving /\ arm_queue = <<>> => refused

(* The STOP of arm_enable(false), once it is in the queue, brings the arm to
   rest, however many commands are queued before it. *)
AcceptedStopRests ==
  (~status_arm_enabled /\ arm_queue # <<>> /\ arm_queue[Len(arm_queue)] = COMMAND_STOP)
    ~> (AtRest \/ status_arm_enabled)

(* Commands are carried out in order and the last one until there is another:
   a stick that is held takes its joint to the limit. *)
HeldStickArrives ==
  \A j \in Joint :
    <>[](moving /\ arm_queue = <<>> /\ delta[j] # 0)
      => <>[](angle[j] = IF delta[j] > 0 THEN MAX_ANGLE[j] ELSE MIN_ANGLE[j])

(* README.md:111: "The arm can only be used while in "arm" mode."  Out of the
   arm mode it comes to rest. *)
DisabledRests == ~status_arm_enabled ~> (AtRest \/ status_arm_enabled)
=============================================================================
