------------------------------- MODULE Rover -------------------------------
(***************************************************************************)
(* The main board of the rover: its message queue, the mode state machine  *)
(* of the main task (mainboard/main/hardware.c) and the route recorder     *)
(* (module Recorder) whose replay task drives the same motors.             *)
(*                                                                         *)
(* Tasks: the main task (hardware_run), replay_task, the UART task that    *)
(* queues controller packets, the obstruction task that queues bumper      *)
(* events, and the OTA task that suspends the rover.  The main task reads  *)
(* and writes variables that replay_task writes too, so the handling of    *)
(* one message is several steps; `mpc' is its program counter.             *)
(***************************************************************************)
EXTENDS Integers, Sequences

CONSTANTS
  SAMPLE_LIST_COUNT, Blank, (* of the recorder                             *)
  QUEUE_LEN,                (* slots of main_queue                         *)
  Packets,                  (* controller packets the UART task may read   *)
  Events,                   (* messages the obstruction task may post      *)
  Upgrade,                  (* the user may ask for a firmware upgrade     *)
  Throttle, Angle           (* values of the throttle and of the steering  *)

Buttons == {"connected", "cross", "r3", "horn", "record", "replay", "auto", "led"}

(* What the AUTO mode sets as throttle (hardware.c:329). *)
AutonomousThrottle == 30

(* A ps5_t: the state bits process_ps5_message computes from it, the two
   trigger values, the left stick, and whether its checksum is right. *)
Packet == [bits: SUBSET Buttons, r2: Throttle, l2: Throttle, lx: Int, sum: BOOLEAN]

ASSUME RoverAssumption ==
  /\ SAMPLE_LIST_COUNT \in Nat \ {0}
  /\ QUEUE_LEN \in Nat \ {0}
  /\ Throttle \subseteq Nat
  /\ {0, AutonomousThrottle} \subseteq Throttle
  /\ Angle \subseteq Int
  /\ 0 \in Angle
  /\ \A p \in Packets : p \in Packet /\ p.lx \div 4 \in Angle
  /\ Upgrade \in BOOLEAN
  /\ Events \subseteq {"COLLISION", "OBSTRUCTION_DETECTED", "OBSTRUCTION_CLEARED"}

(* The fields of metrics_t the recorder samples. *)
Metric == [throttle: Throttle, direction: {-1, 0, 1}, steering: Angle]

ASSUME BlankAssumption == Blank \notin Metric

VARIABLES
  recording, replaying, route, route_index,       (* module Recorder       *)
  replay_cursor, rpc, suspended, call,
  main_queue,   (* messages not yet received                               *)
  fsm,          (* fsm_current_state                                       *)
  prev,         (* current_state: the state bits of the previous packet    *)
  mpc,          (* where the main task is                                  *)
  msg,          (* the message in hand                                     *)
  drive,        (* current_throttle and current_direction                  *)
  metrics,      (* the throttle and direction the metrics show             *)
  output,       (* throttle and direction last given to the motors         *)
  at,           (* where each caller is in process_throttle                *)
  loaded,       (* process_throttle's local throttle, of each caller       *)
  steering,     (* metrics.steering_angle and the servo                    *)
  panel,        (* laser, horn, arm, LED ring, pad LED and pad triggers    *)
  ota           (* progress of hardware_suspend in the OTA task            *)

Rec == INSTANCE Recorder WITH Sample <- Metric

recVars == <<recording, replaying, route, route_index, replay_cursor, rpc, suspended, call>>
queued   == <<main_queue, ota>>
modeVars == <<fsm, panel>>
motors   == <<metrics, output, at, loaded>>
motion   == <<drive, motors, steering>>
hands    == <<mpc, msg, prev>>
vars     == <<recVars, queued, modeVars, motion, hands>>

Modes == {"disconnected", "driving", "recording", "replaying", "arm", "autonomous", "error"}
Rings == {"disconnected", "idle", "attention", "recording", "replay", "arm", "autonomous", "error"}
Colours == {"off", "white", "red", "green", "blue", "cyan"}
Panel == [laser: BOOLEAN, horn: BOOLEAN, arm: BOOLEAN, locked: BOOLEAN,
          ring: Rings, led: Colours]
Types == {"PS5", "STOP", "REPLAY_END", "COLLISION", "OBSTRUCTION_DETECTED", "OBSTRUCTION_CLEARED"}

(* A zeroed ps5_t; also the data of the messages that carry none. *)
Zero == [bits |-> {}, r2 |-> 0, l2 |-> 0, lx |-> 0, sum |-> TRUE]
Message(t) == [type |-> t, data |-> Zero]
Messages == [type: Types, data: Packet]

(* hardware_run, between two messages and while it handles one:
     receive  blocked in xQueueReceive
     handle   a message in hand, its handler not begun
     toggle   about to call record_toggle_replay
     toggled  inside record_toggle_replay, or back from it
     buttons  in the driving handler, past the RECORD and REPLAY buttons
     throttle the handler returned, process_throttle not yet done
     halted   out of the loop, suspended for ever                          *)
MainPC == {"receive", "handle", "toggle", "toggled", "buttons", "throttle", "halted"}

(* The tasks that call process_throttle, and what a call of it does next: load
   current_throttle, tell the metrics, or drive the motors. *)
Caller == {"main", "replay"}
ThrottlePC == {"load", "tell", "drive"}

TypeOK ==
  /\ Rec!TypeOK
  /\ main_queue \in Seq(Messages) /\ Len(main_queue) <= QUEUE_LEN
  /\ fsm \in Modes
  /\ prev \subseteq Buttons
  /\ mpc \in MainPC
  /\ msg \in Messages
  /\ drive \in [throttle: Throttle, direction: {-1, 0, 1}]
  /\ metrics \in [throttle: Throttle, direction: {-1, 0, 1}]
  /\ output \in [throttle: Throttle, direction: {-1, 0, 1}]
  /\ at \in [Caller -> ThrottlePC]
  /\ loaded \in [Caller -> Throttle]
  /\ steering \in Angle
  /\ panel \in Panel
  /\ ota \in {"off", "stopSent", "uartStopped"}

(* hardware_init, which ends in on_enter_disconnected_mode. *)
Init ==
  /\ Rec!Init
  /\ main_queue = <<>>
  /\ fsm = "disconnected"
  /\ prev = {}
  /\ mpc = "receive"
  /\ msg = Message("PS5")
  /\ drive = [throttle |-> 0, direction |-> 0]
  /\ metrics = [throttle |-> 0, direction |-> 0]
  /\ output = [throttle |-> 0, direction |-> 0]
  /\ at = [t \in Caller |-> "load"]
  /\ loaded = [t \in Caller |-> 0]
  /\ steering = 0
  /\ panel = [laser |-> FALSE, horn |-> FALSE, arm |-> FALSE, locked |-> FALSE,
              ring |-> "disconnected", led |-> "off"]
  /\ ota = "off"

(* Mutants: a queue that grows, and one whose last message is overwritten. *)
SendUnbounded(m) == main_queue' = Append(main_queue, m)
SendOverwriting(m) ==
  main_queue' = IF Len(main_queue) < QUEUE_LEN THEN Append(main_queue, m)
                ELSE [main_queue EXCEPT ![QUEUE_LEN] = m]

-----------------------------------------------------------------------------
(* hardware_send_message: no wait, a message for a full queue is lost. *)
Send(m) ==
  main_queue' = IF Len(main_queue) < QUEUE_LEN THEN Append(main_queue, m) ELSE main_queue

(* is_going_reverse; set_throttle from the triggers; process_throttle's
   direction, which is -1 for anything that is not 1; the steering angle. *)
Reverse(p) == p.r2 = 0 /\ p.l2 > 0
DriveOf(p) == [throttle  |-> IF Reverse(p) THEN p.l2 ELSE p.r2,
               direction |-> IF Reverse(p) THEN 0 ELSE 1]
OutputOf(d) == [throttle |-> d.throttle, direction |-> IF d.direction = 1 THEN 1 ELSE -1]
Stopped == [throttle |-> 0, direction |-> 0]
AngleOf(p) == p.lx \div 4

(* hardware_run clears a packet with a wrong checksum, which then counts as
   connected, and clears a packet that says the controller is gone. *)
Sanitised(p) ==
  IF ~p.sum THEN [Zero EXCEPT !.bits = {"connected"}]
  ELSE IF "connected" \notin p.bits THEN Zero
  ELSE p

(* is_now and was, on the packet in hand. *)
IsNow(b) == b \in msg.data.bits \ prev
Was(b)   == b \in prev \ msg.data.bits

-----------------------------------------------------------------------------
(* The on_enter and on_exit functions: what they do to lights, horn, laser,
   arm and pad; the triggers are locked while the sticks must not drive. *)
LaserOff(a) == [a EXCEPT !.laser = FALSE]

(* Mutants: the horn goes on; the triggers stay free; the arm stays enabled. *)
OnEnterErrorLoud(a) == [LaserOff(a) EXCEPT !.ring = "error", !.locked = TRUE]
OnEnterErrorFree(a) == [LaserOff(a) EXCEPT !.horn = FALSE, !.ring = "error"]
OnExitArmEnabled(a) == [a EXCEPT !.locked = FALSE]

OnEnterDisconnected(a) == [LaserOff(a) EXCEPT !.horn = FALSE, !.ring = "disconnected"]
OnEnterDriving(a)    == [LaserOff(a) EXCEPT !.horn = FALSE, !.ring = "idle", !.led = "white"]
OnEnterRecording(a)  == [LaserOff(a) EXCEPT !.horn = FALSE, !.ring = "recording", !.led = "red"]
OnEnterReplaying(a)  == [LaserOff(a) EXCEPT !.horn = FALSE, !.ring = "replay", !.led = "green",
                                            !.locked = TRUE]
OnEnterArm(a)        == [LaserOff(a) EXCEPT !.ring = "arm", !.arm = TRUE, !.led = "blue",
                                            !.locked = TRUE]
OnEnterAutonomous(a) == [LaserOff(a) EXCEPT !.ring = "autonomous", !.led = "cyan",
                                            !.locked = TRUE]
OnEnterError(a)      == [LaserOff(a) EXCEPT !.horn = FALSE, !.ring = "error", !.locked = TRUE]

OnExitDriving(a)   == LaserOff(a)
OnExitReplaying(a) == [a EXCEPT !.locked = FALSE]
OnExitArm(a)       == [a EXCEPT !.arm = FALSE, !.locked = FALSE]
OnExitError(a)     == [a EXCEPT !.locked = FALSE]

(* Leave for mode m with panel a and the throttle as drv; the handler returns
   and process_throttle is next. *)
Enter(m, a, drv) ==
  /\ fsm' = m
  /\ panel' = a
  /\ drive' = drv
  /\ mpc' = "throttle"

Return ==
  /\ mpc' = "throttle"
  /\ UNCHANGED <<modeVars, drive>>

-----------------------------------------------------------------------------
(* The handlers.  Each is the first step of its function, from the message
   to the return or to the call of record_toggle_replay. *)

IsPS5 == msg.type = "PS5"

HandleDisconnected ==
  /\ fsm = "disconnected"
  /\ IF IsPS5 THEN Enter("driving", OnEnterDriving(panel), drive) ELSE Return
  /\ UNCHANGED <<recVars, steering>>

HandleAutonomous ==
  /\ fsm = "autonomous"
  /\ IF IsPS5 /\ IsNow("auto")
     THEN Enter("driving", OnEnterDriving(panel), Stopped)
     ELSE Return
  /\ UNCHANGED <<recVars, steering>>

(* Mutant: the error mode obeys the triggers. *)
HandleErrorDriving ==
  /\ fsm = "error"
  /\ IF IsPS5 /\ IsNow("cross")
     THEN Enter("driving", OnEnterDriving(OnExitError(panel)), drive)
     ELSE Enter("error", panel, DriveOf(msg.data))
  /\ UNCHANGED <<recVars, steering>>

HandleError ==
  /\ fsm = "error"
  /\ IF IsPS5 /\ IsNow("cross")
     THEN Enter("driving", OnEnterDriving(OnExitError(panel)), drive)
     ELSE Return
  /\ UNCHANGED <<recVars, steering>>

(* arm_move changes nothing but the arm's own queue. *)
HandleArm ==
  /\ fsm = "arm"
  /\ IF IsPS5 /\ Was("connected")
     THEN Enter("disconnected", OnEnterDisconnected(OnExitArm(panel)), drive)
     ELSE IF IsPS5 /\ IsNow("cross")
     THEN Enter("driving", OnEnterDriving(OnExitArm(panel)), drive)
     ELSE Return
  /\ UNCHANGED <<recVars, steering>>

(* Mutant: the throttle is not set to zero. *)
DrivingObstacleRolling ==
  /\ msg.type \in {"COLLISION", "OBSTRUCTION_DETECTED"}
  /\ Enter("error", OnEnterError(OnExitDriving(panel)), drive)
  /\ UNCHANGED recVars

(* From an obstacle to the error mode, without a look at the packet. *)
DrivingObstacle ==
  /\ msg.type \in {"COLLISION", "OBSTRUCTION_DETECTED"}
  /\ Enter("error", OnEnterError(OnExitDriving(panel)), Stopped)
  /\ UNCHANGED recVars

DrivingDisconnect ==
  /\ IsPS5 /\ Was("connected")
  /\ Enter("disconnected", OnEnterDisconnected(OnExitDriving(panel)), drive)
  /\ UNCHANGED recVars

(* The RECORD button: record_toggle_record, and the recording mode if that
   started a recording; otherwise on to the next buttons. *)
DrivingButtons ==
  /\ IsPS5 /\ ~Was("connected")
  /\ IF IsNow("record") THEN Rec!ToggleRecord ELSE UNCHANGED recVars
  /\ IF IsNow("record") /\ recording'
     THEN Enter("recording", OnEnterRecording(OnExitDriving(panel)), drive)
     ELSE /\ mpc' = IF IsNow("replay") THEN "toggle" ELSE "buttons"
          /\ UNCHANGED <<modeVars, drive>>

DrivingIgnores ==
  /\ msg.type \in {"REPLAY_END", "OBSTRUCTION_CLEARED"}
  /\ Return
  /\ UNCHANGED recVars

HandleDriving ==
  /\ fsm = "driving"
  /\ DrivingObstacle \/ DrivingDisconnect \/ DrivingButtons \/ DrivingIgnores
  /\ UNCHANGED steering

(* Mutant: no check afterwards whether the recorder still records. *)
RecordPacketUnchecked ==
  /\ steering' = AngleOf(msg.data)
  /\ Rec!RecordProcess([throttle |-> metrics.throttle, direction |-> metrics.direction,
                        steering |-> AngleOf(msg.data)])
  /\ drive' = DriveOf(msg.data)
  /\ mpc' = "throttle"
  /\ UNCHANGED modeVars

(* Throttle, steering, then record_process on the metrics: the steering of this
   packet, the throttle the last process_throttle told them. *)
RecordPacket ==
  /\ steering' = AngleOf(msg.data)
  /\ Rec!RecordProcess([throttle |-> metrics.throttle, direction |-> metrics.direction,
                        steering |-> AngleOf(msg.data)])
  /\ IF recording'
     THEN /\ drive' = DriveOf(msg.data)
          /\ mpc' = "throttle"
          /\ UNCHANGED modeVars
     ELSE Enter("driving", OnEnterDriving(panel), DriveOf(msg.data))

HandleRecording ==
  /\ fsm = "recording"
  /\ \/ /\ ~IsPS5
        /\ Return
        /\ UNCHANGED <<recVars, steering>>
     \/ /\ IsPS5 /\ Was("connected")
        /\ Enter("disconnected", OnEnterDisconnected(panel), drive)
        /\ UNCHANGED <<recVars, steering>>
     \/ (* recording holds here: RecordingModeRecords *)
        /\ IsPS5 /\ ~Was("connected") /\ IsNow("record") /\ recording
        /\ Rec!ToggleRecord
        /\ Enter("driving", OnEnterDriving(panel), drive)
        /\ UNCHANGED steering
     \/ /\ IsPS5 /\ ~Was("connected") /\ ~IsNow("record")
        /\ RecordPacket

(* Mutant: the handler clears the recorder's flag itself. *)
ReplayEndedClearing ==
  /\ msg.type = "REPLAY_END"
  /\ replaying' = FALSE
  /\ Enter("driving", OnEnterDriving(OnExitReplaying(panel)), drive)
  /\ UNCHANGED <<recording, route, route_index, replay_cursor, rpc, suspended, call>>

(* The only way out of the mode that needs no packet: MESSAGE_REPLAY_END, if
   the flag is already cleared by the time it is handled. *)
ReplayEnded ==
  /\ msg.type = "REPLAY_END" /\ ~replaying
  /\ Enter("driving", OnEnterDriving(OnExitReplaying(panel)), drive)
  /\ UNCHANGED recVars

HandleReplaying ==
  /\ fsm = "replaying"
  /\ \/ ReplayEnded
     \/ /\ \/ /\ msg.type = "REPLAY_END" => replaying
              /\ ~IsPS5
              /\ Return
           \/ /\ IsPS5 /\ Was("connected")
              /\ Enter("disconnected", OnEnterDisconnected(OnExitReplaying(panel)), drive)
           \/ /\ IsPS5 /\ ~Was("connected") /\ IsNow("replay")
              /\ mpc' = "toggle"
              /\ UNCHANGED <<modeVars, drive>>
           \/ /\ IsPS5 /\ ~Was("connected") /\ ~IsNow("replay")
              /\ Return
        /\ UNCHANGED recVars
  /\ UNCHANGED steering

Handle ==
  /\ mpc = "handle"
  /\ \/ HandleDisconnected \/ HandleDriving \/ HandleRecording \/ HandleReplaying
     \/ HandleArm \/ HandleAutonomous \/ HandleError
  /\ UNCHANGED <<queued, motors, msg, prev>>

-----------------------------------------------------------------------------
(* The REPLAY button, in the driving and in the replaying handler. *)
Toggle ==
  /\ mpc = "toggle"
  /\ Rec!ToggleReplay
  /\ mpc' = "toggled"
  /\ UNCHANGED <<queued, modeVars, motion, msg, prev>>

(* The rest of record_toggle_replay; replay_stop posts MESSAGE_REPLAY_END to
   the queue this very task reads. *)
ToggleStep ==
  /\ mpc = "toggled"
  /\ \/ /\ Rec!StopCheck
        /\ IF replaying THEN Send(Message("REPLAY_END")) ELSE UNCHANGED main_queue
     \/ /\ Rec!StartResume \/ Rec!StopClear \/ Rec!StopAbort
        /\ UNCHANGED main_queue
  /\ UNCHANGED <<ota, modeVars, motion, hands>>

(* Back in the handler, which tests record_is_replaying. *)
Toggled ==
  /\ mpc = "toggled"
  /\ call = "none"
  /\ \/ /\ fsm = "driving" /\ replaying
        /\ Enter("replaying", OnEnterReplaying(OnExitDriving(panel)), drive)
     \/ /\ fsm = "driving" /\ ~replaying
        /\ mpc' = "buttons"
        /\ UNCHANGED <<modeVars, drive>>
     \/ /\ fsm = "replaying" /\ ~replaying
        /\ Enter("driving", OnEnterDriving(OnExitReplaying(panel)), drive)
     \/ /\ fsm = "replaying" /\ replaying
        /\ Return
  /\ UNCHANGED <<recVars, queued, motors, steering, msg, prev>>

(* Mutant: the driving handler feeds the recorder as the recording one does. *)
DriveRecording ==
  /\ Rec!RecordProcess([throttle |-> metrics.throttle, direction |-> metrics.direction,
                        steering |-> AngleOf(msg.data)])
  /\ drive' = DriveOf(msg.data)
  /\ steering' = AngleOf(msg.data)
  /\ mpc' = "throttle"
  /\ UNCHANGED modeVars

(* The rest of the driving handler, the CROSS button on. *)
Drive ==
  /\ panel' = [panel EXCEPT
       !.laser = IF IsNow("r3") THEN ~@ ELSE @,
       !.horn  = IF IsNow("horn") THEN TRUE ELSE IF Was("horn") THEN FALSE ELSE @,
       !.ring  = IF IsNow("led") THEN "attention" ELSE IF Was("led") THEN "idle" ELSE @]
  /\ drive' = DriveOf(msg.data)
  /\ steering' = AngleOf(msg.data)
  /\ mpc' = "throttle"
  /\ UNCHANGED <<recVars, fsm>>

PressButtons ==
  /\ mpc = "buttons"
  /\ \/ /\ IsNow("cross")
        /\ Enter("arm", OnEnterArm(OnExitDriving(panel)), Stopped)
        /\ UNCHANGED <<recVars, steering>>
     \/ /\ ~IsNow("cross") /\ IsNow("auto")
        /\ Enter("autonomous", OnEnterAutonomous(OnExitDriving(panel)),
                 [throttle |-> AutonomousThrottle, direction |-> 0])
        /\ UNCHANGED <<recVars, steering>>
     \/ /\ ~IsNow("cross") /\ ~IsNow("auto")
        /\ Drive
  /\ UNCHANGED <<queued, motors, msg, prev>>

-----------------------------------------------------------------------------
(* hardware_run.  A message is taken off the queue; MESSAGE_STOP ends the loop
   and suspends the task. *)
Receive ==
  /\ mpc = "receive"
  /\ main_queue # <<>>
  /\ main_queue' = Tail(main_queue)
  /\ IF Head(main_queue).type = "STOP"
     THEN mpc' = "halted" /\ UNCHANGED msg
     ELSE /\ mpc' = "handle"
          /\ msg' = [Head(main_queue) EXCEPT !.data =
                       IF Head(main_queue).type = "PS5" THEN Sanitised(@) ELSE @]
  /\ UNCHANGED <<recVars, ota, modeVars, motion, prev>>

(* process_throttle, called by task t: current_throttle is loaded into a local
   variable; the metrics are told throttle and direction, read again; the
   motors get the local throttle, in the direction read once more.  The other
   task may set both anew, and call process_throttle, in between. *)
LoadThrottle(t) ==
  /\ at[t] = "load"
  /\ at' = [at EXCEPT ![t] = "tell"]
  /\ loaded' = [loaded EXCEPT ![t] = drive.throttle]
  /\ UNCHANGED <<metrics, output>>

TellMetrics(t) ==
  /\ at[t] = "tell"
  /\ at' = [at EXCEPT ![t] = "drive"]
  /\ metrics' = OutputOf(drive)
  /\ UNCHANGED <<output, loaded>>

DriveMotors(t) ==
  /\ at[t] = "drive"
  /\ at' = [at EXCEPT ![t] = "load"]
  /\ output' = [throttle |-> loaded[t], direction |-> OutputOf(drive).direction]
  /\ loaded' = [loaded EXCEPT ![t] = 0]
  /\ UNCHANGED metrics

(* After the handler process_throttle gives current_throttle, which may be
   replay_task's by now, to the motors. *)
ThrottleStep ==
  /\ mpc = "throttle"
  /\ LoadThrottle("main") \/ TellMetrics("main")
  /\ UNCHANGED <<recVars, queued, modeVars, drive, steering, hands>>

(* Its last step; then a packet's bits become current_state and its buffer is
   freed. *)
ProcessThrottle ==
  /\ mpc = "throttle"
  /\ DriveMotors("main")
  /\ prev' = IF IsPS5 THEN msg.data.bits ELSE prev
  /\ msg' = Message("PS5")
  /\ mpc' = "receive"
  /\ UNCHANGED <<recVars, queued, modeVars, drive, steering>>

MainTask ==
  \/ Receive \/ Handle \/ Toggle \/ ToggleStep \/ Toggled \/ PressButtons
  \/ ThrottleStep \/ ProcessThrottle

-----------------------------------------------------------------------------
(* replay_task, with what its steps do outside the recorder. *)
ReplaySet ==
  /\ Rec!ReplaySet
  /\ drive' = [throttle |-> route[replay_cursor].throttle,
               direction |-> route[replay_cursor].direction]
  /\ UNCHANGED <<queued, motors, steering>>

(* process_throttle up to its last step, a single one to the recorder. *)
ReplayThrottle ==
  /\ rpc = "process" /\ ~suspended
  /\ LoadThrottle("replay") \/ TellMetrics("replay")
  /\ UNCHANGED <<recVars, queued, drive, steering>>

ReplayProcess ==
  /\ Rec!ReplayProcess
  /\ DriveMotors("replay")
  /\ UNCHANGED <<queued, drive, steering>>

ReplaySteer ==
  /\ Rec!ReplaySteer
  /\ steering' = route[replay_cursor].steering
  /\ UNCHANGED <<queued, drive, motors>>

ReplayEndSend ==
  /\ Rec!ReplayEndSend
  /\ Send(Message("REPLAY_END"))
  /\ UNCHANGED <<ota, motion>>

ReplayInternal ==
  /\ \/ Rec!ReplayCheck \/ Rec!ReplaySleep \/ Rec!ReplayWake \/ Rec!ReplayRecheck
     \/ Rec!ReplayAdvance \/ Rec!ReplayEndClear \/ Rec!ReplaySuspend
  /\ UNCHANGED <<queued, motion>>

ReplayTask ==
  /\ \/ ReplaySet \/ ReplayThrottle \/ ReplayProcess \/ ReplaySteer
     \/ ReplayEndSend \/ ReplayInternal
  /\ UNCHANGED <<modeVars, hands>>

-----------------------------------------------------------------------------
(* The other tasks.  check_uart queues what the controller board sends. *)
CheckUart ==
  /\ ota # "uartStopped"
  /\ \E p \in Packets : Send([type |-> "PS5", data |-> p])
  /\ UNCHANGED <<recVars, ota, modeVars, motion, hands>>

(* on_collision and on_obstruction_*: a bumper is hit. *)
CheckObstructions ==
  /\ \E t \in Events : Send(Message(t))
  /\ UNCHANGED <<recVars, ota, modeVars, motion, hands>>

(* hardware_suspend, once: MESSAGE_STOP, then the UART task is suspended. *)
SuspendSend ==
  /\ Upgrade
  /\ ota = "off"
  /\ Send(Message("STOP"))
  /\ ota' = "stopSent"
  /\ UNCHANGED <<recVars, modeVars, motion, hands>>

SuspendUart ==
  /\ ota = "stopSent"
  /\ ota' = "uartStopped"
  /\ UNCHANGED <<recVars, main_queue, modeVars, motion, hands>>

OtaTask == SuspendSend \/ SuspendUart

Next == MainTask \/ ReplayTask \/ CheckUart \/ CheckObstructions \/ OtaTask

(* The main task and replay_task are ready tasks of a preemptive scheduler
   with a core for each; users, bumpers and upgrades may stay away. *)
Fairness == WF_vars(MainTask) /\ WF_vars(ReplayTask)

Spec == Init /\ [][Next]_vars
FairSpec == Spec /\ Fairness

-----------------------------------------------------------------------------
(* What the rover promises, and the recorder on its own *)

Promise == INSTANCE RoverModes WITH mode <- fsm, laser <- panel.laser, arm <- panel.arm

(* The rover's modes change along the edges of RoverModes, whatever is
   queued, lost or replayed meanwhile; the laser is switched while driving
   only and is dark elsewhere, and the arm is enabled in the arm mode alone
   (README: "The arm can only be used while in arm mode"). *)
KeepsPromise == Promise!Spec

(* The handlers call the recorder the way module Recorder assumes: one call
   at a time, finished before the next. *)
RecorderImplemented == Rec!Spec

-----------------------------------------------------------------------------
(* Properties *)

(* In the recording mode, between two messages, the recorder records: the
   full route, the RECORD button and a lost controller all leave it. *)
RecordingModeRecords == fsm = "recording" => recording

(* The ring and the pad show the mode, whichever way it was entered, and the
   triggers are locked in every mode in which they must not drive. *)
PanelShowsMode ==
  /\ fsm \in {"arm", "replaying", "autonomous", "error"} => panel.locked
  /\ panel.ring \in CASE fsm = "driving"   -> {"idle", "attention"}
                      [] fsm = "replaying" -> {"replay"}
                      [] OTHER             -> {fsm}
  /\ fsm = "driving"   => panel.led = "white"
  /\ fsm = "recording" => panel.led = "red"
  /\ fsm = "replaying" => panel.led = "green"
  /\ fsm = "arm"       => panel.led = "blue"

(* The horn sounds in no mode that is left without silencing it, but for the
   arm and the autonomous mode, whose on_enter does not touch it. *)
HornWhere == panel.horn => fsm \in {"driving", "arm", "autonomous"}

(* Standing still, and the throttles of the recorded route. *)
Played ==
  {0} \cup {route[i].throttle : i \in {j \in DOMAIN route : route[j] # Blank}}

(* Every message handled in the arm or the error mode ends with the motors
   given a standstill or a throttle of the route, whatever replay_task sets
   between the steps of main's process_throttle and whatever mode came before:
   a throttle replay_task still had in hand lasts to the next message at most. *)
StopsOrReplays ==
  [][(fsm \in {"arm", "error"} /\ mpc = "throttle" /\ mpc' = "receive")
       => output'.throttle \in Played]_vars

(* The throttles set, given to the motors or on their way there that nobody
   recorded. *)
Strays == {drive.throttle, output.throttle, loaded["main"], loaded["replay"]} \ Played

(* The arm and the error mode take the throttle from the user: what was under
   way when the mode was entered may still reach the motors, but no throttle
   comes up that is not of the route, until the mode is left. *)
NoNewThrottle ==
  [][(fsm \in {"arm", "error"} /\ fsm' = fsm) => Strays' \subseteq Strays]_vars

(* README: "While in arm mode, the throttle is disabled": between two messages
   the motors are stopped. *)
StillInArmMode == fsm = "arm" /\ mpc = "receive" => output.throttle = 0

(* A route changes only while the recording mode is on or is being entered:
   not by driving on with the recording flag still set, which is how a
   controller lost and found again in the recording mode leaves the rover. *)
RouteChangesInRecordingMode ==
  [][<<route, route_index>>' # <<route, route_index>> => "recording" \in {fsm, fsm'}]_vars

(* A MESSAGE_STOP that made it into the queue halts the main task: no call the
   handlers make can block it or send it round for ever. *)
StopHonoured ==
  (\E i \in 1 .. Len(main_queue) : main_queue[i].type = "STOP") ~> mpc = "halted"

(* hardware.c:578: "Periodic check to see if we're still replaying".  The
   replaying mode is left when the replay it stands for is over. *)
ReplayModeEnds ==
  (fsm = "replaying" /\ ~replaying) ~> (fsm # "replaying" \/ replaying)

(* README: "It starts recording all throttle changes and steering angle changes
   as the user operates the machine."  When the user ends a recording the
   throttle the motors run at is the last one in the route. *)
ThrottleRecorded ==
  [][fsm = "recording" /\ fsm' = "driving" /\ route_index \in 1 .. SAMPLE_LIST_COUNT - 1
     => /\ route[route_index - 1].throttle  = output.throttle
        /\ route[route_index - 1].direction = output.direction]_vars
=============================================================================
