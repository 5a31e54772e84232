---------------------------- MODULE RoverProofs ----------------------------
(***************************************************************************)
(* Theorems about module Rover, for any route length, queue length, set of *)
(* packets and of bumper events, with or without an upgrade.               *)
(*                                                                         *)
(* The rover's own state and the recorder's depend on each other: what     *)
(* replay_task gives the motors is a throttle only because it plays        *)
(* recorded slots, and the slots are samples only because the motors were  *)
(* given a throttle.  So both are one induction, which takes the           *)
(* recorder's step from module RecorderProofs.  On the same invariant rest *)
(* two refinements: the rover drives its recorder as module Recorder       *)
(* allows, and its modes change as module RoverModes allows.               *)
(***************************************************************************)
EXTENDS Rover, TLAPS

(* Module Recorder with its lemmas, on the recorder inside the rover. *)
RP == INSTANCE RecorderProofs WITH Sample <- Metric

(* The data a message may carry: what the UART task read, or what hardware_run
   made of it. *)
Carried == Packets \cup {Zero, [Zero EXCEPT !.bits = {"connected"}]}

(* What the queue may hold: less than Messages, since a packet that came in is
   one the controller can send. *)
Letters == [type: Types, data: Carried]

(* The queue, the message in hand, the packet before it and the upgrade.  A
   MESSAGE_STOP is never in hand: it ends the loop. *)
Mail ==
  /\ main_queue \in Seq(Letters)
  /\ Len(main_queue) <= QUEUE_LEN
  /\ msg \in Letters
  /\ msg.type # "STOP"
  /\ prev \subseteq Buttons
  /\ ota \in {"off", "stopSent", "uartStopped"}

(* Where the main task is fits the mode it is in: only the driving and the
   replaying handler call record_toggle_replay, and a call of the recorder is
   in progress nowhere else. *)
InPlace ==
  /\ mpc \in MainPC
  /\ mpc \in {"toggle", "toggled"} => fsm \in {"driving", "replaying"}
  /\ mpc = "buttons" => fsm = "driving"
  /\ call # "none" => mpc = "toggled"

(* What the panel shows fits the mode: lights, horn and the enabled arm. *)
Lights ==
  /\ fsm \in Modes
  /\ panel \in Panel
  /\ panel.arm = (fsm = "arm")
  /\ PanelShowsMode
  /\ HornWhere

(* A pair of throttle and direction, and the places that hold one or a part. *)
Driven == [throttle: Throttle, direction: {-1, 0, 1}]

Moving ==
  /\ drive \in Driven
  /\ metrics \in Driven
  /\ output \in Driven
  /\ at \in [Caller -> ThrottlePC]
  /\ loaded \in [Caller -> Throttle]
  /\ steering \in Angle

(* The main task has a throttle in hand inside process_throttle only. *)
InHand ==
  /\ mpc # "throttle" => at["main"] = "load"
  /\ at["main"] = "load" => loaded["main"] = 0

(* In the arm and the error mode current_throttle, and what the main task has
   loaded of it, is a throttle of the route already, or zero.  Of what the
   motors run at, and of what replay_task has loaded, this can not be said:
   both may be of before the mode. *)
StandStill ==
  fsm \in {"arm", "error"} => drive.throttle \in Played /\ loaded["main"] \in Played

(* The inductive invariant. *)
IInv ==
  /\ RP!IInv
  /\ Mail
  /\ InPlace
  /\ Lights
  /\ Moving
  /\ InHand
  /\ StandStill
  /\ RecordingModeRecords

-----------------------------------------------------------------------------
(* The recorder of the rover is the one RecorderProofs speaks of *)

(* The rover's constants satisfy what module Recorder assumes of its own. *)
LEMMA RecAssume == RP!RecorderAssumption
BY RoverAssumption, BlankAssumption DEF RP!RecorderAssumption

(* The two instances of Recorder have the same types ... *)
LEMMA SameType == RP!TypeOK <=> Rec!TypeOK
BY DEF Rec!TypeOK, RP!TypeOK, Rec!Slot, RP!Slot, Rec!ReplayPC, RP!ReplayPC,
   Rec!CallPC, RP!CallPC, Rec!Playing, RP!Playing

(* ... the same initial states ... *)
LEMMA SameInit == RP!Init <=> Rec!Init
BY DEF Rec!Init, RP!Init, Rec!Slot, RP!Slot

(* ... and the same steps. *)
LEMMA SameNext == [RP!Next]_(RP!vars) <=> [Rec!Next]_(Rec!vars)
<1>1. Rec!ReplayTask <=> RP!ReplayTask
  BY DEF Rec!ReplayTask, RP!ReplayTask, Rec!ReplayCheck, RP!ReplayCheck,
     Rec!ReplaySleep, RP!ReplaySleep, Rec!ReplayWake, RP!ReplayWake,
     Rec!ReplayRecheck, RP!ReplayRecheck, Rec!ReplaySet, RP!ReplaySet,
     Rec!ReplayProcess, RP!ReplayProcess, Rec!ReplaySteer, RP!ReplaySteer,
     Rec!ReplayAdvance, RP!ReplayAdvance, Rec!ReplayEndSend, RP!ReplayEndSend,
     Rec!ReplayEndClear, RP!ReplayEndClear, Rec!ReplaySuspend, RP!ReplaySuspend,
     Rec!ReplayTest, RP!ReplayTest, Rec!ReplayGoto, RP!ReplayGoto, Rec!flags,
     RP!flags, Rec!routeVars, RP!routeVars, Rec!taskVars, RP!taskVars
<1>2. Rec!Main <=> RP!Main
  BY DEF Rec!Main, RP!Main, Rec!ToggleReplay, RP!ToggleReplay, Rec!ReplayStart,
     RP!ReplayStart, Rec!CallStep, RP!CallStep, Rec!StartResume, RP!StartResume,
     Rec!StopCheck, RP!StopCheck, Rec!StopClear, RP!StopClear, Rec!StopAbort,
     RP!StopAbort, Rec!ToggleRecord, RP!ToggleRecord, Rec!RecordProcess,
     RP!RecordProcess, Rec!IsChange, RP!IsChange, Rec!vars, RP!vars, Rec!flags,
     RP!flags, Rec!routeVars, RP!routeVars, Rec!taskVars, RP!taskVars
<1>3. RP!Next <=> Rec!Next
  BY <1>1, <1>2 DEF Rec!Next, RP!Next
<1> QED
  BY <1>3 DEF Rec!vars, RP!vars, Rec!flags, RP!flags, Rec!routeVars,
     RP!routeVars, Rec!taskVars, RP!taskVars

-----------------------------------------------------------------------------
(* What the other tasks leave alone *)

(* replay_task touches neither the mode, nor the main task, nor the route. *)
LEMMA ReplayTaskKeeps ==
  ASSUME ReplayTask
  PROVE  UNCHANGED <<modeVars, hands, recording, route, route_index, call>>
<1> USE DEF Rec!ReplayGoto, Rec!ReplayTest, Rec!routeVars, Rec!flags
<1>1. UNCHANGED <<modeVars, hands>>
  BY DEF ReplayTask
<1>2. CASE ReplaySet \/ ReplayThrottle \/ ReplayProcess \/ ReplaySteer \/ ReplayEndSend
  BY <1>1, <1>2 DEF recVars, ReplaySet, ReplayThrottle, ReplayProcess, ReplaySteer, ReplayEndSend,
     Rec!ReplaySet, Rec!ReplayProcess, Rec!ReplaySteer, Rec!ReplayEndSend
<1>3. CASE ReplayInternal
  BY <1>1, <1>3 DEF ReplayInternal, Rec!ReplayCheck, Rec!ReplaySleep,
     Rec!ReplayWake, Rec!ReplayRecheck, Rec!ReplayAdvance, Rec!ReplayEndClear,
     Rec!ReplaySuspend
<1> QED
  BY <1>2, <1>3 DEF ReplayTask

(* The UART, obstruction and OTA tasks only post messages. *)
LEMMA OtherTasksKeep ==
  ASSUME CheckUart \/ CheckObstructions \/ OtaTask
  PROVE  UNCHANGED <<recVars, modeVars, motion, hands>>
BY DEF CheckUart, CheckObstructions, OtaTask, SuspendSend, SuspendUart

-----------------------------------------------------------------------------
(* Packets, samples and messages have their types *)

(* A packet, cleared or not, is a packet, and its stick an angle of the servo. *)
LEMMA AngleFits == \A p \in Carried : p \in Packet /\ AngleOf(p) \in Angle
<1>1. 0 \div 4 = 0
  OBVIOUS
<1>2. Zero \in Packet /\ [Zero EXCEPT !.bits = {"connected"}] \in Packet
  BY RoverAssumption DEF Zero, Packet, Buttons
<1>3. /\ AngleOf(Zero) \in Angle
      /\ AngleOf([Zero EXCEPT !.bits = {"connected"}]) \in Angle
  BY <1>1, RoverAssumption DEF Zero, AngleOf
<1> QED
  BY <1>2, <1>3, RoverAssumption DEF Carried, AngleOf

(* The sample the recording handler takes: the throttle the metrics show and the
   steering of the packet in hand. *)
Sampled == [throttle |-> metrics.throttle, direction |-> metrics.direction,
            steering |-> AngleOf(msg.data)]

(* The recorder can store it. *)
LEMMA SampleFits == ASSUME Mail, Moving PROVE Sampled \in Metric
BY AngleFits DEF Mail, Moving, Letters, Driven, Metric, Sampled

-----------------------------------------------------------------------------
(* The recorder's part of a step *)

(* A handler does to the recorder one step of module Recorder, or nothing. *)
LEMMA HandleRecorder ==
  ASSUME Mail, Moving, Handle PROVE [Rec!Next]_(Rec!vars)
<1> USE DEF recVars, Rec!vars, Rec!flags, Rec!routeVars, Rec!taskVars
<1>1. CASE HandleDisconnected
  BY <1>1 DEF HandleDisconnected
<1>2. CASE HandleDriving
  BY <1>2 DEF HandleDriving, DrivingObstacle, DrivingDisconnect, DrivingButtons,
     DrivingIgnores, Rec!Next, Rec!Main
<1>3. CASE HandleRecording
  BY <1>3, SampleFits DEF HandleRecording, RecordPacket, Sampled, Rec!Next,
     Rec!Main
<1>4. CASE HandleReplaying
  BY <1>4 DEF HandleReplaying, ReplayEnded
<1>5. CASE HandleArm
  BY <1>5 DEF HandleArm
<1>6. CASE HandleAutonomous
  BY <1>6 DEF HandleAutonomous
<1>7. CASE HandleError
  BY <1>7 DEF HandleError
<1> QED
  BY <1>1, <1>2, <1>3, <1>4, <1>5, <1>6, <1>7 DEF Handle

(* So does every step of the rover. *)
LEMMA RecorderStep ==
  ASSUME Mail, Moving, [Next]_vars PROVE [Rec!Next]_(Rec!vars)
<1> USE DEF recVars, Rec!vars, Rec!flags, Rec!routeVars, Rec!taskVars
<1>1. CASE Handle
  BY <1>1, HandleRecorder
<1>2. CASE Toggle \/ ToggleStep
  BY <1>2 DEF Toggle, ToggleStep, Rec!Next, Rec!Main, Rec!CallStep
<1>3. CASE Receive \/ Toggled \/ PressButtons \/ ThrottleStep \/ ProcessThrottle
  BY <1>3 DEF Receive, Toggled, PressButtons, Drive, ThrottleStep, ProcessThrottle
<1>4. CASE ReplayTask
  BY <1>4 DEF ReplayTask, ReplaySet, ReplayThrottle, ReplayProcess, ReplaySteer, ReplayEndSend,
     ReplayInternal, Rec!Next, Rec!ReplayTask
<1>5. CASE CheckUart \/ CheckObstructions \/ OtaTask
  BY <1>5, OtherTasksKeep
<1>6. CASE UNCHANGED vars
  BY <1>6 DEF vars
<1> QED
  BY <1>1, <1>2, <1>3, <1>4, <1>5, <1>6 DEF Next, MainTask

(* Hence the recorder's own invariant is preserved by the rover. *)
LEMMA RecorderInv ==
  ASSUME RP!IInv, Mail, Moving, [Next]_vars PROVE RP!IInv'
<1>1. [Rec!Next]_(Rec!vars)
  BY RecorderStep
<1>2. [RP!Next]_(RP!vars)
  BY <1>1, SameNext
<1> QED
  BY <1>2, RecAssume, RP!StepInv

-----------------------------------------------------------------------------
(* The queue *)

(* A packet cleared by hardware_run is one it may carry on with. *)
LEMMA SanitisedFits == ASSUME NEW p \in Carried PROVE Sanitised(p) \in Carried
BY DEF Carried, Sanitised

(* A message without data may be queued. *)
LEMMA MessageFits == ASSUME NEW t \in Types PROVE Message(t) \in Letters
BY DEF Letters, Message, Carried

(* Posting a message keeps the queue within its size: a full one loses it. *)
LEMMA SendFits ==
  ASSUME NEW m \in Letters,
         main_queue \in Seq(Letters), Len(main_queue) <= QUEUE_LEN, Send(m)
  PROVE  main_queue' \in Seq(Letters) /\ Len(main_queue') <= QUEUE_LEN
BY RoverAssumption DEF Send

(* Every step leaves the queue, the message in hand and the upgrade in order. *)
LEMMA MailStep ==
  ASSUME Mail, [Next]_vars PROVE Mail'
<1> USE DEF Mail, queued, hands
<1>1. CASE Receive
  <2>1. main_queue' \in Seq(Letters) /\ Len(main_queue') <= QUEUE_LEN
    BY <1>1, RoverAssumption DEF Receive
  <2>2. Head(main_queue) \in Letters
    BY <1>1 DEF Receive
  <2>3. msg' \in Letters /\ msg'.type # "STOP"
    <3>1. CASE Head(main_queue).type = "STOP"
      BY <1>1, <3>1 DEF Receive
    <3>2. CASE Head(main_queue).type # "STOP"
      <4> DEFINE h == Head(main_queue)
      <4>1. h \in Letters /\ h.data \in Carried
        BY <2>2 DEF Letters
      <4>2. msg' = [h EXCEPT !.data =
                       IF h.type = "PS5" THEN Sanitised(h.data) ELSE h.data]
        BY <1>1, <3>2 DEF Receive
      <4>3. (IF h.type = "PS5" THEN Sanitised(h.data) ELSE h.data) \in Carried
        BY <4>1, SanitisedFits
      <4> QED
        BY <4>1, <4>2, <4>3, <3>2 DEF Letters
    <3> QED
      BY <3>1, <3>2
  <2> QED
    BY <1>1, <2>1, <2>3 DEF Receive
<1>2. CASE Handle \/ Toggle \/ Toggled \/ PressButtons \/ ThrottleStep
  BY <1>2 DEF Handle, Toggle, Toggled, PressButtons, ThrottleStep
<1>3. CASE ToggleStep
  BY <1>3, SendFits, MessageFits DEF ToggleStep, Types
<1>4. CASE ProcessThrottle
  <2>1. Message("PS5") \in Letters /\ Message("PS5").type # "STOP"
    BY MessageFits DEF Types, Message
  <2>2. msg.data.bits \subseteq Buttons
    BY AngleFits DEF Letters, Packet
  <2> QED
    BY <1>4, <2>1, <2>2 DEF ProcessThrottle
<1>5. CASE ReplayTask
  BY <1>5, SendFits, MessageFits DEF ReplayTask, ReplaySet, ReplayThrottle, ReplayProcess,
     ReplaySteer, ReplayEndSend, ReplayInternal, Types
<1>6. CASE CheckUart
  <2>1. PICK p \in Packets : Send([type |-> "PS5", data |-> p])
    BY <1>6 DEF CheckUart
  <2>2. [type |-> "PS5", data |-> p] \in Letters
    BY DEF Letters, Carried, Types
  <2> QED
    BY <1>6, <2>1, <2>2, SendFits DEF CheckUart
<1>7. CASE CheckObstructions
  BY <1>7, SendFits, MessageFits, RoverAssumption DEF CheckObstructions, Types
<1>8. CASE OtaTask
  BY <1>8, SendFits, MessageFits DEF OtaTask, SuspendSend, SuspendUart, Types
<1>9. CASE UNCHANGED vars
  BY <1>9 DEF vars
<1> QED
  BY <1>1, <1>2, <1>3, <1>4, <1>5, <1>6, <1>7, <1>8, <1>9 DEF Next, MainTask

-----------------------------------------------------------------------------
(* The main task and its mode *)

(* A handler is left for process_throttle, or for a call of the recorder that
   the next steps finish before anything else happens to the main task. *)
LEMMA InPlaceStep ==
  ASSUME Mail, InPlace, [Next]_vars PROVE InPlace'
<1> USE DEF InPlace, MainPC, recVars, hands, modeVars, Enter, Return
<1>1. CASE Handle
  <2> USE <1>1 DEF Handle
  <2>1. CASE HandleDisconnected
    BY <2>1 DEF HandleDisconnected
  <2>2. CASE HandleDriving
    BY <2>2 DEF HandleDriving, DrivingObstacle, DrivingDisconnect,
       DrivingButtons, DrivingIgnores, Rec!ToggleRecord
  <2>3. CASE HandleRecording
    BY <2>3 DEF HandleRecording, RecordPacket, Rec!ToggleRecord,
       Rec!RecordProcess
  <2>4. CASE HandleReplaying
    BY <2>4 DEF HandleReplaying, ReplayEnded
  <2>5. CASE HandleArm
    BY <2>5 DEF HandleArm
  <2>6. CASE HandleAutonomous
    BY <2>6 DEF HandleAutonomous
  <2>7. CASE HandleError
    BY <2>7 DEF HandleError
  <2> QED
    BY <2>1, <2>2, <2>3, <2>4, <2>5, <2>6, <2>7
<1>2. CASE Receive \/ Toggled \/ PressButtons \/ ThrottleStep \/ ProcessThrottle
  BY <1>2 DEF Receive, Toggled, PressButtons, Drive, ThrottleStep, ProcessThrottle
<1>3. CASE Toggle \/ ToggleStep
  BY <1>3 DEF Toggle, ToggleStep, Rec!ToggleReplay
<1>4. CASE ReplayTask
  BY <1>4, ReplayTaskKeeps
<1>5. CASE CheckUart \/ CheckObstructions \/ OtaTask
  BY <1>5, OtherTasksKeep
<1>6. CASE UNCHANGED vars
  BY <1>6 DEF vars
<1> QED
  BY <1>1, <1>2, <1>3, <1>4, <1>5, <1>6 DEF Next, MainTask

-----------------------------------------------------------------------------
(* The panel, and the promise about the modes *)

(* Every handler that changes the mode runs the on_exit function of the old
   mode and the on_enter function of the new one. *)
LEMMA HandleLights == ASSUME Lights, Handle PROVE Lights'
<1> USE DEF Lights, PanelShowsMode, HornWhere, Panel, Modes, Rings, Colours,
            modeVars, Enter, Return, OnEnterDisconnected, OnEnterDriving,
            OnEnterRecording, OnEnterError, OnExitDriving, OnExitReplaying,
            OnExitArm, OnExitError, LaserOff
<1>1. CASE HandleDisconnected
  BY <1>1 DEF HandleDisconnected
<1>2. CASE HandleDriving
  <2> USE <1>2 DEF HandleDriving
  <2>1. CASE DrivingObstacle
    BY <2>1 DEF DrivingObstacle
  <2>2. CASE DrivingDisconnect
    BY <2>2 DEF DrivingDisconnect
  <2>3. CASE DrivingButtons
    BY <2>3 DEF DrivingButtons
  <2>4. CASE DrivingIgnores
    BY <2>4 DEF DrivingIgnores
  <2> QED
    BY <2>1, <2>2, <2>3, <2>4
<1>3. CASE HandleRecording
  BY <1>3 DEF HandleRecording, RecordPacket
<1>4. CASE HandleReplaying
  BY <1>4 DEF HandleReplaying, ReplayEnded
<1>5. CASE HandleArm
  BY <1>5 DEF HandleArm
<1>6. CASE HandleAutonomous
  BY <1>6 DEF HandleAutonomous
<1>7. CASE HandleError
  BY <1>7 DEF HandleError
<1> QED
  BY <1>1, <1>2, <1>3, <1>4, <1>5, <1>6, <1>7 DEF Handle

(* So do the steps after record_toggle_replay; no other task has a mode. *)
LEMMA LightsStep == ASSUME InPlace, Lights, [Next]_vars PROVE Lights'
<1> USE DEF Lights, PanelShowsMode, HornWhere, Panel, Modes, Rings, Colours,
            modeVars
<1>1. CASE Handle
  BY <1>1, HandleLights
<1>2. CASE Toggled
  BY <1>2 DEF Toggled, InPlace, Enter, Return, OnEnterReplaying, OnEnterDriving,
     OnExitDriving, OnExitReplaying, LaserOff
<1>3. CASE PressButtons
  <2>1. CASE panel' = OnEnterArm(OnExitDriving(panel)) /\ fsm' = "arm"
    BY <1>3, <2>1 DEF PressButtons, InPlace, OnEnterArm, OnExitDriving, LaserOff
  <2>2. CASE panel' = OnEnterAutonomous(OnExitDriving(panel)) /\ fsm' = "autonomous"
    BY <1>3, <2>2 DEF PressButtons, InPlace, OnEnterAutonomous, OnExitDriving,
       LaserOff
  <2>3. CASE Drive
    BY <1>3, <2>3 DEF PressButtons, InPlace, Drive
  <2> QED
    BY <1>3, <2>1, <2>2, <2>3 DEF PressButtons, Enter
<1>4. CASE Receive \/ Toggle \/ ToggleStep \/ ThrottleStep \/ ProcessThrottle
  BY <1>4 DEF Receive, Toggle, ToggleStep, ThrottleStep, ProcessThrottle
<1>5. CASE ReplayTask \/ CheckUart \/ CheckObstructions \/ OtaTask
  BY <1>5 DEF ReplayTask, CheckUart, CheckObstructions, OtaTask, SuspendSend,
     SuspendUart
<1>6. CASE UNCHANGED vars
  BY <1>6 DEF vars
<1> QED
  BY <1>1, <1>2, <1>3, <1>4, <1>5, <1>6 DEF Next, MainTask

(* A change of mode by a handler is along an edge of RoverModes, with the laser
   and the arm as that edge has them. *)
LEMMA HandlePromise == ASSUME Lights, Handle PROVE [Promise!Next]_(Promise!vars)
<1> USE DEF Lights, Panel, modeVars, Enter, Return, OnEnterDisconnected,
            OnEnterDriving, OnEnterRecording, OnEnterError, OnExitDriving,
            OnExitReplaying, OnExitArm, OnExitError, LaserOff, Promise!vars,
            Promise!Next, Promise!Connect, Promise!LoseController,
            Promise!MeetObstacle, Promise!Choose, Promise!Resume, Promise!Move
<1>1. CASE HandleDisconnected
  BY <1>1 DEF HandleDisconnected
<1>2. CASE HandleDriving
  <2> USE <1>2 DEF HandleDriving
  <2>1. CASE DrivingObstacle
    BY <2>1 DEF DrivingObstacle
  <2>2. CASE DrivingDisconnect
    BY <2>2 DEF DrivingDisconnect
  <2>3. CASE DrivingButtons
    BY <2>3 DEF DrivingButtons
  <2>4. CASE DrivingIgnores
    BY <2>4 DEF DrivingIgnores
  <2> QED
    BY <2>1, <2>2, <2>3, <2>4
<1>3. CASE HandleRecording
  BY <1>3 DEF HandleRecording, RecordPacket
<1>4. CASE HandleReplaying
  BY <1>4 DEF HandleReplaying, ReplayEnded
<1>5. CASE HandleArm
  BY <1>5 DEF HandleArm
<1>6. CASE HandleAutonomous
  BY <1>6 DEF HandleAutonomous
<1>7. CASE HandleError
  BY <1>7 DEF HandleError
<1> QED
  BY <1>1, <1>2, <1>3, <1>4, <1>5, <1>6, <1>7 DEF Handle

(* So is every change of mode. *)
LEMMA PromiseStep ==
  ASSUME InPlace, Lights, [Next]_vars PROVE [Promise!Next]_(Promise!vars)
<1> USE DEF Lights, Panel, modeVars, Enter, Return, Promise!vars, Promise!Next
<1>1. CASE Handle
  BY <1>1, HandlePromise
<1>2. CASE Toggled
  BY <1>2 DEF Toggled, InPlace, OnEnterReplaying, OnEnterDriving, OnExitDriving,
     OnExitReplaying, LaserOff, Promise!Choose, Promise!Resume, Promise!Move
<1>3. CASE PressButtons
  BY <1>3 DEF PressButtons, InPlace, OnEnterArm, OnEnterAutonomous,
     OnExitDriving, LaserOff, Drive, Promise!Choose, Promise!SwitchLaser,
     Promise!Move
<1>4. CASE Receive \/ Toggle \/ ToggleStep \/ ThrottleStep \/ ProcessThrottle
  BY <1>4 DEF Receive, Toggle, ToggleStep, ThrottleStep, ProcessThrottle
<1>5. CASE ReplayTask \/ CheckUart \/ CheckObstructions \/ OtaTask
  BY <1>5 DEF ReplayTask, CheckUart, CheckObstructions, OtaTask, SuspendSend,
     SuspendUart
<1>6. CASE UNCHANGED vars
  BY <1>6 DEF vars
<1> QED
  BY <1>1, <1>2, <1>3, <1>4, <1>5, <1>6 DEF Next, MainTask

-----------------------------------------------------------------------------
(* The motors *)

(* What the triggers ask for is a throttle with a direction ... *)
LEMMA DriveOfFits == ASSUME NEW p \in Carried PROVE DriveOf(p) \in Driven
<1>1. p.r2 \in Throttle /\ p.l2 \in Throttle
  BY AngleFits DEF Packet
<1> QED
  BY <1>1 DEF DriveOf, Driven

(* ... and so is what a mode sets on its entry. *)
LEMMA StoppedFits ==
  /\ Stopped \in Driven
  /\ [throttle |-> AutonomousThrottle, direction |-> 0] \in Driven
BY RoverAssumption DEF Stopped, Driven

(* process_throttle keeps the throttle and gives it a direction. *)
LEMMA OutputOfFits ==
  ASSUME NEW d \in Driven
  PROVE  OutputOf(d) \in Driven /\ OutputOf(d).throttle = d.throttle
BY DEF OutputOf, Driven

(* process_throttle, whoever calls it, gives metrics and motors a throttle with
   a direction ... *)
LEMMA ThrottleFits ==
  ASSUME Moving, NEW t \in Caller,
         LoadThrottle(t) \/ TellMetrics(t) \/ DriveMotors(t)
  PROVE  /\ metrics' \in Driven /\ output' \in Driven
         /\ at' \in [Caller -> ThrottlePC]
         /\ loaded' \in [Caller -> Throttle]
<1> USE DEF Moving, ThrottlePC
<1>1. drive.throttle \in Throttle /\ loaded[t] \in Throttle /\ 0 \in Throttle
  BY RoverAssumption DEF Driven
<1>2. OutputOf(drive) \in Driven
  BY OutputOfFits
<1>3. CASE LoadThrottle(t)
  BY <1>1, <1>3 DEF LoadThrottle
<1>4. CASE TellMetrics(t)
  BY <1>2, <1>4 DEF TellMetrics
<1>5. CASE DriveMotors(t)
  BY <1>1, <1>2, <1>5 DEF DriveMotors, Driven
<1> QED
  BY <1>3, <1>4, <1>5

(* ... and a call by replay_task leaves what the main task has in hand. *)
LEMMA ReplayInHand ==
  ASSUME Moving, ReplayTask
  PROVE  at'["main"] = at["main"] /\ loaded'["main"] = loaded["main"]
BY DEF ReplayTask, ReplaySet, ReplayThrottle, ReplayProcess, ReplaySteer,
   ReplayEndSend, ReplayInternal, LoadThrottle, TellMetrics, DriveMotors, motion,
   motors, Moving, Caller

(* What replay_task plays is a sample of the route. *)
LEMMA PlayedFits ==
  ASSUME RP!IInv, rpc \in RP!Playing
  PROVE  route[replay_cursor] \in Metric /\ route[replay_cursor].throttle \in Played
<1>1. replay_cursor \in RP!Slot /\ route[replay_cursor] \in Metric
  BY DEF RP!IInv, RP!PlaysRecordedSlot
<1>2. DOMAIN route = RP!Slot
  BY DEF RP!IInv, RP!TypeOK
<1> QED
  BY <1>1, <1>2, BlankAssumption DEF Played

(* Whoever sets throttle or steering sets one of its values. *)
LEMMA MovingStep ==
  ASSUME RP!IInv, Mail, Moving, [Next]_vars PROVE Moving'
<1> USE DEF Moving, motion, motors
<1>1. /\ msg.data \in Carried
      /\ AngleOf(msg.data) \in Angle
      /\ DriveOf(msg.data) \in Driven
  BY AngleFits, DriveOfFits DEF Mail, Letters
<1>2. CASE Handle
  <2> USE <1>1, <1>2, StoppedFits DEF Handle, Enter, Return
  <2>1. CASE HandleDisconnected
    BY <2>1 DEF HandleDisconnected
  <2>2. CASE HandleDriving
    BY <2>2 DEF HandleDriving, DrivingObstacle, DrivingDisconnect,
       DrivingButtons, DrivingIgnores
  <2>3. CASE HandleRecording
    BY <2>3 DEF HandleRecording, RecordPacket
  <2>4. CASE HandleReplaying
    BY <2>4 DEF HandleReplaying, ReplayEnded
  <2>5. CASE HandleArm
    BY <2>5 DEF HandleArm
  <2>6. CASE HandleAutonomous
    BY <2>6 DEF HandleAutonomous
  <2>7. CASE HandleError
    BY <2>7 DEF HandleError
  <2> QED
    BY <2>1, <2>2, <2>3, <2>4, <2>5, <2>6, <2>7
<1>3. CASE PressButtons
  BY <1>1, <1>3, StoppedFits DEF PressButtons, Enter, Drive
<1>4. CASE ThrottleStep \/ ProcessThrottle
  BY <1>4, ThrottleFits DEF ThrottleStep, ProcessThrottle, Caller
<1>5. CASE Receive \/ Toggle \/ ToggleStep \/ Toggled
  BY <1>5 DEF Receive, Toggle, ToggleStep, Toggled, Enter, Return
<1>6. CASE ReplayTask
  <2>1. CASE ReplaySet
    <3>1. route[replay_cursor] \in Metric
      BY <2>1, PlayedFits DEF ReplaySet, Rec!ReplaySet, Rec!ReplayGoto,
         RP!Playing
    <3> QED
      BY <2>1, <3>1 DEF ReplaySet, Metric, Driven
  <2>2. CASE ReplayThrottle \/ ReplayProcess
    BY <2>2, ThrottleFits DEF ReplayThrottle, ReplayProcess, Caller
  <2>3. CASE ReplaySteer
    <3>1. route[replay_cursor] \in Metric
      BY <2>3, PlayedFits DEF ReplaySteer, Rec!ReplaySteer, Rec!ReplayGoto,
         RP!Playing
    <3> QED
      BY <2>3, <3>1 DEF ReplaySteer, Metric
  <2>4. CASE ReplayEndSend \/ ReplayInternal
    BY <2>4 DEF ReplayEndSend, ReplayInternal
  <2> QED
    BY <1>6, <2>1, <2>2, <2>3, <2>4 DEF ReplayTask
<1>7. CASE CheckUart \/ CheckObstructions \/ OtaTask
  BY <1>7, OtherTasksKeep
<1>8. CASE UNCHANGED vars
  BY <1>8 DEF vars
<1> QED
  BY <1>2, <1>3, <1>4, <1>5, <1>6, <1>7, <1>8 DEF Next, MainTask

-----------------------------------------------------------------------------
(* The recording mode *)

(* The recording mode is entered with the recorder recording, and a packet that
   ends the recording leaves the mode in the same step. *)
LEMMA RecordingStep ==
  ASSUME InPlace, RecordingModeRecords, [Next]_vars PROVE RecordingModeRecords'
<1> USE DEF InPlace, RecordingModeRecords, recVars, modeVars, Enter, Return
<1>1. CASE Handle
  <2> USE <1>1 DEF Handle
  <2>1. CASE HandleDisconnected
    BY <2>1 DEF HandleDisconnected
  <2>2. CASE HandleDriving
    BY <2>2 DEF HandleDriving, DrivingObstacle, DrivingDisconnect,
       DrivingButtons, DrivingIgnores
  <2>3. CASE HandleRecording
    BY <2>3 DEF HandleRecording, RecordPacket
  <2>4. CASE HandleReplaying
    BY <2>4 DEF HandleReplaying, ReplayEnded
  <2>5. CASE HandleArm
    BY <2>5 DEF HandleArm
  <2>6. CASE HandleAutonomous
    BY <2>6 DEF HandleAutonomous
  <2>7. CASE HandleError
    BY <2>7 DEF HandleError
  <2> QED
    BY <2>1, <2>2, <2>3, <2>4, <2>5, <2>6, <2>7
<1>2. CASE Receive \/ Toggled \/ PressButtons \/ ThrottleStep \/ ProcessThrottle
  BY <1>2 DEF Receive, Toggled, PressButtons, Drive, ThrottleStep, ProcessThrottle
<1>3. CASE Toggle \/ ToggleStep
  BY <1>3 DEF Toggle, ToggleStep
<1>4. CASE ReplayTask
  BY <1>4, ReplayTaskKeeps
<1>5. CASE CheckUart \/ CheckObstructions \/ OtaTask
  BY <1>5, OtherTasksKeep
<1>6. CASE UNCHANGED vars
  BY <1>6 DEF vars
<1> QED
  BY <1>1, <1>2, <1>3, <1>4, <1>5, <1>6 DEF Next, MainTask

(* A step that changes the route records a packet in the recording mode, or
   begins a recording and enters it. *)
LEMMA RouteStep ==
  ASSUME InPlace, RecordingModeRecords, [Next]_vars
  PROVE  UNCHANGED <<route, route_index>> \/ "recording" \in {fsm, fsm'}
<1> USE DEF recVars, modeVars, Enter
<1>1. CASE Handle
  <2> USE <1>1 DEF Handle
  <2>1. CASE HandleDriving
    BY <2>1 DEF HandleDriving, DrivingObstacle, DrivingDisconnect,
       DrivingButtons, DrivingIgnores, Rec!ToggleRecord
  <2>2. CASE HandleRecording
    BY <2>2 DEF HandleRecording
  <2>3. CASE HandleReplaying
    BY <2>3 DEF HandleReplaying, ReplayEnded
  <2>4. CASE HandleDisconnected \/ HandleArm \/ HandleAutonomous \/ HandleError
    BY <2>4 DEF HandleDisconnected, HandleArm, HandleAutonomous, HandleError
  <2> QED
    BY <2>1, <2>2, <2>3, <2>4
<1>2. CASE Receive \/ Toggled \/ PressButtons \/ ThrottleStep \/ ProcessThrottle
  BY <1>2 DEF Receive, Toggled, PressButtons, Drive, ThrottleStep, ProcessThrottle
<1>3. CASE Toggle \/ ToggleStep
  BY <1>3 DEF Toggle, ToggleStep, Rec!ToggleReplay, Rec!ReplayStart,
     Rec!StartResume, Rec!StopCheck, Rec!StopClear, Rec!StopAbort, Rec!vars,
     Rec!routeVars
<1>4. CASE ReplayTask
  BY <1>4, ReplayTaskKeeps
<1>5. CASE CheckUart \/ CheckObstructions \/ OtaTask
  BY <1>5, OtherTasksKeep
<1>6. CASE UNCHANGED vars
  BY <1>6 DEF vars
<1> QED
  BY <1>1, <1>2, <1>3, <1>4, <1>5, <1>6 DEF Next, MainTask

-----------------------------------------------------------------------------
(* Standing still *)

(* The main task loads a throttle once its handler is done and has none in hand
   when it waits for the next message. *)
LEMMA InHandStep ==
  ASSUME Moving, InHand, [Next]_vars PROVE InHand'
<1> USE DEF InHand, motion, motors, hands
<1>1. CASE Receive \/ Handle \/ Toggle \/ ToggleStep \/ Toggled \/ PressButtons
  BY <1>1 DEF Receive, Handle, Toggle, ToggleStep, Toggled, PressButtons
<1>2. CASE ThrottleStep
  BY <1>2 DEF ThrottleStep, LoadThrottle, TellMetrics, Moving, Caller
<1>3. CASE ProcessThrottle
  BY <1>3 DEF ProcessThrottle, DriveMotors, Moving, Caller
<1>4. CASE ReplayTask
  BY <1>4, ReplayTaskKeeps, ReplayInHand
<1>5. CASE CheckUart \/ CheckObstructions \/ OtaTask
  BY <1>5, OtherTasksKeep
<1>6. CASE UNCHANGED vars
  BY <1>6 DEF vars
<1> QED
  BY <1>1, <1>2, <1>3, <1>4, <1>5, <1>6 DEF Next, MainTask

(* The arm and the error mode are entered with the throttle at zero, nothing in
   main's hand, and their handlers leave it alone; replay_task sets throttles
   of the route. *)
LEMMA StandStillStep ==
  ASSUME RP!IInv, InPlace, Moving, InHand, StandStill, [Next]_vars
  PROVE  StandStill'
<1> USE DEF StandStill, modeVars, motion, motors, hands, InPlace, InHand
<1>1. CASE Handle
  <2> USE <1>1 DEF Handle, Enter, Return, Stopped, Played, recVars
  <2>1. CASE HandleDisconnected
    BY <2>1 DEF HandleDisconnected
  <2>2. CASE HandleDriving
    BY <2>2 DEF HandleDriving, DrivingObstacle, DrivingDisconnect,
       DrivingButtons, DrivingIgnores
  <2>3. CASE HandleRecording
    BY <2>3 DEF HandleRecording, RecordPacket
  <2>4. CASE HandleReplaying
    BY <2>4 DEF HandleReplaying, ReplayEnded
  <2>5. CASE HandleArm
    BY <2>5 DEF HandleArm
  <2>6. CASE HandleAutonomous
    BY <2>6 DEF HandleAutonomous
  <2>7. CASE HandleError
    BY <2>7 DEF HandleError
  <2> QED
    BY <2>1, <2>2, <2>3, <2>4, <2>5, <2>6, <2>7
<1>2. CASE Receive
  BY <1>2 DEF Receive, Played, recVars
<1>3. CASE Toggle \/ ToggleStep \/ Toggled
  BY <1>3 DEF Toggle, ToggleStep, Toggled, Enter, Return
<1>4. CASE PressButtons
  BY <1>4 DEF PressButtons, Enter, Drive, Played, Stopped
<1>5. CASE ThrottleStep \/ ProcessThrottle
  BY <1>5 DEF ThrottleStep, ProcessThrottle, LoadThrottle, TellMetrics,
     DriveMotors, Played, recVars, Moving, Caller
<1>6. CASE ReplayTask
  <2>1. UNCHANGED <<fsm, mpc, route>> /\ loaded'["main"] = loaded["main"]
    BY <1>6, ReplayTaskKeeps, ReplayInHand
  <2>2. Played' = Played
    BY <2>1 DEF Played
  <2>3. CASE ReplaySet
    <3>1. route[replay_cursor].throttle \in Played
      BY <2>3, PlayedFits DEF ReplaySet, Rec!ReplaySet, Rec!ReplayGoto,
         RP!Playing
    <3> QED
      BY <2>1, <2>2, <2>3, <3>1 DEF ReplaySet
  <2>4. CASE ReplayThrottle \/ ReplayProcess \/ ReplaySteer \/ ReplayEndSend
               \/ ReplayInternal
    BY <2>1, <2>2, <2>4 DEF ReplayThrottle, ReplayProcess, ReplaySteer,
       ReplayEndSend, ReplayInternal
  <2> QED
    BY <1>6, <2>3, <2>4 DEF ReplayTask
<1>7. CASE CheckUart \/ CheckObstructions \/ OtaTask
  BY <1>7, OtherTasksKeep DEF Played, recVars
<1>8. CASE UNCHANGED vars
  BY <1>8 DEF vars, Played, recVars
<1> QED
  BY <1>1, <1>2, <1>3, <1>4, <1>5, <1>6, <1>7, <1>8 DEF Next, MainTask

(* What a step gives the motors, or one of the tasks to hold, was current_throttle,
   or was in hand before. *)
LEMMA MotorStep ==
  ASSUME Moving, [Next]_vars
  PROVE  /\ output'.throttle \in {output.throttle, loaded["main"], loaded["replay"]}
         /\ loaded'["replay"] \in {loaded["replay"], drive.throttle, 0}
<1> USE DEF motion, motors
<1>1. CASE Receive \/ Handle \/ Toggle \/ ToggleStep \/ Toggled \/ PressButtons
  BY <1>1 DEF Receive, Handle, Toggle, ToggleStep, Toggled, PressButtons
<1>2. CASE ThrottleStep \/ ProcessThrottle
  BY <1>2 DEF ThrottleStep, ProcessThrottle, LoadThrottle, TellMetrics,
     DriveMotors, Moving, Caller
<1>3. CASE ReplayTask
  BY <1>3 DEF ReplayTask, ReplaySet, ReplayThrottle, ReplayProcess, ReplaySteer,
     ReplayEndSend, ReplayInternal, LoadThrottle, TellMetrics, DriveMotors, Moving,
     Caller
<1>4. CASE CheckUart \/ CheckObstructions \/ OtaTask
  BY <1>4, OtherTasksKeep
<1>5. CASE UNCHANGED vars
  BY <1>5 DEF vars
<1> QED
  BY <1>1, <1>2, <1>3, <1>4, <1>5 DEF Next, MainTask

(* The step that ends the handling of a message is process_throttle's last: it
   gives the motors what main has in hand. *)
LEMMA LastStep ==
  ASSUME [Next]_vars, mpc = "throttle", mpc' = "receive"
  PROVE  ProcessThrottle
<1>1. CASE Receive \/ Handle \/ Toggle \/ ToggleStep \/ Toggled \/ PressButtons
  BY <1>1 DEF Receive, Handle, Toggle, ToggleStep, Toggled, PressButtons
<1>2. CASE ThrottleStep
  BY <1>2 DEF ThrottleStep, hands
<1>3. CASE ReplayTask
  BY <1>3, ReplayTaskKeeps DEF hands
<1>4. CASE CheckUart \/ CheckObstructions \/ OtaTask
  BY <1>4, OtherTasksKeep DEF hands
<1>5. CASE UNCHANGED vars
  BY <1>5 DEF vars, hands
<1> QED
  BY <1>1, <1>2, <1>3, <1>4, <1>5 DEF Next, MainTask

-----------------------------------------------------------------------------
(* The invariant *)

(* It holds at first: hardware_init ends disconnected, at rest and dark. *)
LEMMA InitInv == Init => IInv
<1> SUFFICES ASSUME Init PROVE IInv
  OBVIOUS
<1>1. RP!IInv
  BY SameInit, RecAssume, RP!InitInv DEF Init
<1>2. Mail
  <2>1. Message("PS5") \in Letters /\ Message("PS5").type # "STOP"
    BY MessageFits DEF Types, Message
  <2>2. main_queue \in Seq(Letters) /\ Len(main_queue) <= QUEUE_LEN
    BY RoverAssumption DEF Init
  <2> QED
    BY <2>1, <2>2 DEF Init, Mail
<1>3. InPlace /\ RecordingModeRecords
  BY DEF Init, InPlace, MainPC, RecordingModeRecords, Rec!Init
<1>4. Lights
  BY DEF Init, Lights, Modes, Panel, Rings, Colours, PanelShowsMode, HornWhere
<1>5. Moving
  BY RoverAssumption DEF Init, Moving, Driven, ThrottlePC
<1>6. InHand /\ StandStill
  BY DEF Init, InHand, StandStill, Caller
<1> QED
  BY <1>1, <1>2, <1>3, <1>4, <1>5, <1>6 DEF IInv

(* IInv is an invariant of the rover, whatever its tasks do in between. *)
THEOREM Invariant == Spec => []IInv
<1>1. IInv /\ [Next]_vars => IInv'
  <2> SUFFICES ASSUME IInv, [Next]_vars PROVE IInv'
    OBVIOUS
  <2> QED
    BY RecorderInv, MailStep, InPlaceStep, LightsStep, MovingStep,
       InHandStep, StandStillStep, RecordingStep
       DEF IInv
<1> QED
  BY InitInv, <1>1, PTL DEF Spec

-----------------------------------------------------------------------------
(* Theorems *)

(* Every variable keeps its type: no queue overflows, and neither a packet
   nor a replay gives the motors what is not a throttle. *)
THEOREM TypeCorrect == Spec => []TypeOK
<1>1. IInv => TypeOK
  <2> SUFFICES ASSUME IInv PROVE TypeOK
    OBVIOUS
  <2>1. Rec!TypeOK
    BY SameType DEF IInv, RP!IInv
  <2>2. Letters \subseteq Messages
    BY AngleFits DEF Letters, Messages
  <2>3. /\ main_queue \in Seq(Messages)
        /\ Len(main_queue) <= QUEUE_LEN
        /\ msg \in Messages
    BY <2>2 DEF IInv, Mail
  <2> QED
    BY <2>1, <2>3 DEF IInv, TypeOK, Mail, InPlace, Lights, Moving, Driven
<1> QED
  BY <1>1, Invariant, PTL

(* Ring, pad LED and trigger locks show the mode, by whichever handler it was
   entered. *)
THEOREM PanelRight == Spec => []PanelShowsMode
<1>1. IInv => PanelShowsMode
  BY DEF IInv, Lights
<1> QED
  BY <1>1, Invariant, PTL

(* The horn sounds in the driving mode, or in the two modes whose on_enter
   function leaves it alone. *)
THEOREM HornRight == Spec => []HornWhere
<1>1. IInv => HornWhere
  BY DEF IInv, Lights
<1> QED
  BY <1>1, Invariant, PTL

(* The recording mode records: whatever ends the recording leaves the mode. *)
THEOREM Records == Spec => []RecordingModeRecords
<1>1. IInv => RecordingModeRecords
  BY DEF IInv
<1> QED
  BY <1>1, Invariant, PTL

(* Every message handled in the arm or the error mode ends with the motors given
   a standstill or a throttle of the route, whatever replay_task sets between
   the steps of main's process_throttle. *)
THEOREM HandledStill == Spec => StopsOrReplays
<1>1. IInv /\ [Next]_vars =>
        [(fsm \in {"arm", "error"} /\ mpc = "throttle" /\ mpc' = "receive")
           => output'.throttle \in Played]_vars
  <2> SUFFICES ASSUME IInv, [Next]_vars, fsm \in {"arm", "error"}, mpc = "throttle",
                      mpc' = "receive"
               PROVE  output'.throttle \in Played
    OBVIOUS
  <2>1. ProcessThrottle
    BY LastStep
  <2>2. output'.throttle = loaded["main"]
    BY <2>1 DEF ProcessThrottle, DriveMotors
  <2> QED
    BY <2>2 DEF IInv, StandStill
<1> QED
  BY <1>1, Invariant, PTL DEF Spec, StopsOrReplays

(* As long as the arm or the error mode is on, no throttle comes up that is not
   of the route: those under way when it was entered can only go. *)
THEOREM StraysDwindle == Spec => NoNewThrottle
<1>1. IInv /\ [Next]_vars =>
        [(fsm \in {"arm", "error"} /\ fsm' = fsm) => Strays' \subseteq Strays]_vars
  <2> SUFFICES ASSUME IInv, [Next]_vars, fsm \in {"arm", "error"}, fsm' = fsm
               PROVE  Strays' \subseteq Strays
    OBVIOUS
  <2>1. Played' = Played
    BY RouteStep DEF IInv, Played
  <2>2. StandStill /\ StandStill' /\ Moving
    BY StandStillStep DEF IInv
  <2>3. drive'.throttle \in Played /\ loaded'["main"] \in Played
    BY <2>1, <2>2 DEF StandStill
  <2>4. loaded["main"] \in Played /\ drive.throttle \in Played /\ 0 \in Played
    BY <2>2 DEF StandStill, Played
  <2> QED
    BY <2>1, <2>2, <2>3, <2>4, MotorStep DEF Strays
<1> QED
  BY <1>1, Invariant, PTL DEF Spec, NoNewThrottle

(* The route changes in the recording mode or on its entry only. *)
THEOREM RouteKept == Spec => RouteChangesInRecordingMode
<1>1. IInv /\ [Next]_vars =>
        [<<route, route_index>>' # <<route, route_index>> =>
           "recording" \in {fsm, fsm'}]_vars
  BY RouteStep DEF IInv
<1> QED
  BY <1>1, Invariant, PTL DEF Spec, RouteChangesInRecordingMode

(* The handlers and replay_task use the recorder as module Recorder has it: the
   rover implements it, and what is proved of it there holds here. *)
THEOREM ImplementsRecorder == Spec => RecorderImplemented
<1>1. Init => Rec!Init
  BY DEF Init
<1>2. IInv /\ [Next]_vars => [Rec!Next]_(Rec!vars)
  BY RecorderStep DEF IInv
<1> QED
  BY <1>1, <1>2, Invariant, PTL DEF Spec, RecorderImplemented, Rec!Spec

(* Hence what RecorderProofs shows of the recorder, for a main task that may call
   it in any way, holds of the rover: a replay plays recorded slots, whatever is
   recorded meanwhile; recording and replaying exclude each other; the route
   never holds a sample twice in a row and is frozen while it is replayed. *)
THEOREM Replays ==
  Spec => /\ [](Rec!PlaysRecordedSlot /\ Rec!Exclusive /\ Rec!NoIdenticalNeighbours)
          /\ Rec!RouteFrozen
<1>1. Rec!Spec => RP!Spec
  <2>1. Rec!Init => RP!Init
    BY SameInit
  <2>2. [Rec!Next]_(Rec!vars) => [RP!Next]_(RP!vars)
    BY SameNext
  <2> QED
    BY <2>1, <2>2, PTL DEF Rec!Spec, RP!Spec
<1>2. RP!Spec => []RP!PlaysRecordedSlot /\ []RP!Exclusive /\ []RP!NoIdenticalNeighbours
  BY RecAssume, RP!PlaysRecorded, RP!MutualExclusion, RP!NoRepeats
<1>3. RP!Spec => RP!RouteFrozen
  BY RecAssume, RP!Frozen
<1>4. /\ RP!PlaysRecordedSlot => Rec!PlaysRecordedSlot
      /\ RP!Exclusive => Rec!Exclusive
      /\ RP!NoIdenticalNeighbours => Rec!NoIdenticalNeighbours
  BY DEF RP!PlaysRecordedSlot, Rec!PlaysRecordedSlot, RP!Slot, Rec!Slot, RP!Playing,
     Rec!Playing, RP!Exclusive, Rec!Exclusive, RP!NoIdenticalNeighbours,
     Rec!NoIdenticalNeighbours
<1>5. [replaying => UNCHANGED RP!routeVars]_(RP!vars)
        => [replaying => UNCHANGED Rec!routeVars]_(Rec!vars)
  BY DEF RP!routeVars, Rec!routeVars, RP!vars, Rec!vars, RP!flags, Rec!flags,
     RP!taskVars, Rec!taskVars
<1>6. RP!RouteFrozen => Rec!RouteFrozen
  BY <1>5, PTL DEF RP!RouteFrozen, Rec!RouteFrozen
<1> QED
  BY <1>1, <1>2, <1>3, <1>4, <1>6, ImplementsRecorder, PTL DEF RecorderImplemented

(* The rover implements RoverModes: its modes change along those edges, the
   laser is lit while driving only and the arm enabled in the arm mode only. *)
THEOREM ImplementsModes == Spec => KeepsPromise
<1>1. Init => Promise!Init
  BY DEF Init, Promise!Init
<1>2. IInv /\ [Next]_vars => [Promise!Next]_(Promise!vars)
  BY PromiseStep DEF IInv
<1> QED
  BY <1>1, <1>2, Invariant, PTL DEF Spec, KeepsPromise, Promise!Spec
=============================================================================
