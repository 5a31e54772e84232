------------------------------ MODULE Recorder ------------------------------
(***************************************************************************)
(* The route recorder of the main board (mainboard/main/routerecorder.c).  *)
(*                                                                         *)
(* Two FreeRTOS tasks of equal priority share its static variables, with   *)
(* no lock: the main task, which calls record_toggle_record,               *)
(* record_toggle_replay and record_process from the mode handlers, and     *)
(* replay_task, which plays the route back.  The ESP32-S3 has two cores,   *)
(* so their steps interleave freely.  One action is one access to a shared *)
(* variable (or a run of accesses that no other task can tell apart from   *)
(* one); `rpc' and `call' are the program counters of the two tasks.       *)
(*                                                                         *)
(* The messages the recorder posts and the throttle it sets are not its    *)
(* own state: module Rover conjoins them to the actions below.             *)
(***************************************************************************)
EXTENDS Integers

CONSTANTS
  SAMPLE_LIST_COUNT, (* slots of route[]                                   *)
  Sample,            (* what a slot can hold, its time stamp left out      *)
  Blank              (* the content of a slot nothing was recorded in      *)

ASSUME RecorderAssumption ==
  /\ SAMPLE_LIST_COUNT \in Nat \ {0}
  /\ Blank \notin Sample

VARIABLES
  recording,     (* main is appending to the route                         *)
  replaying,     (* replay_task is to play the route                       *)
  route,         (* route[], a function on the slots                       *)
  route_index,   (* how many slots are recorded                            *)
  replay_cursor, (* replay_task's static cursor                            *)
  rpc,           (* where replay_task is                                   *)
  suspended,     (* the scheduler holds replay_task suspended              *)
  call           (* where main is inside record_toggle_replay              *)

flags     == <<recording, replaying>>
routeVars == <<route, route_index>>
taskVars  == <<replay_cursor, rpc, suspended>>
vars      == <<flags, routeVars, taskVars, call>>

Slot == 0 .. SAMPLE_LIST_COUNT - 1

(* Where replay_task can be:
     check    about to test `replaying' at the top of the loop
     sleep    about to call vTaskDelay with the slot's time
     delay    blocked in vTaskDelay
     recheck  about to test `replaying' again
     set      about to call set_throttle
     process  about to call process_throttle
     steer    about to call process_steering
     advance  about to advance the cursor and compare it with route_index
     endSend  about to post MESSAGE_REPLAY_END, the route being over
     endClear about to clear `replaying'
     suspend  about to suspend itself                                      *)
Playing == {"sleep", "delay", "recheck", "set", "process", "steer"}
ReplayPC == Playing \union {"check", "advance", "endSend", "endClear", "suspend"}

(* Where main can be in record_toggle_replay: outside, in replay_stop before
   its test, before it clears the flag, before xTaskAbortDelay, and in
   replay_start before vTaskResume. *)
CallPC == {"none", "stopCheck", "stopClear", "stopAbort", "startResume"}

TypeOK ==
  /\ recording \in BOOLEAN
  /\ replaying \in BOOLEAN
  /\ route \in [Slot -> Sample \union {Blank}]
  /\ route_index \in 0 .. SAMPLE_LIST_COUNT
  /\ replay_cursor \in 0 .. SAMPLE_LIST_COUNT
  /\ rpc \in ReplayPC
  /\ suspended \in BOOLEAN
  /\ call \in CallPC

-----------------------------------------------------------------------------
(* record_init creates replay_task and suspends it.  The task may already
   have run on the other core: it has executed nothing, or has tested
   `replaying' and is about to suspend itself a first time. *)
Init ==
  /\ recording = FALSE
  /\ replaying = FALSE
  /\ route = [i \in Slot |-> Blank]
  /\ route_index = 0
  /\ replay_cursor = 0
  /\ rpc \in {"check", "suspend"}
  /\ suspended = TRUE
  /\ call = "none"

-----------------------------------------------------------------------------
(* replay_task *)

ReplayGoto(from, to) ==
  /\ ~suspended
  /\ rpc = from
  /\ rpc' = to
  /\ UNCHANGED <<recording, routeVars, suspended, call>>

(* A test of `replaying': go on, or rewind and suspend. *)
ReplayTest(from, on) ==
  \/ /\ replaying
     /\ ReplayGoto(from, on)
     /\ UNCHANGED <<replaying, replay_cursor>>
  \/ /\ ~replaying
     /\ ReplayGoto(from, "suspend")
     /\ replay_cursor' = 0
     /\ UNCHANGED replaying

ReplayCheck   == ReplayTest("check", "sleep")
ReplaySleep   == ReplayGoto("sleep", "delay") /\ UNCHANGED <<replaying, replay_cursor>>
ReplayWake    == ReplayGoto("delay", "recheck") /\ UNCHANGED <<replaying, replay_cursor>>
ReplayRecheck == ReplayTest("recheck", "set")
ReplaySet     == ReplayGoto("set", "process") /\ UNCHANGED <<replaying, replay_cursor>>
ReplayProcess == ReplayGoto("process", "steer") /\ UNCHANGED <<replaying, replay_cursor>>

ReplaySteer   == ReplayGoto("steer", "advance") /\ UNCHANGED <<replaying, replay_cursor>>

(* Mutant: off by one, the slot after the last is played too. *)
ReplayAdvanceBeyond ==
  /\ ReplayGoto("advance", IF replay_cursor + 1 > route_index THEN "endSend" ELSE "check")
  /\ replay_cursor' = replay_cursor + 1
  /\ UNCHANGED replaying

(* The cursor is advanced and compared with the number of recorded slots: the
   only read of route_index by this task. *)
ReplayAdvance ==
  /\ ReplayGoto("advance", IF replay_cursor + 1 >= route_index THEN "endSend" ELSE "check")
  /\ replay_cursor' = replay_cursor + 1
  /\ UNCHANGED replaying

(* The end of the route: the message goes out BEFORE the flag is cleared. *)
ReplayEndSend == ReplayGoto("endSend", "endClear") /\ UNCHANGED <<replaying, replay_cursor>>

ReplayEndClear ==
  /\ ReplayGoto("endClear", "suspend")
  /\ replaying' = FALSE
  /\ replay_cursor' = 0

(* Mutant: the loop starts again without the suspension. *)
ReplaySuspendNot ==
  /\ ~suspended
  /\ rpc = "suspend"
  /\ rpc' = "check"
  /\ UNCHANGED <<flags, routeVars, replay_cursor, suspended, call>>

(* vTaskSuspend(0); when resumed the task starts the loop again. *)
ReplaySuspend ==
  /\ ~suspended
  /\ rpc = "suspend"
  /\ rpc' = "check"
  /\ suspended' = TRUE
  /\ UNCHANGED <<flags, routeVars, replay_cursor, call>>

ReplayTask ==
  \/ ReplayCheck \/ ReplaySleep \/ ReplayWake \/ ReplayRecheck
  \/ ReplaySet \/ ReplayProcess \/ ReplaySteer \/ ReplayAdvance
  \/ ReplayEndSend \/ ReplayEndClear \/ ReplaySuspend

-----------------------------------------------------------------------------
(* The main task *)

(* Mutant: replay_start does not look at `recording'. *)
ReplayStartRecording ==
  /\ ~replaying /\ route_index > 0
  /\ replaying' = TRUE
  /\ call' = "startResume"
  /\ UNCHANGED <<recording, routeVars, taskVars>>

(* replay_start.  Only main sets any of the three variables it tests to a
   value that lets it proceed, so the tests and the assignment are one step. *)
ReplayStart ==
  /\ ~replaying
  /\ IF recording \/ route_index = 0
     THEN UNCHANGED vars
     ELSE /\ replaying' = TRUE
          /\ call' = "startResume"
          /\ UNCHANGED <<recording, routeVars, taskVars>>

(* record_toggle_replay's own test of `replaying'. *)
ToggleReplay ==
  /\ call = "none"
  /\ \/ /\ replaying
        /\ call' = "stopCheck"
        /\ UNCHANGED <<flags, routeVars, taskVars>>
     \/ ReplayStart

(* vTaskResume: nothing happens to a task that is not suspended. *)
StartResume ==
  /\ call = "startResume"
  /\ suspended' = FALSE
  /\ call' = "none"
  /\ UNCHANGED <<flags, routeVars, replay_cursor, rpc>>

(* replay_stop tests `replaying' again and posts MESSAGE_REPLAY_END ... *)
StopCheck ==
  /\ call = "stopCheck"
  /\ call' = IF replaying THEN "stopClear" ELSE "none"
  /\ UNCHANGED <<flags, routeVars, taskVars>>

(* ... then clears the flag ... *)
StopClear ==
  /\ call = "stopClear"
  /\ replaying' = FALSE
  /\ call' = "stopAbort"
  /\ UNCHANGED <<recording, routeVars, taskVars>>

(* ... and wakes replay_task, if it is blocked in vTaskDelay. *)
StopAbort ==
  /\ call = "stopAbort"
  /\ rpc' = IF rpc = "delay" THEN "recheck" ELSE rpc
  /\ call' = "none"
  /\ UNCHANGED <<flags, routeVars, replay_cursor, suspended>>

CallStep == StartResume \/ StopCheck \/ StopClear \/ StopAbort

(* Mutant: the route is rewound before the look at `replaying'. *)
ToggleRecordRewinding ==
  /\ call = "none"
  /\ recording' = (~recording /\ ~replaying)
  /\ route_index' = IF recording THEN route_index ELSE 0
  /\ UNCHANGED <<replaying, route, taskVars, call>>

(* record_toggle_record: record_stop, or record_start with its guard. *)
ToggleRecord ==
  /\ call = "none"
  /\ recording' = (~recording /\ ~replaying)
  /\ route_index' = IF recording \/ replaying THEN route_index ELSE 0
  /\ UNCHANGED <<replaying, route, taskVars, call>>

(* Mutant: compared with the slot about to be written. *)
IsChangeAhead(s) == route_index > 0 => route[route_index] # s

(* The sample differs from the last one recorded. *)
IsChange(s) == route_index > 0 => route[route_index - 1] # s

(* Mutant: off by one, a full route takes one more sample. *)
RecordProcessBeyond(s) ==
  /\ call = "none"
  /\ recording' = (recording /\ route_index <= SAMPLE_LIST_COUNT)
  /\ IF recording /\ route_index <= SAMPLE_LIST_COUNT /\ IsChange(s)
     THEN /\ route' = [route EXCEPT ![route_index] = s]
          /\ route_index' = route_index + 1
     ELSE UNCHANGED routeVars
  /\ UNCHANGED <<replaying, taskVars, call>>

(* record_process: a full route ends the recording, a sample identical to the
   last one is discarded. *)
RecordProcess(s) ==
  /\ call = "none"
  /\ recording' = (recording /\ route_index < SAMPLE_LIST_COUNT)
  /\ IF recording /\ route_index < SAMPLE_LIST_COUNT /\ IsChange(s)
     THEN /\ route' = [route EXCEPT ![route_index] = s]
          /\ route_index' = route_index + 1
     ELSE UNCHANGED routeVars
  /\ UNCHANGED <<replaying, taskVars, call>>

-----------------------------------------------------------------------------
Main == ToggleReplay \/ CallStep \/ ToggleRecord \/ \E s \in Sample : RecordProcess(s)

Next == ReplayTask \/ Main

(* Both tasks are run by the scheduler as long as they are ready; the user
   need never press a button, so the calls themselves are not fair. *)
Fairness == WF_vars(ReplayTask) /\ WF_vars(CallStep)

Spec == Init /\ [][Next]_vars
FairSpec == Spec /\ Fairness

-----------------------------------------------------------------------------
(* Properties *)

(* replay_task only ever reads route[replay_cursor] (routerecorder.c:47, 58,
   60) inside the array and in a slot something was recorded in, whatever
   stops, starts and new recordings the main task slips in between its
   steps: neither the cursor nor the route is protected by anything. *)
PlaysRecordedSlot ==
  rpc \in Playing => replay_cursor \in Slot /\ route[replay_cursor] \in Sample

(* Recording and replaying exclude each other (the guards of record_start and
   replay_start), with replay_task clearing its flag at any moment. *)
Exclusive == ~(recording /\ replaying)

(* The recorded part of the route never holds the same sample twice in a row
   (routerecorder.c:188), also across a restarted recording. *)
NoIdenticalNeighbours ==
  \A i \in 1 .. route_index - 1 : route[i] # route[i - 1]

(* While a replay is on, nothing changes the route it plays. *)
RouteFrozen == [][replaying => UNCHANGED routeVars]_vars

(* A stopped replay comes to rest: replay_task cannot go on for ever playing
   a route with the flag cleared. *)
ReplayRests == ~replaying ~> (suspended \/ replaying)

(* README: "Pressing the triangle button replays a recording."  A replay that
   was started is played to its end or stopped by the user. *)
ReplayEnds == replaying ~> ~replaying

(* README: "By replaying the same throttle values and steering angle at the
   same time deltas": what is set while a replay is on belongs to the recording
   it plays. *)
PlaysCurrentRoute ==
  rpc = "set" /\ replaying => replay_cursor < route_index
=============================================================================
