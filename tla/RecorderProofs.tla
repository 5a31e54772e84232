--------------------------- MODULE RecorderProofs ---------------------------
(***************************************************************************)
(* Theorems about module Recorder, for a route of any length and samples   *)
(* of any kind.                                                            *)
(*                                                                         *)
(* What replay_task plays is safe although main may stop it, record anew   *)
(* and start it again between any two of its steps, because a slot that    *)
(* ever held a sample holds one for good: a cursor gone stale still points *)
(* at some recorded slot.  IInv says so at every place of the loop.        *)
(***************************************************************************)
EXTENDS Recorder, TLAPS

(* The slots below route_index are recorded ones. *)
RecordedPrefix == \A i \in 0 .. route_index - 1 : route[i] \in Sample

(* A replay is only ever on with a route to play. *)
ReplayHasRoute == replaying => route_index > 0

(* At the top of the loop the cursor is rewound or at a recorded slot; at its
   end it is still inside the array. *)
CursorInPlace ==
  /\ rpc = "check" => replay_cursor = 0 \/ (replay_cursor \in Slot /\ route[replay_cursor] \in Sample)
  /\ rpc = "suspend" => replay_cursor = 0
  /\ rpc = "advance" => replay_cursor \in Slot

(* The inductive invariant. *)
IInv ==
  /\ TypeOK
  /\ Exclusive
  /\ RecordedPrefix
  /\ ReplayHasRoute
  /\ CursorInPlace
  /\ PlaysRecordedSlot

-----------------------------------------------------------------------------
(* The invariant holds at first: record_init leaves nothing to play. *)
LEMMA InitInv == Init => IInv
<1> SUFFICES ASSUME Init PROVE IInv
  OBVIOUS
<1> USE RecorderAssumption DEF RecorderAssumption, Init, Slot, Playing, ReplayPC, CallPC
<1>1. TypeOK
  <2>1. recording \in BOOLEAN /\ replaying \in BOOLEAN /\ suspended \in BOOLEAN
    BY Zenon
  <2>2. route \in [Slot -> Sample \union {Blank}]
    OBVIOUS
  <2>3. route_index \in 0 .. SAMPLE_LIST_COUNT /\ replay_cursor \in 0 .. SAMPLE_LIST_COUNT
    OBVIOUS
  <2>4. rpc \in ReplayPC /\ call \in CallPC
    OBVIOUS
  <2> QED
    BY <2>1, <2>2, <2>3, <2>4 DEF TypeOK
<1>2. Exclusive
  BY DEF Exclusive
<1>3. RecordedPrefix
  BY DEF RecordedPrefix
<1>4. ReplayHasRoute
  BY DEF ReplayHasRoute
<1>5. CursorInPlace
  BY DEF CursorInPlace
<1>6. PlaysRecordedSlot
  BY DEF PlaysRecordedSlot
<1> QED
  BY <1>1, <1>2, <1>3, <1>4, <1>5, <1>6 DEF IInv

(* Each step of replay_task preserves it: the cursor that ReplayAdvance moves
   is below route_index, hence at a recorded slot, or the replay is over. *)
LEMMA ReplayTaskInv == IInv /\ ReplayTask => IInv'
<1> USE RecorderAssumption DEF RecorderAssumption
<1> SUFFICES ASSUME IInv, ReplayTask PROVE IInv'
  OBVIOUS
<1> USE DEF IInv, TypeOK, Exclusive, RecordedPrefix, ReplayHasRoute, CursorInPlace,
            PlaysRecordedSlot, Slot, Playing, ReplayPC, CallPC, ReplayGoto, ReplayTest,
            routeVars, flags
<1>1. CASE ReplayCheck
  BY <1>1 DEF ReplayCheck
<1>2. CASE ReplaySleep
  BY <1>2 DEF ReplaySleep
<1>3. CASE ReplayWake
  BY <1>3 DEF ReplayWake
<1>4. CASE ReplayRecheck
  BY <1>4 DEF ReplayRecheck
<1>5. CASE ReplaySet
  BY <1>5 DEF ReplaySet
<1>6. CASE ReplayProcess
  BY <1>6 DEF ReplayProcess
<1>7. CASE ReplaySteer
  BY <1>7 DEF ReplaySteer
<1>8. CASE ReplayAdvance
  BY <1>8 DEF ReplayAdvance
<1>9. CASE ReplayEndSend
  BY <1>9 DEF ReplayEndSend
<1>10. CASE ReplayEndClear
  <2> USE <1>10 DEF ReplayEndClear
  <2>1. TypeOK'
    <3>1. replaying' \in BOOLEAN
      BY Zenon
    <3> QED
      BY <3>1
  <2>2. Exclusive' /\ RecordedPrefix' /\ ReplayHasRoute'
    OBVIOUS
  <2>3. CursorInPlace' /\ PlaysRecordedSlot'
    OBVIOUS
  <2> QED
    BY <2>1, <2>2, <2>3
<1>11. CASE ReplaySuspend
  BY <1>11 DEF ReplaySuspend
<1> QED
  BY <1>1, <1>2, <1>3, <1>4, <1>5, <1>6, <1>7, <1>8, <1>9, <1>10, <1>11 DEF ReplayTask

(* Each step of the main task preserves it: no slot is ever blanked, and a
   recording begins only when no replay needs its route. *)
LEMMA MainInv == IInv /\ Main => IInv'
<1> USE RecorderAssumption DEF RecorderAssumption
<1> SUFFICES ASSUME IInv, Main PROVE IInv'
  OBVIOUS
<1> USE DEF IInv, TypeOK, Exclusive, RecordedPrefix, ReplayHasRoute, CursorInPlace,
            PlaysRecordedSlot, Slot, Playing, ReplayPC, CallPC, routeVars, flags, taskVars
<1>1. CASE ToggleReplay
  <2> USE <1>1 DEF ToggleReplay, ReplayStart, vars
  <2>1. TypeOK'
    OBVIOUS
  <2>2. Exclusive' /\ RecordedPrefix' /\ ReplayHasRoute'
    OBVIOUS
  <2>3. CursorInPlace' /\ PlaysRecordedSlot'
    OBVIOUS
  <2> QED
    BY <2>1, <2>2, <2>3
<1>2. CASE StartResume
  BY <1>2 DEF StartResume
<1>3. CASE StopCheck
  BY <1>3 DEF StopCheck
<1>4. CASE StopClear
  BY <1>4 DEF StopClear
<1>5. CASE StopAbort
  BY <1>5 DEF StopAbort
<1>6. CASE ToggleRecord
  BY <1>6 DEF ToggleRecord
<1>7. ASSUME NEW s \in Sample, RecordProcess(s) PROVE IInv'
  <2>1. CASE recording /\ route_index < SAMPLE_LIST_COUNT /\ IsChange(s)
    BY <1>7, <2>1 DEF RecordProcess
  <2>2. CASE ~(recording /\ route_index < SAMPLE_LIST_COUNT /\ IsChange(s))
    BY <1>7, <2>2 DEF RecordProcess
  <2> QED
    BY <2>1, <2>2
<1> QED
  BY <1>1, <1>2, <1>3, <1>4, <1>5, <1>6, <1>7 DEF Main, CallStep

(* So does every step, of the recorder alone or as a part of the rover. *)
LEMMA StepInv == IInv /\ [Next]_vars => IInv'
<1> SUFFICES ASSUME IInv, [Next]_vars PROVE IInv'
  OBVIOUS
<1>1. CASE Next
  BY <1>1, ReplayTaskInv, MainInv DEF Next
<1>2. CASE UNCHANGED vars
  BY <1>2 DEF vars, flags, routeVars, taskVars, IInv, TypeOK, Exclusive, RecordedPrefix,
              ReplayHasRoute, CursorInPlace, PlaysRecordedSlot
<1> QED
  BY <1>1, <1>2

(* IInv is an invariant of the recorder. *)
THEOREM Invariant == Spec => []IInv
BY InitInv, StepInv, PTL DEF Spec

-----------------------------------------------------------------------------
(* Type correctness: the cursor stays within one of the array, and the number
   of recorded slots within it. *)
THEOREM TypeCorrect == Spec => []TypeOK
<1>1. IInv => TypeOK
  BY DEF IInv
<1> QED
  BY <1>1, Invariant, PTL

(* replay_task reads inside the array and in recorded slots only, for a route
   of any length (routerecorder.c:47, 58, 60). *)
THEOREM PlaysRecorded == Spec => []PlaysRecordedSlot
<1>1. IInv => PlaysRecordedSlot
  BY DEF IInv
<1> QED
  BY <1>1, Invariant, PTL

(* Recording and replaying exclude each other although the two flags are
   tested and set with no lock. *)
THEOREM MutualExclusion == Spec => []Exclusive
<1>1. IInv => Exclusive
  BY DEF IInv
<1> QED
  BY <1>1, Invariant, PTL

(* While a replay is on, main cannot change the route it plays. *)
THEOREM Frozen == Spec => RouteFrozen
<1>1. IInv /\ [Next]_vars => [replaying => UNCHANGED routeVars]_vars
  <2> SUFFICES ASSUME IInv, Next, replaying PROVE UNCHANGED routeVars
    BY DEF routeVars
  <2> USE DEF routeVars, IInv, Exclusive
  <2>1. CASE ReplayTask
    BY <2>1 DEF ReplayTask, ReplayGoto, ReplayTest, ReplayCheck, ReplaySleep, ReplayWake,
                ReplayRecheck, ReplaySet, ReplayProcess, ReplaySteer, ReplayAdvance,
                ReplayEndSend, ReplayEndClear, ReplaySuspend
  <2>2. CASE ToggleReplay
    BY <2>2 DEF ToggleReplay, ReplayStart
  <2>3. CASE CallStep
    BY <2>3 DEF CallStep, StartResume, StopCheck, StopClear, StopAbort
  <2>4. CASE ToggleRecord
    BY <2>4 DEF ToggleRecord
  <2>5. ASSUME NEW s \in Sample, RecordProcess(s) PROVE UNCHANGED routeVars
    BY <2>5 DEF RecordProcess
  <2> QED
    BY <2>1, <2>2, <2>3, <2>4, <2>5 DEF Next, Main
<1> QED
  BY <1>1, Invariant, PTL DEF Spec, RouteFrozen

(* A recorded route holds no sample twice in a row: what record_process discards
   is everything that repeats, across restarted recordings too. *)
THEOREM NoRepeats == Spec => []NoIdenticalNeighbours
<1>1. Init => NoIdenticalNeighbours
  BY DEF Init, NoIdenticalNeighbours
<1>2. TypeOK /\ NoIdenticalNeighbours /\ [Next]_vars => NoIdenticalNeighbours'
  <2> SUFFICES ASSUME TypeOK, NoIdenticalNeighbours, [Next]_vars PROVE NoIdenticalNeighbours'
    OBVIOUS
  <2> USE RecorderAssumption DEF RecorderAssumption, NoIdenticalNeighbours, TypeOK, Slot, routeVars
  <2>1. CASE UNCHANGED routeVars
    BY <2>1
  <2>2. CASE ToggleRecord
    BY <2>2 DEF ToggleRecord
  <2>3. ASSUME NEW s \in Sample, RecordProcess(s) PROVE NoIdenticalNeighbours'
    <3>1. CASE recording /\ route_index < SAMPLE_LIST_COUNT /\ IsChange(s)
      <4>1. route' = [route EXCEPT ![route_index] = s] /\ route_index' = route_index + 1
        BY <2>3, <3>1 DEF RecordProcess
      <4>2. route_index > 0 => route[route_index - 1] # s
        BY <3>1 DEF IsChange
      <4> QED
        BY <3>1, <4>1, <4>2
    <3>2. CASE ~(recording /\ route_index < SAMPLE_LIST_COUNT /\ IsChange(s))
      BY <2>3, <3>2 DEF RecordProcess
    <3> QED
      BY <3>1, <3>2
  <2>4. CASE ReplayTask
    BY <2>4 DEF ReplayTask, ReplayGoto, ReplayTest, ReplayCheck, ReplaySleep, ReplayWake,
                ReplayRecheck, ReplaySet, ReplayProcess, ReplaySteer, ReplayAdvance,
                ReplayEndSend, ReplayEndClear, ReplaySuspend
  <2>5. CASE ToggleReplay \/ CallStep
    BY <2>5 DEF ToggleReplay, ReplayStart, vars, CallStep, StartResume, StopCheck, StopClear,
                StopAbort
  <2>6. CASE UNCHANGED vars
    BY <2>6 DEF vars
  <2> QED
    BY <2>2, <2>3, <2>4, <2>5, <2>6 DEF Next, Main
<1> QED
  BY <1>1, <1>2, TypeCorrect, PTL DEF Spec
=============================================================================
