------------------------- MODULE ObstructionsProofs -------------------------
(* Proofs about the obstruction task, for any number of directions, any     *)
(* echoes and any length of the main task's queue.                          *)
EXTENDS Obstructions, TLAPS

(* The task remembers what obstruction_is_too_close says ... *)
Remembered == something_too_close = IsTooClose(distances)

(* ... and has told it, but for a refused message. *)
Told == missed \/ (heard = "detected" <=> something_too_close)

(* Where the one measurement that a trigger asks for may be: between two
   turns it is either awaited still or queued, and then it is the latest. *)
OneMeasurement ==
  /\ pc # "read" => /\ results <= 1
                    /\ results = 1 => age = 0 /\ ~receiving
  /\ pc = "read" => /\ results = 2 => age = 0 /\ ~receiving
                    /\ results = 1 => age <= 1

IInv == TypeOK /\ Remembered /\ Told /\ OneMeasurement
-----------------------------------------------------------------------------
(* A reading is a distance the array may hold: no echo reaches the sign bit. *)
LEMMA EchoFits ==
  /\ \A e \in Echoes \cup {0} : Int16(e) = e
  /\ Int16(TIMEOUT) \in Distances
  /\ raw \in Echoes \cup {0} => Int16(raw) \in Distances
<1>1. 25000 \div 58 = 431
  OBVIOUS
<1>2. \A e \in Echoes \cup {0} : e \in Int /\ e < 32768
  BY <1>1, ObstructionsAssumption
<1>3. \A e \in Echoes \cup {0} : Int16(e) = e
  BY <1>2 DEF Int16
<1>4. QED
  BY <1>3 DEF Distances

(* The next direction is one of the sweep (obstructions.c:142-147). *)
LEMMA FollowingFits == ASSUME NEW i \in Index PROVE Following(i) \in Index
BY ObstructionsAssumption DEF Index, Following

(* A message is told or refused, and the queue keeps its length. *)
LEMMA TellFits ==
  ASSUME TypeOK, NEW m \in {"cleared", "detected"}, Tell(m)
  PROVE  /\ waiting' \in 0..QUEUE_LEN /\ heard' \in {"cleared", "detected"} /\ missed' \in BOOLEAN
         /\ missed' \/ heard' = m
<1>1. CASE waiting < QUEUE_LEN
  <2>1. waiting' = waiting + 1 /\ heard' = m /\ missed' = FALSE
    BY <1>1 DEF Tell
  <2>2. waiting' \in 0..QUEUE_LEN
    BY <1>1, <2>1, ObstructionsAssumption DEF TypeOK
  <2>3. QED
    BY <2>1, <2>2
<1>2. CASE ~(waiting < QUEUE_LEN)
  BY <1>2 DEF Tell, TypeOK
<1>3. QED
  BY <1>1, <1>2

(* Storing a distance keeps the task's memory true and told
   (obstructions.c:118-147). *)
LEMMA StoreKeeps ==
  ASSUME IInv, NEW distance \in Distances, Store(distance)
  PROVE  /\ angle_index' \in Index
         /\ distances' \in [Index -> Distances]
         /\ something_too_close' \in BOOLEAN
         /\ waiting' \in 0..QUEUE_LEN /\ heard' \in {"cleared", "detected"} /\ missed' \in BOOLEAN
         /\ Remembered' /\ Told'
<1> USE DEF IInv, TypeOK, Remembered, Told
<1>1. angle_index' \in Index
  BY FollowingFits DEF Store
<1>2. CASE distance # 0 /\ distance # distances[angle_index]
  <2> DEFINE d == [distances EXCEPT ![angle_index] = distance]
  <2>1. d \in [Index -> Distances]
    OBVIOUS
  <2>2. IsTooClose(d) \in BOOLEAN
    BY DEF IsTooClose
  <2>3. /\ distances' = d
        /\ something_too_close' = IsTooClose(d)
        /\ CASE IsTooClose(d) /\ ~something_too_close -> Tell("detected")
             [] ~IsTooClose(d) /\ something_too_close -> Tell("cleared")
             [] OTHER -> UNCHANGED mail
    BY <1>2 DEF Store
  <2> HIDE DEF d
  <2>5. Remembered'
    BY <2>3 DEF IsTooClose
  <2>6. CASE IsTooClose(d) /\ ~something_too_close
    BY <1>1, <2>1, <2>2, <2>3, <2>5, <2>6, TellFits
  <2>7. CASE ~IsTooClose(d) /\ something_too_close
    BY <1>1, <2>1, <2>2, <2>3, <2>5, <2>7, TellFits
  <2>8. CASE IsTooClose(d) <=> something_too_close
    BY <1>1, <2>1, <2>2, <2>3, <2>5, <2>8 DEF mail
  <2>9. QED
    BY <2>2, <2>6, <2>7, <2>8
<1>3. CASE ~(distance # 0 /\ distance # distances[angle_index])
  BY <1>1, <1>3 DEF Store, mail, IsTooClose
<1>4. QED
  BY <1>2, <1>3
-----------------------------------------------------------------------------
LEMMA Step == ASSUME IInv, [Next]_vars PROVE IInv'
<1> USE DEF IInv, TypeOK, Bumper, sonar, sweep, mail
<1>1. CASE Trigger
  BY <1>1 DEF Trigger, Remembered, Told, OneMeasurement, IsTooClose
<1>2. CASE TriggerFails
  BY <1>2, FollowingFits DEF TriggerFails, Remembered, Told, OneMeasurement, IsTooClose
<1>3. CASE Skip
  BY <1>3 DEF Skip, Remembered, Told, OneMeasurement, IsTooClose
<1>4. CASE ReadResult
  <2>1. Store(Int16(raw)) /\ Int16(raw) \in Distances
    BY <1>4, EchoFits DEF ReadResult
  <2>2. OneMeasurement'
    BY <1>4 DEF ReadResult, TakeResult, OneMeasurement
  <2>3. results' \in 0..2
    BY <1>4 DEF ReadResult, TakeResult
  <2>4. /\ pc' = "rear"
        /\ UNCHANGED <<sweep_enabled, collision, level, receiving, raw, age>>
    BY <1>4 DEF ReadResult
  <2>5. /\ angle_index' \in Index
        /\ distances' \in [Index -> Distances]
        /\ something_too_close' \in BOOLEAN
        /\ waiting' \in 0..QUEUE_LEN /\ heard' \in {"cleared", "detected"} /\ missed' \in BOOLEAN
        /\ Remembered' /\ Told'
    BY <2>1, StoreKeeps
  <2>6. QED
    BY <2>2, <2>3, <2>4, <2>5
<1>5. CASE ReadTimeout
  <2>1. Store(Int16(TIMEOUT)) /\ Int16(TIMEOUT) \in Distances
    BY <1>5, EchoFits DEF ReadTimeout
  <2>2. OneMeasurement'
    BY <1>5 DEF ReadTimeout, OneMeasurement
  <2>3. /\ angle_index' \in Index
        /\ distances' \in [Index -> Distances]
        /\ something_too_close' \in BOOLEAN
        /\ waiting' \in 0..QUEUE_LEN /\ heard' \in {"cleared", "detected"} /\ missed' \in BOOLEAN
        /\ Remembered' /\ Told'
    BY <2>1, StoreKeeps
  <2>4. /\ pc' = "rear"
        /\ UNCHANGED <<sweep_enabled, collision, level, sonar>>
    BY <1>5 DEF ReadTimeout
  <2>5. QED
    BY <2>2, <2>3, <2>4
<1>6. ASSUME NEW b \in Bumper, LookAt(b) PROVE IInv'
  BY <1>6, ObstructionsAssumption
  DEF LookAt, Collide, Remember, Remembered, Told, OneMeasurement, IsTooClose
<1>7. CASE RxDone
  <2>1. results' = results + 1 /\ results' \in 0..2
    <3>1. results # 2
      BY <1>7 DEF RxDone, OneMeasurement
    <3>2. QED
      BY <1>7, <3>1 DEF RxDone
  <2>2. OneMeasurement'
    BY <1>7, <2>1 DEF RxDone, OneMeasurement
  <2>3. TypeOK'
    <3>0. receiving' \in BOOLEAN /\ age' = 0
      BY <1>7 DEF RxDone
    <3>1. raw' \in Echoes \cup {0}
      BY <1>7, Zenon DEF RxDone
    <3>2. UNCHANGED <<pc, sweep_enabled, sweep, collision, level, mail>>
      BY <1>7 DEF RxDone
    <3>3. QED
      BY <2>1, <3>0, <3>1, <3>2
  <2>4. Remembered' /\ Told'
    BY <1>7 DEF RxDone, Remembered, Told, IsTooClose
  <2>5. QED
    BY <2>2, <2>3, <2>4
<1>8. CASE EnableSweep
  BY <1>8, ObstructionsAssumption
  DEF EnableSweep, Remembered, Told, OneMeasurement, IsTooClose
<1>9. CASE MainTakes \/ OtherSends
  <2>1. waiting' \in 0..QUEUE_LEN
    BY <1>9, ObstructionsAssumption DEF MainTakes, OtherSends
  <2>2. UNCHANGED <<pc, sweep_enabled, sweep, collision, level, sonar, heard, missed>>
    BY <1>9 DEF MainTakes, OtherSends
  <2>3. QED
    BY <2>1, <2>2 DEF Remembered, Told, OneMeasurement, IsTooClose
<1>10. CASE BumperMoves
  BY <1>10 DEF BumperMoves, Remembered, Told, OneMeasurement, IsTooClose
<1>11. CASE UNCHANGED vars
  BY <1>11 DEF vars, Remembered, Told, OneMeasurement, IsTooClose
<1>12. QED
  BY <1>1, <1>2, <1>3, <1>4, <1>5, <1>6, <1>7, <1>8, <1>9, <1>10, <1>11
  DEF Next, CheckObstructionsTask

THEOREM Invariant == Spec => []IInv
<1>1. ASSUME Init PROVE IInv
  <2>1. angle_index \in Index /\ waiting \in 0..QUEUE_LEN
    BY <1>1, ObstructionsAssumption DEF Init, Index
  <2>2. distances \in [Index -> Distances]
    BY <1>1 DEF Init, Distances
  <2>3. ~IsTooClose(distances)
    <3>1. \A i \in Index : distances[i] = 0
      BY <1>1 DEF Init
    <3>2. QED
      BY <3>1 DEF IsTooClose
  <2>4. TypeOK
    <3>0. results \in 0..2 /\ age \in 0..2 /\ receiving \in BOOLEAN
      <4>1. results = 0 /\ age = 0
        BY <1>1 DEF Init
      <4>2. receiving \in BOOLEAN
        BY <1>1, Zenon DEF Init
      <4>3. 0 \in 0..2
        OBVIOUS
      <4>4. QED
        BY <4>1, <4>2, <4>3, Zenon
    <3>1. raw \in Echoes \cup {0}
      BY <1>1, Zenon DEF Init
    <3>2. collision \in [Bumper -> BOOLEAN] /\ level \in [Bumper -> BOOLEAN]
      BY <1>1 DEF Init
    <3>3. /\ pc \in {"top", "read"} \cup Bumper
          /\ sweep_enabled \in BOOLEAN /\ something_too_close \in BOOLEAN
          /\ heard \in {"cleared", "detected"} /\ missed \in BOOLEAN
      BY <1>1 DEF Init
    <3>4. QED
      BY <2>1, <2>2, <3>0, <3>1, <3>2, <3>3, Zenon DEF TypeOK
  <2>5. Remembered
    BY <1>1, <2>3 DEF Init, Remembered, IsTooClose
  <2>6. QED
    BY <1>1, <2>4, <2>5 DEF Init, IInv, Told, OneMeasurement
<1>2. QED
  BY <1>1, Step, PTL DEF Spec
-----------------------------------------------------------------------------
(* The index stays within the array of distances, whose values are readings,
   and neither queue overflows, for any sweep (obstructions.c:118-147). *)
THEOREM TypeCorrect == Spec => []TypeOK
<1>1. IInv => TypeOK
  BY DEF IInv
<1>2. QED
  BY <1>1, Invariant, PTL

(* For any number of directions the main task was told last what
   obstruction_is_too_close answers, or the last message was refused
   (obstructions.c:127-139). *)
THEOREM Right == Spec => []ToldRight
<1>1. IInv => ToldRight
  BY DEF IInv, Remembered, Told, IsTooClose, ToldRight
<1>2. QED
  BY <1>1, Invariant, PTL

(* The reading taken is of this trigger or the one before, however late
   pulses come (hcsr04.c:33-48). *)
THEOREM Recent == Spec => []ReadingRecent
<1>1. IInv => ReadingRecent
  BY DEF IInv, TypeOK, OneMeasurement, ReadingRecent
<1>2. QED
  BY <1>1, Invariant, PTL
=============================================================================
