--------------------------- MODULE SensorsProofs ---------------------------
(***************************************************************************)
(* Theorems about module Sensors, for any set of chips that may be fitted. *)
(*                                                                         *)
(* What a turn publishes is decided several steps, and several unchecked   *)
(* results, earlier: the invariant carries that knowledge from step to     *)
(* step of the turn.                                                       *)
(***************************************************************************)
EXTENDS Sensors, TLAPS

(* From bmx280_probe on there is a chip that answered at an address of its
   own and was identified. *)
ChipFound == pc \notin {"create", "probe", "off"} => chip.address \in Address /\ chip.known

(* As long as no transfer of the turn has failed, the readout waits for the
   measurement the turn asked for and hands on nothing but it. *)
CleanTurn ==
  clean =>
    /\ pc = "sampling" => epochs = {} /\ (measuring \/ registers = "new")
    /\ pc = "temperature" => epochs = {} /\ ~measuring /\ registers = "new"
    /\ pc \in {"pressure", "humidity"} =>
         epochs = {"new"} /\ ~measuring /\ registers = "new"
    /\ pc = "publish" => floats = {"new"}
    /\ pc \in {"mag", "accel"} => env = {"new"}

(* The three floats hold a measurement once a readout has succeeded, and what
   is published is what they hold. *)
FloatsKnown ==
  /\ known => floats # Garbage
  /\ pc = "mag" => env = floats

(* When a turn has just begun, everything published or held is of an earlier
   one. *)
TurnBegins ==
  pc = "sampling" => "new" \notin floats /\ "new" \notin env /\ tilt # "new"

(* The inductive invariant. *)
IInv ==
  /\ TypeOK
  /\ ChipFound
  /\ CleanTurn
  /\ FloatsKnown
  /\ TurnBegins

-----------------------------------------------------------------------------
(* It holds at first: nothing is found, read or published. *)
LEMMA InitInv == Init => IInv
<1> SUFFICES ASSUME Init PROVE IInv
  OBVIOUS
<1>1. TypeOK
  <2>1. floats \in (SUBSET Epoch) \cup {Garbage} /\ env \in SUBSET Epoch \cup {Garbage}
    BY DEF Init
  <2> QED
    BY <2>1 DEF Init, TypeOK, Step, Booting, Epoch, Sense, MotionSensor
<1>2. ChipFound /\ CleanTurn /\ FloatsKnown
  BY DEF Init, ChipFound, CleanTurn, FloatsKnown
<1>3. TurnBegins
  BY DEF Init, TurnBegins
<1> QED
  BY <1>1, <1>2, <1>3 DEF IInv

(* A measurement is no garbage: the set of measurements a successful readout
   took its values from has one in it. *)
LEMMA NotGarbage ==
  /\ \A S \in SUBSET Epoch : S # Garbage
  /\ {"old"} \in SUBSET Epoch /\ {"new"} \in SUBSET Epoch /\ {} \in SUBSET Epoch
BY DEF Epoch, Garbage

(* sensors_init preserves the invariant: it ends with a chip identified, or
   without a task, and has read nothing yet. *)
LEMMA SensorsInitInv == ASSUME IInv, SensorsInit PROVE IInv'
<1> USE DEF IInv, TypeOK, ChipFound, CleanTurn, FloatsKnown, TurnBegins,
            Step, Booting, board, boot, climate, motion, history
<1>1. CASE Create
  BY <1>1 DEF Create
<1>2. CASE Probe
  BY <1>2 DEF Probe, Identified
<1>3. CASE Reset
  BY <1>3 DEF Reset
<1>4. CASE Calibrate
  BY <1>4 DEF Calibrate
<1>5. CASE Configure
  BY <1>5 DEF Configure
<1>6. CASE ConfigureLsm
  BY <1>6 DEF ConfigureLsm
<1> QED
  BY <1>1, <1>2, <1>3, <1>4, <1>5, <1>6 DEF SensorsInit

(* A read of bmx280_readout: with the chip at rest every read sees the
   measurement of this turn, and a read that fails makes the turn unclean. *)
LEMMA ReadoutInv ==
  ASSUME IInv, NEW from, NEW to, Readout(from, to),
         <<from, to>> \in {<<"temperature", "pressure">>, <<"pressure", "humidity">>,
                           <<"humidity", "publish">>}
  PROVE  IInv'
<1> USE DEF IInv
<1>1. PICK ok \in BOOLEAN :
        /\ clean' = (clean /\ ok)
        /\ epochs' = IF ok THEN epochs \cup {registers} ELSE epochs
        /\ pc' = IF ok THEN to ELSE "publish"
        /\ IF ok /\ to = "publish"
           THEN floats' = epochs' /\ known' = TRUE
           ELSE UNCHANGED <<floats, known>>
  BY DEF Readout
<1>2. pc = from /\ UNCHANGED <<board, boot, env, motion>>
  BY DEF Readout
<1>3. epochs' \subseteq Epoch
  BY <1>1 DEF TypeOK
<1>4. TypeOK'
  BY <1>1, <1>2, <1>3 DEF TypeOK, Step, Booting, board, boot, motion
<1>5. CleanTurn'
  BY <1>1, <1>2 DEF CleanTurn, board
<1>6. FloatsKnown'
  BY <1>1, <1>2, <1>3, NotGarbage DEF FloatsKnown
<1>7. ChipFound' /\ TurnBegins'
  BY <1>1, <1>2 DEF ChipFound, TurnBegins, Booting, board, boot, motion
<1> QED
  BY <1>4, <1>5, <1>6, <1>7

(* Each step of a turn preserves it.  A turn starts with a request that makes
   the registers stale, or fails and makes the turn unclean. *)
LEMMA SensorTaskInv == ASSUME IInv, SensorTask PROVE IInv'
<1> USE DEF IInv, TypeOK, ChipFound, CleanTurn, FloatsKnown, TurnBegins,
            Step, Booting, board, boot, climate, motion, history
<1>1. CASE SetMode
  <2>1. floats' \in (SUBSET Epoch) \cup {Garbage} /\ (known => floats' # Garbage)
    BY <1>1, NotGarbage DEF SetMode, Locals
  <2>2. env' \in (SUBSET Epoch) \cup {Garbage}
    BY <1>1, NotGarbage DEF SetMode
  <2>3. registers' \in Epoch /\ epochs' = {} /\ (clean' => measuring')
    BY <1>1 DEF SetMode, ForceMode, Epoch
  <2>4. "new" \notin floats' /\ "new" \notin env' /\ tilt' # "new" /\ tilt' \in Epoch
    BY <1>1 DEF SetMode, Locals, Garbage, Epoch
  <2> QED
    BY <1>1, <2>1, <2>2, <2>3, <2>4 DEF SetMode, ForceMode
<1>2. CASE AwaitSample
  BY <1>2 DEF AwaitSample, IsSampling
<1>3. CASE Readout("temperature", "pressure")
  BY <1>3, ReadoutInv
<1>4. CASE Readout("pressure", "humidity")
  BY <1>4, ReadoutInv
<1>5. CASE Readout("humidity", "publish")
  BY <1>5, ReadoutInv
<1>6. CASE Publish
  BY <1>6 DEF Publish, Sense
<1>7. CASE ReadMag
  BY <1>7 DEF ReadMag, Sensed, Sense
<1>8. CASE ReadAccel
  BY <1>8 DEF ReadAccel, Sensed, Sense, Epoch
<1> QED
  BY <1>1, <1>2, <1>3, <1>4, <1>5, <1>6, <1>7, <1>8 DEF SensorTask

(* So do the chip, which ends a measurement only while the task waits, and the
   bus, which can only make later transfers fail. *)
LEMMA StepInv == IInv /\ [Next]_vars => IInv'
<1> SUFFICES ASSUME IInv, [Next]_vars PROVE IInv'
  OBVIOUS
<1> USE DEF IInv, TypeOK, ChipFound, CleanTurn, FloatsKnown, TurnBegins,
            Step, Booting, board, boot, climate, motion, history
<1>1. CASE SensorsInit
  BY <1>1, SensorsInitInv
<1>2. CASE SensorTask
  BY <1>2, SensorTaskInv
<1>3. CASE Measured
  <2>1. registers' \in Epoch
    BY <1>3 DEF Measured, Epoch
  <2>2. measuring /\ measuring' = FALSE /\ registers' = "new"
    BY <1>3 DEF Measured
  <2>3. UNCHANGED <<pc, chip, dead, cal, lsm, epochs, floats, env, data, tilt, clean, known>>
    BY <1>3 DEF Measured
  <2>4. TypeOK'
    BY <2>1, <2>2, <2>3
  <2>5. CleanTurn'
    BY <2>2, <2>3
  <2> QED
    BY <2>3, <2>4, <2>5
<1>4. CASE BusDies
  BY <1>4 DEF BusDies
<1>5. CASE UNCHANGED vars
  BY <1>5 DEF vars
<1> QED
  BY <1>1, <1>2, <1>3, <1>4, <1>5 DEF Next, Off

(* IInv is an invariant of the sensor task. *)
THEOREM Invariant == Spec => []IInv
BY InitInv, StepInv, PTL DEF Spec

-----------------------------------------------------------------------------
(* The state keeps its type, and the task runs only with a chip that
   bmx280_probe found and bmx280_verify identified. *)
THEOREM TypeCorrect == Spec => []TypeOK
<1>1. IInv => TypeOK
  BY DEF IInv
<1> QED
  BY <1>1, Invariant, PTL

(* A turn in which every transfer succeeded publishes temperature, pressure
   and humidity of the one measurement it asked for (sensors.c:105-113),
   however long that takes. *)
THEOREM CleanFresh == Spec => []CleanTurnFresh
<1>1. IInv => CleanTurnFresh
  BY DEF IInv, CleanTurn, CleanTurnFresh
<1> QED
  BY <1>1, Invariant, PTL

(* After one successful readout no turn publishes an uninitialised float,
   whichever transfer fails later (sensors.c:100-113). *)
THEOREM KnownForGood == Spec => []KnownStays
<1>1. IInv => KnownStays
  BY DEF IInv, FloatsKnown, KnownStays
<1> QED
  BY <1>1, Invariant, PTL

(* A turn that began with the bus dead, at any of its steps: nothing published
   or held is of this turn, and the six bytes are zeros once they are cleared. *)
DeadTurn ==
  /\ dead
  /\ pc \notin Booting \cup {"off"}
  /\ "new" \notin floats
  /\ NothingNew
  /\ pc \in {"mag", "accel"} => data = "zero"

(* Every step leads to the same: each read fails, and what zeros and offsets add
   up to is too short to be gravity. *)
LEMMA DeadTurnStep == DeadTurn /\ [Next]_vars => DeadTurn'
<1> SUFFICES ASSUME DeadTurn, [Next]_vars PROVE DeadTurn'
  OBVIOUS
<1> USE DEF DeadTurn, NothingNew, Booting, board, boot, climate, motion, history
<1>1. ~SensorsInit
  BY DEF SensorsInit, Create, Probe, Reset, Calibrate, Configure, ConfigureLsm
<1>2. CASE SetMode
  BY <1>2 DEF SetMode, Locals, Garbage
<1>3. CASE AwaitSample
  BY <1>3 DEF AwaitSample
<1>4. ASSUME NEW from, NEW to, Readout(from, to) PROVE DeadTurn'
  <2>1. pc' = "publish" /\ UNCHANGED <<floats, env, tilt, dead>>
    BY <1>4 DEF Readout, Transfer
  <2> QED
    BY <2>1
<1>5. CASE Publish
  BY <1>5 DEF Publish
<1>6. CASE ReadMag
  BY <1>6 DEF ReadMag, Transfer
<1>7. CASE ReadAccel
  BY <1>7 DEF ReadAccel, Transfer, IsGravity
<1>8. CASE Measured \/ BusDies
  BY <1>8 DEF Measured, BusDies
<1>9. CASE UNCHANGED vars
  BY <1>9 DEF vars
<1> QED
  BY <1>1, <1>2, <1>3, <1>4, <1>5, <1>6, <1>7, <1>8, <1>9 DEF Next, SensorTask, Off

(* From the first turn that begins with the bus dead, nothing is published as
   new: neither a measurement nor roll and pitch of bytes read before. *)
THEOREM DeadBusQuiet == Spec => DeadBusPublishesNothing
<1>1. IInv /\ dead /\ pc = "sampling" => DeadTurn
  BY DEF IInv, TurnBegins, DeadTurn, NothingNew, Booting
<1>2. DeadTurn => NothingNew
  BY DEF DeadTurn
<1> QED
  BY <1>1, <1>2, DeadTurnStep, Invariant, PTL DEF Spec, DeadBusPublishesNothing
=============================================================================
