------------------------------ MODULE Sensors ------------------------------
(***************************************************************************)
(* The sensor task (mainboard/main/sensors.c) with its driver of the       *)
(* climate sensor (bmx280.c, bmx280.h) and the accelerometer and           *)
(* magnetometer it reads itself, all on one I2C bus.  Any transfer may     *)
(* fail; the chip measures on its own once told to.                        *)
(*                                                                         *)
(* A climate value is abstracted to the measurement it comes from, the six *)
(* bytes of a motion sensor to the sensor they come from, roll and pitch   *)
(* to the turn they were computed in.  The compensation formulas are left  *)
(* out but for what they read: the calibration and, for pressure and       *)
(* humidity, the temperature read just before.                             *)
(***************************************************************************)
CONSTANT Chips  (* climate sensors that may be fitted *)

Address == {"EC", "EE"}

ASSUME SensorsAssumption ==
  Chips \subseteq [address: Address \cup {"none"}, known: BOOLEAN]

VARIABLES
  pc,        (* next step of sensors_init or sensor_task; "off": no task   *)
  chip,      (* the sensor fitted: its address, whether its id is known    *)
  measuring, (* the chip's status bit                                      *)
  registers, (* the measurement its data registers hold                    *)
  dead,      (* the bus answers no more                                    *)
  cal,       (* banks of calibration in cmps                               *)
  lsm,       (* motion sensors taken out of their sleep                    *)
  epochs,    (* measurements the values of this readout come from          *)
  floats,    (* measurements behind temperature, pressure and humidity     *)
  env,       (* ... and behind the three metrics                           *)
  data,      (* the six bytes both motion sensors are read into            *)
  tilt,      (* when metrics.roll and metrics.pitch were computed          *)
  clean,     (* no transfer of this turn has failed (history)              *)
  known      (* a readout has succeeded (history)                          *)

board == <<chip, measuring, registers, dead>>
boot == <<cal, lsm>>
climate == <<epochs, floats, env>>
motion == <<data, tilt>>
history == <<clean, known>>
vars == <<pc, board, boot, climate, motion, history>>

(* Registers hold nothing measured yet, a measurement of an earlier turn or
   the one of this turn. *)
Epoch == {"reset", "old", "new"}
Garbage == {"garbage"}      (* an uninitialised float *)
MotionSensor == {"accel", "mag"}
Sense == {"zero", "field", "acceleration"}
Booting == {"create", "probe", "reset", "calibrate", "configure", "lsm"}
Step == Booting \cup
        {"off", "mode", "sampling", "temperature", "pressure", "humidity",
         "publish", "mag", "accel"}

(* The task runs only with a chip found and identified. *)
TypeOK ==
  /\ pc \in Step
  /\ chip \in Chips
  /\ measuring \in BOOLEAN
  /\ registers \in Epoch
  /\ dead \in BOOLEAN
  /\ cal \subseteq {"low", "high"}
  /\ lsm \subseteq MotionSensor
  /\ epochs \subseteq Epoch
  /\ floats \in (SUBSET Epoch) \cup {Garbage}
  /\ env \in (SUBSET Epoch) \cup {Garbage}
  /\ data \in Sense
  /\ tilt \in Epoch
  /\ clean \in BOOLEAN /\ known \in BOOLEAN
  /\ pc \notin Booting \cup {"off"} => chip.address \in Address /\ chip.known

(* The motion sensors keep their setting through a deep sleep of the board. *)
Init ==
  /\ pc = "create"
  /\ chip \in Chips
  /\ measuring = FALSE /\ registers = "reset" /\ dead = FALSE
  /\ cal = {} /\ lsm \in {{}, MotionSensor}
  /\ epochs = {} /\ floats = Garbage /\ env = {}
  /\ data = "zero" /\ tilt = "reset"
  /\ clean = TRUE /\ known = FALSE
-----------------------------------------------------------------------------
(* bmx280_create: without memory, bmx280_init refuses the null pointer. *)
Create ==
  /\ pc = "create"
  /\ pc' \in {"probe", "off"}
  /\ UNCHANGED <<board, boot, climate, motion, history>>

(* bmx280_probe_address without, a slip, and with bmx280_verify of the id. *)
IdentifiedAny(answers) == answers # {}
Identified(answers) == answers # {} /\ chip.known

(* bmx280_probe tries both addresses, each with one read of the id. *)
Probe ==
  /\ pc = "probe"
  /\ \E answers \in SUBSET (Address \cap {chip.address}) :
       pc' = IF Identified(answers) THEN "reset" ELSE "off"
  /\ UNCHANGED <<board, boot, climate, motion, history>>

Reset ==
  /\ pc = "reset"
  /\ pc' \in {"calibrate", "off"}
  /\ UNCHANGED <<board, boot, climate, motion, history>>

(* bmx280_calibrate reads the low bank, then the high one; bmx280_init does
   not look at its error. *)
Calibrate ==
  /\ pc = "calibrate"
  /\ cal' \in {{}, {"low"}, {"low", "high"}}
  /\ pc' = "configure"
  /\ UNCHANGED <<board, lsm, climate, motion, history>>

(* bmx280_configure gives up at the first write that fails. *)
Configure ==
  /\ pc = "configure"
  /\ pc' \in {"lsm", "off"}
  /\ UNCHANGED <<board, boot, climate, motion, history>>

(* Five writes of lsm303_write; no result is looked at.  Two of them wake the
   sensors, the others choose scale, rate and gain. *)
ConfigureLsm ==
  /\ pc = "lsm"
  /\ \E woken \in SUBSET MotionSensor : lsm' = lsm \cup woken
  /\ pc' = "mode"
  /\ UNCHANGED <<board, cal, climate, motion, history>>

SensorsInit ==
  Create \/ Probe \/ Reset \/ Calibrate \/ Configure \/ ConfigureLsm
-----------------------------------------------------------------------------
(* Whether a transfer may succeed. *)
Transfer(ok) == ok => ~dead

(* The locals temperature, pressure and humidity at the start of a turn: what
   they were, now of an earlier turn.  Declared inside the loop, a plausible
   slip, they would be garbage again. *)
LocalsInLoop == Garbage
Locals == IF floats = Garbage THEN Garbage ELSE {"old"}

(* bmx280_setMode(SLEEP) in place of ... *)
SleepMode(ok) ==
  /\ measuring' = FALSE
  /\ registers' = IF registers = "new" THEN "old" ELSE registers
(* ... bmx280_setMode(FORCE), a read and a write of one register. *)
ForceMode(ok) ==
  /\ measuring' = ok
  /\ registers' = IF registers = "new" THEN "old" ELSE registers

(* A turn begins after a pause of one second, which outlasts a measurement
   (about 50 ms) still going on. *)
SetMode ==
  /\ pc = "mode" /\ ~measuring
  /\ \E ok \in BOOLEAN : Transfer(ok) /\ ForceMode(ok) /\ clean' = ok
  /\ epochs' = {}
  /\ floats' = Locals
  /\ env' = IF env \in {Garbage, {}} THEN env ELSE {"old"}
  /\ tilt' = IF tilt = "new" THEN "old" ELSE tilt
  /\ pc' = "sampling"
  /\ UNCHANGED <<chip, dead, boot, data, known>>

(* bmx280_isSampling when the status could be read or not: FALSE if not.  Its
   variant takes a failed read for a chip still busy. *)
IsSamplingCautious(ok) == ok => measuring
IsSampling(ok) == ok /\ measuring

AwaitSample ==
  /\ pc = "sampling"
  /\ \E ok \in BOOLEAN :
       /\ Transfer(ok)
       /\ clean' = (clean /\ ok)
       /\ pc' = IF IsSampling(ok) THEN "sampling" ELSE "temperature"
  /\ UNCHANGED <<board, boot, climate, motion, known>>

(* One read of bmx280_readout: at an error the rest is skipped, and
   bmx280_readoutFloat leaves the floats as they are. *)
Readout(from, to) ==
  /\ pc = from
  /\ \E ok \in BOOLEAN :
       /\ Transfer(ok)
       /\ clean' = (clean /\ ok)
       /\ epochs' = IF ok THEN epochs \cup {registers} ELSE epochs
       /\ pc' = IF ok THEN to ELSE "publish"
       /\ IF ok /\ to = "publish"
          THEN floats' = epochs' /\ known' = TRUE
          ELSE UNCHANGED <<floats, known>>
  /\ UNCHANGED <<board, boot, env, motion>>

(* Mutant: the six bytes are kept from turn to turn. *)
PublishKeeping ==
  /\ pc = "publish"
  /\ env' = floats
  /\ pc' = "mag"
  /\ UNCHANGED <<board, boot, epochs, floats, motion, history>>

(* The three metrics; the result of the readout is not looked at.  The six bytes
   are declared inside the loop: every turn starts with zeros. *)
Publish ==
  /\ pc = "publish"
  /\ env' = floats
  /\ data' = "zero"
  /\ pc' = "mag"
  /\ UNCHANGED <<board, boot, epochs, floats, tilt, history>>

(* The bytes a motion sensor sends: zeros as long as it is asleep. *)
Sensed(sensor, bytes) == IF sensor \in lsm THEN bytes ELSE "zero"

ReadMag ==
  /\ pc = "mag"
  /\ \E ok \in BOOLEAN :
       /\ Transfer(ok)
       /\ clean' = (clean /\ ok)
       /\ data' = IF ok THEN Sensed("mag", "field") ELSE data
  /\ pc' = "accel"
  /\ UNCHANGED <<board, boot, climate, tilt, known>>

(* calculate_tilt looks at nothing but the length of the vector, between 9.5 and
   10.2: at rest or in motion, at either scale, and of the magnetometer's bytes
   too, it may be that of gravity or not.  Of zeros the offsets are left, whose
   length is 2.1. *)
IsGravity(d) == IF d = "zero" THEN {FALSE} ELSE BOOLEAN

ReadAccel ==
  /\ pc = "accel"
  /\ \E ok \in BOOLEAN :
       /\ Transfer(ok)
       /\ clean' = (clean /\ ok)
       /\ data' = IF ok THEN Sensed("accel", "acceleration") ELSE data
  /\ \E level \in IsGravity(data') : tilt' = IF level THEN "new" ELSE tilt
  /\ pc' = "mode"
  /\ UNCHANGED <<board, boot, climate, known>>

SensorTask ==
  \/ SetMode \/ AwaitSample
  \/ Readout("temperature", "pressure")
  \/ Readout("pressure", "humidity")
  \/ Readout("humidity", "publish")
  \/ Publish \/ ReadMag \/ ReadAccel
-----------------------------------------------------------------------------
(* The chip finishes a measurement. *)
Measured ==
  /\ measuring
  /\ measuring' = FALSE /\ registers' = "new"
  /\ UNCHANGED <<pc, chip, dead, boot, climate, motion, history>>

(* From some time on, every transfer fails. *)
BusDies ==
  /\ pc \notin Booting
  /\ dead' = TRUE
  /\ UNCHANGED <<pc, chip, measuring, registers, boot, climate, motion, history>>

Off == pc = "off" /\ UNCHANGED vars

Next == SensorsInit \/ SensorTask \/ Measured \/ BusDies \/ Off

Spec == Init /\ [][Next]_vars

(* Fairness asks nothing of the bus: a step a dead bus keeps from changing
   anything is not owed. *)
FairSpec ==
  Spec /\ WF_vars(SensorsInit) /\ WF_vars(SensorTask) /\ WF_vars(Measured)
-----------------------------------------------------------------------------
(* A turn in which every transfer succeeded publishes temperature, pressure
   and humidity of one measurement, the one this turn asked for
   (sensors.c:105-113). *)
CleanTurnFresh == pc \in {"mag", "accel"} /\ clean => env = {"new"}

(* Once a readout has succeeded, no turn publishes an uninitialised value,
   whichever later transfer fails (sensors.c:100-113). *)
KnownStays == pc = "mag" /\ known => env # Garbage

(* A turn that begins with the bus dead, and every one after it, publishes
   nothing as new: no measurement still in the chip's registers, and no roll
   and pitch from bytes that were read while the bus was alive, though no
   transfer's result is looked at (sensors.c:105-134).  The heading is another
   matter: it is computed from whatever the bytes are. *)
NothingNew == "new" \notin env /\ tilt # "new"
DeadBusPublishesNothing == [](dead /\ pc = "sampling" => []NothingNew)

(* A bus gone dead does not stop the task: every turn ends and heading and
   tilt are tried again (sensors.c:106-109). *)
DeadBusStillRuns == pc = "mode" ~> pc = "accel"

(* "Probe for the sensor and read calibration data." (bmx280.h:187): the task
   converts with the calibration bmx280_init has read. *)
Calibrated == pc = "publish" => cal = {"low", "high"}
=============================================================================
