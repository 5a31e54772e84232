------------------------------- MODULE Wheels -------------------------------
(***************************************************************************)
(* Wheel speed: pcnt_isr counts encoder events of the four motors, and     *)
(* check_rpm turns the counts of every second into the metrics             *)
(* (mainboard/main/hardware.c).  Interrupts and the task run on different  *)
(* cores of the ESP32-S3: portDISABLE_INTERRUPTS holds off the task's own  *)
(* core only, so one access to a counter is one step.                      *)
(*                                                                         *)
(* The counter hardware raises an event every 88 of the 700 pulses of a    *)
(* turn of the wheel; events are what is counted here.                     *)
(***************************************************************************)
EXTENDS Integers

CONSTANTS
  Driven,     (* motors that turn                                          *)
  MAX_EVENTS, (* bound on the events of a motor in a second                *)
  MAX_COUNT   (* bound on a counter, which lost resets would let grow      *)

Motor == 1..4
WHEEL_SIZE_MM == 358
UINT16 == 65536
uint16_t == {n \in Nat : n < UINT16}

ASSUME WheelsAssumption ==
  /\ Driven \subseteq Motor
  /\ MAX_EVENTS \in Nat
  /\ MAX_COUNT \in Nat

VARIABLES
  revolutions, (* motor_revolutions of each motor                          *)
  isr,         (* the interrupt handler: its motor, the increment it is at,
                  and the value it loaded                                  *)
  pc,          (* statement of check_rpm                                   *)
  rpm,         (* check_rpm's locals                                       *)
  metrics,     (* rpm1 to rpm4 and speed                                   *)
  read,        (* the counter each rpm was computed from (history)         *)
  since,       (* events since a motor's last reset (history)              *)
  late,        (* ... of them, those after it was read (history)           *)
  raced        (* the last reset met the handler in this motor's counter   *)

history == <<read, since, late, raced>>
vars == <<revolutions, isr, pc, rpm, metrics, history>>

None == 0
Idle == [motor |-> None, at |-> "out", loaded |-> 0]
Handler == [motor: Motor, at: {"load1", "store1", "load2", "store2"}, loaded: Nat]

(* Statements of check_rpm, in order; m in 1..4 reads the counter of motor m. *)
DELAY == 0
METRICS == 5
RESET == 6
SPEED == 7
PC == DELAY..SPEED

(* uint16_t rpm = (motor_revolutions * 60) >> 3, and the half of it that is
   reported. *)
Rpm(count) == ((count * 60) \div 8) % UINT16
Reported(r) == r \div 2

(* mm_per_minutes, 16 bits wide, from the average rpm; then the speed. *)
Speed(average) == ((average * WHEEL_SIZE_MM) % UINT16) \div 1667
Average(r) == (r[1] + r[2] + r[3] + r[4]) \div 4

TypeOK ==
  /\ revolutions \in [Motor -> Nat]
  /\ isr \in Handler \cup {Idle}
  /\ pc \in PC
  /\ rpm \in [Motor -> uint16_t]
  /\ metrics \in [rpm: [Motor -> uint16_t], speed: 0..39]
  /\ read \in [Motor -> Nat]
  /\ since \in [Motor -> Nat]
  /\ late \in [Motor -> Nat]
  /\ raced \in [Motor -> BOOLEAN]
  /\ \A m \in Motor : late[m] <= since[m]

Zero == [m \in Motor |-> 0]

Init ==
  /\ revolutions = Zero
  /\ isr = Idle
  /\ pc = DELAY
  /\ rpm = Zero
  /\ metrics = [rpm |-> Zero, speed |-> 0]
  /\ read = Zero /\ since = Zero /\ late = Zero
  /\ raced = [m \in Motor |-> FALSE]

(* check_rpm has read motor m in this turn. *)
HasRead(m) == m < pc /\ pc # SPEED
-----------------------------------------------------------------------------
(* pcnt_isr is entered: one handler serves all four units, one at a time. *)
Event(m) ==
  /\ isr = Idle
  /\ since[m] < MAX_EVENTS /\ revolutions[m] < MAX_COUNT
  /\ isr' = [motor |-> m, at |-> "load1", loaded |-> 0]
  /\ since' = [since EXCEPT ![m] = @ + 1]
  /\ late' = IF HasRead(m) THEN [late EXCEPT ![m] = @ + 1] ELSE late
  /\ UNCHANGED <<revolutions, pc, rpm, metrics, read, raced>>

(* motor_revolutions++, which the handler does twice. *)
Load(from, to) ==
  /\ isr.at = from
  /\ isr' = [isr EXCEPT !.at = to, !.loaded = revolutions[isr.motor]]
  /\ UNCHANGED <<revolutions, pc, rpm, metrics, history>>

Store(from, next) ==
  /\ isr.at = from
  /\ revolutions' = [revolutions EXCEPT ![isr.motor] = isr.loaded + 1]
  /\ isr' = next
  /\ UNCHANGED <<pc, rpm, metrics, history>>

PcntIsr ==
  \/ Load("load1", "store1")
  \/ Store("store1", [isr EXCEPT !.at = "load2"])
  \/ Load("load2", "store2")
  \/ Store("store2", Idle)
-----------------------------------------------------------------------------
WakeUp ==
  /\ pc = DELAY
  /\ pc' = 1
  /\ UNCHANGED <<revolutions, isr, rpm, metrics, history>>

(* The counter rpm is computed from; a slip of copying reads motor 2 for
   motor 3. *)
SourceCopied(m) == IF m = 3 THEN 2 ELSE m
Source(m) == m

ReadCounter ==
  /\ pc \in Motor
  /\ rpm' = [rpm EXCEPT ![pc] = Rpm(revolutions[Source(pc)])]
  /\ read' = [read EXCEPT ![pc] = revolutions[Source(pc)]]
  /\ pc' = pc + 1
  /\ UNCHANGED <<revolutions, isr, metrics, since, late, raced>>

SetMetrics ==
  /\ pc = METRICS
  /\ metrics' = [metrics EXCEPT !.rpm = [m \in Motor |-> Reported(rpm[m])]]
  /\ pc' = RESET
  /\ UNCHANGED <<revolutions, isr, rpm, history>>

(* The counters are set to zero with the interrupts of one core disabled; a
   slip leaves out the last one. *)
ClearedThree == [m \in Motor |-> IF m = 4 THEN revolutions[m] ELSE 0]
Cleared == Zero

Reset ==
  /\ pc = RESET
  /\ revolutions' = Cleared
  /\ since' = Zero /\ late' = Zero
  /\ raced' = [m \in Motor |-> isr.motor = m]
  /\ pc' = SPEED
  /\ UNCHANGED <<isr, rpm, metrics, read>>

(* ... and report_metrics. *)
SetSpeed ==
  /\ pc = SPEED
  /\ metrics' = [metrics EXCEPT !.speed = Speed(Average(metrics.rpm))]
  /\ pc' = DELAY
  /\ UNCHANGED <<revolutions, isr, rpm, history>>

CheckRpm == WakeUp \/ ReadCounter \/ SetMetrics \/ Reset \/ SetSpeed

Next == (\E m \in Driven : Event(m)) \/ PcntIsr \/ CheckRpm

Spec == Init /\ [][Next]_vars

(* The handler ends and the task runs; wheels owe nothing. *)
FairSpec == Spec /\ WF_vars(PcntIsr) /\ WF_vars(CheckRpm)
-----------------------------------------------------------------------------
(* Increments the handler has still to store in the counter of motor m. *)
Owed(m) ==
  IF isr.motor # m THEN 0 ELSE IF isr.at \in {"load1", "store1"} THEN 2 ELSE 1

(* Every event since a reset is counted twice, exactly, unless that reset met
   the handler in the same counter (hardware.c:681, 687, 187-190): two cores
   and no lock lose or double nothing else. *)
CountsTwice ==
  \A m \in Motor : ~raced[m] => revolutions[m] + Owed(m) = 2 * since[m]

(* What a turn of check_rpm reads of a motor is every event of that motor up to
   the read, but for the one the handler may be in: only events between the
   read and the reset are lost (hardware.c:175-190). *)
LostInWindow ==
  \A m \in Motor :
    pc = RESET /\ ~raced[m] => 2 * (since[m] - late[m]) - read[m] \in 0..2

(* Wheels that have come to rest are reported at rest for good, whatever the
   handler and the resets did to one another before. *)
StillReadsZero ==
  <>[][\A m \in Motor : since'[m] <= since[m]]_vars
    => <>[](metrics.speed = 0 /\ \A m \in Motor : metrics.rpm[m] = 0)
=============================================================================
