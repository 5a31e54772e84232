---------------------------- MODULE WheelsProofs ----------------------------
(* Proofs about the wheel counters, for any motors that turn, any number of *)
(* events and any interleaving of the interrupt with check_rpm.             *)
EXTENDS Wheels, TLAPS

(* The value the handler is about to store is the counter's plus one, unless
   the last reset came in between. *)
LoadedFresh ==
  isr.at \in {"store1", "store2"} /\ ~raced[isr.motor]
    => isr.loaded = revolutions[isr.motor]

(* Events are late only for a counter that was read. *)
LateAfterRead == \A m \in Motor : ~HasRead(m) => late[m] = 0

(* LostInWindow from the read of the counter on. *)
ReadIsCount ==
  \A m \in Motor :
    HasRead(m) /\ ~raced[m] => 2 * (since[m] - late[m]) - read[m] \in 0..2

IInv == TypeOK /\ CountsTwice /\ LoadedFresh /\ LateAfterRead /\ ReadIsCount
-----------------------------------------------------------------------------
(* rpm1 to rpm4 fit in their 16 bits, and so does the half of them that is
   reported (hardware.c:175-185). *)
LEMMA RpmFits == ASSUME NEW count \in Nat PROVE Rpm(count) \in uint16_t
BY DEF Rpm, UINT16, uint16_t

LEMMA ReportedFits == ASSUME NEW r \in uint16_t PROVE Reported(r) \in uint16_t
BY DEF Reported, UINT16, uint16_t

(* The speed is below 40 whatever the average: 65535 over 1667. *)
LEMMA SpeedFits ==
  ASSUME NEW average \in Nat
  PROVE  Speed(average) \in 0..39
<1> DEFINE mm == (average * 358) % 65536
<1>1. mm \in Nat /\ mm <= 65535
  OBVIOUS
<1> HIDE DEF mm
<1> DEFINE units == mm \div 1667
<1>2. units \in Nat /\ units <= 39
  BY <1>1
<1> HIDE DEF units
<1>3. units \in 0..39
  BY <1>2
<1>4. QED
  BY <1>3 DEF Speed, WHEEL_SIZE_MM, UINT16, mm, units

(* Up to an average of 183 rpm the 16 bits of mm_per_minutes lose nothing: the
   speed is the millimetres per minute over 1667 (hardware.c:193-194). *)
THEOREM SpeedExact ==
  ASSUME NEW average \in Nat, average <= 183
  PROVE  Speed(average) = (average * 358) \div 1667
<1>1. (average * 358) % 65536 = average * 358
  OBVIOUS
<1>2. QED
  BY <1>1 DEF Speed, WHEEL_SIZE_MM, UINT16

(* From 184 rpm to the 251 the motors are rated at (README.md:29) the product
   wraps, and the speed reported is too low by the 39 units 2^16 is worth, or
   by one more (hardware.c:193). *)
THEOREM SpeedLow ==
  ASSUME NEW average \in Nat, 184 <= average, average <= 251
  PROVE  Speed(average) + 39 <= (average * 358) \div 1667
<1> DEFINE mm == average * 358
<1>1. mm \in Nat /\ 65536 <= mm /\ mm <= 131071
  OBVIOUS
<1> HIDE DEF mm
<1>2. mm % 65536 = mm - 65536
  BY <1>1
<1>3. (mm - 65536) \div 1667 + 39 <= mm \div 1667
  BY <1>1
<1>4. QED
  BY <1>2, <1>3 DEF Speed, WHEEL_SIZE_MM, UINT16, mm
-----------------------------------------------------------------------------
LEMMA TypeStep ==
  ASSUME TypeOK, [Next]_vars
  PROVE  TypeOK'
<1> USE DEF TypeOK, Motor, history
<1>1. ASSUME NEW m \in Driven, Event(m) PROVE TypeOK'
  BY <1>1, WheelsAssumption DEF Event, Handler, Idle, HasRead
<1>2. ASSUME NEW from \in {"load1", "load2"}, NEW to \in {"store1", "store2"}, Load(from, to)
      PROVE  TypeOK'
  <2>1. isr \in Handler
    BY <1>2 DEF Load, Idle
  <2>2. isr' \in Handler
    BY <1>2, <2>1 DEF Load, Handler
  <2>3. QED
    BY <1>2, <2>2 DEF Load
<1>3. CASE Store("store1", [isr EXCEPT !.at = "load2"])
  BY <1>3 DEF Store, Handler, Idle
<1>4. CASE Store("store2", Idle)
  BY <1>4 DEF Store, Handler, Idle
<1>5. CASE WakeUp
  BY <1>5 DEF WakeUp, PC, DELAY, SPEED
<1>6. CASE ReadCounter
  <2>1. Rpm(revolutions[Source(pc)]) \in uint16_t
    BY <1>6, RpmFits DEF ReadCounter, Source
  <2>2. QED
    BY <1>6, <2>1 DEF ReadCounter, Source, PC, DELAY, SPEED
<1>7. CASE SetMetrics
  <2>1. \A m \in Motor : Reported(rpm[m]) \in uint16_t
    BY ReportedFits
  <2>2. QED
    BY <1>7, <2>1 DEF SetMetrics, PC, RESET, SPEED, DELAY
<1>8. CASE Reset
  BY <1>8 DEF Reset, Cleared, Zero, PC, SPEED, DELAY
<1>9. CASE SetSpeed
  <2> DEFINE sum == metrics.rpm[1] + metrics.rpm[2] + metrics.rpm[3] + metrics.rpm[4]
  <2>0. sum \in Nat
    <3>1. \A m \in Motor : metrics.rpm[m] \in Nat
      BY DEF uint16_t
    <3>2. QED
      BY <3>1
  <2> HIDE DEF sum
  <2>1. sum \div 4 \in Nat
    BY <2>0
  <2>2. Speed(Average(metrics.rpm)) \in 0..39
    BY <2>1, SpeedFits DEF Average, sum
  <2>3. QED
    BY <1>9, <2>2 DEF SetSpeed, PC, SPEED, DELAY
<1>10. CASE UNCHANGED vars
  BY <1>10 DEF vars
<1>11. QED
  BY <1>1, <1>2, <1>3, <1>4, <1>5, <1>6, <1>7, <1>8, <1>9, <1>10
  DEF Next, PcntIsr, CheckRpm

(* The counters keep to their events in every step. *)
LEMMA CountStep ==
  ASSUME IInv, [Next]_vars
  PROVE  CountsTwice' /\ LoadedFresh'
<1> USE DEF IInv, TypeOK, Motor, CountsTwice, LoadedFresh, Owed, history
<1>1. ASSUME NEW m \in Driven, Event(m) PROVE CountsTwice' /\ LoadedFresh'
  <2>1. m \in Motor /\ isr = Idle /\ revolutions' = revolutions /\ raced' = raced
    BY <1>1, WheelsAssumption DEF Event
  <2>2. isr' = [motor |-> m, at |-> "load1", loaded |-> 0] /\ since' = [since EXCEPT ![m] = @ + 1]
    BY <1>1 DEF Event
  <2>3. \A n \in Motor : Owed(n) = 0
    BY <2>1 DEF Idle, None
  <2>4. \A n \in Motor : Owed(n)' = IF n = m THEN 2 ELSE 0
    <3>1. isr'.motor = m /\ isr'.at = "load1"
      BY <2>2
    <3>2. QED
      BY <3>1
  <2>5. CountsTwice'
    BY <2>1, <2>2, <2>3, <2>4
  <2>6. LoadedFresh'
    BY <2>2
  <2>7. QED
    BY <2>5, <2>6
<1>2. CASE Load("load1", "store1")
  BY <1>2 DEF Load, Handler, Idle
<1>3. CASE Load("load2", "store2")
  BY <1>3 DEF Load, Handler, Idle
<1>4. CASE Store("store1", [isr EXCEPT !.at = "load2"])
  <2>1. isr.motor \in Motor /\ isr.at = "store1" /\ isr.loaded \in Nat
    BY <1>4 DEF Store, Handler, Idle
  <2>2. isr'.motor = isr.motor /\ isr'.at = "load2"
    BY <1>4 DEF Store, Handler, Idle
  <2>3. \A n \in Motor : Owed(n)' = IF n = isr.motor THEN 1 ELSE 0
    BY <2>2
  <2>4. \A n \in Motor : Owed(n) = IF n = isr.motor THEN 2 ELSE 0
    BY <2>1
  <2>5. CountsTwice'
    <3>1. raced' = raced /\ since' = since
      BY <1>4 DEF Store
    <3>2. revolutions' = [revolutions EXCEPT ![isr.motor] = isr.loaded + 1]
      BY <1>4 DEF Store
    <3>3. \A n \in Motor : ~raced[n] => revolutions[n] + Owed(n) = 2 * since[n]
      OBVIOUS
    <3> HIDE DEF Owed
    <3>4. QED
      BY <2>1, <2>3, <2>4, <3>1, <3>2, <3>3
  <2>6. QED
    BY <2>2, <2>5
<1>5. CASE Store("store2", Idle)
  BY <1>5 DEF Store, Handler, Idle, None
<1>6. CASE Reset
  <2>1. isr' = isr /\ raced' = [m \in Motor |-> isr.motor = m]
    BY <1>6 DEF Reset
  <2>2. \A m \in Motor : ~raced'[m] => Owed(m)' = 0
    BY <2>1
  <2>3. CountsTwice'
    BY <1>6, <2>2 DEF Reset, Cleared, Zero
  <2>4. isr.at \in {"store1", "store2"} => isr.motor \in Motor
    BY DEF Handler, Idle
  <2>5. LoadedFresh'
    BY <2>1, <2>4
  <2>6. QED
    BY <2>3, <2>5
<1>7. CASE WakeUp \/ ReadCounter \/ SetMetrics \/ SetSpeed \/ UNCHANGED vars
  BY <1>7 DEF WakeUp, ReadCounter, SetMetrics, SetSpeed, vars
<1>8. QED
  BY <1>1, <1>2, <1>3, <1>4, <1>5, <1>6, <1>7 DEF Next, PcntIsr, CheckRpm

(* What check_rpm has read stays what it was, and only a later event is late. *)
LEMMA WindowStep ==
  ASSUME IInv, [Next]_vars
  PROVE  LateAfterRead' /\ ReadIsCount'
<1> USE DEF IInv, TypeOK, Motor, LateAfterRead, ReadIsCount, HasRead, PC,
            DELAY, METRICS, RESET, SPEED, history
<1>1. ASSUME NEW m \in Driven, Event(m) PROVE LateAfterRead' /\ ReadIsCount'
  BY <1>1, WheelsAssumption DEF Event
<1>2. CASE PcntIsr
  BY <1>2 DEF PcntIsr, Load, Store
<1>3. CASE WakeUp
  BY <1>3 DEF WakeUp
<1>4. CASE ReadCounter
  <2>1. \A m \in Motor : Owed(m) \in 0..2
    BY DEF Owed
  <2>2. ~raced[pc] => 2 * (since[pc] - late[pc]) - revolutions[pc] \in 0..2
    BY <1>4, <2>1 DEF ReadCounter, CountsTwice
  <2>3. QED
    BY <1>4, <2>2 DEF ReadCounter, Source
<1>5. CASE SetMetrics
  BY <1>5 DEF SetMetrics
<1>6. CASE Reset
  BY <1>6 DEF Reset, Zero
<1>7. CASE SetSpeed
  BY <1>7 DEF SetSpeed
<1>8. CASE UNCHANGED vars
  BY <1>8 DEF vars
<1>9. QED
  BY <1>1, <1>2, <1>3, <1>4, <1>5, <1>6, <1>7, <1>8 DEF Next, CheckRpm

LEMMA InitInvariant == Init => IInv
BY WheelsAssumption
   DEF Init, IInv, TypeOK, CountsTwice, LoadedFresh, LateAfterRead, ReadIsCount,
       Owed, HasRead, Zero, Idle, None, Motor, PC, DELAY, SPEED, uint16_t, UINT16

THEOREM Invariant == Spec => []IInv
<1>1. IInv /\ [Next]_vars => IInv'
  BY TypeStep, CountStep, WindowStep DEF IInv
<1>2. QED
  BY InitInvariant, <1>1, PTL DEF Spec
-----------------------------------------------------------------------------
(* The counters, the handler, rpm1 to rpm4 and the metrics keep their types and
   their widths (hardware.c:167-197). *)
THEOREM TypeCorrect == Spec => []TypeOK
<1>1. IInv => TypeOK
  BY DEF IInv
<1>2. QED
  BY <1>1, Invariant, PTL

(* With two cores, four counters and no lock, an event counts exactly twice
   unless the reset before it met the handler in the same counter
   (hardware.c:681, 687, 187-190). *)
THEOREM Twice == Spec => []CountsTwice
<1>1. IInv => CountsTwice
  BY DEF IInv
<1>2. QED
  BY <1>1, Invariant, PTL

(* A turn of check_rpm misses of a motor the events between its read and the
   reset, and the one the handler is in, and no other (hardware.c:175-190). *)
THEOREM Window == Spec => []LostInWindow
<1>1. IInv => LostInWindow
  BY DEF IInv, ReadIsCount, LostInWindow, HasRead, RESET, SPEED, Motor
<1>2. QED
  BY <1>1, Invariant, PTL
=============================================================================
