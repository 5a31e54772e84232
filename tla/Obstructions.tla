---------------------------- MODULE Obstructions ----------------------------
(***************************************************************************)
(* The obstruction task (mainboard/main/obstructions.c) with its sonar     *)
(* (hcsr04.c) and the two bumpers.  The task triggers the sonar, waits for *)
(* a result that the receiver's interrupt queues, keeps one distance per   *)
(* direction, and posts an edge of "something is too close" and of each    *)
(* bumper to the main task's queue, which it shares with other senders and *)
(* which refuses a message when full.                                      *)
(*                                                                         *)
(* SweepCalls is what obstruction_enable_sweep is called with.  Today the  *)
(* modes pass FALSE only (the call with TRUE in hardware.c:301 waits for a *)
(* TODO); the sonar half of the task is modelled as this file offers it.   *)
(* The direction of the sonar's servo is left out: nothing reads back      *)
(* which direction a distance belongs to.                                  *)
(***************************************************************************)
EXTENDS Integers

CONSTANTS
  SONAR_DISTANCE_COUNT, (* directions of a sweep: 11                       *)
  Echoes,               (* distances a pulse may measure, in centimetres   *)
  SweepCalls,           (* arguments of obstruction_enable_sweep           *)
  QUEUE_LEN             (* slots of the main task's queue                  *)

MIN_OBSTRUCTION_DISTANCE == 20
TIMEOUT == 65535
Index == 0..SONAR_DISTANCE_COUNT - 1
Bumper == {"rear", "front"}

(* The receiver's range ends at 25 ms, far below the sign bit. *)
ASSUME ObstructionsAssumption ==
  /\ SONAR_DISTANCE_COUNT \in Nat \ {0}
  /\ Echoes \subseteq 0..(25000 \div 58)
  /\ SweepCalls \subseteq BOOLEAN
  /\ QUEUE_LEN \in Nat \ {0}

VARIABLES
  pc,                  (* what the task does next: "top", "read" or the
                          bumper it looks at                               *)
  sweep_enabled,       (* written by the main task                         *)
  distances,
  angle_index,
  something_too_close,
  collision,           (* rear_collision and front_collision               *)
  level,               (* the bumpers' pins                                *)
  receiving,           (* rmt_receive has armed the receiver               *)
  raw,                 (* raw_symbols: the last pulse measured             *)
  results,             (* events in receive_queue                          *)
  age,                 (* triggers since that pulse, up to 2 (history)     *)
  waiting,             (* messages in the main task's queue                *)
  heard,               (* the last obstruction message it took in and ...  *)
  missed               (* ... whether a later one was refused (history)    *)

sonar == <<receiving, raw, results, age>>
sweep == <<distances, angle_index, something_too_close>>
mail == <<waiting, heard, missed>>
vars == <<pc, sweep_enabled, sweep, collision, level, sonar, mail>>

Int16(v) == IF v >= 32768 THEN v - 65536 ELSE v
Distances == {0, Int16(TIMEOUT)} \cup Echoes

TypeOK ==
  /\ pc \in {"top", "read"} \cup Bumper
  /\ sweep_enabled \in BOOLEAN
  /\ distances \in [Index -> Distances]
  /\ angle_index \in Index
  /\ something_too_close \in BOOLEAN
  /\ collision \in [Bumper -> BOOLEAN]
  /\ level \in [Bumper -> BOOLEAN]
  /\ receiving \in BOOLEAN
  /\ raw \in Echoes \cup {0}
  /\ results \in 0..2
  /\ age \in 0..2
  /\ waiting \in 0..QUEUE_LEN
  /\ heard \in {"cleared", "detected"}
  /\ missed \in BOOLEAN

Init ==
  /\ pc = "top"
  /\ sweep_enabled = FALSE
  /\ distances = [i \in Index |-> 0]
  /\ angle_index = 0
  /\ something_too_close = FALSE
  /\ collision = [b \in Bumper |-> FALSE]
  /\ level \in [Bumper -> BOOLEAN]
  /\ receiving = FALSE /\ raw = 0 /\ results = 0 /\ age = 0
  /\ waiting = 0 /\ heard = "cleared" /\ missed = FALSE

(* The direction just read decides alone: a plausible slip. *)
IsTooCloseHere(d) ==
  d[angle_index] # 0 /\ d[angle_index] <= MIN_OBSTRUCTION_DISTANCE
(* obstruction_is_too_close of the distances d. *)
IsTooClose(d) ==
  \E i \in Index : d[i] # 0 /\ d[i] <= MIN_OBSTRUCTION_DISTANCE

(* The next direction of a sweep; its variant stays at the last one. *)
NextStuck(i) == IF i + 1 >= SONAR_DISTANCE_COUNT THEN i ELSE i + 1
Following(i) == IF i + 1 >= SONAR_DISTANCE_COUNT THEN 0 ELSE i + 1

(* hardware_send_message of an obstruction message, without waiting. *)
Tell(m) ==
  IF waiting < QUEUE_LEN
  THEN waiting' = waiting + 1 /\ heard' = m /\ missed' = FALSE
  ELSE missed' = TRUE /\ UNCHANGED <<waiting, heard>>
-----------------------------------------------------------------------------
(* The top of the task's loop: a pulse is sent out and the receiver armed.
   A receiver still armed refuses, and the error is not looked at. *)
Trigger ==
  /\ pc = "top" /\ sweep_enabled
  /\ pc' = "read"
  /\ receiving' = TRUE
  /\ age' = IF age < 2 THEN age + 1 ELSE 2
  /\ UNCHANGED <<sweep_enabled, sweep, collision, level, raw, results, mail>>

(* Any later slip of rmt_receive is reported as distance 0. *)
TriggerFails ==
  /\ pc = "top" /\ sweep_enabled
  /\ angle_index' = Following(angle_index)
  /\ pc' = "rear"
  /\ UNCHANGED <<sweep_enabled, distances, something_too_close, collision,
                 level, sonar, mail>>

Skip ==
  /\ pc = "top" /\ ~sweep_enabled
  /\ pc' = "rear"
  /\ UNCHANGED <<sweep_enabled, sweep, collision, level, sonar, mail>>

(* A distance is stored, an edge of "too close" told, the direction
   advanced. *)
Store(distance) ==
  /\ angle_index' = Following(angle_index)
  /\ IF distance # 0 /\ distance # distances[angle_index]
     THEN LET d == [distances EXCEPT ![angle_index] = distance]
          IN /\ distances' = d
             /\ something_too_close' = IsTooClose(d)
             /\ CASE IsTooClose(d) /\ ~something_too_close -> Tell("detected")
                  [] ~IsTooClose(d) /\ something_too_close -> Tell("cleared")
                  [] OTHER -> UNCHANGED mail
     ELSE UNCHANGED <<distances, something_too_close, mail>>
(* xQueuePeek in place of ... *)
PeekResult == UNCHANGED results
(* ... xQueueReceive, when it finds an event. *)
TakeResult == results' = results - 1

(* The pulse in raw_symbols is the reading of any event. *)
ReadResult ==
  /\ pc = "read" /\ results > 0
  /\ TakeResult
  /\ Store(Int16(raw))
  /\ pc' = "rear"
  /\ UNCHANGED <<sweep_enabled, collision, level, receiving, raw, age>>

ReadTimeout ==
  /\ pc = "read" /\ results = 0
  /\ Store(Int16(TIMEOUT))
  /\ pc' = "rear"
  /\ UNCHANGED <<sweep_enabled, collision, level, sonar>>

(* on_collision: a collision message has no part in `heard'. *)
Collide ==
  IF waiting < QUEUE_LEN THEN waiting' = waiting + 1 ELSE UNCHANGED waiting

(* Whichever bumper is released, the rear one's flag is cleared: a slip. *)
RememberMixed(b) ==
  collision' = IF level[b] THEN [collision EXCEPT ![b] = TRUE]
               ELSE [collision EXCEPT !["rear"] = FALSE]
(* The task's memory of a bumper follows its pin. *)
Remember(b) == collision' = [collision EXCEPT ![b] = level[b]]

LookAt(b) ==
  /\ pc = b
  /\ IF level[b] /\ ~collision[b] THEN Collide ELSE UNCHANGED waiting
  /\ Remember(b)
  /\ pc' = IF b = "rear" THEN "front" ELSE "top"
  /\ UNCHANGED <<sweep_enabled, sweep, level, sonar, heard, missed>>

CheckObstructionsTask ==
  \/ Trigger \/ TriggerFails \/ Skip \/ ReadResult \/ ReadTimeout
  \/ \E b \in Bumper : LookAt(b)
-----------------------------------------------------------------------------
(* rmt_rx_done_callback: a pulse comes in, in time or late or never. *)
RxDone ==
  /\ receiving
  /\ receiving' = FALSE
  /\ raw' \in Echoes
  /\ results' = results + 1
  /\ age' = 0
  /\ UNCHANGED <<pc, sweep_enabled, sweep, collision, level, mail>>

EnableSweep ==
  /\ sweep_enabled' \in SweepCalls
  /\ UNCHANGED <<pc, sweep, collision, level, sonar, mail>>

(* The main task takes a message; another sender posts one; a bumper is
   pressed or released. *)
MainTakes ==
  /\ waiting > 0
  /\ waiting' = waiting - 1
  /\ UNCHANGED <<pc, sweep_enabled, sweep, collision, level, sonar, heard, missed>>

OtherSends ==
  /\ waiting < QUEUE_LEN
  /\ waiting' = waiting + 1
  /\ UNCHANGED <<pc, sweep_enabled, sweep, collision, level, sonar, heard, missed>>

BumperMoves ==
  /\ \E b \in Bumper : level' = [level EXCEPT ![b] = ~@]
  /\ UNCHANGED <<pc, sweep_enabled, sweep, collision, sonar, mail>>

Next ==
  \/ CheckObstructionsTask \/ RxDone \/ EnableSweep
  \/ MainTakes \/ OtherSends \/ BumperMoves

Spec == Init /\ [][Next]_vars

(* The tasks run; neither a pulse nor a bumper owes anything. *)
FairSpec == Spec /\ WF_vars(CheckObstructionsTask) /\ WF_vars(MainTakes)
-----------------------------------------------------------------------------
(* What the main task heard last about obstructions agrees with
   obstruction_is_too_close over every direction, unless the very last
   message was refused by a full queue (obstructions.c:127-139).  One clear
   direction must not clear the others. *)
ToldRight ==
  missed \/ (heard = "detected" <=>
               \E i \in Index : distances[i] # 0
                                /\ distances[i] <= MIN_OBSTRUCTION_DISTANCE)

(* An event taken from the receiver's queue is of this trigger or of the one
   before: late pulses lag by one turn and the lag does not build up
   (hcsr04.c:33-48). *)
ReadingRecent == pc = "read" /\ results > 0 => age <= 1

(* When the sonar keeps answering and from some time on measures nothing
   near, the distances of earlier turns are replaced and "too close" ends
   (obstructions.c:120-146). *)
SweepClears ==
  /\ <>[](sweep_enabled /\ raw > MIN_OBSTRUCTION_DISTANCE)
  /\ <>[][~ReadTimeout /\ ~TriggerFails]_vars
  => <>[]~something_too_close

(* A bumper seen pressed and released again and again goes on being
   announced, or is refused by a full queue: no order of the two bumpers
   leaves one of them mute (obstructions.c:150-173). *)
BumperStaysAlive(b) ==
  /\ []<><<LookAt(b) /\ level[b]>>_vars
  /\ []<><<LookAt(b) /\ ~level[b]>>_vars
  => []<><<LookAt(b) /\ (waiting' = waiting + 1 \/ waiting = QUEUE_LEN)>>_vars
BumpersStayAlive == BumperStaysAlive("rear") /\ BumperStaysAlive("front")

(* "if we get 0xFFFF, it means there was a timeout, so the distance was too
   far" (obstructions.c:65): a distance that was never measured does not make
   obstruction_is_too_close answer TRUE. *)
TimeoutIsFar ==
  something_too_close =>
    \E i \in Index : distances[i] \in Echoes
                     /\ distances[i] <= MIN_OBSTRUCTION_DISTANCE
=============================================================================
