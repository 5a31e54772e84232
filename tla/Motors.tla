------------------------------- MODULE Motors -------------------------------
(***************************************************************************)
(* The motors of the main board: set_throttle and process_throttle         *)
(* (mainboard/main/hardware.c) and pwm_set_motor_duty_cycles (pwm.c).      *)
(*                                                                         *)
(* Both the main task and replay_task call them, with no lock, on the two  *)
(* cores of the ESP32-S3.  One action is one access to a shared variable   *)
(* or one call of the LEDC driver, which locks within a call only.         *)
(* Module Rover has the same two callers among its handlers, in fewer      *)
(* steps; this module is about the channels and what they mix up.          *)
(***************************************************************************)
EXTENDS Integers

CONSTANTS
  Tasks,        (* the tasks that call the two functions                   *)
  Throttle,     (* values of current_throttle                              *)
  throttle_map  (* 13-bit PWM duty of each throttle                        *)

ASSUME MotorsAssumption ==
  /\ Throttle \subseteq Nat
  /\ 0 \in Throttle
  /\ throttle_map \in [Throttle -> Nat]
  /\ throttle_map[0] = 0

VARIABLES
  current_throttle, current_direction, (* written by set_throttle          *)
  metrics,   (* throttle and direction as reported                         *)
  staged,    (* duty registers of the two LEDC channels, not yet in effect *)
  duty,      (* duties in effect                                           *)
  pc,        (* where each task is                                         *)
  local,     (* each task's parameters and local variables                 *)
  alone,     (* no other call has overlapped the one a task is in (history) *)
  undisturbed (* ... nor the one that ended last (history)                 *)

current == <<current_throttle, current_direction>>
pwm     == <<staged, duty>>
history == <<alone, undisturbed>>
vars    == <<current, metrics, pwm, pc, local, history>>

(* Main passes 0 or 1 for the direction, replay_task also the -1 that
   process_throttle reports for anything but 1. *)
Direction == {-1, 0, 1}

(* pwm_set_motor_duty_cycles halves the duty for a 12-bit timer. *)
Duty(d) == d \div 2
Duties == {throttle_map[t] : t \in Throttle}
Channels == [fwd: {Duty(d) : d \in Duties}, rv: {Duty(d) : d \in Duties}]

(* idle outside of both functions, then the statement a task is about to run *)
PC == {"idle", "direction", "process", "report", "choose",
       "stageFwd", "updateFwd", "stageRv", "updateRv"}

(* The direction for set_throttle, throttle_map's entry, and the arguments of
   pwm_set_motor_duty_cycles. *)
Local == [direction: Direction, throttle: Duties, fwd: Duties, rv: Duties]

TypeOK ==
  /\ current_throttle \in Throttle
  /\ current_direction \in Direction
  /\ metrics \in [throttle: Throttle, direction: Direction]
  /\ staged \in Channels
  /\ duty \in Channels
  /\ pc \in [Tasks -> PC]
  /\ local \in [Tasks -> Local]
  /\ alone \in [Tasks -> BOOLEAN]
  /\ undisturbed \in BOOLEAN

Init ==
  /\ current_throttle = 0
  /\ current_direction = 0
  /\ metrics = [throttle |-> 0, direction |-> 0]
  /\ staged = [fwd |-> 0, rv |-> 0]
  /\ duty = [fwd |-> 0, rv |-> 0]
  /\ pc = [t \in Tasks |-> "idle"]
  /\ local = [t \in Tasks |-> [direction |-> 0, throttle |-> 0, fwd |-> 0, rv |-> 0]]
  /\ alone = [t \in Tasks |-> FALSE]
  /\ undisturbed = TRUE

-----------------------------------------------------------------------------
(* A call that begins ends the solitude of any other. *)
Goto(t, from, to) ==
  /\ pc[t] = from
  /\ pc' = [pc EXCEPT ![t] = to]
  /\ alone' = IF from = "idle"
              THEN [u \in Tasks |-> u = t /\ \A w \in Tasks \ {t} : pc[w] = "idle"]
              ELSE alone
  /\ undisturbed' = IF to = "idle" THEN alone[t] ELSE undisturbed

(* set_throttle(v, d) *)
SetThrottle(t) ==
  /\ Goto(t, "idle", "direction")
  /\ current_throttle' \in Throttle
  /\ \E d \in Direction : local' = [local EXCEPT ![t].direction = d]
  /\ UNCHANGED <<current_direction, metrics, pwm>>

SetDirection(t) ==
  /\ Goto(t, "direction", "process")
  /\ current_direction' = local[t].direction
  /\ UNCHANGED <<current_throttle, metrics, pwm, local>>

(* process_throttle, after a set_throttle or, as when a handler has set none,
   without one. *)
Process(t) ==
  /\ Goto(t, "process", "report") \/ Goto(t, "idle", "report")
  /\ local' = [local EXCEPT ![t].throttle = throttle_map[current_throttle]]
  /\ UNCHANGED <<current, metrics, pwm>>

(* Mutant: only a forward throttle is reported. *)
ReportForward(t) ==
  /\ Goto(t, "report", "choose")
  /\ metrics' = IF current_direction = 1
                THEN [throttle |-> current_throttle, direction |-> 1] ELSE metrics
  /\ UNCHANGED <<current, pwm, local>>

Report(t) ==
  /\ Goto(t, "report", "choose")
  /\ metrics' = [throttle  |-> current_throttle,
                 direction |-> IF current_direction = 1 THEN 1 ELSE -1]
  /\ UNCHANGED <<current, pwm, local>>

(* The direction is looked at again for the motors. *)
Choose(t) ==
  /\ Goto(t, "choose", "stageFwd")
  /\ local' = [local EXCEPT ![t] = [@ EXCEPT
       !.fwd = IF current_direction = 1 THEN local[t].throttle ELSE 0,
       !.rv  = IF current_direction = 1 THEN 0 ELSE local[t].throttle]]
  /\ UNCHANGED <<current, metrics, pwm>>

(* pwm_set_motor_duty_cycles: ledc_set_duty and ledc_update_duty, channel by
   channel. *)
StageForward(t) ==
  /\ Goto(t, "stageFwd", "updateFwd")
  /\ staged' = [staged EXCEPT !.fwd = Duty(local[t].fwd)]
  /\ UNCHANGED <<current, metrics, duty, local>>

UpdateForward(t) ==
  /\ Goto(t, "updateFwd", "stageRv")
  /\ duty' = [duty EXCEPT !.fwd = staged.fwd]
  /\ UNCHANGED <<current, metrics, staged, local>>

(* Mutant: a zero duty is not worth a call. *)
StageReverseNonZero(t) ==
  /\ Goto(t, "stageRv", "updateRv")
  /\ staged' = IF local[t].rv = 0 THEN staged ELSE [staged EXCEPT !.rv = Duty(local[t].rv)]
  /\ UNCHANGED <<current, metrics, duty, local>>

StageReverse(t) ==
  /\ Goto(t, "stageRv", "updateRv")
  /\ staged' = [staged EXCEPT !.rv = Duty(local[t].rv)]
  /\ UNCHANGED <<current, metrics, duty, local>>

(* Mutant: the update of the second channel is forgotten. *)
UpdateReverseNot(t) ==
  /\ Goto(t, "updateRv", "idle")
  /\ UNCHANGED <<current, metrics, pwm, local>>

UpdateReverse(t) ==
  /\ Goto(t, "updateRv", "idle")
  /\ duty' = [duty EXCEPT !.rv = staged.rv]
  /\ UNCHANGED <<current, metrics, staged, local>>

Step(t) ==
  \/ SetThrottle(t) \/ SetDirection(t)
  \/ Process(t) \/ Report(t) \/ Choose(t)
  \/ StageForward(t) \/ UpdateForward(t) \/ StageReverse(t) \/ UpdateReverse(t)

Next == \E t \in Tasks : Step(t)

Spec == Init /\ [][Next]_vars

-----------------------------------------------------------------------------
(* Properties *)

AtRest == \A t \in Tasks : pc[t] = "idle"

(* What the motors are to do: current_throttle in current_direction. *)
Obeying ==
  duty = [fwd |-> IF current_direction = 1 THEN Duty(throttle_map[current_throttle]) ELSE 0,
          rv  |-> IF current_direction = 1 THEN 0 ELSE Duty(throttle_map[current_throttle])]

(* Between two calls the motors do what was last set, if no other call
   overlapped the one that ended last (hardware.c:126-159): whatever two callers
   mixed up before, one call of its own puts it right. *)
MotorsObey == AtRest /\ undisturbed => Obeying

(* The metrics tell what the motors do. *)
Telling ==
  duty = [fwd |-> IF metrics.direction = 1 THEN Duty(throttle_map[metrics.throttle]) ELSE 0,
          rv  |-> IF metrics.direction = 1 THEN 0 ELSE Duty(throttle_map[metrics.throttle])]

(* Between two such calls the metrics tell what the motors do, which is what
   the recorder samples. *)
MetricsTell == AtRest /\ undisturbed => Telling

(* hardware.c:91: "We don't support braking for now (setting both directions
   high)".  After such a call one channel at most drives; after two that
   overlapped both may. *)
OneChannel == AtRest /\ undisturbed => duty.fwd = 0 \/ duty.rv = 0

(* However two callers have mixed up the channels, the motors obey again from
   the first call that another one does not disturb: if but one task still
   calls, in the end they always obey between its calls. *)
Recovers ==
  \A t \in Tasks :
    /\ <>[](\A u \in Tasks \ {t} : pc[u] = "idle")
    /\ []<>(pc[t] = "stageFwd") /\ []<>(pc[t] = "idle")
    => <>[](pc[t] = "idle" => Obeying)
=============================================================================
