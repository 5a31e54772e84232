-------------------------------- MODULE Ring --------------------------------
(***************************************************************************)
(* The LED ring (mainboard/main/led.c) and the deep sleep that must leave  *)
(* it dark (common/deepsleep.c, on_start_sleep in hardware.c).             *)
(*                                                                         *)
(* The main task, the OTA task and the sleep task call the setters.  A     *)
(* setter writes the pattern to current_pattern, which led_task reads      *)
(* without a lock, and only then posts a command.  A pattern is written    *)
(* and read pixel by pixel; two halves are enough to tear it.              *)
(*                                                                         *)
(* Time is in ticks of 250 ms; a ready task always runs within a tick.     *)
(***************************************************************************)
EXTENDS Integers, Sequences

CONSTANTS
  QUEUE_LEN,          (* slots of the ring's queue: 4                      *)
  MainAsks, OtaAsks   (* what the main task and the OTA task ask for       *)

VARIABLES
  current_pattern,  (* its two halves                                      *)
  queue,            (* commands led_task has not taken yet                 *)
  call,             (* each setter's call: where it is and what it sets    *)
  led,              (* led_task: where it is, its command and locals       *)
  shown,            (* what the ring shows                                 *)
  phase, left,      (* the sleep task, and what is left of its delay       *)
  button            (* the sleep button                                    *)

setters == <<current_pattern, queue, call>>
leds    == <<led, shown>>
sleep   == <<phase, left>>
vars    == <<setters, leds, sleep, button>>

Setter == {"main", "ota", "sleep"}
Paint  == {"dark", "red", "mode", "colorful", "sleepy"}
Half   == {1, 2}
All(p) == [h \in Half |-> p]
Dark   == All("dark")
Rainbow == All("rainbow")

(* What is asked of the ring: the rainbow is no pattern and leaves
   current_pattern as it is. *)
ERROR_PATTERN    == [paint |-> "red",      command |-> "flashing", delay |-> 100]
DISCONNECTED     == [paint |-> "red",      command |-> "rotating", delay |-> 200]
MODE_PATTERN     == [paint |-> "mode",     command |-> "rotating", delay |-> 25]
IDLE_PATTERN     == [paint |-> "none",     command |-> "rainbow",  delay |-> 25]
UPGRADE_PATTERN  == [paint |-> "colorful", command |-> "rotating", delay |-> 50]
GOING_TO_SLEEP   == [paint |-> "sleepy",   command |-> "rotating", delay |-> 1000]
TURNOFF          == [paint |-> "dark",     command |-> "steady",   delay |-> 0]

(* The last two are asked for by on_start_sleep alone. *)
SleepAsks == {GOING_TO_SLEEP, TURNOFF}
WakeAsks == {ERROR_PATTERN, DISCONNECTED, MODE_PATTERN, IDLE_PATTERN, UPGRADE_PATTERN}
Ask == WakeAsks \cup SleepAsks
Asks == [main |-> MainAsks, ota |-> OtaAsks, sleep |-> SleepAsks]

ASSUME RingAssumption ==
  /\ QUEUE_LEN \in Nat \ {0}
  /\ MainAsks \subseteq WakeAsks
  /\ OtaAsks \subseteq WakeAsks

(* Mutant: the delay keeps its 32 bits. *)
DelayWide(a) == (a.delay + 249) \div 250

(* The command's delay has eight bits; rounded up to ticks. *)
Delay(a) == ((a.delay % 256) + 249) \div 250

Idle == [at |-> "idle", ask |-> TURNOFF]
Waiting == [at |-> "receive", ask |-> TURNOFF, op |-> 0, first |-> "dark", delay |-> 0]
SECOND == 4

TypeOK ==
  /\ current_pattern \in [Half -> Paint]
  /\ queue \in Seq(Ask) /\ Len(queue) <= QUEUE_LEN
  /\ call \in [Setter -> [at: {"idle", "paint1", "paint2", "send"}, ask: Ask]]
  /\ led \in [at: {"receive", "look", "read", "show", "delay"}, ask: Ask, op: {0, 1},
              first: Paint, delay: Nat]
  /\ shown \in [Half -> Paint] \cup {Rainbow}
  /\ phase \in {"boot", "rebound", "running", "fading", "off", "asleep"}
  /\ left \in 0..10
  /\ button \in BOOLEAN

Init ==
  /\ current_pattern = Dark
  /\ queue = <<>>
  /\ call = [t \in Setter |-> Idle]
  /\ led = Waiting
  /\ shown = Dark
  /\ phase = "boot"
  /\ left = 0
  /\ button \in BOOLEAN

Awake == phase \in {"running", "fading", "off"}

-----------------------------------------------------------------------------
(* The setters *)

Begin(t, a) == call' = [call EXCEPT ![t] = [at |-> IF a.paint = "none" THEN "send" ELSE "paint1",
                                            ask |-> a]]

(* The main task or the OTA task calls a setter. *)
Set(t) ==
  /\ Awake
  /\ t # "sleep" /\ call[t].at = "idle"
  /\ \E a \in Asks[t] : Begin(t, a)
  /\ UNCHANGED <<current_pattern, queue, leds, sleep, button>>

At(t, from, next) ==
  /\ Awake
  /\ call[t].at = from
  /\ call' = [call EXCEPT ![t] = next]
  /\ UNCHANGED <<leds, sleep, button>>

PaintFirst(t) ==
  /\ At(t, "paint1", [call[t] EXCEPT !.at = "paint2"])
  /\ current_pattern' = [current_pattern EXCEPT ![1] = call[t].ask.paint]
  /\ UNCHANGED queue

PaintSecond(t) ==
  /\ At(t, "paint2", [call[t] EXCEPT !.at = "send"])
  /\ current_pattern' = [current_pattern EXCEPT ![2] = call[t].ask.paint]
  /\ UNCHANGED queue

(* xQueueSend without waiting; a full queue drops the command, not the
   pattern. *)
Send(t) ==
  /\ At(t, "send", Idle)
  /\ queue' = IF Len(queue) < QUEUE_LEN THEN Append(queue, call[t].ask) ELSE queue
  /\ UNCHANGED current_pattern

-----------------------------------------------------------------------------
(* led_task *)

Led(from) ==
  /\ Awake
  /\ led.at = from
  /\ UNCHANGED <<current_pattern, call, sleep, button>>

Receive ==
  /\ Led("receive")
  /\ queue # <<>>
  /\ queue' = Tail(queue)
  /\ led' = [Waiting EXCEPT !.at = IF Head(queue).command = "steady" THEN "read" ELSE "look",
                            !.ask = Head(queue)]
  /\ UNCHANGED shown

(* A command is waiting: the loop of this one ends. *)
LookEnds ==
  /\ Led("look")
  /\ queue # <<>>
  /\ led' = [led EXCEPT !.at = "receive"]
  /\ UNCHANGED <<queue, shown>>

LookReads ==
  /\ Led("look")
  /\ queue = <<>>
  /\ led.ask.command = "rotating" \/ (led.ask.command = "flashing" /\ led.op = 0)
  /\ led' = [led EXCEPT !.at = "read"]
  /\ UNCHANGED <<queue, shown>>

(* Mutant: a flashing ring that is dark stays dark. *)
LookShowsStuck ==
  /\ Led("look")
  /\ queue = <<>>
  /\ \/ led.ask.command = "flashing" /\ led.op = 1 /\ shown' = Dark
     \/ led.ask.command = "rainbow" /\ shown' = Rainbow
  /\ led' = [led EXCEPT !.at = "delay", !.delay = Delay(led.ask)]
  /\ UNCHANGED queue

(* led_strip_clear, and the rainbow's round *)
LookShows ==
  /\ Led("look")
  /\ queue = <<>>
  /\ \/ led.ask.command = "flashing" /\ led.op = 1 /\ shown' = Dark
     \/ led.ask.command = "rainbow" /\ shown' = Rainbow
  /\ led' = [led EXCEPT !.at = "delay", !.op = 0, !.delay = Delay(led.ask)]
  /\ UNCHANGED queue

ReadFirst ==
  /\ Led("read")
  /\ led' = [led EXCEPT !.at = "show", !.first = current_pattern[1]]
  /\ UNCHANGED <<queue, shown>>

(* The second half is read and the strip refreshed. *)
Show ==
  /\ Led("show")
  /\ shown' = [h \in Half |-> IF h = 1 THEN led.first ELSE current_pattern[2]]
  /\ led' = IF led.ask.command = "steady"
            THEN [led EXCEPT !.at = "receive", !.first = "dark"]
            ELSE [led EXCEPT !.at = "delay", !.op = 1, !.first = "dark", !.delay = Delay(led.ask)]
  /\ UNCHANGED queue

DelayEnds ==
  /\ Led("delay")
  /\ led' = [led EXCEPT !.at = "look"]
  /\ UNCHANGED <<queue, shown>>

-----------------------------------------------------------------------------
(* The button, the sleep task and the restart *)

Press ==
  /\ button' = ~button
  /\ UNCHANGED <<setters, leds, sleep>>

Phase(from, to, delay) ==
  /\ phase = from /\ left = 0
  /\ phase' = to
  /\ left' = delay
  /\ UNCHANGED <<leds, button>>

(* Mutant: the button is not looked at during the boot. *)
BootAlways ==
  /\ Phase("boot", "running", SECOND) /\ Begin("main", DISCONNECTED)
  /\ UNCHANGED <<current_pattern, queue>>

(* init_deep_sleep: pressed at boot, it waits for the release and sleeps.
   Otherwise hardware_init goes on and ends with on_enter_disconnected_mode. *)
Boot ==
  /\ IF button
     THEN Phase("boot", "rebound", 0) /\ UNCHANGED call
     ELSE Phase("boot", "running", SECOND) /\ Begin("main", DISCONNECTED)
  /\ UNCHANGED <<current_pattern, queue>>

Rebound ==
  /\ ~button
  /\ Phase("rebound", "asleep", 0)
  /\ UNCHANGED setters

(* check_sleep, every second; on_start_sleep begins with its pattern. *)
CheckSleep ==
  /\ IF button
     THEN Phase("running", "fading", 10) /\ Begin("sleep", GOING_TO_SLEEP)
     ELSE Phase("running", "running", SECOND) /\ UNCHANGED call
  /\ UNCHANGED <<current_pattern, queue>>

TurnOff ==
  /\ call["sleep"].at = "idle"
  /\ Phase("fading", "off", 2)
  /\ Begin("sleep", TURNOFF)
  /\ UNCHANGED <<current_pattern, queue>>

(* esp_deep_sleep_start *)
FallAsleep ==
  /\ call["sleep"].at = "idle"
  /\ Phase("off", "asleep", 0)
  /\ UNCHANGED setters

(* The button's level wakes the chip, which starts afresh; the ring keeps its
   colours. *)
Wake ==
  /\ phase = "asleep"
  /\ button
  /\ phase' = "boot"
  /\ current_pattern' = Dark
  /\ queue' = <<>>
  /\ call' = [t \in Setter |-> Idle]
  /\ led' = Waiting
  /\ UNCHANGED <<left, shown, button>>

(* A quarter of a second in which no task is ready. *)
Tick ==
  /\ Awake
  /\ \A t \in Setter : call[t].at = "idle"
  /\ left > 0
  /\ \/ led.at = "receive" /\ queue = <<>> /\ UNCHANGED led
     \/ led.at = "delay" /\ led.delay > 0 /\ led' = [led EXCEPT !.delay = @ - 1]
  /\ left' = left - 1
  /\ UNCHANGED <<setters, shown, phase, button>>

-----------------------------------------------------------------------------
SetterSteps == \E t \in Setter : PaintFirst(t) \/ PaintSecond(t) \/ Send(t)
LedTask == Receive \/ LookEnds \/ LookReads \/ LookShows \/ ReadFirst \/ Show \/ DelayEnds
SleepTask == Boot \/ Rebound \/ CheckSleep \/ TurnOff \/ FallAsleep \/ Wake

Next ==
  \/ \E t \in Setter : Set(t)
  \/ SetterSteps \/ LedTask \/ SleepTask \/ Tick \/ Press

Spec == Init /\ [][Next]_vars

(* Every task that is ready runs, and time passes for it: nobody calls setters
   without end in no time.  People owe nothing. *)
FairSpec ==
  /\ Spec
  /\ WF_vars(SetterSteps) /\ WF_vars(LedTask) /\ WF_vars(SleepTask)
  /\ <>[]Awake => []<><<Tick>>_vars

-----------------------------------------------------------------------------
(* Properties *)

Commands == {led.ask.command} \cup {queue[i].command : i \in 1..Len(queue)}

(* on_start_sleep leaves the ring dark, unless somebody has painted it or asked
   for the rainbow meanwhile: its half second is enough for led_task to get
   there, since the second led_task's own delay should take has lost its upper
   bits. *)
DarkAsleep ==
  [][phase = "off" /\ phase' = "asleep" /\ current_pattern = Dark /\ "rainbow" \notin Commands
       => shown = Dark]_vars

(* Whatever half-written patterns led_task has shown and whatever commands
   the queue has dropped: when nobody calls a setter any more, the ring shows
   current_pattern again and again, or the rainbow. *)
Settles ==
  <>[](Awake /\ \A t \in Setter : call[t].at = "idle")
    => []<>(shown \in {current_pattern, Rainbow})

(* A button held for ever stops the rover, whatever number of times the held
   button wakes the chip. *)
HeldButtonStops == <>[]button => <>[]~Awake

=============================================================================
