---------------------------- MODULE DeviceProofs ----------------------------
(***************************************************************************)
(* Proofs about the two devices that the other tasks command through a     *)
(* queue and that a task of their own drives: the LED ring, for a queue of *)
(* any length and whatever the main task and the OTA task ask for, and the *)
(* arm, for a queue of any length, any positions of the sticks and any     *)
(* limits of the joints.                                                   *)
(***************************************************************************)
EXTENDS Ring, Arm, TLAPS

-----------------------------------------------------------------------------
(* The ring: the invariant.                                                *)
(*                                                                         *)
(* The ring may fall asleep dark only because half a second is enough for  *)
(* led_task: so the invariant says, for every point of that half second,   *)
(* what led_task can no longer be late with.                               *)

Awakers == {"main", "ota"}

(* What led_task's locals range over. *)
LedStates ==
  [at: {"receive", "look", "read", "show", "delay"}, ask: Ask, op: {0, 1},
   first: Paint, delay: Nat]

(* A setter's call fits the setter and the sleep task's phase, and led_task's
   delay is a tick at most: the second of GOING_TO_SLEEP has lost its upper
   bits. *)
CallsInPlace ==
  /\ \A t \in Setter : call[t].at \in {"paint1", "paint2"} => call[t].ask.paint # "none"
  /\ \A t \in Awakers : call[t].at # "idle" => call[t].ask \in WakeAsks
  /\ call["sleep"].at # "idle" =>
       \/ phase = "fading" /\ call["sleep"].ask = GOING_TO_SLEEP
       \/ phase = "off" /\ left = 2 /\ call["sleep"].ask = TURNOFF
  /\ phase = "boot" => call = [t \in Setter |-> Idle]
  /\ phase = "off" => left <= 2
  /\ led.delay \in {0, 1}

Orderly == TypeOK /\ CallsInPlace

(* led_turnoff has returned; and nobody has painted since. *)
OffAsked == phase = "off" /\ call["sleep"].at = "idle"
DarkKept == OffAsked /\ current_pattern = Dark

(* led_task takes the last command and does not go back to waiting before it
   has shown the dark pattern. *)
LastShown ==
  DarkKept /\ queue = <<>> =>
    /\ led.at = "show" => led.first = "dark"
    /\ led.at = "receive" => shown = Dark

(* A call that is still on its way in the last quarter of a second has begun
   in it, after led_turnoff: what it has painted is not dark any more. *)
LateCalls ==
  OffAsked /\ left <= 1 => \A t \in Awakers :
    /\ call[t].at = "paint2" => current_pattern[1] # "dark"
    /\ call[t].at = "send" /\ call[t].ask.paint # "none" => current_pattern # Dark

OnlyRainbow == \A i \in 1..Len(queue) : queue[i].command = "rainbow"

(* A round of led_task that is under way in the last quarter of a second has
   read the dark pattern, and nothing but the rainbow waits behind it. *)
LateRound ==
  DarkKept /\ left <= 1 =>
    /\ led.at = "show" => led.first = "dark"
    /\ led.at = "delay" /\ led.delay > 0 /\ led.ask.command # "rainbow" => shown = Dark
    /\ \/ led.at \in {"read", "show"} /\ led.ask.command # "steady"
       \/ led.at = "delay" /\ led.delay > 0
       => OnlyRainbow

(* When the half second is over the ring is dark or the rainbow is coming. *)
TimeUp ==
  DarkKept /\ left = 0 =>
    /\ OnlyRainbow
    /\ "rainbow" \notin Commands => shown = Dark

Lately == LastShown /\ LateCalls /\ LateRound /\ TimeUp

IInv == Orderly /\ Lately

-----------------------------------------------------------------------------
(* What may be asked of the ring, and that no delay outlasts a tick (led.c:13-29,
   the uint8_t of a command's delay). *)
LEMMA AskFacts ==
  \A a \in Ask : /\ a.paint \in Paint \cup {"none"}
                 /\ a.command \in {"flashing", "rotating", "rainbow", "steady"}
                 /\ Delay(a) \in {0, 1}
<1>1. /\ ((100 % 256) + 249) \div 250 = 1
      /\ ((200 % 256) + 249) \div 250 = 1
      /\ ((25 % 256) + 249) \div 250 = 1
      /\ ((50 % 256) + 249) \div 250 = 1
      /\ ((1000 % 256) + 249) \div 250 = 1
      /\ ((0 % 256) + 249) \div 250 = 0
  OBVIOUS
<1> QED
  BY <1>1 DEF Ask, WakeAsks, SleepAsks, Paint, Delay, ERROR_PATTERN,
     DISCONNECTED, MODE_PATTERN, IDLE_PATTERN, UPGRADE_PATTERN, GOING_TO_SLEEP,
     TURNOFF

(* Nobody but the sleep task asks for darkness or for a steady pattern
   (hardware.c:740-746). *)
LEMMA WakeFacts ==
  \A a \in WakeAsks : /\ a.paint # "dark"
                      /\ a.command # "steady"
                      /\ a.paint = "none" => a.command = "rainbow"
BY DEF WakeAsks, ERROR_PATTERN, DISCONNECTED, MODE_PATTERN, IDLE_PATTERN,
   UPGRADE_PATTERN

(* The program starts in the invariant. *)
LEMMA InitInv == Init => IInv
<1> SUFFICES ASSUME Init PROVE IInv
  OBVIOUS
<1>1. TURNOFF \in Ask
  BY DEF Ask, SleepAsks
<1>2. TypeOK
  <2>1. current_pattern \in [Half -> Paint] /\ shown \in [Half -> Paint]
    BY DEF Init, Dark, All, Paint
  <2>2. queue \in Seq(Ask) /\ Len(queue) <= QUEUE_LEN
    BY RingAssumption DEF Init
  <2>3. call \in [Setter -> [at: {"idle", "paint1", "paint2", "send"}, ask: Ask]]
    BY <1>1 DEF Init, Idle
  <2>4. led \in LedStates
    BY <1>1 DEF Init, Waiting, Paint, LedStates
  <2> QED
    BY <2>1, <2>2, <2>3, <2>4 DEF Init, TypeOK, LedStates
<1>3. CallsInPlace
  BY DEF Init, CallsInPlace, Idle, Waiting, Setter, Awakers
<1> QED
  BY <1>2, <1>3 DEF Init, IInv, Orderly, Lately, LastShown, LateCalls,
     LateRound, TimeUp, DarkKept, OffAsked

-----------------------------------------------------------------------------
(* What beginning a call changes. *)
LEMMA BeginFits ==
  ASSUME Orderly, NEW t \in Setter, NEW a \in Ask, Begin(t, a)
  PROVE  /\ call' \in [Setter -> [at: {"idle", "paint1", "paint2", "send"}, ask: Ask]]
         /\ call'[t].ask = a
         /\ call'[t].at = IF a.paint = "none" THEN "send" ELSE "paint1"
         /\ \A u \in Setter \ {t} : call'[u] = call[u]
BY DEF Orderly, TypeOK, Begin

(* What a step of a call changes. *)
LEMMA AtFits ==
  ASSUME Orderly, NEW t \in Setter, NEW from, NEW to,
         At(t, from, [call[t] EXCEPT !.at = to]) \/ (At(t, from, Idle) /\ to = "idle"),
         to \in {"idle", "paint1", "paint2", "send"}
  PROVE  /\ call' \in [Setter -> [at: {"idle", "paint1", "paint2", "send"}, ask: Ask]]
         /\ call'[t].at = to
         /\ to # "idle" => call'[t].ask = call[t].ask
         /\ \A u \in Setter \ {t} : call'[u] = call[u]
<1>1. TURNOFF \in Ask
  BY DEF Ask, SleepAsks
<1> QED
  BY <1>1 DEF Orderly, TypeOK, At, Idle

(* Every step keeps the types and the places of the calls: the begin of a
   call, ... *)
LEMMA SetOrderly == ASSUME Orderly, NEW t \in Setter, Set(t) PROVE Orderly'
<1>1. t \in Awakers /\ call[t].at = "idle"
  BY DEF Set, Setter, Awakers
<1>2. PICK a \in Asks[t] : Begin(t, a)
  BY DEF Set
<1>3. a \in WakeAsks /\ a \in Ask
  BY <1>1, RingAssumption DEF Asks, Awakers, Ask
<1>4. TypeOK'
  BY <1>2, <1>3, BeginFits DEF Orderly, TypeOK, Set, leds, sleep
<1>5. CallsInPlace'
  BY <1>1, <1>2, <1>3, BeginFits DEF Orderly, CallsInPlace, Set, leds, sleep,
     Setter, Awakers, Awake
<1> QED
  BY <1>4, <1>5 DEF Orderly

(* ... its steps, ... *)
LEMMA SetterOrderly ==
  ASSUME Orderly, NEW t \in Setter, PaintFirst(t) \/ PaintSecond(t) \/ Send(t)
  PROVE  Orderly'
<1> USE DEF leds, sleep
<1>1. CASE PaintFirst(t)
  <2>1. current_pattern' \in [Half -> Paint]
    BY <1>1, AskFacts DEF Orderly, TypeOK, CallsInPlace, PaintFirst, At
  <2> QED
    BY <1>1, <2>1, AtFits DEF Orderly, TypeOK, CallsInPlace, PaintFirst, At,
       Setter, Awakers, Awake
<1>2. CASE PaintSecond(t)
  <2>1. current_pattern' \in [Half -> Paint]
    BY <1>2, AskFacts DEF Orderly, TypeOK, CallsInPlace, PaintSecond, At
  <2> QED
    BY <1>2, <2>1, AtFits DEF Orderly, TypeOK, CallsInPlace, PaintSecond, At,
       Setter, Awakers, Awake
<1>3. CASE Send(t)
  <2>1. queue' \in Seq(Ask) /\ Len(queue') <= QUEUE_LEN
    BY <1>3, RingAssumption DEF Orderly, TypeOK, Send
  <2>2. /\ call' \in [Setter -> [at: {"idle", "paint1", "paint2", "send"}, ask: Ask]]
        /\ call'[t].at = "idle"
        /\ \A u \in Setter \ {t} : call'[u] = call[u]
    BY <1>3, AtFits DEF Send
  <2>3. TypeOK'
    BY <1>3, <2>1, <2>2 DEF Orderly, TypeOK, Send, At
  <2>4. CallsInPlace'
    BY <1>3, <2>2 DEF Orderly, CallsInPlace, Send, At, Setter, Awakers, Awake
  <2> QED
    BY <2>3, <2>4 DEF Orderly
<1> QED
  BY <1>1, <1>2, <1>3

(* What a round of led_task leaves in its locals when it goes to its delay,
   ... *)
LEMMA RoundDelay ==
  ASSUME NEW l \in LedStates, NEW o \in {0, 1}, NEW f \in Paint, NEW m,
         \/ m = [l EXCEPT !.at = "delay", !.op = o, !.first = f, !.delay = Delay(l.ask)]
         \/ m = [l EXCEPT !.at = "delay", !.op = o, !.delay = Delay(l.ask)] /\ f = l.first
  PROVE  m = [at |-> "delay", ask |-> l.ask, op |-> o, first |-> f, delay |-> Delay(l.ask)]
BY DEF LedStates

(* ... and that they are well-formed. *)
LEMMA RoundDelayFits ==
  ASSUME NEW a \in Ask, NEW o \in {0, 1}, NEW f \in Paint
  PROVE  /\ [at |-> "delay", ask |-> a, op |-> o, first |-> f, delay |-> Delay(a)] \in LedStates
         /\ Delay(a) \in {0, 1}
<1>1. PICK d \in {0, 1} : d = Delay(a)
  BY AskFacts
<1>2. [at |-> "delay", ask |-> a, op |-> o, first |-> f, delay |-> d] \in LedStates
  BY DEF LedStates
<1> QED
  BY <1>1, <1>2

(* ... the steps of led_task, ... *)
LEMMA LedOrderly == ASSUME Orderly, LedTask PROVE Orderly'
<1> USE DEF Orderly, TypeOK, CallsInPlace, Led, sleep, Awake
<1>1. CASE Receive
  <2>1. Head(queue) \in Ask /\ Tail(queue) \in Seq(Ask) /\ Len(Tail(queue)) <= QUEUE_LEN
    BY <1>1, RingAssumption DEF Receive
  <2>2. led' = [at |-> IF Head(queue).command = "steady" THEN "read" ELSE "look",
                ask |-> Head(queue), op |-> 0, first |-> "dark", delay |-> 0]
    BY <1>1 DEF Receive, Waiting
  <2>3. led' \in LedStates /\ led'.delay \in {0, 1}
    BY <2>1, <2>2 DEF LedStates, Paint
  <2> HIDE DEF Paint
  <2> QED
    BY <1>1, <2>1, <2>3 DEF Receive, LedStates
<1>2. CASE LookEnds
  BY <1>2 DEF LookEnds
<1>3. CASE LookReads
  BY <1>3 DEF LookReads
<1>4. CASE LookShows
  <2>1. shown' \in [Half -> Paint] \cup {Rainbow}
    BY <1>4 DEF LookShows, Dark, All, Paint
  <2>2. led \in LedStates /\ led.ask \in Ask /\ led.first \in Paint
    BY DEF LedStates
  <2>3. led' = [at |-> "delay", ask |-> led.ask, op |-> 0, first |-> led.first,
                delay |-> Delay(led.ask)]
    BY <1>4, <2>2, RoundDelay DEF LookShows
  <2>4. led' \in LedStates /\ led'.delay \in {0, 1}
    BY <2>2, <2>3, RoundDelayFits
  <2> QED
    BY <1>4, <2>1, <2>4 DEF LookShows, LedStates
<1>5. CASE ReadFirst
  BY <1>5 DEF ReadFirst, Half
<1>6. CASE Show
  <2>1. shown' \in [Half -> Paint]
    BY <1>6 DEF Show, Half
  <2>2. led \in LedStates /\ led.ask \in Ask /\ "dark" \in Paint
    BY DEF LedStates, Paint
  <2>3. CASE led' = [led EXCEPT !.at = "receive", !.first = "dark"]
    BY <1>6, <2>1, <2>2, <2>3 DEF Show
  <2>4. CASE led' = [led EXCEPT !.at = "delay", !.op = 1, !.first = "dark", !.delay = Delay(led.ask)]
    <3>1. led' = [at |-> "delay", ask |-> led.ask, op |-> 1, first |-> "dark",
                  delay |-> Delay(led.ask)]
      BY <2>2, <2>4, RoundDelay
    <3>2. led' \in LedStates /\ led'.delay \in {0, 1}
      BY <2>2, <3>1, RoundDelayFits
    <3> QED
      BY <1>6, <2>1, <3>2 DEF Show, LedStates
  <2> QED
    BY <1>6, <2>3, <2>4 DEF Show
<1>7. CASE DelayEnds
  BY <1>7 DEF DelayEnds
<1> QED
  BY <1>1, <1>2, <1>3, <1>4, <1>5, <1>6, <1>7 DEF LedTask

(* ... those of the sleep task, ... *)
LEMMA SleepOrderly == ASSUME Orderly, SleepTask PROVE Orderly'
<1> USE DEF Orderly, TypeOK, CallsInPlace, Phase, leds, setters, SECOND
<1>0. DISCONNECTED \in Ask /\ DISCONNECTED \in WakeAsks /\ GOING_TO_SLEEP \in Ask /\ TURNOFF \in Ask
  BY DEF Ask, WakeAsks, SleepAsks
<1>1. CASE Boot
  BY <1>0, <1>1, BeginFits DEF Boot, Setter, Awakers, Idle
<1>2. CASE Rebound
  BY <1>2 DEF Rebound
<1>3. CASE CheckSleep
  BY <1>0, <1>3, BeginFits DEF CheckSleep, Setter, Awakers
<1>4. CASE TurnOff
  BY <1>0, <1>4, BeginFits DEF TurnOff, Setter, Awakers
<1>5. CASE FallAsleep
  BY <1>5 DEF FallAsleep
<1>6. CASE Wake
  BY <1>0, <1>6, RingAssumption DEF Wake, Idle, Waiting, Dark, All, Paint,
     Setter, Awakers
<1> QED
  BY <1>1, <1>2, <1>3, <1>4, <1>5, <1>6 DEF SleepTask

(* ... and so any step. *)
LEMMA OrderlyStep == ASSUME Orderly, [Next]_vars PROVE Orderly'
<1>1. CASE Tick
  BY <1>1 DEF Tick, Orderly, TypeOK, CallsInPlace, setters, Setter, Awake
<1>2. CASE Press
  BY <1>2 DEF Press, Orderly, TypeOK, CallsInPlace, setters, leds, sleep
<1>3. CASE UNCHANGED vars
  BY <1>3 DEF vars, Orderly, TypeOK, CallsInPlace, setters, leds, sleep
<1> QED
  BY <1>1, <1>2, <1>3, SetOrderly, SetterOrderly, LedOrderly, SleepOrderly
     DEF Next, SetterSteps
-----------------------------------------------------------------------------
(* A pattern is dark when both of its halves are. *)
LEMMA DarkHalves ==
  ASSUME NEW p \in [Half -> Paint]
  PROVE  p = Dark <=> p[1] = "dark" /\ p[2] = "dark"
BY DEF Dark, All, Half

(* Before led_turnoff has returned there is nothing to keep, ... *)
LEMMA NotYet == ASSUME ~OffAsked' PROVE Lately'
BY DEF Lately, LastShown, LateCalls, LateRound, TimeUp, DarkKept

(* ... and once somebody has painted, little. *)
LEMMA Repainted == ASSUME LateCalls', ~DarkKept' PROVE Lately'
BY DEF Lately, LastShown, LateRound, TimeUp

(* A call that begins has painted and posted nothing yet. *)
LEMMA SetLately ==
  ASSUME Orderly, Lately, NEW t \in Setter, Set(t)
  PROVE  Lately'
<1>1. t \in Awakers /\ call[t].at = "idle"
  BY DEF Set, Setter, Awakers
<1>2. PICK a \in Asks[t] : Begin(t, a)
  BY DEF Set
<1>3. a \in Ask
  BY <1>1, RingAssumption DEF Asks, Awakers, Ask
<1>4. /\ call'[t].ask = a
      /\ call'[t].at = IF a.paint = "none" THEN "send" ELSE "paint1"
      /\ \A u \in Setter \ {t} : call'[u] = call[u]
  BY <1>2, <1>3, BeginFits
<1>5. UNCHANGED <<current_pattern, queue, led, shown, phase, left>>
  BY DEF Set, leds, sleep
<1>6. OffAsked' <=> OffAsked
  BY <1>1, <1>4, <1>5 DEF OffAsked, Setter, Awakers
<1>7. LateCalls'
  BY <1>1, <1>4, <1>5, <1>6 DEF Lately, LateCalls, Setter, Awakers
<1> QED
  BY <1>5, <1>6, <1>7 DEF Lately, LastShown, LateRound, TimeUp, DarkKept,
     OnlyRainbow, Commands

(* Whoever paints after led_turnoff paints a colour: the dark pattern is gone
   for good. *)
LEMMA PaintLately ==
  ASSUME Orderly, Lately, NEW t \in Setter, PaintFirst(t) \/ PaintSecond(t)
  PROVE  Lately'
<1>1. SUFFICES ASSUME OffAsked' PROVE Lately'
  BY NotYet
<1>2. /\ call'[t].at \in {"paint2", "send"}
      /\ call'[t].at = "send" => PaintSecond(t)
      /\ \A u \in Setter \ {t} : call'[u] = call[u]
      /\ UNCHANGED <<phase, left>>
  BY AtFits DEF PaintFirst, PaintSecond, At, sleep
<1>3. t \in Awakers /\ OffAsked
  BY <1>1, <1>2 DEF OffAsked, Setter, Awakers
<1>4. call[t].ask \in WakeAsks /\ call[t].ask.paint # "dark"
  BY <1>3, WakeFacts DEF Orderly, CallsInPlace, PaintFirst, PaintSecond, At
<1>5. current_pattern' # Dark /\ (current_pattern'[1] = "dark" => current_pattern[1] = "dark")
  <2>1. current_pattern' \in [Half -> Paint] /\ current_pattern \in [Half -> Paint]
    BY SetterOrderly DEF Orderly, TypeOK
  <2>2. CASE PaintFirst(t)
    <3>1. current_pattern'[1] = call[t].ask.paint
      BY <2>1, <2>2 DEF PaintFirst, Half
    <3> QED
      BY <1>4, <2>1, <3>1, DarkHalves
  <2>3. CASE PaintSecond(t)
    <3>1. current_pattern'[2] = call[t].ask.paint /\ current_pattern'[1] = current_pattern[1]
      BY <2>1, <2>3 DEF PaintSecond, Half
    <3> QED
      BY <1>4, <2>1, <3>1, DarkHalves
  <2> QED
    BY <2>2, <2>3
<1>6. call'[t].at = "paint2" => current_pattern'[1] # "dark"
  <2>1. ASSUME call'[t].at = "paint2" PROVE PaintFirst(t)
    <3>1. ASSUME PaintSecond(t) PROVE call'[t].at = "send"
      BY <3>1, AtFits DEF PaintSecond
    <3> QED
      BY <2>1, <3>1
  <2>2. current_pattern \in [Half -> Paint]
    BY DEF Orderly, TypeOK
  <2> QED
    BY <1>4, <2>1, <2>2 DEF PaintFirst, Half
<1>7. LateCalls'
  BY <1>2, <1>3, <1>5, <1>6 DEF Lately, LateCalls, Setter, Awakers
<1> QED
  BY <1>5, <1>7, Repainted DEF DarkKept

(* A late call that posts under a dark pattern posts the rainbow. *)
LEMMA SendLately ==
  ASSUME Orderly, Lately, NEW t \in Setter, Send(t)
  PROVE  Lately'
<1>1. SUFFICES ASSUME OffAsked' PROVE Lately'
  BY NotYet
<1>2. /\ call[t].at = "send" /\ call'[t].at = "idle"
      /\ \A u \in Setter \ {t} : call'[u] = call[u]
      /\ UNCHANGED <<current_pattern, led, shown, phase, left>>
  <2>1. call'[t].at = "idle" /\ \A u \in Setter \ {t} : call'[u] = call[u]
    BY AtFits DEF Send
  <2> QED
    BY <2>1 DEF Send, At, leds, sleep
<1>3. queue \in Seq(Ask) /\ call[t].ask \in Ask
  BY DEF Orderly, TypeOK
<1>4. queue' # <<>>
  BY <1>3, RingAssumption DEF Send
<1>5. LastShown'
  BY <1>4 DEF LastShown
<1>6. CASE t = "sleep"
  <2>1. left = 2
    BY <1>1, <1>2, <1>6 DEF Orderly, CallsInPlace, OffAsked
  <2> QED
    BY <1>2, <1>5, <2>1 DEF Lately, LateCalls, LateRound, TimeUp
<1>7. CASE t \in Awakers
  <2>1. OffAsked
    BY <1>1, <1>2, <1>7 DEF OffAsked, Setter, Awakers
  <2>2. LateCalls'
    BY <1>2, <2>1 DEF Lately, LateCalls, Setter, Awakers
  <2>3. SUFFICES ASSUME DarkKept', left \in {0, 1} PROVE Lately'
    <3>1. left \in Nat
      BY DEF Orderly, TypeOK
    <3> QED
      BY <1>2, <1>5, <2>2, <2>3, <3>1 DEF Lately, LateRound, TimeUp
  <2>4. DarkKept
    BY <1>2, <2>1, <2>3 DEF DarkKept
  <2>5. call[t].ask.command = "rainbow"
    BY <1>2, <1>7, <2>1, <2>3, <2>4, WakeFacts
       DEF Lately, LateCalls, DarkKept, Orderly, CallsInPlace
  <2>6. OnlyRainbow => OnlyRainbow'
    BY <1>3, <2>5 DEF OnlyRainbow, Send
  <2>7. LateRound'
    BY <1>2, <2>3, <2>4, <2>6 DEF Lately, LateRound
  <2>8. "rainbow" \notin Commands' => "rainbow" \notin Commands
    BY <1>2, <1>3 DEF Commands, Send
  <2> QED
    BY <1>2, <1>5, <2>2, <2>4, <2>6, <2>7, <2>8 DEF Lately, TimeUp
<1> QED
  BY <1>6, <1>7 DEF Setter, Awakers
(* led_task leaves patterns, calls and the sleep task alone. *)
LEMMA LedKeeps ==
  ASSUME Lately, UNCHANGED <<current_pattern, call, sleep>>
  PROVE  LateCalls' /\ (DarkKept' <=> DarkKept) /\ left' = left
BY DEF Lately, LateCalls, DarkKept, OffAsked, sleep

(* led_task looks for a command: it begins a round only if none waits. *)
LEMMA LookLately == ASSUME Orderly, Lately, LookEnds \/ LookReads \/ LookShows PROVE Lately'
<1>1. LateCalls' /\ (DarkKept' <=> DarkKept) /\ left' = left
  BY LedKeeps DEF LookEnds, LookReads, LookShows, Led
<1>2. led \in LedStates /\ led.at = "look" /\ UNCHANGED queue
  BY DEF Orderly, TypeOK, LedStates, LookEnds, LookReads, LookShows, Led
<1>3. CASE LookEnds
  <2>1. led'.at = "receive" /\ led'.ask = led.ask /\ queue # <<>> /\ UNCHANGED shown
    BY <1>2, <1>3 DEF LookEnds, LedStates
  <2> QED
    BY <1>1, <1>2, <2>1 DEF Lately, LastShown, LateRound, TimeUp, OnlyRainbow,
       Commands
<1>4. CASE LookReads
  <2>1. led'.at = "read" /\ led'.ask = led.ask /\ queue = <<>> /\ UNCHANGED shown
    BY <1>2, <1>4 DEF LookReads, LedStates
  <2> QED
    BY <1>1, <1>2, <2>1 DEF Lately, LastShown, LateRound, TimeUp, OnlyRainbow,
       Commands
<1>5. CASE LookShows
  <2>1. led'.at = "delay" /\ led'.ask = led.ask /\ queue = <<>>
    BY <1>2, <1>5 DEF LookShows, LedStates
  <2>2. led.ask.command # "rainbow" => shown' = Dark
    BY <1>5 DEF LookShows
  <2>3. OnlyRainbow'
    BY <1>2, <2>1 DEF OnlyRainbow
  <2>4. "rainbow" \notin Commands' => led.ask.command # "rainbow"
    BY <2>1 DEF Commands
  <2> QED
    BY <1>1, <2>1, <2>2, <2>3, <2>4 DEF Lately, LastShown, LateRound, TimeUp
<1> QED
  BY <1>3, <1>4, <1>5

(* It takes a command, ... *)
LEMMA ReceiveLately == ASSUME Orderly, Lately, Receive PROVE Lately'
<1>1. LateCalls' /\ (DarkKept' <=> DarkKept) /\ left' = left
  BY LedKeeps DEF Receive, Led
<1>2. /\ queue \in Seq(Ask) /\ queue # <<>>
      /\ queue' = Tail(queue) /\ UNCHANGED shown
      /\ led'.at = IF Head(queue).command = "steady" THEN "read" ELSE "look"
      /\ led'.ask = Head(queue)
  BY DEF Receive, Waiting, Orderly, TypeOK
<1>3. OnlyRainbow => OnlyRainbow'
  BY <1>2 DEF OnlyRainbow
<1>4. OnlyRainbow => "rainbow" \in Commands'
  <2>1. OnlyRainbow => Head(queue).command = "rainbow"
    BY <1>2 DEF OnlyRainbow
  <2> QED
    BY <1>2, <2>1 DEF Commands
<1> QED
  BY <1>1, <1>2, <1>3, <1>4 DEF Lately, LastShown, LateRound, TimeUp

(* ... reads the first half of the pattern, ... *)
LEMMA ReadLately == ASSUME Orderly, Lately, ReadFirst PROVE Lately'
<1>1. LateCalls' /\ (DarkKept' <=> DarkKept) /\ left' = left
  BY LedKeeps DEF ReadFirst, Led
<1>2. /\ led \in LedStates /\ led.at = "read" /\ UNCHANGED <<queue, shown>>
      /\ led'.at = "show" /\ led'.ask = led.ask /\ led'.first = current_pattern[1]
  BY DEF Orderly, TypeOK, LedStates, ReadFirst, Led
<1>3. DarkKept => led'.first = "dark"
  BY <1>2, DarkHalves DEF DarkKept, Orderly, TypeOK
<1> QED
  BY <1>1, <1>2, <1>3 DEF Lately, LastShown, LateRound, TimeUp, OnlyRainbow,
     Commands

(* ... the second one and shows both, ... *)
LEMMA ShowLately == ASSUME Orderly, Lately, Show PROVE Lately'
<1>1. LateCalls' /\ (DarkKept' <=> DarkKept) /\ left' = left
  BY LedKeeps DEF Show, Led
<1>2. led \in LedStates /\ led.at = "show" /\ UNCHANGED queue
  BY DEF Orderly, TypeOK, LedStates, Show, Led
<1>3. led'.ask = led.ask /\ led'.at = IF led.ask.command = "steady" THEN "receive" ELSE "delay"
  BY <1>2 DEF Show, LedStates
<1>4. DarkKept /\ led.first = "dark" => shown' = Dark
  <2>1. current_pattern \in [Half -> Paint]
    BY DEF Orderly, TypeOK
  <2>2. DarkKept => current_pattern[2] = "dark"
    BY <2>1, DarkHalves DEF DarkKept
  <2> QED
    BY <2>2 DEF Show, Dark, All, Half
<1>5. left \in Nat
  BY DEF Orderly, TypeOK
<1> QED
  BY <1>1, <1>2, <1>3, <1>4, <1>5 DEF Lately, LastShown, LateRound, TimeUp,
     OnlyRainbow, Commands

(* ... and ends its delay. *)
LEMMA DelayLately == ASSUME Orderly, Lately, DelayEnds PROVE Lately'
<1>1. LateCalls' /\ (DarkKept' <=> DarkKept) /\ left' = left
  BY LedKeeps DEF DelayEnds, Led
<1>2. led'.at = "look" /\ led'.ask = led.ask /\ UNCHANGED <<queue, shown>>
  BY DEF Orderly, TypeOK, DelayEnds
<1> QED
  BY <1>1, <1>2 DEF Lately, LastShown, LateRound, TimeUp, OnlyRainbow, Commands

(* The sleep task's own steps lead to the begin of led_turnoff or out of its
   half second. *)
LEMMA SleepLately == ASSUME Orderly, Lately, SleepTask PROVE Lately'
<1>1. SUFFICES ASSUME OffAsked' PROVE FALSE
  BY NotYet
<1>2. CASE TurnOff
  <2>1. TURNOFF \in Ask /\ TURNOFF.paint # "none"
    BY DEF Ask, SleepAsks, TURNOFF
  <2>2. call'["sleep"].at = "paint1"
    BY <1>2, <2>1, BeginFits DEF TurnOff, Setter
  <2> QED
    BY <1>1, <2>2 DEF OffAsked
<1> QED
  BY <1>1, <1>2 DEF SleepTask, Boot, Rebound, CheckSleep, FallAsleep, Wake,
     Phase, OffAsked

(* A tick passes when every call has returned and led_task waits for a
   command or in its delay. *)
LEMMA TickLately == ASSUME Orderly, Lately, Tick PROVE Lately'
<1>1. SUFFICES ASSUME OffAsked' PROVE Lately'
  BY NotYet
<1>2. /\ \A t \in Setter : call[t].at = "idle"
      /\ UNCHANGED <<current_pattern, queue, call, shown, phase>>
      /\ left \in Nat /\ left > 0 /\ left' = left - 1
  BY DEF Tick, setters, Orderly, TypeOK
<1>3. OffAsked /\ (DarkKept' <=> DarkKept)
  BY <1>1, <1>2 DEF OffAsked, DarkKept
<1>4. LateCalls'
  BY <1>2 DEF LateCalls, Setter, Awakers
<1>5. CASE led.at = "receive" /\ queue = <<>> /\ UNCHANGED led
  <2>1. OnlyRainbow'
    BY <1>2, <1>5 DEF OnlyRainbow
  <2> QED
    BY <1>2, <1>3, <1>4, <1>5, <2>1 DEF Lately, LastShown, LateRound, TimeUp
<1>6. CASE led.at = "delay" /\ led.delay > 0 /\ led' = [led EXCEPT !.delay = @ - 1]
  <2>1. led \in LedStates /\ led.delay = 1
    BY <1>6 DEF Orderly, TypeOK, CallsInPlace, LedStates
  <2>2. led'.at = "delay" /\ led'.ask = led.ask /\ led'.delay = 0
    BY <1>6, <2>1 DEF LedStates
  <2>3. LastShown' /\ LateRound'
    BY <2>2 DEF LastShown, LateRound
  <2>4. TimeUp'
    <3>1. SUFFICES ASSUME DarkKept, left = 1 PROVE TimeUp'
      BY <1>2, <1>3 DEF TimeUp
    <3>2. OnlyRainbow /\ (led.ask.command # "rainbow" => shown = Dark)
      BY <1>6, <3>1 DEF Lately, LateRound
    <3>3. OnlyRainbow'
      BY <1>2, <3>2 DEF OnlyRainbow
    <3>4. "rainbow" \notin Commands' => led.ask.command # "rainbow"
      BY <2>2 DEF Commands
    <3> QED
      BY <1>2, <3>2, <3>3, <3>4 DEF TimeUp
  <2> QED
    BY <1>4, <2>3, <2>4 DEF Lately
<1> QED
  BY <1>5, <1>6 DEF Tick

(* Any step keeps the invariant. *)
LEMMA InvStep == ASSUME IInv, [Next]_vars PROVE IInv'
<1>1. Orderly /\ Lately
  BY DEF IInv
<1>2. Lately'
  <2>1. CASE \E t \in Setter : Set(t)
    BY <1>1, <2>1, SetLately
  <2>2. CASE SetterSteps
    BY <1>1, <2>2, PaintLately, SendLately DEF SetterSteps
  <2>3. CASE LedTask
    BY <1>1, <2>3, ReceiveLately, LookLately, ReadLately, ShowLately,
       DelayLately
       DEF LedTask
  <2>4. CASE SleepTask
    BY <1>1, <2>4, SleepLately
  <2>5. CASE Tick
    BY <1>1, <2>5, TickLately
  <2>6. CASE Press \/ UNCHANGED vars
    <3>1. UNCHANGED <<current_pattern, queue, call, led, shown, phase, left>>
      BY <2>6 DEF Press, vars, setters, leds, sleep
    <3> QED
      BY <1>1, <3>1 DEF Lately, LastShown, LateCalls, LateRound, TimeUp,
         DarkKept, OffAsked, OnlyRainbow, Commands
  <2> QED
    BY <2>1, <2>2, <2>3, <2>4, <2>5, <2>6 DEF Next
<1> QED
  BY <1>1, <1>2, OrderlyStep DEF IInv

(* The invariant holds of every behaviour of the ring and the sleep task. *)
THEOREM RingInvariant == Spec => []IInv
BY InitInv, InvStep, PTL DEF Spec

(* The patterns, the commands and the calls are well formed and the queue
   keeps its length, whoever calls the setters and when (led.c:117-287). *)
THEOREM RingTypeCorrect == Spec => []TypeOK
<1>1. IInv => TypeOK
  BY DEF IInv, Orderly
<1> QED
  BY <1>1, RingInvariant, PTL

(* The half second on_start_sleep waits after led_turnoff is enough for
   led_task to show the dark pattern, whatever it was doing, whatever is in the
   queue and however the other tasks' calls fall, unless one of them has painted
   since or the rainbow is asked for (hardware.c:740-746, led.c:188-287,
   deepsleep.c:24-32). *)
THEOREM AsleepDark == Spec => DarkAsleep
<1>1. ASSUME IInv, [Next]_vars, phase = "off", phase' = "asleep",
             current_pattern = Dark, "rainbow" \notin Commands
      PROVE  shown = Dark
  <2>1. FallAsleep
    BY <1>1 DEF Next, Set, SetterSteps, PaintFirst, PaintSecond, Send, At,
       LedTask, Led, Receive, LookEnds, LookReads, LookShows, ReadFirst, Show,
       DelayEnds, SleepTask, Boot, Rebound, CheckSleep, TurnOff, Wake, Phase,
       Tick, Press, vars, sleep
  <2>2. DarkKept /\ left = 0
    BY <1>1, <2>1 DEF FallAsleep, Phase, DarkKept, OffAsked
  <2> QED
    BY <1>1, <2>2 DEF IInv, Lately, TimeUp
<1>2. IInv /\ [Next]_vars
        => [phase = "off" /\ phase' = "asleep" /\ current_pattern = Dark
              /\ "rainbow" \notin Commands => shown = Dark]_vars
  BY <1>1
<1> QED
  BY <1>2, RingInvariant, PTL DEF Spec, DarkAsleep

-----------------------------------------------------------------------------
(* The arm. *)

(* Halving an axis (arm.c:47-50) ... *)
LEMMA HalfFits == ASSUME NEW v \in Axis PROVE Halved(v) \in -64..63
BY DEF Halved, Axis

(* ... and choosing one servo for a stick keep to what a command holds. *)
LEMMA OneServoFits ==
  ASSUME NEW x \in Delta, NEW y \in Delta
  PROVE  OneServo(x, y) \in [x: Delta, y: Delta]
BY DEF OneServo, Delta

(* Whatever the sticks do, a well-formed command comes of it (arm.c:47-68,
   115-136). *)
LEMMA CommandFits == ASSUME NEW s \in Sticks PROVE Command(s) \in ArmCommands
<1> DEFINE lx == Halved(s.lx) ly == Halved(s.ly) rx == Halved(s.rx) ry == Halved(s.ry)
<1>1. lx \in -64..63 /\ ly \in -64..63 /\ rx \in -64..63 /\ ry \in -64..63
  BY ArmAssumption, HalfFits
<1> HIDE DEF lx, ly, rx, ry
<1>2. -lx \in Delta /\ ly \in Delta /\ rx \in Delta /\ ry \in Delta
  BY <1>1 DEF Delta
<1>3. COMMAND_MOVE_ANGLE(lx, ly, rx, ry) \in ArmCommands
  <2> DEFINE one == OneServo(-lx, ly) two == OneServo(rx, ry)
  <2>1. one \in [x: Delta, y: Delta] /\ two \in [x: Delta, y: Delta]
    BY <1>2, OneServoFits
  <2> HIDE DEF one, two
  <2> DEFINE d == [j \in Joint |-> CASE j = "rotator" -> one.x
                                     [] j = "boom"    -> one.y
                                     [] j = "grapple" -> two.x
                                     [] j = "arm"     -> two.y]
  <2>2. d \in Deltas
    BY <2>1 DEF Deltas, Joint
  <2> HIDE DEF d
  <2>3. [command |-> "move", delta |-> d] \in ArmCommands
    BY <2>2 DEF ArmCommands
  <2>4. QED
    BY <2>3 DEF COMMAND_MOVE_ANGLE, d, one, two
<1>4. QED
  BY <1>3 DEF Command, ArmCommands, lx, ly, rx, ry

(* A command is posted to a queue that keeps its length, ... *)
LEMMA PostFits ==
  ASSUME ArmTypeOK, NEW c \in ArmCommands, Post(c)
  PROVE  arm_queue' \in Seq(ArmCommands) /\ Len(arm_queue') <= ARM_QUEUE_LEN
BY ArmAssumption DEF ArmTypeOK, Post

(* ... the STOP among them. *)
LEMMA StopFits == COMMAND_STOP \in ArmCommands /\ Still \in Deltas
BY DEF COMMAND_STOP, Still, ArmCommands, Deltas, Delta

(* Clamp keeps an angle within its joint's limits (arm.c:145-176). *)
LEMMA ClampFits ==
  ASSUME NEW j \in Joint, NEW a \in Int
  PROVE  Clamp(j, a) \in Int /\ MIN_ANGLE[j] <= Clamp(j, a) /\ Clamp(j, a) <= MAX_ANGLE[j]
BY ArmAssumption DEF Clamp

(* Every step of the arm keeps its types and limits. *)
LEMMA ArmTypeStep ==
  ASSUME ArmTypeOK, [ArmNext]_arm_vars
  PROVE  ArmTypeOK'
<1> USE DEF task
<1>1. ASSUME NEW s \in Sticks, ArmMove(s) PROVE ArmTypeOK'
  BY <1>1, CommandFits, PostFits DEF ArmMove, ArmTypeOK
<1>2. ASSUME NEW b \in BOOLEAN, ArmEnable(b) PROVE ArmTypeOK'
  BY <1>2, StopFits, PostFits DEF ArmEnable, ArmTypeOK
<1>3. CASE ArmReceive
  <2>1. /\ Head(arm_queue) \in ArmCommands
        /\ Tail(arm_queue) \in Seq(ArmCommands)
        /\ Len(Tail(arm_queue)) <= ARM_QUEUE_LEN
    BY <1>3, ArmAssumption DEF ArmReceive, ArmTypeOK
  <2>2. Head(arm_queue).delta \in Deltas
    BY <2>1, StopFits DEF ArmCommands, COMMAND_STOP
  <2>3. QED
    BY <1>3, <2>1, <2>2 DEF ArmReceive, ArmTypeOK
<1>4. CASE Round
  <2>1. \A j \in Joint : angle[j] + delta[j] \in Int
    <3>1. Delta \subseteq Int
      BY DEF Delta
    <3>2. \A j \in Joint : angle[j] \in Int /\ delta[j] \in Int
      BY <3>1 DEF ArmTypeOK, Deltas
    <3>3. QED
      BY <3>2
  <2>2. \A j \in Joint : /\ Clamp(j, angle[j] + delta[j]) \in Int
                         /\ MIN_ANGLE[j] <= Clamp(j, angle[j] + delta[j])
                         /\ Clamp(j, angle[j] + delta[j]) <= MAX_ANGLE[j]
    BY <2>1, ClampFits
  <2>3. QED
    BY <1>4, <2>2 DEF Round, ArmTypeOK
<1>5. CASE Interrupted
  BY <1>5 DEF Interrupted, ArmTypeOK
<1>6. CASE UNCHANGED arm_vars
  BY <1>6 DEF arm_vars, ArmTypeOK
<1>7. QED
  BY <1>1, <1>2, <1>3, <1>4, <1>5, <1>6 DEF ArmNext, MainTask, ArmTask

(* The arm's commands are well formed, its queue keeps its length, and no
   servo is ever told to turn beyond its limits, for any limits, sticks and
   queue (arm.c:138-188). *)
THEOREM ArmTypeCorrect == ArmSpec => []ArmTypeOK
<1>1. ASSUME ArmInit PROVE ArmTypeOK
  <2>1. arm_queue \in Seq(ArmCommands) /\ Len(arm_queue) <= ARM_QUEUE_LEN
    BY <1>1, ArmAssumption DEF ArmInit
  <2>2. angle \in [Joint -> Int]
    <3>1. MIN_ANGLE \in [Joint -> Int] /\ 0 \in Int
      BY ArmAssumption
    <3>2. [MIN_ANGLE EXCEPT !["rotator"] = 0] \in [Joint -> Int]
      BY <3>1, Zenon
    <3>3. QED
      BY <1>1, <3>2 DEF ArmInit
  <2>3. \A j \in Joint : MIN_ANGLE[j] <= angle[j] /\ angle[j] <= MAX_ANGLE[j]
    BY <1>1, ArmAssumption DEF ArmInit
  <2>4. QED
    BY <1>1, <2>1, <2>2, <2>3, StopFits DEF ArmInit, ArmTypeOK
<1>2. QED
  BY <1>1, ArmTypeStep, PTL DEF ArmSpec

(* A disabled arm whose STOP was accepted is at rest or has the STOP as the
   last command of its queue. *)
StopIsLast ==
  ~status_arm_enabled /\ ~refused =>
    \/ AtRest
    \/ arm_queue # <<>> /\ arm_queue[Len(arm_queue)] = COMMAND_STOP

(* Every step of the arm keeps it that way: only the main task's own call ends
   it, and it asks for the STOP at once. *)
LEMMA StopStep ==
  ASSUME ArmTypeOK, StopIsLast, [ArmNext]_arm_vars
  PROVE  StopIsLast'
<1> USE DEF task
<1>1. CASE \E s \in Sticks : ArmMove(s)
  BY <1>1 DEF ArmMove, StopIsLast
<1>2. ASSUME NEW b \in BOOLEAN, ArmEnable(b) PROVE StopIsLast'
  <2>1. CASE b \/ Full
    BY <1>2, <2>1 DEF ArmEnable, StopIsLast
  <2>2. CASE ~b /\ ~Full
    <3>1. arm_queue \in Seq(ArmCommands) /\ Len(arm_queue) < ARM_QUEUE_LEN
      BY <2>2, ArmAssumption DEF ArmTypeOK, Full
    <3>2. arm_queue' = Append(arm_queue, COMMAND_STOP)
      BY <1>2, <2>2, <3>1 DEF ArmEnable, Post
    <3>3. arm_queue' # <<>> /\ arm_queue'[Len(arm_queue')] = COMMAND_STOP
      BY <3>1, <3>2, StopFits
    <3> QED
      BY <3>3 DEF StopIsLast
  <2> QED
    BY <2>1, <2>2
<1>3. CASE ArmReceive
  <2>1. SUFFICES ASSUME ~status_arm_enabled, ~refused PROVE (AtRest \/ (arm_queue # <<>>
                          /\ arm_queue[Len(arm_queue)] = COMMAND_STOP))'
    BY <1>3 DEF ArmReceive, StopIsLast
  <2>2. /\ arm_queue \in Seq(ArmCommands) /\ arm_queue # <<>>
        /\ arm_queue[Len(arm_queue)] = COMMAND_STOP
        /\ arm_queue' = Tail(arm_queue)
        /\ moving' = (Head(arm_queue).command = "move")
    BY <1>3, <2>1 DEF ArmReceive, ArmTypeOK, StopIsLast, AtRest
  <2>3. CASE Len(arm_queue) = 1
    <3>1. Head(arm_queue) = COMMAND_STOP /\ Tail(arm_queue) = <<>>
      BY <2>2, <2>3
    <3>2. COMMAND_STOP.command = "stop"
      BY DEF COMMAND_STOP
    <3>3. ~moving'
      BY <2>2, <3>1, <3>2
    <3> QED
      BY <2>2, <3>1, <3>3 DEF AtRest
  <2>4. CASE Len(arm_queue) # 1
    <3>1. /\ Len(arm_queue) \in Nat /\ Len(arm_queue) > 1
          /\ Len(Tail(arm_queue)) = Len(arm_queue) - 1
      <4>1. Len(arm_queue) \in Nat /\ Len(arm_queue) # 0
        BY <2>2
      <4>2. Len(Tail(arm_queue)) = Len(arm_queue) - 1
        BY <2>2
      <4> QED
        BY <2>4, <4>1, <4>2
    <3>2. Tail(arm_queue)[Len(arm_queue) - 1] = arm_queue[Len(arm_queue)]
      BY <2>2, <3>1
    <3>3. Tail(arm_queue) # <<>>
      BY <3>1
    <3> QED
      BY <2>2, <3>1, <3>2, <3>3
  <2> QED
    BY <2>3, <2>4
<1>4. CASE Round \/ Interrupted
  BY <1>4 DEF Round, Interrupted, StopIsLast, AtRest
<1>5. CASE UNCHANGED arm_vars
  BY <1>5 DEF arm_vars, StopIsLast, AtRest
<1> QED
  BY <1>1, <1>2, <1>3, <1>4, <1>5 DEF ArmNext, MainTask, ArmTask

(* A disabled arm that moves with an empty queue does so because the queue
   was full when it was disabled, and refused the STOP (arm.c:71-85): for any
   sticks, limits and length of the queue. *)
THEOREM ArmStops == ArmSpec => []OnlyRefusedStopMoves
<1>1. ArmInit => StopIsLast
  BY DEF ArmInit, StopIsLast, AtRest
<1>2. StopIsLast => OnlyRefusedStopMoves
  BY DEF StopIsLast, OnlyRefusedStopMoves, AtRest
<1> QED
  BY <1>1, <1>2, StopStep, ArmTypeCorrect, PTL DEF ArmSpec
=============================================================================
