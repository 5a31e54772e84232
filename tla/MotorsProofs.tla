---------------------------- MODULE MotorsProofs ----------------------------
(***************************************************************************)
(* Theorems about module Motors, for any number of callers and any         *)
(* throttle curve: a call that no other one overlaps leaves the motors     *)
(* doing, and the metrics telling, what was set last.                      *)
(*                                                                         *)
(* The invariant ties what is left to do in a call to current_throttle and *)
(* current_direction.  It is claimed of a call only while it is alone:     *)
(* another caller may change the two meanwhile.                            *)
(***************************************************************************)
EXTENDS Motors, TLAPS

(* The arguments process_throttle is to give pwm_set_motor_duty_cycles. *)
WantFwd == IF current_direction = 1 THEN throttle_map[current_throttle] ELSE 0
WantRv  == IF current_direction = 1 THEN 0 ELSE throttle_map[current_throttle]

(* The metrics show what was set last. *)
Reported ==
  metrics = [throttle  |-> current_throttle,
             direction |-> IF current_direction = 1 THEN 1 ELSE -1]

(* What process_throttle has done when it is about to run each statement. *)
Progress(t) ==
  /\ pc[t] \in {"report", "choose"} => local[t].throttle = throttle_map[current_throttle]
  /\ pc[t] \in {"choose", "stageFwd", "updateFwd", "stageRv", "updateRv"} => Reported
  /\ pc[t] \in {"stageFwd", "updateFwd", "stageRv", "updateRv"} =>
       local[t].fwd = WantFwd /\ local[t].rv = WantRv
  /\ pc[t] = "updateFwd" => staged.fwd = Duty(WantFwd)
  /\ pc[t] \in {"stageRv", "updateRv"} => duty.fwd = Duty(WantFwd)
  /\ pc[t] = "updateRv" => staged.rv = Duty(WantRv)

OthersIdle(t) == \A u \in Tasks \ {t} : pc[u] = "idle"

(* A call that is alone is so, and gets on with its work. *)
Undisturbed(t) == alone[t] /\ pc[t] # "idle" => OthersIdle(t) /\ Progress(t)

Settled == AtRest /\ undisturbed => Obeying /\ Telling

(* The inductive invariant. *)
IInv == TypeOK /\ (\A t \in Tasks : Undisturbed(t)) /\ Settled

-----------------------------------------------------------------------------
(* The duties throttle_map holds, zero among them, are natural numbers. *)
LEMMA DutiesType == Duties \subseteq Nat /\ 0 \in Duties /\ Duty(0) = 0
BY MotorsAssumption DEF MotorsAssumption, Duties, Duty

(* What a step of one task does to the calls of all: it goes from one statement
   to another, and tells the beginning and the end of its call. *)
LEMMA CallStep ==
  ASSUME TypeOK, NEW t \in Tasks, Step(t)
  PROVE  \E from, to \in PC : Goto(t, from, to) /\ (from = "idle" => to # "idle")
BY DEF Step, SetThrottle, SetDirection, Process, Report, Choose, StageForward,
       UpdateForward, StageReverse, UpdateReverse, PC

(* Every step of every task keeps the types. *)
LEMMA TypeStep == ASSUME TypeOK, NEW t \in Tasks, Step(t) PROVE TypeOK'
<1>a. pc' \in [Tasks -> PC] /\ alone' \in [Tasks -> BOOLEAN] /\ undisturbed' \in BOOLEAN
  <2>1. PICK from \in PC, to \in PC : Goto(t, from, to)
    BY CallStep
  <2> QED
    BY <2>1 DEF Goto, TypeOK
<1> USE DEF TypeOK, current, pwm
<1>0. \A v \in Throttle : throttle_map[v] \in Duties
  BY DEF Duties
<1>1. CASE SetThrottle(t)
  BY <1>a, <1>1 DEF SetThrottle, Local
<1>2. CASE SetDirection(t)
  BY <1>a, <1>2 DEF SetDirection, Local
<1>3. CASE Process(t)
  BY <1>a, <1>0, <1>3 DEF Process, Local
<1>4. CASE Report(t)
  BY <1>a, <1>4 DEF Report, Direction
<1>5. CASE Choose(t)
  <2>1. ASSUME NEW f \in Duties, NEW r \in Duties
        PROVE  [local[t] EXCEPT !.fwd = f, !.rv = r] \in Local
    <3>1. local[t] \in Local
      OBVIOUS
    <3>2. [local[t] EXCEPT !.fwd = f] \in Local
      BY <3>1 DEF Local
    <3> HIDE DEF TypeOK
    <3>3. ASSUME NEW l \in Local PROVE [l EXCEPT !.rv = r] \in Local
      BY DEF Local
    <3>4. [local[t] EXCEPT !.fwd = f, !.rv = r] = [[local[t] EXCEPT !.fwd = f] EXCEPT !.rv = r]
      OBVIOUS
    <3> QED
      BY <3>2, <3>3, <3>4
  <2>2. local[t].throttle \in Duties
    BY DEF Local
  <2>3. local' \in [Tasks -> Local]
    BY <1>5, <2>1, <2>2, DutiesType DEF Choose
  <2> QED
    BY <1>a, <1>5, <2>3 DEF Choose
<1>6. CASE StageForward(t)
  BY <1>a, <1>6 DEF StageForward, Local, Channels
<1>7. CASE UpdateForward(t)
  BY <1>a, <1>7 DEF UpdateForward, Channels
<1>8. CASE StageReverse(t)
  BY <1>a, <1>8 DEF StageReverse, Local, Channels
<1>9. CASE UpdateReverse(t)
  BY <1>a, <1>9 DEF UpdateReverse, Channels
<1> QED
  BY <1>1, <1>2, <1>3, <1>4, <1>5, <1>6, <1>7, <1>8, <1>9 DEF Step

LEMMA InitType == Init => TypeOK
<1> SUFFICES ASSUME Init PROVE TypeOK
  OBVIOUS
<1>1. 0 \in Throttle /\ 0 \in {Duty(d) : d \in Duties}
  BY MotorsAssumption, DutiesType DEF MotorsAssumption
<1> QED
  BY <1>1, DutiesType DEF Init, TypeOK, Channels, Local, PC, Direction

(* Type correctness, for any number of callers: whatever they mix up, each
   channel holds half of some entry of throttle_map. *)
THEOREM TypeCorrect == Spec => []TypeOK
<1>1. Init => TypeOK
  BY InitType
<1>2. TypeOK /\ [Next]_vars => TypeOK'
  <2> SUFFICES ASSUME TypeOK, [Next]_vars PROVE TypeOK'
    OBVIOUS
  <2>1. CASE Next
    BY <2>1, TypeStep DEF Next
  <2>2. CASE UNCHANGED vars
    BY <2>2 DEF vars, history, current, pwm, TypeOK
  <2> QED
    BY <2>1, <2>2
<1> QED
  BY <1>1, <1>2, PTL DEF Spec

-----------------------------------------------------------------------------
(* A call gets on with its work when nobody else calls. *)
LEMMA ProgressStep ==
  ASSUME TypeOK, NEW t \in Tasks, Step(t), pc[t] # "idle" => Progress(t)
  PROVE  /\ pc'[t] # "idle" => Progress(t)'
         /\ pc'[t] = "idle" => pc[t] # "idle" /\ Obeying' /\ Telling'
<1> USE DEF TypeOK, Goto, current, pwm, PC, Progress, WantFwd, WantRv, Reported
<1>1. CASE SetThrottle(t)
  BY <1>1 DEF SetThrottle
<1>2. CASE SetDirection(t)
  BY <1>2 DEF SetDirection
<1>3. CASE Process(t)
  BY <1>3 DEF Process
<1>4. CASE Report(t)
  BY <1>4 DEF Report
<1>5. CASE Choose(t)
  BY <1>5 DEF Choose
<1>6. CASE StageForward(t)
  BY <1>6 DEF StageForward, Channels
<1>7. CASE UpdateForward(t)
  BY <1>7 DEF UpdateForward, Channels
<1>8. CASE StageReverse(t)
  BY <1>8 DEF StageReverse, Channels
<1>9. CASE UpdateReverse(t)
  <2>1. duty' = [fwd |-> Duty(WantFwd), rv |-> Duty(WantRv)]
    BY <1>9 DEF UpdateReverse, Channels
  <2>2. UNCHANGED <<current, metrics>> /\ Reported /\ pc'[t] = "idle" /\ pc[t] # "idle"
    BY <1>9 DEF UpdateReverse
  <2>3. Obeying' /\ Telling'
    BY <2>1, <2>2, DutiesType DEF Obeying, Telling
  <2> QED
    BY <2>2, <2>3
<1> QED
  BY <1>1, <1>2, <1>3, <1>4, <1>5, <1>6, <1>7, <1>8, <1>9 DEF Step

(* A step of any task keeps the invariant. *)
LEMMA InvariantStep == ASSUME IInv, NEW t \in Tasks, Step(t) PROVE IInv'
<1>1. TypeOK /\ TypeOK'
  BY TypeStep DEF IInv
<1>2. PICK from \in PC, to \in PC : Goto(t, from, to) /\ (from = "idle" => to # "idle")
  BY <1>1, CallStep
<1>3. pc[t] = from /\ pc'[t] = to /\ \A u \in Tasks \ {t} : pc'[u] = pc[u]
  BY <1>1, <1>2 DEF Goto, TypeOK
<1>4. ASSUME NEW u \in Tasks, alone'[u], pc'[u] # "idle" PROVE OthersIdle(u)' /\ Progress(u)'
  <2>1. CASE from = "idle"
    <3>1. u = t /\ OthersIdle(t)
      BY <1>2, <1>4, <2>1 DEF Goto, OthersIdle
    <3>2. Progress(t)'
      BY <1>1, <1>3, <1>4, <2>1, <3>1, ProgressStep
    <3> QED
      BY <1>3, <3>1, <3>2 DEF OthersIdle
  <2>2. CASE from # "idle" /\ u = t
    <3>1. OthersIdle(t) /\ Progress(t)
      BY <1>2, <1>3, <1>4, <2>2 DEF Goto, IInv, Undisturbed
    <3>2. Progress(t)'
      BY <1>1, <1>4, <2>2, <3>1, ProgressStep
    <3> QED
      BY <1>3, <2>2, <3>1, <3>2 DEF OthersIdle
  <2>3. CASE from # "idle" /\ u # t
    <3>1. alone[u] /\ pc[u] # "idle"
      BY <1>2, <1>3, <1>4, <2>3 DEF Goto
    <3>2. pc[t] = "idle"
      BY <2>3, <3>1 DEF IInv, Undisturbed, OthersIdle
    <3> QED
      BY <1>3, <2>3, <3>2
  <2> QED
    BY <2>1, <2>2, <2>3
<1>5. ASSUME AtRest', undisturbed' PROVE Obeying' /\ Telling'
  <2>1. to = "idle" /\ from # "idle"
    BY <1>2, <1>3, <1>5 DEF AtRest
  <2>2. alone[t]
    BY <1>2, <1>5, <2>1 DEF Goto
  <2>3. Progress(t)
    BY <1>3, <2>1, <2>2 DEF IInv, Undisturbed
  <2> QED
    BY <1>1, <1>3, <2>1, <2>3, ProgressStep
<1> QED
  BY <1>1, <1>4, <1>5 DEF IInv, Undisturbed, Settled

(* IInv is an invariant. *)
THEOREM Invariant == Spec => []IInv
<1>1. Init => IInv
  <2> SUFFICES ASSUME Init PROVE IInv
    OBVIOUS
  <2>1. Obeying /\ Telling
    BY MotorsAssumption, DutiesType DEF MotorsAssumption, Init, Obeying, Telling
  <2>2. TypeOK
    BY InitType
  <2> QED
    BY <2>1, <2>2 DEF IInv, Init, Undisturbed, Settled
<1>2. IInv /\ [Next]_vars => IInv'
  <2> SUFFICES ASSUME IInv, [Next]_vars PROVE IInv'
    OBVIOUS
  <2>1. CASE UNCHANGED vars
    BY <2>1 DEF vars, history, current, pwm, IInv, TypeOK, Progress, Obeying, Telling,
                Reported, WantFwd, WantRv, Undisturbed, OthersIdle, Settled, AtRest
  <2> QED
    BY <2>1, InvariantStep DEF Next
<1> QED
  BY <1>1, <1>2, PTL DEF Spec

(* After a call that no other overlapped the motors do what was last set. *)
THEOREM Obey == Spec => []MotorsObey
<1>1. IInv => MotorsObey
  BY DEF IInv, Settled, MotorsObey
<1> QED
  BY <1>1, Invariant, PTL

(* After such a call the metrics tell what the motors do. *)
THEOREM Tell == Spec => []MetricsTell
<1>1. IInv => MetricsTell
  BY DEF IInv, Settled, MetricsTell
<1> QED
  BY <1>1, Invariant, PTL

(* After such a call one channel at most drives. *)
THEOREM Braking == Spec => []OneChannel
<1>1. MotorsObey => OneChannel
  BY DEF MotorsObey, OneChannel, Obeying
<1> QED
  BY <1>1, Obey, PTL

(* With one caller every call is such a call. *)
THEOREM OneCaller ==
  ASSUME \A t, u \in Tasks : t = u
  PROVE  Spec => [](undisturbed /\ \A t \in Tasks : pc[t] # "idle" => alone[t])
<1> DEFINE Solo == undisturbed /\ \A t \in Tasks : pc[t] # "idle" => alone[t]
<1>1. Init => Solo
  BY DEF Init
<1>2. TypeOK /\ Solo /\ [Next]_vars => Solo'
  <2> SUFFICES ASSUME TypeOK, Solo, [Next]_vars PROVE Solo'
    OBVIOUS
  <2>1. ASSUME NEW t \in Tasks, Step(t) PROVE Solo'
    <3>1. PICK from \in PC, to \in PC : Goto(t, from, to) /\ (from = "idle" => to # "idle")
      BY <2>1, CallStep
    <3> QED
      BY <3>1 DEF Goto, TypeOK
  <2>2. CASE UNCHANGED vars
    BY <2>2 DEF vars, history
  <2> QED
    BY <2>1, <2>2 DEF Next
<1> QED
  BY <1>1, <1>2, TypeCorrect, PTL DEF Spec
=============================================================================
