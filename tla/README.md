# small_rover in TLA+

Models, model-checking runs and proofs for the firmware of a small wheeled rover: an ESP32-S3
*main board* (`src/mainboard`) that drives, lights, honks, records and replays routes, and an ESP32
*controller board* (`src/ps5`) that reads a DualSense pad over Bluetooth and forwards its packets to
the main board over a UART. Both run FreeRTOS with preemptive tasks on two cores. The shared
variables of the main board are plain statics: no lock protects any of them, so the questions worth
asking are about interleavings, dropped messages and modes entered in an order nobody tried.

Run a model with `tlc -config <name>.cfg <module>.tla`, a proof with `tlapm <module>.tla`.

## 1. The system

### 1.1 Components, their state and operations

| Component | Source | State | Operations | Modelled in |
|---|---|---|---|---|
| Message queue, main task | `hardware.c:748-866` | `main_queue` (20 slots), `current_state` | `hardware_send_message`, `hardware_run`, `hardware_suspend` | `Rover` |
| Mode state machine | `hardware.c:214-676` | `fsm_current_state`, seven modes | one handler per mode, `on_enter_*`, `on_exit_*` | `Rover`, promised by `RoverModes` |
| Route recorder | `routerecorder.c` | `recording`, `replaying`, `route[300]`, `route_index`, the static `replay_cursor` | `record_toggle_record`, `record_toggle_replay`, `record_process`, `replay_task` | `Recorder` |
| Motor output | `hardware.c:89-160`, `pwm.c:11-18` | `current_throttle`, `current_direction`, `metrics`, two LEDC channels | `set_throttle`, `process_throttle`, `pwm_set_motor_duty_cycles` | `Motors`; three steps per caller in `Rover` |
| UART receiver | `uart.c` | one heap buffer per packet | `check_uart`, `uart_stop`, `send_to_uart` | the producer in `Rover` |
| Obstructions | `obstructions.c`, `hcsr04.c` | distances by direction, edges of two bumpers, the receiver's queue | `check_obstructions_task`, `obstruction_enable_sweep`, `hcsr04_*`, the receiver's interrupt | `Obstructions`; its messages in `Rover` |
| Arm | `arm.c` | `status_arm_enabled`, queue of 4, four angles | `arm_enable`, `arm_move`, `arm_task` | `Arm`; enabled or not in `Rover` |
| LED ring | `led.c` | `current_pattern`, queue of 4 | the setters, `led_task` | `Ring`; what is asked of it in `Rover` |
| Deep sleep | `common/deepsleep.c`, `on_start_sleep` | a button and a delay | `init_deep_sleep`, `check_sleep`, the sleep and the wakeup | `Ring` |
| Buzzer | `buzzer.c` | a queue of 4 | setters, `buzzer_task` | what is asked of it in `Rover` |
| Laser | `laser.c` | `triggered` | `laser_trigger` | `Rover`, `RoverModes` |
| Wheel speed | `hardware.c:167-197, 678-696` | four counters, `metrics` | `check_rpm`, `pcnt_isr` | `Wheels` |
| Sensors | `sensors.c`, `bmx280.c` | chips on an I2C bus, calibration, `metrics` | `sensors_init`, `sensor_task`, the driver | `Sensors` |
| OTA | `wifi.c:74-100`, `app_main.c` | - | `start_ota_upgrade` | `hardware_suspend` in `Rover` |
| Controller board | `ps5/main/app_main.c` | the last packet, the pad's state | `ps5_check`, checksum, commands from the main board | `PadLink`; its packets in `Rover` |
| Pad link | `ps5/main/ps5*.c` | two L2CAP channels, `is_connected`, `is_active`, `_data` | connect, configure, disconnect, parse | `PadLink` |
| Task pool | `taskpool.c` | 5 workers, a queue, a semaphore | `schedule_task`, `taskpool_run` | no: nothing schedules a task |
| HTTP, WebSocket | `http_server.c`, `api.c` | list of client descriptors | connect, close, broadcasts | no |
| Servos | `servo.c` | MCPWM timers | an angle to a pulse | no: data only |

### 1.2 How they interact

The UART task, the obstruction task, `replay_task` and the OTA task post to `main_queue` and never
wait: a message for a full queue is lost (`hardware.c:790`). The main task takes messages off and
calls the handler of the current mode; after every message it calls `process_throttle`. The handlers
call the recorder, the arm, the ring, the buzzer and the laser, which have a queue of four and a
task each, and drop a command for a full queue. `replay_task`, resumed by the main task, calls
`set_throttle`, `process_throttle` and `process_steering` by itself and posts `MESSAGE_REPLAY_END`
when it is done. So two tasks write the motors, two tasks write `replaying`, and `replay_task` reads
a route the main task writes.

`check_rpm` counts what the encoders' interrupt writes; `sensor_task` shares nothing but the metrics
with the others. The sleep task stops everything whatever it is at. On the controller board the
Bluetooth task writes `_data` and `is_active`, `ps5_check` polls them, and both write the checksum's
field.

### 1.3 What is hard, and what makes each part correct

* The recorder has no lock: its cursor must stay in the recorded slots, and recording and replaying
  must exclude each other, at every interleaving; a stopped replay must come to rest.
* Modes are entered and left in any order, with packets lost, corrupted, or delayed behind others:
  arm, laser, horn, pad locks and lights must follow the mode, and the recorder's flags the
  recording and replaying modes.
* `MESSAGE_REPLAY_END` and `MESSAGE_STOP` are sent once, to a queue that may be full.
* `process_throttle` is several accesses and four driver calls, from two tasks.
* The arm works on its last command until another arrives: a STOP that is lost or late is a moving arm.
* The ring's pattern is written while `led_task` reads it, and its command comes after the pattern.
* A sonar pulse may come late or never, and its result is taken by the next turn; the sum of eleven
  directions decides, not the last.
* Counters are reset under an interrupt that another core is serving.
* Any I2C transfer may fail at any step, and few results are looked at.
* A pad is lost and found through two channels that end in any order, while its last reports still
  come in and spoil the packet that tells the loss.

The full list, line by line, is under `hazards` in `PROJECT.json`.

## 2. The modules

### 2.1 `Recorder`

The state is the file's statics, one variable each. `rpc` is the place of `replay_task` in its loop
(one value per access to a shared variable, listed in the module), `suspended` is what the scheduler
knows about it, and `call` is the place of the main task inside `record_toggle_replay`. The main
task's other calls are one action each: `record_toggle_record` and `record_process` test variables
that `replay_task` either does not write or only clears, and write variables it reads one at a time.

| Action | Code |
|---|---|
| `ReplayCheck`, `ReplayRecheck` | the tests of `replaying`, lines 39 and 48, with the rewind |
| `ReplaySleep`, `ReplayWake` | `vTaskDelay`, line 47 |
| `ReplaySet`, `ReplayProcess`, `ReplaySteer` | lines 57, 58, 59 |
| `ReplayAdvance` | lines 61-62 |
| `ReplayEndSend`, `ReplayEndClear`, `ReplaySuspend` | lines 65-67, 69-70, and the three `vTaskSuspend(0)` |
| `ToggleReplay`, `StartResume`, `StopCheck`, `StopClear`, `StopAbort` | `record_toggle_replay`, `replay_start`, `replay_stop` |
| `ToggleRecord`, `RecordProcess` | `record_toggle_record`, `record_start`, `record_stop`; `record_process` |

Left out: time (a delay ends at any moment), the log lines. `vTaskResume`, `vTaskSuspend` and
`xTaskAbortDelay` do what FreeRTOS says: a resume of a task that is not suspended and an abort for a
task that is not blocked do nothing. A sample is written and read in one step; a reader in the middle
of `record_process` could see a sample half written, which would be data, not control.

### 2.2 `Rover` and `RoverModes`

`Rover` is the main board: the queue, the main task, the seven handlers, and `Recorder` as an
instance whose samples are `[throttle, direction, steering]`. `mpc` is the place of the main task. The
handling of a message is cut where another task can get in between: before `record_toggle_replay`,
inside it (the recorder's own steps), after it, and before `process_throttle`. Each `Handle*` action
is a handler from its first line to its return or to that call; `PressButtons` and `Drive` are the
rest of the driving handler. Each action of `replay_task` is the recorder's, conjoined with what it
does to motors, steering and queue. `panel` collects the outputs the on_enter/on_exit functions set:
laser, horn, arm, the pattern of the LED ring, the colour of the pad's LED and the lock of its triggers.

A packet is the set of state bits `process_ps5_message` computes plus triggers, stick and the
correctness of its checksum; `Sanitised` does what `hardware_run` does to a corrupt packet (all
buttons released, connected) and to one of a lost pad (all zero). `IsNow` and `Was` are the edges.

Left out: `broadcast_log`, batteries, rumble, where the laser points, the bits REVERSE and FWD that no handler
looks at, `latestPacket` (the controller board always sets it), `arm_move` (the arm's own queue).

Both the main task and `replay_task` call `process_throttle`, so it is three steps of either, with a local
variable each (`at`, `loaded`): `LoadThrottle` reads `current_throttle`, `TellMetrics` writes the metrics,
`DriveMotors` writes the motors. A handler of the main task may set the throttle between the steps of
`replay_task`'s call, and the other way round. `metrics` is what was told, `output` what the motors got.
`set_throttle` is one step; so are the two channels of `DriveMotors`: `Motors` is about those. `RecordPacket` takes
`set_throttle`, `process_steering` and `record_process` (`hardware.c:561-563`) in one step, though `replay_task`,
finishing a call, may write the metrics in between: the sample would be another of its throttles.

`RoverModes` is the promise in three variables: which mode may follow which, the laser is switched
while driving and dark after any change of mode, the arm works in the arm mode alone. `Rover`
implements it (`KeepsPromise`), and it implements `Recorder` (`RecorderImplemented`): checked on two
instances and proved for all (section 4).

### 2.3 `Motors`

`set_throttle`, `process_throttle` and `pwm_set_motor_duty_cycles` for a set of calling tasks, one
action per access or driver call. An LEDC duty is staged by `ledc_set_duty` and takes effect with
`ledc_update_duty`. The throttle curve is a constant, any function with 0 at 0. The reads of
`current_direction` at lines 134 and 152 are two steps: the variable is not volatile, so the compiler
may merge them, which is the behaviour in which nothing happens in between.

### 2.4 `Arm`

`ArmMove` and `ArmEnable` are the main task's calls, with the dead zone, the halving of the axes, the
choice of one servo per stick and the post that a full queue refuses. `ArmReceive`, `Round` and
`Interrupted` are `arm_task`: it takes a command, applies its deltas to the four joints within their
limits, and ends when a message is waiting. Angles are in twentieths of a degree, which is what one
round adds for an axis value of one (`RESOLUTION`), so that the code's floats are whole numbers here.
`refused` is a history that no action reads: whether the queue was full when the arm was last disabled, so that it
refused the STOP.
`OneServo` compares whole degrees, as the integer `abs` of `arm.c` does, although the comment at line 120
speaks of the highest delta: below a degree the vertical axis wins.

### 2.5 `Ring`

The LED ring with its callers and the deep sleep that has to leave it dark. A pattern is two halves,
the least that can be torn: `PaintFirst`, `PaintSecond` and `Send` are a setter, `ReadFirst` and `Show` the
display of a pattern. `Receive`, `LookEnds`, `LookReads`, `LookShows`, `DelayEnds` are the loops of `led_task`.
The command's delay has eight bits in the code (`Delay`), so that the second of the going-to-sleep
pattern is 232 ms. `SleepAsks` is what `on_start_sleep` alone asks for, `WakeAsks` what the other tasks may ask
for: nobody else turns the ring off. `Boot`, `Rebound`, `CheckSleep`, `TurnOff`, `FallAsleep` and `Wake` are
`init_deep_sleep`, `check_sleep` and `on_start_sleep`; a wakeup restarts the program while the ring keeps its
colours. Time is a `Tick` of 250 ms that passes when no task is ready. Colours are left out.

### 2.6 `Obstructions`

One action per branch of the task's loop: `Trigger`, `TriggerFails` or `Skip`, then `ReadResult` or
`ReadTimeout`, then `LookAt` each bumper. `RxDone` is the receiver's interrupt: a pulse in time, late or
never. The main task's queue is a count that other senders share (`MainTakes`, `OtherSends`). `age` says how
many triggers ago a pulse was measured; `heard` and `missed` what the main task was told.

No mode enables the sweep in this version (`hardware.c:301` has a TODO), so only `SweepCalls = {FALSE}`
happens today: the half of the task that is about the sonar is dead code for now, and no hazard is listed for it.
The run gives both values, since the task offers both. The direction of the sonar's
servo is left out: nothing reads it back.

### 2.7 `Sensors`

`Create` to `ConfigureLsm` are the steps of `sensors_init`, the rest a turn of `sensor_task`, one action per
transfer or group of transfers whose failures are handled alike. Any of them may fail; `BusDies` makes all
of them fail from then on. A published value is abstracted to the measurement it comes from (`epochs`,
`floats`, `env`), roll and pitch to the turn they were computed in (`tilt`), and the six bytes both motion sensors
are read into to the sensor they come from (`data`). `calculate_tilt` tests the length of the vector and nothing
else (`sensors.c:82`), so `IsGravity` lets any bytes pass or fail but zeros: at the wrong scale, in motion, even
the magnetometer's. The motion sensors keep their setting through a deep sleep of the board, so `Init` may find
them awake. The compensation formulas are left out: they are arithmetic of 32 and 64 bits, taken from the
vendor's data sheet.

### 2.8 `Wheels`

`pcnt_isr` and `check_rpm` access by access, on two cores: `portDISABLE_INTERRUPTS` holds off the interrupts
of its own core only. The handler's increment is a load and a store, twice, as in the code. `Reset` takes the four
stores of `hardware.c:187-190` in one step, though the handler may run between two of them: every property here
speaks of one motor, which cannot tell. The speed
is computed in 16 bits (`Speed`). `since`, `late` and `raced` are histories: events since the last reset,
those after the read, and whether the reset met the handler in the same counter.

### 2.9 `PadLink`

The controller board. The L2CAP and event callbacks are one step each (`ConnectInd`, `ConfigCfm`,
`DisconnectInd`, `DataInd`): one task runs them. `ps5_check` is one step per access to `_data` or `is_active`
(`FindLost` to `Copy`). The checksum is a flag: correct or not for the content it stands with; that a
spoilt packet passes by chance, one in 256, is left out. `Understood` is what `hardware_run` makes of a
packet. Left out: the commands for LED, triggers and rumble, the battery's average, pairing.

## 3. The runs

| Run | Bounds | States | Asks |
|---|---|---|---|
| `recorder` | route of 3 slots, 2 samples | 5,194 | types; the cursor in recorded slots; exclusion; no repeated sample; the route frozen during a replay; a stopped replay rests |
| `modes` | queue of 1, nine packets, bumper, an upgrade, nothing recorded | 327,638 | types; lights, locks, horn; `RoverModes`; a queued `MESSAGE_STOP` halts the main task |
| `replay_mode` | queue of 1, route of 1, record/replay/arm/lost pad, bumper | 1,830,816 | `Recorder` implemented; recording mode and flag agree; the route changes in the recording mode alone; in the arm and error modes every message ends with a stop or a replayed throttle, and no other throttle comes up |
| `motors` | two tasks, throttles 0, 255 | 143,293 | after an undisturbed call motors and metrics agree with what was set; recovery when one caller is left |
| `arm` | queue of 4, four positions of the sticks | 144,828 | a disabled arm moves on only if its STOP was refused; an accepted STOP brings it there; a held stick reaches the limit |
| `ring` | queue of 2, flashing and rainbow asked, sleep | 384,278 | dark when asleep; the last pattern is shown in the end; a held button stops the rover |
| `obstructions` | 2 directions, echoes 15 and 100, queue of 1 | 148,992 | the main task was told right; readings at most one turn old; a clear way clears; no bumper goes mute |
| `sensors` | sensor at either address, unknown, none | 35,576 | fresh values of one measurement; no garbage after the first; nothing new on a dead bus, which stops nothing |
| `wheels` | motors 3 and 4, 2 events a turn, counter to 6 | 536,661 | what is counted, what a turn may lose, rest is reported in the end |
| `padlink` | three reports | 42,471 | no pad without a channel; every change is noticed; a loss releases all controls |

The bounds. Three slots are the least for which a route can be full, shorter than the one it
replaces, and have a middle; two samples are the least for a repeated and a changed one. In the
composition a route of one slot has every transition of the recorder (full, empty, end reached), a
queue of one loses messages at the earliest moment, and the sets of packets are chosen per run so
that every handler is driven through every branch: each set has a packet that releases the buttons of the one
before, the connection's loss, and the buttons of the modes in question. A queue of two gives the same answers in
runs of several minutes.

Two throttles and two tasks hold every mixture of two calls. The arm has the code's queue; its limits are a
few rounds apart and no multiple of a round, so that a joint is clamped at both. The ring's queue of two
overflows as that of four does, one command later; two kinds of command (one that paints and one that does
not) give every loop of `led_task`. Two directions are the least of which one stays blocked while the other
clears. Two motors are the least for a reset that races one and spares another, two events the least for
one before and one after the read. The three reports differ in buttons, in axes beyond the threshold and
in nothing but jitter and ignored buttons.

The type invariants of `Motors`, `Ring`, `Arm`, `PadLink`, `Obstructions` and `Wheels` are proved (section 4) and need
no run. `CHECK_DEADLOCK FALSE` is set for `Rover` alone: after an upgrade has stopped the main task and the
UART the rover really stops.

### 3.1 Disagreements

These runs check what a document or comment says, and TLC shows the code to do otherwise.

* `arm_replay`: "While in arm mode, the throttle is disabled" (README). Start a replay, lose the pad,
  get it back, press CROSS: the replay drives on in the arm mode, since only the replaying mode's
  button stops it.
* `replay_mode_ends`: "Periodic check to see if we're still replaying" (`hardware.c:578`).
  `MESSAGE_REPLAY_END` is posted before `replaying` is cleared; the main task on the other core can
  handle it in between, finds the replay still on, and no other message comes. The mode ends only
  when TRIANGLE is pressed. (It also happens when the full queue drops the message.)

Further disagreements have a configuration each, which ends in the violation:

* `MCRecorderEnds`: "Pressing the triangle button replays a recording" (README). `vTaskResume` between
  `replay_task`'s test and its `vTaskSuspend(0)` is lost; the flag is set and nothing plays.
* `MCRecorderStale`: "at the same time deltas ... replicate the same path" (README). `xTaskAbortDelay`
  just before `replay_task` blocks is lost; the task sleeps through a new recording and a new start
  and goes on from the old cursor. The proofs below show how far this can go: never outside slots
  that were recorded at some time.
* `MCRoverThrottle`: "recording all throttle changes" (README). `record_process` reads
  `metrics.throttle` of the packet before, so the last change is not recorded.
* `MCArmDisabled`: "The arm can only be used while in "arm" mode" (README.md:111). The STOP of
  `arm_enable(false)` is posted without waiting and its result ignored (`arm.c:83`): behind a full queue it is
  lost, and the arm goes on with the last move until its limits. The configuration takes a queue of one.
* `MCPadLinkForwards`: "listens for incoming dualsense events and forwards them" (`ps5/README.md:4`). The packet
  that announces a pad (`app_main.c:143-147`) is `_data` itself, which a report may spoil before it is written; it
  is not sent again, and later packets only when something changes by more than the threshold.
* `MCSensorsCalibrated`: "Probe for the sensor and read calibration data" (`bmx280.h:187`). `bmx280_init` does not
  look at the result of the calibration (`bmx280.c:287`), and the task converts with zeros.
* `MCObstructionsTimeout`: "if we get 0xFFFF, it means there was a timeout, so the distance was too far"
  (`obstructions.c:65`). In an `int16_t` it is -1, which is not 0 and not above 20: too close.

Some that the models show without a configuration: a throttle the user gave while a replay was on may reach the
motors after the arm or the error mode has stopped them, because `replay_task` read it before
(`hardware.c:132`) and writes it after (`hardware.c:154`); `StopsOrReplays` and `NoNewThrottle` say how far that goes:
to the next message, and to what was under way. Two tasks inside `process_throttle` can leave both
channels driven, although "we don't support braking" (`hardware.c:91`; `OneChannel` of `Motors` is for undisturbed
calls); a pad lost in the recording mode leaves `recording` set, so that the next CIRCLE ends a
recording instead of starting one; the horn, held while CROSS or SQUARE is pressed, sounds on through
the arm or autonomous mode (`HornWhere` says these are the only two). In the formulas `Sensors` leaves out, the
third byte of a reading is taken from `buffer[0]` (`bmx280.c:461`).

### 3.2 Fairness

Weak fairness throughout, of tasks and interrupts that are ready: FreeRTOS is preemptive, the chip has two
cores, and no task spins at a high priority; a delay ends.

* `Recorder` and `Rover`: `replay_task` and the main task (in `Recorder`: its calls once begun). `StopHonoured`
  needs no fairness of the queue: a message that is in it is reached.
* `Motors`: none. `Recovers` speaks of a task that keeps calling.
* `Arm`: `arm_task`, which blocks in `xQueueReceive` and in its delay only.
* `Ring`: the setters once called, `led_task`, the sleep task, and time while the rover is awake: nobody
  calls setters without end in no time.
* `Obstructions`: its task, and the main task that empties the queue.
* `Sensors`: the task, and the chip that finishes a measurement. A step that a dead bus keeps from changing
  anything is not owed.
* `Wheels`: the handler once entered, and `check_rpm`.
* `PadLink`: `ps5_check`, and the pad's reports while its link is up, which come all the time, changed or not.

People, bumpers, echoes, wheels, upgrades, links and the I2C bus owe nothing.

## 4. The proofs

Eight modules of proofs, each for every value of the constants under the named assumption of its module. In
each an invariant `IInv`, type correctness and what the properties need to be inductive, is shown to hold
initially and to be kept by every action.

`RecorderProofs` proves for a route of any length and any set of samples: `TypeOK`,
`PlaysRecordedSlot`, `Exclusive`, `RouteFrozen` and `NoIdenticalNeighbours`. It assumes only that the
route has a slot and that a blank slot is no sample. `PlaysRecordedSlot` is not inductive: the
cursor is tested against `route_index` at the end of the loop only, and main may start a new recording
after that test. The invariant `IInv` adds that the slots below `route_index` are recorded ones, that a
replay is on only with a route to play, and where the cursor is at the top and at the end of the
loop. The argument is that no slot is ever blanked: what the cursor pointed at once, it still may play.

`MotorsProofs` proves, for any throttle curve that is 0 at 0 and any number of calling tasks: `TypeOK`,
`MotorsObey`, `MetricsTell` and `OneChannel`. `Progress` says what a call that nobody overlaps has done at each
statement; `Undisturbed` that a call marked as alone is so. `OneCaller`: with a single calling task every
call is undisturbed.

`WheelsProofs` proves, for any number of events: `TypeOK`, `CountsTwice` and `LostInWindow`. `LoadedFresh` adds
that the value the handler has loaded is the counter's unless a reset came in between, `ReadIsCount` carries the
read of a counter to the reset. Two theorems are arithmetic: `SpeedExact`, up to an average of 183 rpm
nothing is lost in the 16 bits of `mm_per_minutes`; `SpeedLow`, from 184 to the 251 rpm of the motors the speed is
39 or 40 units too low.

`DeviceProofs` is about the two devices that have a queue and a task of their own: the LED ring and the
arm. For the ring it proves, for any length of the queue and whatever the main task
and the OTA task ask for: `TypeOK` and `DarkAsleep`. That the ring is dark when the chip falls asleep is decided in
the half second, two ticks, before: three setters and `led_task` may be anywhere when `led_turnoff` begins, and
its command may even be dropped by a full queue. The invariant says what each of them can no longer be late with.
`CallsInPlace`: `led_turnoff` is under way only with both ticks to go, and no delay of `led_task` is longer than
one. `LateCalls`: a call on its way in the last tick began after `led_turnoff` and so has
spoilt the dark pattern, or asks for the rainbow, because a tick passes only when every call has returned. `LateRound`: a
round of `led_task` in the last tick has read the dark pattern, and only the rainbow is queued behind it.
`LastShown`: `led_task` does not wait on an empty queue before it has shown the dark pattern. `TimeUp` is what is left
of them after the second tick, and the property follows from it. With the second that the pattern before asks
for, instead of its low eight bits, `CallsInPlace` does not hold and the ring may stay lit.

For the arm it proves, for any limits with the rotator's around 0, any sticks and any length of the queue: `ArmTypeOK`,
of which the joints' limits are a part, and `OnlyRefusedStopMoves`. `StopIsLast` makes it inductive: a disabled arm
whose STOP was accepted is at rest or has the STOP as the last command of its queue.

`PadLinkProofs` proves, for any reports: `TypeOK` (what is parsed, kept and sent fits its bytes) and `NoGhostPad`,
which needs `ActiveIsLinked`: an active pad's interrupt channel is configured, since only that channel brings
packets and its end makes the pad inactive.

`RoverProofs` proves, for any length of the queue and of the route, any set of packets and of bumper events, with or
without an upgrade: `TypeOK`, `PanelShowsMode`, `HornWhere`, `RecordingModeRecords`, `StopsOrReplays`,
`NoNewThrottle`,
`RouteChangesInRecordingMode`, and that the rover implements `Recorder` (`RecorderImplemented`) and `RoverModes`
(`KeepsPromise`). It assumes that 0 and the autonomous throttle are throttles, that every packet's stick gives an
angle of the servo, and that a blank slot is no sample. The types need what the recorder guarantees (what
`replay_task` sets is a throttle because it plays recorded slots), and the recorder's guarantee needs the types (a
slot holds a sample because the motors were given a throttle), so both are one induction. `IInv` has the
invariant of `RecorderProofs`, taken through the instance `RP` together with the lemma that a step of
the recorder preserves it, and beside it: `Mail` (queue and message in hand hold what the UART or `hardware_run`
can have put there), `InPlace` (the recorder is called from the driving and the replaying handler alone, and a
call is in progress nowhere else), `Lights` (what each on_enter and on_exit function must find and leave),
`Moving` (throttle, direction, steering, and the locals of both calls of `process_throttle`), `InHand` (the main task's
local is 0 but within its call), `StandStill` (in the arm and the error mode what is set, and what the main task has
loaded, is a standstill or a throttle of the route; of what `replay_task` has loaded nothing can be said) and
`RecordingModeRecords`. `RecorderStep` shows each step of the rover to be
one of `Recorder` or a stutter, `PromiseStep` one of `RoverModes` or a stutter. `Replays` draws the conclusion: the
theorems about the recorder alone hold of the recorder inside the rover.

`SensorsProofs` proves, for any chips that may be fitted: `TypeOK` (the task runs only with a chip found and
identified), `CleanTurnFresh`, `KnownStays` and `DeadBusPublishesNothing`. None of the last three is inductive: what is
published was decided several unchecked transfers before. `CleanTurn` carries from step to step of a turn in which nothing has
failed that the chip is at rest with the new measurement in its registers and that the readout has taken nothing else;
`FloatsKnown` relates the three floats to what is published; `TurnBegins` says that a turn starts with nothing
new. `DeadTurn` is what holds from the first turn that begins on a dead bus, and is kept by every step: the property
is of the form "always P implies always Q", P the beginning of such a turn.

`ObstructionsProofs` proves, for any number of directions and any echo the receiver can measure: `TypeOK` (no index
outside the array, no more than two results), `ToldRight` and `ReadingRecent`. `IInv` adds that
`something_too_close` is what the distances say and that the one measurement a trigger asks for is either awaited or queued.

Every invariant and every action property of the runs is a theorem, and so are both refinements. Model-checked only
is liveness (`ReplayRests`, `StopHonoured`, `Recovers`, `AcceptedStopRests`, `HeldStickArrives`, `Settles`,
`HeldButtonStops`, `SweepClears`, `BumpersStayAlive`, `DeadBusStillRuns`, `StillReadsZero`, `ChangesNoticed`,
`LossReleases`): it rests on fairness, and `ENABLED` is out of the proof system's reach.

## 5. Not modelled, and the plan

Next, in this order:

1. The buffers of the UART receiver (allocated by `check_uart`, owned by the queue, freed by `hardware_run`) and
   the frames of a byte stream from which a byte was lost.
2. The buzzer's queue and task, after the pattern of `Arm`.
3. An upgrade that fails; the commands from the main board to the pad.

Not planned:

* Task pool: `start_webserver` starts its workers, but nothing calls `submit_async_req`, the only caller of
  `schedule_task`: no task is ever queued.
* HTTP and WebSocket: broadcasts and static pages on the library's own task; no other part depends on them.
* Servos, the ring's colours, the compensation formulas, provisioning, static web pages, pairing: I/O and data
  with no state that another part depends on.
