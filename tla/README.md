# JONNY5: TLA+ models of the control core

JONNY5 is a VR tele-operated 6-DoF arm. An STM32G474 (Zephyr) drives the servos
from a 1 kHz real-time tick; a Raspberry Pi feeds it over SPI (64-byte frames,
the operator's intent or a ROS 2 joint stream) and over a UART (text commands);
a mushroom button can stop it at any moment. What can go wrong with a machine of
this kind is the order of things: a tick between two statements of a command, a
link that falls silent, a reply that comes late, an edge of the button while the
last one is being reported. That is what these modules model. Paths below are
relative to the repository root.

## 1. Inventory

### 1.1 Firmware (`firmware/stm32/src`)

One core, preemptive priorities (`core/rt_loop.c:95-112`): real-time thread (4)
over the system work queue (5), IMU (6), SPI service thread (7) and main (8).
The real-time tick is therefore atomic for all the others, and may fall between
any two of their instructions.

| Part | State it keeps | Operations |
|---|---|---|
| State machine, `core/state_machine.c` | `current_state` (SAFE, IDLE, STOPPED); every write is a separate store, without lock | `set_safe`, `set_idle` (check, then set), `set_stopped` |
| Real-time loop, `core/rt_loop.c` | `rt_prev_state`, `auto_transition_done`, `safe_entry_heartbeat`, the joint stream latches, the VR pipeline's arm / freeze / disable latches | each tick: E-STOP poll, link watchdog, STOPPED barrier, trajectory tick, SAFE with its automatic way out, IDLE with stream or VR pipeline, user button |
| Emergency stop, `core/estop.c` | debounced state and counter, two notification flags | init (fail-safe), poll in the tick, notify poll in main |
| Trajectory, `servo/j5vr_setpose.c` | `g_setpose_state` (active, timing, start and target, relax flag) | `go_setpose`, `go_setpose_time`, tick, abort |
| UART dispatcher, `uart/uart_control.c` | line buffer | E-STOP gate, STOP, SAFE/RESET, ENABLE, HOME, PARK, SETPOSE*, configuration, status |
| SPI slave, `spi/hal_spi_slave.c` | two DMA halves, last sequence number and payload, uptime of the last valid frame, counters | DMA callbacks, service thread: find a valid frame, drop duplicates, parse, build the reply |
| Intent, `spi/j5_protocol.c` | `g_j5vr_latest` (mode, heartbeat, grips, pose), J5IK target and consent | parse, snapshot |
| VR pipeline and servos, `servo/*` | manual / head assist state, desired and current positions | arming, rate limiting, PWM arithmetic, limits |
| IMU, `imu/*` | double buffer of the last report and its counter, validity flags | thread: initialise, read, publish; IMUON and IMUOFF from main; copy into the telemetry |
| Settings, `servo/*`, `spi/j5_protocol.c` | offsets, VR parameters, joint limits, PWM configuration; factory values at reset | SET_OFFSETS, SET_VR_PARAMS, SET_JOINT_LIMITS, SET_PWM_CONFIG |

### 1.2 Raspberry Pi (`raspberry/controller`)

| Part | State | Operations |
|---|---|---|
| UART manager, `uart/uart_manager.py` | request queue, sequence counter, received lines, failure streak, port | `send_uart_command` (coroutine), writer thread, reader thread, recovery |
| SPI data plane, `spi_dataplane/*` | worker thread, last frame and telemetry | build frame, exchange, decode |
| Shared state, `teleop/shared_state.py` | files with the last intent and telemetry and their age | write, read with a limit on the age |
| Operators' commands, `ws_handlers_uart.py` | demo task and its two events, pending HEADZERO and RELAX_DIGITAL, last status | command handler, ENABLE recovery, demo, `SETPOSE_DONE` callback, status poll |
| HEAD mode, `ws_handlers_intent.py`, `ws_server.py` | latest intent, heartbeat loop and its stop event | `set_vr_mode`, intents, connection and disconnection |
| Self test, `self_test_imu.py`, `imu_analytics/*` | position in its sequence | a client of the server on the same machine: poses, samples, modal test |
| Settings, `settings_manager.py`, `ws_handlers_settings.py`, `https_server.py` | two files, written by the event loop and by HTTPS threads | save, apply, routing POST, application at start and at BOOT_READY |
| Telemetry to the pages, `ws_handlers_imu.py` | debounced validity of the orientation | one message per period |
| IK, head assist, video, portal, PoE parameters, offline scripts | | numerics and plumbing |

### 1.3 ROS 2 (`ros2_ws/src`)

`jonny5_control/Jonny5System` (ros2_control hardware: lifecycle, `read`, `write`
which gives the consent by itself), `jonny5_hardware/spi_driver_node.py` (the same
link as a node, with a service that asks for the stream), `jonny5_teleop_vr` (bridges),
simulation, bring-up and MoveIt configuration.

### 1.4 How the parts interact

* SPI: the Pi's frame becomes `g_j5vr_latest` under a spin lock; the next tick
  takes a snapshot. The reply carries a state report. A frame refreshes the age
  that the watchdog reads.
* UART: `#<seq> COMMAND` down, `#<seq> OK|ERR ...` up, plus two unsolicited tokens
  (`ESTOP`, `ESTOP_CLEAR`). Sending is a busy wait of a millisecond and more: ticks
  run in the middle of a command, between its check and its effect.
* Shared state inside the firmware: `current_state` is written by the tick
  (E-STOP, watchdog, automatic re-arm) and by main (commands); `g_setpose_state` by
  main (requests) and by the tick (end of trajectory, button, E-STOP).
* Server: every connection, the demo, the poll, the heartbeat loop and the self test are
  tasks of one event loop, switched at each `await`; the UART's callback comes from the
  reader thread. All their requests pass through the one queue of the UART manager.
* Settings: a file of the Pi and, for most, a value the firmware has to be told. The
  firmware forgets it at a reset and says `BOOT_READY`.

### 1.5 What makes each part correct

* Core: torque off under E-STOP and outside IDLE, a silent link noticed in
  bounded time, no motion from before a stop resumed after it, no torque in the
  stream without consent, no automatic re-arm from a stale intent (there is one way to it, see
  section 4).
* Emergency stop notification: the Pi ends with the token of the real state.
* Trajectory: the tick never runs half of one request and half of another.
* UART manager: a call that is answered gets its own reply; a lost reply does not block
  the commands behind it (it does with the wall clock set, see section 4).
* SPI link: no half waits unseen, a setpoint is applied once, in order and with the
  bytes of one frame, the loss counter is exact, a stopped DMA is started again.
* VR pipeline: released grips leave no servo with the torque they gave; a head mode
  measures from a pose taken since it was entered.
* Joint stream: the arm follows a joint command only on a consent given after the last
  stop and the last SETPOSE, whatever the link loses.
* Operators' commands: a STOP ends the demo it was meant for, before the demo's next step,
  and the demo's task does not outlive it.
* Self test: what it samples is an arm at rest in the pose it commanded; it ends.
* HEAD mode: the server never leaves the grips pressed without the loop that will
  release them; HEAD ends when an operator has asked to leave it.
* IMU: a frame holds one report; nothing from before IMUOFF is shown after it; validity is
  backed by recent telemetry.
* Settings: at rest firmware and files agree, nobody writes an old setting back, a
  restarted firmware does not stay on its factory values.

## 2. The modules

| Module | Models | Code |
|---|---|---|
| `Estop` | GPIO line, debounce, fail-safe init; shared by the next two | `core/estop.c` |
| `SafetyCore` | state machine, tick, watchdog, joint stream gate, UART commands, frames | `core/rt_loop.c`, `core/state_machine.c`, `core/estop.c`, `uart/uart_control.c`, `spi/j5_protocol.c` |
| `SafetyCoreProofs` | the theorems about `SafetyCore` | |
| `VrPipeline` | arming, torque cut, freeze, mode changes, head calibration | `core/rt_loop.c`, `core/estop.c`, `servo/j5vr_head.c` |
| `VrPipelineProofs` | the theorems about `VrPipeline` | |
| `TorqueGate` | abstract: what may energise a servo; implemented by `SafetyCore` and `VrPipeline` | |
| `SpiLink` | circular DMA, interrupts, service thread, frame search, duplicates, sequence numbers | `spi/hal_spi_slave.c`; sender: `spi_dataplane/j5vr_spi_bridge.py`, `spi_worker.py`, `spi_driver_node.py` |
| `SpiLinkProofs` | the theorems about `SpiLink` | |
| `EstopNotify` | reporting of the E-STOP edges to the Pi | `core/estop.c` |
| `HandoverProofs` | the theorems about `EstopNotify` and `SetPose` | |
| `SetPose` | hand-over of a trajectory between threads | `servo/j5vr_setpose.c`, motion commands of `uart/uart_control.c` |
| `UartManager` | the Pi's side of the UART | `raspberry/controller/uart/uart_manager.py` |
| `UartQueue` | abstract: what the callers see of it, a queue served in order; implemented by `UartManager` | |
| `WsUart` | operators' commands, ENABLE recovery, demo, `SETPOSE_DONE` callback over one UART queue | `web_services/ws_handlers_uart.py` |
| `SelfTest` | the self test beside them; extends `WsUart` | `self_test_imu.py`, `imu_analytics/run_real_imu_ee_validation.py`, `imu_modal_test.py` |
| `UartProofs` | the theorems about `UartManager`, `WsUart` and `SelfTest` | |
| `HeadMode` | HEAD mode: handlers, heartbeat loop, intents | `ws_handlers_intent.py`, `ws_server.py` |
| `ConsentProofs` | the theorems about `HeadMode` and `JointStream` | |
| `JointStream` | the joint stream: ROS 2 node or ros2_control plugin, link and firmware | `spi_driver_node.py`, `jonny5_system.cpp`, `j5vr_spi_bridge.py`, `core/rt_loop.c` |
| `ImuTelemetry` | the orientation, from the IMU thread to the page | `imu/imu.c`, `spi/j5_protocol.c`, `j5vr_spi_bridge.py`, `ws_handlers_imu.py` |
| `ImuTelemetryProofs` | the theorems about `ImuTelemetry` | |
| `ServerConfigProofs` | the theorems about `ServerConfig` | |
| `ServerConfig` | settings: files, applications, start, BOOT_READY, poll and restart of the server | `ws_handlers_uart.py`, `ws_handlers_settings.py`, `settings_manager.py`, `https_server.py`, `ws_server.py` |
| `MC*` | the modules TLC runs | |

Definitions whose comment begins with "Fault" are variants of the definition
that follows them, as a plausible mistake would have written it. No model uses
them; they serve to try that each property can fail.

### 2.1 SafetyCore

*Actions and threads.* A tick is `EstopPollTick` followed by `RtLoopStep`; while
`rt = "step"` no other thread's action is enabled, which is the priority rule of
1.1. `RtLoopStep` is the whole of `rt_loop_step`: watchdog, then exactly one of the
STOPPED barrier (which returns early, before `rt_prev_state` is updated), SAFE, a
trajectory step (which also returns early) and IDLE. A UART command is a short
program: `Receive`, `EstopGate`, then the steps of its branch; the program counter
is `pc`, and any number of ticks may fall between two steps. `ENABLE` is a check and
a store; HOME stands for all the commands that check IDLE, send their reply and
only then start a trajectory (`HomeChecks`, `ReplySent`, `Launch`). `ticked` records
that a reply lasts more than a tick. `VrFrame` and `IkFrame` publish an intent.

*Abstractions.* Ages count ticks and saturate one past their limit, since the code
only compares them with it. The servos are one Boolean, torque on or off. What the
VR pipeline does in IDLE is left open: it may switch the servos off, leave them, or
drive them if both grips are held in a mode that actuates; that is the bound its
deadman gives (`rt_loop.c:435-444`, `626-733`) and the properties below need no more
of it; `VrPipeline` (2.2) shows that the code stays within it. The heartbeat counts modulo `HbMod` and a frame carries the last value or the
next. How long a trajectory lasts is left open.

*Properties.* `EstopTorqueOff` and `TorqueOnlyInIdle` (torque), `SilentLinkBounded`
(watchdog against ENABLE), `NoStaleTrajectory` (a trajectory accepted before a
STOPPED never moves the arm after it), `NoConsentNoTorque` (stream),
`SeenEntryNeedsHeartbeat` (automatic way out of SAFE, when `rt_prev_state` shows the
entry; `RearmNeedsHeartbeat`, which no run checks, is the unconditional form the
documentation states, and does not hold: section 4), `TorqueHasCause` (refinement of
`TorqueGate`), and with the tick scheduled `PressStops` and `SilenceStops`. They use history that no action
reads: `hbMoved` and `entrySeen` (since SAFE was last entered), `silentIdle`,
`halted` (a STOPPED since the last motion command was accepted) and `homed` (some of
the torque is a trajectory's).

### 2.2 VrPipeline and TorqueGate

The IDLE branch of the tick keeps a dozen latches in static variables, which only
the ticks that reach it update. `VrStep` is one such tick, from the snapshot to the
switch on the mode: leaving the stream, edges of grips and inputs, arming, torque cut,
mode change, freeze, actuation. The ticks that pass it by (`StoppedStep`, `SafeStep`,
`TrajectoryStep`, `StreamStep`) and `EstopEngages` change the few latches they can
reach. State changes and trajectories come at any time (`StateWritten`,
`TrajectoryWritten`), which is more than `SafetyCore` allows. A frame says whether
both grips are held, whether a stick or button is active and whether the heartbeat is
positive. HEADZERO, from the main thread, is two stores with ticks between them.
Modes above 6, which no sender uses, are left out, and so are the values that the
head and the sticks command.

`by` (who gave the torque) is history, and so is what has happened since the head
reference was taken: `away` (the pipeline saw another mode) and `crossed` (it was
taken between the two stores of HEADZERO). `TorqueGate` is the promise that both this module and
`SafetyCore` keep: a servo that is off is energised only in IDLE and for a
trajectory, the deadman in a mode that actuates, or consent to the stream.
`WithinDeadman` is what `SafetyCore` assumes of the pipeline. That the pipeline itself
implements `TorqueGate` is proved; no run repeats it.

### 2.3 EstopNotify

`estop_notify_poll` is five accesses (two reads, two clears, the debounced state),
then one or two sends. A tick may fall between any two accesses, but at most one in
the whole group, because they take microseconds; while a token is being sent ticks
run freely. `missed` is history: the poll has cleared a flag that it had read as
lowered.

### 2.4 SetPose

Each field of `g_setpose_state` holds the number of the request that last wrote it,
so that a mixture is visible. The joint loops may write `q_start` and `q_target` in
any order. A command is accepted in IDLE (`Accepts`: HOME, SETPOSE and the fixed poses,
SETPOSE_T); its answer takes more than a tick, so that the state may be another when the
first store comes. `j5vr_go_setpose` clears `active` through a plain field and sets it again
with no access in between that would oblige a compiler to keep the first store;
`StoreKept` is the set of outcomes a build may have. `j5vr_go_setpose_time` uses a
volatile pointer. `crossed` is history: the button filled the structure from the
tick while main was filling it. In that case, and in a build that dropped the store,
the tick does run a mixture: `WholeTrajectory` speaks of all other histories.

### 2.5 UartManager

Callers, the writer thread step by step, the reader thread, and an environment that
loses commands and replies or delays them. The writer computes its deadline with
`time.time()` and compares it with `time.monotonic()`; `wallSet` separates the two
cases that gives: clock set (the deadline is decades away) and clock at the epoch
(the two agree). Commands that need no reply and the details of the port are
abstracted.

`UartQueue` is what the threads amount to for the callers: a queue, served in the order of
the calls, in which a caller is told once, its own reply or a failure. `Waiting` maps the
state: the call the writer is serving, then `_request_queue`. `WsUart` and `ServerConfig` use
such a queue in place of the threads; that `UartManager` implements it (`ManagerIsQueue`) is
proved; no run repeats it.

### 2.6 SpiLink

The default build: 128-byte transfers, a 64-byte frame in the first half of each. The
DMA fills two halves in turn without end (`BeginTransfer`, `HalfDone`, `EndTransfer`);
the interrupt of a full half sets its bit and gives a semaphore that counts to 1. The
service thread is a step per access to what it shares with the interrupts: the wait
(`Wake`, `TimeOut`), the look at the error flag, one bit of the mask, the search and
the reply, the copy of the tail, and the two restarts. An interrupt may fall between
any two.

*Where frames lie.* The DMA restarts at byte 0 of half 0 whatever the Pi is doing. If a
transfer is under way, all later transfers begin in the middle of a half, at `shift`,
until the next restart. The search window is the last 127 bytes of the half before and
the pending half, so that a frame is seen whole in the half where it starts, once more
in the tail of the next window, or, if it ends in the next half, there only. `Earlier`
and `Later` are the two candidates, `Picked` the choice by score (offsets 0 and 64,
type J5VR), sequence number, and none if they tie. The code looks at every offset; two
frames is all that 255 bytes of 128-byte transfers can hold. An aligned tail lacks the
first byte of its frame and is the same as no tail.

*Data.* A frame is its header and one bit, whether its bytes are its own: the CRC of v2
sees a mixture, v1 has no CRC. `id` and `epoch` number the frames and the runs of the
Pi for the properties; no action compares them. The driver sends STATUS under v1 only
and the joint stream under v2 only (`TypesSent`). A sequence number is used up by each
transfer; a transfer that raised an exception on the Pi, and would be repeated with the
same number, is left out. The error counters, the content of the replies and the
boundary slots, which no code reads, are left out. The watchdog's look at
`pending_mask` is one step with its time-out: a half that completes in between sends
the thread back to the wait with the semaphore up, which `Wake` covers.

*Properties.* `overrun` is history: a half was filled again before it was read (the
thread lost more than a transfer's time, 20 ms), `carried`: the DMA was restarted with
a half pending, `stale`: a setpoint was applied that is not the newest. `InOrder` and
`GapsCountLosses` hold without overrun, `NoMixture` under v2 always and under v1
without either; `AnswersRecent` says that the reply on the line answers the last
transfer, or the one before if transfers are not aligned. Section 4 tells what the
exceptions hide.

### 2.7 WsUart and SelfTest

`WsUart` is the motion side of the WebSocket server: a handler per operator, the demo, the
`SETPOSE_DONE` callback of the reader thread and what it schedules on the loop. A task is
alone between two suspensions, and a suspension is a request in the one queue of
`UartManager`, kept here as a sequence that the firmware serves in order. A caller may
give up (`GiveUp`): its request stays queued. A lost reply either costs a time limit or,
with the clock set, blocks the writer (`LossBlocks`, the two cases of 2.5). The actions
are the branches of the handler (`Enable` and its recovery `RecoveryStep`, `Stop`,
`OtherCommand`, `StartDemo`, `StopDemo`), the life of the demo (`DemoCheck`, `DemoSent`,
`DemoWakes`, `DemoTimesOut`), and the firmware (`Serve`, `TrajectoryEnds`, `FirmwareStops`,
`SetposeDone`). `ended`, history, is the last demo that an executed STOP was meant for.

`SelfTest` extends it with the sequence of `self_test_imu.py`, which drives the robot
through a connection of its own, and of `imu_modal_test.py`, which does not pass through
the handler. The rotation of the arm is only its pose: `aim`, `place` and `upset`
(somebody else moved or stopped the arm), history as well. Left out: the summaries,
plots and vibration recording, peaks, and a `SETPOSE_DONE` that is lost on the way to
the Pi.

### 2.8 HeadMode

One handler per connection and the heartbeat loops it starts, a step between two
suspensions: `SetVrMode`, the wait for the old loop (`StopTimesOut`, `Stopped`), the
application of the settings, `CreateLoop`, `LoopTicks` and the three ways a loop ends;
`IntentArrives` is what `ws_server.py` does with an intent, rewriting and auto-stop
included. `latest` is the shared intent, with who pressed its grips. History: `exclusive`
(no two requests have overlapped in a way the code does not handle) and `left` (the last
thing an operator asked for is to leave HEAD).

### 2.9 JointStream

The master of the link is the ROS 2 node or the ros2_control plugin (`master`); the
firmware is what `SafetyCore` says of the stream, with a position of one coordinate. One
step is an exchange, in which the frame and the telemetry may each arrive or not, and
what the firmware then does until the next; the telemetry is the one loaded at the
exchange before. A stop, with its ENABLE, and a SETPOSE may be of any length. History: `away` (for how many
exchanges in a row the firmware has been out of IDLE or in a SETPOSE in spite of the consent)
and `overdue` (how many have passed since the consent ended or ought to have: the telemetry
has said so, or `away` is longer than `LinkTimeout` and the two exchanges a report takes).
`FollowsConsentOnly`: the arm follows joint commands for no longer than a frame is valid
after that. The request for telemetry of the plugin's activation is no setpoint;
`on_error` after a failed read is the plugin going down; the start of a controller is one
of its commands.

### 2.10 ImuTelemetry

Five threads on two machines. The IMU thread gives the processor up only while it sleeps
or waits for the bus, so a publication is one step; IMUOFF is one step per store
(`Clear`), and the copy by the SPI thread is two halves (`BuildBegins`, `BuildEnds`) between
which the IMU thread may publish at most once (they take microseconds, its period is
2.5 ms). On the Pi a frame may be new, repeated or missing (`Telemetry`, `Status`),
the file and its age are the bridge's, and `Message` is what a page is told. History:
`offMark` (the last report published when IMUOFF came), `reused`, `silence` and
`silenceThen` (time without telemetry now and at the message before). Protocol v1; how
late a reply is is left open.

### 2.11 ServerConfig

A setting is a version number, in the file and in the firmware; 0 is the factory value.
The tasks of the event loop run in the order in which they become ready (`ready`) and
share the one UART; the HTTPS server's threads read and write the routing file beside
them (`PostReads`, `PostWrites`). `SaveSettings`, `ApplyOffsets`, `SavePwm` and `ApplyVr` are
the pages' requests; `BootSync` and `StartupSync` send everything; `PollFails` and
`HardRestart` are the poll that ends the process when the UART answers no more. Faults: a
lost reply, a caller that gives up, a crash of the server, a reset of the firmware.
History: `doubt` (settings of which file and firmware may disagree: saved and not sent,
lost, overtaken), `unsure` (the same for a request under way) and `lossy`. All values are
such as the firmware accepts, and limits are those of one joint. Left out: requests that
time out while the writer is blocked, the recovery of a robot that answers but is in
SAFE, IMUON at the start, a jump of the clock in the stamp of the last restart. The
application when an intent enters a mode from 3 to 5 is the same as a page's.

## 3. Runs

All of them hold.

| Run | Question |
|---|---|
| `core_estop` | torque, watchdog, trajectories and the way out of SAFE under every interleaving of E-STOP, STOP, SAFE, ENABLE, HOME, frames and ticks; E-STOP held: torque off for good; silent link: torque off again and again |
| `core_stream` | consent, ENABLE, HOME, user button, mode switches, silence; `TorqueGate` |
| `vr_pipeline` | latches of the pipeline, release of the grips, head reference |
| `notify` | the Pi's view of the E-STOP, apart from missed edges |
| `spi_link` | wake-ups, order, mixtures, losses, replies, recovery of the SPI link |
| `setpose` | no mixture of two trajectories; only HOME relaxes the wrist |
| `uart_calls` | own replies; the queue moves on after a loss |
| `self_test` | no demo step after its STOP; the demo ends; the self test samples an arm at rest in its pose, and ends |
| `head_mode` | no pressed grips without a loop that releases them; HEAD ends when asked |
| `joint_stream` | the arm follows the stream only for the time of a frame after its consent ought to have ended; such a consent ends |
| `imu_telemetry` | no mixed frame; nothing from before IMUOFF after it; validity backed by telemetry; IMUOFF shown in the end |
| `server_config` | firmware and files agree at rest; no setting reverts; no factory values for good; a blocked writer ends with the process |

*Bounds.* The properties depend on orders, not on sizes, so that the periods only
have to be large enough to be crossed: a debounce of 2 samples has a partial window
and a complete one; a watchdog period of 2 ticks has ticks with a check and
without; a frame timeout of 1 tick lets a frame be fresh, at the limit and
stale, and a heartbeat modulo 2 wraps. Three UART calls are one being served,
one queued and one that comes late; a recovery every second failure lets a streak
build up and reset. Four trajectory requests are two in the main thread and two of
the button, which is every pair of writers and a successor. `core_estop` has no
joint stream and no user button, `core_stream` neither STOP nor SAFE from the UART,
which keeps each within a minute; the proofs have all of them together. `FreezeAfter = 1` has a tick before the limit, at
it and past it. `vr_pipeline` has the four kinds of mode the pipeline treats
differently: no actuation, manual, head, stream. `spi_link` sends three frames (in
transfer, pending, in the tail), which is all the link holds at once; sequence numbers
modulo 4, starting at 3, so that they wrap, or, under v2, which tracks them, at 1, so
that a restart of the Pi steps back by half the range; one fault, which is a stop, a failed start or a corrupted
frame; and one restart of the Pi between two frames.

`self_test` has two connections: an operator, and the tester's, which serves a second
operator while no test runs; one demo or test, two more commands, one fault of any kind.
The test has one pose besides HOME and `home_ref` and one wrist joint, which is each of its
loops once. `head_mode` has two of what may overlap. `joint_stream` has every limit
of the protocol at one exchange, so that each is crossed, and two positions, so that a target
is another than the place of the arm; the theorem (section 5) is for all limits.
A consent given on late telemetry after a silence that made the firmware SAFE, and a new
intent that made it IDLE again, is accepted by the code and by the property.
`imu_telemetry`: two reports fill both buffers; `ValidBacked` is stated for the debounce of 2 that the
code has, or less. `server_config`: two tasks of a kind
and two changes can overtake each other in every way; a poll limit of 2 (5 in the
code) has a failure that is forgiven and one that is not.

*Deadlock* is not checked in `uart_calls`, `self_test`, `head_mode` and `imu_telemetry`, where
the system rests when nobody asks for anything any more or the bounds are used up; it is
checked in all the others.

*Fairness.* `core_estop`: weak fairness of the two halves of the tick. TIM6 releases
the thread each millisecond, the semaphore wait times out after two if the timer
stops (`rt_loop.c:795-858`), and nothing has a higher priority. Nothing is assumed of
the Pi, the commands or the button. `notify`: the tick as above, and the main loop, which polls after every
10 ms sleep (`main.c:55-60`) on a processor that is idle between ticks. `uart_calls`:
the writer thread, the event loop's timers and the clock go on; nothing is assumed of
the reader, the line or the firmware. `spi_link`: the service thread goes on, its wait
included (it ends by an event or after 3 s); nothing is assumed of the Pi, and a start
of the DMA may fail, but not for ever. `self_test`: the event loop runs what is ready, the
UART is served unless it is blocked, trajectories end, time limits and pauses expire;
nothing is assumed of the operators. `head_mode`: handlers and loops go on. `joint_stream`:
the timer of the node, or the plugin's cycle, or else time, goes on; frames and telemetry
may all be lost. `imu_telemetry`: the threads run, time passes and a page stays open
(strong fairness, since it is told at its own period). `server_config`: tasks and HTTPS
threads go on, the UART is served, the poll goes on, and systemd starts the server
again.

## 4. Where the code and its documentation disagree

The models show these directly. A property that excepts one is named.

Firmware:

* `README.md:34` says a stale intent cannot re-arm the arm, because SAFE is left only
  after the heartbeat has advanced since it was entered. The STOPPED barrier
  (`rt_loop.c:337-343`) returns before `rt_prev_state` is updated: SAFE, E-STOP pressed and
  released, SAFE by command is not seen as an entry, and the first fresh frame re-arms the
  arm. `SeenEntryNeedsHeartbeat`, which holds, is the property for the entries that are
  seen.
* A tick in SAFE that has just set IDLE leaves `rt_prev_state` at SAFE; SAFE commanded
  before the next tick finds `auto_transition_done` set and no entry that would reset it:
  the automatic way out stays shut, against the comments at `rt_loop.c:257` and `368-369`.
* Stream ticks do not update `last_mode`; back in the same head mode the calibration is
  not reset, against `rt_loop.c:614-615` (`HeadReferenceKept` speaks of what the pipeline saw).
* `estop_notify_poll` clears a flag it has read as lowered (`estop.c:199-206`); the edge
  between is never sent and the Pi keeps the other token, against the comment at
  `estop.c:195-197` (`missed` in `ConsistentUnlessMissed`).
* `state_machine.h:23-26` says only a hardware reset leaves STOPPED; the UART commands
  SAFE and RESET do (`uart_control.c:314-316`; `ForceState` in `SafetyCore`).
* `SPI_PROTOCOL_V2.md:118` says the servos are disabled in the stream without consent.
  They are cut once per withdrawal (`rt_loop.c:290-297`); HOME after that gives torque
  back and the stream leaves it. `NoConsentNoTorque` excepts exactly this torque.
* "DEARM immediato" (`rt_loop.c:530`) when movement is not allowed sits in the IDLE
  branch, where movement is always allowed: the pipeline stays armed in SAFE and STOPPED
  by UART, as no action of `VrPipeline` but `EstopEngages` and `StreamStep` disarms it
  outside the pipeline.
* `j5vr_setpose.c:230-231` says that the writers clear `active` through a volatile
  pointer; `j5vr_go_setpose` does not (line 443), so a build may drop that store
  (`StoreKept` in `SetPose`).
* A tick between the two stores of `j5vr_reset_head_calib` leaves the identity as a
  calibrated reference, against `j5vr_head.c:221`. `HeadReferenceKept` excepts it.
* Modes 3 and 4 actuate on the deadman alone (`rt_loop.c:710-717`), also when the
  pipeline is not armed, and that torque stays after the grips are released, because the
  disable latch is already set; `rt_loop.c:568` excepts only modes 2 and 5. Hence
  `ReleaseCutsTorque` speaks of torque given while armed.
* A restart of the Pi whose new sequence numbers are half the range or more behind is
  counted as up to 32767 lost frames; the comment at `hal_spi_slave.c:685` says a restart
  is no loss. `GapsCountLosses` speaks of one run of the Pi.
* A restart of the DMA does not clear `pending_mask`. Under v1 the tail of a half from
  before it may be completed by bytes from after it, and the mixed setpoint is applied
  (`carried` in `NoMixture`).
* With both halves pending, half 0 is served first though it may be the newer one
  (`hal_spi_slave.c:250-256`): the older frame is then applied last (`overrun` in
  `InOrder`).
* After a restart in the middle of a transfer a J5VR in the tail wins over the newer
  J5IK in the half, and with frames at byte 1 every frame is handled one transfer late
  (`AnswersRecent` allows it).
* `imu.c:41` calls the orientation valid when its data are fresh; a sensor that stops
  leaves it valid for ever. A publication under way when IMUOFF comes sets the flags again
  after it, against the comment at `imu.c:228-231`; the readings being off, no valid frame
  shows it (`OffForgets`).

Server and ROS 2:

* `uart_manager.py:34-36` says the margin lets the writer time out before its caller. The
  deadline is on one clock and the comparison on another (208-209 against 232): with the
  wall clock set the writer never times out, and one lost reply blocks every later
  command, until the poll has the server restarted (`LinkComesBack`).
* `ws_handlers_uart.py:1442` says the RELAX flag is consumed exactly at the end of the
  HOME trajectory. Any `SETPOSE_DONE` consumes it, that of a command that overtook HOME in
  the queue included; the HEADZERO after TELEOPPOSE likewise.
* `HW_TEST_PLAN.md:52` expects a closed VR page to leave a frozen intent. In HEAD mode
  the loop, which a disconnection does not stop (`ws_handlers_intent.py:354-366`,
  `ws_server.py:1056-1067`), goes on with the grips pressed and a heartbeat that advances.
* `ws_server.py:1017-1019` says HEAD is left by `set_vr_mode` only; a manual intent stops it at
  1038-1042. Two starts that overlap leave a loop nobody refers to, a stop is lost while
  another's settings are applied, and the second waiter on a cancelled loop loses its
  connection (`exclusive` in `LeaveEndsHead`).
* `jonny5_system.cpp:194` says the activation starts from where the arm is. The first
  telemetry may be the reply loaded before the plugin went down; if the arm has moved
  and is in IDLE by then, the first command is the old position.
* `ROS2_CONTROL.md:60` says the consent is withdrawn at once if the firmware leaves IDLE, and
  `spi_driver_node.py:385-387` that without state there is no stream. Both masters
  withdraw it on what telemetry says, or on silence longer than a limit (0.5 s in the node). A SAFE and
  ENABLE, or a short SETPOSE, within that time and all of whose telemetry is lost goes
  unnoticed, the consent survives it, and the arm goes back to following the stream; when
  it is noticed, the firmware obeys the last frame for the rest of its validity
  (`away` and `overdue` in `FollowsConsentOnly`).
* `ws_handlers_uart.py:1052` calls the offsets in the settings the only source both HOMEs
  use. `save_settings` changes them without telling the firmware; a sync that overlaps
  `apply_offsets` leaves the old ones in the firmware and the new ones in the file (`doubt`
  in `AgreesAtRest`).
* `https_server.py:868-869` says a partial save does not undo another part. Two POSTs that
  overlap do (`NothingReverts` excepts them).

Behaviour worth knowing, that no document denies:

* An ENABLE given up by its caller is executed later; a STOP of another operator between
  two steps of the ENABLE recovery, or of the modal test, is undone by the next step; a
  demo may start while the self test runs; any `SETPOSE_DONE` wakes a demo's step; a
  `SETPOSE_DONE` that comes before the demo's event is made is lost and the demo ends
  after 10 s; demo, auto-home and hold are not clamped to the joint limits.
* The self test takes any `SETPOSE_DONE` for its own and does not look at the answer to
  SAFE; a trajectory of length zero may end before its answer (a spurious time-out); a
  STOP during the last sampling leaves a bad sample in a test that completes
  (`upset`); a slow HOME (some 4 degrees per second and less) may exceed its 20 s; the
  HOME reference is taken with the wrist released by RELAX_DIGITAL.
* An application of the VR settings delayed by a failed attempt overwrites a newer one;
  pages ask for one each time they connect (`ws_dashboard.js:407`, `imu_vr.js:746`). Offsets
  and PWM are sent once: a lost request, or a garbled `BOOT_READY`, leaves factory values
  (`lossy` in `FactoryNeverStays`).
* While IMUOFF holds, a report number of 0 modulo 2^24 keeps the validity on the Pi;
  repeated replies keep the telemetry file fresh (without limit under v2), and
  `assist_v2_raw` does not look at the switch.

## 5. Proofs

`SafetyCoreProofs` proves, for every value of the constants that satisfies
`EstopAssumption` and `SafetyAssumption` (periods positive, sets within their types):
`Inductive` (`IInv`), `TypeCorrect`, `EstopKeepsTorqueOff`, `SilenceIsBounded`,
`NoMotionAfterStop`, `TorqueNeedsIdle`, `ConsentHolds`, `RearmAfterHeartbeat` and
`ImplementsGate`.

The invariant `IInv` adds five facts to the types and to `EstopTorqueOff`:

* `EstopInv`: a tick that has polled an active E-STOP runs its step in STOPPED. Without
  it `EstopTorqueOff` is not inductive, because ENABLE may overwrite STOPPED between
  two ticks and the step would drive the servos in IDLE.
* `WatchdogInv`: the consecutive steps in IDLE with a silent link are no more than the
  ticks since the last check. A check that finds silence ends elsewhere than in IDLE
  (`WatchdogActs`), so the count is zero when the counter wraps, and the bound follows
  from the range of the counter.
* `TrajectoryInv`: a trajectory accepted before a STOPPED is held by STOPPED, or is in
  the window between SAFE's store and SAFE's abort; a main thread in that window is
  not about to store IDLE, since there is one main thread. This is what excludes SAFE
  followed by ENABLE with a trajectory still active.
* `EntryInv`: in a SAFE seen as an entry the tick has still to take its heartbeat latch,
  or the latch holds the present heartbeat, until a frame moves it.
* `ConsentInv`: the stream's torque-off latch is up only while what torque there is came
  from a trajectory; the stream cuts the torque when it raises the latch, and every
  other way to torque lowers it.

The proof has a lemma per thread and, for `rt_loop_step`, a lemma on which branch runs
(`StepStateCases`) and one each on silence and on types. `NoMotionAfterStop`,
`TorqueNeedsIdle`, `ConsentHolds` and `RearmAfterHeartbeat` are action properties that
follow from the invariant on one step.
`ImplementsGate` maps every step of `SafetyCore` to a step of `TorqueGate` or a stutter:
trajectory steps, stream steps with consent and pipeline steps with the deadman to
`Energise`, all the others to `KeepOrCut`.

`VrPipelineProofs` proves, from `PipelineAssumption` (modes within 0 .. 6, any freeze
time), `Inductive`, `ReleaseCuts`, `HeadKept`, `StaysWithinDeadman` and
`ImplementsGate`. The tick
that finds the grips released cuts the torque only if the disable latch is down, so the
invariant (`LatchInv`) follows the latch: it is down while the pipeline is armed and as
long as torque given while armed is there, and torque given by the stream does not
outlive the first tick outside the stream. `HeadInv` does the same for the head: a
calibrated head has the visor as reference with no reset pending, and in a head mode
was calibrated in that mode. `StaysWithinDeadman` with the theorems about
`SafetyCore` covers the real pipeline, since `SafetyCore` proves its properties for all
that its open `VrPipeline` may do.

`SpiLinkProofs` proves, from `LinkAssumption` (an even range of sequence numbers, any
bounds), `Inductive`, `TypeCorrect`, `NothingMissed` and `AppliedInOrder`. That the
order of application is right rests on where frames are on their way, as long as no
half was filled too early: the frame that fills a half is newer than all others and its
half is free (`FillInv`); what waits is newer than what was applied and than the tail,
and at most one half waits besides the one served (`QueueInv`); and a frame that the
next window shows again is the one the mark stands for, or was never applied
(`TailInv`). The last is why a restart has to drop the tail together with the mark.

A second part, `LinkInductive`, adds what `WholeFrames` (`NoMixture`), `RepliesRecent`
(`AnswersRecent`) and `LossesCounted` (`GapsCountLosses`) need. `RunInv` describes what one
run of the DMA leaves behind, as long as no half was filled too early and no restart found
one pending: the last frame completed, the half being filled and the tail are consecutive
frames, so that a window continues the one before (`ChainInv`), their bytes are the ones
that were sent (`BytesInv`), and the last frame is answered once its half has been
processed (`AnswerInv`). `NoMixture` under v2 needs none of it, because of the CRC. For the
losses, `CountInv` relates the numbers of any two headers of one run of the Pi that are
less than the range apart (`CountsOn`), and `TrackInv` says that no header older than the
one tracked can be found again.

`ImuTelemetryProofs` proves, from `ImuAssumption`, `Inductive`, `TypeCorrect`, `FrameSound`
(`DoubleBufferIsSafe`), `OffForgets` (`NothingReused`) and `ValidBacked` (`GraceIsBounded`). That the
unprotected copy is safe needs that the buffer being copied is the active one unless the
IMU thread has published since, and that a publication goes to the other (`CopyInv`); that
nothing old comes back needs that, once IMUOFF has lowered the snapshot flag, only a report
newer than it raises the flag again (`OffInv`, with the order of report numbers in
`CountInv`). `AgeInv` bounds the age of what is in the file by that of the file plus the
grace period, and says what the debounce remembers.

`HandoverProofs` proves, from `EstopAssumption`, `Inductive`, `TypeCorrect` and
`ConsistentUnlessMissed` (`LastTokenCurrent`) of `EstopNotify`. `PollInv` says, for each place of
the poll, what it has read and cleared so far and which token it is about to send; it needs
that one tick at most falls into the group of accesses. About `SetPose` it proves, for any
number of requests and every set of builds, `SetPoseInductive`, `SetPoseTypes`, `WholeTrajectory`
(`TrajectoryIsWhole`) and `RelaxOnlyHome` (`RelaxesForHome`): unless the button has crossed it,
a request finds at each place that the fields filled so far are its own (`FillingInv`), that
nothing is active meanwhile if the build kept the first store (`ActiveInv`), and that a
relaxation wanted is a HOME's (`RelaxInv`).

`ConsentProofs` proves, from `HeadModeAssumption`, for any number of
connections and loops, `TypeCorrect` and `ReleasedWithoutLoop` (`GripsNeedLoop`), which is
inductive with the types. From `JointStreamAssumption` (limits that are natural numbers, in
any proportion) it proves `StreamInductive`, `StreamTypes` and `FollowsConsentOnly`
(`StreamNeedsConsent`). While the consent stands, telemetry that does not tell of the
firmware's absence is older than it but for the two exchanges a report takes (`ReportInv`); so a
consent that ought to have ended is withdrawn at the next exchange, and the frame that goes
on being obeyed is at least as old as that (`OverdueInv`).

`UartProofs` proves three groups of theorems. `Inductive`, `TypeCorrect`, `OwnReply`
(`RepliesAreOwn`) and the refinement of `UartQueue` (`ManagerIsQueue`) of `UartManager`, from `UartAssumption`: a line with the number being served can
only be about the call being served (`EveryLineMatches`), because the counter has been drawn
once per call taken from the queue (`CallsCounted`) and does not come round. The last is the
assumption `SeqMax >= Cardinality(Calls)`: the numbers of the code wrap after 65535
(`uart_manager.py:172-175`), and a reply that 65535 later commands overtook would pass for
another's; nothing in the code excludes it but the time that takes. For the refinement, each way the writer
has of finishing is one `Serve` of the queue (`FinishServes`), a call and a caller that gives up are
`Ask` and `GiveUp`, and all other steps, the writer's taking of a request included, are stutters.

`StopEndsDemo` (`StopIsFinal`) is about `WsUart` as part of `SelfTest`, for any number of operators,
commands, demos and faults, with or without a writer that blocks. The invariant `DemosInv`
follows the requests: a task has at most one request of its own in the queue and waits for
what its step asked (`TaskInv`, `QueueInv`); as long as the stop event is not set nobody has
asked for the end of the demo that runs (`RunningInv`); hence a step of a demo that waits in
the queue stands before everything that could end it (`DemoInv`), and is executed before.

`SampledAtRest` (`SampledArmRests`) is the third, with `RestInductive` and `SelfTestTypes`. Any
`SETPOSE_DONE` is the test's own, so what has to be shown is where the arm is at each of the moments
at which one may be taken (`DoneInv`). From the answer to its SAFE on, only the test moves the arm, or
else `upset` is set (`AloneInv`), so a trajectory that ends leaves the arm at the test's pose. An
event left from before is harmless: the main loop of the firmware looks for a finished trajectory
after each command, so that before HOME is executed what was left has been sent, and after SETPOSE has
been there is nothing else to report. `ConnectionInv` says that the test has one request under way, for
what its position says; without it the answer to one command could be counted as that to the next.

`ServerConfigProofs` proves, from `ServerConfigAssumption`, `Inductive`, `TypeCorrect`, `AgreesAtRest`
(`AgreementAtRest`) and `NothingReverts` (`NoOldVersion`), for any number of pages, HTTPS threads, saves and
faults. The event loop resumes the tasks in the order in which the UART answers them, so of all that
will still write a setting the last in that order decides, and it writes what the file holds or will
hold (`Agrees`, with the limits that follow the parameters and `apply_offsets`, which writes the file
last, as cases of their own). The exceptions are the settings in doubt that nobody is about to settle
(`Unsettled`); a task that repeats a request (`RepeatInv`) and a request whose caller is gone (`GoneInv`) leave
theirs so. `FileInv` gives the order of versions for `NothingReverts`: a POST that no other overlaps
writes back what it has read.

Every invariant and action property that a run checks is a theorem. Only model-checked: the
liveness properties (`PressStops`, `SilenceStops`, `PiSettles`, `QueueMoves`, `LinkRecovers`, `StopFreesDemo`,
`TestEnds`, `LeaveEndsHead`, `ConsentEnds`, `OffShown`, `FactoryNeverStays`, `LinkComesBack`), since the
proof system does neither fairness nor ENABLED.

## 6. Plan

What is left, in this order:

1. Proofs: the safety half of the liveness properties, that is, that what they wait for stays
   possible (a demo asked to end never sends again; a blocked writer stays noticed by the poll).
2. `UartLine`: the firmware's line parser with overflow, and the protocol above
   it composed with `UartManager`.
3. Pure operators: servo limits and PWM arithmetic, sequence comparison, frame
   encoding and decoding.

## 7. Not modelled

Floating-point numerics (IK, quaternions, motion profiles, head assist), the packets of
the IMU driver, the hardware watchdog and the recording of fatal errors, video, network and
PoE parameters, the web pages, launch and MoveIt configuration, simulation, offline
analytics and audit scripts. The pick-and-place outputs are two PWM outputs without
state, compiled only for the board that has no E-STOP. The wake-up tap of the
trajectories is compiled out.
