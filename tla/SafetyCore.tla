----------------------------- MODULE SafetyCore -----------------------------
(***************************************************************************)
(* The safety core of the STM32 firmware: the SAFE / IDLE / STOPPED state  *)
(* machine and everything that writes it.                                  *)
(*                                                                         *)
(*   - the real-time thread: a 1 kHz tick runs estop_poll_tick and then    *)
(*     rt_loop_step (SPI watchdog, STOPPED barrier, trajectory tick, SAFE  *)
(*     with its automatic way out, IDLE with the VR pipeline or the joint  *)
(*     stream, user button);                                               *)
(*   - the main thread: UART commands, several steps each;                 *)
(*   - the SPI service thread: a valid frame publishes a new intent.       *)
(*                                                                         *)
(* The MCU has one core and the real-time thread has the highest priority  *)
(* of the three, so no other thread runs inside a tick, while a tick may   *)
(* fall between any two steps of a command.  A tick is two actions here,   *)
(* and rt = "step" keeps the others out between them.                      *)
(*                                                                         *)
(* Time is counted in ticks.  What the VR pipeline does to the servos is   *)
(* left open within the bound the deadman gives (see VrPipeline); the data *)
(* of a trajectory and how long it lasts are left open too.                *)
(***************************************************************************)
EXTENDS Estop

CONSTANTS
  WatchdogPeriod,  (* ticks between two watchdog checks (100)              *)
  FrameTimeout,    (* SPI_FRAME_TIMEOUT_MS in ticks (500)                  *)
  StreamTimeout,   (* J5IK_STREAM_TIMEOUT_MS in ticks (100)                *)
  HbMod,           (* modulus of the VR heartbeat (2^16)                   *)
  VrModes,         (* modes a J5VR frame may carry, part of 0 .. 5         *)
  StreamFrames,    (* consent values a J5IK frame may carry; {} for none   *)
  Commands,        (* UART commands the Pi may send                        *)
  Buttons          (* may the user button be pressed                       *)

JOINT_STREAM == 6                               (* J5_MODE_JOINT_STREAM    *)
FsmStates == {"SAFE", "IDLE", "STOPPED"}        (* system_state_t          *)
MotionCommands == {"ENABLE", "HOME"}            (* refused while the E-STOP is active *)
AllCommands == MotionCommands \cup {"STOP", "SAFE"}

ASSUME SafetyAssumption ==
       /\ WatchdogPeriod \in Nat \ {0}
       /\ FrameTimeout \in Nat
       /\ StreamTimeout \in Nat
       /\ HbMod \in Nat \ {0}
       /\ VrModes \subseteq 0 .. 5
       /\ StreamFrames \subseteq BOOLEAN
       /\ Commands \subseteq AllCommands
       /\ Buttons \subseteq BOOLEAN /\ Buttons # {}

VARIABLES
  fsm,       (* current_state                                              *)
  rt,        (* where the real-time thread is: "sleep", or "step" between  *)
             (* estop_poll_tick and rt_loop_step of the same tick          *)
  wd,        (* g_rt_loop_ticks modulo WatchdogPeriod                      *)
  age,       (* ticks since the last valid frame, FrameTimeout + 1 = more  *)
  mode,      (* g_j5vr_latest.mode                                         *)
  hb,        (* g_j5vr_latest.vr_heartbeat                                 *)
  grips,     (* both grips held in the last J5VR frame (the deadman)       *)
  consent,   (* last J5IK frame: valid, and STREAM_ENABLE set              *)
  ikAge,     (* ticks since the last J5IK frame, StreamTimeout + 1 = more  *)
  rtPrev,    (* rt_prev_state                                              *)
  autoDone,  (* auto_transition_done                                       *)
  entryHb,   (* safe_entry_heartbeat                                       *)
  streamPrev,    (* stream_mode_prev                                       *)
  streamOff,     (* stream_servos_off                                      *)
  streamActive,  (* g_j5ik_stream_active                                   *)
  servoOn,   (* some servo channel has a non-zero pulse                    *)
  spActive,  (* g_setpose_state.active                                     *)
  pc,        (* the main thread: step of the command being processed       *)
  cmd,       (* the command being processed                                *)
  ticked     (* a tick has run since the current UART reply began          *)

(* History: read by no action, used to state properties.                   *)
VARIABLES
  hbMoved,    (* the heartbeat has changed since fsm last became SAFE      *)
  entrySeen,  (* rt_prev_state was not SAFE when fsm last became SAFE      *)
  silentIdle, (* consecutive steps that ended in IDLE with a silent link   *)
  halted,     (* fsm was STOPPED since the last motion command's check     *)
  homed       (* some of the torque is a trajectory's                      *)

rtVars     == <<rtPrev, autoDone, entryHb, streamPrev, streamOff, streamActive>>
frameVars  == <<mode, hb, grips, consent>>
clockVars  == <<wd, age, ikAge>>
mainVars   == <<pc, cmd, ticked>>
entryVars  == <<hbMoved, entrySeen>>
ghostVars  == <<entryVars, silentIdle, halted, homed>>
vars == <<line, estopOk, deb, cnt, fsm, rt, servoOn, spActive,
          wd, age, ikAge, mode, hb, grips, consent,
          rtPrev, autoDone, entryHb, streamPrev, streamOff, streamActive,
          pc, cmd, ticked, hbMoved, entrySeen, silentIdle, halted, homed>>

Steps == {"ready", "gate", "exec", "abort", "setIdle", "reply", "launch"}

TypeOK ==
  /\ EstopTypeOK
  /\ fsm \in FsmStates /\ rtPrev \in FsmStates
  /\ rt \in {"sleep", "step"}
  /\ wd \in 0 .. WatchdogPeriod - 1
  /\ age \in 0 .. FrameTimeout + 1
  /\ ikAge \in 0 .. StreamTimeout + 1
  /\ mode \in 0 .. 6
  /\ hb \in 0 .. HbMod - 1 /\ entryHb \in 0 .. HbMod - 1
  /\ grips \in BOOLEAN /\ consent \in BOOLEAN
  /\ autoDone \in BOOLEAN
  /\ streamPrev \in BOOLEAN /\ streamOff \in BOOLEAN /\ streamActive \in BOOLEAN
  /\ servoOn \in BOOLEAN /\ spActive \in BOOLEAN
  /\ pc \in Steps /\ cmd \in AllCommands /\ ticked \in BOOLEAN
  /\ hbMoved \in BOOLEAN /\ entrySeen \in BOOLEAN
  /\ halted \in BOOLEAN /\ homed \in BOOLEAN
  /\ silentIdle \in 0 .. WatchdogPeriod - 1

(* Boot: SAFE, PWM off, no frame received yet (its age reads as infinite). *)
Init ==
  /\ EstopInit
  /\ fsm = "SAFE" /\ rtPrev = "SAFE"
  /\ rt = "sleep"
  /\ wd = 0
  /\ age = FrameTimeout + 1
  /\ ikAge = StreamTimeout + 1
  /\ mode = 0 /\ hb = 0 /\ entryHb = 0
  /\ grips = FALSE /\ consent = FALSE
  /\ autoDone = FALSE
  /\ streamPrev = FALSE /\ streamOff = FALSE /\ streamActive = FALSE
  /\ servoOn = FALSE /\ spActive = FALSE
  /\ pc = "ready" /\ cmd = "STOP" /\ ticked = FALSE
  /\ hbMoved = FALSE /\ entrySeen = TRUE
  /\ silentIdle = 0 /\ halted = FALSE /\ homed = FALSE

Older(a, limit) == IF a > limit THEN a ELSE a + 1

(***************************************************************************)
(* History bookkeeping, in terms of the step being taken.                  *)
(***************************************************************************)
BecomesSafe == fsm # "SAFE" /\ fsm' = "SAFE"
TrackSafeEntry ==
  /\ hbMoved' = (hbMoved /\ ~BecomesSafe)
  /\ entrySeen' = IF BecomesSafe THEN rtPrev # "SAFE" ELSE entrySeen
TrackHeartbeat == hbMoved' = (hbMoved \/ hb' # hb)
TrackHalt == halted' = (halted \/ fsm' = "STOPPED")

-----------------------------------------------------------------------------
(***************************************************************************)
(* The real-time thread.                                                   *)
(***************************************************************************)

(* Fault: the latch is not renewed while the button stays active. *)
EngagesOnEdgeOnly == deb' /\ Edge

(* estop_poll_tick, with estop_engage when it fires: on a rising edge, and *)
(* again whenever the state has been moved away from STOPPED while the     *)
(* button is active.                                                       *)
Engages == deb' /\ (Edge \/ fsm # "STOPPED")

EstopPollTick ==
  /\ rt = "sleep"
  /\ rt' = "step"
  /\ SampleLine
  /\ fsm' = IF Engages THEN "STOPPED" ELSE fsm
  /\ servoOn' = (servoOn /\ ~Engages)
  /\ spActive' = (spActive /\ ~Engages)
  /\ age' = Older(age, FrameTimeout)
  /\ ikAge' = Older(ikAge, StreamTimeout)
  /\ homed' = (homed /\ servoOn')
  /\ TrackSafeEntry /\ TrackHalt
  /\ UNCHANGED <<wd, frameVars, rtVars, mainVars, silentIdle>>

(* Fault: only the joint stream is watched. *)
StreamSilent == age > FrameTimeout /\ mode = JOINT_STREAM

(* hal_spi_last_frame_age_ms() > SPI_FRAME_TIMEOUT_MS.                     *)
LinkSilent == age > FrameTimeout

(* The watchdog runs on every WatchdogPeriod-th tick; StepState is the     *)
(* state the rest of rt_loop_step sees.                                    *)
NextWd == (wd + 1) % WatchdogPeriod

(* Fault: a running trajectory hides the silence. *)
TripsUnlessMoving == NextWd = 0 /\ fsm = "IDLE" /\ LinkSilent /\ ~spActive

WatchdogTrips == NextWd = 0 /\ fsm = "IDLE" /\ LinkSilent
StepState == IF WatchdogTrips THEN "SAFE" ELSE fsm

(* STOPPED barrier: torque off and an early return, before rt_prev_state   *)
(* is updated.                                                             *)
StoppedStep ==
  /\ StepState = "STOPPED"
  /\ fsm' = "STOPPED"
  /\ servoOn' = FALSE
  /\ streamActive' = FALSE /\ streamPrev' = FALSE
  /\ UNCHANGED <<spActive, rtPrev, autoDone, entryHb, streamOff, halted>>

(* The user button, at the end of a full step: HOME if the state is IDLE   *)
(* (by then no trajectory is active).                                      *)
ButtonHome ==
  \E pressed \in Buttons :
     /\ spActive' = (pressed /\ fsm' = "IDLE")
     /\ halted' = (halted /\ ~spActive')

(* case STATE_SAFE: trajectory aborted, torque off; on entry the heartbeat *)
(* is latched, and SAFE is left for IDLE when frames are fresh and the     *)
(* heartbeat differs from the latched one, except in the joint stream.     *)
EnteringSafe == rtPrev # "SAFE"

(* Fault: the heartbeat is not latched when SAFE is entered. *)
HeartbeatAtBoot == entryHb
LatchedHb == IF EnteringSafe THEN hb ELSE entryHb
AutoPending == EnteringSafe \/ ~autoDone
HeartbeatRearms ==
  /\ ~LinkSilent
  /\ hb # LatchedHb
  /\ mode # JOINT_STREAM
  /\ mode # 0 \/ hb > 0
  /\ AutoPending

SafeStep ==
  /\ StepState = "SAFE"
  /\ fsm' = IF HeartbeatRearms THEN "IDLE" ELSE "SAFE"
  /\ entryHb' = LatchedHb
  /\ autoDone' = (HeartbeatRearms \/ ~AutoPending)
  /\ rtPrev' = "SAFE"
  /\ servoOn' = FALSE
  /\ streamActive' = FALSE /\ streamPrev' = FALSE
  /\ ButtonHome
  /\ UNCHANGED streamOff

(* Fault: a trajectory goes on outside IDLE. *)
SetposeTickInSafe ==
  /\ StepState # "STOPPED" /\ spActive
  /\ fsm' = StepState
  /\ servoOn' = TRUE
  /\ spActive' \in BOOLEAN
  /\ UNCHANGED <<rtVars, halted>>

(* j5vr_setpose_tick while a trajectory is active: all six servos are      *)
(* driven and the rest of the step, rt_prev_state included, is skipped.    *)
SetposeTick ==
  /\ StepState = "IDLE" /\ spActive
  /\ fsm' = "IDLE"
  /\ servoOn' = TRUE
  /\ spActive' \in BOOLEAN               (* FALSE when the profile is over *)
  /\ UNCHANGED <<rtVars, halted>>

(* Fault: the stream trusts its frames to stop when consent is withdrawn. *)
StreamWithoutConsent ==
  /\ mode = JOINT_STREAM
  /\ streamPrev' = TRUE
  /\ streamActive' = (ikAge <= StreamTimeout)
  /\ streamOff' = FALSE
  /\ servoOn' = TRUE

(* rt_joint_stream_step: no consent, torque off once; stale frames, hold;  *)
(* otherwise the target is applied, and a servo that has to move is        *)
(* energised.                                                              *)
StreamFresh == ikAge <= StreamTimeout
JointStream ==
  /\ mode = JOINT_STREAM
  /\ streamPrev' = TRUE
  /\ streamActive' = (consent /\ StreamFresh)
  /\ streamOff' = IF consent THEN streamOff /\ ~StreamFresh ELSE TRUE
  /\ \/ ~consent /\ servoOn' = (servoOn /\ streamOff)
     \/ consent /\ servoOn' = servoOn
     \/ consent /\ StreamFresh /\ servoOn' = TRUE

(* Fault: the torque-off latch of the stream survives the VR modes. *)
VrPipelineKeepsLatch ==
  /\ mode # JOINT_STREAM
  /\ streamPrev' = FALSE /\ streamActive' = FALSE /\ streamOff' = streamOff
  /\ \/ servoOn' = FALSE
     \/ servoOn' = (servoOn /\ ~streamPrev)
     \/ servoOn' = TRUE /\ grips /\ mode \notin {0, 1}

(* Every other mode: leaving the stream turns the torque off; then the VR  *)
(* pipeline may turn it off, and may drive the servos only with the        *)
(* deadman held in a mode that actuates (not 0 and not 1).                 *)
VrPipeline ==
  /\ mode # JOINT_STREAM
  /\ streamPrev' = FALSE /\ streamActive' = FALSE /\ streamOff' = FALSE
  /\ \/ servoOn' = FALSE
     \/ servoOn' = (servoOn /\ ~streamPrev)
     \/ servoOn' = TRUE /\ grips /\ mode \notin {0, 1}

IdleStep ==
  /\ StepState = "IDLE" /\ ~spActive
  /\ fsm' = "IDLE"
  /\ rtPrev' = "IDLE"
  /\ JointStream \/ VrPipeline
  /\ ButtonHome
  /\ UNCHANGED <<autoDone, entryHb>>

(* A trajectory drives the servos in this tick. *)
TrajectoryMoves == rt = "step" /\ spActive /\ StepState = "IDLE"

RtLoopStep ==
  /\ rt = "step"
  /\ rt' = "sleep"
  /\ wd' = NextWd
  /\ ticked' = TRUE
  /\ StoppedStep \/ SafeStep \/ SetposeTick \/ IdleStep
  /\ silentIdle' = IF fsm' = "IDLE" /\ LinkSilent THEN silentIdle + 1 ELSE 0
  /\ homed' = (servoOn' /\ (homed \/ TrajectoryMoves))
  /\ TrackSafeEntry
  /\ UNCHANGED <<estopVars, age, ikAge, frameVars, pc, cmd>>

-----------------------------------------------------------------------------
(***************************************************************************)
(* The SPI service thread: a valid frame refreshes the frame age and       *)
(* publishes its intent under the spin lock, in one step for the others.   *)
(***************************************************************************)
Advances(h) == h = hb \/ h = (hb + 1) % HbMod

FrameUnchanged ==
  UNCHANGED <<estopVars, fsm, rt, servoOn, spActive, wd, rtVars, mainVars,
              entrySeen, silentIdle, halted, homed>>

(* j5vr_parse_payload.                                                     *)
VrFrame ==
  /\ rt = "sleep"
  /\ mode' \in VrModes
  /\ hb' \in 0 .. HbMod - 1 /\ Advances(hb')
  /\ grips' \in BOOLEAN
  /\ age' = 0
  /\ TrackHeartbeat
  /\ UNCHANGED <<consent, ikAge>> /\ FrameUnchanged

(* j5ik_parse_payload: the grips keep the value of the last J5VR frame.    *)
IkFrame ==
  /\ rt = "sleep"
  /\ consent' \in StreamFrames
  /\ mode' = JOINT_STREAM
  /\ hb' \in 0 .. HbMod - 1 /\ Advances(hb')
  /\ age' = 0 /\ ikAge' = 0
  /\ TrackHeartbeat
  /\ UNCHANGED grips /\ FrameUnchanged

-----------------------------------------------------------------------------
(***************************************************************************)
(* The main thread: uart_process_command, preemptible between its steps.   *)
(***************************************************************************)
MainUnchanged ==
  UNCHANGED <<estopVars, rt, servoOn, clockVars, frameVars, rtVars,
              silentIdle, homed>>

Goto(from, to) == rt = "sleep" /\ pc = from /\ pc' = to

Receive(c) ==
  /\ Goto("ready", "gate")
  /\ cmd' = c
  /\ UNCHANGED <<fsm, spActive, ticked, entryVars, halted>> /\ MainUnchanged

(* The E-STOP gate at the head of the dispatcher ("ERR ESTOP_ACTIVE").     *)
EstopGate ==
  /\ Goto("gate", IF deb /\ cmd \in MotionCommands THEN "ready" ELSE "exec")
  /\ UNCHANGED <<cmd, fsm, spActive, ticked, entryVars, halted>> /\ MainUnchanged

(* STOP, and SAFE / RESET: the new state, then (a tick may fall between)   *)
(* j5vr_setpose_abort.                                                     *)
ForceState ==
  /\ Goto("exec", "abort")
  /\ cmd \in {"STOP", "SAFE"}
  /\ fsm' = IF cmd = "STOP" THEN "STOPPED" ELSE "SAFE"
  /\ TrackSafeEntry /\ TrackHalt
  /\ UNCHANGED <<cmd, spActive, ticked>> /\ MainUnchanged

(* Fault: STOP and SAFE leave the trajectory pending. *)
AbortForgotten ==
  /\ Goto("abort", "ready")
  /\ UNCHANGED <<cmd, spActive, fsm, ticked, entryVars, halted>> /\ MainUnchanged

AbortTrajectory ==
  /\ Goto("abort", "ready")
  /\ spActive' = FALSE
  /\ UNCHANGED <<cmd, fsm, ticked, entryVars, halted>> /\ MainUnchanged

(* ENABLE: state_machine_set_idle reads the state, then writes it.         *)
EnableChecks ==
  /\ Goto("exec", IF fsm = "SAFE" THEN "setIdle" ELSE "reply")
  /\ cmd = "ENABLE"
  /\ ticked' = FALSE
  /\ UNCHANGED <<cmd, fsm, spActive, entryVars, halted>> /\ MainUnchanged

EnableSetsIdle ==
  /\ Goto("setIdle", "reply")
  /\ cmd = "ENABLE"
  /\ fsm' = "IDLE"
  /\ ticked' = FALSE
  /\ TrackSafeEntry /\ TrackHalt
  /\ UNCHANGED <<cmd, spActive>> /\ MainUnchanged

(* HOME, PARK, TELEOPPOSE and SETPOSE*: the state is checked, "OK" is sent *)
(* (a busy-wait of more than one tick), then the trajectory is launched.   *)
HomeChecks ==
  /\ Goto("exec", IF fsm = "IDLE" THEN "reply" ELSE "ready")
  /\ cmd = "HOME"
  /\ ticked' = FALSE
  /\ halted' = (halted /\ fsm # "IDLE")
  /\ UNCHANGED <<cmd, fsm, spActive, entryVars>> /\ MainUnchanged

(* The reply has been sent; for a motion command j5vr_go_setpose begins,   *)
(* clearing the active flag before it fills the trajectory.                *)
ReplySent ==
  /\ ticked
  /\ \/ Goto("reply", "ready") /\ cmd = "ENABLE" /\ UNCHANGED spActive
     \/ Goto("reply", "launch") /\ cmd = "HOME" /\ spActive' = FALSE
  /\ UNCHANGED <<cmd, fsm, ticked, entryVars, halted>> /\ MainUnchanged

Launch ==
  /\ Goto("launch", "ready")
  /\ cmd = "HOME"
  /\ spActive' = TRUE
  /\ UNCHANGED <<cmd, fsm, ticked, entryVars, halted>> /\ MainUnchanged

UartCommand ==
  \/ \E c \in Commands : Receive(c)
  \/ EstopGate \/ ForceState \/ AbortTrajectory
  \/ EnableChecks \/ EnableSetsIdle \/ HomeChecks \/ ReplySent \/ Launch

ButtonMoves ==
  /\ rt = "sleep"
  /\ LineChanges
  /\ UNCHANGED <<fsm, rt, servoOn, spActive, clockVars, frameVars, rtVars,
                 mainVars, ghostVars>>

Next ==
  \/ EstopPollTick \/ RtLoopStep
  \/ VrFrame \/ IkFrame
  \/ UartCommand
  \/ ButtonMoves

Spec == Init /\ [][Next]_vars

(* TIM6 releases the real-time thread every millisecond, and its semaphore *)
(* wait times out after two if the timer stops; nothing outranks it.       *)
FairSpec == Spec /\ WF_vars(EstopPollTick) /\ WF_vars(RtLoopStep)

-----------------------------------------------------------------------------
(***************************************************************************)
(* Properties.                                                             *)
(***************************************************************************)

(* While the debounced E-STOP is active no servo is energised, whatever    *)
(* command, trajectory, frame or race with ENABLE came before; and once    *)
(* the tick is over the joint stream is not reported live either.          *)
EstopTorqueOff ==
  deb => ~servoOn /\ (rt = "sleep" => ~streamActive)

(* A tick leaves the servos energised only if it found IDLE and leaves     *)
(* IDLE: one tick after SAFE or STOPPED has been written by any thread the *)
(* torque is off.                                                          *)
TorqueOnlyInIdle ==
  [][rt = "step" /\ rt' = "sleep" /\ servoOn' => fsm = "IDLE" /\ fsm' = "IDLE"]_vars

(* A silent link never keeps the arm in IDLE for WatchdogPeriod ticks,     *)
(* even when ENABLE re-arms it over and over.                              *)
SilentLinkBounded == silentIdle < WatchdogPeriod

(* A trajectory never moves the arm after a STOPPED that came after its    *)
(* command had been accepted (no resumption of motion by STOP, E-STOP or   *)
(* the SAFE / ENABLE sequence that follows them).                          *)
NoStaleTrajectory == [][RtLoopStep /\ TrajectoryMoves => ~halted]_vars

(* In the joint stream, a tick without the consent of the last J5IK frame  *)
(* leaves no torque on, given in the stream or in a VR mode it has come    *)
(* back from: only a trajectory's (HOME while the stream is on the line).  *)
StreamTick == rt = "step" /\ rt' = "sleep" /\ fsm' = "IDLE" /\ mode = JOINT_STREAM
NoConsentNoTorque == [][StreamTick /\ ~consent => ~servoOn' \/ homed']_vars

(* SAFE is left automatically only after the VR heartbeat has changed      *)
(* since SAFE was entered: a stale last intent does not re-arm the arm.  No *)
(* run checks it, for a SAFE entered behind a STOPPED it does not hold.    *)
AutoRearms == rt = "step" /\ rt' = "sleep" /\ fsm = "SAFE" /\ fsm' = "IDLE"
RearmNeedsHeartbeat == [][AutoRearms => hbMoved]_vars

(* The same for every SAFE that rt_prev_state shows to be an entry, of any *)
(* origin: the heartbeat latched by the first tick in SAFE is that of the  *)
(* entry, however the frames, the E-STOP and the commands fall around it.  *)
SeenEntryNeedsHeartbeat == [][AutoRearms /\ entrySeen => hbMoved]_vars

(* Torque comes from IDLE and from a cause: a trajectory, the deadman in a *)
(* mode that actuates, or consent to the joint stream.                     *)
Gate == INSTANCE TorqueGate WITH
  Causes <- {"trajectory", "deadman", "stream"},
  cause  <- {c \in {"trajectory", "deadman", "stream"} :
               \/ c = "trajectory" /\ spActive
               \/ c = "deadman" /\ grips /\ mode \in {2, 3, 4, 5}
               \/ c = "stream" /\ mode = JOINT_STREAM /\ consent},
  torque <- servoOn
TorqueHasCause == Gate!Spec

(***************************************************************************)
(* The inductive invariant behind the safety properties.                   *)
(***************************************************************************)

(* A tick that finds the E-STOP active runs its step in STOPPED: ENABLE's  *)
(* check-then-set can undo STOPPED, but only between two ticks.            *)
EstopInv == deb /\ rt = "step" => fsm = "STOPPED"

(* In IDLE the silent steps are among those since the last watchdog check. *)
WatchdogInv == silentIdle <= wd

(* A trajectory accepted before a STOPPED is out of reach of a step: it    *)
(* is held by STOPPED itself, or about to be cleared by the SAFE command   *)
(* that left STOPPED.                                                      *)
TrajectoryInv ==
  /\ fsm = "STOPPED" => halted
  /\ halted /\ spActive => fsm = "STOPPED" \/ (fsm = "SAFE" /\ pc = "abort")
  /\ halted /\ spActive => pc # "setIdle"
  /\ halted /\ cmd = "HOME" /\ pc \in {"reply", "launch"} => fsm = "STOPPED"

(* In a SAFE seen as an entry, the latch is still to be taken or holds the *)
(* heartbeat of the entry, until a frame moves it.                         *)
EntryInv == fsm = "SAFE" /\ entrySeen /\ ~hbMoved => EnteringSafe \/ hb = entryHb

(* The stream's torque-off latch is up only while what torque there is     *)
(* came from a trajectory.                                                 *)
ConsentInv == servoOn /\ streamOff => homed

StopInv == TypeOK /\ EstopTorqueOff /\ EstopInv /\ WatchdogInv /\ TrajectoryInv

IInv == StopInv /\ EntryInv /\ ConsentInv

(* A button held down ends with the torque off for good.                   *)
PressStops == <>[]line => <>[](~servoOn)

(* A link that stays silent finds the torque off again and again.          *)
SilenceStops == <>[](age > FrameTimeout) => []<>(~servoOn)
=============================================================================
