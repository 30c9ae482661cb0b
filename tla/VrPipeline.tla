----------------------------- MODULE VrPipeline -----------------------------
(***************************************************************************)
(* The VR pipeline of the real-time loop (core/rt_loop.c, case STATE_IDLE) *)
(* and the latches it keeps from tick to tick: arming, torque cut, freeze, *)
(* previous grips and inputs, previous mode, head calibration.  The paths  *)
(* that do not run the pipeline but touch some of its latches (E-STOP,     *)
(* SAFE, STOPPED, a trajectory, the joint stream) are actions too; who     *)
(* decides on the state and on a trajectory is left open (SafetyCore).     *)
(*                                                                         *)
(* A tick is one action.  The latches that live in static variables of the *)
(* IDLE branch are seen by VrStep only.                                    *)
(***************************************************************************)
EXTENDS Naturals

CONSTANTS
  Modes,        (* modes a frame may carry, part of 0 .. 6                 *)
  FreezeAfter,  (* VR_FREEZE_AFTER_MS in ticks (200)                       *)
  HeadZero      (* may the UART command HEADZERO be sent                   *)

ASSUME PipelineAssumption ==
       /\ Modes \subseteq 0 .. 6
       /\ FreezeAfter \in Nat
       /\ HeadZero \in BOOLEAN

(* J5_MODE_*: 0 camera calibration, 1 pose, 2 manual, 3 head, 4 hybrid,    *)
(* 5 head assist, 6 joint stream.                                          *)
MANUAL == 2
JOINT_STREAM == 6
HeadModes == {3, 4, 5}
GripArms == {2, 5}              (* modes that arm without an edge          *)
NO_MODE == 255                  (* last_mode before the first tick in IDLE *)

VARIABLES
  fsm, mode, grips,  (* as in SafetyCore                                   *)
  inputs,       (* sticks or buttons of the last frame are active          *)
  hbOn,         (* g_j5vr_latest.vr_heartbeat > 0                          *)
  consent,      (* last J5IK frame: valid, and STREAM_ENABLE set           *)
  moving,       (* g_setpose_state.active                                  *)
  servoOn,      (* some servo channel has a non-zero pulse                 *)
  streamPrev, streamOff,  (* stream_mode_prev, stream_servos_off           *)
  armed,        (* g_vr_armed                                              *)
  latch,        (* servos_disabled_latched                                 *)
  inited,       (* deadman_inited and inputs_inited                        *)
  gripsPrev, inputsPrev,  (* deadman_prev, inputs_prev                     *)
  lastMode,     (* last_mode                                               *)
  idle,         (* ticks since last_active_ms; FreezeAfter + 1 = more      *)
  freeze,       (* g_vr_freeze_active                                      *)
  calibrated,   (* g_head_state.calibrated                                 *)
  ref,          (* g_head_state.q_vis_ref: "visor", or "identity"          *)
  zeroing       (* main is between the stores of j5vr_reset_head_calib     *)

(* History: read by no action, used to state properties.                   *)
VARIABLES
  by,           (* who energised the servos                                *)
  away,         (* the pipeline has seen another mode since ref was taken  *)
  crossed       (* ref was taken between the stores of a reset             *)
                (* (both FALSE while the head is not calibrated)      *)

frameVars  == <<mode, grips, inputs, hbOn, consent>>
streamVars == <<streamPrev, streamOff>>
armVars    == <<armed, latch, inited, gripsPrev, inputsPrev, lastMode, freeze>>
takenVars  == <<away, crossed>>
headVars   == <<calibrated, ref, zeroing, takenVars>>
vars == <<fsm, moving, servoOn, by, idle, frameVars, streamVars, armVars, headVars>>

Sources == {"none", "armed", "unarmed", "trajectory", "stream"}

FrameTypeOK ==
  /\ mode \in 0 .. 6
  /\ grips \in BOOLEAN /\ inputs \in BOOLEAN /\ hbOn \in BOOLEAN
  /\ consent \in BOOLEAN

ArmTypeOK ==
  /\ armed \in BOOLEAN /\ latch \in BOOLEAN /\ inited \in BOOLEAN
  /\ gripsPrev \in BOOLEAN /\ inputsPrev \in BOOLEAN /\ freeze \in BOOLEAN
  /\ lastMode \in (0 .. 6) \cup {NO_MODE}

HeadTypeOK ==
  /\ calibrated \in BOOLEAN /\ ref \in {"identity", "visor"}
  /\ zeroing \in BOOLEAN /\ away \in BOOLEAN /\ crossed \in BOOLEAN

TypeOK ==
  /\ FrameTypeOK /\ ArmTypeOK /\ HeadTypeOK
  /\ fsm \in {"SAFE", "IDLE", "STOPPED"}
  /\ moving \in BOOLEAN /\ servoOn \in BOOLEAN
  /\ streamPrev \in BOOLEAN /\ streamOff \in BOOLEAN
  /\ idle \in 0 .. FreezeAfter + 1
  /\ by \in Sources

Init ==
  /\ fsm = "SAFE" /\ moving = FALSE /\ servoOn = FALSE /\ by = "none"
  /\ mode = 0 /\ grips = FALSE /\ inputs = FALSE /\ hbOn = FALSE
  /\ consent = FALSE
  /\ streamPrev = FALSE /\ streamOff = FALSE
  /\ armed = FALSE /\ latch = FALSE /\ inited = FALSE
  /\ gripsPrev = FALSE /\ inputsPrev = FALSE
  /\ lastMode = NO_MODE /\ idle = 0 /\ freeze = FALSE
  /\ calibrated = FALSE /\ ref = "identity" /\ zeroing = FALSE
  /\ away = FALSE /\ crossed = FALSE

-----------------------------------------------------------------------------
(***************************************************************************)
(* Everything around the tick.                                             *)
(***************************************************************************)

(* A J5VR frame; a J5IK frame leaves grips and inputs as they were.        *)
VrFrame ==
  /\ mode' \in Modes \ {JOINT_STREAM}
  /\ grips' \in BOOLEAN /\ inputs' \in BOOLEAN /\ hbOn' \in BOOLEAN
  /\ UNCHANGED <<consent, fsm, moving, servoOn, by, idle, streamVars, armVars, headVars>>

IkFrame ==
  /\ mode' \in Modes \cap {JOINT_STREAM}
  /\ hbOn' \in BOOLEAN /\ consent' \in BOOLEAN
  /\ UNCHANGED <<grips, inputs, fsm, moving, servoOn, by, idle, streamVars, armVars, headVars>>

(* UART STOP, SAFE and ENABLE and the watchdog write the state; nothing of *)
(* the pipeline changes before the next tick.                              *)
StateWritten ==
  /\ fsm' \in {"SAFE", "IDLE", "STOPPED"}
  /\ UNCHANGED <<moving, servoOn, by, idle, frameVars, streamVars, armVars, headVars>>

(* A trajectory is launched, or aborted by a command.                      *)
TrajectoryWritten ==
  /\ moving' \in BOOLEAN
  /\ UNCHANGED <<fsm, servoOn, by, idle, frameVars, streamVars, armVars, headVars>>

(* estop_engage, in the part of the tick that precedes rt_loop_step.       *)
EstopEngages ==
  /\ fsm' = "STOPPED" /\ moving' = FALSE
  /\ servoOn' = FALSE /\ by' = "none"
  /\ armed' = FALSE
  /\ UNCHANGED <<idle, frameVars, streamVars, latch, inited, gripsPrev, inputsPrev,
                 lastMode, freeze, headVars>>

(* UART HEADZERO: j5vr_reset_head_calib in the main thread, a store to the *)
(* calibrated flag and a store to the reference, with ticks in between.    *)
HeadZeroBegins ==
  /\ HeadZero /\ ~zeroing
  /\ zeroing' = TRUE /\ calibrated' = FALSE
  /\ away' = FALSE /\ crossed' = FALSE
  /\ UNCHANGED <<ref, fsm, moving, servoOn, by, idle, frameVars, streamVars, armVars>>

HeadZeroEnds ==
  /\ zeroing
  /\ zeroing' = FALSE /\ ref' = "identity"
  /\ UNCHANGED <<calibrated, takenVars, fsm, moving, servoOn, by, idle, frameVars, streamVars, armVars>>

-----------------------------------------------------------------------------
(***************************************************************************)
(* The ticks that do not run the pipeline.                                 *)
(***************************************************************************)
Older == IF idle > FreezeAfter THEN idle ELSE idle + 1

StoppedStep ==
  /\ fsm = "STOPPED"
  /\ servoOn' = FALSE /\ by' = "none"
  /\ streamPrev' = FALSE
  /\ idle' = Older
  /\ UNCHANGED <<fsm, moving, frameVars, streamOff, armVars, headVars>>

(* SAFE, with or without the automatic way out.                            *)
SafeStep ==
  /\ fsm = "SAFE" /\ fsm' \in {"SAFE", "IDLE"}
  /\ moving' = FALSE
  /\ servoOn' = FALSE /\ by' = "none"
  /\ streamPrev' = FALSE
  /\ idle' = Older
  /\ UNCHANGED <<frameVars, streamOff, armVars, headVars>>

TrajectoryStep ==
  /\ fsm = "IDLE" /\ moving
  /\ moving' \in BOOLEAN
  /\ servoOn' = TRUE /\ by' = "trajectory"
  /\ idle' = Older
  /\ UNCHANGED <<fsm, frameVars, streamVars, armVars, headVars>>

(* rt_joint_stream_step: the pipeline is disarmed; without consent the     *)
(* torque is cut once; with consent a fresh target may move a servo.       *)
StreamStep ==
  /\ fsm = "IDLE" /\ ~moving /\ mode = JOINT_STREAM
  /\ armed' = FALSE /\ freeze' = FALSE
  /\ streamPrev' = TRUE
  /\ \/ /\ ~consent
        /\ streamOff' = TRUE
        /\ servoOn' = (servoOn /\ streamOff)
        /\ by' = IF servoOn' THEN by ELSE "none"
     \/ /\ consent
        /\ streamOff' \in {streamOff, FALSE}
        /\ \/ UNCHANGED <<servoOn, by>>
           \/ streamOff' = FALSE /\ servoOn' = TRUE /\ by' = "stream"
  /\ idle' = Older
  /\ UNCHANGED <<fsm, moving, frameVars, latch, inited, gripsPrev, inputsPrev,
                 lastMode, calibrated, ref, zeroing, away, crossed>>

-----------------------------------------------------------------------------
(***************************************************************************)
(* The pipeline.                                                           *)
(***************************************************************************)
GripsEdge == inited /\ ~gripsPrev /\ grips
InputsEdge == inited /\ ~inputsPrev /\ inputs

(* Arming, with both grips held and a heartbeat: at once in MANUAL and in  *)
(* head assist, elsewhere on an edge of the grips or of the inputs.  The   *)
(* arming on the change from POSE to MANUAL and the spare one of MANUAL    *)
(* ask for more than this and so add nothing.                              *)
Arms ==
  /\ ~armed /\ grips /\ hbOn
  /\ mode \in GripArms \/ (GripsEdge /\ inputs) \/ InputsEdge

StaysArmed == grips /\ (armed \/ Arms)

(* Not armed: torque off, once per arming.  (The two exceptions the code   *)
(* makes, MANUAL and head assist with grips and heartbeat, are armed.)     *)
CutsTorque == ~StaysArmed /\ ~latch

(* The latch remembers that the torque has been cut; arming resets it.     *)
LatchAfter == ~Arms /\ (latch \/ ~StaysArmed)

ManualEntered == lastMode = 1 /\ mode = MANUAL
IdleNow == IF inputs \/ ManualEntered THEN 0 ELSE Older

(* MANUAL holds still when there has been no input for a while.            *)
Frozen == mode = MANUAL /\ ~inputs /\ IdleNow > FreezeAfter

(* Fault: the head follows without the deadman. *)
DrivesHead == (grips /\ mode = MANUAL /\ ~Frozen) \/ mode \in HeadModes

(* The switch on the mode actuates only with the deadman; arming is not    *)
(* consulted.                                                              *)
Drives == grips /\ ((mode = MANUAL /\ ~Frozen) \/ mode \in HeadModes)

(* Fault: the calibration is reset on the way in from POSE only. *)
EntersHeadFromPose == mode \in HeadModes /\ lastMode = 1

EntersHead == mode \in HeadModes /\ mode # lastMode
UsesHead == grips /\ mode \in HeadModes
TakesRef == UsesHead /\ (EntersHead \/ ~calibrated)

(* Head calibration: reset on a change into a head mode, the visor's pose  *)
(* taken as reference by the first step that follows the head.             *)
HeadStep ==
  /\ calibrated' = (UsesHead \/ (calibrated /\ ~EntersHead))
  /\ ref' = IF TakesRef THEN "visor" ELSE IF EntersHead THEN "identity" ELSE ref
  /\ away' = (calibrated' /\ ~TakesRef /\ (away \/ mode # lastMode))
  /\ crossed' = (calibrated' /\ IF TakesRef THEN zeroing ELSE crossed)
  /\ UNCHANGED zeroing

(* Fault: the stream's torque is left to the disable latch. *)
TorqueKeptFromStream == servoOn /\ ~CutsTorque

(* Leaving the stream cuts the torque, and so may the pipeline.            *)
TorqueKept == servoOn /\ ~streamPrev /\ ~CutsTorque

VrStep ==
  /\ fsm = "IDLE" /\ ~moving /\ mode # JOINT_STREAM
  /\ streamPrev' = FALSE /\ streamOff' = FALSE
  /\ inited' = TRUE /\ gripsPrev' = grips /\ inputsPrev' = inputs
  /\ armed' = StaysArmed
  /\ latch' = LatchAfter
  /\ lastMode' = mode
  /\ idle' = IdleNow
  /\ freeze' = IF grips /\ mode = MANUAL THEN Frozen ELSE freeze
  /\ HeadStep
  /\ \/ servoOn' = TorqueKept /\ by' = IF TorqueKept THEN by ELSE "none"
     \/ Drives /\ servoOn' = TRUE /\ by' = IF armed' THEN "armed" ELSE "unarmed"
  /\ UNCHANGED <<fsm, moving, frameVars>>

Tick == StoppedStep \/ SafeStep \/ TrajectoryStep \/ StreamStep \/ VrStep

Next ==
  \/ VrFrame \/ IkFrame
  \/ StateWritten \/ TrajectoryWritten \/ EstopEngages
  \/ HeadZeroBegins \/ HeadZeroEnds
  \/ Tick

Spec == Init /\ [][Next]_vars

-----------------------------------------------------------------------------
(***************************************************************************)
(* Properties.                                                             *)
(***************************************************************************)

(* Releasing the grips takes away, on that very tick, all torque that the  *)
(* pipeline gave while armed and all torque of the joint stream, whatever  *)
(* modes, stops and trajectories came between.                             *)
ReleaseCutsTorque ==
  [][VrStep /\ ~grips => ~servoOn' \/ by' \in {"unarmed", "trajectory"}]_vars

(* What SafetyCore assumes of the pipeline (its VrPipeline): torque is cut *)
(* or kept, kept only if the stream has not just been left, and given only *)
(* with the deadman in a mode that actuates.                               *)
WithinDeadman ==
  [][VrStep => \/ ~servoOn'
               \/ servoOn' = (servoOn /\ ~streamPrev)
               \/ grips /\ mode \notin {0, 1}]_vars

(* Torque comes from IDLE and from a cause.                                *)
Gate == INSTANCE TorqueGate WITH
  Causes <- {"trajectory", "deadman", "stream"},
  cause  <- {c \in {"trajectory", "deadman", "stream"} :
               \/ c = "trajectory" /\ moving
               \/ c = "deadman" /\ grips /\ mode \in {2, 3, 4, 5}
               \/ c = "stream" /\ mode = JOINT_STREAM /\ consent},
  torque <- servoOn
TorqueHasCause == Gate!Spec

(* The reference a head mode measures its error from is the pose of the    *)
(* visor, taken since the pipeline saw that mode begin, through any number *)
(* of stops, trajectories, releases and changes of mode; unless it was     *)
(* taken between the two stores of HEADZERO, whose second one replaces it. *)
HeadReferenceKept ==
  [][VrStep /\ UsesHead => (ref' = "visor" \/ crossed') /\ ~away']_vars

(***************************************************************************)
(* The inductive invariant behind ReleaseCutsTorque and HeadReferenceKept. *)
(***************************************************************************)

(* The disable latch is down while the pipeline is armed, and as long as   *)
(* torque given while armed is there; torque given by the stream is there  *)
(* only until the first tick outside the stream.                           *)
LatchInv ==
  /\ armed => ~latch
  /\ servoOn => by # "none"
  /\ by = "armed" => ~latch
  /\ by = "stream" => streamPrev

(* A calibrated head has the visor as its reference and no reset pending,  *)
(* and in a head mode it was calibrated in that mode.                      *)
HeadInv ==
  /\ calibrated => crossed \/ (ref = "visor" /\ ~zeroing)
  /\ calibrated /\ lastMode \in HeadModes => ~away

IInv == TypeOK /\ LatchInv /\ HeadInv
=============================================================================
