-------------------------- MODULE VrPipelineProofs --------------------------
(***************************************************************************)
(* Proofs about VrPipeline, for every set of modes and every freeze time.  *)
(***************************************************************************)
EXTENDS VrPipeline, TLAPS

USE PipelineAssumption

(***************************************************************************)
(* IInv is inductive: types first, then the latches, action by action.     *)
(***************************************************************************)

(* A group of variables that a step leaves alone keeps its types.          *)
LEMMA KeepsFrame == FrameTypeOK /\ UNCHANGED frameVars => FrameTypeOK'
BY DEF FrameTypeOK, frameVars

LEMMA KeepsArm == ArmTypeOK /\ UNCHANGED armVars => ArmTypeOK'
BY DEF ArmTypeOK, armVars

LEMMA KeepsHead == HeadTypeOK /\ UNCHANGED headVars => HeadTypeOK'
BY DEF HeadTypeOK, headVars, takenVars

(* The time since the last input saturates one past the limit.             *)
LEMMA OlderType == TypeOK => Older \in 0 .. FreezeAfter + 1
BY DEF TypeOK, Older

(* What the pipeline step computes has the right type.                     *)
LEMMA VrStepType == TypeOK /\ VrStep => TypeOK'
<1> SUFFICES ASSUME TypeOK, VrStep PROVE TypeOK'
  OBVIOUS
<1>1. FrameTypeOK'
  BY KeepsFrame DEF TypeOK, VrStep
<1>2. ArmTypeOK'
  <2>1. armed' \in BOOLEAN /\ latch' \in BOOLEAN
    BY DEF TypeOK, FrameTypeOK, ArmTypeOK, VrStep, StaysArmed, LatchAfter, Arms
  <2>2. freeze' \in BOOLEAN
    BY DEF TypeOK, ArmTypeOK, VrStep, Frozen
  <2>3. inited' \in BOOLEAN /\ gripsPrev' \in BOOLEAN /\ inputsPrev' \in BOOLEAN
    BY DEF TypeOK, FrameTypeOK, VrStep
  <2>4. lastMode' \in (0 .. 6) \cup {NO_MODE}
    BY DEF TypeOK, FrameTypeOK, VrStep
  <2> QED
    BY <2>1, <2>2, <2>3, <2>4 DEF ArmTypeOK
<1>3. HeadTypeOK'
  BY DEF TypeOK, HeadTypeOK, VrStep, HeadStep
<1>4. idle' \in 0 .. FreezeAfter + 1
  <2>1. Older \in 0 .. FreezeAfter + 1
    BY OlderType
  <2> QED
    BY <2>1 DEF VrStep, IdleNow
<1>5. servoOn' \in BOOLEAN /\ by' \in Sources
  BY DEF TypeOK, VrStep, TorqueKept, Sources
<1> QED
  BY <1>1, <1>2, <1>3, <1>4, <1>5 DEF TypeOK, VrStep

(* The ticks that do not run the pipeline.                                 *)
LEMMA OtherTickType ==
  TypeOK /\ (StoppedStep \/ SafeStep \/ TrajectoryStep \/ StreamStep) => TypeOK'
<1> SUFFICES ASSUME TypeOK, StoppedStep \/ SafeStep \/ TrajectoryStep \/ StreamStep
             PROVE  TypeOK'
  OBVIOUS
<1>1. Older \in 0 .. FreezeAfter + 1
  BY OlderType
<1>2. idle' \in 0 .. FreezeAfter + 1
  BY <1>1 DEF StoppedStep, SafeStep, TrajectoryStep, StreamStep
<1>3. CASE StoppedStep
  BY <1>2, <1>3, KeepsFrame, KeepsArm, KeepsHead DEF TypeOK, StoppedStep, Sources
<1>4. CASE SafeStep
  BY <1>2, <1>4, KeepsFrame, KeepsArm, KeepsHead DEF TypeOK, SafeStep, Sources
<1>5. CASE TrajectoryStep
  BY <1>2, <1>5, KeepsFrame, KeepsArm, KeepsHead
     DEF TypeOK, TrajectoryStep, streamVars, Sources
<1>6. CASE StreamStep
  <2>1. ArmTypeOK' /\ HeadTypeOK'
    BY <1>6 DEF TypeOK, StreamStep, ArmTypeOK, HeadTypeOK
  <2>2. streamOff' \in BOOLEAN /\ servoOn' \in BOOLEAN /\ by' \in Sources
    BY <1>6 DEF TypeOK, StreamStep, Sources
  <2> QED
    BY <1>2, <1>6, <2>1, <2>2, KeepsFrame DEF TypeOK, StreamStep
<1> QED
  BY <1>3, <1>4, <1>5, <1>6

(* Everything around the tick.                                             *)
Around ==
  \/ VrFrame \/ IkFrame \/ StateWritten \/ TrajectoryWritten
  \/ EstopEngages \/ HeadZeroBegins \/ HeadZeroEnds

(* Frames, commands and the emergency stop keep the types.                 *)
LEMMA AroundType == TypeOK /\ Around => TypeOK'
<1> SUFFICES ASSUME TypeOK, Around PROVE TypeOK'
  OBVIOUS
<1>1. CASE VrFrame \/ IkFrame
  <2>1. mode' \in 0 .. 6
    BY <1>1 DEF VrFrame, IkFrame, PipelineAssumption
  <2>2. FrameTypeOK'
    BY <1>1, <2>1 DEF TypeOK, VrFrame, IkFrame, FrameTypeOK
  <2> QED
    BY <1>1, <2>2, KeepsArm, KeepsHead DEF TypeOK, VrFrame, IkFrame, streamVars
<1>2. CASE StateWritten
  BY <1>2, KeepsFrame, KeepsArm, KeepsHead DEF TypeOK, StateWritten, streamVars
<1>3. CASE TrajectoryWritten
  BY <1>3, KeepsFrame, KeepsArm, KeepsHead DEF TypeOK, TrajectoryWritten, streamVars
<1>4. CASE EstopEngages
  <2>1. ArmTypeOK'
    BY <1>4 DEF TypeOK, EstopEngages, ArmTypeOK
  <2> QED
    BY <1>4, <2>1, KeepsFrame, KeepsHead DEF TypeOK, EstopEngages, streamVars, Sources
<1>5. CASE HeadZeroBegins \/ HeadZeroEnds
  <2>1. HeadTypeOK'
    BY <1>5 DEF TypeOK, HeadZeroBegins, HeadZeroEnds, HeadTypeOK, takenVars
  <2> QED
    BY <1>5, <2>1, KeepsFrame, KeepsArm
       DEF TypeOK, HeadZeroBegins, HeadZeroEnds, streamVars
<1> QED
  BY <1>1, <1>2, <1>3, <1>4, <1>5 DEF Around

(* Around the tick the latch does not move, and torque can only be cut.    *)
LEMMA AroundLatch == LatchInv /\ Around => LatchInv'
<1> SUFFICES ASSUME LatchInv, Around PROVE LatchInv'
  OBVIOUS
<1>1. CASE EstopEngages
  BY <1>1 DEF LatchInv, EstopEngages
<1>2. CASE ~EstopEngages
  <2>1. UNCHANGED <<armVars, streamVars, servoOn, by>>
    BY <1>2 DEF Around, VrFrame, IkFrame, StateWritten, TrajectoryWritten,
                HeadZeroBegins, HeadZeroEnds
  <2> QED
    BY <2>1 DEF LatchInv, armVars, streamVars
<1> QED
  BY <1>1, <1>2

(* A pipeline step that ends armed resets the latch, and one that ends     *)
(* with the latch up ends with no torque given while armed.                *)
LEMMA VrStepLatch == TypeOK /\ LatchInv /\ VrStep => LatchInv'
<1> SUFFICES ASSUME TypeOK, LatchInv, VrStep PROVE LatchInv'
  OBVIOUS
<1>1. armed' => ~latch'
  BY DEF VrStep, LatchInv, LatchAfter, StaysArmed
<1>2. CASE servoOn' = TorqueKept /\ by' = IF TorqueKept THEN by ELSE "none"
  <2>1. CASE TorqueKept
    <3>1. servoOn /\ ~streamPrev /\ ~CutsTorque /\ by' = by
      BY <1>2, <2>1 DEF TorqueKept
    <3>2. by # "none" /\ by # "stream"
      BY <3>1 DEF LatchInv
    <3>3. by = "armed" => ~latch'
      BY <3>1 DEF LatchInv, CutsTorque, VrStep, LatchAfter
    <3> QED
      BY <1>1, <3>1, <3>2, <3>3 DEF LatchInv
  <2>2. CASE ~TorqueKept
    BY <1>1, <1>2, <2>2 DEF LatchInv
  <2> QED
    BY <2>1, <2>2
<1>3. CASE servoOn' = TRUE /\ by' = IF armed' THEN "armed" ELSE "unarmed"
  BY <1>1, <1>3 DEF LatchInv
<1> QED
  BY <1>2, <1>3 DEF VrStep

(* The other ticks: only the stream disarms, and none raises the latch.    *)
LEMMA OtherTickLatch ==
  TypeOK /\ LatchInv /\ (StoppedStep \/ SafeStep \/ TrajectoryStep \/ StreamStep)
    => LatchInv'
<1> SUFFICES ASSUME TypeOK, LatchInv,
                    StoppedStep \/ SafeStep \/ TrajectoryStep \/ StreamStep
             PROVE  LatchInv'
  OBVIOUS
<1>1. CASE StoppedStep \/ SafeStep
  BY <1>1 DEF LatchInv, StoppedStep, SafeStep, armVars
<1>2. CASE TrajectoryStep
  BY <1>2 DEF LatchInv, TrajectoryStep, armVars
<1>3. CASE StreamStep
  <2>1. streamPrev' = TRUE /\ armed' = FALSE /\ latch' = latch
    BY <1>3 DEF StreamStep
  <2>2. \/ by' = by /\ (servoOn' => servoOn)
        \/ by' = "none" /\ ~servoOn'
        \/ by' = "stream"
    BY <1>3 DEF StreamStep
  <2> QED
    BY <2>1, <2>2 DEF LatchInv
<1> QED
  BY <1>1, <1>2, <1>3

(* A reference comes from the visor and lasts until the next reset, which  *)
(* a change into a head mode makes as well.                                *)
LEMMA VrStepHead == TypeOK /\ HeadInv /\ VrStep => HeadInv'
<1> SUFFICES ASSUME TypeOK, HeadInv, VrStep PROVE HeadInv'
  OBVIOUS
<1>1. lastMode' = mode /\ HeadStep
  BY DEF VrStep
<1>2. CASE TakesRef
  BY <1>1, <1>2 DEF HeadStep, HeadInv, TypeOK, HeadTypeOK
<1>3. CASE ~TakesRef /\ EntersHead
  BY <1>1, <1>3 DEF HeadStep, HeadInv, TakesRef
<1>4. CASE ~TakesRef /\ ~EntersHead
  <2>1. calibrated' => calibrated
    BY <1>1, <1>4 DEF HeadStep, TakesRef, TypeOK, HeadTypeOK
  <2>2. calibrated' => (ref' = ref /\ zeroing' = zeroing /\ (crossed' <=> crossed))
    BY <1>1, <1>4 DEF HeadStep, TypeOK, HeadTypeOK
  <2>3. calibrated' /\ mode \in HeadModes => ~away'
    BY <1>1, <1>4, <2>1 DEF HeadStep, HeadInv, EntersHead
  <2> QED
    BY <1>1, <2>1, <2>2, <2>3 DEF HeadInv
<1> QED
  BY <1>2, <1>3, <1>4

(* No other step takes a reference or sees a mode; HEADZERO withdraws the  *)
(* calibration before it touches the reference.                            *)
LEMMA OthersHead ==
  /\ HeadInv
  /\ Around \/ StoppedStep \/ SafeStep \/ TrajectoryStep \/ StreamStep \/ UNCHANGED vars
  => HeadInv'
<1> SUFFICES ASSUME HeadInv,
                    \/ Around \/ StoppedStep \/ SafeStep \/ TrajectoryStep
                    \/ StreamStep \/ UNCHANGED vars
             PROVE  HeadInv'
  OBVIOUS
<1>1. CASE HeadZeroBegins
  BY <1>1 DEF HeadInv, HeadZeroBegins
<1>2. CASE HeadZeroEnds
  BY <1>2 DEF HeadInv, HeadZeroEnds, armVars, takenVars
<1>3. CASE ~HeadZeroBegins /\ ~HeadZeroEnds
  <2>1. UNCHANGED <<calibrated, ref, zeroing, away, crossed, lastMode>>
    BY <1>3 DEF Around, VrFrame, IkFrame, StateWritten, TrajectoryWritten, EstopEngages,
                StoppedStep, SafeStep, TrajectoryStep, StreamStep, vars, armVars,
                headVars, takenVars
  <2> QED
    BY <2>1 DEF HeadInv
<1> QED
  BY <1>1, <1>2, <1>3

(* Boot: nothing moves, nothing is armed, no torque.                       *)
LEMMA InitInv == Init => IInv
<1> SUFFICES ASSUME Init PROVE IInv
  OBVIOUS
<1>1. FrameTypeOK
  <2>1. mode \in 0 .. 6
    BY DEF Init
  <2> QED
    BY <2>1 DEF Init, FrameTypeOK
<1>2. ArmTypeOK
  BY DEF Init, ArmTypeOK
<1>3. HeadTypeOK
  BY DEF Init, HeadTypeOK
<1>4. idle \in 0 .. FreezeAfter + 1
  BY DEF Init
<1> QED
  BY <1>1, <1>2, <1>3, <1>4 
     DEF Init, IInv, TypeOK, LatchInv, HeadInv, Sources

(* Every step keeps the invariant.                                         *)
LEMMA NextInv == IInv /\ [Next]_vars => IInv'
<1> SUFFICES ASSUME IInv, [Next]_vars PROVE IInv'
  OBVIOUS
<1>1. TypeOK /\ LatchInv /\ HeadInv
  BY DEF IInv
<1>2. CASE Around
  BY <1>1, <1>2, AroundType, AroundLatch, OthersHead DEF IInv
<1>3. CASE StoppedStep \/ SafeStep \/ TrajectoryStep \/ StreamStep
  BY <1>1, <1>3, OtherTickType, OtherTickLatch, OthersHead DEF IInv
<1>4. CASE VrStep
  BY <1>1, <1>4, VrStepType, VrStepLatch, VrStepHead DEF IInv
<1>5. CASE UNCHANGED vars
  <2>1. TypeOK'
    BY <1>1, <1>5, KeepsFrame, KeepsArm, KeepsHead DEF TypeOK, vars, streamVars
  <2> QED
    BY <1>1, <1>5, <2>1, OthersHead DEF IInv, LatchInv, vars, streamVars, armVars
<1> QED
  BY <1>2, <1>3, <1>4, <1>5 DEF Next, Tick, Around

-----------------------------------------------------------------------------
(***************************************************************************)
(* The theorems.                                                           *)
(***************************************************************************)

(* Types, and the disable latch is down while the pipeline is armed or its *)
(* torque is there.                                                        *)
THEOREM Inductive == Spec => []IInv
<1> QED
  BY InitInv, NextInv, PTL DEF Spec

(* The tick that finds the grips released cuts the torque given while      *)
(* armed and that of the stream.                                           *)
THEOREM ReleaseCuts == Spec => ReleaseCutsTorque
<1>1. IInv /\ [Next]_vars =>
        [VrStep /\ ~grips => ~servoOn' \/ by' \in {"unarmed", "trajectory"}]_vars
  <2> SUFFICES ASSUME IInv, VrStep, ~grips, servoOn'
               PROVE  by' \in {"unarmed", "trajectory"}
    OBVIOUS
  <2>1. ~StaysArmed /\ ~Drives
    BY DEF StaysArmed, Drives
  <2>2. TorqueKept /\ by' = by
    BY <2>1 DEF VrStep
  <2>3. servoOn /\ ~streamPrev /\ latch
    BY <2>1, <2>2 DEF TorqueKept, CutsTorque
  <2>4. by \notin {"none", "stream", "armed"}
    BY <2>3 DEF IInv, LatchInv
  <2> QED
    BY <2>2, <2>4 DEF IInv, TypeOK, Sources
<1> QED
  BY <1>1, Inductive, PTL DEF Spec, ReleaseCutsTorque

(* A head mode measures from the visor's pose, taken since the pipeline    *)
(* saw the mode begin.                                                     *)
THEOREM HeadKept == Spec => HeadReferenceKept
<1>1. IInv /\ IInv' /\ [Next]_vars =>
        [VrStep /\ UsesHead => (ref' = "visor" \/ crossed') /\ ~away']_vars
  <2> SUFFICES ASSUME IInv, IInv', VrStep, UsesHead
               PROVE  (ref' = "visor" \/ crossed') /\ ~away'
    OBVIOUS
  <2>1. calibrated' /\ lastMode' \in HeadModes
    BY DEF VrStep, HeadStep, UsesHead
  <2> QED
    BY <2>1 DEF IInv, HeadInv
<1> QED
  BY <1>1, Inductive, PTL DEF Spec, HeadReferenceKept

(* What SafetyCore leaves open in its VrPipeline covers all that the       *)
(* pipeline does to the torque.                                            *)
THEOREM StaysWithinDeadman == Spec => WithinDeadman
<1>1. [Next]_vars =>
        [VrStep => \/ ~servoOn'
                   \/ servoOn' = (servoOn /\ ~streamPrev)
                   \/ grips /\ mode \notin {0, 1}]_vars
  <2> SUFFICES ASSUME VrStep, servoOn', ~(grips /\ mode \notin {0, 1})
               PROVE  servoOn' = (servoOn /\ ~streamPrev)
    OBVIOUS
  <2>1. ~Drives
    BY DEF Drives, MANUAL, HeadModes
  <2>2. TorqueKept /\ servoOn' = TorqueKept
    BY <2>1 DEF VrStep
  <2> QED
    BY <2>2 DEF TorqueKept
<1> QED
  BY <1>1, PTL DEF Spec, WithinDeadman

(* The pipeline implements TorqueGate: torque comes from IDLE and a cause. *)
THEOREM ImplementsGate == Spec => TorqueHasCause
<1> DEFINE causes == {c \in {"trajectory", "deadman", "stream"} :
                        \/ c = "trajectory" /\ moving
                        \/ c = "deadman" /\ grips /\ mode \in {2, 3, 4, 5}
                        \/ c = "stream" /\ mode = JOINT_STREAM /\ consent}
<1>1. Init => Gate!Init
  BY DEF Init, Gate!Init, JOINT_STREAM
<1>2. IInv /\ [Next]_vars => [Gate!Next]_<<fsm, causes, servoOn>>
  <2> SUFFICES ASSUME IInv, [Next]_vars
               PROVE  Gate!Next \/ UNCHANGED <<fsm, causes, servoOn>>
    OBVIOUS
  <2>1. servoOn \in BOOLEAN
    BY DEF IInv, TypeOK
  <2>2. CASE VrStep /\ Drives /\ servoOn' = TRUE
    <3>1. "deadman" \in causes
      BY <2>2 DEF Drives, MANUAL, HeadModes
    <3>2. fsm = "IDLE" /\ fsm' = "IDLE"
      BY <2>2 DEF VrStep
    <3> QED
      BY <2>2, <3>1, <3>2 DEF Gate!Next, Gate!Energise
  <2>3. CASE TrajectoryStep
    <3>1. "trajectory" \in causes
      BY <2>3 DEF TrajectoryStep
    <3> QED
      BY <2>3, <3>1 DEF TrajectoryStep, Gate!Next, Gate!Energise
  <2>4. CASE StreamStep /\ consent /\ servoOn' = TRUE
    <3>1. "stream" \in causes
      BY <2>4 DEF StreamStep
    <3> QED
      BY <2>4, <3>1 DEF StreamStep, Gate!Next, Gate!Energise
  <2>5. CASE /\ ~(VrStep /\ Drives /\ servoOn' = TRUE)
             /\ ~TrajectoryStep
             /\ ~(StreamStep /\ consent /\ servoOn' = TRUE)
    <3>1. servoOn' = servoOn \/ servoOn' = FALSE
      <4>1. CASE Around
        BY <4>1 DEF Around, VrFrame, IkFrame, StateWritten, TrajectoryWritten,
                    EstopEngages, HeadZeroBegins, HeadZeroEnds
      <4>2. CASE StoppedStep \/ SafeStep
        BY <4>2 DEF StoppedStep, SafeStep
      <4>3. CASE StreamStep
        BY <2>1, <2>5, <4>3 DEF StreamStep
      <4>4. CASE VrStep
        BY <2>1, <2>5, <4>4 DEF VrStep, TorqueKept
      <4>5. CASE UNCHANGED vars
        BY <4>5 DEF vars
      <4> QED
        BY <2>5, <4>1, <4>2, <4>3, <4>4, <4>5 DEF Next, Tick, Around
    <3> QED
      BY <3>1 DEF Gate!Next, Gate!KeepOrCut
  <2> QED
    BY <2>2, <2>3, <2>4, <2>5
<1> QED
  BY <1>1, <1>2, Inductive, PTL DEF Spec, TorqueHasCause, Gate!Spec
=============================================================================
