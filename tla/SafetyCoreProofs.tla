-------------------------- MODULE SafetyCoreProofs --------------------------
(***************************************************************************)
(* Proofs about SafetyCore, for every value of its constants.              *)
(***************************************************************************)
EXTENDS SafetyCore, TLAPS

USE EstopAssumption, SafetyAssumption
    DEF FsmStates, AllCommands, MotionCommands, JOINT_STREAM

(***************************************************************************)
(* Counter arithmetic.                                                     *)
(***************************************************************************)

(* The watchdog counter stays below its period, and when it does not wrap  *)
(* it is the successor of the old one.                                     *)
LEMMA NextWdType ==
  ASSUME wd \in 0 .. WatchdogPeriod - 1
  PROVE  /\ NextWd \in 0 .. WatchdogPeriod - 1
         /\ NextWd = 0 \/ NextWd = wd + 1
<1>1. CASE wd + 1 = WatchdogPeriod
  BY <1>1 DEF NextWd
<1>2. CASE wd + 1 < WatchdogPeriod
  <2>1. (wd + 1) % WatchdogPeriod = wd + 1
    BY <1>2
  <2>2. QED
    BY <1>2, <2>1 DEF NextWd
<1>3. QED
  BY <1>1, <1>2

(* An age saturates one tick past its limit.                               *)
LEMMA OlderType ==
  ASSUME NEW limit \in Nat, NEW a \in 0 .. limit + 1
  PROVE  Older(a, limit) \in 0 .. limit + 1
BY DEF Older

-----------------------------------------------------------------------------
(***************************************************************************)
(* IInv is inductive: one lemma per thread.                                *)
(***************************************************************************)

(* Boot: every trajectory, servo and counter is at rest.                   *)
LEMMA InitType == Init => TypeOK
<1> SUFFICES ASSUME Init PROVE TypeOK
  OBVIOUS
<1>1. EstopTypeOK
  BY DEF Init, EstopInit, EstopTypeOK
<1>2. /\ wd \in 0 .. WatchdogPeriod - 1 /\ silentIdle \in 0 .. WatchdogPeriod - 1
      /\ age \in 0 .. FrameTimeout + 1 /\ ikAge \in 0 .. StreamTimeout + 1
      /\ hb \in 0 .. HbMod - 1 /\ entryHb \in 0 .. HbMod - 1 /\ mode \in 0 .. 6
  BY DEF Init
<1>3. /\ fsm \in FsmStates /\ rtPrev \in FsmStates /\ rt \in {"sleep", "step"}
      /\ pc \in Steps /\ cmd \in AllCommands /\ ticked \in BOOLEAN
  BY DEF Init, Steps
<1>4. /\ grips \in BOOLEAN /\ consent \in BOOLEAN
      /\ autoDone \in BOOLEAN
      /\ streamPrev \in BOOLEAN /\ streamOff \in BOOLEAN /\ streamActive \in BOOLEAN
      /\ servoOn \in BOOLEAN /\ spActive \in BOOLEAN
      /\ hbMoved \in BOOLEAN /\ entrySeen \in BOOLEAN
      /\ halted \in BOOLEAN /\ homed \in BOOLEAN
  BY DEF Init
<1> QED
  BY <1>1, <1>2, <1>3, <1>4 DEF TypeOK

(* Boot satisfies the part of the invariant about stops.                   *)
LEMMA InitStop == Init => StopInv
<1> SUFFICES ASSUME Init PROVE StopInv
  OBVIOUS
<1>1. TypeOK
  BY InitType
<1>2. EstopTorqueOff /\ EstopInv /\ WatchdogInv /\ TrajectoryInv
  BY DEF Init, EstopTorqueOff, EstopInv, WatchdogInv, TrajectoryInv
<1> QED
  BY <1>1, <1>2 DEF StopInv

(* A step that changes nothing.                                            *)
LEMMA StutterStop == StopInv /\ UNCHANGED vars => StopInv'
BY DEF vars, StopInv, TypeOK, EstopTypeOK, EstopTorqueOff,
       EstopInv, WatchdogInv, TrajectoryInv

(* estop_poll_tick: an active debounced input leaves STOPPED, torque off   *)
(* and no trajectory behind.                                               *)
LEMMA EstopPollTickStop == StopInv /\ EstopPollTick => StopInv'
<1> SUFFICES ASSUME StopInv, EstopPollTick PROVE StopInv'
  OBVIOUS
<1> USE DEF StopInv, EstopPollTick, mainVars, rtVars, frameVars
<1>1. TypeOK'
  <2>1. EstopTypeOK'
    BY DEF TypeOK, EstopTypeOK, SampleLine, Edge
  <2>2. age' \in 0 .. FrameTimeout + 1 /\ ikAge' \in 0 .. StreamTimeout + 1
    BY OlderType DEF TypeOK
  <2>3. /\ hbMoved' \in BOOLEAN /\ entrySeen' \in BOOLEAN
        /\ homed' \in BOOLEAN /\ halted' \in BOOLEAN
    BY DEF TypeOK, TrackSafeEntry, BecomesSafe, TrackHalt
  <2> QED
    BY <2>1, <2>2, <2>3 DEF TypeOK
<1>2. deb' => fsm' = "STOPPED" /\ ~servoOn'
  BY DEF TypeOK, EstopTypeOK, EstopTorqueOff, EstopInv, SampleLine, Edge, Engages
<1>3. EstopTorqueOff'
  BY <1>2 DEF EstopTorqueOff
<1>4. EstopInv'
  BY <1>2 DEF EstopInv
<1>5. WatchdogInv'
  BY DEF WatchdogInv
<1>6. TrajectoryInv'
  <2>1. CASE Engages
    BY <2>1 DEF TrajectoryInv, TrackHalt
  <2>2. CASE ~Engages
    <3>1. fsm' = fsm /\ (spActive' <=> spActive) /\ pc' = pc /\ cmd' = cmd
      BY <2>2
    <3>2. halted' <=> halted
      BY <3>1 DEF TrackHalt, TrajectoryInv
    <3> QED
      BY <3>1, <3>2 DEF TrajectoryInv
  <2> QED
    BY <2>1, <2>2
<1> QED
  BY <1>1, <1>3, <1>4, <1>5, <1>6

(* rt_loop_step: which branch runs is decided by the state the watchdog    *)
(* leaves, and a branch never writes STOPPED.                              *)
LEMMA StepStateCases ==
  ASSUME TypeOK, RtLoopStep
  PROVE  /\ fsm = "STOPPED" <=> StepState = "STOPPED"
         /\ fsm' \in FsmStates
         /\ fsm' = "STOPPED" <=> fsm = "STOPPED"
<1>1. fsm = "STOPPED" <=> StepState = "STOPPED"
  BY DEF StepState, WatchdogTrips
<1>2. CASE StoppedStep
  BY <1>1, <1>2 DEF StoppedStep
<1>3. CASE SafeStep
  BY <1>1, <1>3 DEF SafeStep
<1>4. CASE SetposeTick \/ IdleStep
  BY <1>1, <1>4 DEF SetposeTick, IdleStep
<1> QED
  BY <1>1, <1>2, <1>3, <1>4 DEF RtLoopStep

(* The watchdog: a step that checks the frame age does not end in IDLE     *)
(* with a silent link.                                                     *)
LEMMA WatchdogActs ==
  ASSUME TypeOK, RtLoopStep, NextWd = 0, LinkSilent
  PROVE  fsm' # "IDLE"
<1>1. StepState # "IDLE"
  BY DEF StepState, WatchdogTrips
<1>2. CASE StoppedStep
  BY <1>2 DEF StoppedStep
<1>3. CASE SafeStep
  BY <1>3 DEF SafeStep, HeartbeatRearms
<1> QED
  BY <1>1, <1>2, <1>3 DEF RtLoopStep, SetposeTick, IdleStep

(* The silent steps stay among those since the last watchdog check.        *)
LEMMA RtLoopStepSilence ==
  ASSUME TypeOK, WatchdogInv, RtLoopStep
  PROVE  /\ wd' \in 0 .. WatchdogPeriod - 1
         /\ silentIdle' \in 0 .. WatchdogPeriod - 1
         /\ WatchdogInv'
<1>1. wd \in 0 .. WatchdogPeriod - 1 /\ silentIdle \in 0 .. WatchdogPeriod - 1
  BY DEF TypeOK
<1>2. /\ wd' = NextWd
      /\ silentIdle' = IF fsm' = "IDLE" /\ LinkSilent THEN silentIdle + 1 ELSE 0
  BY DEF RtLoopStep
<1>3. wd' \in 0 .. WatchdogPeriod - 1
  BY <1>1, <1>2, NextWdType
<1>4. silentIdle' \in Nat /\ silentIdle' <= wd'
  <2>1. CASE NextWd = 0
    <3>1. silentIdle' = 0
      BY <1>2, <2>1, WatchdogActs
    <3> QED
      BY <3>1, <1>3
  <2>2. CASE NextWd = wd + 1
    BY <1>1, <1>2, <2>2 DEF WatchdogInv
  <2> QED
    BY <1>1, <2>1, <2>2, NextWdType
<1> QED
  BY <1>3, <1>4 DEF WatchdogInv

(* The types of what the four branches write.                              *)
LEMMA RtLoopStepTypes ==
  ASSUME TypeOK, RtLoopStep
  PROVE  /\ rtPrev' \in FsmStates
         /\ entryHb' \in 0 .. HbMod - 1
         /\ autoDone' \in BOOLEAN /\ halted' \in BOOLEAN
         /\ streamPrev' \in BOOLEAN /\ streamOff' \in BOOLEAN
         /\ streamActive' \in BOOLEAN
         /\ servoOn' \in BOOLEAN /\ spActive' \in BOOLEAN
<1>1. /\ rtPrev \in FsmStates
      /\ hb \in 0 .. HbMod - 1 /\ entryHb \in 0 .. HbMod - 1
      /\ autoDone \in BOOLEAN /\ halted \in BOOLEAN
      /\ streamPrev \in BOOLEAN /\ streamOff \in BOOLEAN /\ streamActive \in BOOLEAN
      /\ servoOn \in BOOLEAN /\ spActive \in BOOLEAN /\ consent \in BOOLEAN
  BY DEF TypeOK
<1>2. CASE StoppedStep
  BY <1>1, <1>2 DEF StoppedStep
<1>3. CASE SafeStep
  <2>1. autoDone' \in BOOLEAN
    BY <1>1, <1>3 DEF SafeStep, AutoPending, HeartbeatRearms
  <2>2. entryHb' \in 0 .. HbMod - 1
    BY <1>1, <1>3 DEF SafeStep, LatchedHb
  <2>3. spActive' \in BOOLEAN /\ halted' \in BOOLEAN
    BY <1>1, <1>3 DEF SafeStep, ButtonHome
  <2> QED
    BY <1>1, <1>3, <2>1, <2>2, <2>3 DEF SafeStep
<1>4. CASE SetposeTick
  BY <1>1, <1>4 DEF SetposeTick, rtVars
<1>5. CASE IdleStep
  <2>1. spActive' \in BOOLEAN /\ halted' \in BOOLEAN
    BY <1>1, <1>5 DEF IdleStep, ButtonHome
  <2>2. CASE JointStream
    BY <1>1, <1>5, <2>1, <2>2 DEF IdleStep, JointStream, StreamFresh
  <2>3. CASE VrPipeline
    BY <1>1, <1>5, <2>1, <2>3 DEF IdleStep, VrPipeline
  <2> QED
    BY <1>5, <2>2, <2>3 DEF IdleStep
<1> QED
  BY <1>2, <1>3, <1>4, <1>5 DEF RtLoopStep

(* rt_loop_step keeps the invariant.                                       *)
LEMMA RtLoopStepStop == StopInv /\ RtLoopStep => StopInv'
<1> SUFFICES ASSUME StopInv, RtLoopStep PROVE StopInv'
  OBVIOUS
<1>1. TypeOK /\ EstopTorqueOff /\ EstopInv /\ WatchdogInv /\ TrajectoryInv
  BY DEF StopInv
<1>2. UNCHANGED <<estopVars, age, ikAge, frameVars, pc, cmd>> /\ rt' = "sleep"
  BY DEF RtLoopStep
<1>3. TypeOK'
  <2>1. EstopTypeOK'
    BY <1>1, <1>2 DEF TypeOK, EstopTypeOK, estopVars
  <2>2. /\ hbMoved' \in BOOLEAN /\ entrySeen' \in BOOLEAN
        /\ homed' \in BOOLEAN /\ ticked' \in BOOLEAN
    BY <1>1 DEF TypeOK, RtLoopStep, TrackSafeEntry, BecomesSafe
  <2> QED
    BY <1>1, <1>2, <2>1, <2>2, StepStateCases, RtLoopStepSilence, RtLoopStepTypes
       DEF TypeOK, frameVars
<1>4. EstopTorqueOff'
  <2>1. deb' => StepState = "STOPPED"
    BY <1>1, <1>2, StepStateCases DEF EstopInv, RtLoopStep, estopVars
  <2> QED
    BY <2>1 DEF EstopTorqueOff, RtLoopStep, StoppedStep, SafeStep, SetposeTick, IdleStep
<1>5. EstopInv'
  BY <1>2 DEF EstopInv
<1>6. WatchdogInv'
  BY <1>1, RtLoopStepSilence
<1>7. TrajectoryInv'
  <2>1. CASE StoppedStep
    BY <1>1, <1>2, <2>1, StepStateCases DEF TrajectoryInv, StoppedStep
  <2>2. CASE SafeStep \/ IdleStep
    <3>1. fsm # "STOPPED" /\ fsm' # "STOPPED"
      BY <1>1, <2>2, StepStateCases DEF SafeStep, IdleStep
    <3>2. PICK pressed \in Buttons : /\ spActive' = (pressed /\ fsm' = "IDLE")
                                     /\ halted' = (halted /\ ~spActive')
      BY <2>2 DEF SafeStep, IdleStep, ButtonHome
    <3>3. halted' => halted /\ ~spActive'
      BY <1>1, <3>2 DEF TypeOK
    <3> QED
      BY <1>1, <1>2, <3>1, <3>3 DEF TrajectoryInv
  <2>3. CASE SetposeTick
    <3>1. fsm = "IDLE" /\ fsm' = "IDLE" /\ spActive /\ halted' = halted
      BY <2>3 DEF SetposeTick, StepState
    <3> QED
      BY <1>1, <1>2, <3>1 DEF TrajectoryInv
  <2> QED
    BY <2>1, <2>2, <2>3 DEF RtLoopStep
<1> QED
  BY <1>3, <1>4, <1>5, <1>6, <1>7 DEF StopInv

(* A valid frame publishes data; it writes no safety state.                *)
LEMMA FrameStop == StopInv /\ (VrFrame \/ IkFrame) => StopInv'
<1> SUFFICES ASSUME StopInv, VrFrame \/ IkFrame PROVE StopInv'
  OBVIOUS
<1>1. TypeOK /\ EstopTorqueOff /\ EstopInv /\ WatchdogInv /\ TrajectoryInv
  BY DEF StopInv
<1>2. FrameUnchanged
  BY DEF VrFrame, IkFrame
<1>3. /\ mode' \in 0 .. 6 /\ hb' \in 0 .. HbMod - 1
      /\ age' \in 0 .. FrameTimeout + 1 /\ ikAge' \in 0 .. StreamTimeout + 1
      /\ grips' \in BOOLEAN /\ consent' \in BOOLEAN
  <2>1. CASE VrFrame
    BY <1>1, <2>1 DEF TypeOK, VrFrame
  <2>2. CASE IkFrame
    BY <1>1, <2>2 DEF TypeOK, IkFrame
  <2> QED
    BY <2>1, <2>2
<1>4. hbMoved' \in BOOLEAN /\ entrySeen' \in BOOLEAN /\ homed' \in BOOLEAN
  BY <1>1 DEF TypeOK, VrFrame, IkFrame, FrameUnchanged, TrackHeartbeat
<1>5. EstopTypeOK'
  BY <1>1, <1>2 DEF TypeOK, EstopTypeOK, FrameUnchanged, estopVars
<1>6. TypeOK'
  BY <1>1, <1>2, <1>3, <1>4, <1>5 DEF TypeOK, FrameUnchanged, rtVars, mainVars
<1>7. EstopTorqueOff' /\ EstopInv' /\ WatchdogInv' /\ TrajectoryInv'
  BY <1>1, <1>2 DEF EstopTorqueOff, EstopInv, WatchdogInv, TrajectoryInv,
                    FrameUnchanged, estopVars, rtVars, mainVars
<1> QED
  BY <1>6, <1>7 DEF StopInv

(* The button is pressed, released or bounces.                             *)
LEMMA ButtonMovesStop == StopInv /\ ButtonMoves => StopInv'
<1> SUFFICES ASSUME StopInv, ButtonMoves PROVE StopInv'
  OBVIOUS
<1>1. TypeOK /\ EstopTorqueOff /\ EstopInv /\ WatchdogInv /\ TrajectoryInv
  BY DEF StopInv
<1>2. EstopTypeOK' /\ deb' = deb
  BY <1>1 DEF TypeOK, EstopTypeOK, ButtonMoves, LineChanges
<1>3. UNCHANGED <<fsm, rt, servoOn, spActive, clockVars, frameVars, rtVars,
                  mainVars, ghostVars>>
  BY DEF ButtonMoves
<1>4. TypeOK'
  BY <1>1, <1>2, <1>3
     DEF TypeOK, clockVars, frameVars, rtVars, mainVars, ghostVars, entryVars
<1>5. EstopTorqueOff' /\ EstopInv' /\ WatchdogInv' /\ TrajectoryInv'
  BY <1>1, <1>2, <1>3 DEF EstopTorqueOff, EstopInv, WatchdogInv, TrajectoryInv,
                          clockVars, rtVars, mainVars, ghostVars
<1> QED
  BY <1>4, <1>5 DEF StopInv

-----------------------------------------------------------------------------
(***************************************************************************)
(* The main thread.                                                        *)
(***************************************************************************)

(* What every step of a command leaves alone.                              *)
LEMMA UartCommandFrame ==
  ASSUME UartCommand
  PROVE  MainUnchanged /\ rt = "sleep"
BY DEF UartCommand, Receive, EstopGate, ForceState, AbortTrajectory, EnableChecks,
       EnableSetsIdle, HomeChecks, ReplySent, Launch, Goto

(* Types across the steps of a command.                                    *)
LEMMA UartCommandTypes ==
  ASSUME TypeOK, UartCommand
  PROVE  TypeOK'
<1>1. MainUnchanged
  BY UartCommandFrame
<1>2. EstopTypeOK'
  BY <1>1 DEF TypeOK, EstopTypeOK, MainUnchanged, estopVars
<1>3. pc' \in Steps /\ cmd' \in AllCommands /\ fsm' \in FsmStates
  BY DEF TypeOK, Steps, UartCommand, Receive, EstopGate, ForceState, AbortTrajectory,
         EnableChecks, EnableSetsIdle, HomeChecks, ReplySent, Launch, Goto
<1>4. ticked' \in BOOLEAN /\ spActive' \in BOOLEAN
  BY DEF TypeOK, UartCommand, Receive, EstopGate, ForceState, AbortTrajectory,
         EnableChecks, EnableSetsIdle, HomeChecks, ReplySent, Launch
<1>5. /\ hbMoved' \in BOOLEAN /\ entrySeen' \in BOOLEAN
      /\ homed' \in BOOLEAN /\ halted' \in BOOLEAN
  BY DEF TypeOK, UartCommand, Receive, EstopGate, ForceState, AbortTrajectory,
         EnableChecks, EnableSetsIdle, HomeChecks, ReplySent, Launch,
         MainUnchanged, entryVars, TrackSafeEntry, BecomesSafe, TrackHalt
<1> QED
  BY <1>1, <1>2, <1>3, <1>4, <1>5
     DEF TypeOK, MainUnchanged, clockVars, frameVars, rtVars

(* What each step does to the trajectory it accepted, aborts or launches.  *)
LEMMA UartCommandTrajectory ==
  ASSUME TypeOK, TrajectoryInv, UartCommand
  PROVE  TrajectoryInv'
<1> USE DEF TrajectoryInv, Goto
<1>1. ASSUME NEW c \in Commands, Receive(c) PROVE TrajectoryInv'
  BY <1>1 DEF Receive
<1>2. CASE EstopGate
  BY <1>2 DEF EstopGate
<1>3. CASE ForceState
  BY <1>3 DEF ForceState, TrackHalt
<1>4. CASE AbortTrajectory
  BY <1>4 DEF AbortTrajectory
<1>5. CASE EnableChecks
  BY <1>5 DEF EnableChecks
<1>6. CASE EnableSetsIdle
  BY <1>6 DEF EnableSetsIdle, TrackHalt, TypeOK
<1>7. CASE HomeChecks
  BY <1>7 DEF HomeChecks, TypeOK
<1>8. CASE ReplySent
  BY <1>8 DEF ReplySent
<1>9. CASE Launch
  BY <1>9 DEF Launch
<1> QED
  BY <1>1, <1>2, <1>3, <1>4, <1>5, <1>6, <1>7, <1>8, <1>9 DEF UartCommand

(* The main thread keeps the invariant.                                    *)
LEMMA UartCommandStop == StopInv /\ UartCommand => StopInv'
<1> SUFFICES ASSUME StopInv, UartCommand PROVE StopInv'
  OBVIOUS
<1>1. TypeOK /\ EstopTorqueOff /\ EstopInv /\ WatchdogInv /\ TrajectoryInv
  BY DEF StopInv
<1>2. MainUnchanged /\ rt = "sleep"
  BY UartCommandFrame
<1>3. EstopTorqueOff' /\ EstopInv' /\ WatchdogInv'
  BY <1>1, <1>2 DEF EstopTorqueOff, EstopInv, WatchdogInv, MainUnchanged,
                    estopVars, clockVars, rtVars
<1> QED
  BY <1>1, <1>3, UartCommandTypes, UartCommandTrajectory DEF StopInv

-----------------------------------------------------------------------------
(***************************************************************************)
(* Entries into SAFE and the consent to the stream.                        *)
(***************************************************************************)

(* Frames and commands write nothing but their own data, and none of it    *)
(* between the two halves of a tick.                                       *)
LEMMA OthersUnchanged ==
  ASSUME VrFrame \/ IkFrame \/ UartCommand \/ ButtonMoves \/ UNCHANGED vars
  PROVE  UNCHANGED <<servoOn, homed, rtVars>>
<1>1. CASE UartCommand
  BY <1>1, UartCommandFrame DEF MainUnchanged
<1>2. CASE VrFrame \/ IkFrame \/ ButtonMoves
  BY <1>2 DEF VrFrame, IkFrame, FrameUnchanged, ButtonMoves, ghostVars
<1>3. CASE UNCHANGED vars
  BY <1>3 DEF vars, rtVars
<1> QED
  BY <1>1, <1>2, <1>3

(* The first tick in SAFE takes the heartbeat of a seen entry.             *)
LEMMA EntryStep == TypeOK /\ EntryInv /\ [Next]_vars => EntryInv'
<1> SUFFICES ASSUME TypeOK, EntryInv, [Next]_vars PROVE EntryInv'
  OBVIOUS
<1> USE DEF EntryInv, EnteringSafe
<1>1. CASE EstopPollTick
  BY <1>1 DEF EstopPollTick, TrackSafeEntry, BecomesSafe, rtVars, frameVars
<1>2. CASE RtLoopStep
  <2>1. hb' = hb /\ TrackSafeEntry
    BY <1>2 DEF RtLoopStep, frameVars
  <2>2. CASE SafeStep
    <3>1. entryHb' = LatchedHb
      BY <2>2 DEF SafeStep
    <3>2. CASE fsm = "SAFE"
      BY <2>1, <3>1, <3>2 DEF TypeOK, TrackSafeEntry, BecomesSafe, LatchedHb
    <3>3. CASE fsm # "SAFE"
      BY <2>1, <3>1, <3>3 DEF TrackSafeEntry, BecomesSafe, LatchedHb
    <3> QED
      BY <3>2, <3>3
  <2>3. CASE StoppedStep \/ SetposeTick \/ IdleStep
    BY <2>3 DEF StoppedStep, SetposeTick, IdleStep
  <2> QED
    BY <1>2, <2>2, <2>3 DEF RtLoopStep
<1>3. CASE VrFrame \/ IkFrame
  BY <1>3 DEF TypeOK, VrFrame, IkFrame, FrameUnchanged, TrackHeartbeat, rtVars
<1>4. CASE UartCommand
  <2>1. hb' = hb /\ UNCHANGED rtVars
    BY <1>4, UartCommandFrame DEF MainUnchanged, frameVars
  <2>2. TrackSafeEntry \/ UNCHANGED <<fsm, entryVars>>
    BY <1>4 DEF UartCommand, Receive, EstopGate, ForceState, AbortTrajectory,
                EnableChecks, EnableSetsIdle, HomeChecks, ReplySent, Launch
  <2> QED
    BY <2>1, <2>2 DEF TypeOK, TrackSafeEntry, BecomesSafe, rtVars, entryVars
<1>5. CASE ButtonMoves
  BY <1>5 DEF ButtonMoves, ghostVars, entryVars, rtVars, frameVars
<1>6. CASE UNCHANGED vars
  BY <1>6 DEF vars
<1> QED
  BY <1>1, <1>2, <1>3, <1>4, <1>5, <1>6 DEF Next

(* Whatever raises the torque-off latch cuts the torque.                   *)
LEMMA ConsentStep == TypeOK /\ ConsentInv /\ [Next]_vars => ConsentInv'
<1> SUFFICES ASSUME TypeOK, ConsentInv, [Next]_vars PROVE ConsentInv'
  OBVIOUS
<1> USE DEF ConsentInv
<1>1. CASE EstopPollTick
  BY <1>1 DEF TypeOK, EstopPollTick, rtVars
<1>2. CASE RtLoopStep
  <2>1. homed' = (servoOn' /\ (homed \/ TrajectoryMoves))
    BY <1>2 DEF RtLoopStep
  <2>2. CASE StoppedStep \/ SafeStep
    BY <2>2 DEF StoppedStep, SafeStep
  <2>3. CASE SetposeTick
    BY <1>2, <2>1, <2>3 DEF SetposeTick, TrajectoryMoves, RtLoopStep
  <2>4. CASE IdleStep /\ JointStream
    BY <2>1, <2>4 DEF TypeOK, JointStream
  <2>5. CASE IdleStep /\ VrPipeline
    BY <2>5 DEF VrPipeline
  <2> QED
    BY <1>2, <2>2, <2>3, <2>4, <2>5 DEF RtLoopStep, IdleStep
<1>3. CASE ~EstopPollTick /\ ~RtLoopStep
  BY <1>3, OthersUnchanged DEF Next, rtVars
<1> QED
  BY <1>1, <1>2, <1>3

-----------------------------------------------------------------------------
(***************************************************************************)
(* The theorems.                                                           *)
(***************************************************************************)

(* Boot, and every step, keep the invariant.                               *)
LEMMA InitInv == Init => IInv
BY InitStop DEF Init, IInv, EntryInv, ConsentInv

LEMMA NextInv == IInv /\ [Next]_vars => IInv'
<1> SUFFICES ASSUME IInv, [Next]_vars PROVE IInv'
  OBVIOUS
<1>1. StopInv /\ TypeOK
  BY DEF IInv, StopInv
<1>2. StopInv'
  BY <1>1, StutterStop, EstopPollTickStop, RtLoopStepStop, FrameStop, UartCommandStop,
     ButtonMovesStop DEF Next
<1> QED
  BY <1>1, <1>2, EntryStep, ConsentStep DEF IInv

(* IInv holds in every reachable state.                                    *)
THEOREM Inductive == Spec => []IInv
<1>1. Init => IInv
  BY InitInv
<1>2. IInv /\ [Next]_vars => IInv'
  BY NextInv
<1> QED
  BY <1>1, <1>2, PTL DEF Spec

(* Every variable keeps its type: in particular the watchdog counter, the  *)
(* two frame ages and the debounce counter stay inside their ranges.       *)
THEOREM TypeCorrect == Spec => []TypeOK
<1>1. IInv => TypeOK
  BY DEF IInv, StopInv
<1> QED
  BY <1>1, Inductive, PTL

(* The debounced emergency stop keeps every servo off, for any debounce    *)
(* length, any command sequence and any interleaving with the tick.        *)
THEOREM EstopKeepsTorqueOff == Spec => []EstopTorqueOff
<1>1. IInv => EstopTorqueOff
  BY DEF IInv, StopInv
<1> QED
  BY <1>1, Inductive, PTL

(* Less than one watchdog period of ticks in IDLE with a silent SPI link.  *)
THEOREM SilenceIsBounded == Spec => []SilentLinkBounded
<1>1. IInv => SilentLinkBounded
  BY DEF IInv, StopInv, WatchdogInv, TypeOK, SilentLinkBounded
<1> QED
  BY <1>1, Inductive, PTL

(* A trajectory accepted before a STOPPED never moves the arm after it.    *)
THEOREM NoMotionAfterStop == Spec => NoStaleTrajectory
<1>1. IInv /\ [Next]_vars => [RtLoopStep /\ TrajectoryMoves => ~halted]_vars
  <2> SUFFICES ASSUME IInv, TrajectoryMoves PROVE ~halted
    OBVIOUS
  <2>1. fsm = "IDLE" /\ spActive
    BY DEF TrajectoryMoves, StepState
  <2> QED
    BY <2>1 DEF IInv, StopInv, TrajectoryInv
<1> QED
  BY <1>1, Inductive, PTL DEF Spec, NoStaleTrajectory

(* A tick that leaves the servos energised found IDLE and leaves IDLE.     *)
THEOREM TorqueNeedsIdle == Spec => TorqueOnlyInIdle
<1>1. [Next]_vars =>
        [rt = "step" /\ rt' = "sleep" /\ servoOn' => fsm = "IDLE" /\ fsm' = "IDLE"]_vars
  <2> SUFFICES ASSUME Next, rt = "step", rt' = "sleep", servoOn'
               PROVE  fsm = "IDLE" /\ fsm' = "IDLE"
    OBVIOUS
  <2>1. RtLoopStep
    BY UartCommandFrame DEF Next, EstopPollTick, VrFrame, IkFrame, ButtonMoves
  <2> QED
    BY <2>1 DEF RtLoopStep, StoppedStep, SafeStep, SetposeTick, IdleStep, StepState
<1> QED
  BY <1>1, PTL DEF Spec, TorqueOnlyInIdle

(* In the joint stream a tick without consent leaves on no torque but that *)
(* of a trajectory.                                                        *)
THEOREM ConsentHolds == Spec => NoConsentNoTorque
<1>1. IInv /\ [Next]_vars => [StreamTick /\ ~consent => ~servoOn' \/ homed']_vars
  <2> SUFFICES ASSUME IInv, Next, StreamTick, ~consent, servoOn' PROVE homed'
    OBVIOUS
  <2>1. RtLoopStep
    BY UartCommandFrame DEF StreamTick, Next, EstopPollTick, VrFrame, IkFrame, ButtonMoves
  <2>2. homed' = (servoOn' /\ (homed \/ TrajectoryMoves))
    BY <2>1 DEF RtLoopStep
  <2>3. CASE SetposeTick
    BY <2>1, <2>2, <2>3 DEF SetposeTick, TrajectoryMoves, RtLoopStep
  <2>4. CASE IdleStep
    <3>1. JointStream
      BY <2>4 DEF IdleStep, VrPipeline, StreamTick
    <3>2. servoOn /\ streamOff
      BY <3>1 DEF JointStream
    <3> QED
      BY <2>2, <3>2 DEF IInv, ConsentInv
  <2> QED
    BY <2>1, <2>3, <2>4 DEF RtLoopStep, StoppedStep, SafeStep
<1> QED
  BY <1>1, Inductive, PTL DEF Spec, NoConsentNoTorque

(* SAFE, entered with a rt_prev_state that shows the entry, is left by the *)
(* tick only after the heartbeat has moved.                                *)
THEOREM RearmAfterHeartbeat == Spec => SeenEntryNeedsHeartbeat
<1>1. IInv /\ [Next]_vars => [AutoRearms /\ entrySeen => hbMoved]_vars
  <2> SUFFICES ASSUME IInv, Next, AutoRearms, entrySeen PROVE hbMoved
    OBVIOUS
  <2>1. RtLoopStep
    BY UartCommandFrame DEF AutoRearms, Next, EstopPollTick, VrFrame, IkFrame, ButtonMoves
  <2>2. StepState = "SAFE"
    BY DEF AutoRearms, StepState, WatchdogTrips
  <2>3. HeartbeatRearms
    BY <2>1, <2>2 DEF AutoRearms, RtLoopStep, SafeStep, StoppedStep, SetposeTick, IdleStep
  <2>4. ~EnteringSafe /\ hb # entryHb
    BY <2>3 DEF HeartbeatRearms, LatchedHb
  <2> QED
    BY <2>4 DEF IInv, EntryInv, AutoRearms
<1> QED
  BY <1>1, Inductive, PTL DEF Spec, SeenEntryNeedsHeartbeat

(* The core implements TorqueGate: a servo that is off is energised only   *)
(* by a step in IDLE, for a trajectory, the deadman or consent.            *)
THEOREM ImplementsGate == Spec => TorqueHasCause
<1> DEFINE causes == {c \in {"trajectory", "deadman", "stream"} :
                        \/ c = "trajectory" /\ spActive
                        \/ c = "deadman" /\ grips /\ mode \in {2, 3, 4, 5}
                        \/ c = "stream" /\ mode = JOINT_STREAM /\ consent}
<1>1. Init => Gate!Init
  BY DEF Init, Gate!Init
<1>2. IInv /\ [Next]_vars => [Gate!Next]_<<fsm, causes, servoOn>>
  <2> SUFFICES ASSUME IInv, [Next]_vars
               PROVE  Gate!Next \/ UNCHANGED <<fsm, causes, servoOn>>
    OBVIOUS
  <2>1. servoOn \in BOOLEAN /\ mode \in 0 .. 6
    BY DEF IInv, StopInv, TypeOK
  <2>2. CASE RtLoopStep
    <3>1. CASE StoppedStep \/ SafeStep
      BY <3>1 DEF StoppedStep, SafeStep, Gate!Next, Gate!KeepOrCut
    <3>2. CASE SetposeTick
      <4>1. "trajectory" \in causes /\ fsm = "IDLE" /\ fsm' = "IDLE" /\ servoOn' = TRUE
        BY <3>2 DEF SetposeTick, StepState
      <4> QED
        BY <4>1 DEF Gate!Next, Gate!Energise
    <3>3. CASE IdleStep
      <4>1. fsm = "IDLE" /\ fsm' = "IDLE"
        BY <3>3 DEF IdleStep, StepState
      <4>2. \/ servoOn' = servoOn \/ servoOn' = FALSE
            \/ servoOn' = TRUE /\ causes # {}
        <5>1. CASE JointStream
          <6>1. consent => "stream" \in causes
            BY <5>1 DEF JointStream
          <6> QED
            BY <2>1, <5>1, <6>1 DEF JointStream
        <5>2. CASE VrPipeline
          <6>1. grips /\ mode \notin {0, 1} => "deadman" \in causes
            BY <2>1, <5>2 DEF VrPipeline
          <6> QED
            BY <2>1, <5>2, <6>1 DEF VrPipeline
        <5> QED
          BY <3>3, <5>1, <5>2 DEF IdleStep
      <4> QED
        BY <4>1, <4>2 DEF Gate!Next, Gate!Energise, Gate!KeepOrCut
    <3> QED
      BY <2>2, <3>1, <3>2, <3>3 DEF RtLoopStep
  <2>3. CASE ~RtLoopStep
    <3>1. servoOn' = servoOn \/ servoOn' = FALSE
      <4>1. CASE UartCommand
        BY <4>1, UartCommandFrame DEF MainUnchanged
      <4>2. CASE EstopPollTick
        BY <2>1, <4>2 DEF EstopPollTick
      <4>3. CASE VrFrame \/ IkFrame \/ ButtonMoves
        BY <4>3 DEF VrFrame, IkFrame, FrameUnchanged, ButtonMoves
      <4>4. CASE UNCHANGED vars
        BY <4>4 DEF vars
      <4> QED
        BY <2>3, <4>1, <4>2, <4>3, <4>4 DEF Next
    <3> QED
      BY <3>1 DEF Gate!Next, Gate!KeepOrCut
  <2> QED
    BY <2>2, <2>3
<1> QED
  BY <1>1, <1>2, Inductive, PTL DEF Spec, TorqueHasCause, Gate!Spec
=============================================================================
