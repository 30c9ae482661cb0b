----------------------------- MODULE SelfTest -----------------------------
(***************************************************************************)
(* The IMU self test (self_test_imu.py and imu_modal_test.py) beside the   *)
(* operators of the server (WsUart.tla).  It drives the arm through a      *)
(* connection to the server of its own, as an operator would: SAFE,        *)
(* ENABLE, HOME, then pose after pose, each sampled at rest; at the end    *)
(* the wrist is excited once more with requests that do not pass through   *)
(* the handler of the operators.                                           *)
(*                                                                         *)
(* The test reads its connection in order, so the answer to its command    *)
(* moves it on in the step that sends it, and so does the SETPOSE_DONE     *)
(* that is broadcast; one that comes while it expects an answer, or while  *)
(* it samples, is discarded.  It samples after a pause of seconds.         *)
(*                                                                         *)
(* The connection stands for a second operator while no test runs.         *)
(***************************************************************************)
EXTENDS WsUart

CONSTANTS
  Tester,      (* the connection of the test                               *)
  Poses,       (* poses of the axis test besides HOME and home_ref         *)
  Wrists,      (* wrist joints of the modal test                           *)
  MaxTests,    (* tests in a run                                           *)
  MaxSequences (* tests and demos in a run                                 *)

ASSUME SelfTestAssumption ==
       /\ Tester \in Clients /\ Poses \in Nat /\ Wrists \in Nat /\ MaxTests \in Nat
       /\ MaxSequences \in Nat

VARIABLES
  test,        (* what the test does, or "off"                             *)
  pose,        (* the pose it is at, or the wrist joint                    *)
  tests        (* tests started                                            *)

(* The arm, as long as the axis test has it for itself.                    *)
VARIABLES
  aim,         (* the pose of the test's last motion                       *)
  place,       (* the pose the arm stands at, or moves from to the same    *)
  upset        (* somebody else moved the arm, or stopped it when it had   *)
               (* come to the pose                                         *)

testVars == <<test, pose, tests>>
arm == <<aim, place, upset>>
allVars == <<vars, testVars, arm>>

(* The command of each position; HOME and home_ref are the same place.     *)
AxisCommand == [safe |-> "SAFE", enable |-> "STATUS?", home |-> "HOME", pose |-> "SETPOSE"]
ModalCommand == [modalSafe |-> "SAFE", modalEnable |-> "ENABLE",
                 modalHome |-> "SETPOSE", out |-> "SETPOSE", back |-> "SETPOSE"]
Resting == {"zero", "sample"}
Axis == DOMAIN AxisCommand \cup {"homeDone", "poseDone"} \cup Resting
(* Where the arm is when it is at none of the poses.                       *)
Elsewhere == Poses + 1
Places == 0 .. Elsewhere

SelfTestTypeOK ==
  /\ TypeOK
  /\ test \in Axis \cup DOMAIN ModalCommand \cup {"off"}
  /\ pose \in 0 .. Poses \cup 0 .. Wrists /\ tests \in 0 .. MaxTests
  /\ aim \in Places /\ place \in Places /\ upset \in BOOLEAN

SelfTestInit ==
  /\ Init
  /\ test = "off" /\ pose = 0 /\ tests = 0
  /\ aim = Elsewhere /\ place = Elsewhere /\ upset = FALSE

-----------------------------------------------------------------------------
(* The test and the task that serves its connection are idle, and no demo  *)
(* runs.                                                                   *)
Start ==
  /\ test = "off" /\ step[Tester] = "idle" /\ ~DemoRuns
  /\ tests < MaxTests /\ tests' = tests + 1
  /\ demoId + tests < MaxSequences
  /\ test' = "safe"
  /\ UNCHANGED <<vars, pose>>

(* A test that has ended is at no pose. *)
SamePose == pose' = IF test' = "off" THEN 0 ELSE pose

(* The commands of the axis test pass through handle_uart_cmd, which       *)
(* probes the state on ENABLE; those of the modal test do not.             *)
Sends ==
  /\ step[Tester] = "idle"
  /\ \/ /\ test \in DOMAIN AxisCommand
        /\ Ask(Tester, For(Tester, AxisCommand[test]),
               IF test = "enable" THEN "probe" ELSE "send")
     \/ /\ test \in DOMAIN ModalCommand
        /\ Ask(Tester, For(Tester, ModalCommand[test]), "direct")
  /\ UNCHANGED <<robot, stuck, due, demoVars, flags, commands, faults, ended,
                 testVars>>

(* Fault: the wait for SETPOSE_DONE is left out. *)
SamplesAtOnce ==
  /\ Answered(Tester)
  /\ test' = IF step'[Tester] # "idle" \/ test \notin DOMAIN AxisCommand THEN test
             ELSE IF test = "safe" THEN "enable"
             ELSE IF ~Ok(Tester) THEN "off"
             ELSE CASE test = "enable" -> "home" [] test = "home" -> "zero"
                    [] test = "pose" -> "sample"
  /\ SamePose /\ UNCHANGED tests

(* The answer of the handler: that to SAFE is not looked at, any other     *)
(* that is not OK fails the test.                                          *)
AxisAnswered ==
  /\ Answered(Tester)
  /\ test' = IF step'[Tester] # "idle" \/ test \notin DOMAIN AxisCommand THEN test
             ELSE IF test = "safe" THEN "enable"
             ELSE IF ~Ok(Tester) THEN "off"
             ELSE CASE test = "enable" -> "home" [] test = "home" -> "homeDone"
                    [] test = "pose" -> "poseDone"
  /\ SamePose /\ UNCHANGED tests

(* The modal test goes on while it is answered OK; the self test completes *)
(* in any case.                                                            *)
ModalAnswered ==
  /\ step[Tester] = "direct" /\ (Ok(Tester) \/ OutOfTries(Tester))
  /\ Goto(Tester, "idle")
  /\ test' = IF ~Ok(Tester) THEN "off"
             ELSE CASE test = "modalSafe" -> "modalEnable"
                    [] test = "modalEnable" -> "modalHome"
                    [] test = "out" -> "back"
                    [] OTHER -> IF pose < Wrists THEN "out" ELSE "off"
  /\ IF test' = "out" THEN pose' = pose + 1 ELSE SamePose
  /\ UNCHANGED <<robot, stuck, due, demoVars, flags, commands, faults, ended,
                 tests>>

(* Any SETPOSE_DONE ends the wait for one.                                 *)
DoneHeard ==
  /\ SetposeDone
  /\ test' = CASE test = "homeDone" -> "zero" [] test = "poseDone" -> "sample"
               [] OTHER -> test
  /\ UNCHANGED <<pose, tests>>

(* Fault: the test waits for SETPOSE_DONE without a time limit. *)
WaitsForEver == FALSE /\ UNCHANGED <<vars, testVars>>

(* No SETPOSE_DONE in 20 s, more than any motion of the test takes.        *)
DoneMissing ==
  /\ test \in {"homeDone", "poseDone"}
  /\ done = "none" /\ moving.by # Tester
  /\ test' = "off"
  /\ SamePose /\ UNCHANGED <<vars, tests>>

(* After the pause, in which a motion to where the arm already was (20 ms) *)
(* ends and is reported, the telemetry of some seconds is collected.       *)
Samples ==
  /\ test \in Resting
  /\ done = "none" /\ ~(moving.by = Tester /\ place = pose)
  /\ \/ /\ test = "zero" /\ test' = "pose" /\ pose' = 0
     \/ /\ test = "sample" /\ pose < Poses /\ test' = "pose" /\ pose' = pose + 1
     \/ /\ test = "sample" /\ pose = Poses /\ test' = "modalSafe" /\ pose' = 0
  /\ UNCHANGED <<vars, tests>>

(* No message for 2 s, or no valid orientation among the samples.          *)
TelemetryMissing ==
  /\ test \in Axis /\ Fault("imu")
  /\ test' = "off"
  /\ SamePose
  /\ UNCHANGED <<robot, uart, tasks, due, demoVars, flags, commands, ended,
                 tests>>

-----------------------------------------------------------------------------
(* What becomes of the arm in a step.  A motion to where it stands leaves  *)
(* it there; without torque it sags.  Once it is upset its place is left   *)
(* out.                                                                    *)
Starts == moving' # moving /\ moving' # NoRequest
Lands == moving # NoRequest /\ moving' = NoRequest /\ fsm' = "IDLE"

Upset ==
  \/ upset
  \/ Starts /\ moving'.by # Tester
  \/ fsm' # "IDLE" /\ place = pose
  \/ test = "safe" /\ test' = "enable" /\ moving # NoRequest

Watched ==
  /\ upset' = (test' \in Axis /\ Upset)
  /\ IF test' \notin Axis \/ upset'
     THEN aim' = Elsewhere /\ place' = Elsewhere
     ELSE /\ aim' = IF Starts THEN pose ELSE aim
          /\ place' = IF fsm' # "IDLE" \/ (Starts /\ aim' # place) THEN Elsewhere
                      ELSE IF Lands THEN aim ELSE place

Operator(c) ==
  \/ Enable(c) \/ Stop(c) \/ OtherCommand(c) \/ StopDemo(c)
  \/ demoId + tests < MaxSequences /\ StartDemo(c)

OthersNext ==
  /\ \/ \E t \in Tasks : Retry(t) \/ GiveUp(t)
     \/ \E c \in Clients :
          \/ (c = Tester => test = "off") /\ Operator(c)
          \/ c # Tester /\ Answered(c)
     \/ Serve \/ ServeLost \/ TrajectoryEnds \/ FirmwareStops
     \/ SendDeferred \/ Demo \/ DemoTimesOut
  /\ UNCHANGED testVars

TestNext ==
  \/ Start \/ Sends \/ AxisAnswered \/ ModalAnswered \/ DoneHeard
  \/ DoneMissing \/ Samples \/ TelemetryMissing

SelfTestNext == (OthersNext \/ TestNext) /\ Watched

SelfTestSpec == SelfTestInit /\ [][SelfTestNext]_allVars

(* As in WsUart; the pauses and time limits of the test expire.            *)
SelfTestFairSpec ==
  /\ SelfTestSpec
  /\ Fairness
  /\ WF_allVars((Sends \/ ModalAnswered \/ DoneMissing \/ Samples) /\ Watched)

-----------------------------------------------------------------------------
(***************************************************************************)
(* Properties.                                                             *)
(***************************************************************************)

(* What the axis test samples is an arm at rest in the pose it commanded,  *)
(* although it takes any SETPOSE_DONE for its own, SAFE is not checked and *)
(* the arm may be stopped, enabled again and stopped on the way: unless    *)
(* somebody else moved the arm, or stopped it under the test's eyes.       *)
SampledAtRest ==
  [][Samples /\ ~upset => moving = NoRequest /\ place = pose]_allVars

(* A self test ends, although a STOP cancels the SETPOSE_DONE it waits for *)
(* and a lost reply may block the UART for ever.                           *)
TestEnds == test # "off" ~> test = "off"

-----------------------------------------------------------------------------
(***************************************************************************)
(* Why SampledAtRest holds: the inductive invariant.  The test's task is   *)
(* where its connection says; ...                                          *)
(***************************************************************************)
AskedBy(t, cmd) == step[t] = "send" /\ asked[t].cmd = cmd

ConnectionInv ==
  /\ test = "safe" => step[Tester] = "idle" \/ AskedBy(Tester, "SAFE")
  /\ test = "home" => step[Tester] = "idle" \/ AskedBy(Tester, "HOME")
  /\ test = "pose" => step[Tester] = "idle" \/ AskedBy(Tester, "SETPOSE")
  /\ test \in {"homeDone", "poseDone"} \cup Resting => step[Tester] = "idle"

(* ... the arm's place is known as long as the axis test has it; ...       *)
PoseInv ==
  /\ test \in Axis => pose \in 0 .. Poses
  /\ test \in {"off", "safe", "enable", "home", "homeDone", "zero"} => pose = 0
  /\ test \notin Axis => ~upset
  /\ test \notin Axis \/ test = "safe" \/ upset => aim = Elsewhere /\ place = Elsewhere

(* ... only the test moves it from the moment its SAFE was answered, and   *)
(* to the pose it is at; ...                                               *)
Alone == test \in Axis \ {"safe"} /\ ~upset
AloneInv == Alone /\ moving # NoRequest => moving.by = Tester /\ aim = pose

(* ... and a SETPOSE_DONE that may be taken for that of the motion comes   *)
(* after the arm has got there: what is left from before the test is       *)
(* reported before the firmware takes the command that follows ENABLE.     *)
AtPose == place = pose
DoneInv ==
  Alone =>
    /\ test = "enable" /\ Ok(Tester) /\ done = "new" => AtPose
    /\ test = "home" /\ done = "new" => AtPose
    /\ test \in {"home", "pose"} /\ Ok(Tester) /\ done # "none" => AtPose
    /\ test \in {"homeDone", "poseDone"} /\ done # "none" => AtPose
    /\ test = "pose" /\ reply[Tester] \in {"none", "pending"} /\ ~stuck =>
         moving = NoRequest /\ done = "none"
    /\ test \in Resting => AtPose

RestInv ==
  /\ DemosInv /\ SelfTestTypeOK
  /\ ConnectionInv /\ PoseInv /\ AloneInv /\ DoneInv
=============================================================================
