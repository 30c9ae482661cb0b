------------------------------ MODULE SetPose ------------------------------
(***************************************************************************)
(* The hand-over of a trajectory from the thread that requests it to the   *)
(* tick that executes it (servo/j5vr_setpose.c).  The request fills        *)
(* g_setpose_state field by field in the main thread, with active = false  *)
(* meanwhile; the 1 kHz tick preempts it, reads every field while active   *)
(* is true, and ends the trajectory.  The user button makes the tick       *)
(* itself fill the same structure, all at once.                            *)
(*                                                                         *)
(* A field is represented by the request that wrote it last.  Requests are *)
(* numbered; each is a j5vr_go_setpose (HOME, PARK, TELEOPPOSE, SETPOSE)   *)
(* or a j5vr_go_setpose_time (SETPOSE_T, SETPOSE_T_HR).  The wake-up tap   *)
(* is compiled out and left out.                                           *)
(*                                                                         *)
(* j5vr_go_setpose stores active = false in a plain field that it sets to  *)
(* true 30 lines below: no access between the two obliges the compiler to  *)
(* keep the first store.  StoreKept holds the outcomes a build may have.   *)
(* j5vr_go_setpose_time stores it through a pointer to volatile.           *)
(***************************************************************************)
EXTENDS Naturals

CONSTANTS
  MaxRequests,  (* requests in a run of the model                          *)
  StoreKept,    (* outcomes for the first store of j5vr_go_setpose         *)
  Buttons       (* may the user button be pressed                          *)

ASSUME SetPoseAssumption ==
       /\ MaxRequests \in Nat
       /\ StoreKept \subseteq BOOLEAN /\ StoreKept # {}
       /\ Buttons \subseteq BOOLEAN

VARIABLES
  stepping,  (* the state is IDLE: the tick runs trajectories              *)
  active,    (* g_setpose_state.active                                     *)
  duration,  (* request that wrote duration_ticks (and profile)            *)
  start,     (* request that wrote start_tick                              *)
  qStart,    (* request that wrote q_start                                 *)
  qTarget,   (* request that wrote q_target                                *)
  relax,     (* request whose relax_digital_on_finish is set, 0 for none   *)
  storeKept, (* this build's outcome                                       *)
  pc,        (* the main thread's next step in a request                   *)
  timed,     (* the request in progress is a j5vr_go_setpose_time          *)
  home,      (* it is HOME: relax the wrist when it ends                   *)
  me,        (* its number                                                 *)
  last       (* numbers used so far                                        *)

(* History: read by no action, used to state properties.                   *)
VARIABLES
  filling,      (* a request has passed its first store and not its last   *)
  crossed,      (* the button filled the structure during such a request   *)
  homeRequests  (* requests that were HOME                                 *)

fields == <<duration, start, qStart, qTarget>>
requestVars == <<pc, timed, home, me, filling>>
history == <<crossed, homeRequests>>
setposeVars == <<stepping, active, duration, start, qStart, qTarget, relax,
                 storeKept, pc, timed, home, me, last, filling, crossed,
                 homeRequests>>

Ids == 0 .. MaxRequests
Steps == {"idle", "clear", "duration", "start", "fill", "relaxOff", "activate",
          "relaxOn"}

SetPoseTypeOK ==
  /\ stepping \in BOOLEAN /\ active \in BOOLEAN /\ storeKept \in BOOLEAN
  /\ duration \in Ids /\ start \in Ids /\ qStart \in Ids /\ qTarget \in Ids
  /\ relax \in homeRequests \cup {0}
  /\ pc \in Steps /\ timed \in BOOLEAN /\ home \in BOOLEAN
  /\ me \in Ids /\ last \in Ids
  /\ filling \in BOOLEAN /\ crossed \in BOOLEAN /\ homeRequests \subseteq Ids

SetPoseInit ==
  /\ stepping = FALSE /\ active = FALSE
  /\ duration = 0 /\ start = 0 /\ qStart = 0 /\ qTarget = 0 /\ relax = 0
  /\ storeKept \in StoreKept
  /\ pc = "idle" /\ timed = FALSE /\ home = FALSE /\ me = 0 /\ last = 0
  /\ filling = FALSE /\ crossed = FALSE /\ homeRequests = {}

-----------------------------------------------------------------------------
(***************************************************************************)
(* The requesting thread (main).                                           *)
(***************************************************************************)
Goto(from, to) == pc = from /\ pc' = to

(* A motion command finds the state IDLE and is answered "OK"; by the time *)
(* the answer is out and the request begins the state may have changed.    *)
(* A command that is refused (busy, format, range, planner) asks nothing.  *)
Accepts(isTimed, isHome) ==
  /\ Goto("idle", "clear")
  /\ stepping
  /\ last < MaxRequests
  /\ last' = last + 1 /\ me' = last'
  /\ timed' = isTimed /\ home' = isHome
  /\ homeRequests' = IF isHome THEN homeRequests \cup {me'} ELSE homeRequests
  /\ UNCHANGED <<stepping, active, fields, relax, storeKept, filling,
                 crossed>>

Center == Accepts(FALSE, TRUE)              (* HOME                        *)
GoSetpose == Accepts(FALSE, FALSE)          (* SETPOSE, PARK, TELEOPPOSE   *)
GoSetposeTime == Accepts(TRUE, FALSE)       (* SETPOSE_T, SETPOSE_T_HR     *)
Request == Center \/ GoSetpose \/ GoSetposeTime

(* Fault: the tick keeps running the trajectory that is being replaced. *)
ClearForgotten ==
  /\ Goto("clear", "duration")
  /\ filling' = TRUE /\ crossed' = FALSE
  /\ UNCHANGED <<stepping, active, fields, relax, storeKept, timed, home, me,
                 last, homeRequests>>

ClearActive ==
  /\ Goto("clear", "duration")
  /\ active' = (active /\ ~timed /\ ~storeKept)
  /\ filling' = TRUE /\ crossed' = FALSE
  /\ UNCHANGED <<stepping, fields, relax, storeKept, timed, home, me, last,
                 homeRequests>>

FillDuration ==
  /\ Goto("duration", "start")
  /\ duration' = me
  /\ UNCHANGED <<stepping, active, start, qStart, qTarget, relax, storeKept,
                 timed, home, me, last, filling, history>>

FillStart ==
  /\ Goto("start", "fill")
  /\ start' = me
  /\ UNCHANGED <<stepping, active, duration, qStart, qTarget, relax, storeKept,
                 timed, home, me, last, filling, history>>

(* The joint loops; q_start may be written before q_target or after it.    *)
FillPositions ==
  /\ \/ Goto("fill", "relaxOff") /\ qStart' = me /\ qTarget' = me
     \/ Goto("fill", "fill") /\ qStart' = me /\ UNCHANGED qTarget
     \/ Goto("fill", "fill") /\ qTarget' = me /\ UNCHANGED qStart
  /\ UNCHANGED <<stepping, active, duration, start, relax, storeKept,
                 timed, home, me, last, filling, history>>

(* Fault: the previous request's relaxation survives. *)
RelaxSurvives ==
  /\ Goto("relaxOff", "activate")
  /\ UNCHANGED <<stepping, active, fields, relax, storeKept, timed, home, me,
                 last, filling, history>>

ClearRelax ==
  /\ Goto("relaxOff", "activate")
  /\ relax' = 0
  /\ UNCHANGED <<stepping, active, fields, storeKept, timed, home, me, last,
                 filling, history>>

ActivateTrajectory ==
  /\ Goto("activate", IF home THEN "relaxOn" ELSE "idle")
  /\ active' = TRUE
  /\ filling' = FALSE
  /\ UNCHANGED <<stepping, fields, relax, storeKept, timed, home, me, last,
                 history>>

(* j5vr_setpose_request_relax_digital_on_finish, after the activation.     *)
RequestRelax ==
  /\ Goto("relaxOn", "idle")
  /\ relax' = me
  /\ UNCHANGED <<stepping, active, fields, storeKept, timed, home, me, last,
                 filling, history>>

(* STOP and SAFE, between two requests: j5vr_setpose_abort.                *)
MainAborts ==
  /\ pc = "idle"
  /\ stepping' = FALSE
  /\ active' = FALSE /\ relax' = 0
  /\ UNCHANGED <<fields, storeKept, requestVars, last, history>>

-----------------------------------------------------------------------------
(***************************************************************************)
(* The real-time thread; a tick is one step for the main thread.           *)
(***************************************************************************)

(* j5vr_setpose_tick while active: it reads every field, and when the time *)
(* is over it ends the trajectory and relaxes the wrist if asked to.       *)
TickMoves ==
  /\ stepping /\ active
  /\ \/ UNCHANGED <<active, relax>>
     \/ active' = FALSE /\ relax' = 0
  /\ UNCHANGED <<stepping, fields, storeKept, requestVars, last, history>>

(* The user button in a tick without trajectory: j5vr_center_all_servos.   *)
TickButton ==
  /\ stepping /\ ~active
  /\ TRUE \in Buttons
  /\ last < MaxRequests
  /\ last' = last + 1
  /\ duration' = last' /\ start' = last' /\ qStart' = last' /\ qTarget' = last'
  /\ active' = TRUE /\ relax' = last'
  /\ homeRequests' = homeRequests \cup {last'}
  /\ crossed' = (crossed \/ filling)
  /\ UNCHANGED <<stepping, storeKept, requestVars>>

(* The E-STOP engages, or the tick finds another state than IDLE.          *)
TickAborts ==
  /\ stepping' = FALSE
  /\ active' = FALSE /\ relax' = 0
  /\ UNCHANGED <<fields, storeKept, requestVars, last, history>>

(* IDLE again, by ENABLE or by the heartbeat.                              *)
Rearm ==
  /\ ~stepping /\ stepping' = TRUE
  /\ UNCHANGED <<active, fields, relax, storeKept, requestVars, last, history>>

SetPoseNext ==
  \/ Request \/ ClearActive \/ FillDuration \/ FillStart \/ FillPositions
  \/ ClearRelax \/ ActivateTrajectory \/ RequestRelax \/ MainAborts
  \/ TickMoves \/ TickButton \/ TickAborts \/ Rearm

SetPoseSpec == SetPoseInit /\ [][SetPoseNext]_setposeVars

-----------------------------------------------------------------------------
(***************************************************************************)
(* Properties.                                                             *)
(***************************************************************************)

(* The hand-over has not been disturbed: the button has not filled the     *)
(* structure in the middle of the main thread's request, and the tick does *)
(* not run while a request whose first store has vanished is in progress.  *)
Undisturbed == ~crossed /\ (storeKept \/ timed \/ ~filling)

(* The tick never moves the arm along a mixture of two requests (new       *)
(* duration, old start, say: a jump to the target), whatever aborts,       *)
(* replaces or outlives the trajectory.                                    *)
Whole == duration = start /\ start = qStart /\ qStart = qTarget
WholeTrajectory == [][TickMoves /\ Undisturbed => Whole]_setposeVars

(* The wrist is relaxed at the end of HOME and of nothing else.            *)
RelaxOnlyHome ==
  [][TickMoves /\ ~active' /\ relax # 0 /\ Undisturbed
       => qTarget \in homeRequests]_setposeVars

-----------------------------------------------------------------------------
(***************************************************************************)
(* Why (the inductive invariant).  Unless the button has crossed the       *)
(* request, the fields behind its place are its own, ...                   *)
(***************************************************************************)
FillingInv ==
  /\ filling <=> pc \in {"duration", "start", "fill", "relaxOff", "activate"}
  /\ ~crossed =>
       /\ pc \in {"start", "fill", "relaxOff", "activate"} => duration = me
       /\ pc \in {"fill", "relaxOff", "activate"} => start = me
       /\ pc \in {"relaxOff", "activate"} => qStart = me /\ qTarget = me

(* ... nothing is active meanwhile if the first store was kept, and what   *)
(* is active otherwise is whole; ...                                       *)
ActiveInv ==
  /\ active /\ filling => ~Undisturbed
  /\ active /\ ~filling /\ ~crossed => Whole

(* ... and who asks for the relaxation, or has asked, was HOME.            *)
RelaxInv ==
  /\ pc # "idle" /\ home => me \in homeRequests
  /\ pc = "relaxOn" => home
  /\ ~crossed =>
       /\ pc = "activate" => relax = 0
       /\ pc = "relaxOn" => qTarget \in homeRequests
       /\ relax # 0 /\ ~filling => qTarget \in homeRequests

SetPoseInv == SetPoseTypeOK /\ FillingInv /\ ActiveInv /\ RelaxInv
=============================================================================
