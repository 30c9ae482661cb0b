---------------------------- MODULE JointStream ----------------------------
(***************************************************************************)
(* Joint streaming over protocol v2: the master of the link and the        *)
(* firmware at the other end.  The master is the ROS 2 SPI driver node,    *)
(* which keeps the operator's consent (spi_driver_node.py, with the bridge *)
(* it uses, j5vr_spi_bridge.py), or the ros2_control plugin, which gives   *)
(* consent by itself when the command is where the arm is                  *)
(* (jonny5_system.cpp).  SpiLink has the bytes; here a frame and a reply   *)
(* either arrive or do not.                                                *)
(*                                                                         *)
(* One step of the link is one exchange, a tick of the node's timer (10    *)
(* ms) or a cycle of the controller manager, read then write, and then     *)
(* what the firmware does until the next one.  Ages count exchanges and    *)
(* stop one past the limit they are compared with.  The six joints are one *)
(* coordinate; a SETPOSE moves it home.                                    *)
(***************************************************************************)
EXTENDS Integers

CONSTANTS
  Masters,       (* which of "node" and "plugin" may be there              *)
  MaxPos,        (* the coordinate goes from 0, home, to MaxPos            *)
  Gate,          (* stream_arm_gate_rad, arm_gate_rad                      *)
  LinkTimeout,   (* LINK_TIMEOUT_S, link_timeout_ms                        *)
  StreamTimeout, (* J5IK_STREAM_TIMEOUT_MS                                 *)
  FrameTimeout   (* SPI_FRAME_TIMEOUT_MS                                   *)

ASSUME JointStreamAssumption ==
       /\ {MaxPos, Gate, LinkTimeout, StreamTimeout, FrameTimeout} \subseteq Nat
       /\ Masters \subseteq {"node", "plugin"}

VARIABLES
  master,     (* which of the two it is                                    *)
  (* The master.                                                           *)
  node,       (* "up", "closing" (safe_stop, on_deactivate), "down";       *)
              (* "polling": on_activate, which waits for telemetry         *)
  cmd,        (* last joint command, -1 for none                           *)
  cmdFresh,   (* it is not older than joint_cmd_timeout_s                  *)
  intent,     (* there is a TeleopIntent younger than intent_timeout_s     *)
  seen,       (* _v2_state: the last new TELEMETRY_V2                      *)
  seenAge,    (* age of the last new telemetry                             *)
  enabled,    (* _stream_enabled, stream_armed_                            *)
  (* The firmware.                                                         *)
  fsm,        (* SAFE, IDLE or STOPPED                                     *)
  setpose,    (* a SETPOSE runs                                            *)
  known,      (* a SETPOSE has completed since the boot                    *)
  pos,        (* where it has sent the servos                              *)
  frame,      (* the last frame accepted: "none", "idle", "vr" or a target *)
  frameAge,
  reply       (* the telemetry loaded for the next exchange                *)

(* History: for how many exchanges in a row the firmware has been out of   *)
(* IDLE, or in a SETPOSE, in spite of the consent; and how many have       *)
(* passed since the consent ended or ought to have: because the telemetry  *)
(* has said so, or the firmware has been away for longer than LinkTimeout. *)
VARIABLES away, overdue

inputs == <<cmd, cmdFresh, intent>>
nodeVars == <<master, node, inputs, seen, seenAge, enabled>>
firmware == <<fsm, setpose, known, pos, frame, frameAge, reply>>
lapse == <<away, overdue>>
streamVars == <<nodeVars, firmware, lapse>>

Positions == 0 .. MaxPos
Report == [fsm : {"SAFE", "IDLE", "STOPPED"}, setpose : BOOLEAN, known : BOOLEAN,
           pos : Positions]
Nothing == [fsm |-> "none"]
Frames == [kind : {"none", "idle", "vr"}] \cup [kind : {"ik"}, target : Positions]

StreamTypeOK ==
  /\ master \in {"node", "plugin"}
  /\ node \in {"up", "polling", "closing", "down"} /\ cmd \in Positions \cup {-1}
  /\ cmdFresh \in BOOLEAN /\ intent \in BOOLEAN
  /\ seen \in Report \cup {Nothing} /\ seenAge \in 0 .. LinkTimeout + 1
  /\ enabled \in BOOLEAN
  /\ fsm \in {"SAFE", "IDLE", "STOPPED"} /\ setpose \in BOOLEAN
  /\ known \in BOOLEAN /\ pos \in Positions /\ frame \in Frames
  /\ frameAge \in 0 .. FrameTimeout + 1 /\ reply \in Report
  /\ away \in 0 .. LinkTimeout + 3 /\ overdue \in 0 .. StreamTimeout + 2

Current == [fsm |-> fsm, setpose |-> setpose, known |-> known, pos |-> pos]

StreamInit ==
  /\ master \in Masters
  /\ node = IF master = "node" THEN "up" ELSE "polling"
  /\ cmd = -1 /\ cmdFresh = FALSE /\ intent = FALSE
  /\ seen = Nothing /\ seenAge = LinkTimeout + 1 /\ enabled = FALSE
  /\ fsm = "SAFE" /\ setpose = FALSE /\ known = FALSE /\ pos \in Positions
  /\ frame = [kind |-> "none"] /\ frameAge = FrameTimeout + 1
  /\ reply = Current
  /\ away = 0 /\ overdue = StreamTimeout + 2

Distance(a, b) == IF a > b THEN a - b ELSE b - a

Towards(a, b) == IF a < b THEN a + 1 ELSE IF a > b THEN a - 1 ELSE a

Older(age, limit) == IF age > limit THEN age ELSE age + 1

-----------------------------------------------------------------------------
(***************************************************************************)
(* What the master receives.                                               *)
(***************************************************************************)
JointCommand ==
  /\ master = "node" /\ node = "up" /\ cmd' \in Positions /\ cmdFresh' = TRUE
  /\ UNCHANGED <<master, node, intent, seen, seenAge, enabled, firmware, lapse>>

(* A controller of the plugin commands, or starts where the arm is said to *)
(* be, which is one of the positions it could command.                     *)
ControllerCommand ==
  /\ master = "plugin" /\ node = "up" /\ cmd' \in Positions
  /\ UNCHANGED <<master, node, cmdFresh, intent, seen, seenAge, enabled, firmware,
                 lapse>>

TeleopIntent ==
  /\ master = "node" /\ node = "up" /\ intent' = TRUE
  /\ UNCHANGED <<master, node, cmd, cmdFresh, seen, seenAge, enabled, firmware, lapse>>

(* The last one, of either kind, gets too old.                             *)
InputExpires ==
  /\ \/ cmdFresh' = FALSE /\ UNCHANGED intent
     \/ intent' = FALSE /\ UNCHANGED cmdFresh
  /\ UNCHANGED <<master, node, cmd, seen, seenAge, enabled, firmware, lapse>>

(* The firmware follows the stream.                                        *)
Streams(report) == report.fsm = "IDLE" /\ ~report.setpose

(* The telemetry says that the arm may be streamed to, and where it is.    *)
ReadyFor(c) ==
  /\ Streams(seen) /\ seen.known
  /\ Distance(c, seen.pos) <= Gate

(* _stream_enable_refusal: the request is accepted.                        *)
Acceptable ==
  /\ cmdFresh
  /\ seen # Nothing /\ seenAge <= LinkTimeout
  /\ ReadyFor(cmd)

StreamEnable ==
  /\ master = "node" /\ node = "up" /\ Acceptable
  /\ enabled' = TRUE
  /\ away' = 0 /\ overdue' = 0
  /\ UNCHANGED <<master, node, inputs, seen, seenAge, firmware>>

StreamDisable ==
  /\ master = "node" /\ node = "up" /\ enabled' = FALSE
  /\ UNCHANGED <<master, node, inputs, seen, seenAge, firmware, lapse>>

(* safe_stop, on_deactivate: a few frames without consent follow.          *)
Closes ==
  /\ node = "up" /\ node' = "closing"
  /\ enabled' = FALSE /\ intent' = FALSE
  /\ UNCHANGED <<master, cmd, cmdFresh, seen, seenAge, firmware, lapse>>

Shutdown == master = "node" /\ Closes
Deactivate == master = "plugin" /\ Closes

(* Also a crash, or on_activate that gets no telemetry.                    *)
NodeDies ==
  /\ node # "down" /\ node' = "down" /\ enabled' = FALSE
  /\ UNCHANGED <<master, inputs, seen, seenAge, firmware, lapse>>

(* read(): without telemetry the plugin stops, and sends nothing more.     *)
LinkIsLost == master = "plugin" /\ node = "up" /\ seenAge > LinkTimeout

LinkLost ==
  /\ LinkIsLost
  /\ node' = "down" /\ enabled' = FALSE
  /\ UNCHANGED <<master, inputs, seen, seenAge, firmware, lapse>>

(* A new node knows nothing; the plugin asks for telemetry first.          *)
StartsAs(state) ==
  /\ node = "down" /\ node' = state
  /\ cmd' = -1 /\ cmdFresh' = FALSE /\ intent' = FALSE
  /\ seen' = Nothing /\ seenAge' = LinkTimeout + 1 /\ enabled' = FALSE
  /\ UNCHANGED <<master, firmware, lapse>>

Restart == master = "node" /\ StartsAs("up")
Activate == master = "plugin" /\ StartsAs("polling")

-----------------------------------------------------------------------------
(***************************************************************************)
(* What the firmware receives from the operator: HOME, SAFE or E-STOP, and *)
(* ENABLE.                                                                 *)
(***************************************************************************)
Home ==
  /\ fsm = "IDLE" /\ ~setpose
  /\ setpose' = TRUE
  /\ UNCHANGED <<nodeVars, fsm, known, pos, frame, frameAge, reply, lapse>>

Stop ==
  /\ fsm = "IDLE" /\ fsm' \in {"SAFE", "STOPPED"}
  /\ setpose' = FALSE
  /\ UNCHANGED <<nodeVars, known, pos, frame, frameAge, reply, lapse>>

Enable ==
  /\ fsm # "IDLE" /\ fsm' = "IDLE"
  /\ away' = 0
  /\ UNCHANGED <<nodeVars, setpose, known, pos, frame, frameAge, reply, overdue>>

-----------------------------------------------------------------------------
(***************************************************************************)
(* The node's tick, the plugin's write().                                  *)
(***************************************************************************)

(* Fault: a SETPOSE is not a reason to withdraw the consent. *)
WithdrawsIgnoringSetpose ==
  enabled /\ (seen = Nothing \/ seen.fsm # "IDLE" \/ seenAge > LinkTimeout)

(* Fault: the age of the telemetry is not looked at. *)
WithdrawsOnReportOnly ==
  enabled /\ (seen = Nothing \/ seen.fsm # "IDLE" \/ seen.setpose)

(* The consent is withdrawn before the frame is built, and the plugin's is *)
(* given then; only the node needs to look at the age of the telemetry.    *)
Withdraws ==
  enabled /\ (seen = Nothing \/ seen.fsm # "IDLE" \/ seen.setpose
              \/ seenAge > LinkTimeout)

Arms == master = "plugin" /\ node = "up" /\ ~enabled /\ ReadyFor(cmd)

(* A request for telemetry is no setpoint: what came before it is too old. *)
Sent ==
  IF enabled' THEN [kind |-> "ik", target |-> cmd]
  ELSE IF intent THEN [kind |-> "vr"]
  ELSE [kind |-> "idle"]

(* What the firmware does with frame f, that old, until the next exchange: *)
(* a silent link makes it SAFE; a SETPOSE goes home, and may take less     *)
(* than an exchange or more; a stream target is approached, in VR the arm  *)
(* may move either way; in SAFE, a new VR frame, if its heartbeat has      *)
(* advanced, brings IDLE back.                                             *)
Silenced(age) ==
  /\ fsm = "IDLE" /\ age > FrameTimeout
  /\ fsm' = "SAFE" /\ setpose' = FALSE
  /\ UNCHANGED <<known, pos>>

SetposeMoves ==
  /\ setpose
  /\ pos' = Towards(pos, 0)
  /\ setpose' \in BOOLEAN /\ (pos' # 0 => setpose')
  /\ known' = (known \/ ~setpose')
  /\ UNCHANGED fsm

Obeys(f, age) ==
  /\ fsm = "IDLE" /\ ~setpose
  /\ pos' \in CASE f.kind = "ik" /\ age <= StreamTimeout -> {Towards(pos, f.target)}
                [] f.kind = "vr" -> {p \in Positions : Distance(p, pos) <= 1}
                [] OTHER -> {pos}
  /\ UNCHANGED <<fsm, setpose, known>>

StaysAway(f, age) ==
  /\ fsm # "IDLE"
  /\ fsm' \in {fsm} \cup (IF fsm = "SAFE" /\ f.kind = "vr" /\ age = 0
                          THEN {"IDLE"} ELSE {})
  /\ UNCHANGED <<setpose, known, pos>>

FirmwareRuns(f, age) ==
  /\ frame' = f /\ frameAge' = age
  /\ \/ Silenced(age)
     \/ age <= FrameTimeout /\ (SetposeMoves \/ Obeys(f, age))
     \/ StaysAway(f, age)

(* The telemetry that was loaded at the previous exchange, however long    *)
(* ago; with its first one the plugin takes its command from it.           *)
TakesReport ==
  /\ seen' = reply /\ seenAge' = 0
  /\ IF node = "polling" THEN node' = "up" /\ cmd' = reply.pos
                         ELSE UNCHANGED <<node, cmd>>

(* The history, at an exchange in which the consent is given or not.       *)
Counts(given) ==
  LET late == IF given THEN 0 ELSE overdue
      told == seen' # Nothing /\ ~Streams(seen')
  IN /\ away' = IF enabled' /\ (fsm' # "IDLE" \/ setpose')
                THEN Older(IF given THEN 0 ELSE away, LinkTimeout + 2) ELSE 0
     /\ overdue' = IF late > 0 \/ ~enabled' \/ told \/ away' > LinkTimeout + 2
                   THEN Older(late, StreamTimeout + 1) ELSE 0

(* An exchange: the frame may be rejected, the telemetry may be corrupted, *)
(* or may be none or a repetition.                                         *)
Exchange ==
  /\ node # "down" /\ ~LinkIsLost
  /\ enabled' = (Arms \/ (enabled /\ ~Withdraws))
  /\ \E accepted \in BOOLEAN :
       FirmwareRuns(IF accepted THEN Sent ELSE frame,
                    IF accepted THEN 0 ELSE Older(frameAge, FrameTimeout))
  /\ reply' = Current
  /\ \/ TakesReport
     \/ seenAge' = Older(seenAge, LinkTimeout) /\ UNCHANGED <<seen, node, cmd>>
  /\ UNCHANGED <<master, cmdFresh, intent>>
  /\ Counts(Arms)

(* Without a master the firmware goes on alone.                            *)
Silence ==
  /\ node = "down"
  /\ FirmwareRuns(frame, Older(frameAge, FrameTimeout))
  /\ UNCHANGED <<nodeVars, reply>>
  /\ Counts(FALSE)

-----------------------------------------------------------------------------
StreamNext ==
  \/ JointCommand \/ TeleopIntent \/ InputExpires \/ StreamEnable \/ StreamDisable
  \/ ControllerCommand \/ Deactivate \/ LinkLost \/ Activate
  \/ Shutdown \/ NodeDies \/ Restart
  \/ Home \/ Stop \/ Enable
  \/ Exchange \/ Silence

StreamSpec == StreamInit /\ [][StreamNext]_streamVars

(* The timer of the node or the cycle of the plugin, or else time, goes on. *)
StreamFairSpec == StreamSpec /\ WF_streamVars(Exchange \/ LinkLost) /\ WF_streamVars(Silence)

-----------------------------------------------------------------------------
(***************************************************************************)
(* Properties.                                                             *)
(***************************************************************************)

(* The arm follows a stream no longer than a frame is valid after the      *)
(* consent has ended, or ought to have: because the master was told that   *)
(* the firmware has stopped or started a SETPOSE, or because that lasts    *)
(* longer than the master bears silence, whatever is lost.  Neither an     *)
(* ENABLE nor the end of a HOME takes the arm back to an old target later. *)
FollowsConsentOnly ==
  [][pos' # pos /\ ~setpose /\ frame'.kind = "ik" => overdue' <= StreamTimeout + 1]_streamVars

(* A consent that ought to have ended does not last.                       *)
ConsentEnds == enabled /\ overdue > 0 ~> ~enabled \/ overdue = 0

-----------------------------------------------------------------------------
(***************************************************************************)
(* Why (the inductive invariant).  Only a master that is up and has a      *)
(* command gives consent; ...                                              *)
(***************************************************************************)
ConsentInv ==
  /\ setpose => fsm = "IDLE"
  /\ enabled => node = "up" /\ cmd \in Positions
  /\ cmdFresh => cmd \in Positions
  /\ master = "plugin" /\ node = "up" => cmd \in Positions

(* ... telemetry that says that the firmware follows the stream is older   *)
(* than its absence, but for the two exchanges a report takes; ...         *)
ReportInv ==
  /\ fsm = "IDLE" /\ ~setpose => away = 0
  /\ enabled /\ Streams(reply) => away <= 1
  /\ enabled /\ Streams(seen) => away <= seenAge + 2

(* ... so a consent that ought to have ended does at the next exchange,    *)
(* and the frame that goes on being obeyed is older than that.             *)
OverdueInv ==
  /\ enabled /\ overdue > 0 => overdue = 1 /\ Withdraws
  /\ frame.kind = "ik" => overdue <= frameAge + 1 \/ frameAge = FrameTimeout + 1

StreamInv == StreamTypeOK /\ ConsentInv /\ ReportInv /\ OverdueInv
=============================================================================
