---------------------------- MODULE ImuTelemetry ----------------------------
(***************************************************************************)
(* The orientation of the wrist IMU on its way to the operator: the IMU    *)
(* thread of the firmware publishes it in a double buffer (imu.c), the SPI *)
(* service thread copies it into TELEMETRY frames (j5_protocol.c), IMUOFF  *)
(* and IMUON come from the main thread (uart_control.c), the SPI bridge of *)
(* the Pi keeps the telemetry file (j5vr_spi_bridge.py, shared_state.py)   *)
(* and the WebSocket server decides from the file what it tells the pages  *)
(* (ws_handlers_imu.py).                                                   *)
(*                                                                         *)
(* The IMU thread preempts the SPI thread, which preempts main             *)
(* (rt_loop.c:95-112).  The IMU thread gives the processor up only while   *)
(* it sleeps or waits for the I2C bus, so that a publication is one step;  *)
(* a copy by the SPI thread and the stores of IMUOFF are several.          *)
(* A report of the sensor is known by its number, 0 is the identity; a     *)
(* snapshot is cut in two halves that a copy may take from two reports.    *)
(***************************************************************************)
EXTENDS Naturals

CONSTANTS
  MaxReports,  (* reports the sensor makes                                 *)
  Grace,       (* TELEMETRY_GRACE_S, in ticks of the model                 *)
  MaxAge,      (* age up to which the file is fresh (1.5 s)                *)
  ImuDebounce  (* IMU_DEBOUNCE_N                                           *)

ASSUME ImuAssumption ==
       /\ MaxReports \in Nat \ {0} /\ Grace \in Nat /\ MaxAge \in Nat
       /\ ImuDebounce \in 1 .. 2

VARIABLES
  sensor,      (* reports made                                             *)
  fetched,     (* the last one read by the IMU thread                      *)
  imu,         (* IMU thread: "off", "init", "sleep" or "bus"              *)
  available,   (* imu_available                                            *)
  enabled,     (* g_imu_reads_enabled                                      *)
  orientation, (* g_imu_orientation_valid                                  *)
  buffers,     (* g_imu_buffers                                            *)
  active,      (* g_imu_active_idx                                         *)
  hasSnapshot, (* g_imu_has_valid_snapshot                                 *)
  counter,     (* g_imu_sample_counter                                     *)
  main,        (* main thread: next store of IMUOFF, or "idle"             *)
  build,       (* SPI thread: the copy under way                           *)
  reply        (* the last TELEMETRY frame built                           *)

VARIABLES
  lastCounter, (* _imu_prev_sample_counter                                 *)
  lastValid,   (* _last_imu_valid, and imu_valid in the telemetry file     *)
  exists,      (* there is a telemetry file                                *)
  fileAge,     (* time since it was written                                *)
  rxAge,       (* time since _last_telemetry_wall_t                        *)
  stable,      (* imu_valid_stable, as in the last message to the pages    *)
  agreeing     (* imu_consecutive_true or, if it is 0, ..._false, and which*)

(* History: the report published when the last IMUOFF began; whether a     *)
(* valid frame carried a report from before it; the time without telemetry *)
(* so far, and at the last message.                                        *)
VARIABLES offMark, reused, silence, silenceThen

firmware == <<imu, available, enabled, orientation, buffers, active,
              hasSnapshot, counter, main, build, reply>>
bridge == <<lastCounter, lastValid, exists, fileAge, rxAge, silence>>
server == <<stable, agreeing, silenceThen>>
vars == <<sensor, fetched, imu, available, enabled, orientation, buffers,
          active, hasSnapshot, counter, main, build, reply, lastCounter,
          lastValid, exists, fileAge, rxAge, stable, agreeing, offMark, reused,
          silence, silenceThen>>

Reports == 0 .. MaxReports
Reset == [first |-> 0, rest |-> 0, counter |-> 0]
Snapshot == [first : Reports, rest : Reports, counter : Reports]
NoImu == [valid |-> FALSE, first |-> 0, rest |-> 0, counter |-> 0]
Frame == [valid : BOOLEAN, first : Reports, rest : Reports, counter : Reports]
Idle == [run |-> "idle", index |-> 0, first |-> 0, published |-> FALSE]

(* Ages saturate one past the longest time anybody compares them with.     *)
Oldest == MaxAge + Grace + 1
Older(age) == IF age < Oldest THEN age + 1 ELSE age

TypeOK ==
  /\ sensor \in Reports /\ fetched \in Reports
  /\ imu \in {"off", "init", "sleep", "bus"}
  /\ available \in BOOLEAN /\ enabled \in BOOLEAN /\ orientation \in BOOLEAN
  /\ buffers \in [0 .. 1 -> Snapshot] /\ active \in 0 .. 1
  /\ hasSnapshot \in BOOLEAN /\ counter \in Reports
  /\ main \in {"idle", "flag", "buffer0", "buffer1", "index", "snapshot", "counter"}
  /\ build \in [run : {"idle", "copy"}, index : 0 .. 1, first : Reports,
                published : BOOLEAN]
  /\ reply \in Frame
  /\ lastCounter \in Reports /\ lastValid \in BOOLEAN /\ exists \in BOOLEAN
  /\ fileAge \in 0 .. Oldest /\ rxAge \in 0 .. Oldest
  /\ silence \in 0 .. Oldest /\ silenceThen \in 0 .. Oldest
  /\ stable \in BOOLEAN
  /\ agreeing \in [of : BOOLEAN, count : 0 .. ImuDebounce]
  /\ offMark \in Reports /\ reused \in BOOLEAN

Init ==
  /\ sensor = 0 /\ fetched = 0 /\ imu = "off"
  /\ available = FALSE /\ enabled = TRUE /\ orientation = FALSE
  /\ buffers = [i \in 0 .. 1 |-> Reset] /\ active = 0
  /\ hasSnapshot = FALSE /\ counter = 0 /\ main = "idle"
  /\ build = Idle /\ reply = NoImu
  /\ lastCounter = 0 /\ lastValid = FALSE
  /\ exists = FALSE /\ fileAge = Oldest /\ rxAge = Oldest
  /\ stable = FALSE /\ agreeing = [of |-> FALSE, count |-> 0]
  /\ offMark = 0 /\ reused = FALSE
  /\ silence = Oldest /\ silenceThen = Oldest

-----------------------------------------------------------------------------
(***************************************************************************)
(* The IMU thread, 400 Hz.  The sensor makes a report every 10 ms, or      *)
(* stops; the thread is rid of the processor while it waits for the bus,   *)
(* after it has looked at g_imu_reads_enabled.                             *)
(***************************************************************************)
SensorReports ==
  /\ sensor < MaxReports /\ sensor' = sensor + 1
  /\ UNCHANGED <<fetched, firmware, bridge, server, offMark, reused>>

(* imu_init, retried until the sensor answers; the flag is looked at up to *)
(* a second before.                                                        *)
ImuInit ==
  /\ imu = "init"
  /\ orientation' = FALSE /\ counter' = 0
  /\ \E found \in BOOLEAN :
       available' = found /\ imu' = IF found THEN "sleep" ELSE "off"
  /\ UNCHANGED <<sensor, fetched, enabled, buffers, active, hasSnapshot, main,
                 build, reply, bridge, server, offMark, reused>>

ImuWakes ==
  /\ enabled
  /\ \/ imu = "off" /\ imu' = "init"
     \/ imu = "sleep" /\ imu' = "bus"
  /\ UNCHANGED <<sensor, fetched, available, enabled, orientation, buffers,
                 active, hasSnapshot, counter, main, build, reply, bridge,
                 server, offMark, reused>>

(* No report, or the bus has failed: what was published stays valid.       *)
NothingNew ==
  /\ imu = "bus" /\ imu' = "sleep"
  /\ UNCHANGED <<sensor, fetched, available, enabled, orientation, buffers,
                 active, hasSnapshot, counter, main, build, reply, bridge,
                 server, offMark, reused>>

(* Fault: the writer does not take the inactive buffer.                    *)
TargetActive == active

Target == 1 - active

(* A copy takes microseconds and a period of the thread 2500: the thread   *)
(* publishes at most once while the SPI thread copies.                     *)
Publish ==
  /\ imu = "bus" /\ fetched < sensor
  /\ ~ (build.run = "copy" /\ build.published)
  /\ fetched' = sensor /\ imu' = "sleep"
  /\ orientation' = TRUE /\ counter' = counter + 1
  /\ buffers' = [buffers EXCEPT ![Target] =
       [first |-> sensor, rest |-> sensor, counter |-> counter + 1]]
  /\ active' = Target /\ hasSnapshot' = TRUE
  /\ build' = [build EXCEPT !.published = (build.run = "copy")]
  /\ UNCHANGED <<sensor, available, enabled, main, reply, bridge, server,
                 offMark, reused>>

-----------------------------------------------------------------------------
(***************************************************************************)
(* IMUOFF clears the flag that lets the thread read, and then what was     *)
(* published (imu_clear_orientation_state), store by store.                *)
(***************************************************************************)
MainRuns == build.run = "idle"

(* Fault: the flag alone.                                                  *)
ImuOffKeepsState ==
  /\ MainRuns /\ main = "idle"
  /\ enabled' = FALSE /\ offMark' = buffers[active].rest
  /\ UNCHANGED <<sensor, fetched, imu, available, orientation, buffers, active,
                 hasSnapshot, counter, main, build, reply, bridge, server, reused>>

ImuOff ==
  /\ MainRuns /\ main = "idle"
  /\ enabled' = FALSE /\ main' = "flag" /\ offMark' = buffers[active].rest
  /\ UNCHANGED <<sensor, fetched, imu, available, orientation, buffers, active,
                 hasSnapshot, counter, build, reply, bridge, server, reused>>

Stores(from, to) == MainRuns /\ main = from /\ main' = to

ClearFlag ==
  /\ Stores("flag", "buffer0") /\ orientation' = FALSE
  /\ UNCHANGED <<buffers, active, hasSnapshot, counter>>

ClearBuffer(i, from, to) ==
  /\ Stores(from, to) /\ buffers' = [buffers EXCEPT ![i] = Reset]
  /\ UNCHANGED <<orientation, active, hasSnapshot, counter>>

ClearIndex ==
  /\ Stores("index", "snapshot") /\ active' = 0
  /\ UNCHANGED <<orientation, buffers, hasSnapshot, counter>>

ClearSnapshot ==
  /\ Stores("snapshot", "counter") /\ hasSnapshot' = FALSE
  /\ UNCHANGED <<orientation, buffers, active, counter>>

ClearCounter ==
  /\ Stores("counter", "idle") /\ counter' = 0
  /\ UNCHANGED <<orientation, buffers, active, hasSnapshot>>

Clear ==
  /\ \/ ClearFlag
     \/ ClearBuffer(0, "buffer0", "buffer1")
     \/ ClearBuffer(1, "buffer1", "index")
     \/ ClearIndex \/ ClearSnapshot \/ ClearCounter
  /\ UNCHANGED <<sensor, fetched, imu, available, enabled, build, reply,
                 bridge, server, offMark, reused>>

ImuOn ==
  /\ MainRuns /\ main = "idle" /\ ~enabled /\ enabled' = TRUE
  /\ UNCHANGED <<sensor, fetched, imu, available, orientation, buffers, active,
                 hasSnapshot, counter, main, build, reply, bridge, server,
                 offMark, reused>>

-----------------------------------------------------------------------------
(***************************************************************************)
(* The SPI thread builds a TELEMETRY frame (j5_build_frame).  The index of *)
(* the active buffer is read once, the copy takes the halves one after the *)
(* other, and g_imu_orientation_valid is read after the copy.              *)
(***************************************************************************)
BuildWithoutImu ==
  /\ build.run = "idle"
  /\ ~ (enabled /\ available /\ hasSnapshot)
  /\ reply' = NoImu
  /\ UNCHANGED <<sensor, fetched, imu, available, enabled, orientation,
                 buffers, active, hasSnapshot, counter, main, build, bridge,
                 server, offMark, reused>>

BuildBegins ==
  /\ build.run = "idle" /\ enabled /\ available /\ hasSnapshot
  /\ build' = [run |-> "copy", index |-> active,
               first |-> buffers[active].first, published |-> FALSE]
  /\ UNCHANGED <<sensor, fetched, imu, available, enabled, orientation,
                 buffers, active, hasSnapshot, counter, main, reply, bridge,
                 server, offMark, reused>>

BuildEnds ==
  /\ build.run = "copy" /\ build' = Idle
  /\ LET copy == buffers[build.index]
     IN  reply' = [valid |-> orientation, first |-> build.first,
                   rest |-> copy.rest, counter |-> copy.counter]
  /\ reused' = (reused \/ (reply'.valid /\ reply'.rest <= offMark))
  /\ UNCHANGED <<sensor, fetched, imu, available, enabled, orientation,
                 buffers, active, hasSnapshot, counter, main, bridge, server,
                 offMark>>

-----------------------------------------------------------------------------
(***************************************************************************)
(* The bridge: one exchange of frames with the STM32.  The reply may show  *)
(* byte 28 at zero for a sample that is valid (a race of the slave's DMA); *)
(* if the sample is the one before, the validity it had is kept.           *)
(***************************************************************************)
Repeated(frame) == lastCounter = frame.counter

(* Fault: the validity is kept whatever the sample.                        *)
ImuValidKept(frame, byte28) == byte28 \/ lastValid

ImuValid(frame, byte28) == byte28 \/ (Repeated(frame) /\ lastValid)

Telemetry(byte28) ==
  /\ byte28 => reply.valid
  /\ lastValid' = ImuValid(reply, byte28) /\ exists' = TRUE
  /\ lastCounter' = reply.counter
  /\ fileAge' = 0 /\ rxAge' = 0 /\ silence' = 0
  /\ UNCHANGED <<sensor, fetched, firmware, server, offMark, reused>>

(* Fault: writing the file again extends the grace period.                 *)
StatusExtends ==
  /\ rxAge <= Grace /\ fileAge' = 0 /\ rxAge' = 0
  /\ UNCHANGED <<sensor, fetched, firmware, lastCounter, lastValid, exists,
                 silence, server, offMark, reused>>

(* Another frame of the STM32 within the grace period: the file is written *)
(* again as it was, so that a short gap does not make it old.              *)
Status ==
  /\ rxAge <= Grace /\ fileAge' = 0
  /\ UNCHANGED <<sensor, fetched, firmware, lastCounter, lastValid, exists,
                 rxAge, silence, server, offMark, reused>>

(* Time passes; the exchanges meanwhile brought nothing of use.            *)
Tick ==
  /\ fileAge' = Older(fileAge) /\ rxAge' = Older(rxAge)
  /\ silence' = Older(silence)
  /\ UNCHANGED <<sensor, fetched, firmware, lastCounter, lastValid, exists,
                 server, offMark, reused>>

-----------------------------------------------------------------------------
(***************************************************************************)
(* The server: imu_debug_loop while a page is open.  A change of validity  *)
(* takes ImuDebounce messages in a row.                                    *)
(***************************************************************************)
Agreeing(raw) ==
  IF agreeing.of # raw THEN [of |-> raw, count |-> 1]
  ELSE [agreeing EXCEPT !.count = IF @ < ImuDebounce THEN @ + 1 ELSE @]

Debounced(raw) ==
  /\ agreeing' = Agreeing(raw)
  /\ stable' = IF agreeing'.count >= ImuDebounce THEN raw ELSE stable

Message ==
  /\ exists
  /\ Debounced(fileAge <= MaxAge /\ lastValid)
  /\ silenceThen' = silence
  /\ UNCHANGED <<sensor, fetched, firmware, bridge, offMark, reused>>

-----------------------------------------------------------------------------
Next ==
  \/ SensorReports \/ ImuInit \/ ImuWakes \/ NothingNew \/ Publish
  \/ ImuOff \/ Clear \/ ImuOn
  \/ BuildWithoutImu \/ BuildBegins \/ BuildEnds
  \/ \E byte28 \in BOOLEAN : Telemetry(byte28)
  \/ Status \/ Tick \/ Message

Spec == Init /\ [][Next]_vars

(* The threads of the firmware run, time passes, frames are exchanged and  *)
(* a page stays open.                                                      *)
FairSpec ==
  /\ Spec /\ WF_vars(ImuWakes \/ NothingNew \/ Publish)
  /\ WF_vars(Clear) /\ WF_vars(BuildWithoutImu \/ BuildBegins \/ BuildEnds)
  /\ WF_vars(Tick) /\ SF_vars(Message)

-----------------------------------------------------------------------------
(***************************************************************************)
(* Properties.                                                             *)
(***************************************************************************)

(* A frame that says the orientation is valid carries one report of the    *)
(* sensor, not a mixture of two and not the identity that IMUOFF leaves,   *)
(* although the copy is not protected against the IMU thread (imu.c:44-62).*)
FrameSound == reply.valid => reply.first = reply.rest /\ reply.rest # 0

(* What had been published when IMUOFF came is never reported as valid     *)
(* afterwards, IMUON or not (imu_clear_orientation_state, imu.c:228-252).  *)
OffForgets == ~reused

(* When a page is told that the orientation is valid, the STM32 had sent   *)
(* telemetry within MaxAge plus the grace period, now or when the message  *)
(* before went out: rewriting the file and the debounce do not hide a      *)
(* fault for longer (j5vr_spi_bridge.py:32-38, ws_handlers_imu.py:365-384).*)
ValidBacked ==
  [][Message /\ stable' =>
       silence <= MaxAge + Grace \/ silenceThen <= MaxAge + Grace]_vars

(* The inductive invariant.  Numbers of reports only grow; a buffer holds  *)
(* one report.                                                             *)
CountInv ==
  /\ counter <= fetched /\ fetched <= sensor /\ offMark <= fetched
  /\ \A i \in 0 .. 1 : buffers[i].first = buffers[i].rest /\ buffers[i].rest <= fetched

(* IMUOFF at work has the readings switched off, and when it has lowered   *)
(* the snapshot flag only a later report can raise it.                     *)
OffInv ==
  /\ main # "idle" => ~enabled
  /\ main \in {"idle", "counter"} /\ hasSnapshot => buffers[active].rest > offMark

(* The buffer being copied is not the one the IMU thread fills next, and   *)
(* holds a report from after the last IMUOFF.                              *)
CopyInv ==
  build.run = "copy" =>
    /\ main = "idle" /\ build.first = buffers[build.index].first
    /\ buffers[build.index].rest > offMark
    /\ ~build.published => build.index = active

(* The file is never younger than the telemetry in it by more than Grace;  *)
(* the debounce remembers the message before.                              *)
AgeInv ==
  /\ silence = rxAge /\ rxAge <= fileAge + Grace
  /\ agreeing.of => silenceThen <= MaxAge + Grace
  /\ ~agreeing.of /\ agreeing.count = 0 => ~stable

IInv ==
  /\ TypeOK /\ CountInv /\ OffInv /\ CopyInv /\ AgeInv
  /\ FrameSound /\ OffForgets

(* Once IMUOFF stays, the pages are told in the end, whatever the bridge   *)
(* keeps or repeats.                                                       *)
OffShown == <>[]~enabled => <>[]~stable
=============================================================================
