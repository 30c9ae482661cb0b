------------------------- MODULE ImuTelemetryProofs -------------------------
(***************************************************************************)
(* Proofs about ImuTelemetry, for any number of reports, any grace period  *)
(* and age, and a debounce of one or two messages.                         *)
(***************************************************************************)
EXTENDS ImuTelemetry, TLAPS

USE ImuAssumption DEF ImuAssumption

(* The variables of the three parts are many; the lemmas below expand them *)
(* where a step leaves a whole part alone.                                 *)
LEMMA OlderIs == \A age \in 0 .. Oldest : Older(age) \in 0 .. Oldest
BY DEF Older, Oldest

LEMMA InitInv == Init => IInv
<1> SUFFICES ASSUME Init PROVE IInv
  OBVIOUS
<1>1. TypeOK
  <2>1. Reset \in Snapshot /\ NoImu \in Frame /\ 0 \in Reports
    BY DEF Reset, Snapshot, NoImu, Frame, Reports
  <2>2. Idle \in [run : {"idle", "copy"}, index : 0 .. 1, first : Reports,
                  published : BOOLEAN]
    BY <2>1 DEF Idle
  <2>3. [of |-> FALSE, count |-> 0] \in [of : BOOLEAN, count : 0 .. ImuDebounce]
    OBVIOUS
  <2>4. buffers \in [0 .. 1 -> Snapshot]
    BY <2>1 DEF Init
  <2>5. Oldest \in 0 .. Oldest
    BY DEF Oldest
  <2>6. /\ sensor \in Reports /\ fetched \in Reports /\ counter \in Reports
        /\ lastCounter \in Reports /\ offMark \in Reports /\ active \in 0 .. 1
    BY <2>1 DEF Init
  <2>7. /\ available \in BOOLEAN /\ enabled \in BOOLEAN /\ orientation \in BOOLEAN
        /\ hasSnapshot \in BOOLEAN /\ lastValid \in BOOLEAN /\ exists \in BOOLEAN
        /\ stable \in BOOLEAN /\ reused \in BOOLEAN
    BY Zenon DEF Init
  <2> QED
    BY <2>1, <2>2, <2>3, <2>4, <2>5, <2>6, <2>7, Zenon DEF Init, TypeOK
<1>2. CountInv /\ OffInv /\ CopyInv /\ AgeInv /\ FrameSound /\ OffForgets
  BY DEF Init, CountInv, OffInv, CopyInv, AgeInv, FrameSound, OffForgets,
         Reset, Idle, NoImu, Oldest
<1> QED
  BY <1>1, <1>2 DEF IInv

(***************************************************************************)
(* The IMU thread                                                          *)
(***************************************************************************)

(* A step that changes nothing but the sensor, the thread's place and what *)
(* imu_init resets.                                                        *)
LEMMA ThreadInv ==
  ASSUME IInv, SensorReports \/ ImuInit \/ ImuWakes \/ NothingNew
  PROVE  IInv'
<1> USE DEF firmware, bridge, server
<1>1. TypeOK'
  <2>1. CASE ImuInit
    <3>1. imu' \in {"off", "init", "sleep", "bus"} /\ available' \in BOOLEAN
      BY <2>1 DEF ImuInit
    <3>2. counter' \in Reports
      BY <2>1 DEF ImuInit, Reports
    <3>3. orientation' \in BOOLEAN
      BY <2>1 DEF ImuInit
    <3> QED
      BY <2>1, <3>1, <3>2, <3>3, Zenon DEF IInv, TypeOK, ImuInit
  <2>2. CASE SensorReports \/ ImuWakes \/ NothingNew
    BY <2>2 DEF IInv, TypeOK, Reports, SensorReports, ImuWakes, NothingNew
  <2> QED
    BY <2>1, <2>2
<1>2. CountInv'
  <2>1. /\ counter' = counter \/ counter' = 0
        /\ sensor' = sensor \/ sensor' = sensor + 1
        /\ UNCHANGED <<fetched, offMark, buffers>>
    BY DEF SensorReports, ImuInit, ImuWakes, NothingNew
  <2> QED
    BY <2>1 DEF IInv, TypeOK, Reports, CountInv
<1>3. (OffInv /\ CopyInv)'
  BY DEF IInv, OffInv, CopyInv, SensorReports, ImuInit, ImuWakes, NothingNew
<1>4. (AgeInv /\ FrameSound /\ OffForgets)'
  BY DEF IInv, AgeInv, FrameSound, OffForgets, SensorReports, ImuInit,
         ImuWakes, NothingNew
<1> QED
  BY <1>1, <1>2, <1>3, <1>4 DEF IInv

(* The new report goes to the buffer nobody copies.                        *)
LEMMA PublishInv == IInv /\ Publish => IInv'
<1> SUFFICES ASSUME IInv, Publish PROVE IInv'
  OBVIOUS
<1> USE DEF bridge, server
<1>1. /\ Target \in 0 .. 1 /\ Target # active
      /\ fetched \in Nat /\ sensor \in Nat /\ counter \in Nat
      /\ fetched < sensor /\ sensor <= MaxReports /\ counter <= fetched
      /\ offMark \in Nat /\ offMark <= fetched
  BY DEF IInv, TypeOK, CountInv, Reports, Publish, Target
<1>2. /\ buffers'[Target] = [first |-> sensor, rest |-> sensor, counter |-> counter + 1]
      /\ \A i \in 0 .. 1 : i # Target => buffers'[i] = buffers[i]
  BY <1>1 DEF IInv, TypeOK, Publish
<1>3. TypeOK'
  <2>1. [first |-> sensor, rest |-> sensor, counter |-> counter + 1] \in Snapshot
    BY <1>1 DEF Snapshot, Reports
  <2>2. buffers' \in [0 .. 1 -> Snapshot]
    BY <2>1, <1>1 DEF IInv, TypeOK, Publish
  <2>3. counter' \in Reports /\ fetched' \in Reports
    BY <1>1 DEF Publish, Reports
  <2>4. build' \in [run : {"idle", "copy"}, index : 0 .. 1, first : Reports,
                    published : BOOLEAN]
    BY DEF IInv, TypeOK, Publish
  <2> QED
    BY <2>2, <2>3, <2>4, <1>1 DEF IInv, TypeOK, Publish
<1>4. CountInv'
  <2>1. \A i \in 0 .. 1 : buffers[i].first = buffers[i].rest
                          /\ buffers[i].rest <= fetched /\ buffers[i].rest \in Nat
    BY DEF IInv, CountInv, TypeOK, Snapshot, Reports
  <2>2. \A i \in 0 .. 1 : buffers'[i].first = buffers'[i].rest /\ buffers'[i].rest <= sensor
    BY <1>1, <1>2, <2>1
  <2> QED
    BY <1>1, <2>2 DEF Publish, CountInv
<1>5. OffInv'
  BY <1>1, <1>2 DEF IInv, OffInv, Publish
<1>6. CopyInv'
  <2> SUFFICES ASSUME build.run = "copy" PROVE CopyInv'
    BY DEF CopyInv, Publish, IInv, TypeOK
  <2>1. build.index = active /\ build.index \in 0 .. 1
    BY DEF IInv, TypeOK, CopyInv, Publish
  <2>2. /\ build'.run = "copy" /\ build'.index = build.index
        /\ build'.first = build.first /\ build'.published
    BY DEF Publish, IInv, TypeOK
  <2> QED
    BY <1>1, <1>2, <2>1, <2>2 DEF IInv, CopyInv, Publish
<1>7. (AgeInv /\ FrameSound /\ OffForgets)'
  BY DEF IInv, AgeInv, FrameSound, OffForgets, Publish
<1> QED
  BY <1>3, <1>4, <1>5, <1>6, <1>7 DEF IInv

(***************************************************************************)
(* The main thread                                                         *)
(***************************************************************************)
LEMMA OffOnInv == IInv /\ (ImuOff \/ ImuOn) => IInv'
<1> SUFFICES ASSUME IInv, ImuOff \/ ImuOn PROVE IInv'
  OBVIOUS
<1> USE DEF bridge, server, MainRuns
<1>1. active \in 0 .. 1 /\ buffers[active].rest \in Reports
      /\ buffers[active].rest <= fetched
  BY DEF IInv, TypeOK, Snapshot, CountInv
<1>2. TypeOK'
  BY <1>1 DEF IInv, TypeOK, ImuOff, ImuOn
<1>3. CountInv'
  BY <1>1 DEF IInv, CountInv, ImuOff, ImuOn
<1>4. (OffInv /\ CopyInv)'
  BY DEF IInv, OffInv, CopyInv, ImuOff, ImuOn
<1>5. (AgeInv /\ FrameSound /\ OffForgets)'
  BY DEF IInv, AgeInv, FrameSound, OffForgets, ImuOff, ImuOn
<1> QED
  BY <1>2, <1>3, <1>4, <1>5 DEF IInv

(* One store of imu_clear_orientation_state.                               *)
LEMMA ClearInv == IInv /\ Clear => IInv'
<1> SUFFICES ASSUME IInv, Clear PROVE IInv'
  OBVIOUS
<1> USE DEF bridge, server
<1>1. /\ build.run = "idle" /\ main # "idle"
      /\ main' \in {"idle", "flag", "buffer0", "buffer1", "index", "snapshot", "counter"}
      /\ UNCHANGED <<sensor, fetched, enabled, build, reply, offMark, reused>>
  BY DEF Clear, ClearFlag, ClearBuffer, ClearIndex, ClearSnapshot,
         ClearCounter, Stores, MainRuns
<1>2. /\ counter' = counter \/ counter' = 0
      /\ orientation' \in BOOLEAN /\ hasSnapshot' \in BOOLEAN /\ active' \in 0 .. 1
  <2>1. orientation \in BOOLEAN /\ hasSnapshot \in BOOLEAN /\ active \in 0 .. 1
    BY DEF IInv, TypeOK
  <2>2. CASE ClearFlag
    BY <2>1, <2>2 DEF ClearFlag
  <2>3. CASE ClearBuffer(0, "buffer0", "buffer1") \/ ClearBuffer(1, "buffer1", "index")
    BY <2>1, <2>3 DEF ClearBuffer
  <2>4. CASE ClearIndex
    BY <2>1, <2>4 DEF ClearIndex
  <2>5. CASE ClearSnapshot
    BY <2>1, <2>5 DEF ClearSnapshot
  <2>6. CASE ClearCounter
    BY <2>1, <2>6 DEF ClearCounter
  <2> QED
    BY <2>2, <2>3, <2>4, <2>5, <2>6 DEF Clear
<1>3. buffers' = buffers \/ \E i \in 0 .. 1 : buffers' = [buffers EXCEPT ![i] = Reset]
  BY DEF Clear, ClearFlag, ClearBuffer, ClearIndex, ClearSnapshot,
         ClearCounter, Stores
<1>4. \A i \in 0 .. 1 : buffers'[i] = buffers[i] \/ buffers'[i] = Reset
  BY <1>3 DEF IInv, TypeOK
<1>5. TypeOK'
  <2>1. Reset \in Snapshot
    BY DEF Reset, Snapshot, Reports
  <2>2. buffers' \in [0 .. 1 -> Snapshot]
    BY <1>3, <2>1 DEF IInv, TypeOK
  <2> QED
    BY <1>1, <1>2, <2>2 DEF IInv, TypeOK, Reports, Clear
<1>6. CountInv'
  <2>1. fetched \in Nat /\ counter \in Nat
    BY DEF IInv, TypeOK, Reports
  <2> QED
    BY <2>1, <1>1, <1>2, <1>4 DEF IInv, CountInv, Reset
<1>7. OffInv'
  <2>1. ~enabled'
    BY <1>1 DEF IInv, OffInv
  <2>2. CASE main' \in {"idle", "counter"}
    <3>1. CASE ClearSnapshot
      BY <3>1, <2>1 DEF OffInv, ClearSnapshot
    <3>2. CASE ClearCounter
      BY <3>2, <2>1, <1>1 DEF IInv, OffInv, ClearCounter, Stores
    <3> QED
      BY <3>1, <3>2, <2>2 DEF Clear, ClearFlag, ClearBuffer, ClearIndex, Stores
  <2> QED
    BY <2>1, <2>2 DEF OffInv
<1>8. (CopyInv /\ AgeInv /\ FrameSound /\ OffForgets)'
  BY <1>1 DEF IInv, CopyInv, AgeInv, FrameSound, OffForgets, Clear
<1> QED
  BY <1>5, <1>6, <1>7, <1>8 DEF IInv

(***************************************************************************)
(* The SPI thread                                                          *)
(***************************************************************************)
LEMMA BuildInv ==
  IInv /\ (BuildWithoutImu \/ BuildBegins \/ BuildEnds) => IInv'
<1> SUFFICES ASSUME IInv, BuildWithoutImu \/ BuildBegins \/ BuildEnds PROVE IInv'
  OBVIOUS
<1> USE DEF bridge, server
<1>1. CASE BuildWithoutImu
  <2>1. TypeOK'
    BY <1>1 DEF IInv, TypeOK, BuildWithoutImu, NoImu, Frame, Reports
  <2> QED
    BY <1>1, <2>1 DEF IInv, CountInv, OffInv, CopyInv, AgeInv, FrameSound,
                      OffForgets, BuildWithoutImu, NoImu
<1>2. CASE BuildBegins
  <2>1. active \in 0 .. 1 /\ buffers[active].first \in Reports
    BY DEF IInv, TypeOK, Snapshot
  <2>2. TypeOK'
    BY <1>2, <2>1 DEF IInv, TypeOK, BuildBegins
  <2>3. CopyInv'
    BY <1>2 DEF IInv, OffInv, CopyInv, BuildBegins
  <2> QED
    BY <1>2, <2>2, <2>3 DEF IInv, CountInv, OffInv, AgeInv, FrameSound,
                            OffForgets, BuildBegins
<1>3. CASE BuildEnds
  <2> DEFINE copy == buffers[build.index]
  <2>1. /\ build.index \in 0 .. 1 /\ copy \in Snapshot /\ build.first = copy.first
        /\ copy.first = copy.rest /\ copy.rest > offMark
    BY <1>3 DEF IInv, TypeOK, CountInv, CopyInv, BuildEnds
  <2>2. reply' = [valid |-> orientation, first |-> build.first,
                  rest |-> copy.rest, counter |-> copy.counter]
    BY <1>3 DEF BuildEnds
  <2>3. copy.rest \in Nat /\ offMark \in Nat
    BY <2>1 DEF IInv, TypeOK, Snapshot, Reports
  <2>4. reply' \in Frame
    BY <2>1, <2>2 DEF IInv, TypeOK, Frame, Snapshot
  <2>5. ~reused'
    <3>1. ~ (reply'.rest <= offMark)
      BY <2>1, <2>2, <2>3
    <3> QED
      BY <3>1, <1>3, Zenon DEF IInv, OffForgets, BuildEnds
  <2>6. TypeOK'
    BY <1>3, <2>4, <2>5 DEF IInv, TypeOK, BuildEnds, Idle, Reports
  <2>7. (FrameSound /\ OffForgets)'
    BY <2>1, <2>2, <2>3, <2>5 DEF FrameSound, OffForgets
  <2> QED
    BY <1>3, <2>6, <2>7 DEF IInv, CountInv, OffInv, CopyInv, AgeInv, BuildEnds, Idle
<1> QED
  BY <1>1, <1>2, <1>3

(***************************************************************************)
(* The bridge and the server                                               *)
(***************************************************************************)
LEMMA BridgeInv ==
  ASSUME IInv, (\E byte28 \in BOOLEAN : Telemetry(byte28)) \/ Status \/ Tick
  PROVE  IInv'
<1> USE DEF firmware, server
<1>1. TypeOK'
  <2>1. \A byte28 \in BOOLEAN : ImuValid(reply, byte28) \in BOOLEAN
    BY DEF IInv, TypeOK, ImuValid, Repeated
  <2>2. reply.counter \in Reports
    BY DEF IInv, TypeOK, Frame
  <2>3. lastValid' \in BOOLEAN /\ lastCounter' \in Reports /\ exists' \in BOOLEAN
    BY <2>1, <2>2 DEF IInv, TypeOK, Telemetry, Status, Tick
  <2>4. fileAge' \in 0 .. Oldest /\ rxAge' \in 0 .. Oldest /\ silence' \in 0 .. Oldest
    BY OlderIs DEF IInv, TypeOK, Telemetry, Status, Tick, Oldest
  <2> QED
    BY <2>3, <2>4 DEF IInv, TypeOK, Telemetry, Status, Tick
<1>2. AgeInv'
  BY DEF IInv, TypeOK, AgeInv, Telemetry, Status, Tick, Older, Oldest
<1>3. (CountInv /\ OffInv /\ CopyInv /\ FrameSound /\ OffForgets)'
  BY DEF IInv, CountInv, OffInv, CopyInv, FrameSound, OffForgets, Telemetry,
         Status, Tick
<1> QED
  BY <1>1, <1>2, <1>3 DEF IInv

(* A message counts whether it finds fresh and valid telemetry; if it does *)
(* the telemetry is recent.                                                *)
LEMMA MessageIs ==
  ASSUME IInv, Message
  PROVE  \E raw \in BOOLEAN :
           /\ agreeing' = Agreeing(raw)
           /\ stable' = IF agreeing'.count >= ImuDebounce THEN raw ELSE stable
           /\ raw => silence <= MaxAge + Grace
<1> DEFINE raw == fileAge <= MaxAge /\ lastValid
<1>1. raw \in BOOLEAN
  BY Zenon
<1>2. /\ agreeing' = Agreeing(raw)
      /\ stable' = IF agreeing'.count >= ImuDebounce THEN raw ELSE stable
  BY Zenon DEF Message, Debounced
<1>3. raw => silence <= MaxAge + Grace
  BY DEF IInv, TypeOK, AgeInv, Oldest
<1> HIDE DEF raw
<1> QED
  BY <1>1, <1>2, <1>3

LEMMA AgreeingIs ==
  ASSUME IInv, NEW raw \in BOOLEAN
  PROVE  /\ Agreeing(raw) \in [of : BOOLEAN, count : 0 .. ImuDebounce]
         /\ Agreeing(raw).of = raw /\ Agreeing(raw).count # 0
BY DEF IInv, TypeOK, Agreeing

LEMMA MessageInv == IInv /\ Message => IInv'
<1> SUFFICES ASSUME IInv, Message PROVE IInv'
  OBVIOUS
<1> USE DEF firmware, bridge
<1> PICK raw \in BOOLEAN :
      /\ agreeing' = Agreeing(raw)
      /\ stable' = IF agreeing'.count >= ImuDebounce THEN raw ELSE stable
      /\ raw => silence <= MaxAge + Grace
  BY MessageIs
<1>1. stable' \in BOOLEAN
  BY DEF IInv, TypeOK
<1>2. TypeOK'
  BY <1>1, AgreeingIs DEF IInv, TypeOK, Message
<1>3. AgeInv'
  BY AgreeingIs DEF IInv, AgeInv, Message
<1>4. (CountInv /\ OffInv /\ CopyInv /\ FrameSound /\ OffForgets)'
  BY DEF IInv, CountInv, OffInv, CopyInv, FrameSound, OffForgets, Message
<1> QED
  BY <1>2, <1>3, <1>4 DEF IInv

-----------------------------------------------------------------------------
LEMMA StepInv == IInv /\ [Next]_vars => IInv'
<1> SUFFICES ASSUME IInv, [Next]_vars PROVE IInv'
  OBVIOUS
<1>1. CASE UNCHANGED vars
  BY <1>1 DEF vars, IInv, TypeOK, CountInv, OffInv, CopyInv, AgeInv,
              FrameSound, OffForgets
<1>2. CASE Next
  BY <1>2, ThreadInv, PublishInv, OffOnInv, ClearInv, BuildInv, BridgeInv,
     MessageInv DEF Next
<1> QED
  BY <1>1, <1>2

(* The inductive invariant: numbers of reports grow, IMUOFF at work has    *)
(* the readings off, a copy is of a buffer the IMU thread leaves alone,    *)
(* the age of the file bounds that of the telemetry in it.                 *)
THEOREM Inductive == Spec => []IInv
BY InitInv, StepInv, PTL DEF Spec

(* Every variable keeps its type, the counters their ranges.               *)
THEOREM TypeCorrect == Spec => []TypeOK
<1>1. IInv => TypeOK
  BY DEF IInv
<1> QED
  BY <1>1, Inductive, PTL

(* A frame that says the orientation is valid carries one report of the    *)
(* sensor (the double buffer of imu.c:44-62).                              *)
THEOREM DoubleBufferIsSafe == Spec => []FrameSound
<1>1. IInv => FrameSound
  BY DEF IInv
<1> QED
  BY <1>1, Inductive, PTL

(* IMUOFF forgets what was published before it, whenever the IMU and SPI   *)
(* threads interrupt it (imu.c:228-252).                                   *)
THEOREM NothingReused == Spec => []OffForgets
<1>1. IInv => OffForgets
  BY DEF IInv
<1> QED
  BY <1>1, Inductive, PTL

(* A page is told that the orientation is valid only if there was          *)
(* telemetry within MaxAge + Grace, now or at the message before.          *)
THEOREM GraceIsBounded == Spec => ValidBacked
<1>1. ASSUME IInv, Message, stable'
      PROVE  silence <= MaxAge + Grace \/ silenceThen <= MaxAge + Grace
  <2> PICK raw \in BOOLEAN :
        /\ agreeing' = Agreeing(raw)
        /\ stable' = IF agreeing'.count >= ImuDebounce THEN raw ELSE stable
        /\ raw => silence <= MaxAge + Grace
    BY <1>1, MessageIs
  <2>1. CASE ~raw
    <3>1. ~ (agreeing'.count >= ImuDebounce) /\ stable
      BY <1>1, <2>1, Zenon
    <3>2. agreeing.of
      BY <1>1, <2>1, <3>1 DEF Agreeing, IInv, TypeOK, AgeInv
    <3> QED
      BY <1>1, <3>2 DEF IInv, AgeInv
  <2> QED
    BY <2>1
<1>2. IInv /\ [Next]_vars =>
        [Message /\ stable' =>
           silence <= MaxAge + Grace \/ silenceThen <= MaxAge + Grace]_vars
  BY <1>1
<1> QED
  BY <1>2, Inductive, PTL DEF Spec, ValidBacked
=============================================================================
