--------------------------- MODULE SpiLinkProofs ---------------------------
(***************************************************************************)
(* Proofs about SpiLink, for every range of sequence numbers and all       *)
(* bounds on frames, faults and restarts.                                  *)
(***************************************************************************)
EXTENDS SpiLink, TLAPS

USE LinkAssumption DEF LinkAssumption

(***************************************************************************)
(* Types                                                                   *)
(***************************************************************************)

(* A group of variables that a step leaves alone keeps its types.          *)
LEMMA KeepsPi == PiTypeOK /\ UNCHANGED piVars => PiTypeOK'
BY DEF PiTypeOK, piVars

LEMMA KeepsDma == DmaTypeOK /\ UNCHANGED dmaVars => DmaTypeOK'
BY DEF DmaTypeOK, dmaVars

LEMMA KeepsFrames == FrameTypeOK /\ UNCHANGED frameVars => FrameTypeOK'
BY DEF FrameTypeOK, frameVars

(* Losing bytes changes nothing else of a frame.                           *)
LEMMA SpoiledIs ==
  ASSUME NEW f \in Frame
  PROVE  /\ Spoiled(f) \in Frame /\ ~Spoiled(f).ok
         /\ Spoiled(f).id = f.id /\ Spoiled(f).seq = f.seq
         /\ Spoiled(f).type = f.type
BY DEF Spoiled, Frame

LEMMA NoFrameIs == NoFrame \in Frame /\ NoFrame.id = 0
BY DEF NoFrame, Frame, FrameTypes, Setpoints

LEMMA NoTailIs == NoTail \in TailContent /\ NoTail.begin.id = 0 /\ NoTail.shift = "aligned"
BY NoFrameIs DEF NoTail, TailContent, Shifts, Splits

(* The search returns the frame that starts in the tail, but perhaps for   *)
(* its bytes, or the frame that starts in the half.                        *)
LEMMA PickedIs ==
  ASSUME TypeOK, NEW f \in Picked(half)
  PROVE  /\ f \in Frame /\ f.id # 0
         /\ \/ tail.shift # "aligned" /\ Same(f, tail.begin)
            \/ f = rx[half].begin
<1>1. tail.begin \in Frame /\ rx[half].begin \in Frame
  BY DEF TypeOK, DmaTypeOK, TailContent, Content
<1>2. f \in Earlier(half) \/ f \in Later(half)
  BY DEF Picked
<1>3. CASE f \in Earlier(half)
  <2>1. tail.shift # "aligned" /\ (f = tail.begin \/ f = Spoiled(tail.begin)) /\ f.id # 0
    BY <1>3 DEF Earlier, Valid
  <2> QED
    BY <2>1, <1>1, SpoiledIs DEF Same
<1>4. CASE f \in Later(half)
  BY <1>1, <1>4 DEF Later, Valid
<1> QED
  BY <1>2, <1>3, <1>4

(* The Pi, the interrupts and the DMA.                                     *)
LEMMA BeginType ==
  ASSUME TypeOK, NEW type \in TypesSent, NEW intact \in BOOLEAN,
         BeginTransfer(type, intact)
  PROVE  TypeOK'
<1> DEFINE f == [id |-> sent + 1, epoch |-> epoch, seq |-> seq,
                 type |-> type, ok |-> intact]
<1>1. f \in Frame
  BY DEF TypeOK, PiTypeOK, BeginTransfer, Frame, FrameTypes, Setpoints, TypesSent
<1>2. PiTypeOK'
  BY DEF TypeOK, PiTypeOK, BeginTransfer, NextSeq
<1>3. DmaTypeOK'
  <2>1. CASE running
    <3>1. rx' = [rx EXCEPT ![cur].shift = shift, ![cur].begin = Spoiled(f)]
      BY <2>1 DEF BeginTransfer
    <3>2. Spoiled(f) \in Frame
      BY <1>1, SpoiledIs
    <3>3. rx' \in [{0, 1} -> Content]
      BY <3>1, <3>2 DEF TypeOK, DmaTypeOK, Content
    <3>4. wire' \in Frame
      BY <2>1, <1>1 DEF BeginTransfer
    <3> QED
      BY <2>1, <3>3, <3>4 DEF TypeOK, DmaTypeOK, BeginTransfer
  <2>2. CASE ~running
    BY <2>2 DEF TypeOK, DmaTypeOK, BeginTransfer
  <2> QED
    BY <2>1, <2>2
<1>4. FrameTypeOK'
  BY KeepsFrames DEF TypeOK, BeginTransfer, threadVars
<1>5. overrun' \in BOOLEAN
  BY DEF TypeOK, BeginTransfer, Unread
<1>6. faults' \in 0 .. MaxFaults
  BY DEF TypeOK, BeginTransfer
<1> QED
  BY <1>2, <1>3, <1>4, <1>5, <1>6 DEF TypeOK, BeginTransfer, threadVars

LEMMA HalfDoneType == TypeOK /\ HalfDone => TypeOK'
<1> SUFFICES ASSUME TypeOK, HalfDone PROVE TypeOK'
  OBVIOUS
<1>1. rx' \in [{0, 1} -> Content]
  <2>1. \A h \in {0, 1} : rx'[h] \in Content
    BY DEF TypeOK, DmaTypeOK, HalfDone, Content
  <2> QED
    BY <2>1 DEF HalfDone
<1>2. wire' \in Frame
  BY NoFrameIs DEF TypeOK, DmaTypeOK, HalfDone
<1>3. DmaTypeOK'
  BY <1>1, <1>2 DEF TypeOK, DmaTypeOK, HalfDone
<1>4. last' \in 0 .. MaxFrames
  BY DEF TypeOK, DmaTypeOK, HalfDone, Frame
<1>5. overrun' \in BOOLEAN /\ pending' \subseteq {0, 1}
  BY DEF TypeOK, DmaTypeOK, HalfDone, Unread
<1> QED
  BY <1>3, <1>4, <1>5, KeepsPi, KeepsFrames DEF TypeOK, HalfDone, threadVars

LEMMA EndType == TypeOK /\ EndTransfer => TypeOK'
<1> SUFFICES ASSUME TypeOK, EndTransfer PROVE TypeOK'
  OBVIOUS
<1>1. rx' \in [{0, 1} -> Content]
  BY DEF TypeOK, DmaTypeOK, EndTransfer, Content, Frame
<1>2. DmaTypeOK'
  BY <1>1, NoFrameIs DEF TypeOK, DmaTypeOK, EndTransfer
<1> QED
  BY <1>2, KeepsPi, KeepsFrames DEF TypeOK, EndTransfer, threadVars

LEMMA StopType ==
  ASSUME TypeOK, NEW noticed \in BOOLEAN, DmaStops(noticed) PROVE TypeOK'
<1>1. DmaTypeOK'
  BY NoFrameIs DEF TypeOK, DmaTypeOK, DmaStops
<1> QED
  BY <1>1, KeepsPi, KeepsFrames DEF TypeOK, DmaStops, threadVars

LEMMA PiRestartsType == TypeOK /\ PiRestarts => TypeOK'
<1> SUFFICES ASSUME TypeOK, PiRestarts PROVE TypeOK'
  OBVIOUS
<1>1. PiTypeOK'
  BY DEF TypeOK, PiTypeOK, PiRestarts
<1> QED
  BY <1>1, KeepsDma, KeepsFrames DEF TypeOK, PiRestarts, threadVars

(* The service thread.                                                     *)
LEMMA ProcessType == TypeOK /\ Process => TypeOK'
<1> SUFFICES ASSUME TypeOK, Process PROVE TypeOK'
  OBVIOUS
<1>1. FrameTypeOK'
  <2>1. CASE Picked(half) = {} /\ tx' = [tx EXCEPT ![ReplyHalf] = 0]
             /\ UNCHANGED <<applied, markValid, tracked, gaps, stale>>
    <3>1. tx \in [{0, 1} -> 0 .. MaxFrames] /\ 0 \in 0 .. MaxFrames
      BY DEF TypeOK, FrameTypeOK
    <3>2. tx' \in [{0, 1} -> 0 .. MaxFrames]
      BY <2>1, <3>1
    <3> QED
      BY <2>1, <3>2 DEF TypeOK, FrameTypeOK
  <2>2. CASE \E f \in Picked(half) : tx' = [tx EXCEPT ![ReplyHalf] = f.id] /\ Handle(f)
    <3>1. PICK f \in Picked(half) : tx' = [tx EXCEPT ![ReplyHalf] = f.id] /\ Handle(f)
      BY <2>2
    <3>2. f \in Frame
      BY <3>1, PickedIs
    <3>3. tx' \in [{0, 1} -> 0 .. MaxFrames]
      BY <3>1, <3>2 DEF TypeOK, FrameTypeOK, Frame
    <3>4. Missing(f.seq) \in Nat
      BY <3>2 DEF TypeOK, FrameTypeOK, Missing, Gap, Frame
    <3>5. gaps' \in Nat /\ tracked' \in Frame
      BY <3>1, <3>2, <3>4 DEF TypeOK, FrameTypeOK, Handle
    <3>6. applied' \in Frame /\ markValid' \in BOOLEAN /\ stale' \in BOOLEAN
      BY <3>1, <3>2 DEF TypeOK, FrameTypeOK, Handle
    <3> QED
      BY <3>3, <3>5, <3>6 DEF FrameTypeOK
  <2> QED
    BY <2>1, <2>2 DEF Process
<1> QED
  BY <1>1, KeepsPi, KeepsDma DEF TypeOK, Process

LEMMA ThreadType == TypeOK /\ Thread => TypeOK'
<1> SUFFICES ASSUME TypeOK, Thread PROVE TypeOK'
  OBVIOUS
<1>1. CASE Wake \/ TimeOut \/ CheckError
  BY <1>1, KeepsPi, KeepsDma, KeepsFrames
     DEF TypeOK, Wake, TimeOut, CheckError, otherVars
<1>2. CASE NextHalf
  BY <1>2, KeepsPi, KeepsDma, KeepsFrames DEF TypeOK, NextHalf, otherVars
<1>3. CASE Process
  BY <1>3, ProcessType
<1>4. CASE SaveTail
  <2>1. tail' \in TailContent
    BY <1>4, NoTailIs DEF TypeOK, DmaTypeOK, SaveTail, Content, TailContent
  <2> QED
    BY <1>4, <2>1, KeepsPi, KeepsDma, KeepsFrames DEF TypeOK, SaveTail, AfterHalf
<1>5. CASE \E started \in BOOLEAN : Restart(started)
  <2>1. PICK started \in BOOLEAN : Restart(started)
    BY <1>5
  <2>2. rx' \in [{0, 1} -> Content]
    <3>1. Spoiled(rx[0].begin) \in Frame
      BY SpoiledIs DEF TypeOK, DmaTypeOK, Content
    <3> QED
      BY <2>1, <3>1 DEF TypeOK, DmaTypeOK, Restart, Content
  <2>3. DmaTypeOK'
    BY <2>1, <2>2, NoFrameIs DEF TypeOK, DmaTypeOK, Restart, RunsAfter, Shifts, Splits
  <2>4. FrameTypeOK'
    BY <2>1 DEF TypeOK, FrameTypeOK, Restart
  <2>5. tail' \in TailContent
    BY <2>1, NoTailIs DEF Restart, TailAfterRestart
  <2>6. overrun' \in BOOLEAN /\ carried' \in BOOLEAN
    BY <2>1 DEF TypeOK, Restart, Unread
  <2>7. pc' \in {"wait", "drain"} /\ last' = 0
    BY <2>1 DEF Restart
  <2>8. error' \in BOOLEAN /\ sem' \in BOOLEAN /\ faults' \in 0 .. MaxFaults
    <3>1. CASE started
      BY <2>1, <3>1 DEF TypeOK, Restart
    <3>2. CASE ~started
      <4>1. error' = TRUE /\ sem' = TRUE /\ faults < MaxFaults /\ faults' = faults + 1
        BY <2>1, <3>2, Zenon DEF Restart
      <4> QED
        BY <4>1 DEF TypeOK
    <3> QED
      BY <3>1, <3>2
  <2>9. half' = half /\ pending' = pending /\ PiTypeOK'
    BY <2>1, KeepsPi DEF TypeOK, Restart
  <2> QED
    BY <2>3, <2>4, <2>5, <2>6, <2>7, <2>8, <2>9 DEF TypeOK
<1> QED
  BY <1>1, <1>2, <1>3, <1>4, <1>5 DEF Thread

LEMMA TypeStep == TypeOK /\ [Next]_vars => TypeOK'
<1> SUFFICES ASSUME TypeOK, [Next]_vars PROVE TypeOK'
  OBVIOUS
<1>1. CASE Next
  BY <1>1, ThreadType, BeginType, HalfDoneType, EndType, PiRestartsType, StopType
     DEF Next
<1>2. CASE UNCHANGED vars
  BY <1>2, KeepsPi, KeepsDma, KeepsFrames DEF TypeOK, vars, threadVars
<1> QED
  BY <1>1, <1>2

LEMMA TypeInit == Init => TypeOK
<1> SUFFICES ASSUME Init PROVE TypeOK
  OBVIOUS
<1>1. NoContent \in Content
  BY NoFrameIs DEF NoContent, Content, Shifts, Splits
<1>2. rx \in [{0, 1} -> Content] /\ tx \in [{0, 1} -> 0 .. MaxFrames]
  BY <1>1 DEF Init
<1>3. PiTypeOK
  BY DEF Init, PiTypeOK
<1>4. DmaTypeOK
  BY <1>2, NoFrameIs DEF Init, DmaTypeOK, Shifts, Splits
<1>5. FrameTypeOK
  BY <1>2, NoFrameIs DEF Init, FrameTypeOK
<1>6. error \in BOOLEAN /\ sem \in BOOLEAN
  BY DEF Init
<1>7. pending \subseteq {0, 1} /\ faults \in 0 .. MaxFaults /\ last \in 0 .. MaxFrames
  BY DEF Init
<1>8. overrun \in BOOLEAN /\ carried \in BOOLEAN /\ pc = "wait"
  BY DEF Init
<1> QED
  BY <1>3, <1>4, <1>5, <1>6, <1>7, <1>8, NoTailIs DEF Init, TypeOK

(***************************************************************************)
(* The semaphore                                                           *)
(***************************************************************************)

(* Every interrupt gives the semaphore, the thread takes it before it      *)
(* looks at the error, and leaves the loop with nothing pending.           *)
LEMMA WakeStep == TypeOK /\ NoLostWakeup /\ [Next]_vars => NoLostWakeup'
<1> SUFFICES ASSUME TypeOK, NoLostWakeup, [Next]_vars PROVE NoLostWakeup'
  OBVIOUS
<1>1. CASE Thread
  <2>1. CASE Wake \/ TimeOut \/ CheckError
    BY <2>1 DEF TypeOK, NoLostWakeup, Wake, TimeOut, CheckError
  <2>2. CASE NextHalf
    BY <2>2 DEF NoLostWakeup, NextHalf
  <2>3. CASE Process \/ SaveTail
    BY <2>3 DEF NoLostWakeup, Process, SaveTail, AfterHalf
  <2>4. CASE \E started \in BOOLEAN : Restart(started)
    BY <2>4 DEF NoLostWakeup, Restart
  <2> QED
    BY <1>1, <2>1, <2>2, <2>3, <2>4 DEF Thread
<1>2. CASE \E type \in TypesSent, intact \in BOOLEAN : BeginTransfer(type, intact)
  BY <1>2 DEF NoLostWakeup, BeginTransfer, threadVars
<1>3. CASE HalfDone
  BY <1>3 DEF NoLostWakeup, HalfDone
<1>4. CASE EndTransfer \/ PiRestarts
  BY <1>4 DEF NoLostWakeup, EndTransfer, PiRestarts, threadVars
<1>5. CASE \E noticed \in BOOLEAN : DmaStops(noticed)
  BY <1>5 DEF TypeOK, NoLostWakeup, DmaStops, threadVars
<1>6. CASE UNCHANGED vars
  BY <1>6 DEF NoLostWakeup, vars, threadVars
<1> QED
  BY <1>1, <1>2, <1>3, <1>4, <1>5, <1>6 DEF Next

(***************************************************************************)
(* The order of the frames                                                 *)
(***************************************************************************)

LEMMA Ids ==
  TypeOK => /\ applied.id \in Nat /\ tail.begin.id \in Nat
            /\ wire.id \in Nat /\ sent \in Nat
            /\ \A h \in {0, 1} : rx[h].begin.id \in Nat
BY DEF TypeOK, PiTypeOK, DmaTypeOK, FrameTypeOK, TailContent, Content, Frame

(* From here on the sizes of the ranges play no part. *)
HIDE LinkAssumption DEF LinkAssumption

(* What a transfer that begins leaves in the halves.                       *)
LEMMA BeginIds ==
  ASSUME TypeOK, NEW type \in TypesSent, NEW intact \in BOOLEAN,
         BeginTransfer(type, intact)
  PROVE  /\ sent' = sent + 1
         /\ \A h \in {0, 1} : rx'[h] = rx[h]
                              \/ (running /\ h = cur /\ rx'[h].begin.id = sent + 1)
         /\ phase' = "body" => wire'.id = sent + 1 /\ running
<1> DEFINE f == [id |-> sent + 1, epoch |-> epoch, seq |-> seq,
                 type |-> type, ok |-> intact]
<1>1. CASE running
  <2>1. rx' = [rx EXCEPT ![cur].shift = shift, ![cur].begin = Spoiled(f)] /\ wire' = f
    BY <1>1 DEF BeginTransfer
  <2>2. Spoiled(f).id = sent + 1
    BY DEF Spoiled
  <2>3. \A h \in {0, 1} : rx'[h] = rx[h] \/ (h = cur /\ rx'[h].begin.id = sent + 1)
    BY <2>1, <2>2 DEF TypeOK, DmaTypeOK, Content
  <2> QED
    BY <1>1, <2>1, <2>3 DEF BeginTransfer
<1>2. CASE ~running
  BY <1>2 DEF BeginTransfer
<1> QED
  BY <1>1, <1>2

LEMMA BeginOrder ==
  ASSUME IInv, NEW type \in TypesSent, NEW intact \in BOOLEAN,
         BeginTransfer(type, intact)
  PROVE  SentInv' /\ OrderInv'
<1>1. TypeOK /\ SentInv /\ OrderInv
  BY DEF IInv
<1>2. /\ sent' = sent + 1
      /\ \A h \in {0, 1} : rx'[h] = rx[h]
                           \/ (running /\ h = cur /\ rx'[h].begin.id = sent + 1)
      /\ phase' = "body" => wire'.id = sent + 1 /\ running
  BY <1>1, BeginIds
<1>3. /\ UNCHANGED <<pc, half, tail, applied, markValid, stale, pending, cur>>
      /\ ~overrun' => ~overrun /\ (running => ~Unread(cur))
  BY DEF BeginTransfer, threadVars, frameVars
<1>4. SentInv'
  BY <1>1, <1>2, <1>3, Ids DEF SentInv
<1>5. ASSUME ~overrun' PROVE ~stale' /\ FillInv' /\ QueueInv' /\ TailInv'
  <2>1. ~overrun /\ ~stale /\ FillInv /\ QueueInv /\ TailInv
    BY <1>1, <1>3, <1>5 DEF OrderInv
  <2>2. running => ~Unread(cur)
    BY <1>3, <1>5
  <2>3. \A h \in {0, 1} : Unread(h) => rx'[h] = rx[h]
    BY <1>2, <2>2
  <2>4. cur \in {0, 1} /\ half \in {0, 1} /\ pending \subseteq {0, 1}
    BY <1>1 DEF TypeOK, DmaTypeOK
  <2>5. FillInv'
    BY <1>1, <1>2, <1>3, <2>2, <2>3, <2>4, Ids DEF SentInv, FillInv, Unread
  <2>6. QueueInv'
    BY <1>3, <2>1, <2>3, <2>4 DEF QueueInv, Queued, Unread
  <2>7. TailInv'
    BY <1>3, <2>1, <2>3, <2>4 DEF TailInv, AgainInv, Same, Unread
  <2> QED
    BY <1>3, <2>1, <2>5, <2>6, <2>7
<1> QED
  BY <1>4, <1>5 DEF OrderInv

LEMMA HalfDoneOrder == IInv /\ HalfDone => SentInv' /\ OrderInv'
<1> SUFFICES ASSUME IInv, HalfDone PROVE SentInv' /\ OrderInv'
  OBVIOUS
<1>1. TypeOK /\ SentInv /\ OrderInv
  BY DEF IInv
<1>2. cur \in {0, 1} /\ half \in {0, 1} /\ pending \subseteq {0, 1}
  BY <1>1 DEF TypeOK, DmaTypeOK
<1>3. \A h \in {0, 1} : rx'[h].begin = IF h = cur THEN wire ELSE rx[h].begin
  BY <1>1, <1>2 DEF TypeOK, DmaTypeOK, HalfDone, Content
<1>4. /\ UNCHANGED <<sent, pc, half, tail, applied, markValid, stale>>
      /\ pending' = pending \cup {cur} /\ phase' # "body"
      /\ ~overrun' => ~overrun /\ pending = {}
  BY DEF HalfDone, piVars, threadVars, frameVars
<1>5. wire.id = sent /\ sent > 0
  BY <1>1 DEF HalfDone, SentInv
<1>6. SentInv'
  BY <1>1, <1>3, <1>4, <1>5, Ids DEF SentInv
<1>7. ASSUME ~overrun' PROVE ~stale' /\ FillInv' /\ QueueInv' /\ TailInv'
  <2>1. ~stale /\ FillInv /\ QueueInv /\ TailInv /\ pending = {}
    BY <1>1, <1>4, <1>7 DEF OrderInv
  <2>2. applied.id < sent /\ tail.begin.id < sent /\ ~Unread(cur)
    BY <2>1 DEF FillInv, HalfDone
  <2>3. pc \in {"process", "tail"} => half # cur /\ rx'[half].begin = rx[half].begin
                                      /\ rx[half].begin.id < sent
    BY <1>2, <1>3, <2>1, <2>2 DEF FillInv, HalfDone, Unread
  <2>4. QueueInv'
    <3>1. pending' = {cur} /\ rx'[cur].begin.id = sent
      BY <1>2, <1>3, <1>4, <1>5, <2>1
    <3>2. pc \in {"process", "tail"} => half \notin pending'
      BY <2>3, <3>1
    <3>3. \A h \in {0, 1} : Queued(h)' =>
            rx'[h].begin.id > applied.id /\ rx'[h].begin.id > tail.begin.id
      BY <1>2, <1>4, <2>1, <2>2, <2>3, <3>1, <1>1, Ids DEF QueueInv, Queued
    <3>4. pc \in {"process", "tail"} =>
            \A h \in pending' : rx'[h].begin.id > rx'[half].begin.id
      BY <1>1, <1>2, <2>3, <3>1, Ids
    <3>5. pending' # {0, 1}
      BY <1>2, <3>1
    <3> QED
      BY <1>4, <3>2, <3>3, <3>4, <3>5 DEF QueueInv
  <2>5. TailInv'
    BY <1>2, <1>4, <2>1, <2>3 DEF TailInv, AgainInv, Same
  <2> QED
    BY <1>4, <2>1, <2>4, <2>5 DEF FillInv
<1> QED
  BY <1>6, <1>7 DEF OrderInv

LEMMA ProcessOrder == IInv /\ Process => SentInv' /\ OrderInv'
<1> SUFFICES ASSUME IInv, Process PROVE SentInv' /\ OrderInv'
  OBVIOUS
<1>1. TypeOK /\ SentInv /\ OrderInv
  BY DEF IInv
<1>2. half \in {0, 1} /\ pending \subseteq {0, 1}
  BY <1>1 DEF TypeOK
<1>3. /\ UNCHANGED <<sent, half, tail, pending, overrun, dmaVars>>
      /\ pc = "process" /\ pc' = "tail"
  BY DEF Process, piVars
<1>4. CASE UNCHANGED <<applied, markValid, stale>>
  <2>1. SentInv'
    BY <1>1, <1>3, <1>4 DEF SentInv, dmaVars
  <2>2. ASSUME ~overrun PROVE ~stale' /\ FillInv' /\ QueueInv' /\ TailInv'
    <3>1. ~stale /\ FillInv /\ QueueInv
      BY <1>1, <2>2 DEF OrderInv
    <3>2. FillInv'
      BY <1>3, <1>4, <3>1 DEF FillInv, Unread, dmaVars
    <3>3. QueueInv' /\ rx[half].begin.id > applied.id
      BY <1>2, <1>3, <1>4, <3>1 DEF QueueInv, Queued, dmaVars
    <3>4. TailInv'
      BY <1>1, <1>2, <1>3, <1>4, <3>3, Ids DEF TailInv, AgainInv, dmaVars
    <3> QED
      BY <1>4, <3>1, <3>2, <3>3, <3>4
  <2> QED
    BY <1>3, <2>1, <2>2 DEF OrderInv
<1>5. CASE \E f \in Picked(half) : f.type \in Setpoints /\ ~Dup(f) /\ Handle(f)
  <2>1. PICK f \in Picked(half) : f.type \in Setpoints /\ ~Dup(f) /\ Handle(f)
    BY <1>5
  <2>2. f \in Frame /\ (   (tail.shift # "aligned" /\ Same(f, tail.begin))
                        \/ f = rx[half].begin)
    BY <1>1, <2>1, PickedIs
  <2>3. applied' = f /\ markValid' = TRUE /\ stale' = (stale \/ f.id <= applied.id)
    BY <2>1 DEF Handle
  <2>4. f.id \in Nat
    BY <2>2 DEF Frame
  <2>5. SentInv'
    BY <1>1, <1>2, <1>3, <2>2, <2>3 DEF SentInv, Same, dmaVars
  <2>6. ASSUME ~overrun PROVE ~stale' /\ FillInv' /\ QueueInv' /\ TailInv'
    <3>1. ~stale /\ FillInv /\ QueueInv /\ TailInv
      BY <1>1, <2>6 DEF OrderInv
    <3>2. /\ rx[half].begin.id > applied.id /\ rx[half].begin.id > tail.begin.id
          /\ \A h \in pending : rx[h].begin.id > rx[half].begin.id
      BY <1>2, <1>3, <3>1 DEF QueueInv, Queued
    <3>3. f.id > applied.id /\ f.id <= rx[half].begin.id
      <4>1. CASE tail.shift # "aligned" /\ Same(f, tail.begin)
        <5>1. ~(Same(tail.begin, applied) /\ markValid)
          BY <2>1, <4>1 DEF Dup, Same
        <5>2. AgainInv(tail.begin)
          BY <1>3, <3>1, <4>1 DEF TailInv
        <5> QED
          BY <1>1, <1>2, <3>2, <4>1, <5>1, <5>2, Ids DEF AgainInv, Same
      <4>2. CASE f = rx[half].begin
        BY <1>1, <1>2, <3>2, <4>2, Ids
      <4> QED
        BY <2>2, <4>1, <4>2
    <3>4. ~stale'
      <4>1. ~(f.id <= applied.id)
        BY <1>1, <2>4, <3>3, Ids
      <4> QED
        BY <2>3, <3>1, <4>1, Zenon
    <3>5. FillInv'
      BY <1>1, <1>2, <1>3, <2>3, <2>4, <3>1, <3>3, Ids DEF FillInv, Unread, dmaVars
    <3>6. QueueInv'
      <4>1. ASSUME NEW h \in pending
            PROVE  rx[h].begin.id > f.id /\ rx[h].begin.id > tail.begin.id
        <5>1. rx[h].begin.id > rx[half].begin.id /\ h \in {0, 1}
          BY <1>2, <3>2
        <5> QED
          BY <1>1, <1>2, <2>4, <3>2, <3>3, <5>1, Ids
      <4> QED
        BY <1>2, <1>3, <2>3, <3>1, <4>1 DEF QueueInv, Queued, dmaVars
    <3>7. TailInv'
      <4>1. f.id < rx[half].begin.id \/ f = rx[half].begin
        BY <1>1, <1>2, <2>2, <3>2, Ids DEF Same
      <4>2. AgainInv(rx[half].begin)'
        BY <1>3, <2>3, <4>1 DEF AgainInv, Same, dmaVars
      <4>3. rx[half].begin.id > 0
        BY <1>1, <1>2, <3>2, Ids
      <4> QED
        BY <1>3, <4>2, <4>3 DEF TailInv, dmaVars
    <3> QED
      BY <3>4, <3>5, <3>6, <3>7
  <2> QED
    BY <1>3, <2>5, <2>6 DEF OrderInv
<1> QED
  BY <1>4, <1>5 DEF Process, Handle

LEMMA SaveTailOrder == IInv /\ SaveTail => SentInv' /\ OrderInv'
<1> SUFFICES ASSUME IInv, SaveTail PROVE SentInv' /\ OrderInv'
  OBVIOUS
<1>1. TypeOK /\ SentInv /\ OrderInv
  BY DEF IInv
<1>2. half \in {0, 1} /\ pending \subseteq {0, 1}
  BY <1>1 DEF TypeOK
<1>3. /\ UNCHANGED <<sent, half, pending, overrun, dmaVars, applied, markValid, stale>>
      /\ pc = "tail" /\ pc' = "drain"
      /\ \/ tail'.shift = "aligned" /\ tail'.begin.id = 0
         \/ tail'.begin = rx[half].begin
  BY NoTailIs DEF SaveTail, AfterHalf, piVars, frameVars
<1>4. tail'.begin.id <= rx[half].begin.id
  BY <1>1, <1>2, <1>3, Ids
<1>5. SentInv'
  BY <1>1, <1>2, <1>3, Ids DEF SentInv, dmaVars
<1>6. ASSUME ~overrun PROVE ~stale' /\ FillInv' /\ QueueInv' /\ TailInv'
  <2>1. ~stale /\ FillInv /\ QueueInv /\ TailInv
    BY <1>1, <1>6 DEF OrderInv
  <2>2. tail'.begin.id \in Nat
    BY <1>1, <1>2, <1>3, Ids
  <2>3. FillInv'
    BY <1>1, <1>2, <1>3, <1>4, <2>1, <2>2, Ids DEF FillInv, Unread, dmaVars
  <2>4. QueueInv'
    <3>1. ASSUME NEW h \in pending
          PROVE  rx[h].begin.id > applied.id /\ rx[h].begin.id > tail'.begin.id
      <4>1. /\ rx[h].begin.id > rx[half].begin.id /\ rx[h].begin.id > applied.id
            /\ h \in {0, 1}
        BY <1>2, <1>3, <2>1 DEF QueueInv, Queued
      <4> QED
        BY <1>1, <1>2, <1>4, <2>2, <4>1, Ids
    <3> QED
      BY <1>3, <2>1, <3>1 DEF QueueInv, Queued, dmaVars
  <2>5. TailInv'
    BY <1>3, <2>1 DEF TailInv, AgainInv, Same, dmaVars
  <2> QED
    BY <1>3, <2>1, <2>3, <2>4, <2>5
<1> QED
  BY <1>3, <1>5, <1>6 DEF OrderInv

LEMMA RestartOrder ==
  ASSUME IInv, NEW started \in BOOLEAN, Restart(started)
  PROVE  SentInv' /\ OrderInv'
<1>1. TypeOK /\ SentInv /\ OrderInv
  BY DEF IInv
<1>2. half \in {0, 1} /\ pending \subseteq {0, 1}
  BY <1>1 DEF TypeOK
<1>3. \A h \in {0, 1} : rx'[h].begin.id = rx[h].begin.id
  <2>1. Spoiled(rx[0].begin).id = rx[0].begin.id
    BY <1>1, SpoiledIs DEF TypeOK, DmaTypeOK, Content
  <2> QED
    BY <1>1, <2>1 DEF TypeOK, DmaTypeOK, Restart, Content
<1>4. /\ UNCHANGED <<sent, half, pending, applied, stale>>
      /\ pc \notin {"process", "tail"} /\ pc' \notin {"process", "tail"}
      /\ tail'.shift = "aligned" /\ tail'.begin.id = 0 /\ phase' # "body"
      /\ ~overrun' => ~overrun
  BY NoTailIs DEF Restart, TailAfterRestart, piVars
<1>5. SentInv'
  BY <1>1, <1>3, <1>4, Ids DEF SentInv
<1>6. ASSUME ~overrun' PROVE ~stale' /\ FillInv' /\ QueueInv' /\ TailInv'
  <2>1. ~stale /\ QueueInv
    BY <1>1, <1>4, <1>6 DEF OrderInv
  <2>2. QueueInv'
    BY <1>1, <1>2, <1>3, <1>4, <2>1, Ids DEF QueueInv, Queued
  <2>3. FillInv' /\ TailInv'
    BY <1>4 DEF FillInv, TailInv
  <2> QED
    BY <1>4, <2>1, <2>2, <2>3
<1> QED
  BY <1>5, <1>6 DEF OrderInv

(* The steps that touch neither halves nor frames.                         *)
LEMMA OtherOrder ==
  ASSUME IInv,
         \/ Wake \/ TimeOut \/ CheckError \/ NextHalf
         \/ EndTransfer \/ PiRestarts
         \/ \E noticed \in BOOLEAN : DmaStops(noticed)
  PROVE  SentInv' /\ OrderInv'
<1>1. TypeOK /\ SentInv /\ OrderInv
  BY DEF IInv
<1>2. /\ UNCHANGED <<sent, tail, applied, markValid, stale, overrun, cur>>
      /\ phase' = "body" => phase = "body" /\ wire' = wire
  BY DEF Wake, TimeOut, CheckError, NextHalf, EndTransfer, PiRestarts, DmaStops,
         otherVars, dmaVars, piVars, frameVars, threadVars
<1>3. half \in {0, 1} /\ pending \subseteq {0, 1}
  BY <1>1 DEF TypeOK
<1>4. \A h \in {0, 1} : rx'[h].begin = rx[h].begin
  BY <1>1 DEF TypeOK, DmaTypeOK, Content, Wake, TimeOut, CheckError, NextHalf,
              EndTransfer, PiRestarts, DmaStops, otherVars, dmaVars
<1>5. SentInv'
  BY <1>1, <1>2, <1>4 DEF SentInv
<1>6. ASSUME ~overrun PROVE ~stale' /\ FillInv' /\ QueueInv' /\ TailInv'
  <2>1. ~stale /\ FillInv /\ QueueInv /\ TailInv
    BY <1>1, <1>6 DEF OrderInv
  <2>2. CASE NextHalf /\ pending # {}
    <3>1. /\ half' \in pending /\ pending' = pending \ {half'}
          /\ pc = "drain" /\ pc' = "process"
      BY <1>3, <2>2 DEF NextHalf
    <3>2. pending' = {}
      BY <1>3, <2>1, <3>1 DEF QueueInv
    <3>3. FillInv'
      BY <1>2, <1>3, <1>4, <2>1, <3>1, <3>2 DEF FillInv, Unread
    <3>4. QueueInv'
      BY <1>2, <1>3, <1>4, <2>1, <3>1, <3>2 DEF QueueInv, Queued
    <3>5. TailInv'
      BY <1>2, <2>1, <3>1 DEF TailInv, AgainInv, Same
    <3> QED
      BY <1>2, <2>1, <3>3, <3>4, <3>5
  <2>3. CASE ~(NextHalf /\ pending # {})
    <3>1. /\ pending' = pending /\ half' = half
          /\ \/ pc' = pc
             \/ pc \notin {"process", "tail"} /\ pc' \notin {"process", "tail"}
      BY <2>3 DEF Wake, TimeOut, CheckError, NextHalf, EndTransfer, PiRestarts,
                  DmaStops, otherVars, threadVars
    <3>2. FillInv' /\ QueueInv' /\ TailInv'
      BY <1>2, <1>3, <1>4, <2>1, <3>1
         DEF FillInv, QueueInv, TailInv, Unread, Queued, AgainInv, Same
    <3> QED
      BY <1>2, <2>1, <3>2
  <2> QED
    BY <2>2, <2>3
<1> QED
  BY <1>2, <1>5, <1>6 DEF OrderInv

LEMMA OrderStep == IInv /\ [Next]_vars => SentInv' /\ OrderInv'
<1> SUFFICES ASSUME IInv, [Next]_vars PROVE SentInv' /\ OrderInv'
  OBVIOUS
<1>1. CASE Next
  BY <1>1, BeginOrder, HalfDoneOrder, ProcessOrder, SaveTailOrder, RestartOrder,
     OtherOrder DEF Next, Thread
<1>2. CASE UNCHANGED vars
  BY <1>2 DEF IInv, vars, piVars, dmaVars, threadVars, frameVars, SentInv, OrderInv,
              FillInv, QueueInv, TailInv, Unread, Queued, AgainInv, Same
<1> QED
  BY <1>1, <1>2

LEMMA InvInit == Init => IInv
<1> SUFFICES ASSUME Init PROVE IInv
  OBVIOUS
<1>1. TypeOK
  BY TypeInit
<1>2. NoLostWakeup
  BY DEF Init, NoLostWakeup
<1>3. SentInv
  BY NoFrameIs, NoTailIs DEF Init, SentInv, NoContent
<1>4. OrderInv
  BY NoTailIs DEF Init, OrderInv, FillInv, QueueInv, TailInv, Queued
<1> QED
  BY <1>1, <1>2, <1>3, <1>4 DEF IInv

(* IInv holds in every reachable state.                                    *)
THEOREM Inductive == Spec => []IInv
<1>1. IInv /\ [Next]_vars => IInv'
  BY TypeStep, WakeStep, OrderStep DEF IInv
<1> QED
  BY InvInit, <1>1, PTL DEF Spec

(* The variables of the link keep their types.                             *)
THEOREM TypeCorrect == Spec => []TypeOK
<1>1. IInv => TypeOK
  BY DEF IInv
<1> QED
  BY Inductive, <1>1, PTL

(* The service thread misses neither a pending half nor an error that was  *)
(* flagged: hal_spi_slave.c wakes it through a binary semaphore.           *)
THEOREM NothingMissed == Spec => []NoLostWakeup
<1>1. IInv => NoLostWakeup
  BY DEF IInv
<1> QED
  BY Inductive, <1>1, PTL

(* The overlapping windows of hal_spi_slave.c and its restarts apply each  *)
(* setpoint at most once and none after a newer one, unless a half is      *)
(* filled again before the thread has read it.                             *)
THEOREM AppliedInOrder == Spec => []InOrder
<1>1. IInv => InOrder
  BY DEF IInv, OrderInv, InOrder
<1> QED
  BY Inductive, <1>1, PTL

(***************************************************************************)
(* One run of the DMA                                                      *)
(***************************************************************************)

(* As long as the history is clean, at most one half is pending, and not   *)
(* the one that is served.                                                 *)
LEMMA CleanRun ==
  ASSUME LinkInv, ~overrun, ~carried
  PROVE  /\ TypeOK /\ SentInv /\ BusInv
         /\ PlaceInv /\ ShiftInv /\ ChainInv /\ BytesInv /\ AnswerInv
         /\ pending # {0, 1} /\ (Serving => half \notin pending)
         /\ cur \in {0, 1} /\ half \in {0, 1} /\ pending \subseteq {0, 1}
<1>1. TypeOK /\ SentInv /\ OrderInv /\ BusInv /\ RunInv
  BY DEF LinkInv, IInv
<1>2. QueueInv
  BY <1>1 DEF OrderInv
<1> QED
  BY <1>1, <1>2 DEF RunInv, QueueInv, Serving, TypeOK, DmaTypeOK

LEMMA BusStep == LinkInv /\ [Next]_vars => BusInv'
<1> SUFFICES ASSUME LinkInv, [Next]_vars PROVE BusInv'
  OBVIOUS
<1>1. BusInv
  BY DEF LinkInv
<1>2. CASE \E type \in TypesSent, intact \in BOOLEAN : BeginTransfer(type, intact)
  BY <1>1, <1>2 DEF BusInv, BeginTransfer
<1>3. CASE HalfDone \/ EndTransfer \/ PiRestarts \/ UNCHANGED vars
  BY <1>1, <1>3 DEF BusInv, HalfDone, EndTransfer, PiRestarts, vars, dmaVars
<1>4. CASE \E noticed \in BOOLEAN : DmaStops(noticed)
  BY <1>1, <1>4 DEF BusInv, DmaStops
<1>5. CASE Wake \/ TimeOut \/ CheckError \/ NextHalf \/ Process \/ SaveTail
  BY <1>1, <1>5 DEF BusInv, Wake, TimeOut, CheckError, NextHalf, Process, SaveTail,
                    otherVars, dmaVars
<1>6. CASE \E started \in BOOLEAN : Restart(started)
  BY <1>1, <1>6 DEF BusInv, Restart
<1> QED
  BY <1>2, <1>3, <1>4, <1>5, <1>6 DEF Next, Thread

LEMMA RunBegin ==
  ASSUME LinkInv, NEW type \in TypesSent, NEW intact \in BOOLEAN,
         BeginTransfer(type, intact)
  PROVE  RunInv'
<1> SUFFICES ASSUME ~overrun', ~carried'
             PROVE  PlaceInv' /\ ShiftInv' /\ ChainInv' /\ BytesInv' /\ AnswerInv'
  BY DEF RunInv
<1>1. /\ UNCHANGED <<pc, half, tail, tx, pending, cur, shift, running, version, last>>
      /\ ~overrun /\ ~carried /\ phase = "off" /\ sent' = sent + 1
  BY DEF BeginTransfer, threadVars, frameVars
<1>2. /\ TypeOK /\ SentInv /\ BusInv
      /\ PlaceInv /\ ShiftInv /\ ChainInv /\ BytesInv /\ AnswerInv
      /\ pending # {0, 1} /\ (Serving => half \notin pending)
      /\ cur \in {0, 1} /\ half \in {0, 1} /\ pending \subseteq {0, 1}
  BY <1>1, CleanRun
<1>3. UNCHANGED <<HasDone, Serving>> /\ \A h \in {0, 1} : Unread(h)' <=> Unread(h)
  BY <1>1 DEF HasDone, Serving, Unread
<1>4. CASE ~running
  <2>1. UNCHANGED <<wire, rx>> /\ phase' = "lost"
    BY <1>4 DEF BeginTransfer
  <2> QED
    BY <1>1, <1>2, <1>3, <1>4, <2>1
       DEF PlaceInv, ShiftInv, ChainInv, Continues, BytesInv, AnswerInv, Answered, Valid, Serving
<1>5. version = 1 => intact
  BY DEF BeginTransfer
<1>6. CASE running
  <2> DEFINE f == [id |-> sent + 1, epoch |-> epoch, seq |-> seq,
                   type |-> type, ok |-> intact]
  <2>1. /\ phase' = "body" /\ wire' = f /\ ~Unread(cur)
        /\ rx' = [rx EXCEPT ![cur].shift = shift, ![cur].begin = Spoiled(f)]
    BY <1>6 DEF BeginTransfer
  <2>2. /\ \A h \in {0, 1} : Unread(h) => rx'[h] = rx[h]
        /\ rx'[1 - cur] = rx[1 - cur]
        /\ rx'[cur].shift = shift /\ rx'[cur].end = rx[cur].end
    BY <1>2, <2>1 DEF TypeOK, DmaTypeOK, Content
  <2>3. PlaceInv' /\ ShiftInv' /\ BytesInv'
    BY <1>1, <1>2, <1>3, <1>5, <2>1, <2>2 DEF PlaceInv, ShiftInv, BytesInv, Serving
  <2>4. AnswerInv'
    BY <1>1, <1>2, <2>2 DEF AnswerInv, Answered, Valid
  <2>5. HasDone => Done' = Done
    BY <1>1, <1>3, <2>2 DEF Done
  <2>6. \A h \in pending : Unread(h)
    BY DEF Unread
  <2>7. Serving => Unread(half)
    BY DEF Serving, Unread
  <2>8. /\ HasDone => /\ phase' # "lost" /\ Done'.id = sent' - 1
                      /\ shift \in Splits => Done'.id = rx'[cur].end
    BY <1>1, <1>2, <1>6, <2>1, <2>2, <2>5, Ids DEF ChainInv
  <2>9. ChainInv'
    <3>1. \A h \in {0, 1} : Unread(h) => \A g : Continues(h, g)' <=> Continues(h, g)
      BY <1>1, <2>2 DEF Continues
    <3>2. /\ pc = "process" /\ tail.shift # "aligned" => Continues(half, tail.begin)'
          /\ ~Serving /\ tail.shift # "aligned" =>
               \A h \in pending : Continues(h, tail.begin)'
      BY <1>1, <1>2, <2>6, <2>7, <3>1 DEF ChainInv, Serving
    <3>3. Serving => \A h \in pending : Continues(h, rx[half].begin)'
      BY <1>1, <1>2, <2>2, <2>6, <2>7, <3>1 DEF ChainInv
    <3> QED
      BY <1>1, <1>3, <2>1, <2>2, <2>8, <3>2, <3>3 DEF ChainInv
  <2> QED
    BY <2>3, <2>4, <2>9
<1> QED
  BY <1>4, <1>6

LEMMA RunHalfDone == LinkInv /\ HalfDone => RunInv'
<1> SUFFICES ASSUME LinkInv, HalfDone, ~overrun', ~carried'
             PROVE  PlaceInv' /\ ShiftInv' /\ ChainInv' /\ BytesInv' /\ AnswerInv'
  BY DEF RunInv
<1>1. /\ UNCHANGED <<sent, pc, half, tail, tx, shift, running, version>>
      /\ ~overrun /\ ~carried /\ phase = "body" /\ pending = {}
      /\ pending' = {cur} /\ cur' = 1 - cur
      /\ last' = IF Valid(wire) THEN wire.id ELSE 0
      /\ shift \in Splits => ~Unread(1 - cur) /\ phase' = "rest" /\ wire' = wire
      /\ phase' \in {"rest", "off"}
  BY DEF HalfDone, piVars, threadVars, frameVars, Splits
<1>2. /\ TypeOK /\ SentInv /\ BusInv /\ OrderInv
      /\ PlaceInv /\ ShiftInv /\ ChainInv /\ BytesInv /\ AnswerInv
      /\ cur \in {0, 1} /\ half \in {0, 1}
  BY <1>1, CleanRun DEF LinkInv, IInv
<1>3. ~Unread(cur) /\ wire.id = sent /\ running
  BY <1>1, <1>2 DEF OrderInv, FillInv, SentInv, BusInv
<1>4. Serving => half = 1 - cur /\ shift \notin Splits
  BY <1>1, <1>2 DEF PlaceInv, Unread, Serving
<1>5. /\ rx'[cur].begin = wire /\ rx'[cur].shift = rx[cur].shift /\ rx'[cur].end = rx[cur].end
      /\ rx'[1 - cur].begin = rx[1 - cur].begin /\ rx'[1 - cur].shift = rx[1 - cur].shift
  BY <1>2 DEF TypeOK, DmaTypeOK, HalfDone, Content
<1>6. Serving' = Serving /\ HasDone' /\ Done' = wire
  BY <1>1, <1>2, <1>5 DEF Serving, HasDone, Done
<1>7. \A h \in {0, 1} : Unread(h)' => h = cur \/ (h = 1 - cur /\ Unread(h) /\ Serving)
  BY <1>1, <1>2, <1>4 DEF Unread, Serving
<1>8. PlaceInv'
  <2>1. shift \in Splits => ~Unread(cur)'
    BY <1>1, <1>2, <1>4 DEF Unread, Serving
  <2> QED
    BY <1>1, <1>2, <1>4, <2>1 DEF PlaceInv, Unread
<1>9. ShiftInv'
  BY <1>1, <1>2, <1>5, <1>7 DEF ShiftInv
<1>10. BytesInv'
  BY <1>1, <1>2, <1>5, <1>7 DEF BytesInv
<1>11. AnswerInv'
  BY <1>1, <1>2, <1>5, Ids DEF AnswerInv, Valid
<1>12. ChainInv'
  <2> DEFINE After(h, f) ==
               rx'[h].begin.id = f.id + 1 /\ (shift' \in Splits => rx'[h].end = f.id)
  <2>1. Done'.id = sent' /\ (shift' \in Splits => Done'.id = wire'.id)
    BY <1>1, <1>3, <1>6
  <2>2. HasDone => Done.id = sent - 1 /\ (shift \in Splits => Done.id = rx[cur].end)
    BY <1>1, <1>2, <1>3 DEF ChainInv
  <2>3. HasDone => After(cur, Done)
    BY <1>1, <1>2, <1>3, <1>5, <2>2, Ids
  <2>4. ~Serving /\ tail.shift # "aligned" => After(cur, tail'.begin)
    BY <1>1, <2>3 DEF HasDone, Done
  <2>5. Serving => After(cur, rx'[half'].begin)
    BY <1>1, <1>4, <1>5, <2>3 DEF HasDone, Done
  <2>6. pc = "process" /\ tail.shift # "aligned" => After(half', tail'.begin)
    <3>1. pc = "process" /\ tail.shift # "aligned" => rx[half].begin.id = tail.begin.id + 1
      BY <1>2 DEF ChainInv, Continues
    <3>2. pc = "process" => rx'[half].begin = rx[half].begin /\ shift' \notin Splits
      BY <1>1, <1>4, <1>5 DEF Serving
    <3> QED
      BY <1>1, <3>1, <3>2
  <2> HIDE DEF After
  <2>7. \A h, f : After(h, f) => rx'[h].begin.id = f.id + 1 /\ (shift' \in Splits => rx'[h].end = f.id)
    BY DEF After
  <2> QED
    BY <1>1, <1>6, <2>1, <2>4, <2>5, <2>6, <2>7 DEF ChainInv, Continues
<1> QED
  BY <1>8, <1>9, <1>10, <1>11, <1>12

LEMMA RunEnd == LinkInv /\ EndTransfer => RunInv'
<1> SUFFICES ASSUME LinkInv, EndTransfer, ~overrun', ~carried'
             PROVE  PlaceInv' /\ ShiftInv' /\ ChainInv' /\ BytesInv' /\ AnswerInv'
  BY DEF RunInv
<1>1. /\ UNCHANGED <<sent, pc, half, tail, tx, pending, cur, shift, running, version, last>>
      /\ ~overrun /\ ~carried /\ phase \in {"rest", "lost"} /\ phase' = "off"
  BY DEF EndTransfer, piVars, threadVars, frameVars
<1>2. /\ TypeOK /\ PlaceInv /\ ShiftInv /\ ChainInv /\ BytesInv /\ AnswerInv
      /\ cur \in {0, 1} /\ half \in {0, 1} /\ pending \subseteq {0, 1}
  BY <1>1, CleanRun
<1>3. /\ UNCHANGED <<Serving, HasDone>>
      /\ \A h \in {0, 1} : Unread(h)' = Unread(h)
  BY <1>1 DEF HasDone, Serving, Unread
<1>4. /\ \A h \in {0, 1} : rx'[h].begin = rx[h].begin /\ rx'[h].shift = rx[h].shift
      /\ \A h \in {0, 1} : Unread(h) \/ shift \notin Splits => rx'[h].end = rx[h].end
      /\ phase = "rest" /\ shift \in Splits => rx'[cur].end = wire.id
  BY <1>1, <1>2 DEF EndTransfer, TypeOK, DmaTypeOK, Content, PlaceInv
<1>5. UNCHANGED Done
  BY <1>1, <1>2, <1>3, <1>4 DEF Done
<1>6. PlaceInv' /\ ShiftInv' /\ BytesInv' /\ AnswerInv'
  BY <1>1, <1>2, <1>3, <1>4
     DEF PlaceInv, ShiftInv, BytesInv, AnswerInv, Answered, Valid, Serving
<1>7. ChainInv'
  <2>1. \A h \in {0, 1} : Unread(h) => \A g : Continues(h, g)' <=> Continues(h, g)
    BY <1>1, <1>4 DEF Continues
  <2>2. (\A h \in pending : Unread(h)) /\ (Serving => Unread(half))
    BY DEF Serving, Unread
  <2>3. /\ pc = "process" /\ tail.shift # "aligned" => Continues(half, tail.begin)'
        /\ ~Serving /\ tail.shift # "aligned" =>
             \A h \in pending : Continues(h, tail.begin)'
    BY <1>1, <1>2, <2>1, <2>2 DEF ChainInv, Serving
  <2>4. Serving => \A h \in pending : Continues(h, rx[half].begin)'
    BY <1>1, <1>2, <1>4, <2>1, <2>2 DEF ChainInv
  <2>5. running /\ HasDone => /\ Done.id = sent
                              /\ shift \in Splits => Done.id = rx'[cur].end
    BY <1>1, <1>2, <1>4 DEF ChainInv
  <2> QED
    BY <1>1, <1>3, <1>5, <2>3, <2>4, <2>5 DEF ChainInv
<1> QED
  BY <1>6, <1>7

LEMMA RunProcess == LinkInv /\ Process => RunInv'
<1> SUFFICES ASSUME LinkInv, Process, ~overrun', ~carried'
             PROVE  PlaceInv' /\ ShiftInv' /\ ChainInv' /\ BytesInv' /\ AnswerInv'
  BY DEF RunInv
<1>1. /\ UNCHANGED <<sent, half, tail, pending, cur, shift, running, version, last, rx, phase, wire>>
      /\ ~overrun /\ ~carried /\ pc = "process" /\ pc' = "tail"
  BY DEF Process, piVars, dmaVars
<1>2. /\ TypeOK /\ PlaceInv /\ ShiftInv /\ ChainInv /\ BytesInv /\ AnswerInv
      /\ cur \in {0, 1} /\ half \in {0, 1} /\ pending \subseteq {0, 1}
  BY <1>1, CleanRun
<1>3. /\ UNCHANGED <<Serving, HasDone, Done>> /\ Serving
      /\ \A h \in {0, 1} : Unread(h)' = Unread(h)
  BY <1>1 DEF HasDone, Serving, Done, Unread
<1>4. PlaceInv' /\ ShiftInv' /\ ChainInv' /\ BytesInv'
  BY <1>1, <1>2, <1>3 DEF PlaceInv, ShiftInv, ChainInv, Continues, BytesInv
<1>5. AnswerInv'
  <2>1. CASE pending # {} \/ last = 0
    BY <1>1, <1>2, <2>1 DEF AnswerInv, Valid
  <2>2. CASE pending = {} /\ last # 0
    <3>1. half = 1 - cur /\ rx[half].begin.id = last /\ Valid(rx[half].begin)
      BY <1>1, <1>2, <1>3, <2>2 DEF AnswerInv, PlaceInv
    <3>2. rx[half].shift = shift /\ (tail.shift # "aligned" => tail.shift = shift)
      BY <1>1, <1>2 DEF ShiftInv, Unread
    <3>3. tx \in [{0, 1} -> 0 .. MaxFrames] /\ ReplyHalf = cur
      BY <1>2, <3>1 DEF TypeOK, FrameTypeOK, ReplyHalf
    <3>4. CASE shift = "aligned"
      <4>1. Earlier(half) = {} /\ Later(half) = {rx[half].begin}
        BY <3>1, <3>2, <3>4 DEF Earlier, Later, Splits
      <4>2. Picked(half) = {rx[half].begin}
        BY <4>1 DEF Picked
      <4>3. tx' = [tx EXCEPT ![ReplyHalf] = last]
        BY <3>1, <4>2 DEF Process
      <4>4. tx'[cur] = last
        BY <1>2, <3>3, <4>3
      <4> QED
        BY <1>1, <2>2, <4>4 DEF AnswerInv, Answered
    <3>5. CASE shift # "aligned"
      <4>1. CASE tx' = [tx EXCEPT ![ReplyHalf] = 0]
        <5>1. tx'[cur] = 0
          BY <1>2, <3>3, <4>1
        <5> QED
          BY <1>1, <2>2, <3>5, <5>1 DEF AnswerInv, Answered
      <4>2. CASE \E f \in Picked(half) : tx' = [tx EXCEPT ![ReplyHalf] = f.id]
        <5>1. PICK f \in Picked(half) : tx' = [tx EXCEPT ![ReplyHalf] = f.id]
          BY <4>2
        <5>2. tx'[cur] = f.id
          BY <1>2, <3>3, <5>1
        <5>3. \/ tail.shift # "aligned" /\ f.id = tail.begin.id
              \/ f.id = last
          BY <1>2, <3>1, PickedIs DEF Same
        <5>4. tail.shift # "aligned" => last = tail.begin.id + 1
          BY <1>1, <1>2, <3>1 DEF ChainInv, Continues
        <5>5. f.id = last \/ f.id = last - 1
          BY <1>2, <5>3, <5>4, Ids
        <5> QED
          BY <1>1, <2>2, <3>5, <5>2, <5>5 DEF AnswerInv, Answered
      <4> QED
        BY <4>1, <4>2 DEF Process
    <3> QED
      BY <3>4, <3>5
  <2> QED
    BY <2>1, <2>2
<1> QED
  BY <1>4, <1>5

LEMMA RunSaveTail == LinkInv /\ SaveTail => RunInv'
<1> SUFFICES ASSUME LinkInv, SaveTail, ~overrun', ~carried'
             PROVE  PlaceInv' /\ ShiftInv' /\ ChainInv' /\ BytesInv' /\ AnswerInv'
  BY DEF RunInv
<1>1. /\ UNCHANGED <<sent, half, tx, pending, cur, shift, running, version, last, rx, phase, wire>>
      /\ ~overrun /\ ~carried /\ pc = "tail" /\ pc' = "drain"
      /\ \/ tail'.shift = "aligned"
         \/ tail'.shift = rx[half].shift /\ tail'.begin = rx[half].begin
  BY NoTailIs DEF SaveTail, AfterHalf, piVars, dmaVars, frameVars
<1>2. /\ PlaceInv /\ ShiftInv /\ ChainInv /\ BytesInv /\ AnswerInv
      /\ cur \in {0, 1} /\ half \in {0, 1} /\ pending \subseteq {0, 1}
  BY <1>1, CleanRun
<1>3. /\ Serving /\ ~Serving' /\ HasDone /\ Unread(half)
      /\ \A h \in {0, 1} : Unread(h)' => Unread(h)
  BY <1>1 DEF HasDone, Serving, Unread
<1>4. PlaceInv' /\ ShiftInv' /\ BytesInv' /\ AnswerInv'
  BY <1>1, <1>2, <1>3 DEF PlaceInv, ShiftInv, BytesInv, AnswerInv, Answered, Valid
<1>5. ChainInv'
  <2>1. HasDone' => Done' = Done
    BY <1>1, <1>2, <1>3 DEF HasDone, Done, PlaceInv
  <2>2. tail'.shift # "aligned" => \A h \in pending : Continues(h, tail'.begin)
    BY <1>1, <1>2, <1>3 DEF ChainInv
  <2> QED
    BY <1>1, <1>2, <1>3, <2>1, <2>2 DEF ChainInv, Continues
<1> QED
  BY <1>4, <1>5

LEMMA RunNextHalf == LinkInv /\ NextHalf => RunInv'
<1> SUFFICES ASSUME LinkInv, NextHalf, ~overrun', ~carried'
             PROVE  PlaceInv' /\ ShiftInv' /\ ChainInv' /\ BytesInv' /\ AnswerInv'
  BY DEF RunInv
<1>1. /\ UNCHANGED <<sent, tail, tx, cur, shift, running, version, last, rx, phase, wire>>
      /\ ~overrun /\ ~carried /\ pc = "drain"
  BY DEF NextHalf, otherVars, piVars, dmaVars, frameVars
<1>2. /\ PlaceInv /\ ShiftInv /\ ChainInv /\ BytesInv /\ AnswerInv /\ pending # {0, 1}
      /\ cur \in {0, 1} /\ half \in {0, 1} /\ pending \subseteq {0, 1}
  BY <1>1, CleanRun
<1>3. CASE pending = {}
  <2>1. pc' = "wait" /\ UNCHANGED <<half, pending>>
    BY <1>3 DEF NextHalf
  <2>2. /\ UNCHANGED <<Serving, HasDone, Done>> /\ ~Serving
        /\ \A h \in {0, 1} : Unread(h)' = Unread(h)
    BY <1>1, <2>1 DEF HasDone, Serving, Done, Unread
  <2> QED
    BY <1>1, <1>2, <1>3, <2>1, <2>2
       DEF PlaceInv, ShiftInv, ChainInv, Continues, BytesInv, AnswerInv, Answered, Valid
<1>4. CASE pending # {}
  <2>1. pc' = "process" /\ half' \in pending /\ pending' = pending \ {half'}
    BY <1>2, <1>4 DEF NextHalf
  <2>2. half' = 1 - cur /\ pending' = {}
    BY <1>2, <2>1 DEF PlaceInv
  <2>3. /\ Serving' /\ ~Serving /\ HasDone' /\ HasDone /\ Done' = Done
        /\ \A h \in {0, 1} : Unread(h)' => Unread(h)
    BY <1>1, <1>4, <2>1, <2>2 DEF HasDone, Serving, Done, Unread
  <2>4. PlaceInv' /\ ShiftInv' /\ BytesInv'
    BY <1>1, <1>2, <2>2, <2>3 DEF PlaceInv, ShiftInv, BytesInv
  <2>5. AnswerInv'
    BY <1>1, <1>2, <1>4, <2>1, <2>2 DEF AnswerInv, Valid
  <2>6. ChainInv'
    <3>1. tail.shift # "aligned" => Continues(half', tail.begin)
      BY <1>2, <2>1, <2>3 DEF ChainInv
    <3> QED
      BY <1>1, <1>2, <2>1, <2>2, <2>3, <3>1 DEF ChainInv, Continues
  <2> QED
    BY <2>4, <2>5, <2>6
<1> QED
  BY <1>3, <1>4

LEMMA RunRestart ==
  ASSUME LinkInv, NEW started \in BOOLEAN, Restart(started) PROVE RunInv'
<1> SUFFICES ASSUME ~overrun', ~carried'
             PROVE  PlaceInv' /\ ShiftInv' /\ ChainInv' /\ BytesInv' /\ AnswerInv'
  BY DEF RunInv
<1>1. /\ pending' = {} /\ pc' \in {"wait", "drain"} /\ tail'.shift = "aligned"
      /\ last' = 0 /\ phase' \in {"off", "lost"}
  BY NoTailIs DEF Restart, TailAfterRestart
<1>2. ~Serving' /\ ~HasDone' /\ \A h \in {0, 1} : ~Unread(h)'
  BY <1>1 DEF Serving, HasDone, Unread
<1> QED
  BY <1>1, <1>2 DEF PlaceInv, ShiftInv, ChainInv, BytesInv, AnswerInv

(* The steps that leave what a run has left behind alone.                  *)
LEMMA RunOther ==
  ASSUME LinkInv,
         \/ Wake \/ TimeOut \/ CheckError \/ PiRestarts \/ UNCHANGED vars
         \/ \E noticed \in BOOLEAN : DmaStops(noticed)
  PROVE  RunInv'
<1> SUFFICES ASSUME ~overrun', ~carried'
             PROVE  PlaceInv' /\ ShiftInv' /\ ChainInv' /\ BytesInv' /\ AnswerInv'
  BY DEF RunInv
<1>1. /\ UNCHANGED <<version, sent, half, tail, tx, cur, shift, rx, pending, last>>
      /\ ~overrun /\ ~carried
      /\ pc' = pc \/ (pc \notin {"process", "tail"} /\ pc' \notin {"process", "tail"})
      /\ UNCHANGED <<running, phase, wire>> \/ (~running' /\ phase' \notin {"body", "rest"})
  BY DEF Wake, TimeOut, CheckError, PiRestarts, DmaStops, otherVars, vars, piVars,
         dmaVars, threadVars, frameVars
<1>2. PlaceInv /\ ShiftInv /\ ChainInv /\ BytesInv /\ AnswerInv /\ cur \in {0, 1}
  BY <1>1, CleanRun
<1>3. /\ UNCHANGED <<Serving, HasDone, Done>>
      /\ \A h \in {0, 1} : Unread(h)' = Unread(h)
      /\ (pc' = "process") = (pc = "process")
  BY <1>1 DEF HasDone, Serving, Done, Unread
<1>4. PlaceInv' /\ ShiftInv' /\ BytesInv' /\ AnswerInv'
  BY <1>1, <1>2, <1>3
     DEF PlaceInv, ShiftInv, BytesInv, AnswerInv, Answered, Valid
<1>5. ChainInv'
  BY <1>1, <1>2, <1>3 DEF ChainInv, Continues
<1> QED
  BY <1>4, <1>5

LEMMA RunStep == LinkInv /\ [Next]_vars => RunInv'
BY RunBegin, RunHalfDone, RunEnd, RunProcess, RunSaveTail, RunNextHalf, RunRestart,
   RunOther DEF Next, Thread

(***************************************************************************)
(* Whole frames                                                            *)
(***************************************************************************)

(* A frame that is found has its own bytes: by the CRC, or because the     *)
(* half continues the tail.                                                *)
LEMMA PickedOk ==
  ASSUME LinkInv, pc = "process", NEW f \in Picked(half)
  PROVE  f.ok \/ (version = 1 /\ (overrun \/ carried))
<1>1. TypeOK /\ version \in {1, 2}
  BY DEF LinkInv, IInv, TypeOK, PiTypeOK
<1>2. f \in Earlier(half) \/ f \in Later(half)
  BY DEF Picked
<1>3. Valid(f)
  BY <1>2 DEF Earlier, Later
<1>4. CASE version = 2
  BY <1>3, <1>4 DEF Valid
<1>5. CASE version = 1 /\ ~overrun /\ ~carried
  <2>1. ShiftInv /\ ChainInv /\ BytesInv /\ half \in {0, 1}
    BY <1>5, CleanRun
  <2>2. rx[half].begin.ok /\ rx[half].shift = shift
    BY <1>5, <2>1 DEF BytesInv, ShiftInv, Unread
  <2>3. CASE f \in Later(half)
    BY <2>2, <2>3 DEF Later
  <2>4. CASE f \in Earlier(half)
    <3>1. tail.shift # "aligned"
      BY <2>4 DEF Earlier
    <3>2. /\ tail.shift = shift /\ tail.begin.ok
          /\ shift \in Splits => rx[half].end = tail.begin.id
      BY <1>5, <2>1, <3>1 DEF ShiftInv, BytesInv, ChainInv, Continues
    <3>3. f = tail.begin
      BY <2>2, <2>4, <3>1, <3>2 DEF Earlier
    <3> QED
      BY <3>2, <3>3
  <2> QED
    BY <1>2, <2>3, <2>4
<1> QED
  BY <1>1, <1>4, <1>5

(* Only Process applies a frame; the history only grows.                   *)
LEMMA OnlyProcess ==
  [Next]_vars =>
    \/ Process
    \/ UNCHANGED <<applied, tracked, gaps>>
BY DEF Next, Thread, Wake, TimeOut, CheckError, NextHalf, SaveTail, Restart,
       BeginTransfer, HalfDone, EndTransfer, PiRestarts, DmaStops, otherVars,
       threadVars, frameVars, vars

LEMMA HistoryGrows ==
  [Next]_vars => version' = version /\ (overrun => overrun') /\ (carried => carried')
<1> SUFFICES ASSUME [Next]_vars
             PROVE  version' = version /\ (overrun => overrun') /\ (carried => carried')
  OBVIOUS
<1>1. CASE Wake \/ TimeOut \/ CheckError \/ NextHalf
  BY <1>1 DEF Wake, TimeOut, CheckError, NextHalf, otherVars, piVars
<1>2. CASE Process \/ SaveTail
  BY <1>2 DEF Process, SaveTail, piVars
<1>3. ASSUME NEW started \in BOOLEAN, Restart(started)
      PROVE  version' = version /\ (overrun => overrun') /\ (carried => carried')
  <2>1. version' = version /\ (carried => carried')
    BY <1>3 DEF Restart, piVars
  <2>2. overrun => overrun'
    BY <1>3 DEF Restart
  <2> QED
    BY <2>1, <2>2
<1>4. ASSUME NEW type \in TypesSent, NEW intact \in BOOLEAN, BeginTransfer(type, intact)
      PROVE  version' = version /\ (overrun => overrun') /\ (carried => carried')
  <2>1. version' = version /\ carried' = carried
    BY <1>4 DEF BeginTransfer
  <2>2. overrun => overrun'
    BY <1>4 DEF BeginTransfer
  <2> QED
    BY <2>1, <2>2
<1>5. CASE HalfDone
  <2>1. version' = version /\ carried' = carried
    BY <1>5 DEF HalfDone, piVars
  <2>2. overrun => overrun'
    BY <1>5 DEF HalfDone
  <2> QED
    BY <2>1, <2>2
<1>6. CASE EndTransfer \/ PiRestarts \/ UNCHANGED vars
  BY <1>6 DEF EndTransfer, PiRestarts, vars, piVars
<1>7. CASE \E noticed \in BOOLEAN : DmaStops(noticed)
  BY <1>7 DEF DmaStops, piVars
<1> QED
  BY <1>1, <1>2, <1>3, <1>4, <1>5, <1>6, <1>7 DEF Next, Thread

LEMMA MixtureStep == LinkInv /\ [Next]_vars => NoMixture'
<1> SUFFICES ASSUME LinkInv, [Next]_vars PROVE NoMixture'
  OBVIOUS
<1>1. NoMixture /\ version' = version /\ (overrun => overrun') /\ (carried => carried')
  BY HistoryGrows DEF LinkInv
<1>2. CASE applied' = applied
  BY <1>1, <1>2 DEF NoMixture
<1>3. CASE \E f \in Picked(half) : Process /\ Handle(f) /\ applied' # applied
  <2>1. PICK f \in Picked(half) : Process /\ Handle(f) /\ applied' # applied
    BY <1>3
  <2>2. applied' = f /\ pc = "process"
    BY <2>1 DEF Process, Handle
  <2>3. f.ok \/ (version = 1 /\ (overrun \/ carried))
    BY <2>1, <2>2, PickedOk
  <2> QED
    BY <1>1, <2>2, <2>3 DEF NoMixture
<1> QED
  BY <1>2, <1>3, OnlyProcess DEF Process

(***************************************************************************)
(* The numbers of the frames                                               *)
(***************************************************************************)

LEMMA HeaderIs ==
  ASSUME NEW f \in Frame
  PROVE  /\ Header(f).id \in Nat /\ Header(f).epoch \in Nat /\ Header(f).seq \in Nat
         /\ Header(f).id <= MaxFrames /\ Header(f).seq < SeqMod
         /\ Header(Spoiled(f)) = Header(f)
         /\ Header(f).id = f.id /\ Header(f).epoch = f.epoch /\ Header(f).seq = f.seq
BY LinkAssumption DEF LinkAssumption, Header, Frame, Spoiled

(* What is kept of the frames counts on as before, as long as the Pi sends *)
(* nothing.                                                                *)
LEMMA HeadersKept ==
  ASSUME CountInv, Headers' \subseteq Headers, UNCHANGED <<sent, seq, epoch>>
  PROVE  CountInv'
BY DEF CountInv, CountsOn

(* The search changes no header.                                           *)
LEMMA PickedHeader ==
  ASSUME TypeOK, NEW f \in Picked(half)
  PROVE  Header(f) = Header(tail.begin) \/ f = rx[half].begin
<1>1. tail.begin \in Frame
  BY DEF TypeOK, TailContent
<1>2. f = tail.begin \/ f = Spoiled(tail.begin) \/ f = rx[half].begin
  BY DEF Picked, Earlier, Later
<1> QED
  BY <1>1, <1>2, HeaderIs

(* A frame of which a header is kept, or none at all.                      *)
Known(f) == f.id = 0 \/ Header(f) \in Headers

LEMMA AllKnown ==
  /\ Known(tracked) /\ Known(tail.begin) /\ Known(wire)
  /\ \A h \in {0, 1} : Known(rx[h].begin)
  /\ Known(NoFrame)
BY NoFrameIs DEF Known, Headers, Header

LEMMA KnownSuffice ==
  ASSUME Known(tracked'), Known(tail'.begin), Known(wire'),
         Known(rx'[0].begin), Known(rx'[1].begin)
  PROVE  Headers' \subseteq Headers
<1> SUFFICES ASSUME NEW f \in {tracked', tail'.begin, rx'[0].begin, rx'[1].begin, wire'},
                    Header(f).id # 0
             PROVE  Header(f) \in Headers
  BY DEF Headers
<1> QED
  BY DEF Known, Header

(* Every step but a transfer that begins keeps headers only.               *)
LEMMA NoNewHeader ==
  ASSUME TypeOK, [Next]_vars,
         ~ \E type \in TypesSent, intact \in BOOLEAN : BeginTransfer(type, intact)
  PROVE  Headers' \subseteq Headers
<1>1. /\ tail.begin \in Frame /\ \A h \in {0, 1} : rx[h].begin \in Frame
      /\ half \in {0, 1} /\ cur \in {0, 1}
  BY DEF TypeOK, DmaTypeOK, TailContent, Content
<1>2. CASE Wake \/ TimeOut \/ CheckError \/ NextHalf \/ PiRestarts \/ UNCHANGED vars
  <2>1. UNCHANGED <<tracked, tail, wire, rx>>
    BY <1>2 DEF Wake, TimeOut, CheckError, NextHalf, PiRestarts, otherVars, vars,
                dmaVars, threadVars, frameVars
  <2> QED
    BY <2>1, AllKnown, KnownSuffice
<1>3. CASE HalfDone
  <2>1. /\ UNCHANGED <<tracked, tail>> /\ (wire' = wire \/ wire' = NoFrame)
        /\ \A h \in {0, 1} : rx'[h].begin \in {wire, rx[h].begin}
    BY <1>1, <1>3 DEF HalfDone, TypeOK, DmaTypeOK, Content, threadVars, frameVars
  <2> QED
    BY <2>1, AllKnown, KnownSuffice
<1>4. CASE EndTransfer
  <2>1. /\ UNCHANGED <<tracked, tail>> /\ wire' = NoFrame
        /\ \A h \in {0, 1} : rx'[h].begin = rx[h].begin
    BY <1>1, <1>4 DEF EndTransfer, TypeOK, DmaTypeOK, Content, threadVars, frameVars
  <2> QED
    BY <2>1, AllKnown, KnownSuffice
<1>5. CASE \E noticed \in BOOLEAN : DmaStops(noticed)
  <2>1. UNCHANGED <<tracked, tail, rx>> /\ wire' = NoFrame
    BY <1>5 DEF DmaStops, threadVars, frameVars
  <2> QED
    BY <2>1, AllKnown, KnownSuffice
<1>6. CASE Process
  <2>1. UNCHANGED <<tail, rx, wire>>
    BY <1>6 DEF Process, dmaVars
  <2>2. tracked' = tracked \/ tracked' \in Picked(half)
    BY <1>6 DEF Process, Handle
  <2>3. Known(tracked')
    <3>1. ASSUME NEW f \in Picked(half) PROVE Known(f)
      <4>1. CASE Header(f) = Header(tail.begin)
        BY <4>1, AllKnown DEF Known, Header
      <4>2. CASE f = rx[half].begin
        BY <1>1, <4>2, AllKnown
      <4> QED
        BY <4>1, <4>2, PickedHeader
    <3> QED
      BY <2>2, <3>1, AllKnown
  <2> QED
    BY <2>1, <2>3, AllKnown, KnownSuffice
<1>7. CASE SaveTail
  <2>1. /\ UNCHANGED <<tracked, rx, wire>>
        /\ tail'.begin = NoFrame \/ tail'.begin = rx[half].begin
    BY <1>7 DEF SaveTail, NoTail, dmaVars, frameVars
  <2> QED
    BY <1>1, <2>1, AllKnown, KnownSuffice
<1>8. CASE \E started \in BOOLEAN : Restart(started)
  <2>1. /\ UNCHANGED tracked /\ wire' = NoFrame /\ tail'.begin = NoFrame
    BY <1>8 DEF Restart, TailAfterRestart, NoTail
  <2>2. \A h \in {0, 1} : rx'[h].begin = rx[h].begin \/ rx'[h].begin = Spoiled(rx[h].begin)
    BY <1>1, <1>8 DEF Restart, TypeOK, DmaTypeOK, Content
  <2>3. \A h \in {0, 1} : Known(Spoiled(rx[h].begin))
    BY <1>1, AllKnown, SpoiledIs, HeaderIs DEF Known
  <2> QED
    BY <2>1, <2>2, <2>3, AllKnown, KnownSuffice
<1> QED
  BY <1>2, <1>3, <1>4, <1>5, <1>6, <1>7, <1>8 DEF Next, Thread

(* The number after seq, and the gap between two numbers that are d frames *)
(* apart.                                                                  *)
LEMMA NextSeqIs ==
  TypeOK => /\ seq \in Nat /\ SeqMod \in Nat /\ SeqMod >= 4
            /\ NextSeq = seq + 1 \/ NextSeq = seq + 1 - SeqMod
<1> SUFFICES ASSUME TypeOK
             PROVE  /\ seq \in Nat /\ SeqMod \in Nat /\ SeqMod >= 4
                    /\ NextSeq = seq + 1 \/ NextSeq = seq + 1 - SeqMod
  OBVIOUS
<1>1. seq \in 0 .. SeqMod - 1 /\ SeqMod \in Nat /\ SeqMod >= 4
  BY LinkAssumption DEF LinkAssumption, TypeOK, PiTypeOK
<1>2. CASE seq + 1 < SeqMod
  <2>1. (seq + 1) % SeqMod = seq + 1
    BY <1>1, <1>2
  <2> QED
    BY <1>1, <2>1 DEF NextSeq
<1>3. CASE seq + 1 = SeqMod
  <2>1. SeqMod % SeqMod = 0
    BY <1>1
  <2> QED
    BY <1>1, <1>3, <2>1 DEF NextSeq
<1> QED
  BY <1>1, <1>2, <1>3

LEMMA GapIs ==
  ASSUME NEW s \in 0 .. SeqMod - 1, tracked.seq \in 0 .. SeqMod - 1,
         NEW d \in 1 .. SeqMod - 1,
         s = tracked.seq + d \/ s = tracked.seq + d - SeqMod
  PROVE  Gap(s) = d - 1 /\ s # tracked.seq
<1>1. SeqMod \in Nat /\ SeqMod >= 4
  BY LinkAssumption DEF LinkAssumption
<1>2. CASE s = tracked.seq + d
  <2>1. s + SeqMod - (tracked.seq + 1) = SeqMod + (d - 1)
    BY <1>1, <1>2
  <2>2. (SeqMod + (d - 1)) % SeqMod = d - 1
    BY <1>1
  <2> QED
    BY <1>1, <1>2, <2>1, <2>2 DEF Gap
<1>3. CASE s = tracked.seq + d - SeqMod
  <2>1. s + SeqMod - (tracked.seq + 1) = d - 1
    BY <1>1, <1>3
  <2>2. (d - 1) % SeqMod = d - 1
    BY <1>1
  <2> QED
    BY <1>1, <1>3, <2>1, <2>2 DEF Gap
<1> QED
  BY <1>2, <1>3

LEMMA HeaderTypes ==
  TypeOK => \A f \in Headers : f.id \in Nat /\ f.epoch \in Nat /\ f.seq \in Nat
<1> SUFFICES ASSUME TypeOK,
                    NEW f \in {tracked, tail.begin, rx[0].begin, rx[1].begin, wire}
             PROVE  Header(f).id \in Nat /\ Header(f).epoch \in Nat /\ Header(f).seq \in Nat
  BY DEF Headers
<1>1. f \in Frame
  BY DEF TypeOK, DmaTypeOK, FrameTypeOK, TailContent, Content
<1> QED
  BY <1>1, HeaderIs

LEMMA CountBegin ==
  ASSUME TypeOK, CountInv, NEW type \in TypesSent, NEW intact \in BOOLEAN,
         BeginTransfer(type, intact)
  PROVE  CountInv'
<1> DEFINE new == [id |-> sent + 1, epoch |-> epoch, seq |-> seq]
<1>1. /\ sent' = sent + 1 /\ seq' = NextSeq /\ epoch' = epoch
      /\ sent \in Nat /\ epoch \in Nat
  BY DEF BeginTransfer, TypeOK, PiTypeOK
<1>2. Headers' \subseteq Headers \cup {new}
  <2> DEFINE f == [id |-> sent + 1, epoch |-> epoch, seq |-> seq,
                   type |-> type, ok |-> intact]
  <2>1. UNCHANGED <<tracked, tail>>
    BY DEF BeginTransfer, threadVars, frameVars
  <2>2. Header(f) = new /\ Header(Spoiled(f)) = new
    BY DEF Header, Spoiled
  <2>3. /\ wire' \in {wire, f}
        /\ \A h \in {0, 1} : rx'[h].begin \in {rx[h].begin, Spoiled(f)}
    BY DEF BeginTransfer, TypeOK, DmaTypeOK, Content
  <2>4. {Header(g) : g \in {tracked', tail'.begin, rx'[0].begin, rx'[1].begin, wire'}}
          \subseteq {Header(g) : g \in {tracked, tail.begin, rx[0].begin, rx[1].begin, wire}}
                    \cup {new}
    BY <2>1, <2>2, <2>3
  <2> QED
    BY <2>4 DEF Headers
<1>3. /\ seq \in Nat /\ SeqMod \in Nat /\ SeqMod >= 4
      /\ NextSeq = seq + 1 \/ NextSeq = seq + 1 - SeqMod
  BY NextSeqIs
<1>4. \A f \in Headers : f.id \in Nat /\ f.epoch \in Nat /\ f.seq \in Nat
  BY HeaderTypes
<1>5. ASSUME NEW f \in Headers
      PROVE  /\ f.id <= sent' /\ f.epoch <= epoch'
             /\ f.epoch = epoch' => CountsOn(sent' + 1, seq', f)
             /\ \A g \in Headers \cup {new} : g.epoch = f.epoch => CountsOn(g.id, g.seq, f)
  <2>1. /\ f.id <= sent /\ f.epoch <= epoch
        /\ f.epoch = epoch => CountsOn(sent + 1, seq, f)
        /\ \A g \in Headers : g.epoch = f.epoch => CountsOn(g.id, g.seq, f)
    BY DEF CountInv
  <2>2. seq < SeqMod /\ f.seq < SeqMod
    <3>1. seq \in 0 .. SeqMod - 1
      BY DEF TypeOK, PiTypeOK
    <3>2. f.seq < SeqMod
      <4>1. PICK x \in {tracked, tail.begin, rx[0].begin, rx[1].begin, wire} : f = Header(x)
        BY DEF Headers
      <4>2. x \in Frame
        BY DEF TypeOK, DmaTypeOK, FrameTypeOK, TailContent, Content
      <4> QED
        BY <4>1, <4>2, HeaderIs
    <3> QED
      BY <1>3, <3>1, <3>2
  <2>3. NextSeq >= 0 /\ NextSeq < SeqMod
    BY <1>3, <2>2, LinkAssumption DEF NextSeq, LinkAssumption
  <2>4. f.epoch = epoch => CountsOn(sent' + 1, seq', f)
    BY <1>1, <1>3, <1>4, <2>1, <2>2, <2>3 DEF CountsOn
  <2> QED
    BY <1>1, <1>4, <2>1, <2>4
<1>6. /\ CountsOn(sent' + 1, seq', new)
      /\ \A g \in Headers \cup {new} : CountsOn(g.id, g.seq, new)
  BY <1>1, <1>3, <1>4 DEF CountsOn, CountInv
<1> HIDE DEF new
<1>7. \A f \in Headers \cup {new} :
        /\ f.id <= sent' /\ f.epoch <= epoch'
        /\ f.epoch = epoch' => CountsOn(sent' + 1, seq', f)
        /\ \A g \in Headers \cup {new} : g.epoch = f.epoch => CountsOn(g.id, g.seq, f)
  <2>1. new.id <= sent' /\ new.epoch <= epoch'
    BY <1>1 DEF new
  <2> QED
    BY <1>5, <1>6, <2>1
<1> QED
  BY <1>2, <1>7 DEF CountInv, CountsOn

LEMMA CountStep == LinkInv /\ [Next]_vars => CountInv'
<1> SUFFICES ASSUME LinkInv, [Next]_vars PROVE CountInv'
  OBVIOUS
<1>1. TypeOK /\ CountInv
  BY DEF LinkInv, IInv
<1>2. CASE \E type \in TypesSent, intact \in BOOLEAN : BeginTransfer(type, intact)
  BY <1>1, <1>2, CountBegin
<1>3. CASE ~ \E type \in TypesSent, intact \in BOOLEAN : BeginTransfer(type, intact)
  <2>1. Headers' \subseteq Headers
    BY <1>1, <1>3, NoNewHeader
  <2>2. CASE UNCHANGED <<sent, seq, epoch>>
    BY <1>1, <2>1, <2>2, HeadersKept
  <2>3. CASE PiRestarts
    <3>1. epoch' = epoch + 1 /\ sent' = sent /\ epoch \in Nat
      BY <1>1, <2>3 DEF PiRestarts, TypeOK, PiTypeOK
    <3>2. \A f \in Headers : f.epoch \in Nat /\ f.epoch <= epoch
      BY <1>1, HeaderTypes DEF CountInv
    <3> QED
      BY <1>1, <2>1, <3>1, <3>2 DEF CountInv, CountsOn
  <2> QED
    BY <1>3, <2>2, <2>3 DEF Next, Thread, Wake, TimeOut, CheckError, NextHalf, Process,
          SaveTail, Restart, HalfDone, EndTransfer, DmaStops, vars, otherVars, piVars
<1> QED
  BY <1>2, <1>3

(***************************************************************************)
(* The frames that are counted                                             *)
(***************************************************************************)

LEMMA TrackedSent == TypeOK /\ CountInv => tracked.id \in Nat /\ tracked.id <= sent
<1> SUFFICES ASSUME TypeOK, CountInv PROVE tracked.id \in Nat /\ tracked.id <= sent
  OBVIOUS
<1>1. tracked \in Frame /\ sent \in Nat
  BY DEF TypeOK, FrameTypeOK, PiTypeOK
<1>2. CASE tracked.id = 0
  BY <1>1, <1>2
<1>3. CASE Header(tracked) \in Headers
  BY <1>1, <1>3, HeaderIs DEF CountInv
<1> QED
  BY <1>2, <1>3, AllKnown DEF Known

(* The order of the halves, under a clean history (see OrderInv).          *)
LEMMA CleanOrder ==
  ASSUME LinkInv, ~overrun
  PROVE  /\ TypeOK /\ SentInv /\ CountInv /\ FillInv /\ QueueInv
         /\ half \in {0, 1} /\ cur \in {0, 1} /\ pending \subseteq {0, 1}
BY DEF LinkInv, IInv, OrderInv, TypeOK, DmaTypeOK

(* With protocol v2 the frame that is found is in the half or, whole, in   *)
(* the tail.                                                               *)
LEMMA PickedV2 ==
  ASSUME TypeOK, version = 2, NEW f \in Picked(half)
  PROVE  f = rx[half].begin \/ (tail.shift # "aligned" /\ f = tail.begin)
<1>1. f \in Earlier(half) \/ f \in Later(half)
  BY DEF Picked
<1>2. CASE f \in Later(half)
  BY <1>2 DEF Later
<1>3. CASE f \in Earlier(half)
  <2>1. f.ok /\ tail.shift # "aligned" /\ (f = tail.begin \/ f = Spoiled(tail.begin))
    BY <1>3 DEF Earlier, Valid
  <2>2. ~Spoiled(tail.begin).ok
    BY SpoiledIs DEF TypeOK, TailContent
  <2> QED
    BY <2>1, <2>2
<1> QED
  BY <1>1, <1>2, <1>3

LEMMA TrackBegin ==
  ASSUME LinkInv, NEW type \in TypesSent, NEW intact \in BOOLEAN,
         BeginTransfer(type, intact)
  PROVE  TrackInv'
<1> SUFFICES ASSUME ~overrun', version' = 2
             PROVE  /\ phase' = "body" => tracked'.id < sent'
                    /\ \A h \in {0, 1} : Queued(h)' => rx'[h].begin.id > tracked'.id
                    /\ pc' = "tail" => \/ rx'[half'].begin.id > tracked'.id
                                       \/ rx'[half'].begin = tracked'
                    /\ pc' # "tail" /\ tail'.shift # "aligned" =>
                         tail'.begin.id > tracked'.id \/ tail'.begin = tracked'
  BY DEF TrackInv
<1>1. /\ UNCHANGED <<version, pc, half, tail, pending, cur, tracked>>
      /\ ~overrun /\ sent' = sent + 1 /\ (running => ~Unread(cur))
  BY DEF BeginTransfer, threadVars, frameVars
<1>2. /\ TypeOK /\ CountInv /\ half \in {0, 1} /\ TrackInv
  BY <1>1, CleanOrder DEF LinkInv
<1>3. \A h \in {0, 1} : Unread(h) => rx'[h] = rx[h]
  BY <1>1, <1>2, BeginIds
<1> QED
  BY <1>1, <1>2, <1>3, TrackedSent, Ids DEF TrackInv, Queued, Unread

LEMMA TrackHalfDone == LinkInv /\ HalfDone => TrackInv'
<1> SUFFICES ASSUME LinkInv, HalfDone, ~overrun', version' = 2 PROVE TrackInv'
  BY DEF TrackInv
<1>1. /\ UNCHANGED <<version, pc, half, tail, tracked, sent>>
      /\ ~overrun /\ pending' = pending \cup {cur} /\ phase = "body" /\ phase' # "body"
  BY DEF HalfDone, piVars, threadVars, frameVars
<1>2. /\ TypeOK /\ SentInv /\ FillInv /\ TrackInv
      /\ half \in {0, 1} /\ cur \in {0, 1} /\ pending \subseteq {0, 1}
  BY <1>1, CleanOrder DEF LinkInv
<1>3. \A h \in {0, 1} : rx'[h].begin = IF h = cur THEN wire ELSE rx[h].begin
  BY <1>2 DEF TypeOK, DmaTypeOK, HalfDone, Content
<1>4. wire.id = sent /\ tracked.id < sent /\ ~Unread(cur)
  BY <1>1, <1>2 DEF SentInv, FillInv, TrackInv
<1>5. pc = "tail" => half # cur
  BY <1>4 DEF Unread
<1> QED
  BY <1>1, <1>2, <1>3, <1>4, <1>5 DEF TrackInv, Queued

LEMMA TrackProcess == LinkInv /\ Process => TrackInv'
<1> SUFFICES ASSUME LinkInv, Process, ~overrun', version' = 2 PROVE TrackInv'
  BY DEF TrackInv
<1>1. /\ UNCHANGED <<version, half, tail, pending, sent, rx, phase>>
      /\ ~overrun /\ version = 2 /\ pc = "process" /\ pc' = "tail"
  BY DEF Process, piVars, dmaVars
<1>2. /\ TypeOK /\ SentInv /\ FillInv /\ QueueInv /\ TrackInv
      /\ half \in {0, 1} /\ pending \subseteq {0, 1}
  BY <1>1, CleanOrder DEF LinkInv
<1>3. /\ rx[half].begin.id > tracked.id /\ rx[half].begin.id > tail.begin.id
      /\ \A h \in pending : rx[h].begin.id > rx[half].begin.id /\ rx[h].begin.id > tracked.id
      /\ phase = "body" => /\ rx[half].begin.id < sent /\ tail.begin.id < sent
                           /\ tracked.id < sent
  BY <1>1, <1>2 DEF QueueInv, FillInv, TrackInv, Queued, Unread
<1>4. CASE tracked' = tracked
  BY <1>1, <1>2, <1>3, <1>4 DEF TrackInv, Queued
<1>5. CASE \E f \in Picked(half) : tracked' = f
  <2>1. PICK f \in Picked(half) : tracked' = f
    BY <1>5
  <2>2. f = rx[half].begin \/ f = tail.begin
    BY <1>1, <1>2, PickedV2
  <2>3. /\ f.id <= rx[half].begin.id /\ (phase = "body" => f.id < sent)
        /\ rx[half].begin = f \/ rx[half].begin.id > f.id
    BY <1>2, <1>3, <2>2, Ids
  <2>4. \A h \in pending : rx[h].begin.id > f.id
    BY <1>2, <1>3, <2>2, Ids
  <2> QED
    BY <1>1, <1>2, <2>1, <2>3, <2>4 DEF TrackInv, Queued
<1> QED
  BY <1>4, <1>5 DEF Process, Handle

LEMMA TrackOther ==
  ASSUME LinkInv,
         \/ Wake \/ TimeOut \/ CheckError \/ NextHalf \/ SaveTail
         \/ EndTransfer \/ PiRestarts \/ UNCHANGED vars
         \/ \E noticed \in BOOLEAN : DmaStops(noticed)
         \/ \E started \in BOOLEAN : Restart(started)
  PROVE  TrackInv'
<1> SUFFICES ASSUME ~overrun', version' = 2 PROVE TrackInv'
  BY DEF TrackInv
<1>1. UNCHANGED <<version, sent, tracked>> /\ ~overrun
  BY DEF Wake, TimeOut, CheckError, NextHalf, SaveTail, EndTransfer, PiRestarts, DmaStops,
         Restart, otherVars, vars, piVars, threadVars, frameVars
<1>2. /\ TypeOK /\ TrackInv /\ version = 2
      /\ half \in {0, 1} /\ pending \subseteq {0, 1}
  BY <1>1, CleanOrder DEF LinkInv
<1>3. CASE SaveTail
  <2>1. /\ UNCHANGED <<half, pending, rx, phase>> /\ pc = "tail" /\ pc' = "drain"
        /\ tail'.shift = "aligned" \/ tail'.begin = rx[half].begin
    BY <1>3, NoTailIs DEF SaveTail, AfterHalf, dmaVars
  <2> QED
    BY <1>1, <1>2, <2>1 DEF TrackInv, Queued
<1>4. CASE \E started \in BOOLEAN : Restart(started)
  <2>1. /\ UNCHANGED <<half, pending>> /\ pc' \notin {"process", "tail"}
        /\ tail'.shift = "aligned" /\ phase' # "body"
    BY <1>4, NoTailIs DEF Restart, TailAfterRestart
  <2>2. \A h \in {0, 1} : rx'[h].begin.id = rx[h].begin.id
    <3>1. Spoiled(rx[0].begin).id = rx[0].begin.id
      BY <1>2, SpoiledIs DEF TypeOK, DmaTypeOK, Content
    <3> QED
      BY <1>2, <1>4, <3>1 DEF TypeOK, DmaTypeOK, Restart, Content
  <2> QED
    BY <1>1, <1>2, <2>1, <2>2 DEF TrackInv, Queued
<1>5. CASE NextHalf
  <2>1. UNCHANGED <<rx, phase, tail>> /\ pc = "drain"
    BY <1>5 DEF NextHalf, otherVars, dmaVars
  <2>2. pc' # "tail" /\ \A h \in {0, 1} : Queued(h)' => Queued(h)
    BY <1>2, <1>5 DEF NextHalf, Queued
  <2> QED
    BY <1>1, <1>2, <2>1, <2>2 DEF TrackInv
<1>6. CASE \/ Wake \/ TimeOut \/ CheckError \/ EndTransfer \/ PiRestarts \/ UNCHANGED vars
           \/ \E noticed \in BOOLEAN : DmaStops(noticed)
  <2>1. /\ UNCHANGED <<half, pending, tail>> /\ (phase' = "body" => phase = "body")
        /\ \/ pc' = pc
           \/ pc \notin {"process", "tail"} /\ pc' \notin {"process", "tail"}
    BY <1>6 DEF Wake, TimeOut, CheckError, EndTransfer, PiRestarts, DmaStops,
                otherVars, vars, dmaVars, threadVars
  <2>2. \A h \in {0, 1} : rx'[h].begin = rx[h].begin
    BY <1>2, <1>6 DEF TypeOK, DmaTypeOK, Content, Wake, TimeOut, CheckError,
                EndTransfer, PiRestarts, DmaStops, otherVars, vars, dmaVars
  <2> QED
    BY <1>1, <1>2, <2>1, <2>2 DEF TrackInv, Queued
<1> QED
  BY <1>3, <1>4, <1>5, <1>6

LEMMA TrackStep == LinkInv /\ [Next]_vars => TrackInv'
BY TrackBegin, TrackHalfDone, TrackProcess, TrackOther DEF Next, Thread

(* A frame that is handled after another one of the same run of the Pi is  *)
(* newer, and the gap counts those between them.                           *)
LEMMA GapStep ==
  LinkInv /\ [Next]_vars =>
    ( /\ tracked' # tracked /\ tracked.id # 0
      /\ ~overrun /\ tracked'.epoch = tracked.epoch
      => /\ tracked'.id > tracked.id
         /\ \/ gaps' = gaps + (tracked'.id - tracked.id - 1)
            \/ tracked'.id - tracked.id > SeqMod \div 2 )
<1> SUFFICES ASSUME LinkInv, [Next]_vars,
                    tracked' # tracked, tracked.id # 0,
                    ~overrun, tracked'.epoch = tracked.epoch
             PROVE  /\ tracked'.id > tracked.id
                    /\ \/ gaps' = gaps + (tracked'.id - tracked.id - 1)
                       \/ tracked'.id - tracked.id > SeqMod \div 2
  OBVIOUS
<1>1. PICK f \in Picked(half) : Process /\ Handle(f)
  BY OnlyProcess DEF Process
<1>2. /\ version = 2 /\ tracked' = f /\ gaps' = gaps + Missing(f.seq)
      /\ pc = "process"
  BY <1>1 DEF Handle, Process
<1>3. /\ TypeOK /\ CountInv /\ QueueInv /\ TrackInv
      /\ half \in {0, 1} /\ tracked \in Frame /\ gaps \in Nat
  BY CleanOrder DEF LinkInv, TypeOK, FrameTypeOK
<1>4. f \in Frame
  BY <1>3, PickedIs
<1>5. f.id > tracked.id
  <2>1. rx[half].begin.id > tracked.id
    BY <1>2, <1>3 DEF TrackInv, Queued
  <2>2. tail.shift # "aligned" => tail.begin.id > tracked.id \/ tail.begin = tracked
    BY <1>2, <1>3 DEF TrackInv
  <2> QED
    BY <1>2, <1>3, <2>1, <2>2, PickedV2
<1>6. f.id \in Nat /\ tracked.id \in Nat /\ f.seq \in 0 .. SeqMod - 1 /\ tracked.seq \in 0 .. SeqMod - 1
  BY <1>3, <1>4 DEF Frame
<1>7. CountsOn(f.id, f.seq, tracked)
  <2>1. Header(tracked) \in Headers
    BY AllKnown DEF Known
  <2>2. Header(f) \in Headers
    <3>1. Known(tail.begin) /\ Known(rx[half].begin) /\ f.id # 0
      BY <1>3, <1>5, <1>6, AllKnown
    <3> QED
      BY <1>2, <1>3, <3>1, PickedV2 DEF Known
  <2>3. CountsOn(Header(f).id, Header(f).seq, Header(tracked))
    BY <1>2, <1>3, <1>4, <2>1, <2>2, HeaderIs DEF CountInv
  <2> QED
    BY <1>3, <1>4, <2>3, HeaderIs DEF CountsOn
<1>8. ASSUME f.id - tracked.id <= SeqMod \div 2
      PROVE  Missing(f.seq) = f.id - tracked.id - 1
  <2> DEFINE d == f.id - tracked.id
  <2>1. SeqMod \in Nat /\ SeqMod >= 4
    BY LinkAssumption DEF LinkAssumption
  <2>2. d \in 1 .. SeqMod - 1 /\ d - 1 < SeqMod \div 2
    BY <1>5, <1>6, <1>8, <2>1
  <2>3. f.seq = tracked.seq + d \/ f.seq = tracked.seq + d - SeqMod
    BY <1>5, <1>6, <1>7, <2>1, <2>2 DEF CountsOn
  <2>4. Gap(f.seq) = d - 1 /\ f.seq # tracked.seq
    BY <1>6, <2>2, <2>3, GapIs
  <2>5. ~(Gap(f.seq) >= SeqMod \div 2)
    <3>1. d - 1 \in Nat /\ SeqMod \div 2 \in Nat
      BY <2>1, <2>2
    <3>2. \A n, m \in Nat : n < m => ~(n >= m)
      OBVIOUS
    <3> QED
      BY <2>2, <2>4, <3>1, <3>2
  <2> QED
    BY <2>4, <2>5 DEF Missing
<1>9. SeqMod \div 2 \in Nat
  BY LinkAssumption DEF LinkAssumption
<1> QED
  BY <1>2, <1>5, <1>6, <1>8, <1>9

LEMMA LinkInit == Init => LinkInv
<1> SUFFICES ASSUME Init PROVE LinkInv
  OBVIOUS
<1>1. IInv
  BY InvInit
<1>2. BusInv /\ NoMixture
  BY NoFrameIs DEF Init, BusInv, NoMixture
<1>3. RunInv
  BY NoTailIs DEF Init, RunInv, PlaceInv, ShiftInv, ChainInv, BytesInv, AnswerInv,
                  Serving, HasDone, Unread
<1>4. CountInv
  <2>1. Headers = {}
    BY NoFrameIs, NoTailIs DEF Init, Headers, Header, NoContent, NoTail
  <2> QED
    BY <2>1 DEF CountInv
<1>5. TrackInv
  BY NoTailIs DEF Init, TrackInv, Queued
<1> QED
  BY <1>1, <1>2, <1>3, <1>4, <1>5 DEF LinkInv

(* LinkInv holds in every reachable state.                                 *)
THEOREM LinkInductive == Spec => []LinkInv
<1>1. LinkInv /\ [Next]_vars => LinkInv'
  <2> SUFFICES ASSUME LinkInv, [Next]_vars PROVE LinkInv'
    OBVIOUS
  <2>1. IInv'
    BY TypeStep, WakeStep, OrderStep DEF LinkInv, IInv
  <2> QED
    BY <2>1, BusStep, RunStep, MixtureStep, CountStep, TrackStep DEF LinkInv
<1> QED
  BY LinkInit, <1>1, PTL DEF Spec

(* process_spi_command_build_tx applies no frame put together from two:    *)
(* with protocol v2 never; with v1, which has no CRC, not as long as no    *)
(* half was filled too early and no restart of the DMA found one pending.  *)
THEOREM WholeFrames == Spec => []NoMixture
<1>1. LinkInv => NoMixture
  BY DEF LinkInv
<1> QED
  BY LinkInductive, <1>1, PTL

(* With the thread caught up and the bus quiet, the reply in the half that *)
(* goes out next is about the last transfer, or, when transfers straddle   *)
(* the halves, about the one before it or none.                            *)
THEOREM RepliesRecent == Spec => []AnswersRecent
<1>1. LinkInv => AnswersRecent
  BY DEF LinkInv, RunInv, AnswerInv, Answered, AnswersRecent, Quiet
<1> QED
  BY LinkInductive, <1>1, PTL

(* spi_rx_seq_gaps grows by the number of frames left out, across the wrap *)
(* of the 16 bit numbers, for every gap up to half their range; and no     *)
(* frame is handled after a newer one of the same run of the Pi.           *)
THEOREM LossesCounted == Spec => GapsCountLosses
<1>1. LinkInv /\ [Next]_vars =>
        [ /\ tracked' # tracked /\ tracked.id # 0
          /\ ~overrun /\ tracked'.epoch = tracked.epoch
          => /\ tracked'.id > tracked.id
             /\ \/ gaps' = gaps + (tracked'.id - tracked.id - 1)
                \/ tracked'.id - tracked.id > SeqMod \div 2 ]_vars
  BY GapStep
<1> QED
  BY LinkInductive, <1>1, PTL DEF Spec, GapsCountLosses
=============================================================================
