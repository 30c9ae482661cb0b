------------------------------ MODULE SpiLink ------------------------------
(***************************************************************************)
(* The SPI link of the firmware (spi/hal_spi_slave.c), default build: 128  *)
(* byte transfers, a 64 byte frame in each.  A circular DMA fills two      *)
(* halves in turn; its interrupts mark a half as pending and wake the      *)
(* service thread, which searches the frame in a window made of the end of *)
(* the half before and the pending half, applies it, and writes the reply  *)
(* to the half that goes out next.                                         *)
(*                                                                         *)
(* Where a transfer starts within a half is settled when the DMA starts:   *)
(* at its beginning if the bus is quiet, anywhere if a transfer is under   *)
(* way.  shift is that place as far as the search tells it apart:          *)
(*   aligned  byte 0: the frame is lost from the tail with its first byte  *)
(*   first    byte 1: in the tail the frame starts at offset 0             *)
(*   inside   bytes 2 .. 64: the frame is whole in its half                *)
(*   middle   byte 65: it ends in the next half, and is found at offset 64 *)
(*   split    bytes 66 .. 127: it ends in the next half too                *)
(* A frame stands for its header; ok says its bytes are all its own, which *)
(* the CRC of protocol v2 tells and v1 does not.  The error counter, the   *)
(* content of the replies and the boundary slots, which nobody reads, are  *)
(* left out.                                                               *)
(***************************************************************************)
EXTENDS Naturals, FiniteSets

CONSTANTS
  SeqMod,      (* 2^16                                                     *)
  FirstSeqs,   (* bound: sequence numbers the Pi may have reached at start,*)
               (* for each protocol version                                *)
  MaxFrames,   (* bound: frames the Pi sends                               *)
  MaxFaults,   (* bound: stops of the DMA, failed starts, corrupted frames *)
  MaxRestarts  (* bound: restarts of the Pi                                *)

ASSUME LinkAssumption ==
       /\ SeqMod \in Nat /\ SeqMod >= 4 /\ SeqMod % 2 = 0
       /\ FirstSeqs \in [{1, 2} -> SUBSET (0 .. SeqMod - 1)]
       /\ MaxFrames \in Nat /\ MaxFaults \in Nat /\ MaxRestarts \in Nat

Setpoints == {"J5VR", "J5IK"}
FrameTypes == Setpoints \cup {"STATUS"}
Splits == {"middle", "split"}
Shifts == {"aligned", "first", "inside"} \cup Splits

Frame == [id : 0 .. MaxFrames, epoch : 0 .. MaxRestarts, seq : 0 .. SeqMod - 1,
          type : FrameTypes, ok : BOOLEAN]
NoFrame == [id |-> 0, epoch |-> 0, seq |-> 0, type |-> "STATUS", ok |-> FALSE]
Spoiled(f) == [f EXCEPT !.ok = FALSE]

(* What a half holds: where frames start in it, the frame that does, and   *)
(* the id of the frame whose end it holds.  An aligned tail holds no frame *)
(* that the search could find, like a tail that is not valid.              *)
Content == [shift : Shifts, begin : Frame, end : 0 .. MaxFrames]
NoContent == [shift |-> "aligned", begin |-> NoFrame, end |-> 0]
TailContent == [shift : Shifts, begin : Frame]
NoTail == [shift |-> "aligned", begin |-> NoFrame]

VARIABLES
  version,    (* protocol version of the Pi                                *)
  seq,        (* sequence_counter of the Pi                                *)
  epoch,      (* restarts of the Pi                                        *)
  sent,       (* frames sent                                               *)
  phase,      (* the transfer: "off", its half is being filled ("body"),   *)
              (* past the end of that half ("rest"), or not stored ("lost")*)
  wire,       (* the frame in transfer                                     *)
  running,    (* the DMA runs                                              *)
  shift,      (* place of the transfers in the halves                      *)
  cur,        (* half being filled, or next                                *)
  rx,         (* spi_rx_buf                                                *)
  tx,         (* spi_tx_buf: id of the frame each reply answers, 0 if none *)
  pending,    (* pending_mask                                              *)
  error,      (* spi_error_flag                                            *)
  sem,        (* spi_evt_sem                                               *)
  faults,     (* faults so far                                             *)
  pc,         (* where the service thread is                               *)
  half,       (* the half it serves                                        *)
  tail,       (* spi_ingest_tail: the frame that starts in it              *)
  applied,    (* last setpoint applied; spi_last_j5vr_ik_seq and _ft       *)
  markValid,  (* spi_last_j5vr_ik_valid                                    *)
  tracked,    (* last frame tracked; spi_rx_v2_last_seq, and _seq_valid    *)
  gaps,       (* spi_rx_seq_gaps                                           *)
  overrun,    (* history: a half was filled again before it was read       *)
  carried,    (* history: the DMA was restarted with a half pending        *)
  stale,      (* history: a setpoint was applied that is not the newest    *)
  last        (* history: id of the last frame completed since the start,  *)
              (* 0 if none or if it is not valid                           *)

piVars == <<version, seq, epoch, sent>>
dmaVars == <<running, shift, cur, rx, phase, wire>>
frameVars == <<tx, applied, markValid, tracked, gaps, stale>>
threadVars == <<pc, half, tail, frameVars>>
vars == <<piVars, dmaVars, threadVars, pending, error, sem, faults,
          overrun, carried, last>>

PiTypeOK ==
  /\ version \in {1, 2} /\ seq \in 0 .. SeqMod - 1
  /\ epoch \in 0 .. MaxRestarts /\ sent \in 0 .. MaxFrames
DmaTypeOK ==
  /\ running \in BOOLEAN /\ shift \in Shifts /\ cur \in {0, 1}
  /\ rx \in [{0, 1} -> Content]
  /\ phase \in {"off", "body", "rest", "lost"} /\ wire \in Frame
FrameTypeOK ==
  /\ tx \in [{0, 1} -> 0 .. MaxFrames] /\ applied \in Frame
  /\ markValid \in BOOLEAN /\ tracked \in Frame /\ gaps \in Nat
  /\ stale \in BOOLEAN
TypeOK ==
  /\ PiTypeOK /\ DmaTypeOK /\ FrameTypeOK
  /\ pc \in {"wait", "woken", "watchdog", "recover", "drain", "process", "tail"}
  /\ half \in {0, 1} /\ tail \in TailContent
  /\ pending \subseteq {0, 1} /\ error \in BOOLEAN /\ sem \in BOOLEAN
  /\ faults \in 0 .. MaxFaults /\ last \in 0 .. MaxFrames
  /\ overrun \in BOOLEAN /\ carried \in BOOLEAN

(* After hal_spi_slave_init, its start of the DMA having failed or not; the *)
(* Pi may have been sending before.                                        *)
Init ==
  /\ version \in {1, 2} /\ seq \in FirstSeqs[version] /\ epoch = 0 /\ sent = 0
  /\ phase = "off" /\ wire = NoFrame
  /\ running \in BOOLEAN /\ shift = "aligned" /\ cur = 0
  /\ rx = [h \in {0, 1} |-> NoContent] /\ tx = [h \in {0, 1} |-> 0]
  /\ pending = {} /\ error = ~running /\ sem = ~running /\ faults = 0
  /\ pc = "wait" /\ half = 0 /\ tail = NoTail
  /\ applied = NoFrame /\ markValid = FALSE /\ tracked = NoFrame /\ gaps = 0
  /\ overrun = FALSE /\ carried = FALSE /\ stale = FALSE /\ last = 0

-----------------------------------------------------------------------------
NextSeq == (seq + 1) % SeqMod

(* What v1 lacks is the CRC. *)
Valid(f) == f.id # 0 /\ (version = 1 \/ f.ok)

-----------------------------------------------------------------------------
(* The Pi and the DMA *)

(* The thread has still to read what half h holds. *)
Unread(h) == h \in pending \/ (pc \in {"process", "tail"} /\ half = h)

(* The driver asks for STATUS with v1 only, and streams with v2 only. *)
TypesSent == IF version = 1 THEN {"J5VR", "STATUS"} ELSE {"J5VR", "J5IK"}

(* A transfer begins: its frame goes to the half being filled, which holds *)
(* part of it until the half is complete.  A stopped DMA stores nothing.   *)
BeginTransfer(type, intact) ==
  /\ phase = "off" /\ sent < MaxFrames
  /\ \/ intact /\ UNCHANGED faults
     \/ ~intact /\ version = 2 /\ faults < MaxFaults /\ faults' = faults + 1
  /\ sent' = sent + 1 /\ seq' = NextSeq
  /\ LET f == [id |-> sent + 1, epoch |-> epoch, seq |-> seq,
               type |-> type, ok |-> intact]
     IN IF running
        THEN /\ phase' = "body" /\ wire' = f
             /\ rx' = [rx EXCEPT ![cur].shift = shift, ![cur].begin = Spoiled(f)]
             /\ overrun' = (overrun \/ Unread(cur))
        ELSE phase' = "lost" /\ UNCHANGED <<wire, rx, overrun>>
  /\ UNCHANGED <<version, epoch, running, shift, cur, threadVars, pending,
                 error, sem, carried, last>>

(* The last byte of a half: the interrupt.  With a split frame the other   *)
(* half is written at once.                                                *)
HalfDone ==
  /\ phase = "body"
  /\ pending' = pending \cup {cur} /\ sem' = TRUE
  /\ cur' = 1 - cur
  /\ phase' = IF shift = "aligned" THEN "off" ELSE "rest"
  /\ rx' = [h \in {0, 1} |->
              IF h = cur THEN [rx[h] EXCEPT !.begin = wire]
              ELSE IF shift \in Splits THEN [rx[h] EXCEPT !.end = 0]
              ELSE rx[h]]
  /\ overrun' = (overrun \/ pending # {} \/ (shift \in Splits /\ Unread(1 - cur)))
  /\ last' = IF Valid(wire) THEN wire.id ELSE 0
  /\ wire' = IF shift \in Splits THEN wire ELSE NoFrame
  /\ UNCHANGED <<piVars, running, shift, threadVars, error, faults, carried>>

(* The Pi has clocked its 128 bytes. *)
EndTransfer ==
  /\ phase \in {"rest", "lost"}
  /\ phase' = "off"
  /\ rx' = IF phase = "rest" /\ shift \in Splits
           THEN [rx EXCEPT ![cur].end = wire.id] ELSE rx
  /\ wire' = NoFrame
  /\ UNCHANGED <<piVars, running, shift, cur, threadVars, pending,
                 error, sem, faults, overrun, carried, last>>

(* The Pi starts again, and numbers its frames from 0.  It shows only with  *)
(* frames before and after.                                                *)
PiRestarts ==
  /\ phase = "off" /\ epoch < MaxRestarts /\ sent \in 1 .. MaxFrames - 1
  /\ epoch' = epoch + 1 /\ seq' = 0
  /\ UNCHANGED <<version, sent, dmaVars, threadVars, pending, error, sem,
                 faults, overrun, carried, last>>

(* The DMA stops: with an error interrupt, or without one. *)
DmaStops(noticed) ==
  /\ running /\ faults < MaxFaults
  /\ faults' = faults + 1 /\ running' = FALSE
  /\ phase' = (IF phase = "off" THEN "off" ELSE "lost") /\ wire' = NoFrame
  /\ error' = (error \/ noticed) /\ sem' = (sem \/ noticed)
  /\ UNCHANGED <<piVars, shift, cur, rx, threadVars, pending, overrun,
                 carried, last>>

-----------------------------------------------------------------------------
(* The search: spi_pick_normalized_frame *)

Newer(a, b) == (a + SeqMod - b) % SeqMod \in 1 .. (SeqMod \div 2) - 1

(* The frame of the window that starts in the tail: whole there, or        *)
(* continued by the half, in which case the bytes fit only if they are of  *)
(* the same frame.                                                         *)
Earlier(h) ==
  LET f == tail.begin
  IN IF tail.shift = "aligned" THEN {}
     ELSE IF tail.shift \notin Splits \/ (rx[h].shift \in Splits /\ rx[h].end = f.id)
     THEN {g \in {f} : Valid(g)}
     ELSE {g \in {Spoiled(f)} : Valid(g)}

(* The frame that starts in the half, if it is whole. *)
Later(h) == {f \in {rx[h].begin} : Valid(f) /\ rx[h].shift \notin Splits}

(* The score: offsets 0 and 64 count for more, and so does J5VR. *)
EarlierScore(f) == (IF tail.shift \in {"first", "middle"} THEN 50 ELSE 10)
                   + (IF f.type = "J5VR" THEN 20 ELSE 0)
LaterScore(f) == 10 + (IF f.type = "J5VR" THEN 20 ELSE 0)

LaterWins(e, l) == \/ LaterScore(l) > EarlierScore(e)
                   \/ LaterScore(l) = EarlierScore(e) /\ Newer(l.seq, e.seq)
Ambiguous(e, l) == LaterScore(l) = EarlierScore(e) /\ l.seq = e.seq

(* The frame found, if there is one. *)
Picked(h) ==
  IF Earlier(h) = {} \/ Later(h) = {} THEN Earlier(h) \cup Later(h)
  ELSE {f \in Earlier(h) : \A l \in Later(h) : ~LaterWins(f, l) /\ ~Ambiguous(f, l)}
       \cup {f \in Later(h) : \A e \in Earlier(h) : LaterWins(e, f)}

-----------------------------------------------------------------------------
(* The service thread *)

(* Fault: the mark is not looked at. *)
DupNever(f) == FALSE
Dup(f) == markValid /\ f.type = applied.type /\ f.seq = applied.seq

(* Fault: the gap counts the frame itself. *)
GapOffByOne(s) == (s + SeqMod - tracked.seq) % SeqMod
Gap(s) == (s + SeqMod - (tracked.seq + 1)) % SeqMod

(* Frames missing between the last one and sequence number s; half the     *)
(* range or more is taken for a step back.                                 *)
Missing(s) ==
  IF tracked.id = 0 \/ s = tracked.seq \/ Gap(s) >= SeqMod \div 2 THEN 0 ELSE Gap(s)

(* process_spi_command_build_tx for a frame that was found *)
Handle(f) ==
  /\ IF version = 2
     THEN gaps' = gaps + Missing(f.seq) /\ tracked' = f
     ELSE UNCHANGED <<gaps, tracked>>
  /\ IF f.type \in Setpoints /\ ~Dup(f)
     THEN /\ applied' = f /\ markValid' = TRUE
          /\ stale' = (stale \/ f.id <= applied.id)
     ELSE UNCHANGED <<applied, markValid, stale>>

(* Fault: the reply goes to the half that has just gone out. *)
ReplyHalfSame == half
ReplyHalf == 1 - half

Process ==
  /\ pc = "process" /\ pc' = "tail"
  /\ \/ /\ Picked(half) = {}
        /\ tx' = [tx EXCEPT ![ReplyHalf] = 0]
        /\ UNCHANGED <<applied, markValid, tracked, gaps, stale>>
     \/ \E f \in Picked(half) :
          /\ tx' = [tx EXCEPT ![ReplyHalf] = f.id]
          /\ Handle(f)
  /\ UNCHANGED <<piVars, dmaVars, pending, error, sem, faults, half, tail,
                 overrun, carried, last>>

(* Fault: one half for each wake-up. *)
AfterHalfWait == "wait"
AfterHalf == "drain"

SaveTail ==
  /\ pc = "tail" /\ pc' = AfterHalf
  /\ tail' = IF rx[half].shift = "aligned" THEN NoTail
             ELSE [shift |-> rx[half].shift, begin |-> rx[half].begin]
  /\ UNCHANGED <<piVars, dmaVars, frameVars, pending, error, sem, faults, half,
                 overrun, carried, last>>

otherVars == <<piVars, dmaVars, tail, frameVars, faults, overrun, carried, last>>

Wake ==
  /\ pc = "wait" /\ sem
  /\ sem' = FALSE /\ pc' = "woken"
  /\ UNCHANGED <<otherVars, half, pending, error>>

(* 3 s without an event; the thread has not processed a half meanwhile.  A *)
(* half that completes between the time-out and the look at pending_mask   *)
(* sends the thread back to the wait.                                      *)
TimeOut ==
  /\ pc = "wait" /\ ~sem /\ pending = {}
  /\ pc' = "watchdog"
  /\ UNCHANGED <<otherVars, half, pending, error, sem>>

CheckError ==
  /\ pc = "woken"
  /\ error' = FALSE
  /\ pc' = IF error THEN "recover" ELSE "drain"
  /\ UNCHANGED <<otherVars, half, pending, sem>>

(* One half; half 0 first if both are pending. *)
NextHalf ==
  /\ pc = "drain"
  /\ IF pending = {}
     THEN pc' = "wait" /\ UNCHANGED <<half, pending>>
     ELSE /\ half' = IF 0 \in pending THEN 0 ELSE 1
          /\ pending' = pending \ {half'}
          /\ pc' = "process"
  /\ UNCHANGED <<otherVars, error, sem>>

(* Fault: the tail survives the restart. *)
TailKept == tail
TailAfterRestart == NoTail

(* Fault: the watchdog only stops the DMA. *)
RunsAfterError(started) == started /\ pc = "recover"
RunsAfter(started) == started

(* Stop and start of the DMA.  It starts with half 0, in which the rest of *)
(* a transfer under way is stored.                                         *)
Restart(started) ==
  /\ pc \in {"watchdog", "recover"}
  /\ pc' = IF pc = "watchdog" THEN "wait" ELSE "drain"
  /\ tail' = TailAfterRestart /\ markValid' = FALSE
  /\ running' = RunsAfter(started)
  /\ carried' = (carried \/ pending # {})
  /\ last' = 0
  /\ phase' = (IF phase = "off" THEN "off" ELSE "lost") /\ wire' = NoFrame
  /\ IF started
     THEN /\ cur' = 0
          /\ IF phase = "off"
             THEN shift' = "aligned" /\ UNCHANGED <<rx, overrun>>
             ELSE /\ shift' \in Shifts \ {"aligned"}
                  /\ rx' = [rx EXCEPT ![0].begin = Spoiled(@), ![0].end = 0]
                  /\ overrun' = (overrun \/ Unread(0))
          /\ UNCHANGED <<error, sem, faults>>
     ELSE /\ faults < MaxFaults /\ faults' = faults + 1
          /\ error' = TRUE /\ sem' = TRUE
          /\ UNCHANGED <<cur, shift, rx, overrun>>
  /\ UNCHANGED <<piVars, pending, half, tx, applied, tracked, gaps, stale>>

Thread == \/ Wake \/ TimeOut \/ CheckError
          \/ NextHalf \/ Process \/ SaveTail
          \/ \E started \in BOOLEAN : Restart(started)

Next ==
  \/ Thread
  \/ \E type \in TypesSent, intact \in BOOLEAN : BeginTransfer(type, intact)
  \/ HalfDone \/ EndTransfer \/ PiRestarts
  \/ \E noticed \in BOOLEAN : DmaStops(noticed)

Spec == Init /\ [][Next]_vars

(* The thread goes on, its wait included. *)
FairSpec == Spec /\ WF_vars(Thread)

-----------------------------------------------------------------------------
(* Properties *)

(* A half that is pending, or an error, never waits for the time-out: the  *)
(* semaphore is up, or the thread is on its way to look.  A semaphore that *)
(* counts to 1, given by three interrupts and by the thread itself, is     *)
(* enough.                                                                 *)
NoLostWakeup ==
  /\ error /\ pc # "woken" => sem
  /\ pending # {} /\ pc \in {"wait", "watchdog"} => sem

(* As long as no half is filled again before it was read, every setpoint   *)
(* that is applied is newer than all those before: overlapping windows and *)
(* restarts of the DMA repeat none and reverse none.                       *)
InOrder == stale => overrun

(* A setpoint is applied with the bytes of one frame only.  Under v1, with *)
(* no CRC, this needs that no half was filled too early, and that the DMA  *)
(* was not restarted over a pending half, whose tail would be continued by *)
(* bytes from after the restart.                                           *)
NoMixture ==
  applied.id # 0 => applied.ok \/ (version = 1 /\ (overrun \/ carried))

(* As long as no half is filled again before it was read, the frames of one *)
(* run of the Pi are handled in order, and spi_rx_seq_gaps grows by the    *)
(* number of those left out, up to half the range of the sequence numbers, *)
(* across its wrap: a frame counted as lost is not handled later.          *)
GapsCountLosses ==
  [][ /\ tracked' # tracked /\ tracked.id # 0
      /\ ~overrun /\ tracked'.epoch = tracked.epoch
      => /\ tracked'.id > tracked.id
         /\ \/ gaps' = gaps + (tracked'.id - tracked.id - 1)
            \/ tracked'.id - tracked.id > SeqMod \div 2 ]_vars

(* The reply that goes out with a transfer answers the transfer before it, *)
(* or, when the transfers are not aligned to the halves, the one before    *)
(* that.                                                                   *)
Quiet == pc = "wait" /\ pending = {} /\ phase = "off" /\ running
AnswersRecent ==
  Quiet /\ ~overrun /\ ~carried /\ last # 0 =>
    \/ tx[cur] = last
    \/ shift # "aligned" /\ tx[cur] \in {0, last - 1}

(* A DMA that has stopped, noticed or not, is started again. *)
LinkRecovers == ~running ~> running

-----------------------------------------------------------------------------
(***************************************************************************)
(* The inductive invariant behind NoLostWakeup and InOrder.                *)
(***************************************************************************)
Queued(h) == h \in pending \/ (pc = "process" /\ half = h)
Same(f, g) == f.id = g.id /\ f.seq = g.seq /\ f.type = g.type

(* Nothing is newer than the last frame sent. *)
SentInv ==
  /\ applied.id <= sent /\ tail.begin.id <= sent
  /\ \A h \in {0, 1} : rx[h].begin.id <= sent
  /\ phase = "body" => wire.id = sent /\ sent > 0

(* A frame that fills a half is newer than all there is, and the half is   *)
(* free.                                                                   *)
FillInv ==
  phase = "body" =>
    /\ applied.id < sent /\ tail.begin.id < sent
    /\ ~Unread(cur)
    /\ \A h \in {0, 1} : Unread(h) => rx[h].begin.id < sent

(* What waits to be served is newer than what was served, and there is an  *)
(* order in which the halves wait.                                         *)
QueueInv ==
  /\ pending # {0, 1}
  /\ pc \in {"process", "tail"} => half \notin pending
  /\ \A h \in {0, 1} : Queued(h) =>
       rx[h].begin.id > applied.id /\ rx[h].begin.id > tail.begin.id
  /\ pc \in {"process", "tail"} =>
       \A h \in pending : rx[h].begin.id > rx[half].begin.id

(* A frame that may be found again is the one the mark stands for, or was  *)
(* never applied.                                                          *)
AgainInv(f) == f.id > applied.id \/ (Same(f, applied) /\ markValid)
TailInv ==
  /\ pc = "tail" => AgainInv(rx[half].begin) /\ rx[half].begin.id > 0
  /\ pc # "tail" /\ tail.shift # "aligned" => AgainInv(tail.begin)

OrderInv == ~overrun => ~stale /\ FillInv /\ QueueInv /\ TailInv

IInv == TypeOK /\ NoLostWakeup /\ SentInv /\ OrderInv

-----------------------------------------------------------------------------
(***************************************************************************)
(* The inductive invariant behind NoMixture and AnswersRecent: what one    *)
(* run of the DMA leaves behind, as long as no half is filled again before *)
(* it was read and no restart found a half pending.                        *)
(***************************************************************************)
Serving == pc \in {"process", "tail"}

(* The last frame that this run of the DMA completed, if its bytes still   *)
(* matter: it is in the half before the one being filled, or in the tail.  *)
HasDone == pending # {} \/ Serving \/ tail.shift # "aligned"
Done == IF pending # {} \/ Serving THEN rx[1 - cur].begin ELSE tail.begin

(* The halves are served in the order in which they are filled, and the    *)
(* rest of a split frame is written to a half that waits for nothing.      *)
PlaceInv ==
  /\ \A h \in pending : h = 1 - cur
  /\ Serving /\ pending = {} => half = 1 - cur
  /\ phase = "rest" /\ shift \in Splits => ~Unread(cur)

(* All that is left of a run has the place of this run. *)
ShiftInv ==
  /\ tail.shift # "aligned" => tail.shift = shift
  /\ \A h \in {0, 1} : Unread(h) => rx[h].shift = shift
  /\ phase = "body" => rx[cur].shift = shift

(* A half holds the frame sent after frame f, and the end of f.            *)
Continues(h, f) ==
  rx[h].begin.id = f.id + 1 /\ (shift \in Splits => rx[h].end = f.id)

(* A half continues the window before it: the transfer after the last one  *)
(* completed is the one that fills the next half.                          *)
ChainInv ==
  /\ running /\ HasDone =>
       /\ phase # "lost"
       /\ Done.id = IF phase = "body" THEN sent - 1 ELSE sent
       /\ shift \in Splits =>
            Done.id = IF phase = "rest" THEN wire.id ELSE rx[cur].end
  /\ pc = "process" /\ tail.shift # "aligned" => Continues(half, tail.begin)
  /\ ~Serving /\ tail.shift # "aligned" =>
       \A h \in pending : Continues(h, tail.begin)
  /\ Serving => \A h \in pending : Continues(h, rx[half].begin)

(* Without a CRC: what waits to be found has the bytes it was sent with.   *)
BytesInv ==
  version = 1 =>
    /\ \A h \in {0, 1} : Unread(h) => rx[h].begin.ok
    /\ tail.shift # "aligned" => tail.begin.ok
    /\ phase = "body" => wire.ok

(* The last frame is answered by the time its half has been processed.     *)
Answered == tx[cur] = last \/ (shift # "aligned" /\ tx[cur] \in {0, last - 1})
AnswerInv ==
  last # 0 =>
    IF pending # {} \/ pc = "process"
    THEN rx[1 - cur].begin.id = last /\ Valid(rx[1 - cur].begin)
    ELSE Answered

RunInv ==
  ~overrun /\ ~carried => PlaceInv /\ ShiftInv /\ ChainInv /\ BytesInv /\ AnswerInv

BusInv == phase \in {"body", "rest"} => running

-----------------------------------------------------------------------------
(***************************************************************************)
(* The inductive invariant behind GapsCountLosses.                         *)
(***************************************************************************)

(* The frames of which the link or the thread still has the header.        *)
Header(f) == [id |-> f.id, epoch |-> f.epoch, seq |-> f.seq]
Headers ==
  {h \in {Header(f) : f \in {tracked, tail.begin, rx[0].begin, rx[1].begin, wire}} :
     h.id # 0}

(* Frame id has number s if frame f of the same run of the Pi has f.seq:   *)
(* the numbers go up by one and wrap at SeqMod.                            *)
CountsOn(id, s, f) ==
  id > f.id /\ id - f.id < SeqMod =>
    s = f.seq + (id - f.id) \/ s = f.seq + (id - f.id) - SeqMod

CountInv ==
  \A f \in Headers :
    /\ f.id <= sent /\ f.epoch <= epoch
    /\ f.epoch = epoch => CountsOn(sent + 1, seq, f)
    /\ \A g \in Headers : g.epoch = f.epoch => CountsOn(g.id, g.seq, f)

(* A frame that may be found is newer than the one tracked, or that very   *)
(* one.                                                                    *)
TrackInv ==
  ~overrun /\ version = 2 =>
    /\ phase = "body" => tracked.id < sent
    /\ \A h \in {0, 1} : Queued(h) => rx[h].begin.id > tracked.id
    /\ pc = "tail" => rx[half].begin.id > tracked.id \/ rx[half].begin = tracked
    /\ pc # "tail" /\ tail.shift # "aligned" =>
         tail.begin.id > tracked.id \/ tail.begin = tracked

LinkInv == IInv /\ BusInv /\ RunInv /\ NoMixture /\ CountInv /\ TrackInv
=============================================================================
