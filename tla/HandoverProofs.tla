--------------------------- MODULE HandoverProofs ---------------------------
(***************************************************************************)
(* Proofs about the two hand-overs between the 1 kHz tick and the main     *)
(* thread of the firmware, which share plain memory: the edges of the      *)
(* button, from the tick to the main thread (EstopNotify, for every length *)
(* of the debounce), and the trajectory, from the main thread to the tick  *)
(* (SetPose, for any number of requests and every outcome of the first     *)
(* store).                                                                 *)
(***************************************************************************)
EXTENDS EstopNotify, SetPose, TLAPS

USE EstopAssumption

LEMMA TokenIs == \A a \in BOOLEAN : Token(a) \in Tokens /\ (Token(a) = "ESTOP") = a
BY DEF Token, Tokens

(* Sequences of one or two tokens.                                         *)
LEMMA ToSendIs ==
  ASSUME NEW q \in {<<>>} \cup {<<s>> : s \in Tokens} \cup (Tokens \X Tokens),
         q # <<>>
  PROVE  \/ \E a \in Tokens : q = <<a>> /\ Tail(q) = <<>> /\ Head(q) = a
                              /\ q[Len(q)] = a
         \/ \E a, b \in Tokens : q = <<a, b>> /\ Tail(q) = <<b>> /\ Head(q) = a
                                 /\ q[Len(q)] = b
<1>1. CASE \E a \in Tokens : q = <<a>>
  BY <1>1
<1>2. CASE q \in Tokens \X Tokens
  <2>1. PICK a \in Tokens, b \in Tokens : q = <<a, b>>
    BY <1>2
  <2> QED
    BY <2>1
<1> QED
  BY <1>1, <1>2

LEMMA InitInv == Init => IInv
<1> SUFFICES ASSUME Init PROVE IInv
  OBVIOUS
<1>1. TypeOK
  <2>1. EstopTypeOK
    <3>1. deb \in BOOLEAN /\ line \in BOOLEAN /\ estopOk \in BOOLEAN
      BY EstopAssumption DEF Init, EstopInit, EstopAssumption
    <3> QED
      BY <3>1, EstopAssumption DEF Init, EstopInit, EstopTypeOK, EstopAssumption
  <2>2. engPend \in BOOLEAN
    BY Zenon DEF Init
  <2>3. /\ clrPend \in BOOLEAN /\ at \in Accesses /\ eng \in BOOLEAN
        /\ clr \in BOOLEAN /\ toSend = <<>> /\ heard = "none"
        /\ ticked \in BOOLEAN /\ missed \in BOOLEAN
    BY DEF Init, Accesses
  <2> QED
    BY <2>1, <2>2, <2>3 DEF TypeOK
<1>2. PollInv
  BY DEF Init, EstopInit, PollInv, OnePending, HeardLast
<1> QED
  BY <1>1, <1>2 DEF IInv

(* A sample moves the debounced state only by an edge, to the line's value.*)
LEMMA SampleIs ==
  ASSUME EstopTypeOK, SampleLine
  PROVE  /\ EstopTypeOK'
         /\ Edge /\ line => deb' /\ ~deb
         /\ Edge /\ ~line => ~deb' /\ deb
         /\ ~Edge => deb' = deb
BY DEF EstopTypeOK, SampleLine, Edge

(* A tick, in the middle of a poll or outside.                             *)
LEMMA TickInv == IInv /\ EstopPollTick => IInv'
<1> SUFFICES ASSUME IInv, EstopPollTick PROVE IInv'
  OBVIOUS
<1>1. /\ EstopTypeOK' /\ deb \in BOOLEAN /\ deb' \in BOOLEAN
      /\ Edge /\ line => deb' /\ ~deb
      /\ Edge /\ ~line => ~deb' /\ deb
      /\ ~Edge => deb' = deb
  BY SampleIs DEF IInv, TypeOK, EstopTypeOK, EstopPollTick
<1>2. /\ engPend' = (engPend \/ (Edge /\ line))
      /\ clrPend' = (clrPend \/ (Edge /\ ~line))
      /\ ticked' = InPoll /\ ~ (InPoll /\ ticked)
  BY DEF EstopPollTick, TickFits, mainVars
<1>3. UNCHANGED <<missed, at, eng, clr, toSend, heard>>
  BY DEF EstopPollTick, mainVars
<1>4. /\ engPend' <=> engPend \/ (Edge /\ line)
      /\ clrPend' <=> clrPend \/ (Edge /\ ~line)
      /\ ticked' <=> InPoll
  BY <1>2, Zenon
<1>5. engPend' \in BOOLEAN /\ clrPend' \in BOOLEAN /\ ticked' \in BOOLEAN
  <2>1. InPoll \in BOOLEAN
    BY DEF InPoll
  <2>2. engPend' \in BOOLEAN
    BY <1>2, Zenon
  <2>3. clrPend' \in BOOLEAN
    BY <1>2, Zenon
  <2>4. ticked' \in BOOLEAN
    BY <2>1, <1>2, Zenon
  <2> QED
    BY <2>2, <2>3, <2>4
<1>6. TypeOK'
  BY <1>1, <1>3, <1>5 DEF IInv, TypeOK
<1>7. PollInv'
  <2> SUFFICES ASSUME ~missed PROVE PollInv'
    BY <1>3 DEF IInv, PollInv
  <2>1. at # "clearClr" => OnePending'
    BY <1>1, <1>4 DEF IInv, PollInv, OnePending
  <2>2. at \in {"readEng", "readClr"} => HeardLast'
    BY <1>1, <1>3, <1>4 DEF IInv, PollInv, HeardLast, NonePending
  <2>3. at \in {"readClr", "clearEng"} => Reading'
    BY <1>3, <1>4 DEF IInv, PollInv, Reading
  <2>4. at = "clearClr" => BetweenClears'
    <3>1. at = "clearClr" => ticked' /\ ~ticked
      BY <1>2, Zenon DEF InPoll
    <3> QED
      BY <3>1, <1>1, <1>3, <1>4 DEF IInv, PollInv, BetweenClears
  <2>5. at = "order" => Ordering'
    BY <1>1, <1>3, <1>4 DEF IInv, PollInv, Ordering, NonePending
  <2>6. /\ at = "send" => toSend # <<>>
        /\ at = "send" /\ NonePending' => toSend[Len(toSend)] = Token(deb')
    BY <1>1, <1>4 DEF IInv, PollInv, NonePending
  <2> QED
    BY <1>3, <2>1, <2>2, <2>3, <2>4, <2>5, <2>6 DEF PollInv
<1> QED
  BY <1>6, <1>7 DEF IInv

LEMMA ButtonInv == IInv /\ ButtonMoves => IInv'
<1> SUFFICES ASSUME IInv, ButtonMoves PROVE IInv'
  OBVIOUS
<1>1. TypeOK'
  BY DEF IInv, TypeOK, EstopTypeOK, ButtonMoves, LineChanges, mainVars, EstopAssumption
<1>2. PollInv'
  BY DEF IInv, PollInv, OnePending, HeardLast, NonePending, Reading,
         BetweenClears, Ordering, ButtonMoves, LineChanges, mainVars
<1> QED
  BY <1>1, <1>2 DEF IInv

(***************************************************************************)
(* The poll, access by access.                                             *)
(***************************************************************************)
LEMMA KeepsEstop == EstopTypeOK /\ UNCHANGED estopVars => EstopTypeOK'
BY DEF EstopTypeOK, estopVars

LEMMA ReadsInv == IInv /\ (ReadEng \/ ReadClr) => IInv'
<1> SUFFICES ASSUME IInv, ReadEng \/ ReadClr PROVE IInv'
  OBVIOUS
<1>1. CASE ReadEng
  <2>1. TypeOK'
    BY <1>1, KeepsEstop DEF IInv, TypeOK, ReadEng, Accesses
  <2>2. PollInv'
    BY <1>1 DEF IInv, PollInv, OnePending, HeardLast, NonePending, Reading,
                ReadEng, estopVars
  <2> QED
    BY <2>1, <2>2 DEF IInv
<1>2. CASE ReadClr
  <2>1. TypeOK'
    BY <1>2, KeepsEstop DEF IInv, TypeOK, ReadClr, Accesses
  <2>2. PollInv'
    BY <1>2 DEF IInv, TypeOK, PollInv, OnePending, HeardLast, NonePending,
                Reading, ReadClr, estopVars
  <2> QED
    BY <2>1, <2>2 DEF IInv
<1> QED
  BY <1>1, <1>2

LEMMA ClearsInv == IInv /\ (ClearEng \/ ClearClr) => IInv'
<1> SUFFICES ASSUME IInv, ClearEng \/ ClearClr PROVE IInv'
  OBVIOUS
<1>1. CASE ClearEng
  <2>1. missed' \in BOOLEAN /\ (~missed' => ~missed /\ ~ (engPend /\ ~eng))
    BY <1>1, Zenon DEF ClearEng
  <2>2. TypeOK'
    BY <1>1, <2>1, KeepsEstop DEF IInv, TypeOK, ClearEng, Accesses
  <2>3. PollInv'
    BY <1>1, <2>1 DEF IInv, PollInv, OnePending, Reading, BetweenClears,
                      ClearEng, estopVars
  <2> QED
    BY <2>2, <2>3 DEF IInv
<1>2. CASE ClearClr
  <2>1. missed' \in BOOLEAN /\ (~missed' => ~missed /\ ~ (clrPend /\ ~clr))
    BY <1>2, Zenon DEF ClearClr
  <2>2. TypeOK'
    BY <1>2, <2>1, KeepsEstop DEF IInv, TypeOK, ClearClr, Accesses
  <2>3. PollInv'
    BY <1>2, <2>1 DEF IInv, PollInv, OnePending, NonePending, BetweenClears,
                      Ordering, ClearClr, estopVars
  <2> QED
    BY <2>2, <2>3 DEF IInv
<1> QED
  BY <1>1, <1>2

(* The last token chosen is that of the debounced state, unless another    *)
(* edge is pending.                                                        *)
LEMMA OrderInv == IInv /\ ChooseOrder => IInv'
<1> SUFFICES ASSUME IInv, ChooseOrder PROVE IInv'
  OBVIOUS
<1>1. deb \in BOOLEAN /\ eng \in BOOLEAN /\ clr \in BOOLEAN
      /\ Token(deb) \in Tokens /\ Token(~deb) \in Tokens /\ Token(eng) \in Tokens
  BY TokenIs DEF IInv, TypeOK, EstopTypeOK
<1>2. \/ eng /\ clr /\ toSend' = <<Token(~deb), Token(deb)>>
      \/ ~ (eng /\ clr) /\ toSend' = <<Token(eng)>>
  BY <1>1 DEF ChooseOrder
<1>3. TypeOK'
  <2>1. toSend' \in {<<>>} \cup {<<s>> : s \in Tokens} \cup (Tokens \X Tokens)
    BY <1>1, <1>2
  <2> QED
    BY <2>1, KeepsEstop DEF IInv, TypeOK, ChooseOrder, Accesses
<1>4. toSend' # <<>>
      /\ toSend'[Len(toSend')] = IF eng /\ clr THEN Token(deb) ELSE Token(eng)
  BY <1>1, <1>2
<1>5. PollInv'
  <2> SUFFICES ASSUME ~missed PROVE PollInv'
    BY DEF PollInv, ChooseOrder
  <2>1. NonePending => (eng /\ clr) \/ deb = eng
    BY <1>1 DEF IInv, PollInv, Ordering, ChooseOrder
  <2>2. OnePending
    BY DEF IInv, PollInv, ChooseOrder
  <2> QED
    BY <1>4, <2>1, <2>2 DEF PollInv, OnePending, NonePending, ChooseOrder, estopVars
<1> QED
  BY <1>3, <1>5 DEF IInv

LEMMA SendInv == IInv /\ Send => IInv'
<1> SUFFICES ASSUME IInv, Send PROVE IInv'
  OBVIOUS
<1>1. toSend \in {<<>>} \cup {<<s>> : s \in Tokens} \cup (Tokens \X Tokens) /\ toSend # <<>>
  BY DEF IInv, TypeOK, PollInv, Send
<1>2. \/ \E a \in Tokens : toSend = <<a>> /\ Tail(toSend) = <<>> /\ Head(toSend) = a
                            /\ toSend[Len(toSend)] = a
      \/ \E a, b \in Tokens : toSend = <<a, b>> /\ Tail(toSend) = <<b>>
                               /\ Head(toSend) = a /\ toSend[Len(toSend)] = b
  BY <1>1, ToSendIs
<1>3. heard' \in Tokens /\ toSend' \in {<<>>} \cup {<<s>> : s \in Tokens}
      /\ (toSend' = <<>> => heard' = toSend[Len(toSend)])
      /\ (toSend' # <<>> => toSend'[Len(toSend')] = toSend[Len(toSend)])
  BY <1>2 DEF Send
<1>4. TypeOK'
  BY <1>3, KeepsEstop DEF IInv, TypeOK, Send, Accesses
<1>5. PollInv'
  BY <1>3 DEF IInv, PollInv, OnePending, HeardLast, NonePending, Send, estopVars
<1> QED
  BY <1>4, <1>5 DEF IInv

-----------------------------------------------------------------------------
LEMMA StepInv == IInv /\ [Next]_vars => IInv'
<1> SUFFICES ASSUME IInv, [Next]_vars PROVE IInv'
  OBVIOUS
<1>1. CASE UNCHANGED vars
  BY <1>1 DEF vars, IInv, TypeOK, EstopTypeOK, PollInv, OnePending, HeardLast,
              NonePending, Reading, BetweenClears, Ordering
<1>2. CASE Next
  BY <1>2, TickInv, ButtonInv, ReadsInv, ClearsInv, OrderInv, SendInv
  DEF Next, Poll
<1> QED
  BY <1>1, <1>2

(* The inductive invariant: what the flags, the locals of the poll and the *)
(* tokens still to be sent say of the debounced state.                     *)
THEOREM Inductive == Spec => []IInv
BY InitInv, StepInv, PTL DEF Spec

(* Every variable keeps its type; at most two tokens are to be sent.       *)
THEOREM TypeCorrect == Spec => []TypeOK
<1>1. IInv => TypeOK
  BY DEF IInv
<1> QED
  BY <1>1, Inductive, PTL

(* When nothing is pending the Pi has heard the token of the debounced     *)
(* state, unless a poll cleared a flag it had not read (estop.c:190-228).  *)
THEOREM LastTokenCurrent == Spec => []ConsistentUnlessMissed
<1>1. IInv => ConsistentUnlessMissed
  BY DEF IInv, PollInv, HeardLast, NonePending, ConsistentUnlessMissed,
         PiConsistent, Quiet
<1> QED
  BY <1>1, Inductive, PTL

-----------------------------------------------------------------------------
(***************************************************************************)
(* The trajectory.                                                         *)
(***************************************************************************)
USE SetPoseAssumption

LEMMA IdsAre ==
  /\ 0 \in Ids
  /\ \A i \in Ids : i < MaxRequests => i + 1 \in Ids
BY DEF SetPoseAssumption, Ids

LEMMA SetPoseInitInv == SetPoseInit => SetPoseInv
<1> SUFFICES ASSUME SetPoseInit PROVE SetPoseInv
  OBVIOUS
<1>1. storeKept \in BOOLEAN
  BY Zenon DEF SetPoseInit, SetPoseAssumption
<1>2. SetPoseTypeOK
  BY <1>1, IdsAre DEF SetPoseInit, SetPoseTypeOK, Steps
<1>3. FillingInv /\ ActiveInv /\ RelaxInv
  BY DEF SetPoseInit, FillingInv, ActiveInv, RelaxInv, Undisturbed, Whole
<1> QED
  BY <1>2, <1>3 DEF SetPoseInv

(* The main thread: a request moves to the next store and writes nothing   *)
(* but the field of its place.                                             *)
LEMMA SetPoseTypeMain ==
  ASSUME SetPoseTypeOK,
         Request \/ ClearActive \/ FillDuration \/ FillStart \/ FillPositions
           \/ ClearRelax \/ ActivateTrajectory \/ RequestRelax \/ MainAborts,
         RelaxInv
  PROVE  SetPoseTypeOK'
<1> USE IdsAre DEF SetPoseTypeOK, Steps, Goto, fields, requestVars, history
<1>1. CASE Request
  BY <1>1 DEF Request, Center, GoSetpose, GoSetposeTime, Accepts
<1>2. CASE ClearActive
  BY <1>2 DEF ClearActive
<1>3. CASE FillDuration \/ FillStart \/ FillPositions
  BY <1>3 DEF FillDuration, FillStart, FillPositions
<1>4. CASE ClearRelax \/ ActivateTrajectory \/ MainAborts
  BY <1>4 DEF ClearRelax, ActivateTrajectory, MainAborts
<1>5. CASE RequestRelax
  BY <1>5 DEF RequestRelax, RelaxInv
<1> QED
  BY <1>1, <1>2, <1>3, <1>4, <1>5

(* The tick, and the changes of state that let it run.                     *)
LEMMA SetPoseTypeTick ==
  ASSUME SetPoseTypeOK, TickMoves \/ TickButton \/ TickAborts \/ Rearm
  PROVE  SetPoseTypeOK'
<1> USE IdsAre DEF SetPoseTypeOK, fields, requestVars, history
<1>1. CASE TickButton
  BY <1>1 DEF TickButton
<1>2. CASE TickMoves \/ TickAborts \/ Rearm
  BY <1>2 DEF TickMoves, TickAborts, Rearm
<1> QED
  BY <1>1, <1>2

LEMMA RequestStep ==
  ASSUME SetPoseInv, Request
  PROVE  SetPoseInv'
<1> USE DEF SetPoseInv, Request, Center, GoSetpose, GoSetposeTime, Accepts, Goto, fields
<1>1. SetPoseTypeOK'
  BY SetPoseTypeMain
<1>2. FillingInv' /\ ActiveInv'
  BY DEF FillingInv, ActiveInv, Undisturbed, Whole
<1>3. RelaxInv'
  BY DEF RelaxInv, FillingInv
<1> QED
  BY <1>1, <1>2, <1>3

LEMMA ClearStep ==
  ASSUME SetPoseInv, ClearActive
  PROVE  SetPoseInv'
<1> USE DEF SetPoseInv, ClearActive, Goto, fields
<1>1. SetPoseTypeOK'
  BY SetPoseTypeMain
<1>2. FillingInv' /\ ActiveInv'
  BY DEF FillingInv, ActiveInv, Undisturbed, Whole, SetPoseTypeOK
<1>3. RelaxInv'
  BY DEF RelaxInv, FillingInv
<1> QED
  BY <1>1, <1>2, <1>3

LEMMA FillStep ==
  ASSUME SetPoseInv, FillDuration \/ FillStart \/ FillPositions \/ ClearRelax
  PROVE  SetPoseInv'
<1> USE DEF SetPoseInv, FillDuration, FillStart, FillPositions, ClearRelax, Goto,
            fields, history
<1>1. SetPoseTypeOK'
  BY SetPoseTypeMain
<1>2. FillingInv' /\ ActiveInv'
  BY DEF FillingInv, ActiveInv, Undisturbed, Whole
<1>3. RelaxInv'
  BY DEF RelaxInv, FillingInv
<1> QED
  BY <1>1, <1>2, <1>3

LEMMA ActivateStep ==
  ASSUME SetPoseInv, ActivateTrajectory \/ RequestRelax
  PROVE  SetPoseInv'
<1> USE DEF SetPoseInv, ActivateTrajectory, RequestRelax, Goto, fields, history
<1>1. SetPoseTypeOK'
  BY SetPoseTypeMain
<1>2. FillingInv' /\ ActiveInv'
  BY DEF FillingInv, ActiveInv, Undisturbed, Whole
<1>3. RelaxInv'
  BY DEF RelaxInv, FillingInv
<1> QED
  BY <1>1, <1>2, <1>3

LEMMA AbortStep ==
  ASSUME SetPoseInv, MainAborts \/ TickAborts \/ Rearm \/ TickMoves
  PROVE  SetPoseInv'
<1> USE DEF SetPoseInv, MainAborts, TickAborts, Rearm, TickMoves, fields, history,
            requestVars
<1>1. SetPoseTypeOK'
  BY SetPoseTypeMain, SetPoseTypeTick
<1>2. FillingInv' /\ ActiveInv'
  BY DEF FillingInv, ActiveInv, Undisturbed, Whole
<1>3. RelaxInv'
  BY DEF RelaxInv
<1> QED
  BY <1>1, <1>2, <1>3

(* The button fills everything at once, over a request or between two.     *)
LEMMA ButtonStep ==
  ASSUME SetPoseInv, TickButton
  PROVE  SetPoseInv'
<1> USE DEF SetPoseInv, TickButton, requestVars
<1>1. SetPoseTypeOK'
  BY SetPoseTypeTick
<1>2. FillingInv' /\ ActiveInv'
  BY DEF FillingInv, ActiveInv, Undisturbed, Whole
<1>3. RelaxInv'
  BY DEF RelaxInv, FillingInv
<1> QED
  BY <1>1, <1>2, <1>3

LEMMA SetPoseStepInv == SetPoseInv /\ [SetPoseNext]_setposeVars => SetPoseInv'
<1> SUFFICES ASSUME SetPoseInv, [SetPoseNext]_setposeVars PROVE SetPoseInv'
  OBVIOUS
<1>1. CASE UNCHANGED setposeVars
  BY <1>1 DEF setposeVars, SetPoseInv, SetPoseTypeOK, FillingInv, ActiveInv,
              RelaxInv, Undisturbed, Whole
<1>2. CASE SetPoseNext
  BY <1>2, RequestStep, ClearStep, FillStep, ActivateStep, AbortStep, ButtonStep
  DEF SetPoseNext
<1> QED
  BY <1>1, <1>2

(* The inductive invariant of the hand-over: whose the fields are at every *)
(* place of a request, and whom the relaxation belongs to.                 *)
THEOREM SetPoseInductive == SetPoseSpec => []SetPoseInv
BY SetPoseInitInv, SetPoseStepInv, PTL DEF SetPoseSpec

(* Every variable of SetPose keeps its type.                               *)
THEOREM SetPoseTypes == SetPoseSpec => []SetPoseTypeOK
<1>1. SetPoseInv => SetPoseTypeOK
  BY DEF SetPoseInv
<1> QED
  BY <1>1, SetPoseInductive, PTL

(* The tick moves the arm along one request only, wherever it interrupts   *)
(* the one that fills the structure (j5vr_setpose.c:443-475).              *)
THEOREM TrajectoryIsWhole == SetPoseSpec => WholeTrajectory
<1>1. SetPoseInv => (TickMoves /\ Undisturbed => Whole)
  BY DEF SetPoseInv, ActiveInv, Undisturbed, TickMoves
<1>2. SetPoseInv /\ [SetPoseNext]_setposeVars
      => [TickMoves /\ Undisturbed => Whole]_setposeVars
  BY <1>1
<1> QED
  BY <1>2, SetPoseInductive, PTL DEF SetPoseSpec, WholeTrajectory

(* The end of a trajectory relaxes the wrist only for a HOME, although the *)
(* request to do so follows the activation (j5vr_actuation.c:550).         *)
THEOREM RelaxesForHome == SetPoseSpec => RelaxOnlyHome
<1>1. SetPoseInv => (TickMoves /\ ~active' /\ relax # 0 /\ Undisturbed
                       => qTarget \in homeRequests)
  BY DEF SetPoseInv, ActiveInv, RelaxInv, Undisturbed, TickMoves
<1>2. SetPoseInv /\ [SetPoseNext]_setposeVars
      => [TickMoves /\ ~active' /\ relax # 0 /\ Undisturbed
            => qTarget \in homeRequests]_setposeVars
  BY <1>1
<1> QED
  BY <1>2, SetPoseInductive, PTL DEF SetPoseSpec, RelaxOnlyHome
=============================================================================
