---------------------------- MODULE EstopNotify ----------------------------
(***************************************************************************)
(* How the Raspberry Pi learns of the emergency stop.  A debounced edge, in *)
(* the real-time thread, raises one of two flags; estop_notify_poll, in the *)
(* main thread, reads the two flags, clears the two flags and then sends   *)
(* ESTOP, ESTOP_CLEAR or both, in an order chosen so that the last token   *)
(* agrees with the debounced state.                                        *)
(*                                                                         *)
(* The real-time thread preempts the main one, so a tick may fall between  *)
(* any two accesses, but no more than one among the five (four flags, then *)
(* the debounced state that decides the order): they take microseconds and *)
(* a tick a millisecond.  Sending a token is a busy-wait of about a        *)
(* millisecond, with any number of ticks.                                  *)
(***************************************************************************)
EXTENDS Estop, Sequences

VARIABLES
  engPend,  (* estop_notify_engage_pending                                 *)
  clrPend,  (* estop_notify_clear_pending                                  *)
  at,       (* the main thread's next access in estop_notify_poll          *)
  eng, clr, (* its two locals                                              *)
  toSend,   (* tokens still to be sent by this call                        *)
  heard,    (* last token the Pi received                                  *)
  ticked    (* a tick has fallen among the accesses of this poll           *)

(* History: a poll has cleared a flag that it had not read as raised.      *)
VARIABLE missed

mainVars == <<at, eng, clr, toSend, heard>>
vars == <<line, estopOk, deb, cnt, engPend, clrPend, at, eng, clr, toSend,
          heard, ticked, missed>>

Tokens == {"ESTOP", "ESTOP_CLEAR"}
Token(active) == IF active THEN "ESTOP" ELSE "ESTOP_CLEAR"
Accesses == {"readEng", "readClr", "clearEng", "clearClr", "order", "send"}

TypeOK ==
  /\ EstopTypeOK
  /\ engPend \in BOOLEAN /\ clrPend \in BOOLEAN
  /\ at \in Accesses
  /\ eng \in BOOLEAN /\ clr \in BOOLEAN
  /\ toSend \in {<<>>} \cup {<<s>> : s \in Tokens} \cup (Tokens \X Tokens)
  /\ heard \in Tokens \cup {"none"}
  /\ ticked \in BOOLEAN /\ missed \in BOOLEAN

(* A failed initialisation asks for an ESTOP token at boot; a button found *)
(* pressed at boot is not an edge and asks for none.                       *)
Init ==
  /\ EstopInit
  /\ engPend = ~estopOk /\ clrPend = FALSE
  /\ at = "readEng" /\ eng = FALSE /\ clr = FALSE
  /\ toSend = <<>> /\ heard = "none"
  /\ ticked = FALSE /\ missed = FALSE

(***************************************************************************)
(* The real-time thread: the sampling half of estop_poll_tick and the flag *)
(* an edge raises.                                                         *)
(***************************************************************************)
InPoll == at \in {"readClr", "clearEng", "clearClr", "order"}
TickFits == ~(InPoll /\ ticked) /\ ticked' = InPoll

(* Fault: a release is not notified. *)
TickNotifiesPress ==
  /\ TickFits /\ SampleLine
  /\ engPend' = (engPend \/ (Edge /\ line))
  /\ UNCHANGED <<clrPend, missed, mainVars>>

EstopPollTick ==
  /\ TickFits /\ SampleLine
  /\ engPend' = (engPend \/ (Edge /\ line))
  /\ clrPend' = (clrPend \/ (Edge /\ ~line))
  /\ UNCHANGED <<missed, mainVars>>

ButtonMoves ==
  LineChanges /\ UNCHANGED <<engPend, clrPend, ticked, missed, mainVars>>

(***************************************************************************)
(* The main thread: estop_notify_poll, one access at a time.               *)
(***************************************************************************)
ReadEng ==
  /\ at = "readEng" /\ at' = "readClr"
  /\ eng' = engPend /\ ticked' = FALSE
  /\ UNCHANGED <<estopVars, missed, engPend, clrPend, clr, toSend, heard>>

(* Nothing pending: the call returns.                                      *)
ReadClr ==
  /\ at = "readClr"
  /\ clr' = clrPend
  /\ at' = IF eng \/ clr' THEN "clearEng" ELSE "readEng"
  /\ UNCHANGED <<estopVars, ticked, missed, engPend, clrPend, eng, toSend, heard>>

ClearEng ==
  /\ at = "clearEng" /\ at' = "clearClr"
  /\ engPend' = FALSE
  /\ missed' = (missed \/ (engPend /\ ~eng))
  /\ UNCHANGED <<estopVars, ticked, clrPend, eng, clr, toSend, heard>>

ClearClr ==
  /\ at = "clearClr" /\ at' = "order"
  /\ clrPend' = FALSE
  /\ missed' = (missed \/ (clrPend /\ ~clr))
  /\ UNCHANGED <<estopVars, ticked, engPend, eng, clr, toSend, heard>>

(* Fault: both tokens pending are sent in the order of the flags. *)
FixedOrder ==
  /\ at = "order" /\ at' = "send"
  /\ toSend' = IF eng /\ clr THEN <<"ESTOP", "ESTOP_CLEAR">> ELSE <<Token(eng)>>
  /\ UNCHANGED <<estopVars, ticked, missed, engPend, clrPend, eng, clr, heard>>

ChooseOrder ==
  /\ at = "order" /\ at' = "send"
  /\ toSend' = IF eng /\ clr THEN <<Token(~deb), Token(deb)>> ELSE <<Token(eng)>>
  /\ UNCHANGED <<estopVars, ticked, missed, engPend, clrPend, eng, clr, heard>>

(* uart_send_unsolicited of the next token.                                *)
Send ==
  /\ at = "send"
  /\ heard' = Head(toSend)
  /\ toSend' = Tail(toSend)
  /\ at' = IF toSend' = <<>> THEN "readEng" ELSE "send"
  /\ UNCHANGED <<estopVars, ticked, missed, engPend, clrPend, eng, clr>>

Poll == ReadEng \/ ReadClr \/ ClearEng \/ ClearClr \/ ChooseOrder \/ Send

Next == EstopPollTick \/ ButtonMoves \/ Poll

Spec == Init /\ [][Next]_vars

(* The tick is timer driven; between ticks the processor is free for the   *)
(* main loop, which polls again after every sleep.                         *)
FairSpec == Spec /\ WF_vars(EstopPollTick) /\ WF_vars(Poll)

-----------------------------------------------------------------------------
(***************************************************************************)
(* Properties.                                                             *)
(***************************************************************************)

(* Between two polls with nothing pending, the last token the Pi received  *)
(* is the debounced state ("the last token matches the current debounced   *)
(* state: the Pi stays consistent").                                       *)
Quiet == at = "readEng" /\ ~engPend /\ ~clrPend
PiConsistent == Quiet /\ heard # "none" => heard = Token(deb)

(* The Pi can be left with the wrong token only by an edge whose flag was  *)
(* raised after the poll had read it and cleared before the next poll:     *)
(* edges before the reads, while tokens are sent or after are reported.    *)
ConsistentUnlessMissed == ~missed => PiConsistent

(* The inductive invariant.  With one edge pending the debounced state is  *)
(* its; with none, what the poll under way is about to say, or has said.   *)
OnePending == (engPend /\ ~clrPend => deb) /\ (clrPend /\ ~engPend => ~deb)
NonePending == ~engPend /\ ~clrPend
HeardLast == NonePending /\ heard # "none" => heard = Token(deb)
Reading == (eng => engPend) /\ (at # "readClr" => (clr => clrPend) /\ (eng \/ clr))

(* Between the two clears: an edge since the first clear is the tick's; an *)
(* edge read alone is the last one, unless another is about to be missed.  *)
BetweenClears ==
  /\ eng \/ clr
  /\ clr => clrPend
  /\ engPend => ticked /\ deb
  /\ eng /\ ~clr /\ ~clrPend => deb /\ ~engPend
  /\ ~eng /\ ~engPend => ~deb

Ordering ==
  /\ eng \/ clr
  /\ NonePending => (~clr => deb) /\ (~eng => ~deb)

PollInv ==
  /\ at = "send" => toSend # <<>>
  /\ ~missed =>
       /\ at # "clearClr" => OnePending
       /\ at \in {"readEng", "readClr"} => HeardLast
       /\ at \in {"readClr", "clearEng"} => Reading
       /\ at = "clearClr" => BetweenClears
       /\ at = "order" => Ordering
       /\ at = "send" /\ NonePending => toSend[Len(toSend)] = Token(deb)

IInv == TypeOK /\ PollInv

(* No token is lost for good otherwise: when the button settles and no     *)
(* edge was ever missed, the Pi ends up with the settled state, or has     *)
(* heard nothing because there was no edge since boot.                     *)
PiSettles ==
  \A active \in BOOLEAN :
    <>[](deb = active) => <>[](missed \/ heard \in {Token(active), "none"})
=============================================================================
