---------------------------- MODULE UartManager ----------------------------
(***************************************************************************)
(* The UART control plane of the Raspberry Pi (raspberry/controller/uart/  *)
(* uart_manager.py): coroutines queue commands and wait for the answer     *)
(* with a time limit; one writer thread takes them in order, sends         *)
(* "#<seq> <command>" and waits for the line that starts with "#<seq> ";   *)
(* one reader thread moves lines from the port to the writer's queue.      *)
(*                                                                         *)
(* The firmware and the two directions of the line are the environment:    *)
(* a command or a reply may be lost, and a reply may take any time.        *)
(*                                                                         *)
(* The writer computes its deadline on the wall clock (time.time()) and    *)
(* compares it with the monotonic clock (time.monotonic()).  When the wall *)
(* clock has been set it is decades ahead and the deadline is out of reach *)
(* of any run; when it has not (a Pi with no clock source starts at the    *)
(* epoch) the two agree.  wallSet tells the two cases apart.               *)
(***************************************************************************)
EXTENDS Naturals, Sequences, SequencesExt, FiniteSets

CONSTANTS
  Calls,         (* calls of send_uart_command; each sends one command     *)
  Timeout,       (* timeout_s                                              *)
  Margin,        (* _UART_TIMEOUT_MARGIN_S                                 *)
  SeqMax,        (* 65535                                                  *)
  RecoverEvery,  (* _recover_every_failures, 3                             *)
  NoCall         (* no call                                                *)

ASSUME UartAssumption ==
       /\ IsFiniteSet(Calls) /\ NoCall \notin Calls
       /\ Timeout \in Nat \ {0} /\ Margin \in Nat \ {0}
       /\ SeqMax \in Nat \ {0} /\ SeqMax >= Cardinality(Calls)
       /\ RecoverEvery \in Nat \ {0}

VARIABLES
  wallSet,   (* time.time() is decades ahead of time.monotonic()           *)
  state,     (* state[c]: "new", "pending", or what the caller was told    *)
  answer,    (* answer[c]: the call whose reply c was given                *)
  left,      (* left[c]: time left to wait_for                             *)
  requestQueue, (* _request_queue                                          *)
  writer,    (* where the writer thread is                                 *)
  cur,       (* the call it is serving                                     *)
  seq,       (* _seq_counter                                               *)
  writerLeft,(* time left to its deadline                                  *)
  isOpen,    (* _ser is open                                               *)
  streak,    (* _comm_fail_streak                                          *)
  rxLines,   (* _rx_lines                                                  *)
  toMcu,     (* commands on the line                                       *)
  fromMcu    (* replies on the line                                        *)

callVars == <<state, answer, left>>
lineVars == <<toMcu, fromMcu>>
managerVars == <<wallSet, state, answer, left, requestQueue, writer, cur, seq,
                 writerLeft, isOpen, streak, rxLines, toMcu, fromMcu>>

Message == [seq : 1 .. SeqMax, of : Calls]   (* a command, or its reply     *)
Results == {"reply", "writer timeout", "error", "caller timeout"}

CallerDeadline == Timeout + Margin
OutOfReach == CallerDeadline + 1        (* a deadline decades away         *)

(* Fault: no deadline at all. *)
NeverDeadline == OutOfReach
WriterDeadline == IF wallSet THEN OutOfReach ELSE Timeout

ManagerTypeOK ==
  /\ wallSet \in BOOLEAN
  /\ state \in [Calls -> {"new", "pending"} \cup Results]
  /\ answer \in [Calls -> Calls \cup {NoCall}]
  /\ left \in [Calls -> 0 .. CallerDeadline]
  /\ requestQueue \in Seq(Calls)
  /\ writer \in {"get", "open", "drain", "send", "wait"}
  /\ cur \in Calls \cup {NoCall}
  /\ seq \in 0 .. SeqMax
  /\ writerLeft \in 0 .. OutOfReach
  /\ isOpen \in BOOLEAN
  /\ streak \in 0 .. RecoverEvery - 1
  /\ rxLines \in Seq(Message) /\ toMcu \in Seq(Message) /\ fromMcu \in Seq(Message)

ManagerInit ==
  /\ wallSet \in BOOLEAN
  /\ state = [c \in Calls |-> "new"]
  /\ answer = [c \in Calls |-> NoCall]
  /\ left = [c \in Calls |-> CallerDeadline]
  /\ requestQueue = <<>> /\ writer = "get" /\ cur = NoCall
  /\ seq = 0 /\ writerLeft = 0
  /\ isOpen = FALSE /\ streak = 0
  /\ rxLines = <<>> /\ toMcu = <<>> /\ fromMcu = <<>>

-----------------------------------------------------------------------------
(***************************************************************************)
(* The callers: send_uart_command.                                         *)
(***************************************************************************)
Call(c) ==
  /\ state[c] = "new"
  /\ state' = [state EXCEPT ![c] = "pending"]
  /\ requestQueue' = Append(requestQueue, c)
  /\ UNCHANGED <<wallSet, answer, left, writer, cur, seq, writerLeft, isOpen,
                 streak, rxLines, lineVars>>

(* asyncio.wait_for gives up; the request stays where it is.               *)
CallerGivesUp(c) ==
  /\ state[c] = "pending" /\ left[c] = 0
  /\ state' = [state EXCEPT ![c] = "caller timeout"]
  /\ UNCHANGED <<wallSet, answer, left, requestQueue, writer, cur, seq,
                 writerLeft, isOpen, streak, rxLines, lineVars>>

-----------------------------------------------------------------------------
(***************************************************************************)
(* The writer thread: _writer and _do_one.                                 *)
(***************************************************************************)

(* The result is handed to the caller's event loop; a future that wait_for *)
(* has cancelled ignores it.                                               *)
Finish(result, of) ==
  /\ writer' = "get" /\ cur' = NoCall
  /\ writerLeft' = 0
  /\ IF state[cur] = "pending"
     THEN /\ state' = [state EXCEPT ![cur] = result]
          /\ answer' = [answer EXCEPT ![cur] = of]
     ELSE UNCHANGED <<state, answer>>

(* _recover_serial_link: close the port and drop the received lines.       *)
Recover == isOpen' = FALSE /\ rxLines' = <<>>

(* A failure recovers the link when it is the RecoverEvery-th in a row.    *)
CountFailure ==
  IF streak + 1 >= RecoverEvery
  THEN streak' = 0 /\ Recover
  ELSE streak' = streak + 1 /\ UNCHANGED <<isOpen, rxLines>>

TakeRequest ==
  /\ writer = "get" /\ requestQueue # <<>>
  /\ writer' = "open"
  /\ cur' = Head(requestQueue) /\ requestQueue' = Tail(requestQueue)
  /\ seq' = (seq % SeqMax) + 1
  /\ writerLeft' = WriterDeadline
  /\ UNCHANGED <<wallSet, callVars, isOpen, streak, rxLines, lineVars>>

(* A port that is opened anew starts with an empty input buffer.           *)
OpenPort ==
  /\ writer = "open" /\ writer' = "drain"
  /\ isOpen' = TRUE
  /\ fromMcu' = IF isOpen THEN fromMcu ELSE <<>>
  /\ UNCHANGED <<wallSet, callVars, requestQueue, cur, seq, writerLeft,
                 streak, rxLines, toMcu>>

OpenFails ==
  /\ writer = "open" /\ ~isOpen
  /\ Finish("error", NoCall)
  /\ CountFailure
  /\ UNCHANGED <<wallSet, left, requestQueue, seq, lineVars>>

DropStaleLines ==
  /\ writer = "drain" /\ writer' = "send"
  /\ rxLines' = <<>>
  /\ UNCHANGED <<wallSet, callVars, requestQueue, cur, seq, writerLeft,
                 isOpen, streak, lineVars>>

SendCommand ==
  /\ writer = "send" /\ writer' = "wait"
  /\ toMcu' = Append(toMcu, [seq |-> seq, of |-> cur])
  /\ UNCHANGED <<wallSet, callVars, requestQueue, cur, seq, writerLeft,
                 isOpen, streak, rxLines, fromMcu>>

(* write() or flush() raises: the link is recovered and the streak is not  *)
(* reset (counted here up to the value that makes the next failure recover *)
(* too).                                                                   *)
SendFails ==
  /\ writer = "send"
  /\ Finish("error", NoCall)
  /\ streak' = IF streak + 1 < RecoverEvery THEN streak + 1 ELSE streak
  /\ Recover
  /\ UNCHANGED <<wallSet, left, requestQueue, seq, lineVars>>

(* Fault: any sequenced line is taken for the reply. *)
IsAnyReply(line) == TRUE
IsReply(line) == line.seq = seq

TakeLine ==
  /\ writer = "wait" /\ writerLeft > 0 /\ rxLines # <<>>
  /\ rxLines' = Tail(rxLines)
  /\ IF IsReply(Head(rxLines))
     THEN Finish("reply", Head(rxLines).of) /\ streak' = 0
     ELSE UNCHANGED <<state, answer, writer, cur, writerLeft, streak>>
  /\ UNCHANGED <<wallSet, left, requestQueue, seq, isOpen, lineVars>>

WriterExpires ==
  /\ writer = "wait" /\ writerLeft = 0
  /\ Finish("writer timeout", NoCall)
  /\ CountFailure
  /\ UNCHANGED <<wallSet, left, requestQueue, seq, lineVars>>

Writer ==
  \/ TakeRequest \/ OpenPort \/ OpenFails \/ DropStaleLines
  \/ SendCommand \/ SendFails \/ TakeLine \/ WriterExpires

-----------------------------------------------------------------------------
(* The reader thread: a sequenced line goes to the writer's queue.         *)
Reader ==
  /\ isOpen /\ fromMcu # <<>>
  /\ rxLines' = Append(rxLines, Head(fromMcu))
  /\ fromMcu' = Tail(fromMcu)
  /\ UNCHANGED <<wallSet, callVars, requestQueue, writer, cur, seq,
                 writerLeft, isOpen, streak, toMcu>>

(* The firmware answers with the number of the command, unless the command *)
(* or the reply is lost.                                                   *)
Firmware ==
  /\ toMcu # <<>>
  /\ toMcu' = Tail(toMcu)
  /\ fromMcu' \in {fromMcu, Append(fromMcu, Head(toMcu))}
  /\ UNCHANGED <<wallSet, callVars, requestQueue, writer, cur, seq,
                 writerLeft, isOpen, streak, rxLines>>

(* Time passes while every thread waits: the writer's steps between taking *)
(* a request and sending it, and the expiry of a wait, take no time.       *)
AllWait ==
  /\ \/ writer = "get" /\ requestQueue = <<>>
     \/ writer = "wait" /\ writerLeft > 0
  /\ \A c \in Calls : state[c] = "pending" => left[c] > 0

Tick ==
  /\ AllWait
  /\ \E c \in Calls : state[c] = "pending"
  /\ left' = [c \in Calls |-> IF state[c] = "pending" THEN left[c] - 1 ELSE left[c]]
  /\ writerLeft' = IF writer = "wait" /\ writerLeft # OutOfReach
                   THEN writerLeft - 1 ELSE writerLeft
  /\ UNCHANGED <<wallSet, state, answer, requestQueue, writer, cur, seq,
                 isOpen, streak, rxLines, lineVars>>

ManagerNext ==
  \/ \E c \in Calls : Call(c) \/ CallerGivesUp(c)
  \/ Writer \/ Reader \/ Firmware \/ Tick

ManagerSpec == ManagerInit /\ [][ManagerNext]_managerVars

(* The writer thread and the event loop are scheduled, and time passes.    *)
(* Nothing is assumed of the reader, the line or the firmware.             *)
ManagerFairSpec ==
  /\ ManagerSpec
  /\ WF_managerVars(Writer) /\ WF_managerVars(Tick)
  /\ \A c \in Calls : WF_managerVars(CallerGivesUp(c))

-----------------------------------------------------------------------------
(***************************************************************************)
(* Properties.                                                             *)
(***************************************************************************)

(* A caller is never given the reply to another call, whatever was lost,   *)
(* late, left over from a timeout or dropped by a recovery.                *)
OwnReply == \A c \in Calls : state[c] = "reply" => answer[c] = c

(* Why (the inductive invariant of OwnReply).  The counter has been drawn  *)
(* once for every call that has left the queue, so it never comes round    *)
(* while at most SeqMax calls are made ...                                 *)
CallsCounted ==
  seq + Len(requestQueue) + Cardinality({c \in Calls : state[c] = "new"})
    = Cardinality(Calls)

(* ... the writer serves a call from the moment it takes it ...            *)
Serving == writer # "get" => cur \in Calls /\ seq > 0

(* ... and a line with the number being served can only be about the call  *)
(* being served: there is none before the command is sent, and no other    *)
(* command has carried that number.                                        *)
Matching ==
  {line \in Message :
     /\ line.seq <= seq
     /\ writer \in {"open", "drain", "send"} => line.seq # seq
     /\ writer = "wait" /\ line.seq = seq => line.of = cur}

EveryLineMatches ==
  toMcu \in Seq(Matching) /\ fromMcu \in Seq(Matching) /\ rxLines \in Seq(Matching)

CallsInv == ManagerTypeOK /\ CallsCounted /\ Serving /\ EveryLineMatches /\ OwnReply

(* To the callers the manager is a queue: the threads, the sequence        *)
(* numbers and the lines behind it do not show.                            *)
Waiting == IF writer = "get" THEN requestQueue ELSE <<cur>> \o requestQueue

Fifo == INSTANCE UartQueue WITH waiting <- Waiting, told <- state, got <- answer

(* The calls of send_uart_command are served in the order they were made,  *)
(* each told once: its own reply, or a failure without one.                *)
ServesInOrder == Fifo!Spec

(* While the wall clock has not been set, a lost reply does not keep the   *)
(* commands queued behind it from being taken.                             *)
QueueMoves ==
  ~wallSet => \A c \in Calls : state[c] = "pending" ~> c \notin ToSet(requestQueue)
=============================================================================
