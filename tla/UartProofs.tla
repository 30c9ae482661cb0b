------------------------- MODULE UartProofs -------------------------
(***************************************************************************)
(* Proofs about UartManager, for every finite set of calls no larger than  *)
(* the range of sequence numbers, every timeout and every behaviour of the *)
(* line and the firmware.                                                  *)
(***************************************************************************)
EXTENDS UartManager, SelfTest, TLAPS, FiniteSetTheorems, SequenceTheorems

(***************************************************************************)
(* Types.                                                                  *)
(***************************************************************************)
LEMMA Constants ==
  /\ Timeout \in Nat \ {0} /\ Margin \in Nat \ {0} /\ SeqMax \in Nat \ {0}
  /\ RecoverEvery \in Nat \ {0}
BY UartAssumption DEF UartAssumption

LEMMA TypeInit == ManagerInit => ManagerTypeOK
<1> SUFFICES ASSUME ManagerInit PROVE ManagerTypeOK
  OBVIOUS
<1> USE Constants DEF ManagerInit, CallerDeadline, OutOfReach
<1>1. <<>> \in Seq(Calls) /\ <<>> \in Seq(Message)
  BY EmptySeq
<1>2. 0 \in 0 .. SeqMax /\ 0 \in 0 .. OutOfReach /\ 0 \in 0 .. RecoverEvery - 1
  OBVIOUS
<1>3. CallerDeadline \in 0 .. CallerDeadline
  OBVIOUS
<1> QED BY <1>1, <1>2, <1>3, Zenon DEF ManagerTypeOK

LEMMA TypeStep == ManagerTypeOK /\ Serving /\ [ManagerNext]_managerVars => ManagerTypeOK'
<1> SUFFICES ASSUME ManagerTypeOK, Serving, [ManagerNext]_managerVars PROVE ManagerTypeOK'
  OBVIOUS
<1> USE Constants DEF ManagerTypeOK, CallerDeadline, OutOfReach, callVars, lineVars
<1>1. ASSUME NEW c \in Calls, Call(c) PROVE ManagerTypeOK'
  BY <1>1, AppendProperties DEF Call
<1>2. ASSUME NEW c \in Calls, CallerGivesUp(c) PROVE ManagerTypeOK'
  BY <1>2 DEF CallerGivesUp, Results
<1>3. ASSUME NEW result \in Results, NEW of \in Calls \cup {NoCall}, writer # "get", Finish(result, of)
      PROVE  /\ state' \in [Calls -> {"new", "pending"} \cup Results]
             /\ answer' \in [Calls -> Calls \cup {NoCall}]
             /\ writer' = "get" /\ cur' = NoCall /\ writerLeft' = 0
  BY <1>3 DEF Finish, Serving
<1>4. ASSUME CountFailure
      PROVE  isOpen' \in BOOLEAN /\ streak' \in 0 .. RecoverEvery - 1 /\ rxLines' \in Seq(Message)
  <2>1. streak' \in 0 .. RecoverEvery - 1
    BY <1>4 DEF CountFailure
  <2>2. isOpen' \in BOOLEAN /\ rxLines' \in Seq(Message)
    BY <1>4, EmptySeq DEF CountFailure, Recover
  <2> QED BY <2>1, <2>2
<1>5. CASE TakeRequest
  <2>1. (seq % SeqMax) + 1 \in 1 .. SeqMax
    OBVIOUS
  <2> QED BY <1>5, <2>1, HeadTailProperties DEF TakeRequest, WriterDeadline
<1>6. CASE OpenPort
  BY <1>6 DEF OpenPort
<1>7. CASE OpenFails
  <2>1. Finish("error", NoCall) /\ CountFailure /\ writer # "get"
    BY <1>7 DEF OpenFails
  <2>2. "error" \in Results
    BY DEF Results
  <2> QED BY <1>3, <1>4, <1>7, <2>1, <2>2 DEF OpenFails
<1>8. CASE DropStaleLines
  BY <1>8 DEF DropStaleLines
<1>9. CASE SendCommand
  BY <1>9, AppendProperties DEF SendCommand, Serving, Message
<1>10. CASE SendFails
  <2>1. Finish("error", NoCall) /\ writer # "get"
    BY <1>10 DEF SendFails
  <2>2. "error" \in Results
    BY DEF Results
  <2>3. isOpen' \in BOOLEAN /\ rxLines' \in Seq(Message)
    BY <1>10, EmptySeq DEF SendFails, Recover
  <2>4. streak' \in 0 .. RecoverEvery - 1
    BY <1>10 DEF SendFails
  <2> QED BY <1>3, <1>10, <2>1, <2>2, <2>3, <2>4 DEF SendFails
<1>11. CASE TakeLine
  <2>1. Head(rxLines) \in Message /\ Tail(rxLines) \in Seq(Message)
    BY <1>11, HeadTailProperties DEF TakeLine
  <2>2. CASE IsReply(Head(rxLines))
    <3>1. Finish("reply", Head(rxLines).of) /\ streak' = 0 /\ writer # "get"
      BY <1>11, <2>2 DEF TakeLine
    <3>2. "reply" \in Results /\ Head(rxLines).of \in Calls
      BY <2>1 DEF Results, Message
    <3> QED BY <1>3, <1>11, <2>1, <3>1, <3>2 DEF TakeLine
  <2>3. CASE ~IsReply(Head(rxLines))
    BY <1>11, <2>1, <2>3 DEF TakeLine
  <2> QED BY <2>2, <2>3
<1>12. CASE WriterExpires
  <2>1. Finish("writer timeout", NoCall) /\ CountFailure /\ writer # "get"
    BY <1>12 DEF WriterExpires
  <2>2. "writer timeout" \in Results
    BY DEF Results
  <2> QED BY <1>3, <1>4, <1>12, <2>1, <2>2 DEF WriterExpires
<1>13. CASE Reader
  BY <1>13, HeadTailProperties, AppendProperties DEF Reader
<1>14. CASE Firmware
  <2>1. Head(toMcu) \in Message /\ toMcu' \in Seq(Message)
    BY <1>14, HeadTailProperties DEF Firmware
  <2>2. Append(fromMcu, Head(toMcu)) \in Seq(Message)
    BY <2>1, AppendProperties
  <2> QED BY <1>14, <2>1, <2>2 DEF Firmware
<1>15. CASE Tick
  BY <1>15 DEF Tick, AllWait
<1>16. CASE UNCHANGED managerVars
  BY <1>16 DEF managerVars
<1> QED BY <1>1, <1>2, <1>5, <1>6, <1>7, <1>8, <1>9, <1>10, <1>11, <1>12,
           <1>13, <1>14, <1>15, <1>16 DEF ManagerNext, Writer
(***************************************************************************)
(* The counter: one number for every call that has left the queue.         *)
(***************************************************************************)
NewCalls == {c \in Calls : state[c] = "new"}

LEMMA NewCallsFinite ==
  /\ IsFiniteSet(NewCalls) /\ Cardinality(NewCalls) \in Nat
  /\ Cardinality(Calls) \in Nat
<1>1. IsFiniteSet(Calls) /\ NewCalls \in SUBSET Calls
  BY UartAssumption DEF UartAssumption, NewCalls
<1> QED BY <1>1, FS_Subset, FS_CardinalityType

(* The counter never reaches its limit while a call is waiting.            *)
LEMMA NoWrap ==
  ASSUME ManagerTypeOK, CallsCounted, requestQueue # <<>>
  PROVE  seq < SeqMax /\ (seq % SeqMax) + 1 = seq + 1
<1>1. Len(requestQueue) \in Nat \ {0}
  BY EmptySeq DEF ManagerTypeOK
<1>2. seq + Len(requestQueue) + Cardinality(NewCalls) = Cardinality(Calls)
  BY DEF CallsCounted, NewCalls
<1>3. Cardinality(Calls) <= SeqMax /\ SeqMax \in Nat \ {0} /\ seq \in Nat
  BY UartAssumption DEF UartAssumption, ManagerTypeOK
<1>4. seq < SeqMax
  BY <1>1, <1>2, <1>3, NewCallsFinite
<1>5. seq % SeqMax = seq
  BY <1>3, <1>4
<1> QED BY <1>4, <1>5

(* Only Call takes a call out of the new ones, and it queues it; only      *)
(* TakeRequest draws a number, and it takes a call from the queue.         *)
LEMMA CountStep == ManagerTypeOK /\ CallsCounted /\ Serving /\ [ManagerNext]_managerVars => CallsCounted'
<1> SUFFICES ASSUME ManagerTypeOK, CallsCounted, Serving, [ManagerNext]_managerVars PROVE CallsCounted'
  OBVIOUS
<1>1. seq + Len(requestQueue) + Cardinality(NewCalls) = Cardinality(Calls)
  BY DEF CallsCounted, NewCalls
<1>2. /\ seq \in Nat /\ Len(requestQueue) \in Nat /\ requestQueue \in Seq(Calls)
      /\ state \in [Calls -> {"new", "pending"} \cup Results]
  BY LenProperties, Constants DEF ManagerTypeOK
<1>3. ASSUME NEW c \in Calls, Call(c) PROVE CallsCounted'
  <2>1. Len(requestQueue') = Len(requestQueue) + 1 /\ seq' = seq
    BY <1>2, <1>3, AppendProperties DEF Call
  <2>2. c \in NewCalls /\ NewCalls' = NewCalls \ {c}
    BY <1>2, <1>3 DEF Call, NewCalls
  <2>3. Cardinality(NewCalls') = Cardinality(NewCalls) - 1
    BY <2>2, NewCallsFinite, FS_RemoveElement
  <2>4. seq' + Len(requestQueue') + Cardinality(NewCalls') = Cardinality(Calls)
    BY <1>1, <1>2, <2>1, <2>3, NewCallsFinite
  <2> QED BY <2>4 DEF CallsCounted, NewCalls
<1>4. CASE TakeRequest
  <2>1. Len(requestQueue') = Len(requestQueue) - 1
    BY <1>2, <1>4, HeadTailProperties DEF TakeRequest
  <2>2. seq' = seq + 1
    BY <1>4, NoWrap DEF TakeRequest
  <2>3. NewCalls' = NewCalls
    BY <1>4 DEF TakeRequest, NewCalls, callVars
  <2>4. seq' + Len(requestQueue') + Cardinality(NewCalls') = Cardinality(Calls)
    BY <1>1, <1>2, <2>1, <2>2, <2>3, NewCallsFinite
  <2> QED BY <2>4 DEF CallsCounted, NewCalls
<1>5. ASSUME UNCHANGED <<seq, requestQueue>>, NewCalls' = NewCalls PROVE CallsCounted'
  BY <1>1, <1>5 DEF CallsCounted, NewCalls
<1>6. ASSUME NEW c \in Calls, CallerGivesUp(c) PROVE CallsCounted'
  <2>1. NewCalls' = NewCalls
    BY <1>2, <1>6 DEF CallerGivesUp, NewCalls
  <2> QED BY <1>5, <1>6, <2>1 DEF CallerGivesUp
<1>7. ASSUME NEW result \in Results, NEW of, Finish(result, of), UNCHANGED <<seq, requestQueue>>
      PROVE  CallsCounted'
  <2>1. NewCalls' = NewCalls
    BY <1>2, <1>7 DEF Finish, NewCalls, Results
  <2> QED BY <1>5, <1>7, <2>1
<1>8. CASE OpenFails \/ SendFails \/ WriterExpires
  <2>1. \E result \in Results : Finish(result, NoCall)
    BY <1>8 DEF OpenFails, SendFails, WriterExpires, Results
  <2>2. UNCHANGED <<seq, requestQueue>>
    BY <1>8 DEF OpenFails, SendFails, WriterExpires
  <2> QED BY <1>7, <2>1, <2>2
<1>9. CASE TakeLine
  <2>1. UNCHANGED <<seq, requestQueue>>
    BY <1>9 DEF TakeLine
  <2>2. CASE IsReply(Head(rxLines))
    <3>1. Finish("reply", Head(rxLines).of) /\ "reply" \in Results
      BY <1>9, <2>2 DEF TakeLine, Results
    <3> QED BY <1>7, <2>1, <3>1
  <2>3. CASE ~IsReply(Head(rxLines))
    <3>1. UNCHANGED state
      BY <1>9, <2>3 DEF TakeLine
    <3> QED BY <1>5, <2>1, <3>1 DEF NewCalls
  <2> QED BY <2>2, <2>3
<1>10. CASE OpenPort \/ DropStaleLines \/ SendCommand \/ Reader \/ Firmware \/ Tick \/ UNCHANGED managerVars
  <2>1. UNCHANGED <<seq, requestQueue, state>>
    BY <1>10 DEF OpenPort, DropStaleLines, SendCommand, Reader, Firmware, Tick, managerVars, callVars
  <2> QED BY <1>5, <2>1 DEF NewCalls
<1> QED BY <1>3, <1>4, <1>6, <1>8, <1>9, <1>10 DEF ManagerNext, Writer

(***************************************************************************)
(* The writer and the lines.                                               *)
(***************************************************************************)
LEMMA ServingStep ==
  ManagerTypeOK /\ CallsCounted /\ Serving /\ [ManagerNext]_managerVars => Serving'
<1> SUFFICES ASSUME ManagerTypeOK, CallsCounted, Serving, [ManagerNext]_managerVars PROVE Serving'
  OBVIOUS
<1>1. CASE TakeRequest
  <2>1. Head(requestQueue) \in Calls
    BY <1>1, HeadTailProperties DEF TakeRequest, ManagerTypeOK
  <2>2. seq' = seq + 1 /\ seq \in Nat
    BY <1>1, NoWrap, Constants DEF TakeRequest, ManagerTypeOK
  <2> QED BY <1>1, <2>1, <2>2 DEF TakeRequest, Serving
<1>2. ASSUME NEW c \in Calls, Call(c) \/ CallerGivesUp(c) PROVE Serving'
  BY <1>2 DEF Call, CallerGivesUp, Serving
<1>3. CASE OpenPort \/ DropStaleLines \/ SendCommand \/ Reader \/ Firmware \/ Tick \/ UNCHANGED managerVars
  BY <1>3 DEF OpenPort, DropStaleLines, SendCommand, Reader, Firmware, Tick, managerVars, Serving
<1>4. CASE OpenFails \/ SendFails \/ WriterExpires
  BY <1>4 DEF OpenFails, SendFails, WriterExpires, Finish, Serving
<1>5. CASE TakeLine
  BY <1>5 DEF TakeLine, Finish, Serving
<1> QED BY <1>1, <1>2, <1>3, <1>4, <1>5 DEF ManagerNext, Writer

(* Whatever the step, a line that matches goes on matching: a new number   *)
(* is larger than that of every line on its way.                           *)
LEMMA MatchingGrows ==
  ManagerTypeOK /\ CallsCounted /\ [ManagerNext]_managerVars => Matching \subseteq Matching'
<1> SUFFICES ASSUME ManagerTypeOK, CallsCounted, [ManagerNext]_managerVars,
                    NEW line \in Matching
             PROVE  line \in Matching'
  OBVIOUS
<1>1. /\ line \in Message /\ line.seq \in Nat /\ line.seq <= seq /\ seq \in Nat
      /\ writer \in {"get", "open", "drain", "send", "wait"}
  BY Constants DEF Message, Matching, ManagerTypeOK
<1>2. CASE TakeRequest
  <2>1. seq' = seq + 1 /\ writer' = "open"
    BY <1>2, NoWrap DEF TakeRequest
  <2> QED BY <1>1, <2>1 DEF Matching
<1>3. CASE OpenPort \/ DropStaleLines \/ SendCommand
  BY <1>1, <1>3 DEF OpenPort, DropStaleLines, SendCommand, Matching
<1>4. ASSUME NEW c \in Calls, Call(c) \/ CallerGivesUp(c) PROVE line \in Matching'
  BY <1>4 DEF Call, CallerGivesUp, Matching
<1>5. CASE Reader \/ Firmware \/ Tick \/ UNCHANGED managerVars
  BY <1>5 DEF Reader, Firmware, Tick, managerVars, Matching
<1>6. CASE OpenFails \/ SendFails \/ WriterExpires
  BY <1>1, <1>6 DEF OpenFails, SendFails, WriterExpires, Finish, Matching
<1>7. CASE TakeLine
  BY <1>1, <1>7 DEF TakeLine, Finish, Matching
<1> QED BY <1>2, <1>3, <1>4, <1>5, <1>6, <1>7 DEF ManagerNext, Writer

LEMMA SeqGrows ==
  ASSUME NEW S, NEW T, S \subseteq T, NEW lines \in Seq(S)
  PROVE  lines \in Seq(T)
<1>1. Len(lines) \in Nat /\ lines \in [1 .. Len(lines) -> T]
  BY LenProperties
<1> QED BY <1>1

(* The three sequences of lines after a step: each is left alone, loses    *)
(* its first line or all of them, or is given a line that matches.         *)
LEMMA LinesStep ==
  ManagerTypeOK /\ CallsCounted /\ Serving /\ EveryLineMatches /\ [ManagerNext]_managerVars
    => EveryLineMatches'
<1> SUFFICES ASSUME ManagerTypeOK, CallsCounted, Serving, EveryLineMatches, [ManagerNext]_managerVars
             PROVE  EveryLineMatches'
  OBVIOUS
<1> DEFINE Fits(lines) == lines \in Seq(Matching')
<1>1. Fits(toMcu) /\ Fits(fromMcu) /\ Fits(rxLines) /\ Fits(<<>>)
  BY MatchingGrows, SeqGrows, EmptySeq DEF EveryLineMatches
<1>2. ASSUME NEW lines, Fits(lines), lines # <<>>
      PROVE  Head(lines) \in Matching' /\ Fits(Tail(lines))
  BY <1>2, HeadTailProperties
<1>3. ASSUME NEW lines, Fits(lines), NEW line \in Matching' PROVE Fits(Append(lines, line))
  BY <1>3, AppendProperties
<1>4. ASSUME Fits(toMcu'), Fits(fromMcu'), Fits(rxLines') PROVE EveryLineMatches'
  BY <1>4 DEF EveryLineMatches
<1> HIDE DEF Fits
<1>5. CASE SendCommand
  <2>1. [seq |-> seq, of |-> cur] \in Matching'
    BY <1>5, Constants DEF SendCommand, Serving, Matching, Message, ManagerTypeOK
  <2>2. Fits(toMcu')
    BY <1>1, <1>3, <1>5, <2>1 DEF SendCommand
  <2> QED BY <1>1, <1>4, <1>5, <2>2 DEF SendCommand
<1>6. CASE Reader
  <2>1. Head(fromMcu) \in Matching' /\ Fits(Tail(fromMcu))
    BY <1>1, <1>2, <1>6 DEF Reader
  <2>2. Fits(Append(rxLines, Head(fromMcu)))
    BY <1>1, <1>3, <2>1
  <2> QED BY <1>1, <1>4, <1>6, <2>1, <2>2 DEF Reader
<1>7. CASE Firmware
  <2>1. Head(toMcu) \in Matching' /\ Fits(Tail(toMcu))
    BY <1>1, <1>2, <1>7 DEF Firmware
  <2>2. Fits(Append(fromMcu, Head(toMcu)))
    BY <1>1, <1>3, <2>1
  <2> QED BY <1>1, <1>4, <1>7, <2>1, <2>2 DEF Firmware
<1>8. CASE TakeLine
  <2>1. Fits(Tail(rxLines))
    BY <1>1, <1>2, <1>8 DEF TakeLine
  <2> QED BY <1>1, <1>4, <1>8, <2>1 DEF TakeLine, lineVars
<1>9. CASE OpenFails \/ WriterExpires
  <2>1. rxLines' = <<>> \/ rxLines' = rxLines
    BY <1>9 DEF OpenFails, WriterExpires, CountFailure, Recover
  <2> QED BY <1>1, <1>4, <1>9, <2>1 DEF OpenFails, WriterExpires, lineVars
<1>10. CASE SendFails \/ DropStaleLines
  BY <1>1, <1>4, <1>10 DEF SendFails, Recover, DropStaleLines, lineVars
<1>11. CASE OpenPort
  BY <1>1, <1>4, <1>11 DEF OpenPort
<1>12. ASSUME NEW c \in Calls, Call(c) \/ CallerGivesUp(c) PROVE EveryLineMatches'
  BY <1>1, <1>4, <1>12 DEF Call, CallerGivesUp, lineVars
<1>13. CASE TakeRequest \/ Tick \/ UNCHANGED managerVars
  BY <1>1, <1>4, <1>13 DEF TakeRequest, Tick, managerVars, lineVars
<1> QED BY <1>5, <1>6, <1>7, <1>8, <1>9, <1>10, <1>11, <1>12, <1>13
        DEF ManagerNext, Writer

(***************************************************************************)
(* Own replies.                                                            *)
(***************************************************************************)
LEMMA OwnReplyStep ==
  ManagerTypeOK /\ Serving /\ EveryLineMatches /\ OwnReply /\ [ManagerNext]_managerVars => OwnReply'
<1> SUFFICES ASSUME ManagerTypeOK, Serving, EveryLineMatches, OwnReply, [ManagerNext]_managerVars,
                    NEW c \in Calls, state'[c] = "reply"
             PROVE  answer'[c] = c
  BY DEF OwnReply
<1> USE DEF ManagerTypeOK, OwnReply
<1>1. ASSUME NEW d \in Calls, Call(d) \/ CallerGivesUp(d) PROVE answer'[c] = c
  BY <1>1 DEF Call, CallerGivesUp
<1>2. CASE TakeRequest \/ OpenPort \/ DropStaleLines \/ SendCommand \/ Reader \/ Firmware
           \/ Tick \/ UNCHANGED managerVars
  BY <1>2 DEF TakeRequest, OpenPort, DropStaleLines, SendCommand, Reader, Firmware,
              Tick, managerVars, callVars
<1>3. ASSUME NEW result, Finish(result, NoCall), result # "reply" PROVE answer'[c] = c
  BY <1>3 DEF Finish
<1>4. CASE OpenFails \/ SendFails \/ WriterExpires
  BY <1>3, <1>4 DEF OpenFails, SendFails, WriterExpires
<1>5. CASE TakeLine /\ IsReply(Head(rxLines))
  <2>1. Head(rxLines) \in Matching
    BY <1>5, HeadTailProperties DEF TakeLine, EveryLineMatches
  <2>2. Head(rxLines).of = cur
    BY <1>5, <2>1 DEF TakeLine, IsReply, Matching
  <2>3. Finish("reply", cur)
    BY <1>5, <2>2 DEF TakeLine
  <2> QED BY <2>3 DEF Finish
<1>6. CASE TakeLine /\ ~IsReply(Head(rxLines))
  BY <1>6 DEF TakeLine
<1> QED BY <1>1, <1>2, <1>4, <1>5, <1>6 DEF ManagerNext, Writer

LEMMA InvInit == ManagerInit => CallsInv
<1> SUFFICES ASSUME ManagerInit PROVE CallsInv
  OBVIOUS
<1>1. ManagerTypeOK
  BY TypeInit
<1>2. CallsCounted
  <2>1. {c \in Calls : state[c] = "new"} = Calls /\ Len(requestQueue) = 0 /\ seq = 0
    BY DEF ManagerInit
  <2> QED BY <2>1, NewCallsFinite DEF CallsCounted
<1>3. Serving /\ EveryLineMatches /\ OwnReply
  BY EmptySeq DEF ManagerInit, Serving, EveryLineMatches, OwnReply
<1> QED BY <1>1, <1>2, <1>3 DEF CallsInv

(* The invariant is inductive.                                             *)
THEOREM Inductive == ManagerSpec => []CallsInv
<1>1. CallsInv /\ [ManagerNext]_managerVars => CallsInv'
  BY TypeStep, CountStep, ServingStep, LinesStep, OwnReplyStep DEF CallsInv
<1> QED BY InvInit, <1>1, PTL DEF ManagerSpec

(* Every variable keeps its type; in particular no number is ever drawn    *)
(* past the range and no countdown passes zero.                            *)
THEOREM TypeCorrect == ManagerSpec => []ManagerTypeOK
<1>1. CallsInv => ManagerTypeOK
  BY DEF CallsInv
<1> QED BY Inductive, <1>1, PTL

(* A caller of send_uart_command is never given the reply to another call: *)
(* for every number of calls up to SeqMax, every time limit, and whatever  *)
(* the line loses or delays.                                               *)
THEOREM RepliesAreOwn == ManagerSpec => []OwnReply
<1>1. CallsInv => OwnReply
  BY DEF CallsInv
<1> QED BY Inductive, <1>1, PTL

(***************************************************************************)
(* UartManager implements UartQueue.                                       *)
(***************************************************************************)

(* The head of a sequence with one element put before it.                  *)
LEMMA FrontLeaves ==
  ASSUME NEW S, NEW e \in S, NEW s \in Seq(S)
  PROVE  <<e>> \o s # <<>> /\ Head(<<e>> \o s) = e /\ Tail(<<e>> \o s) = s
<1> DEFINE t == <<e>> \o s
<1>1. <<e>> \in Seq(S) /\ Len(<<e>>) = 1 /\ <<e>>[1] = e
  OBVIOUS
<1>2. /\ t \in Seq(S) /\ Len(t) = 1 + Len(s)
      /\ \A i \in 1 .. 1 + Len(s) : t[i] = IF i <= 1 THEN e ELSE s[i - 1]
  BY <1>1, ConcatProperties
<1>3. Len(s) \in Nat
  BY LenProperties
<1> HIDE DEF t
<1>4. t # <<>> /\ Head(t) = e
  BY <1>2, <1>3
<1>5. /\ Tail(t) \in Seq(S) /\ Len(Tail(t)) = Len(s)
      /\ \A i \in 1 .. Len(Tail(t)) : Tail(t)[i] = s[i]
  <2>1. Len(Tail(t)) = Len(s) /\ \A i \in 1 .. Len(Tail(t)) : Tail(t)[i] = t[i + 1]
    BY <1>2, <1>3, <1>4, HeadTailProperties
  <2>2. \A i \in 1 .. Len(s) : t[i + 1] = s[i]
    BY <1>2, <1>3
  <2> QED BY <1>2, <1>4, <2>1, <2>2, HeadTailProperties
<1>6. Tail(t) = s
  BY <1>5, SeqEqual
<1> QED BY <1>4, <1>6 DEF t

(* What Finish does is the queue's Serve, whichever way it was reached.    *)
LEMMA FinishServes ==
  ASSUME ManagerTypeOK, Serving, writer # "get", UNCHANGED requestQueue,
         NEW result, NEW of, Finish(result, of),
         \/ result = "reply" /\ of = cur
         \/ result \in {"writer timeout", "error"} /\ of = NoCall
  PROVE  Fifo!Next
<1>1. cur \in Calls /\ requestQueue \in Seq(Calls)
  BY DEF Serving, ManagerTypeOK
<1>2. /\ Waiting = <<cur>> \o requestQueue
      /\ Waiting' = requestQueue
  BY DEF Waiting, Finish
<1>3. Waiting # <<>> /\ Head(Waiting) = cur /\ Tail(Waiting) = requestQueue
  BY <1>1, <1>2, FrontLeaves
<1>4. \/ /\ state[cur] = "pending"
         /\ \/ Fifo!Tell(cur, "reply", cur)
            \/ \E failure \in {"writer timeout", "error"} : Fifo!Tell(cur, failure, NoCall)
      \/ state[cur] # "pending" /\ UNCHANGED <<state, answer>>
  BY DEF Finish, Fifo!Tell
<1>5. Fifo!Serve(cur)
  BY <1>2, <1>3, <1>4 DEF Fifo!Serve
<1> QED
  BY <1>1, <1>5 DEF Fifo!Next

LEMMA ManagerServes ==
  CallsInv /\ [ManagerNext]_managerVars => [Fifo!Next]_<<Waiting, state, answer>>
<1> SUFFICES ASSUME CallsInv, [ManagerNext]_managerVars
             PROVE  Fifo!Next \/ UNCHANGED <<Waiting, state, answer>>
  OBVIOUS
<1>1. ManagerTypeOK /\ Serving /\ EveryLineMatches
  BY DEF CallsInv
<1>2. ASSUME NEW c \in Calls, Call(c) PROVE Fifo!Next
  <2>1. requestQueue \in Seq(Calls) /\ (writer # "get" => cur \in Calls)
    BY <1>1 DEF ManagerTypeOK, Serving
  <2>2. writer # "get" =>
          <<cur>> \o Append(requestQueue, c) = Append(<<cur>> \o requestQueue, c)
    BY <2>1
  <2>3. Waiting' = Append(Waiting, c)
    BY <1>2, <2>2 DEF Waiting, Call
  <2>4. Fifo!Ask(c)
    BY <1>2, <2>3 DEF Call, Fifo!Ask
  <2> QED
    BY <2>4 DEF Fifo!Next
<1>3. ASSUME NEW c \in Calls, CallerGivesUp(c) PROVE Fifo!Next
  BY <1>3 DEF CallerGivesUp, Fifo!Next, Fifo!GiveUp, Waiting
<1>4. CASE TakeRequest
  <2>1. requestQueue \in Seq(Calls) /\ requestQueue # <<>>
    BY <1>1, <1>4 DEF ManagerTypeOK, TakeRequest
  <2>2. <<Head(requestQueue)>> \o Tail(requestQueue) = requestQueue
    BY <2>1
  <2>3. Waiting' = Waiting
    BY <1>4, <2>2 DEF Waiting, TakeRequest
  <2> QED
    BY <1>4, <2>3 DEF TakeRequest, callVars
<1>5. CASE OpenPort \/ DropStaleLines \/ SendCommand
  BY <1>5 DEF OpenPort, DropStaleLines, SendCommand, Waiting, callVars
<1>6. CASE Reader \/ Firmware \/ Tick \/ UNCHANGED managerVars
  BY <1>6 DEF Reader, Firmware, Tick, managerVars, Waiting, callVars
<1>7. CASE OpenFails
  BY <1>1, <1>7, FinishServes DEF OpenFails
<1>8. CASE SendFails
  BY <1>1, <1>8, FinishServes DEF SendFails
<1>9. CASE WriterExpires
  BY <1>1, <1>9, FinishServes DEF WriterExpires
<1>10. CASE TakeLine /\ IsReply(Head(rxLines))
  <2>1. Head(rxLines) \in Matching
    BY <1>1, <1>10, HeadTailProperties DEF TakeLine, EveryLineMatches
  <2>2. Head(rxLines).of = cur
    BY <1>10, <2>1 DEF TakeLine, IsReply, Matching
  <2>3. Finish("reply", cur) /\ writer # "get" /\ UNCHANGED requestQueue
    BY <1>10, <2>2 DEF TakeLine
  <2> QED
    BY <1>1, <2>3, FinishServes
<1>11. CASE TakeLine /\ ~IsReply(Head(rxLines))
  BY <1>11 DEF TakeLine, Waiting
<1> QED
  BY <1>2, <1>3, <1>4, <1>5, <1>6, <1>7, <1>8, <1>9, <1>10, <1>11 DEF ManagerNext, Writer

(* UartManager implements UartQueue: the calls of send_uart_command are    *)
(* served in the order they were made, and each is told once, its own      *)
(* reply or a failure, through losses, timeouts and recoveries.            *)
THEOREM ManagerIsQueue == ManagerSpec => ServesInOrder
<1>1. ManagerInit => Fifo!Init
  BY DEF ManagerInit, Fifo!Init, Waiting
<1> QED
  BY <1>1, ManagerServes, Inductive, PTL DEF ManagerSpec, ServesInOrder, Fifo!Spec

-----------------------------------------------------------------------------
(***************************************************************************)
(* WsUart, as part of SelfTest: types, tasks and queue.                    *)
(***************************************************************************)
TaskTypes ==
  /\ queue \in Seq(Request) /\ stuck \in BOOLEAN
  /\ step \in [Tasks -> DOMAIN Attempts \cup {"idle", "check", "wait"}]
  /\ asked \in [Tasks -> Request \cup {NoRequest}]
  /\ reply \in [Tasks -> Fsm \cup {"none", "pending", "OK", "ERR", "TIMEOUT"}]
  /\ tries \in [Tasks -> 0 .. 1]

OtherTypes ==
  /\ fsm \in Fsm /\ moving \in Request \cup {NoRequest}
  /\ done \in {"none", "new", "due"}
  /\ due \subseteq Deferred
  /\ stopEvent \in BOOLEAN /\ doneEvent \in {"none", "unset", "set"}
  /\ demoId \in 0 .. MaxDemos /\ ended \in 0 .. MaxDemos
  /\ zeroPending \in BOOLEAN /\ relaxPending \in BOOLEAN
  /\ commands \in 0 .. MaxCommands /\ faults \in 0 .. MaxFaults

LEMMA TypeParts == TypeOK <=> TaskTypes /\ OtherTypes
BY DEF TypeOK, TaskTypes, OtherTypes

LEMMA TypeNext == TaskTypes' /\ OtherTypes' => TypeOK'
BY DEF TypeOK, TaskTypes, OtherTypes

LEMMA Bounds ==
  /\ MaxCommands \in Nat /\ MaxFaults \in Nat /\ MaxDemos \in Nat
  /\ "demo" \notin Clients /\ "gone" \notin Tasks /\ "demo" \in Tasks
  /\ Tester \in Clients /\ Clients \subseteq Tasks /\ Tester # "demo" /\ Tester # "gone"
BY WsUartAssumption, SelfTestAssumption DEF WsUartAssumption, SelfTestAssumption, Tasks

(* Attempts, step by step.                                                 *)
LEMMA Steps ==
  /\ DOMAIN Attempts = {"probe", "safe", "enable", "autohome", "hold", "send", "demo", "direct"}
  /\ \A s \in DOMAIN Attempts : Attempts[s] \in 1 .. 2
  /\ \A s \in {"demo", "send", "direct"} : Attempts[s] = 1
BY DEF Attempts

LEMMA ForIs ==
  ASSUME NEW t \in Tasks \cup {"gone"},
         NEW cmd \in Moves \cup Deferred \cup {"STATUS?", "ENABLE", "STOP", "SAFE"}
  PROVE  /\ For(t, cmd) \in Request
         /\ For(t, cmd).by = t /\ For(t, cmd).cmd = cmd /\ For(t, cmd).demo = 0
BY Bounds DEF For, Request

LEMMA EnqueueType ==
  ASSUME TaskTypes, NEW r \in Request
  PROVE  Enqueue(r) \in Seq(Request)
BY AppendProperties DEF TaskTypes, Enqueue

(* What the queue is after a request has been added.                       *)
LEMMA EnqueueIs ==
  ASSUME TaskTypes, QueueInv, NEW r \in Request
  PROVE  \/ stuck /\ Enqueue(r) = <<>> /\ DOMAIN queue = {} /\ DOMAIN Enqueue(r) = {}
         \/ /\ DOMAIN queue = 1 .. Len(queue) /\ Len(queue) \in Nat
            /\ DOMAIN Enqueue(r) = 1 .. Len(queue) + 1
            /\ \A i \in 1 .. Len(queue) : Enqueue(r)[i] = queue[i]
            /\ Enqueue(r)[Len(queue) + 1] = r
<1>1. CASE stuck
  BY <1>1, EmptySeq DEF QueueInv, Enqueue
<1>2. CASE ~stuck
  BY <1>2, AppendProperties DEF TaskTypes, Enqueue
<1> QED BY <1>1, <1>2

(* Who waits for a request in the queue.                                   *)
LEMMA Queued ==
  ASSUME TaskTypes
  PROVE  \A i \in DOMAIN queue : queue[i] \in Request /\ queue[i].by \in Tasks \cup {"gone"}
<1>1. \A i \in DOMAIN queue : queue[i] \in Request
  BY LenProperties DEF TaskTypes
<1>2. \A r \in Request : r.by \in Tasks \cup {"gone"}
  BY DEF Request
<1> QED BY <1>1, <1>2

LEMMA NotQueued ==
  ASSUME QueueInv, NEW t \in Tasks, reply[t] # "pending"
  PROVE  \A i \in DOMAIN queue : queue[i].by # t
BY Bounds DEF QueueInv

(* A task asks: it waits for the answer, and its request is the only one   *)
(* of its own in the queue.                                                *)
LEMMA AskBasics ==
  ASSUME TaskTypes, TaskInv, QueueInv, stuck' = stuck,
         NEW t \in Tasks, NEW r \in Request, NEW s \in DOMAIN Attempts,
         Ask(t, r, s), reply[t] # "pending",
         r.by = t, r.cmd = "DEMO" <=> s = "demo", t = "demo" => s = "demo"
  PROVE  TaskTypes' /\ TaskInv' /\ QueueInv'
<1>1. TaskTypes'
  BY EnqueueType, Steps DEF TaskTypes, Ask
<1>2. TaskInv'
  BY Steps DEF TaskTypes, TaskInv, Ask
<1>3. QueueInv'
  <2> DEFINE q == Enqueue(r)
  <2>1. queue' = q /\ reply'[t] = "pending" /\ asked'[t] = r
        /\ \A u \in Tasks : u # t => reply'[u] = reply[u] /\ asked'[u] = asked[u]
    BY DEF Ask, TaskTypes
  <2>2. \A i \in DOMAIN queue : queue[i].by # t /\ queue[i].by \in Tasks \cup {"gone"}
    BY Queued, NotQueued
  <2> HIDE DEF q
  <2>3. CASE stuck /\ q = <<>> /\ DOMAIN q = {}
    BY <2>1, <2>3 DEF QueueInv
  <2>4. CASE /\ DOMAIN queue = 1 .. Len(queue) /\ Len(queue) \in Nat
             /\ DOMAIN q = 1 .. Len(queue) + 1
             /\ \A i \in 1 .. Len(queue) : q[i] = queue[i]
             /\ q[Len(queue) + 1] = r
             /\ ~stuck
    <3>1. \A i \in DOMAIN q : i \in DOMAIN queue \/ i = Len(queue) + 1
      BY <2>4
    <3>2. ASSUME NEW i \in DOMAIN q, q[i].by # "gone"
          PROVE  reply'[q[i].by] = "pending" /\ asked'[q[i].by] = q[i]
      <4>1. CASE i \in DOMAIN queue
        BY <2>1, <2>2, <2>4, <3>2, <4>1 DEF QueueInv
      <4>2. CASE i = Len(queue) + 1
        BY <2>1, <2>4, <4>2
      <4> QED BY <3>1, <4>1, <4>2
    <3>3. ASSUME NEW i \in DOMAIN q, NEW j \in DOMAIN q, q[i].by = q[j].by
          PROVE  i = j \/ q[i].by = "gone"
      <4>1. CASE i \in DOMAIN queue /\ j \in DOMAIN queue
        BY <2>4, <3>3, <4>1 DEF QueueInv
      <4>2. CASE i = Len(queue) + 1 \/ j = Len(queue) + 1
        BY <2>2, <2>4, <3>1, <3>3, <4>2
      <4> QED BY <3>1, <4>1, <4>2
    <3> QED BY <2>1, <2>4, <3>2, <3>3 DEF QueueInv
  <2> QED BY <2>3, <2>4, EnqueueIs DEF q, Enqueue
<1> QED BY <1>1, <1>2, <1>3

(* A task that waits for no answer goes on.                                *)
LEMMA GotoBasics ==
  ASSUME TaskTypes, TaskInv, QueueInv, stuck' = stuck,
         NEW t \in Tasks, NEW s \in {"idle", "check", "wait"},
         Goto(t, s), reply[t] # "pending"
  PROVE  TaskTypes' /\ TaskInv' /\ QueueInv'
<1>1. TaskTypes'
  BY DEF TaskTypes, Goto
<1>2. NoRequest.cmd # "DEMO" /\ s \notin DOMAIN Attempts
  BY Steps DEF NoRequest
<1>3. TaskInv'
  BY <1>2 DEF TaskTypes, TaskInv, Goto
<1>4. \A i \in DOMAIN queue : queue[i].by \in Tasks \cup {"gone"} /\ queue[i].by # t
  BY Queued, NotQueued
<1>5. QueueInv'
  BY <1>4 DEF QueueInv, TaskTypes, Goto
<1> QED BY <1>1, <1>3, <1>5

(* Nothing of it changes.                                                  *)
LEMMA SameBasics ==
  ASSUME TaskTypes, TaskInv, QueueInv, UNCHANGED <<queue, stuck, step, asked, reply, tries>>
  PROVE  TaskTypes' /\ TaskInv' /\ QueueInv'
BY DEF TaskTypes, TaskInv, QueueInv

(* The next attempt is a request like the first.                           *)
LEMMA RetryBasics ==
  ASSUME TaskTypes, TaskInv, QueueInv, stuck' = stuck, NEW t \in Tasks, Retry(t)
  PROVE  /\ TaskTypes' /\ TaskInv' /\ QueueInv'
         /\ asked[t] \in Request /\ asked[t].cmd # "DEMO"
<1>1. /\ step[t] \in DOMAIN Attempts /\ asked[t] \in Request /\ asked[t].by = t
      /\ reply[t] # "pending" /\ tries[t] + 1 < Attempts[step[t]] /\ tries[t] \in 0 .. 1
  BY Steps DEF Retry, Failed, OutOfTries, TaskInv, TaskTypes
<1>2. tries[t] = 0 /\ step[t] # "demo"
  BY <1>1, Steps
<1>3. asked[t].cmd # "DEMO"
  BY <1>2 DEF TaskInv
<1>4. Enqueue(asked[t]) \in Seq(Request)
  BY <1>1, EnqueueType
<1>5. TaskTypes'
  BY <1>2, <1>4 DEF TaskTypes, Retry
<1>6. TaskInv'
  BY <1>1 DEF TaskInv, TaskTypes, Retry
<1>7. QueueInv'
  <2> DEFINE q == Enqueue(asked[t])
  <2>1. queue' = q /\ reply'[t] = "pending" /\ asked' = asked
        /\ \A u \in Tasks : u # t => reply'[u] = reply[u]
    BY DEF Retry, TaskTypes
  <2>2. \A i \in DOMAIN queue : queue[i].by # t /\ queue[i].by \in Tasks \cup {"gone"}
    BY <1>1, Queued, NotQueued
  <2> HIDE DEF q
  <2>3. CASE stuck /\ q = <<>> /\ DOMAIN q = {}
    BY <2>1, <2>3 DEF QueueInv
  <2>4. CASE /\ DOMAIN queue = 1 .. Len(queue) /\ Len(queue) \in Nat
             /\ DOMAIN q = 1 .. Len(queue) + 1
             /\ \A i \in 1 .. Len(queue) : q[i] = queue[i]
             /\ q[Len(queue) + 1] = asked[t]
             /\ ~stuck
    <3>1. \A i \in DOMAIN q : i \in DOMAIN queue \/ i = Len(queue) + 1
      BY <2>4
    <3>2. ASSUME NEW i \in DOMAIN q, q[i].by # "gone"
          PROVE  reply'[q[i].by] = "pending" /\ asked'[q[i].by] = q[i]
      <4>1. CASE i \in DOMAIN queue
        BY <2>1, <2>2, <2>4, <3>2, <4>1 DEF QueueInv
      <4>2. CASE i = Len(queue) + 1
        BY <1>1, <2>1, <2>4, <4>2
      <4> QED BY <3>1, <4>1, <4>2
    <3>3. ASSUME NEW i \in DOMAIN q, NEW j \in DOMAIN q, q[i].by = q[j].by
          PROVE  i = j \/ q[i].by = "gone"
      <4>1. CASE i \in DOMAIN queue /\ j \in DOMAIN queue
        BY <2>4, <3>3, <4>1 DEF QueueInv
      <4>2. CASE i = Len(queue) + 1 \/ j = Len(queue) + 1
        BY <1>1, <2>2, <2>4, <3>1, <3>3, <4>2
      <4> QED BY <3>1, <4>1, <4>2
    <3> QED BY <2>1, <2>4, <3>2, <3>3 DEF QueueInv
  <2> QED BY <1>1, <2>3, <2>4, EnqueueIs DEF q, Enqueue
<1> QED BY <1>1, <1>3, <1>5, <1>6, <1>7

(* The caller gives up: its request waits for nobody.                      *)
LEMMA GiveUpBasics ==
  ASSUME TaskTypes, TaskInv, QueueInv, stuck' = stuck, NEW t \in Tasks, GiveUp(t)
  PROVE  /\ TaskTypes' /\ TaskInv' /\ QueueInv'
         /\ DOMAIN queue' = DOMAIN queue
         /\ \A i \in DOMAIN queue : /\ queue'[i].cmd = queue[i].cmd
                                    /\ queue'[i].demo = queue[i].demo
                                    /\ queue'[i].by = queue[i].by \/ queue'[i].by = "gone"
<1>1. /\ DOMAIN queue' = DOMAIN queue /\ queue' \in Seq(Request)
      /\ \A i \in DOMAIN queue :
           queue'[i] = IF queue[i].by = t THEN [queue[i] EXCEPT !.by = "gone"] ELSE queue[i]
  <2> DEFINE r(i) == IF queue[i].by = t THEN [queue[i] EXCEPT !.by = "gone"] ELSE queue[i]
  <2>1. queue' = [i \in DOMAIN queue |-> r(i)]
    BY DEF GiveUp
  <2>2. \A i \in DOMAIN queue : r(i) \in Request
    <3>1. \A q \in Request : [q EXCEPT !.by = "gone"] \in Request
      BY DEF Request
    <3> QED BY <3>1, Queued
  <2> HIDE DEF r
  <2>3. DOMAIN queue = 1 .. Len(queue) /\ Len(queue) \in Nat
    BY LenProperties DEF TaskTypes
  <2>4. queue' \in Seq(Request)
    BY <2>1, <2>2, <2>3
  <2> QED BY <2>1, <2>4 DEF r
<1>2. \A i \in DOMAIN queue : /\ queue'[i].cmd = queue[i].cmd
                              /\ queue'[i].demo = queue[i].demo
                              /\ queue[i].by = t => queue'[i].by = "gone"
                              /\ queue[i].by # t => queue'[i] = queue[i]
  BY <1>1, Queued DEF Request
<1>3. TaskTypes'
  BY <1>1 DEF TaskTypes, GiveUp
<1>4. TaskInv'
  BY DEF TaskInv, TaskTypes, GiveUp
<1>5. QueueInv'
  <2>1. asked' = asked /\ \A u \in Tasks : u # t => reply'[u] = reply[u]
    BY DEF GiveUp, TaskTypes
  <2>2. stuck => queue' = <<>>
    BY <1>1, EmptySeq DEF QueueInv
  <2> QED BY <1>1, <1>2, <2>1, <2>2, Queued DEF QueueInv
<1> QED BY <1>1, <1>2, <1>3, <1>4, <1>5

(* The queue without its head.                                             *)
LEMMA TailIs ==
  ASSUME TaskTypes, queue # <<>>
  PROVE  /\ Head(queue) \in Request /\ Head(queue) = queue[1] /\ 1 \in DOMAIN queue
         /\ Tail(queue) \in Seq(Request)
         /\ \A i \in DOMAIN Tail(queue) :
              i \in Nat \ {0} /\ i + 1 \in DOMAIN queue /\ Tail(queue)[i] = queue[i + 1]
<1>1. /\ queue \in Seq(Request) /\ Len(queue) \in Nat \ {0} /\ DOMAIN queue = 1 .. Len(queue)
      /\ Head(queue) \in Request /\ Head(queue) = queue[1]
      /\ Tail(queue) \in Seq(Request) /\ DOMAIN Tail(queue) = 1 .. Len(queue) - 1
      /\ \A i \in 1 .. Len(queue) - 1 : Tail(queue)[i] = queue[i + 1]
  BY HeadTailProperties, EmptySeq, LenProperties DEF TaskTypes
<1> QED BY <1>1

(* The oldest request is answered.                                         *)
LEMMA AnswerBasics ==
  ASSUME TaskTypes, TaskInv, QueueInv, stuck' = stuck, ~stuck, queue # <<>>,
         UNCHANGED <<step, asked, tries>>, queue' = Tail(queue),
         NEW told \in Fsm \cup {"OK", "ERR", "TIMEOUT"},
         reply' = IF Head(queue).by = "gone" THEN reply
                  ELSE [reply EXCEPT ![Head(queue).by] = told]
  PROVE  TaskTypes' /\ TaskInv' /\ QueueInv'
<1>1. told \notin {"none", "pending"}
  BY DEF Fsm
<1>2. TaskTypes'
  BY TailIs DEF TaskTypes
<1>3. TaskInv'
  <2>1. \A t \in Tasks : reply'[t] = reply[t] \/ (reply[t] = "pending" /\ reply'[t] = told)
    BY TailIs, Queued DEF TaskTypes, QueueInv
  <2> QED BY <1>1, <2>1 DEF TaskInv
<1>4. QueueInv'
  <2> DEFINE q == Tail(queue)
  <2>1. \A i \in DOMAIN q : i \in Nat \ {0} /\ i + 1 \in DOMAIN queue /\ q[i] = queue[i + 1]
    BY TailIs
  <2> HIDE DEF q
  <2>2. \A i \in DOMAIN queue : i # 1 => queue[i].by # Head(queue).by \/ queue[i].by = "gone"
    BY TailIs DEF QueueInv
  <2>3. \A i \in DOMAIN q : q[i].by # "gone" =>
          reply'[q[i].by] = reply[q[i].by] /\ q[i].by \in Tasks
    BY <2>1, <2>2, TailIs, Queued DEF TaskTypes
  <2>4. \A i \in DOMAIN q : q[i].by # "gone" =>
          reply'[q[i].by] = "pending" /\ asked[q[i].by] = q[i]
    BY <2>1, <2>3 DEF QueueInv
  <2>5. \A i, j \in DOMAIN q : q[i].by = q[j].by => i = j \/ q[i].by = "gone"
    BY <2>1 DEF QueueInv
  <2> QED BY <2>4, <2>5 DEF QueueInv, q
<1> QED BY <1>2, <1>3, <1>4

(* The writer is blocked.                                                  *)
LEMMA BlockedBasics ==
  ASSUME TaskTypes, TaskInv, QueueInv, queue' = <<>>, stuck' = TRUE,
         UNCHANGED <<step, asked, reply, tries>>
  PROVE  TaskTypes' /\ TaskInv' /\ QueueInv'
BY EmptySeq DEF TaskTypes, TaskInv, QueueInv

(* What the firmware does with a command.                                  *)
LEMMA ExecutesIs ==
  ASSUME OtherTypes, MotionInv, NEW r \in Request, NEW told \in Fsm \cup {"OK", "ERR"},
         Executes(r, told)
  PROVE  /\ fsm' \in Fsm /\ moving' \in {moving, r, NoRequest}
         /\ ended' = ended \/ (r.cmd # "DEMO" /\ ended' = r.demo)
         /\ ended' \in 0 .. MaxDemos /\ ended <= ended'
         /\ MotionInv'
<1>1. r.demo \in 0 .. MaxDemos /\ ended \in 0 .. MaxDemos /\ MaxDemos \in Nat
  BY Bounds DEF Request, OtherTypes
<1>2. /\ ended' = ended \/ (r.cmd # "DEMO" /\ ended' = r.demo)
      /\ ended' \in 0 .. MaxDemos /\ ended <= ended'
  BY <1>1 DEF Executes
<1>3. fsm' \in Fsm
  BY DEF Executes, OtherTypes, Fsm
<1>4. moving' \in {moving, r, NoRequest}
  BY DEF Executes
<1>5. MotionInv'
  <2>1. CASE r.cmd \in {"STOP", "SAFE"}
    <3>1. moving' = NoRequest
      BY <2>1 DEF Executes, Moves
    <3> QED BY <3>1 DEF MotionInv
  <2>2. CASE r.cmd \in Moves
    BY <2>2 DEF Executes, MotionInv, Moves
  <2>3. CASE r.cmd \notin {"STOP", "SAFE"} \cup Moves
    BY <2>3 DEF Executes, MotionInv
  <2> QED BY <2>1, <2>2, <2>3
<1> QED BY <1>2, <1>3, <1>4, <1>5

-----------------------------------------------------------------------------
(***************************************************************************)
(* The end of a demo.                                                      *)
(***************************************************************************)
LEMMA Numbers ==
  ASSUME TypeOK
  PROVE  /\ demoId \in Nat /\ ended \in Nat
         /\ \A r \in Request : r.demo \in Nat
         /\ \A t \in Tasks : asked[t].demo \in Nat
         /\ \A i \in DOMAIN queue : queue[i] \in Request /\ queue[i].demo \in Nat
<1>1. \A r \in Request : r.demo \in Nat
  BY Bounds DEF Request
<1>2. \A t \in Tasks : asked[t].demo \in Nat
  BY <1>1 DEF TypeOK, NoRequest
<1>3. \A i \in DOMAIN queue : queue[i] \in Request
  BY Queued, TypeParts
<1> QED BY <1>1, <1>2, <1>3, Bounds DEF TypeOK

(* A request is added to the queue.                                        *)
LEMMA AddedDemos ==
  ASSUME TypeOK, QueueInv, NumberInv, RunningInv, DemoInv,
         NEW r \in Request, queue' = Enqueue(r),
         \A u \in Tasks : asked'[u] \in {asked[u], r},
         ended' = ended, demoId' = demoId, stopEvent => stopEvent', stopEvent' \in BOOLEAN,
         DemoRuns' <=> DemoRuns,
         r.demo <= demoId, DemoRuns /\ ~stopEvent' => ~Ends(r, demoId),
         r.cmd = "DEMO" => r.demo = demoId /\ DemoRuns /\ ~stopEvent
  PROVE  NumberInv' /\ RunningInv' /\ DemoInv'
<1> DEFINE q == Enqueue(r)
<1>1. \/ DOMAIN q = {}
      \/ /\ DOMAIN queue = 1 .. Len(queue) /\ Len(queue) \in Nat
         /\ DOMAIN q = 1 .. Len(queue) + 1
         /\ \A i \in 1 .. Len(queue) : q[i] = queue[i]
         /\ q[Len(queue) + 1] = r
  BY EnqueueIs, TypeParts
<1> HIDE DEF q
<1>2. \A i \in DOMAIN q : (i \in DOMAIN queue /\ q[i] = queue[i]) \/ q[i] = r
  BY <1>1
<1>3. NumberInv'
  BY <1>2, Numbers DEF NumberInv, q
<1>4. RunningInv'
  BY <1>2, Numbers DEF RunningInv, Ends, q
<1>5. DemoInv'
  <2> SUFFICES ASSUME NEW i \in DOMAIN q, q[i].cmd = "DEMO"
               PROVE  q[i].demo > ended /\ \A j \in 1 .. i : ~Ends(q[j], q[i].demo)
    BY DEF DemoInv, Ends, q
  <2>1. /\ DOMAIN queue = 1 .. Len(queue) /\ Len(queue) \in Nat
        /\ DOMAIN q = 1 .. Len(queue) + 1
        /\ \A k \in 1 .. Len(queue) : q[k] = queue[k]
        /\ q[Len(queue) + 1] = r
    BY <1>1
  <2>2. CASE i \in 1 .. Len(queue)
    <3>1. \A j \in 1 .. i : j \in 1 .. Len(queue)
      BY <2>1, <2>2
    <3> QED BY <2>1, <2>2, <3>1 DEF DemoInv
  <2>3. CASE i = Len(queue) + 1
    <3>1. q[i].demo = demoId /\ DemoRuns /\ ~stopEvent /\ r.cmd = "DEMO"
      BY <2>1, <2>3
    <3>2. \A k \in DOMAIN queue : ~Ends(queue[k], demoId)
      BY <3>1 DEF RunningInv
    <3>3. \A j \in 1 .. i : ~Ends(q[j], demoId)
      BY <1>2, <2>1, <2>3, <3>1, <3>2 DEF Ends
    <3>4. ended < demoId
      BY <3>1 DEF RunningInv
    <3> QED BY <3>1, <3>3, <3>4, Numbers
  <2> QED BY <2>1, <2>2, <2>3
<1> QED BY <1>3, <1>4, <1>5

(* No request is added, and no demo starts.                                *)
LEMMA KeptDemos ==
  ASSUME TypeOK, NumberInv, RunningInv, DemoInv,
         DOMAIN queue' = DOMAIN queue,
         \A i \in DOMAIN queue : queue'[i].cmd = queue[i].cmd /\ queue'[i].demo = queue[i].demo,
         \A u \in Tasks : asked'[u] \in {asked[u], NoRequest},
         ended' = ended, demoId' = demoId, stopEvent => stopEvent', stopEvent' \in BOOLEAN,
         DemoRuns' => DemoRuns
  PROVE  NumberInv' /\ RunningInv' /\ DemoInv'
<1>1. NoRequest.demo = 0
  BY DEF NoRequest
<1>2. NumberInv'
  BY <1>1, Numbers DEF NumberInv
<1>3. RunningInv'
  BY <1>1, Numbers DEF RunningInv, Ends
<1>4. DemoInv'
  <2>1. \A i \in DOMAIN queue : \A j \in 1 .. i : j \in DOMAIN queue
    BY LenProperties DEF TypeOK
  <2> QED BY <2>1 DEF DemoInv, Ends
<1> QED BY <1>2, <1>3, <1>4

(* The oldest request is taken from the queue, or the queue is dropped.    *)
LEMMA TakenDemos ==
  ASSUME TypeOK, NumberInv, RunningInv, DemoInv, queue # <<>>,
         queue' \in {<<>>, Tail(queue)}, asked' = asked, demoId' = demoId,
         stopEvent' = stopEvent, step' = step,
         \/ ended' = ended
         \/ Head(queue).cmd # "DEMO" /\ ended' = Head(queue).demo
  PROVE  NumberInv' /\ RunningInv' /\ DemoInv'
<1> DEFINE q == Tail(queue)
<1>1. /\ Head(queue) = queue[1] /\ 1 \in DOMAIN queue
      /\ \A i \in DOMAIN q : i \in Nat \ {0} /\ i + 1 \in DOMAIN queue /\ q[i] = queue[i + 1]
  BY TailIs, TypeParts
<1> HIDE DEF q
<1>2. \A i \in DOMAIN queue' : i \in DOMAIN q /\ queue'[i] = q[i]
  BY EmptySeq DEF q
<1>3. \A i \in DOMAIN queue' : i + 1 \in DOMAIN queue /\ queue'[i] = queue[i + 1]
  BY <1>1, <1>2
<1>4. NumberInv'
  BY <1>1, <1>3, Numbers DEF NumberInv
<1>5. RunningInv'
  <2>1. DemoRuns' <=> DemoRuns
    BY DEF DemoRuns
  <2> SUFFICES ASSUME DemoRuns, ~stopEvent
               PROVE  ended' < demoId /\ \A i \in DOMAIN queue' : ~Ends(queue'[i], demoId)
    BY <2>1 DEF RunningInv, Ends
  <2>2. ended' < demoId
    BY <1>1, Numbers DEF RunningInv, Ends
  <2> QED BY <1>3, <2>2 DEF RunningInv
<1>6. DemoInv'
  <2> SUFFICES ASSUME NEW i \in DOMAIN queue', queue'[i].cmd = "DEMO"
               PROVE  /\ queue'[i].demo > ended'
                      /\ \A j \in 1 .. i : ~Ends(queue'[j], queue'[i].demo)
    BY Zenon DEF DemoInv, Ends
  <2>1. /\ i \in Nat \ {0} /\ i + 1 \in DOMAIN queue /\ queue'[i] = queue[i + 1]
        /\ queue[i + 1].cmd = "DEMO"
    BY <1>1, <1>2
  <2>2. /\ queue[i + 1].demo > ended
        /\ \A j \in 1 .. i + 1 : ~Ends(queue[j], queue[i + 1].demo)
    BY <2>1 DEF DemoInv
  <2>3. ~Ends(queue[1], queue[i + 1].demo)
    BY <2>1, <2>2
  <2>4. queue'[i].demo > ended'
    BY <1>1, <2>1, <2>2, <2>3, Numbers DEF Ends
  <2>5. ASSUME NEW j \in 1 .. i PROVE ~Ends(queue'[j], queue'[i].demo)
    <3>1. j \in DOMAIN queue'
      BY <2>1, EmptySeq, LenProperties, HeadTailProperties DEF TypeOK
    <3>2. queue'[j] = queue[j + 1] /\ j + 1 \in 1 .. i + 1
      BY <1>3, <2>1, <3>1
    <3> QED BY <2>1, <2>2, <3>2
  <2> QED BY <2>4, <2>5
<1> QED BY <1>4, <1>5, <1>6

-----------------------------------------------------------------------------
(***************************************************************************)
(* The steps of WsUart and of the test, one by one.                        *)
(***************************************************************************)
LEMMA AskSound ==
  ASSUME DemosInv, stuck' = stuck, OtherTypes',
         NEW t \in Tasks, NEW r \in Request, NEW s \in DOMAIN Attempts,
         Ask(t, r, s), reply[t] # "pending",
         r.by = t, r.cmd = "DEMO" <=> s = "demo", t = "demo" => s = "demo",
         UNCHANGED <<fsm, moving, demoId, ended>>, stopEvent => stopEvent',
         r.demo <= demoId, DemoRuns /\ ~stopEvent' => ~Ends(r, demoId),
         r.cmd = "DEMO" => t = "demo" /\ r.demo = demoId /\ DemoRuns /\ ~stopEvent
  PROVE  DemosInv'
<1>1. TaskTypes /\ TaskInv /\ QueueInv /\ NumberInv /\ RunningInv /\ DemoInv /\ TypeOK
  BY TypeParts DEF DemosInv
<1>2. TaskTypes' /\ TaskInv' /\ QueueInv'
  BY <1>1, AskBasics
<1>3. MotionInv'
  BY DEF DemosInv, MotionInv
<1>4. queue' = Enqueue(r) /\ \A u \in Tasks : asked'[u] \in {asked[u], r}
  BY <1>1 DEF Ask, TaskTypes
<1>5. DemoRuns' <=> DemoRuns
  BY <1>1, Bounds, Steps DEF Ask, TaskTypes, DemoRuns
<1>6. stopEvent' \in BOOLEAN
  BY DEF OtherTypes
<1>7. NumberInv' /\ RunningInv' /\ DemoInv'
  BY <1>1, <1>4, <1>5, <1>6, AddedDemos
<1> QED BY <1>2, <1>3, <1>7, TypeNext DEF DemosInv

LEMMA GotoSound ==
  ASSUME DemosInv, stuck' = stuck, OtherTypes',
         NEW t \in Tasks, NEW s \in {"idle", "check", "wait"},
         Goto(t, s), reply[t] # "pending",
         t = "demo" => DemoRuns, UNCHANGED <<fsm, moving, demoId, ended, stopEvent>>
  PROVE  DemosInv'
<1>1. TaskTypes /\ TaskInv /\ QueueInv /\ NumberInv /\ RunningInv /\ DemoInv /\ TypeOK
  BY TypeParts DEF DemosInv
<1>2. TaskTypes' /\ TaskInv' /\ QueueInv'
  BY <1>1, GotoBasics
<1>3. MotionInv'
  BY DEF DemosInv, MotionInv
<1>4. queue' = queue /\ \A u \in Tasks : asked'[u] \in {asked[u], NoRequest}
  BY <1>1 DEF Goto, TaskTypes
<1>5. DemoRuns' => DemoRuns
  BY <1>1, Bounds DEF Goto, TaskTypes, DemoRuns
<1>6. stopEvent' \in BOOLEAN
  BY DEF OtherTypes
<1>7. NumberInv' /\ RunningInv' /\ DemoInv'
  BY <1>1, <1>4, <1>5, <1>6, KeptDemos
<1> QED BY <1>2, <1>3, <1>7, TypeNext DEF DemosInv

LEMMA SameSound ==
  ASSUME DemosInv, OtherTypes', MotionInv',
         UNCHANGED <<queue, stuck, step, asked, reply, tries, demoId, ended>>,
         stopEvent => stopEvent'
  PROVE  DemosInv'
<1>1. TaskTypes /\ TaskInv /\ QueueInv /\ NumberInv /\ RunningInv /\ DemoInv /\ TypeOK
  BY TypeParts DEF DemosInv
<1>2. TaskTypes' /\ TaskInv' /\ QueueInv'
  BY <1>1, SameBasics
<1>3. DemoRuns' <=> DemoRuns
  BY DEF DemoRuns
<1>4. stopEvent' \in BOOLEAN
  BY DEF OtherTypes
<1>5. NumberInv' /\ RunningInv' /\ DemoInv'
  BY <1>1, <1>3, <1>4, KeptDemos
<1> QED BY <1>2, <1>5, TypeNext DEF DemosInv

(* Whether a task waits.                                                   *)
LEMMA NotWaiting ==
  ASSUME DemosInv, NEW t \in Tasks
  PROVE  /\ step[t] \in {"idle", "check", "wait"} => reply[t] # "pending"
         /\ Ok(t) \/ OutOfTries(t) \/ Failed(t) => reply[t] # "pending"
BY Steps DEF DemosInv, TaskInv, Ok, OutOfTries, Failed, Fsm

LEMMA DemosTypes == DemosInv => OtherTypes /\ TaskTypes /\ TypeOK /\ demoId \in Nat
BY TypeParts, Bounds DEF DemosInv, OtherTypes

LEMMA OperatorSound ==
  ASSUME DemosInv, NEW c \in Clients,
         Enable(c) \/ Stop(c) \/ OtherCommand(c) \/ StopDemo(c)
  PROVE  DemosInv'
<1>1. /\ c \in Tasks /\ c # "demo" /\ step[c] = "idle" /\ reply[c] # "pending"
      /\ commands' \in 0 .. MaxCommands
  <2>1. Receives(c)
    BY DEF Enable, Stop, OtherCommand, StopDemo
  <2>2. c \in Tasks /\ c # "demo" /\ step[c] = "idle" /\ reply[c] # "pending"
    BY <2>1, Bounds, NotWaiting DEF Receives
  <2>3. commands \in 0 .. MaxCommands
    BY DemosTypes DEF OtherTypes
  <2> QED BY <2>1, <2>2, <2>3, Bounds DEF Receives
<1>2. CASE Enable(c)
  <2>1. OtherTypes'
    BY <1>1, <1>2, DemosTypes DEF Enable, OtherTypes, robot, demoVars, flags
  <2>2. For(c, "STATUS?") \in Request /\ For(c, "STATUS?").by = c
        /\ For(c, "STATUS?").cmd = "STATUS?" /\ For(c, "STATUS?").demo = 0
    BY <1>1, ForIs
  <2>3. DemoRuns => demoId > 0
    BY DEF DemosInv, RunningInv
  <2> QED BY <1>1, <1>2, <2>1, <2>2, <2>3, AskSound, DemosTypes, Steps
          DEF Enable, robot, demoVars, Ends
<1>3. CASE OtherCommand(c)
  <2>1. PICK cmd \in Commands : Ask(c, For(c, cmd), "send")
    BY <1>3 DEF OtherCommand
  <2>2. cmd \in Moves \cup {"SAFE"} /\ cmd # "DEMO"
    BY WsUartAssumption DEF WsUartAssumption, Moves
  <2>3. OtherTypes'
    BY <1>1, <1>3, DemosTypes DEF OtherCommand, OtherTypes, robot, demoVars, flags
  <2>4. For(c, cmd) \in Request /\ For(c, cmd).by = c
        /\ For(c, cmd).cmd = cmd /\ For(c, cmd).demo = 0
    BY <1>1, <2>2, ForIs
  <2>5. DemoRuns => demoId > 0
    BY DEF DemosInv, RunningInv
  <2> QED BY <1>1, <1>3, <2>1, <2>2, <2>3, <2>4, <2>5, AskSound, DemosTypes, Steps
          DEF OtherCommand, robot, demoVars, Ends
<1>4. CASE Stop(c)
  <2> DEFINE r == [by |-> c, demo |-> IF DemoRuns THEN demoId ELSE 0, cmd |-> "STOP"]
  <2>1. r \in Request /\ r.by = c /\ r.cmd = "STOP" /\ r.demo <= demoId
    BY <1>1, Bounds, DemosTypes DEF Request, OtherTypes
  <2>2. OtherTypes'
    BY <1>1, <1>4, DemosTypes DEF Stop, OtherTypes, robot, flags
  <2>3. /\ Ask(c, r, "send") /\ (stopEvent => stopEvent') /\ (DemoRuns => stopEvent')
        /\ UNCHANGED <<stuck, fsm, moving, demoId, ended>>
    BY <1>4 DEF Stop, robot
  <2> HIDE DEF r
  <2> QED BY <1>1, <2>1, <2>2, <2>3, AskSound, Steps
<1>5. CASE StopDemo(c)
  <2> DEFINE r == [by |-> c, demo |-> demoId, cmd |-> "HOLD"]
  <2>1. r \in Request /\ r.by = c /\ r.cmd = "HOLD" /\ r.demo <= demoId
    BY <1>1, Bounds, DemosTypes DEF Request, OtherTypes, Moves
  <2>2. OtherTypes'
    BY <1>1, <1>5, DemosTypes DEF StopDemo, OtherTypes, robot, flags
  <2>3. /\ stopEvent' = TRUE /\ UNCHANGED <<stuck, fsm, moving, demoId, ended>>
        /\ Ask(c, r, "hold") \/ UNCHANGED <<queue, step, asked, reply, tries>>
    BY <1>5 DEF StopDemo, robot, tasks
  <2> HIDE DEF r
  <2>4. CASE Ask(c, r, "hold")
    BY <1>1, <2>1, <2>2, <2>3, <2>4, AskSound, Steps
  <2>5. CASE UNCHANGED <<queue, step, asked, reply, tries>>
    <3>1. MotionInv'
      BY <2>3 DEF DemosInv, MotionInv
    <3> QED BY <2>2, <2>3, <2>5, <3>1, SameSound
  <2> QED BY <2>3, <2>4, <2>5
<1> QED BY <1>2, <1>3, <1>4, <1>5

LEMMA StartDemoSound ==
  ASSUME DemosInv, NEW c \in Clients, StartDemo(c)
  PROVE  DemosInv'
<1>1. /\ TaskTypes /\ TaskInv /\ QueueInv /\ NumberInv /\ DemoInv /\ TypeOK /\ OtherTypes
      /\ demoId \in Nat
  BY DemosTypes DEF DemosInv
<1>2. step["demo"] = "idle" /\ reply["demo"] # "pending" /\ "demo" \in Tasks
  BY NotWaiting, Bounds DEF StartDemo, DemoRuns
<1>3. /\ Goto("demo", "check") /\ demoId' = demoId + 1 /\ stopEvent' = FALSE
      /\ UNCHANGED <<stuck, fsm, moving, done, due, doneEvent, zeroPending, relaxPending,
                     commands, faults, ended>>
      /\ demoId < MaxDemos
  BY DEF StartDemo, robot, flags
<1>4. TaskTypes' /\ TaskInv' /\ QueueInv'
  BY <1>1, <1>2, <1>3, GotoBasics
<1>5. OtherTypes'
  <2>1. demoId + 1 \in 0 .. MaxDemos
    BY <1>1, <1>3, Bounds
  <2> QED BY <1>1, <1>3, <2>1 DEF OtherTypes
<1>6. MotionInv'
  BY <1>3 DEF DemosInv, MotionInv
<1>7. queue' = queue /\ \A u \in Tasks : asked'[u] \in {asked[u], NoRequest}
  BY <1>1, <1>3 DEF Goto, TaskTypes
<1>8. NoRequest.demo = 0
  BY DEF NoRequest
<1>9. /\ ended' <= demoId /\ \A u \in Tasks : asked'[u].demo \in Nat /\ asked'[u].demo <= demoId
      /\ \A i \in DOMAIN queue' : queue'[i].demo \in Nat /\ queue'[i].demo <= demoId
  BY <1>1, <1>3, <1>7, <1>8, Numbers DEF NumberInv
<1>10. NumberInv'
  BY <1>1, <1>3, <1>9, Numbers DEF NumberInv
<1>11. RunningInv'
  BY <1>1, <1>3, <1>9, Numbers DEF RunningInv, Ends
<1>12. DemoInv'
  BY <1>1, <1>3, <1>7 DEF DemoInv, Ends
<1> QED BY <1>4, <1>5, <1>6, <1>10, <1>11, <1>12, TypeNext DEF DemosInv

(* The commands and sequences that have been answered.                     *)
LEMMA PlainAsk ==
  ASSUME DemosInv, NEW c \in Clients, reply[c] # "pending",
         NEW cmd \in {"STATUS?", "SAFE", "ENABLE", "AUTO_HOME", "HOME", "SETPOSE"},
         NEW s \in {"probe", "safe", "enable", "autohome", "send", "direct"},
         Ask(c, For(c, cmd), s),
         UNCHANGED <<robot, stuck, due, demoVars, flags, commands, faults, ended>>
  PROVE  DemosInv'
<1>1. c \in Tasks /\ c # "demo" /\ s \in DOMAIN Attempts /\ s # "demo" /\ cmd # "DEMO"
  BY Bounds, Steps
<1>2. OtherTypes' /\ UNCHANGED <<stuck, fsm, moving, demoId, ended, stopEvent>>
  BY DemosTypes DEF OtherTypes, robot, demoVars, flags
<1>3. For(c, cmd) \in Request /\ For(c, cmd).by = c
      /\ For(c, cmd).cmd = cmd /\ For(c, cmd).demo = 0
  BY <1>1, ForIs DEF Moves
<1>4. DemoRuns => demoId > 0
  BY DEF DemosInv, RunningInv
<1> QED BY <1>1, <1>2, <1>3, <1>4, AskSound, DemosTypes DEF Ends

LEMMA PlainEnd ==
  ASSUME DemosInv, NEW c \in Clients, reply[c] # "pending", Goto(c, "idle"), OtherTypes',
         UNCHANGED <<robot, stuck, demoVars, ended>>
  PROVE  DemosInv'
<1>1. c \in Tasks /\ c # "demo"
  BY Bounds
<1> QED BY <1>1, GotoSound DEF robot, demoVars

LEMMA AnsweredSound ==
  ASSUME DemosInv, NEW c \in Clients, Answered(c)
  PROVE  DemosInv'
<1>1. c \in Tasks /\ TaskInv /\ (Ok(c) \/ OutOfTries(c) => reply[c] # "pending")
  BY Bounds, NotWaiting DEF DemosInv
<1>2. CASE Probed(c)
  <2>1. reply[c] # "pending"
    BY <1>1, <1>2 DEF Probed
  <2> QED BY <1>2, <2>1, PlainAsk DEF Probed
<1>3. ASSUME NEW from, NEW cmd \in {"ENABLE", "AUTO_HOME"}, NEW to \in {"enable", "autohome"},
             RecoveryStep(c, from, cmd, to)
      PROVE  DemosInv'
  <2>1. reply[c] # "pending"
    BY <1>1, <1>3 DEF RecoveryStep
  <2>2. CASE Ask(c, For(c, cmd), to)
    BY <1>3, <2>1, <2>2, PlainAsk DEF RecoveryStep
  <2>3. CASE Goto(c, "idle")
    <3>1. OtherTypes'
      BY <1>3, DemosTypes DEF RecoveryStep, OtherTypes, robot, demoVars, flags
    <3> QED BY <1>3, <2>1, <2>3, <3>1, PlainEnd DEF RecoveryStep
  <2> QED BY <1>3, <2>2, <2>3 DEF RecoveryStep
<1>4. CASE SafeDone(c) \/ EnableDone(c)
  BY <1>3, <1>4 DEF SafeDone, EnableDone
<1>5. CASE SequenceDone(c)
  <2>1. OtherTypes'
    BY <1>5, DemosTypes DEF SequenceDone, OtherTypes, robot, demoVars, flags
  <2> QED BY <1>1, <1>5, <2>1, PlainEnd DEF SequenceDone
<1>6. CASE CommandDone(c)
  <2>1. relaxPending' \in BOOLEAN /\ zeroPending' \in BOOLEAN
    <3>1. relaxPending \in BOOLEAN /\ zeroPending \in BOOLEAN /\ Ok(c) \in BOOLEAN
      BY DemosTypes DEF OtherTypes, Ok
    <3>2. relaxPending' \in {Ok(c), relaxPending}
      BY <1>6 DEF CommandDone
    <3>3. zeroPending' \in {zeroPending, TRUE, FALSE}
      BY <1>6 DEF CommandDone
    <3> QED BY <3>1, <3>2, <3>3
  <2>2. OtherTypes'
    BY <1>6, <2>1, DemosTypes DEF CommandDone, OtherTypes, robot, demoVars
  <2> QED BY <1>1, <1>6, <2>2, PlainEnd DEF CommandDone
<1> QED BY <1>2, <1>4, <1>5, <1>6 DEF Answered

(* The demo.                                                               *)
LEMMA DemoSound ==
  ASSUME DemosInv, Demo \/ DemoTimesOut
  PROVE  DemosInv'
<1>1. "demo" \in Tasks /\ TaskInv /\ OtherTypes /\ demoId \in Nat
      /\ (Ok("demo") \/ OutOfTries("demo") => reply["demo"] # "pending")
  BY Bounds, NotWaiting, DemosTypes DEF DemosInv
<1>2. CASE DemoCheck
  <2>1. step["demo"] = "check" /\ DemoRuns /\ reply["demo"] # "pending"
    BY <1>1, <1>2, NotWaiting DEF DemoCheck, DemoRuns
  <2>2. OtherTypes' /\ UNCHANGED <<stuck, fsm, moving, demoId, ended, stopEvent>>
    BY <1>1, <1>2 DEF DemoCheck, OtherTypes, robot, demoVars, flags
  <2>3. CASE stopEvent
    BY <1>1, <1>2, <2>1, <2>2, <2>3, GotoSound DEF DemoCheck
  <2>4. CASE ~stopEvent
    <3> DEFINE r == [by |-> "demo", demo |-> demoId, cmd |-> "DEMO"]
    <3>1. r \in Request /\ r.by = "demo" /\ r.cmd = "DEMO" /\ r.demo = demoId
      BY <1>1 DEF Request, OtherTypes, Moves
    <3>2. Ask("demo", r, "demo")
      BY <1>2, <2>4 DEF DemoCheck
    <3> HIDE DEF r
    <3> QED BY <1>1, <2>1, <2>2, <2>4, <3>1, <3>2, AskSound, Steps DEF Ends
  <2> QED BY <2>3, <2>4
<1>3. CASE DemoSent
  <2>1. step["demo"] = "demo" /\ DemoRuns /\ reply["demo"] # "pending"
    BY <1>1, <1>3 DEF DemoSent, DemoRuns
  <2>2. OtherTypes' /\ UNCHANGED <<stuck, fsm, moving, demoId, ended, stopEvent>>
    BY <1>1, <1>3 DEF DemoSent, OtherTypes, robot, flags
  <2>3. Goto("demo", "wait") \/ Goto("demo", "idle")
    BY <1>3 DEF DemoSent
  <2> QED BY <1>1, <2>1, <2>2, <2>3, GotoSound
<1>4. CASE DemoWakes \/ DemoTimesOut
  <2>1. step["demo"] = "wait" /\ DemoRuns /\ reply["demo"] # "pending"
    BY <1>1, <1>4, NotWaiting DEF DemoWakes, DemoTimesOut, DemoRuns
  <2>2. OtherTypes' /\ UNCHANGED <<stuck, fsm, moving, demoId, ended, stopEvent>>
    BY <1>1, <1>4 DEF DemoWakes, DemoTimesOut, OtherTypes, robot, flags
  <2>3. Goto("demo", "check") \/ Goto("demo", "idle")
    BY <1>4 DEF DemoWakes, DemoTimesOut
  <2> QED BY <1>1, <2>1, <2>2, <2>3, GotoSound
<1> QED BY <1>2, <1>3, <1>4 DEF Demo

(* Retries, and callers that give up.                                      *)
LEMMA FaultTypes ==
  ASSUME OtherTypes, NEW kind, Fault(kind)
  PROVE  faults' \in 0 .. MaxFaults
BY Bounds DEF OtherTypes, Fault

LEMMA CallerSound ==
  ASSUME DemosInv, NEW t \in Tasks, Retry(t) \/ GiveUp(t)
  PROVE  DemosInv'
<1>1. /\ TaskTypes /\ TaskInv /\ QueueInv /\ NumberInv /\ RunningInv /\ DemoInv /\ MotionInv
      /\ TypeOK /\ OtherTypes
  BY DemosTypes DEF DemosInv
<1>2. UNCHANGED <<stuck, fsm, moving, step, asked, demoId, ended, stopEvent>>
  BY DEF Retry, GiveUp, robot, demoVars
<1>3. (DemoRuns' <=> DemoRuns) /\ MotionInv' /\ stopEvent' \in BOOLEAN
  BY <1>1, <1>2 DEF DemoRuns, MotionInv, OtherTypes
<1>4. CASE Retry(t)
  <2>1. /\ TaskTypes' /\ TaskInv' /\ QueueInv'
        /\ asked[t] \in Request /\ asked[t].cmd # "DEMO"
    BY <1>1, <1>2, <1>4, RetryBasics
  <2>2. OtherTypes'
    BY <1>1, <1>4 DEF Retry, OtherTypes, robot, demoVars, flags
  <2>3. queue' = Enqueue(asked[t])
    BY <1>4 DEF Retry
  <2>4. asked[t].demo <= demoId /\ (DemoRuns /\ ~stopEvent' => ~Ends(asked[t], demoId))
    BY <1>1, <1>2 DEF NumberInv, RunningInv
  <2>5. NumberInv' /\ RunningInv' /\ DemoInv'
    BY <1>1, <1>2, <1>3, <2>1, <2>3, <2>4, AddedDemos
  <2> QED BY <1>3, <2>1, <2>2, <2>5, TypeNext DEF DemosInv
<1>5. CASE GiveUp(t)
  <2>1. /\ TaskTypes' /\ TaskInv' /\ QueueInv'
        /\ DOMAIN queue' = DOMAIN queue
        /\ \A i \in DOMAIN queue : queue'[i].cmd = queue[i].cmd /\ queue'[i].demo = queue[i].demo
    BY <1>1, <1>2, <1>5, GiveUpBasics
  <2>2. faults' \in 0 .. MaxFaults
    BY <1>1, <1>5, FaultTypes DEF GiveUp, OtherTypes
  <2>3. OtherTypes'
    BY <1>1, <1>5, <2>2 DEF GiveUp, OtherTypes, robot, demoVars, flags
  <2>4. NumberInv' /\ RunningInv' /\ DemoInv'
    BY <1>1, <1>2, <1>3, <2>1, KeptDemos
  <2> QED BY <1>3, <2>1, <2>3, <2>4, TypeNext DEF DemosInv
<1> QED BY <1>4, <1>5

(* The firmware and the line.                                              *)
LEMMA TurnsTypes ==
  ASSUME OtherTypes, MainLoopTurns
  PROVE  done' \in {"none", "new", "due"}
BY DEF OtherTypes, MainLoopTurns

LEMMA ServeSound ==
  ASSUME DemosInv, Serve \/ ServeLost
  PROVE  DemosInv'
<1>1. /\ TaskTypes /\ TaskInv /\ QueueInv /\ NumberInv /\ RunningInv /\ DemoInv /\ MotionInv
      /\ TypeOK /\ OtherTypes
  BY DemosTypes DEF DemosInv
<1>2. ~stuck /\ queue # <<>> /\ Head(queue) \in Request
      /\ UNCHANGED <<step, asked, tries, due, stopEvent, doneEvent, demoId, zeroPending,
                     relaxPending, commands>>
  BY <1>1, TailIs DEF Serve, ServeLost, demoVars, flags
<1>3. ASSUME NEW told \in Fsm \cup {"OK", "ERR"}, Executes(Head(queue), told)
      PROVE  /\ fsm' \in Fsm /\ moving' \in {moving, Head(queue), NoRequest}
             /\ ended' = ended \/ (Head(queue).cmd # "DEMO" /\ ended' = Head(queue).demo)
             /\ ended' \in 0 .. MaxDemos
             /\ MotionInv'
  BY <1>1, <1>2, <1>3, ExecutesIs
<1>4. /\ fsm' \in Fsm /\ moving' \in {moving, Head(queue), NoRequest}
      /\ ended' = ended \/ (Head(queue).cmd # "DEMO" /\ ended' = Head(queue).demo)
      /\ ended' \in 0 .. MaxDemos
      /\ MotionInv'
      /\ done' \in {"none", "new", "due"}
  <2>1. CASE Serve
    BY <1>1, <1>3, <2>1, TurnsTypes DEF Serve
  <2>2. CASE ServeLost /\ UNCHANGED <<robot, ended>>
    BY <1>1, <2>2 DEF OtherTypes, MotionInv, robot
  <2>3. CASE ServeLost /\ ~UNCHANGED <<robot, ended>>
    BY <1>1, <1>3, <2>3, TurnsTypes DEF ServeLost
  <2> QED BY <2>1, <2>2, <2>3
<1>5. faults' \in 0 .. MaxFaults
  BY <1>1, FaultTypes DEF Serve, ServeLost, OtherTypes
<1>6. OtherTypes'
  BY <1>1, <1>2, <1>4, <1>5 DEF OtherTypes
<1>7. TaskTypes' /\ TaskInv' /\ QueueInv' /\ queue' \in {<<>>, Tail(queue)}
  <2>1. CASE Serve
    <3>1. PICK told \in Fsm \cup {"OK", "ERR"} :
            reply' = IF Head(queue).by = "gone" THEN reply
                     ELSE [reply EXCEPT ![Head(queue).by] = told]
      BY <2>1 DEF Serve
    <3>2. queue' = Tail(queue) /\ stuck' = stuck
      BY <2>1 DEF Serve
    <3> QED BY <1>1, <1>2, <3>1, <3>2, AnswerBasics
  <2>2. CASE ServeLost /\ stuck'
    <3>1. queue' = <<>> /\ reply' = reply
      BY <2>2 DEF ServeLost
    <3>2. stuck' = TRUE
      BY <2>2, WsUartAssumption DEF ServeLost, WsUartAssumption
    <3> QED BY <1>1, <1>2, <3>1, <3>2, BlockedBasics
  <2>3. CASE ServeLost /\ ~stuck'
    <3>1. /\ queue' = Tail(queue)
          /\ reply' = IF Head(queue).by = "gone" THEN reply
                      ELSE [reply EXCEPT ![Head(queue).by] = "TIMEOUT"]
      BY <2>3 DEF ServeLost
    <3>2. stuck' = stuck
      <4>1. stuck' \in BOOLEAN /\ stuck \in BOOLEAN
        BY <1>1, <2>3, WsUartAssumption DEF ServeLost, WsUartAssumption, TaskTypes
      <4> QED BY <1>2, <2>3, <4>1
    <3> QED BY <1>1, <1>2, <3>1, <3>2, AnswerBasics
  <2> QED BY <2>1, <2>2, <2>3
<1>8. NumberInv' /\ RunningInv' /\ DemoInv'
  BY <1>1, <1>2, <1>4, <1>7, TakenDemos
<1> QED BY <1>4, <1>6, <1>7, <1>8, TypeNext DEF DemosInv

LEMMA RobotSound ==
  ASSUME DemosInv, TrajectoryEnds \/ FirmwareStops \/ SetposeDone
  PROVE  DemosInv'
<1>1. OtherTypes /\ MotionInv
  BY DemosTypes DEF DemosInv
<1>2. UNCHANGED <<queue, stuck, step, asked, reply, tries, demoId, ended, stopEvent>>
  BY DEF TrajectoryEnds, FirmwareStops, SetposeDone, uart, tasks, demoVars
<1>3. CASE TrajectoryEnds
  <2>1. OtherTypes' /\ MotionInv'
    BY <1>1, <1>3 DEF TrajectoryEnds, OtherTypes, MotionInv, demoVars, flags
  <2> QED BY <1>2, <2>1, SameSound
<1>4. CASE FirmwareStops
  <2>1. faults' \in 0 .. MaxFaults
    BY <1>1, <1>4, FaultTypes DEF FirmwareStops
  <2>2. OtherTypes' /\ MotionInv'
    BY <1>1, <1>4, <2>1 DEF FirmwareStops, OtherTypes, MotionInv, demoVars, flags, Fsm
  <2> QED BY <1>2, <2>2, SameSound
<1>5. CASE SetposeDone
  <2>1. due' \subseteq Deferred
    BY <1>1, <1>5 DEF SetposeDone, OtherTypes, Deferred
  <2>2. doneEvent' \in {"none", "unset", "set"}
    BY <1>1, <1>5 DEF SetposeDone, OtherTypes
  <2>3. OtherTypes' /\ MotionInv'
    BY <1>1, <1>5, <2>1, <2>2 DEF SetposeDone, OtherTypes, MotionInv
  <2> QED BY <1>2, <2>3, SameSound
<1> QED BY <1>3, <1>4, <1>5

(* A request for which nobody waits.                                       *)
LEMMA SendDeferredSound ==
  ASSUME DemosInv, SendDeferred
  PROVE  DemosInv'
<1>1. /\ TaskTypes /\ TaskInv /\ QueueInv /\ NumberInv /\ RunningInv /\ DemoInv /\ MotionInv
      /\ TypeOK /\ OtherTypes /\ demoId \in Nat
  BY DemosTypes DEF DemosInv
<1>2. PICK cmd \in due : due' = due \ {cmd} /\ queue' = Enqueue(For("gone", cmd))
  BY DEF SendDeferred
<1>3. UNCHANGED <<fsm, moving, done, stuck, step, asked, reply, tries, stopEvent, doneEvent,
                  demoId, zeroPending, relaxPending, commands, faults, ended>>
  BY DEF SendDeferred, robot, tasks, demoVars, flags
<1> DEFINE r == For("gone", cmd)
<1>4. r \in Request /\ r.by = "gone" /\ r.cmd # "DEMO" /\ r.demo = 0
  BY <1>1, ForIs DEF OtherTypes, Deferred
<1> HIDE DEF r
<1>5. OtherTypes' /\ MotionInv' /\ (DemoRuns' <=> DemoRuns) /\ stopEvent' \in BOOLEAN
  BY <1>1, <1>2, <1>3 DEF OtherTypes, MotionInv, DemoRuns
<1>6. TaskTypes' /\ TaskInv'
  BY <1>1, <1>2, <1>3, <1>4, EnqueueType DEF TaskTypes, TaskInv, r
<1>7. QueueInv'
  <2> DEFINE q == Enqueue(r)
  <2>1. queue' = q
    BY <1>2 DEF r
  <2>2. \/ stuck /\ q = <<>> /\ DOMAIN q = {}
        \/ /\ DOMAIN queue = 1 .. Len(queue) /\ Len(queue) \in Nat
           /\ DOMAIN q = 1 .. Len(queue) + 1
           /\ \A i \in 1 .. Len(queue) : q[i] = queue[i]
           /\ q[Len(queue) + 1] = r
    BY <1>1, <1>4, EnqueueIs
  <2>3. stuck => q = <<>>
    BY DEF Enqueue, QueueInv, DemosInv
  <2> HIDE DEF q
  <2>4. \A i \in DOMAIN q : (i \in DOMAIN queue /\ q[i] = queue[i]) \/ q[i].by = "gone"
    BY <1>4, <2>2
  <2> QED BY <1>1, <1>3, <2>1, <2>3, <2>4 DEF QueueInv
<1>8. DemoRuns => demoId > 0
  BY <1>1 DEF RunningInv
<1>9. ~Ends(r, demoId) \/ ~DemoRuns
  BY <1>1, <1>4, <1>8 DEF Ends
<1>10. NumberInv' /\ RunningInv' /\ DemoInv'
  BY <1>1, <1>2, <1>3, <1>4, <1>5, <1>9, AddedDemos DEF r
<1> QED BY <1>5, <1>6, <1>7, <1>10, TypeNext DEF DemosInv

(* The steps of the test itself: none of them is a step of a demo.         *)
LEMMA SendsSound ==
  ASSUME DemosInv, Sends
  PROVE  DemosInv'
<1>1. Tester \in Clients /\ step[Tester] = "idle" /\ reply[Tester] # "pending"
  BY Bounds, NotWaiting DEF Sends
<1>2. UNCHANGED <<robot, stuck, due, demoVars, flags, commands, faults, ended>>
  BY DEF Sends
<1>3. \E cmd \in {"STATUS?", "SAFE", "ENABLE", "AUTO_HOME", "HOME", "SETPOSE"},
         s \in {"probe", "safe", "enable", "autohome", "send", "direct"} :
           Ask(Tester, For(Tester, cmd), s)
  BY DEF Sends, AxisCommand, ModalCommand
<1> QED BY <1>1, <1>2, <1>3, PlainAsk

LEMMA ModalAnsweredSound ==
  ASSUME DemosInv, ModalAnswered
  PROVE  DemosInv'
<1>1. Tester \in Clients /\ reply[Tester] # "pending" /\ Goto(Tester, "idle")
  BY Bounds, NotWaiting DEF ModalAnswered
<1>2. UNCHANGED <<robot, stuck, due, demoVars, flags, commands, faults, ended>>
  BY DEF ModalAnswered
<1>3. OtherTypes'
  BY <1>2, DemosTypes DEF OtherTypes, robot, demoVars, flags
<1> QED BY <1>1, <1>2, <1>3, PlainEnd

LEMMA UnchangedSound ==
  ASSUME DemosInv, UNCHANGED vars \/ TelemetryMissing
  PROVE  DemosInv'
<1>1. UNCHANGED <<queue, stuck, step, asked, reply, tries, demoId, ended, stopEvent, fsm,
                  moving, done, due, doneEvent, zeroPending, relaxPending, commands>>
  BY DEF vars, TelemetryMissing, robot, uart, tasks, demoVars, flags
<1>2. faults' \in 0 .. MaxFaults
  BY DemosTypes, FaultTypes DEF OtherTypes, TelemetryMissing, vars
<1>3. OtherTypes' /\ MotionInv'
  BY <1>1, <1>2, DemosTypes DEF OtherTypes, MotionInv, DemosInv
<1> QED BY <1>1, <1>3, SameSound

LEMMA DemosStep ==
  ASSUME DemosInv, [SelfTestNext]_allVars
  PROVE  DemosInv'
<1>1. CASE OthersNext
  BY <1>1, CallerSound, OperatorSound, StartDemoSound, AnsweredSound, ServeSound, RobotSound,
     SendDeferredSound, DemoSound
     DEF OthersNext, Operator
<1>2. CASE TestNext
  <2>1. CASE Start \/ DoneMissing \/ Samples \/ TelemetryMissing
    BY <2>1, UnchangedSound DEF Start, DoneMissing, Samples
  <2>2. CASE Sends \/ ModalAnswered
    BY <2>2, SendsSound, ModalAnsweredSound
  <2>3. CASE AxisAnswered
    BY <2>3, AnsweredSound, Bounds DEF AxisAnswered
  <2>4. CASE DoneHeard
    BY <2>4, RobotSound DEF DoneHeard
  <2> QED BY <1>2, <2>1, <2>2, <2>3, <2>4 DEF TestNext
<1>3. CASE UNCHANGED allVars
  BY <1>3, UnchangedSound DEF allVars
<1> QED BY <1>1, <1>2, <1>3 DEF SelfTestNext

LEMMA DemosInit == SelfTestInit => DemosInv
<1> SUFFICES ASSUME SelfTestInit PROVE DemosInv
  OBVIOUS
<1> USE DEF SelfTestInit, Init
<1>1. TypeOK
  <2>1. <<>> \in Seq(Request)
    BY EmptySeq
  <2>2. NoRequest \in Request \cup {NoRequest}
    OBVIOUS
  <2>3. 0 \in 0 .. MaxDemos /\ 0 \in 0 .. MaxCommands /\ 0 \in 0 .. MaxFaults /\ 0 \in 0 .. 1
    BY Bounds
  <2> QED BY <2>1, <2>2, <2>3 DEF TypeOK
<1>2. TaskInv
  BY Steps, Bounds DEF TaskInv, NoRequest
<1>3. QueueInv /\ DemoInv /\ MotionInv
  BY EmptySeq DEF QueueInv, DemoInv, MotionInv
<1>4. NumberInv
  <2>1. \A t \in Tasks : asked[t].demo = 0
    BY DEF NoRequest
  <2>2. DOMAIN queue = {}
    BY EmptySeq
  <2> QED BY <2>1, <2>2 DEF NumberInv
<1>5. RunningInv
  BY Bounds DEF RunningInv, DemoRuns
<1> QED BY <1>1, <1>2, <1>3, <1>4, <1>5 DEF DemosInv

(* Only a served command starts a motion, and only in IDLE; nothing but    *)
(* the end of the trajectory leaves the arm at rest in IDLE.               *)
LEMMA ExecutesMoves ==
  ASSUME OtherTypes, MotionInv, NEW r \in Request, NEW told \in Fsm \cup {"OK", "ERR"},
         Executes(r, told)
  PROVE  /\ Starts => moving' = r /\ r.cmd \in Moves /\ fsm' = "IDLE"
         /\ ~Lands
<1>1. CASE r.cmd \in {"STOP", "SAFE"}
  <2>1. moving' = NoRequest /\ fsm' # "IDLE"
    BY <1>1 DEF Executes, Moves
  <2> QED BY <2>1 DEF Starts, Lands
<1>2. CASE r.cmd \in Moves
  <2>1. fsm' = fsm /\ \/ moving' = r /\ fsm = "IDLE"
                      \/ moving' = moving
    BY <1>2 DEF Executes, Moves
  <2>2. r # NoRequest
    BY <1>2 DEF NoRequest, Moves
  <2> QED BY <1>2, <2>1, <2>2 DEF Starts, Lands
<1>3. CASE r.cmd \notin {"STOP", "SAFE"} \cup Moves
  <2>1. moving' = moving
    BY <1>3 DEF Executes
  <2> QED BY <2>1 DEF Starts, Lands
<1> QED BY <1>1, <1>2, <1>3

LEMMA ServedMoves ==
  ASSUME DemosInv, Serve \/ ServeLost
  PROVE  /\ Starts => /\ queue # <<>> /\ moving' = Head(queue) /\ Head(queue) = queue[1]
                      /\ 1 \in DOMAIN queue
                      /\ Head(queue).cmd \in Moves /\ fsm' = "IDLE"
         /\ ~Lands
<1>1. queue # <<>> /\ Head(queue) \in Request /\ Head(queue) = queue[1] /\ 1 \in DOMAIN queue
      /\ OtherTypes /\ MotionInv
  BY DemosTypes, TailIs DEF Serve, ServeLost, DemosInv
<1>2. CASE UNCHANGED robot
  BY <1>2 DEF robot, Starts, Lands
<1>3. CASE \E told \in Fsm \cup {"OK", "ERR"} : Executes(Head(queue), told)
  BY <1>1, <1>3, ExecutesMoves
<1> QED BY <1>2, <1>3 DEF Serve, ServeLost

LEMMA OthersMove ==
  ASSUME [SelfTestNext]_allVars, ~(Serve \/ ServeLost)
  PROVE  moving' = moving \/ moving' = NoRequest
<1>1. CASE OthersNext
  <2>1. ASSUME NEW t \in Tasks, Retry(t) \/ GiveUp(t) PROVE moving' = moving
    BY <2>1 DEF Retry, GiveUp, robot
  <2>2. ASSUME NEW c \in Clients, Operator(c) PROVE moving' = moving
    BY <2>2 DEF Operator, Enable, Stop, OtherCommand, StopDemo, StartDemo, robot
  <2>3. ASSUME NEW c \in Clients, Answered(c) PROVE moving' = moving
    BY <2>3 DEF Answered, Probed, SafeDone, EnableDone, RecoveryStep, SequenceDone, CommandDone,
                robot
  <2>4. CASE TrajectoryEnds \/ FirmwareStops \/ SendDeferred \/ Demo \/ DemoTimesOut
    BY <2>4 DEF TrajectoryEnds, FirmwareStops, SendDeferred, Demo, DemoCheck, DemoSent,
                DemoWakes, DemoTimesOut, robot
  <2> QED BY <1>1, <2>1, <2>2, <2>3, <2>4 DEF OthersNext
<1>2. CASE TestNext
  <2>1. CASE AxisAnswered
    BY <2>1 DEF AxisAnswered, Answered, Probed, SafeDone, EnableDone, RecoveryStep,
                SequenceDone, CommandDone, robot
  <2>2. CASE Start \/ Sends \/ ModalAnswered \/ DoneHeard \/ DoneMissing \/ Samples
             \/ TelemetryMissing
    BY <2>2 DEF Start, Sends, ModalAnswered, DoneHeard, SetposeDone, DoneMissing, Samples,
                TelemetryMissing, vars, robot
  <2> QED BY <1>2, <2>1, <2>2 DEF TestNext
<1>3. CASE UNCHANGED allVars
  BY <1>3 DEF allVars, vars
<1> QED BY <1>1, <1>2, <1>3 DEF SelfTestNext

(* No step of a demo starts to move the arm once a STOP, or the freeze of  *)
(* the DEMO button, meant for that demo has been executed: for any number  *)
(* of operators, commands, demos and faults, and with the self test.       *)
THEOREM StopIsFinal == SelfTestSpec => StopEndsDemo
<1>1. DemosInv /\ [SelfTestNext]_allVars
        => [moving' # moving /\ moving'.cmd = "DEMO" => moving'.demo > ended]_vars
  <2> SUFFICES ASSUME DemosInv, [SelfTestNext]_allVars, moving' # moving, moving'.cmd = "DEMO"
               PROVE  moving'.demo > ended
    OBVIOUS
  <2>1. NoRequest.cmd # "DEMO"
    BY DEF NoRequest
  <2>2. (Serve \/ ServeLost) /\ Starts
    BY <2>1, OthersMove DEF Starts
  <2>3. moving' = queue[1] /\ 1 \in DOMAIN queue
    BY <2>2, ServedMoves
  <2> QED BY <2>3 DEF DemosInv, DemoInv
<1>2. DemosInv /\ [SelfTestNext]_allVars => DemosInv'
  BY DemosStep
<1> QED BY DemosInit, <1>1, <1>2, PTL DEF SelfTestSpec, StopEndsDemo

-----------------------------------------------------------------------------
(***************************************************************************)
(* SelfTest: the arm as the test knows it.                                 *)
(***************************************************************************)
TestTypes ==
  /\ test \in Axis \cup DOMAIN ModalCommand \cup {"off"}
  /\ pose \in 0 .. Poses \cup 0 .. Wrists /\ tests \in 0 .. MaxTests
ArmTypes == aim \in Places /\ place \in Places /\ upset \in BOOLEAN

LEMMA SelfTestParts == SelfTestTypeOK <=> TypeOK /\ TestTypes /\ ArmTypes
BY DEF SelfTestTypeOK, TestTypes, ArmTypes

LEMMA SelfTestNextTypes == TypeOK' /\ TestTypes' /\ ArmTypes' => SelfTestTypeOK'
BY DEF SelfTestTypeOK, TestTypes, ArmTypes

LEMMA TestBounds ==
  /\ Poses \in Nat /\ Wrists \in Nat /\ MaxTests \in Nat
  /\ Elsewhere \in Places /\ \A p \in 0 .. Poses : p \in Places /\ p # Elsewhere
  /\ 0 \in 0 .. Poses /\ 0 \in 0 .. Wrists
BY SelfTestAssumption DEF SelfTestAssumption, Elsewhere, Places

LEMMA Positions ==
  /\ Axis = {"safe", "enable", "home", "pose", "homeDone", "poseDone", "zero", "sample"}
  /\ DOMAIN AxisCommand = {"safe", "enable", "home", "pose"}
  /\ DOMAIN ModalCommand = {"modalSafe", "modalEnable", "modalHome", "out", "back"}
BY DEF Axis, AxisCommand, ModalCommand, Resting

(* What is known of the arm after a step.                                  *)
Forgotten == upset' = TRUE /\ aim' = Elsewhere /\ place' = Elsewhere
Known(a, p) == ~upset /\ upset' = FALSE /\ aim' = a /\ place' = p

LEMMA WatchedOff ==
  ASSUME Watched, test' \notin Axis
  PROVE  upset' = FALSE /\ aim' = Elsewhere /\ place' = Elsewhere
BY DEF Watched

LEMMA WatchedStill ==
  ASSUME ArmTypes, PoseInv, Watched, test \in Axis, test' \in Axis, ~Starts, ~Lands
  PROVE  /\ Forgotten \/ \E p \in {place, Elsewhere} : Known(aim, p) /\ (p = pose <=> AtPose)
         /\ ArmTypes'
<1>1. pose \in 0 .. Poses /\ pose # Elsewhere /\ Elsewhere \in Places
  BY TestBounds DEF PoseInv
<1>2. CASE Upset
  <2>1. Forgotten
    BY <1>2 DEF Watched, Forgotten
  <2> QED BY <1>1, <2>1 DEF Forgotten, ArmTypes
<1>3. CASE ~Upset
  <2>1. ~upset /\ upset' = FALSE
    BY <1>3 DEF Watched, Upset
  <2>2. aim' = aim /\ place' = IF fsm' # "IDLE" THEN Elsewhere ELSE place
    BY <2>1 DEF Watched
  <2>3. fsm' # "IDLE" => ~AtPose
    BY <1>3 DEF Upset, AtPose
  <2>4. place' \in {place, Elsewhere} /\ (place' = pose <=> AtPose)
    BY <1>1, <2>2, <2>3 DEF AtPose
  <2> QED BY <1>1, <2>1, <2>2, <2>4 DEF Known, ArmTypes
<1> QED BY <1>2, <1>3

LEMMA WatchedStarts ==
  ASSUME ArmTypes, PoseInv, Watched, test \in Axis, test' \in Axis, Starts, fsm' = "IDLE"
  PROVE  /\ \/ Forgotten
            \/ /\ moving'.by = Tester
               /\ \E p \in {place, Elsewhere} : Known(pose, p) /\ (p = pose <=> AtPose)
         /\ ArmTypes'
<1>1. pose \in 0 .. Poses /\ pose # Elsewhere /\ Elsewhere \in Places /\ pose \in Places
  BY TestBounds DEF PoseInv
<1>2. CASE Upset
  <2>1. Forgotten
    BY <1>2 DEF Watched, Forgotten
  <2> QED BY <1>1, <2>1 DEF Forgotten, ArmTypes
<1>3. CASE ~Upset
  <2>1. ~upset /\ upset' = FALSE /\ moving'.by = Tester
    BY <1>3 DEF Watched, Upset
  <2>2. aim' = pose
    BY <2>1 DEF Watched
  <2>3. ~Lands
    BY DEF Starts, Lands
  <2>4. place' = IF aim' # place THEN Elsewhere ELSE place
    BY <2>1, <2>3 DEF Watched
  <2>5. place' \in {place, Elsewhere} /\ (place' = pose <=> AtPose)
    BY <1>1, <2>2, <2>4 DEF AtPose
  <2> QED BY <1>1, <2>1, <2>2, <2>5 DEF Known, ArmTypes
<1> QED BY <1>2, <1>3

LEMMA WatchedLands ==
  ASSUME ArmTypes, PoseInv, Watched, test \in Axis, test' \in Axis, Lands
  PROVE  (Forgotten \/ Known(aim, aim)) /\ ArmTypes'
<1>1. Elsewhere \in Places
  BY TestBounds
<1>2. CASE Upset
  <2>1. Forgotten
    BY <1>2 DEF Watched, Forgotten
  <2> QED BY <1>1, <2>1 DEF Forgotten, ArmTypes
<1>3. CASE ~Upset
  <2>1. ~upset /\ upset' = FALSE
    BY <1>3 DEF Watched, Upset
  <2>2. ~Starts /\ fsm' = "IDLE"
    BY DEF Starts, Lands
  <2>3. aim' = aim /\ place' = aim
    BY <2>1, <2>2 DEF Watched
  <2> QED BY <2>1, <2>3 DEF Known, ArmTypes
<1> QED BY <1>2, <1>3

(* Outside the axis test nothing is claimed.                               *)
LEMMA LeavesAxis ==
  ASSUME Watched, test' \notin Axis, test' = "off" => pose' = 0
  PROVE  ArmTypes' /\ ConnectionInv' /\ PoseInv' /\ AloneInv' /\ DoneInv'
<1>1. upset' = FALSE /\ aim' = Elsewhere /\ place' = Elsewhere
  BY WatchedOff
<1>2. test' \notin {"safe", "enable", "home", "pose", "homeDone", "poseDone", "zero", "sample"}
  BY Positions
<1>3. ArmTypes'
  BY <1>1, TestBounds DEF ArmTypes
<1>4. ConnectionInv'
  BY <1>2 DEF ConnectionInv, Resting
<1>5. PoseInv'
  BY <1>1, <1>2 DEF PoseInv
<1>6. ~Alone'
  BY DEF Alone
<1> QED BY <1>3, <1>4, <1>5, <1>6 DEF AloneInv, DoneInv

(* A step in which the position of the test stays: no motion ends, none of *)
(* its own starts before its SAFE is answered, and a SETPOSE_DONE that is  *)
(* still to be sent was so before.                                         *)
ArmInv == PoseInv /\ AloneInv /\ DoneInv

LEMMA StaysSound ==
  ASSUME ArmTypes, ArmInv, Watched, test \in Axis, UNCHANGED <<test, pose>>,
         ~Lands, Starts => fsm' = "IDLE",
         test = "safe" /\ Starts => moving'.by # Tester,
         done' # "none" => done # "none", done' = "new" => done = "new",
         Ok(Tester)' => \/ Ok(Tester)
                        \/ /\ done' # "new" /\ (done' # "none" => done = "new")
                           /\ test = "pose" => reply[Tester] = "pending" /\ ~stuck,
         test = "pose" /\ reply'[Tester] \in {"none", "pending"} /\ ~stuck' =>
           /\ reply[Tester] \in {"none", "pending"} /\ ~stuck
           /\ Starts => moving'.by # Tester
  PROVE  ArmTypes' /\ ArmInv'
<1>1. CASE Forgotten
  <2>1. ArmTypes'
    BY <1>1, TestBounds DEF Forgotten, ArmTypes
  <2>2. PoseInv'
    BY <1>1 DEF ArmInv, PoseInv, Forgotten
  <2>3. ~Alone'
    BY <1>1 DEF Alone, Forgotten
  <2> QED BY <2>1, <2>2, <2>3 DEF ArmInv, AloneInv, DoneInv
<1>2. CASE ~Forgotten
  <2>1. /\ ArmTypes' /\ ~upset /\ upset' = FALSE /\ (AtPose' <=> AtPose)
        /\ \/ Starts /\ moving'.by = Tester /\ aim' = pose
           \/ ~Starts /\ aim' = aim
        /\ place' \in {place, Elsewhere}
    <3>1. CASE Starts
      BY <1>2, <3>1, WatchedStarts DEF ArmInv, Known, AtPose
    <3>2. CASE ~Starts
      BY <1>2, <3>2, WatchedStill DEF ArmInv, Known, AtPose
    <3> QED BY <3>1, <3>2
  <2>2. PoseInv'
    <3>1. test' = "safe" => aim' = Elsewhere /\ place' = Elsewhere
      BY <2>1 DEF ArmInv, PoseInv
    <3> QED BY <2>1, <3>1 DEF ArmInv, PoseInv
  <2>3. AloneInv'
    <3>1. ~Starts => moving' = moving \/ moving' = NoRequest
      BY DEF Starts
    <3>2. Alone' => Alone
      BY <2>1 DEF Alone
    <3> QED BY <2>1, <3>1, <3>2 DEF ArmInv, AloneInv
  <2>4. DoneInv'
    <3> SUFFICES ASSUME Alone' PROVE DoneInv'
      BY DEF DoneInv
    <3>1. Alone
      BY <2>1 DEF Alone
    <3>2. test = "enable" /\ Ok(Tester)' /\ done' = "new" => AtPose'
      BY <2>1, <3>1 DEF ArmInv, DoneInv
    <3>3. test = "home" /\ done' = "new" => AtPose'
      BY <2>1, <3>1 DEF ArmInv, DoneInv
    <3>4. test \in {"home", "pose"} /\ Ok(Tester)' /\ done' # "none" => AtPose'
      BY <2>1, <3>1 DEF ArmInv, DoneInv
    <3>5. test \in {"homeDone", "poseDone"} /\ done' # "none" => AtPose'
      BY <2>1, <3>1 DEF ArmInv, DoneInv
    <3>6. test = "pose" /\ reply'[Tester] \in {"none", "pending"} /\ ~stuck' =>
            moving' = NoRequest /\ done' = "none"
      BY <2>1, <3>1 DEF ArmInv, DoneInv, Starts
    <3>7. test \in Resting => AtPose'
      BY <2>1, <3>1 DEF ArmInv, DoneInv
    <3> QED BY <3>2, <3>3, <3>4, <3>5, <3>6, <3>7 DEF DoneInv
  <2> QED BY <2>1, <2>2, <2>3, <2>4 DEF ArmInv
<1> QED BY <1>1, <1>2

(* The trajectory ends: the arm has come to where it was sent.             *)
LEMMA LandsSound ==
  ASSUME ArmTypes, ArmInv, Watched, test \in Axis, UNCHANGED <<test, pose>>, Lands,
         UNCHANGED <<reply, stuck>>, MotionInv, done = "none"
  PROVE  ArmTypes' /\ ArmInv'
<1>1. ArmTypes' /\ (Forgotten \/ Known(aim, aim)) /\ moving # NoRequest /\ moving' = NoRequest
  BY WatchedLands DEF ArmInv, Lands
<1>2. PoseInv'
  BY <1>1 DEF ArmInv, PoseInv, Forgotten, Known
<1>3. AloneInv'
  BY <1>1 DEF AloneInv
<1>4. DoneInv'
  <2> SUFFICES ASSUME Alone' PROVE DoneInv'
    BY DEF DoneInv
  <2>1. Known(aim, aim) /\ Alone
    BY <1>1 DEF Forgotten, Known, Alone
  <2>2. aim = pose /\ AtPose'
    BY <1>1, <2>1 DEF ArmInv, AloneInv, Known, AtPose
  <2>3. ~(test = "pose" /\ reply[Tester] \in {"none", "pending"} /\ ~stuck)
    BY <1>1, <2>1 DEF ArmInv, DoneInv
  <2> QED BY <2>2, <2>3 DEF DoneInv
<1> QED BY <1>1, <1>2, <1>3, <1>4 DEF ArmInv

(* A step that does not concern the test.                                  *)
LEMMA AsideSound ==
  ASSUME SelfTestTypeOK, ConnectionInv, ArmInv, Watched,
         UNCHANGED <<moving, done, stuck, test, pose>>,
         step'[Tester] = step[Tester], asked'[Tester] = asked[Tester],
         \/ reply'[Tester] = reply[Tester] \/ reply'[Tester] = "TIMEOUT"
         \/ (reply'[Tester] = "pending" /\ test # "pose")
  PROVE  ArmTypes' /\ ConnectionInv' /\ ArmInv'
<1>1. CASE test \notin Axis
  BY <1>1, LeavesAxis DEF ArmInv, PoseInv
<1>2. CASE test \in Axis
  <2>1. ArmTypes /\ ~Lands /\ ~Starts
    BY DEF SelfTestTypeOK, ArmTypes, Lands, Starts
  <2>2. ConnectionInv'
    BY DEF ConnectionInv, AskedBy
  <2>3. (Ok(Tester)' => Ok(Tester))
        /\ (test = "pose" /\ reply'[Tester] \in {"none", "pending"} =>
              reply[Tester] \in {"none", "pending"})
    BY DEF Ok, Fsm
  <2> QED BY <1>2, <2>1, <2>2, <2>3, StaysSound
<1> QED BY <1>1, <1>2

LEMMA CallerRests ==
  ASSUME RestInv, Watched, UNCHANGED <<test, pose>>, NEW t \in Tasks, Retry(t) \/ GiveUp(t)
  PROVE  ArmTypes' /\ ConnectionInv' /\ ArmInv'
<1>1. UNCHANGED <<moving, done, stuck, step, asked>>
  BY DEF Retry, GiveUp, robot
<1>2. \/ reply'[Tester] = reply[Tester] \/ reply'[Tester] = "TIMEOUT"
      \/ (reply'[Tester] = "pending" /\ test # "pose")
  <2> DEFINE Told == Fsm \cup {"none", "pending", "OK", "ERR", "TIMEOUT"}
  <2>0. Tester \in Tasks /\ reply \in [Tasks -> Told]
    BY Bounds DEF RestInv, DemosInv, TypeOK
  <2> HIDE DEF Told
  <2>1. CASE GiveUp(t)
    <3>1. reply' = [reply EXCEPT ![t] = "TIMEOUT"]
      BY <2>1 DEF GiveUp
    <3> QED BY <2>0, <3>1
  <2>2. CASE Retry(t) /\ t = Tester
    <3>1. reply[Tester] \in {"ERR", "TIMEOUT"} /\ ~(tries[Tester] + 1 >= Attempts[step[Tester]])
          /\ tries[Tester] \in 0 .. 1
      BY <2>2, Bounds DEF Retry, Failed, OutOfTries, RestInv, DemosInv, TypeOK
    <3>2. step[Tester] # "idle"
      BY <3>1, Bounds, Steps DEF RestInv, DemosInv, TaskInv
    <3>3. step[Tester] # "send"
      BY <3>1, Steps
    <3>4. test # "pose"
      BY <3>2, <3>3 DEF RestInv, ConnectionInv, AskedBy
    <3>5. reply'[Tester] = "pending"
      BY <2>2, Bounds DEF Retry, RestInv, DemosInv, TypeOK
    <3> QED BY <3>4, <3>5
  <2>3. CASE Retry(t) /\ t # Tester
    <3>1. reply' = [reply EXCEPT ![t] = "pending"]
      BY <2>3 DEF Retry
    <3> QED BY <2>0, <2>3, <3>1
  <2> QED BY <2>1, <2>2, <2>3
<1> QED BY <1>1, <1>2, AsideSound DEF RestInv, ArmInv

(* A task other than that of the test sends a request or goes on.          *)
LEMMA OtherTaskRests ==
  ASSUME RestInv, Watched, UNCHANGED <<moving, done, stuck, test, pose>>, NEW t \in Tasks \ {Tester},
         \/ \E r \in Request, s \in DOMAIN Attempts : Ask(t, r, s)
         \/ \E s \in {"idle", "check", "wait"} : Goto(t, s)
         \/ UNCHANGED <<step, asked, reply>>
  PROVE  ArmTypes' /\ ConnectionInv' /\ ArmInv'
<1>1. step'[Tester] = step[Tester] /\ asked'[Tester] = asked[Tester]
      /\ reply'[Tester] = reply[Tester]
  BY Bounds DEF Ask, Goto, RestInv, DemosInv, TypeOK
<1> QED BY <1>1, AsideSound DEF RestInv, ArmInv

LEMMA OperatorRests ==
  ASSUME RestInv, Watched, UNCHANGED <<test, pose>>, NEW c \in Clients \ {Tester},
         Operator(c) \/ Answered(c)
  PROVE  ArmTypes' /\ ConnectionInv' /\ ArmInv'
<1>1. UNCHANGED <<moving, done, stuck>>
  BY DEF Operator, Enable, Stop, OtherCommand, StopDemo, StartDemo, Answered, Probed, SafeDone,
         EnableDone, RecoveryStep, SequenceDone, CommandDone, robot
<1>2. c \in Tasks \ {Tester} /\ "demo" \in Tasks \ {Tester} /\ demoId \in 0 .. MaxDemos
  BY Bounds DEF RestInv, DemosInv, TypeOK
<1>3. \A cmd \in {"STATUS?", "SAFE", "ENABLE", "AUTO_HOME"} \cup Commands : For(c, cmd) \in Request
  BY <1>2, ForIs, WsUartAssumption DEF WsUartAssumption, Moves
<1>4. \A n \in 0 .. MaxDemos : /\ [by |-> c, demo |-> n, cmd |-> "STOP"] \in Request
                               /\ [by |-> c, demo |-> n, cmd |-> "HOLD"] \in Request
  BY <1>2 DEF Request, Moves
<1>5. {"probe", "safe", "enable", "autohome", "hold", "send"} \subseteq DOMAIN Attempts
  BY Steps
<1>6. \/ \E r \in Request, s \in DOMAIN Attempts : Ask(c, r, s)
      \/ Goto(c, "idle")
      \/ Goto("demo", "check")
      \/ UNCHANGED <<step, asked, reply>>
  <2>1. CASE Enable(c) \/ OtherCommand(c)
    BY <1>3, <1>5, <2>1 DEF Enable, OtherCommand
  <2>2. CASE Stop(c)
    <3>1. PICK n \in 0 .. MaxDemos : Ask(c, [by |-> c, demo |-> n, cmd |-> "STOP"], "send")
      BY <1>2, <2>2, Bounds DEF Stop
    <3> QED BY <1>4, <1>5, <3>1
  <2>3. CASE StopDemo(c)
    BY <1>2, <1>4, <1>5, <2>3 DEF StopDemo, tasks
  <2>4. CASE StartDemo(c)
    BY <2>4 DEF StartDemo
  <2>5. CASE Answered(c)
    BY <1>3, <1>5, <2>5 DEF Answered, Probed, SafeDone, EnableDone, RecoveryStep, SequenceDone,
                            CommandDone
  <2> QED BY <2>1, <2>2, <2>3, <2>4, <2>5 DEF Operator
<1> QED BY <1>1, <1>2, <1>6, OtherTaskRests

LEMMA DemoRests ==
  ASSUME RestInv, Watched, UNCHANGED <<test, pose>>, SendDeferred \/ Demo \/ DemoTimesOut
  PROVE  ArmTypes' /\ ConnectionInv' /\ ArmInv'
<1>1. UNCHANGED <<moving, done, stuck>>
  BY DEF SendDeferred, Demo, DemoCheck, DemoSent, DemoWakes, DemoTimesOut, robot
<1>2. "demo" \in Tasks \ {Tester} /\ demoId \in 0 .. MaxDemos /\ "demo" \in DOMAIN Attempts
  BY Bounds, Steps DEF RestInv, DemosInv, TypeOK
<1>3. [by |-> "demo", demo |-> demoId, cmd |-> "DEMO"] \in Request
  BY <1>2 DEF Request, Moves
<1>4. \/ \E r \in Request, s \in DOMAIN Attempts : Ask("demo", r, s)
      \/ \E s \in {"idle", "check", "wait"} : Goto("demo", s)
      \/ UNCHANGED <<step, asked, reply>>
  BY <1>2, <1>3 DEF SendDeferred, Demo, DemoCheck, DemoSent, DemoWakes, DemoTimesOut, tasks
<1> QED BY <1>1, <1>2, <1>4, OtherTaskRests

LEMMA RobotRests ==
  ASSUME RestInv, Watched, UNCHANGED <<test, pose>>, TrajectoryEnds \/ FirmwareStops
  PROVE  ArmTypes' /\ ConnectionInv' /\ ArmInv'
<1>1. ArmTypes /\ ArmInv /\ MotionInv /\ UNCHANGED <<stuck, step, asked, reply>>
  BY DEF RestInv, ArmInv, DemosInv, SelfTestTypeOK, ArmTypes, TrajectoryEnds, FirmwareStops,
         uart, tasks
<1>2. ConnectionInv'
  BY <1>1 DEF RestInv, ConnectionInv, AskedBy
<1>3. CASE test \notin Axis
  BY <1>3, LeavesAxis DEF RestInv, ArmInv, PoseInv
<1>4. CASE test \in Axis /\ TrajectoryEnds
  <2>1. Lands /\ done = "none"
    BY <1>1, <1>4 DEF TrajectoryEnds, Lands, MotionInv
  <2> QED BY <1>1, <1>2, <1>4, <2>1, LandsSound
<1>5. CASE test \in Axis /\ FirmwareStops
  <2>1. ~Lands /\ ~Starts /\ done' = done
    BY <1>5 DEF FirmwareStops, Lands, Starts
  <2>2. Ok(Tester)' <=> Ok(Tester)
    BY <1>1 DEF Ok
  <2> QED BY <1>1, <1>2, <1>5, <2>1, <2>2, StaysSound
<1> QED BY <1>3, <1>4, <1>5

(* A command is served: if it is the one that the test waits for, the      *)
(* dispatcher has come round since the last trajectory ended.              *)
LEMMA ServeRests ==
  ASSUME RestInv, Watched, UNCHANGED <<test, pose>>, Serve \/ ServeLost
  PROVE  ArmTypes' /\ ConnectionInv' /\ ArmInv'
<1>1. ArmTypes /\ ArmInv /\ DemosInv /\ UNCHANGED <<step, asked>>
  BY DEF RestInv, ArmInv, SelfTestTypeOK, ArmTypes, Serve, ServeLost
<1>2. ConnectionInv'
  BY <1>1 DEF RestInv, ConnectionInv, AskedBy
<1>3. CASE test \notin Axis
  BY <1>3, LeavesAxis DEF RestInv, ArmInv, PoseInv
<1>4. CASE test \in Axis
  <2>1. /\ ~stuck /\ queue # <<>> /\ Head(queue) = queue[1] /\ 1 \in DOMAIN queue
        /\ ~Lands /\ (Starts => moving' = Head(queue) /\ Head(queue).cmd \in Moves /\ fsm' = "IDLE")
    BY <1>1, ServedMoves, TailIs, DemosTypes DEF Serve, ServeLost
  <2>2. Head(queue).by = Tester => reply[Tester] = "pending" /\ asked[Tester] = Head(queue)
    BY <1>1, <2>1, Bounds DEF DemosInv, QueueInv
  <2>3. test = "safe" /\ Starts => moving'.by # Tester
    <3>1. SUFFICES ASSUME test = "safe", Starts, moving'.by = Tester PROVE FALSE
      OBVIOUS
    <3>2. reply[Tester] = "pending" /\ asked[Tester].cmd \in Moves
      BY <2>1, <2>2, <3>1
    <3>3. step[Tester] # "idle"
      BY <1>1, <3>2, Bounds, Steps DEF DemosInv, TaskInv
    <3> QED BY <3>1, <3>2, <3>3 DEF RestInv, ConnectionInv, AskedBy, Moves
  <2>4. done' = done \/ MainLoopTurns
    BY DEF Serve, ServeLost, robot
  <2>5. (done' # "none" => done # "none") /\ (done' = "new" => done = "new")
    BY <2>4 DEF MainLoopTurns
  <2>6. \/ stuck' = TRUE /\ reply' = reply
        \/ /\ Head(queue).by # Tester \/ reply'[Tester] \notin {"none", "pending"}
           /\ Head(queue).by = Tester \/ reply'[Tester] = reply[Tester]
    BY <1>1, Bounds DEF Serve, ServeLost, DemosInv, TypeOK, Fsm
  <2>7. Ok(Tester)' /\ ~Ok(Tester) => Head(queue).by = Tester /\ MainLoopTurns
    BY <1>1, <2>1, Bounds DEF Ok, Serve, ServeLost, DemosInv, TypeOK, Fsm
  <2>8. Ok(Tester)' => \/ Ok(Tester)
                       \/ /\ done' # "new" /\ (done' # "none" => done = "new")
                          /\ test = "pose" => reply[Tester] = "pending" /\ ~stuck
    BY <1>1, <2>1, <2>2, <2>7 DEF MainLoopTurns, DemosInv, TypeOK
  <2>9. test = "pose" /\ reply'[Tester] \in {"none", "pending"} /\ ~stuck' =>
           /\ reply[Tester] \in {"none", "pending"} /\ ~stuck
           /\ Starts => moving'.by # Tester
    BY <2>1, <2>2, <2>6
  <2> QED BY <1>1, <1>2, <1>4, <2>1, <2>3, <2>5, <2>8, <2>9, StaysSound
<1> QED BY <1>3, <1>4

LEMMA OthersRest ==
  ASSUME RestInv, OthersNext, Watched
  PROVE  TestTypes' /\ ArmTypes' /\ ConnectionInv' /\ ArmInv'
<1>1. UNCHANGED <<test, pose, tests>>
  BY DEF OthersNext, testVars
<1>2. TestTypes'
  BY <1>1 DEF TestTypes, RestInv, SelfTestTypeOK
<1>3. ArmTypes' /\ ConnectionInv' /\ ArmInv'
  <2>1. CASE \E t \in Tasks : Retry(t) \/ GiveUp(t)
    BY <1>1, <2>1, CallerRests
  <2>2. CASE \E c \in Clients \ {Tester} : Operator(c) \/ Answered(c)
    BY <1>1, <2>2, OperatorRests
  <2>3. CASE test = "off"
    BY <1>1, <2>3, LeavesAxis, Positions DEF RestInv, ArmInv, PoseInv
  <2>4. CASE Serve \/ ServeLost
    BY <1>1, <2>4, ServeRests
  <2>5. CASE TrajectoryEnds \/ FirmwareStops
    BY <1>1, <2>5, RobotRests
  <2>6. CASE SendDeferred \/ Demo \/ DemoTimesOut
    BY <1>1, <2>6, DemoRests
  <2> QED BY <2>1, <2>2, <2>3, <2>4, <2>5, <2>6 DEF OthersNext
<1> QED BY <1>2, <1>3

(* The test itself.                                                        *)
LEMMA SendsRest ==
  ASSUME RestInv, Sends, Watched
  PROVE  TestTypes' /\ ArmTypes' /\ ConnectionInv' /\ ArmInv'
<1>1. UNCHANGED <<moving, done, stuck, test, pose, tests>>
  BY DEF Sends, robot, testVars
<1>2. TestTypes'
  BY <1>1 DEF TestTypes, RestInv, SelfTestTypeOK
<1>3. CASE test \notin Axis
  BY <1>1, <1>2, <1>3, LeavesAxis DEF RestInv, ArmInv, PoseInv
<1>4. CASE test \in Axis
  <2>1. /\ test \in DOMAIN AxisCommand
        /\ Ask(Tester, For(Tester, AxisCommand[test]), IF test = "enable" THEN "probe" ELSE "send")
    BY <1>4, Positions DEF Sends
  <2>2. step \in [Tasks -> DOMAIN Attempts \cup {"idle", "check", "wait"}] /\ Tester \in Tasks
        /\ asked \in [Tasks -> Request \cup {NoRequest}]
        /\ reply \in [Tasks -> Fsm \cup {"none", "pending", "OK", "ERR", "TIMEOUT"}]
    BY Bounds DEF RestInv, DemosInv, TypeOK
  <2>3. /\ asked'[Tester].cmd = AxisCommand[test] /\ reply'[Tester] = "pending"
        /\ step'[Tester] = IF test = "enable" THEN "probe" ELSE "send"
    BY <2>1, <2>2 DEF Ask, For
  <2>4. ConnectionInv'
    BY <1>1, <2>1, <2>3, Positions DEF ConnectionInv, AskedBy, AxisCommand, Resting
  <2>5. ~Ok(Tester)'
    BY <2>3 DEF Ok, Fsm
  <2>6. step[Tester] = "idle" => reply[Tester] = "none"
    BY <2>2, Steps DEF RestInv, DemosInv, TaskInv
  <2>7. ArmTypes /\ ArmInv /\ ~Lands /\ ~Starts
    BY <1>1 DEF RestInv, SelfTestTypeOK, ArmTypes, ArmInv, Lands, Starts
  <2>8. step[Tester] = "idle"
    BY DEF Sends
  <2> QED BY <1>1, <1>2, <1>4, <2>4, <2>5, <2>6, <2>7, <2>8, StaysSound
<1> QED BY <1>3, <1>4

(* A step to another position of the axis test, at the same pose.          *)
LEMMA ChangesPosition ==
  ASSUME RestInv, Watched, UNCHANGED <<moving, pose>>,
         test \in Axis, test' \in Axis \ {"safe"},
         test' \in {"enable", "home", "homeDone", "zero"} => pose = 0,
         test = "safe" => test' = "enable"
  PROVE  /\ ArmTypes' /\ PoseInv' /\ AloneInv'
         /\ \/ ~Alone'
            \/ test = "safe"
            \/ Alone /\ (AtPose' <=> AtPose)
<1>1. ArmTypes /\ PoseInv /\ ~Starts /\ ~Lands
  BY DEF RestInv, SelfTestTypeOK, ArmTypes, Starts, Lands
<1>2. ArmTypes' /\ (\/ Forgotten
                    \/ \E p \in {place, Elsewhere} : Known(aim, p) /\ (p = pose <=> AtPose))
  BY <1>1, WatchedStill
<1>3. PoseInv'
  BY <1>1, <1>2, Positions DEF PoseInv, Forgotten, Known
<1>4. CASE Forgotten
  BY <1>2, <1>3, <1>4 DEF Forgotten, Alone, AloneInv
<1>5. CASE ~Forgotten /\ test # "safe"
  <2>1. Alone /\ (AtPose' <=> AtPose) /\ aim' = aim
    BY <1>2, <1>5 DEF Known, Alone, AtPose
  <2> QED BY <1>2, <1>3, <2>1 DEF RestInv, AloneInv
<1>6. CASE ~Forgotten /\ test = "safe"
  <2>1. moving = NoRequest
    BY <1>6 DEF Watched, Upset, Forgotten
  <2> QED BY <1>2, <1>3, <1>6, <2>1 DEF AloneInv
<1> QED BY <1>4, <1>5, <1>6

(* What the answer to a command of the test leaves of its task.            *)
LEMMA AnsweredTask ==
  ASSUME DemosInv, Answered(Tester)
  PROVE  /\ UNCHANGED <<moving, done, stuck>> /\ step[Tester] # "idle"
         /\ \/ step'[Tester] = "idle" /\ reply'[Tester] = "none"
            \/ step'[Tester] # "idle" /\ reply'[Tester] = "pending" /\ step[Tester] # "send"
<1>1. /\ Tester \in Tasks
      /\ step \in [Tasks -> DOMAIN Attempts \cup {"idle", "check", "wait"}]
      /\ reply \in [Tasks -> Fsm \cup {"none", "pending", "OK", "ERR", "TIMEOUT"}]
  BY Bounds DEF DemosInv, TypeOK
<1>2. UNCHANGED <<moving, done, stuck>> /\ step[Tester] # "idle"
  BY DEF Answered, Probed, SafeDone, EnableDone, RecoveryStep, SequenceDone, CommandDone, robot
<1>3. CASE Goto(Tester, "idle")
  BY <1>1, <1>2, <1>3 DEF Goto
<1> DEFINE AsksAgain == \E cmd \in {"SAFE", "ENABLE", "AUTO_HOME"},
                           s \in {"safe", "send", "enable", "autohome"} :
                             Ask(Tester, For(Tester, cmd), s)
<1>4. CASE step[Tester] # "send" /\ AsksAgain
  BY <1>1, <1>2, <1>4 DEF Ask
<1>5. Goto(Tester, "idle") \/ (step[Tester] # "send" /\ AsksAgain)
  BY DEF Answered, Probed, SafeDone, EnableDone, RecoveryStep, SequenceDone, CommandDone
<1> QED BY <1>3, <1>4, <1>5

LEMMA AxisAnsweredRests ==
  ASSUME RestInv, AxisAnswered, Watched
  PROVE  TestTypes' /\ ArmTypes' /\ ConnectionInv' /\ ArmInv'
<1>1. /\ UNCHANGED <<moving, done, stuck>> /\ step[Tester] # "idle"
      /\ \/ step'[Tester] = "idle" /\ reply'[Tester] = "none"
         \/ step'[Tester] # "idle" /\ reply'[Tester] = "pending" /\ step[Tester] # "send"
  BY AnsweredTask DEF RestInv, AxisAnswered
<1>2. /\ ArmTypes /\ ArmInv /\ PoseInv /\ TestTypes /\ tests' = tests
      /\ pose' = IF test' = "off" THEN 0 ELSE pose
  BY DEF RestInv, SelfTestTypeOK, TestTypes, ArmTypes, ArmInv, AxisAnswered, SamePose
<1>3. test \notin DOMAIN AxisCommand => test \notin Axis
  BY <1>1, Positions DEF RestInv, ConnectionInv, Resting
<1>4. CASE test' = test /\ test \notin Axis
  <2>1. test' = "off" => pose' = 0
    BY <1>2
  <2>2. TestTypes'
    BY <1>2, <1>4, TestBounds DEF TestTypes
  <2> QED BY <1>4, <2>1, <2>2, LeavesAxis DEF ArmInv
<1>5. CASE test' = "off"
  <2>1. TestTypes' /\ pose' = 0 /\ test' \notin Axis
    BY <1>2, <1>5, TestBounds, Positions DEF TestTypes
  <2> QED BY <1>5, <2>1, LeavesAxis DEF ArmInv
<1>6. CASE test' = test /\ test \in DOMAIN AxisCommand /\ step'[Tester] # "idle"
  <2>1. test = "enable"
    BY <1>1, <1>6, Positions DEF RestInv, ConnectionInv, AskedBy
  <2>2. pose' = pose /\ TestTypes' /\ ConnectionInv'
    BY <1>2, <1>6, <2>1 DEF TestTypes, ConnectionInv, Resting
  <2>3. ~Ok(Tester)' /\ ~Lands /\ ~Starts
    BY <1>1, <1>6 DEF Ok, Fsm, Lands, Starts
  <2> QED BY <1>1, <1>2, <1>6, <2>1, <2>2, <2>3, StaysSound, Positions
<1>7. CASE step'[Tester] = "idle" /\ test = "safe" /\ test' = "enable"
  <2>1. pose' = pose /\ pose = 0
    BY <1>2, <1>7 DEF PoseInv
  <2>2. TestTypes' /\ ConnectionInv'
    BY <1>2, <1>7, <2>1, Positions DEF TestTypes, ConnectionInv, Resting
  <2>3. ArmTypes' /\ PoseInv' /\ AloneInv'
    BY <1>1, <1>7, <2>1, ChangesPosition, Positions
  <2>4. DoneInv'
    BY <1>1, <1>7 DEF DoneInv, Ok, Resting, Fsm
  <2> QED BY <2>2, <2>3, <2>4 DEF ArmInv
<1>8. CASE /\ step'[Tester] = "idle" /\ Ok(Tester)
           /\ \/ test = "enable" /\ test' = "home"
              \/ test = "home" /\ test' = "homeDone"
              \/ test = "pose" /\ test' = "poseDone"
  <2>1. pose' = pose /\ (test' # "poseDone" => pose = 0)
    BY <1>2, <1>8 DEF PoseInv
  <2>2. TestTypes' /\ ConnectionInv'
    BY <1>2, <1>8, <2>1, Positions DEF TestTypes, ConnectionInv, Resting
  <2>3. ArmTypes' /\ PoseInv' /\ AloneInv' /\ (~Alone' \/ (Alone /\ (AtPose' <=> AtPose)))
    BY <1>1, <1>8, <2>1, ChangesPosition, Positions
  <2>4. ~Ok(Tester)'
    BY <1>1, <1>8 DEF Ok, Fsm
  <2>5. DoneInv'
    BY <1>1, <1>2, <1>8, <2>3, <2>4 DEF ArmInv, DoneInv, Resting
  <2> QED BY <2>2, <2>3, <2>5 DEF ArmInv
<1>9. \/ test' = test /\ test \notin Axis
      \/ test' = "off"
      \/ test' = test /\ test \in DOMAIN AxisCommand /\ step'[Tester] # "idle"
      \/ step'[Tester] = "idle" /\ test = "safe" /\ test' = "enable"
      \/ /\ step'[Tester] = "idle" /\ Ok(Tester)
         /\ \/ test = "enable" /\ test' = "home"
            \/ test = "home" /\ test' = "homeDone"
            \/ test = "pose" /\ test' = "poseDone"
  BY <1>3, Positions DEF AxisAnswered
<1> QED BY <1>4, <1>5, <1>6, <1>7, <1>8, <1>9

LEMMA DoneHeardRests ==
  ASSUME RestInv, DoneHeard, Watched
  PROVE  TestTypes' /\ ArmTypes' /\ ConnectionInv' /\ ArmInv'
<1>1. /\ UNCHANGED <<moving, stuck, step, asked, reply, pose, tests>>
      /\ done # "none" /\ done' = "none"
  BY DEF DoneHeard, SetposeDone, uart, tasks
<1>2. ArmTypes /\ ArmInv /\ PoseInv /\ TestTypes /\ ~Starts /\ ~Lands
  BY <1>1 DEF RestInv, SelfTestTypeOK, TestTypes, ArmTypes, ArmInv, Starts, Lands
<1>3. CASE test' = test
  <2>1. TestTypes' /\ ConnectionInv'
    BY <1>1, <1>2, <1>3 DEF TestTypes, RestInv, ConnectionInv, AskedBy
  <2>2. CASE test \notin Axis
    BY <1>1, <1>2, <1>3, <2>1, <2>2, LeavesAxis DEF ArmInv, PoseInv
  <2>3. CASE test \in Axis
    <3>1. Ok(Tester)' <=> Ok(Tester)
      BY <1>1 DEF Ok
    <3> QED BY <1>1, <1>2, <1>3, <2>1, <2>3, <3>1, StaysSound
  <2> QED BY <2>2, <2>3
<1>4. CASE \/ test = "homeDone" /\ test' = "zero"
           \/ test = "poseDone" /\ test' = "sample"
  <2>1. pose' = pose /\ (test' = "zero" => pose = 0)
    BY <1>1, <1>2, <1>4 DEF PoseInv
  <2>2. TestTypes' /\ ConnectionInv'
    BY <1>1, <1>2, <1>4, Positions DEF TestTypes, RestInv, ConnectionInv, Resting
  <2>3. ArmTypes' /\ PoseInv' /\ AloneInv' /\ (~Alone' \/ (Alone /\ (AtPose' <=> AtPose)))
    BY <1>1, <1>4, <2>1, ChangesPosition, Positions
  <2>4. DoneInv'
    BY <1>1, <1>2, <1>4, <2>3 DEF ArmInv, DoneInv
  <2> QED BY <2>2, <2>3, <2>4 DEF ArmInv
<1> QED BY <1>3, <1>4 DEF DoneHeard

(* Before the test samples, the pause has let its own motion end.          *)
LEMMA RestsThere ==
  ASSUME RestInv, Samples, ~upset
  PROVE  moving = NoRequest /\ place = pose
<1>1. Alone /\ AtPose
  BY Positions DEF RestInv, DoneInv, Alone, Samples, Resting
<1>2. ~(moving.by = Tester)
  BY <1>1 DEF Samples, AtPose
<1> QED BY <1>1, <1>2 DEF RestInv, AloneInv, AtPose

LEMMA SamplesRest ==
  ASSUME RestInv, Samples, Watched
  PROVE  TestTypes' /\ ArmTypes' /\ ConnectionInv' /\ ArmInv'
<1>1. /\ UNCHANGED vars /\ tests' = tests /\ done = "none" /\ test \in Resting
      /\ \/ test' = "pose" /\ pose' = 0
         \/ test' = "pose" /\ pose' = pose + 1 /\ pose < Poses
         \/ test' = "modalSafe" /\ pose' = 0
  BY DEF Samples
<1>2. /\ ArmTypes /\ PoseInv /\ TestTypes /\ ~Starts /\ ~Lands /\ test \in Axis
      /\ pose \in 0 .. Poses
  BY <1>1, Positions DEF RestInv, SelfTestTypeOK, TestTypes, ArmTypes, Starts, Lands, vars,
                         Resting, PoseInv
<1>3. pose' \in 0 .. Poses
  BY <1>1, <1>2, TestBounds
<1>4. TestTypes'
  BY <1>1, <1>2, <1>3, Positions DEF TestTypes
<1>5. CASE test' = "modalSafe"
  BY <1>4, <1>5, LeavesAxis, Positions DEF ArmInv
<1>6. CASE test' = "pose"
  <2>1. step[Tester] = "idle" /\ UNCHANGED <<moving, done, stuck, step, reply>>
    BY <1>1 DEF RestInv, ConnectionInv, vars
  <2>2. reply[Tester] = "none"
    BY <2>1, Bounds, Steps DEF RestInv, DemosInv, TaskInv
  <2>3. ConnectionInv'
    BY <1>6, <2>1 DEF ConnectionInv, Resting
  <2>4. ArmTypes' /\ (\/ Forgotten
                      \/ \E p \in {place, Elsewhere} : Known(aim, p) /\ (p = pose <=> AtPose))
    BY <1>2, <1>6, WatchedStill, Positions
  <2>5. PoseInv'
    BY <1>3, <1>6, <2>4, Positions DEF PoseInv, Forgotten, Known
  <2>6. CASE Forgotten
    BY <1>4, <2>3, <2>4, <2>5, <2>6 DEF Forgotten, Alone, AloneInv, DoneInv, ArmInv
  <2>7. CASE ~upset
    <3>1. moving' = NoRequest /\ done' = "none" /\ ~Ok(Tester)'
      BY <1>1, <2>1, <2>2, <2>7, RestsThere DEF Ok, Fsm
    <3>2. AloneInv' /\ DoneInv'
      BY <1>6, <3>1 DEF AloneInv, DoneInv, Resting
    <3> QED BY <1>4, <2>3, <2>4, <2>5, <3>2 DEF ArmInv
  <2> QED BY <2>4, <2>6, <2>7 DEF Known
<1> QED BY <1>1, <1>5, <1>6

LEMMA StartRests ==
  ASSUME RestInv, Start, Watched
  PROVE  TestTypes' /\ ArmTypes' /\ ConnectionInv' /\ ArmInv'
<1>1. /\ UNCHANGED vars /\ pose' = pose /\ test = "off" /\ test' = "safe" /\ step[Tester] = "idle"
      /\ tests < MaxTests /\ tests' = tests + 1
  BY DEF Start
<1>2. /\ TestTypes /\ ~Starts /\ pose = 0 /\ upset = FALSE
      /\ aim = Elsewhere /\ place = Elsewhere
  BY <1>1, Positions DEF RestInv, SelfTestTypeOK, TestTypes, Starts, vars, PoseInv
<1>3. TestTypes'
  BY <1>1, <1>2, TestBounds, Positions DEF TestTypes
<1>4. ConnectionInv'
  BY <1>1 DEF ConnectionInv, Resting, vars
<1>5. upset' = FALSE /\ aim' = Elsewhere /\ place' = Elsewhere
  <2>1. ~Lands /\ place # pose
    BY <1>1, <1>2, TestBounds DEF Lands, vars
  <2>2. ~Upset
    BY <1>1, <1>2, <2>1 DEF Upset
  <2> QED BY <1>1, <1>2, <2>1, <2>2, Positions DEF Watched
<1>6. ArmTypes' /\ PoseInv'
  BY <1>1, <1>2, <1>5, TestBounds DEF ArmTypes, PoseInv
<1>7. ~Alone'
  BY <1>1 DEF Alone
<1> QED BY <1>3, <1>4, <1>6, <1>7 DEF ArmInv, AloneInv, DoneInv

(* The axis test ends, or the modal test goes on.                          *)
LEMMA EndsRest ==
  ASSUME RestInv, ModalAnswered \/ DoneMissing \/ TelemetryMissing, Watched
  PROVE  TestTypes' /\ ArmTypes' /\ ConnectionInv' /\ ArmInv'
<1>1. TestTypes /\ tests' = tests
  BY DEF RestInv, SelfTestTypeOK, TestTypes, ModalAnswered, DoneMissing, TelemetryMissing
<1>2. test' \in {"off", "modalEnable", "modalHome", "out", "back"}
  BY DEF ModalAnswered, DoneMissing, TelemetryMissing
<1>3. \/ pose' = IF test' = "off" THEN 0 ELSE pose
      \/ test' = "out" /\ pose' = pose + 1 /\ pose < Wrists
  BY DEF ModalAnswered, DoneMissing, TelemetryMissing, SamePose
<1>4. test' = "off" => pose' = 0
  BY <1>3
<1>5. TestTypes'
  BY <1>1, <1>2, <1>3, TestBounds, Positions DEF TestTypes
<1> QED BY <1>2, <1>4, <1>5, LeavesAxis, Positions DEF ArmInv

LEMMA RestStep ==
  ASSUME RestInv, [SelfTestNext]_allVars
  PROVE  RestInv'
<1>1. DemosInv'
  BY DemosStep DEF RestInv
<1>2. CASE SelfTestNext
  <2>1. TestTypes' /\ ArmTypes' /\ ConnectionInv' /\ ArmInv'
    BY <1>2, OthersRest, SendsRest, AxisAnsweredRests, DoneHeardRests, SamplesRest, StartRests,
       EndsRest DEF SelfTestNext, TestNext
  <2> QED BY <1>1, <2>1, SelfTestNextTypes DEF RestInv, ArmInv, DemosInv
<1>3. CASE UNCHANGED allVars
  <2>1. UNCHANGED <<moving, done, stuck, step, asked, reply, test, pose, tests, aim, place, upset>>
    BY <1>3 DEF allVars, vars, testVars, arm
  <2>2. SelfTestTypeOK'
    BY <1>1, <2>1 DEF RestInv, DemosInv, SelfTestTypeOK
  <2>3. ConnectionInv' /\ PoseInv' /\ AloneInv'
    BY <2>1 DEF RestInv, ConnectionInv, AskedBy, PoseInv, AloneInv, Alone
  <2>4. DoneInv'
    BY <2>1 DEF RestInv, DoneInv, Alone, AtPose, Ok
  <2> QED BY <1>1, <2>2, <2>3, <2>4 DEF RestInv
<1> QED BY <1>2, <1>3

LEMMA RestInit == SelfTestInit => RestInv
<1> SUFFICES ASSUME SelfTestInit PROVE RestInv
  OBVIOUS
<1>1. DemosInv
  BY DemosInit
<1>2. /\ test = "off" /\ pose = 0 /\ tests = 0
      /\ aim = Elsewhere /\ place = Elsewhere /\ upset = FALSE
  BY DEF SelfTestInit
<1>3. SelfTestTypeOK
  <2>1. TypeOK
    BY <1>1 DEF DemosInv
  <2>2. TestTypes /\ ArmTypes
    <3>1. tests \in 0 .. MaxTests /\ pose \in 0 .. Poses
      BY <1>2, TestBounds
    <3> QED BY <1>2, <3>1, TestBounds DEF TestTypes, ArmTypes
  <2> QED BY <2>1, <2>2, SelfTestParts
<1>4. ConnectionInv /\ PoseInv
  BY <1>2, Positions DEF ConnectionInv, PoseInv, Resting
<1>5. ~Alone
  BY <1>2, Positions DEF Alone
<1> QED BY <1>1, <1>3, <1>4, <1>5 DEF RestInv, AloneInv, DoneInv

(* The inductive invariant of the self test beside the operators, and with *)
(* it the types, for any number of operators, poses, tests and faults.     *)
THEOREM RestInductive == SelfTestSpec => []RestInv
<1>1. RestInv /\ [SelfTestNext]_allVars => RestInv'
  BY RestStep
<1> QED BY RestInit, <1>1, PTL DEF SelfTestSpec

THEOREM SelfTestTypes == SelfTestSpec => []SelfTestTypeOK
<1>1. RestInv => SelfTestTypeOK
  BY DEF RestInv
<1> QED BY RestInductive, <1>1, PTL

(* What the axis test samples is the arm at rest in the pose it commanded, *)
(* unless somebody else moved it, or stopped it under the test's eyes,     *)
(* although any SETPOSE_DONE counts as the test's own.                     *)
THEOREM SampledArmRests == SelfTestSpec => SampledAtRest
<1>1. RestInv /\ [SelfTestNext]_allVars
        => [Samples /\ ~upset => moving = NoRequest /\ place = pose]_allVars
  BY RestsThere
<1> QED BY RestInductive, <1>1, PTL DEF SelfTestSpec, SampledAtRest
=============================================================================
