------------------------- MODULE ServerConfigProofs -------------------------
(***************************************************************************)
(* Proofs about ServerConfig, for every set of pages and threads, every    *)
(* combination of faults and all bounds on changes, faults and polls.      *)
(***************************************************************************)
EXTENDS ServerConfig, TLAPS, SequenceTheorems

USE ServerConfigAssumption DEF ServerConfigAssumption

(***************************************************************************)
(* The last element of a sequence that belongs to a set, as the sequence   *)
(* grows at its end and shrinks at its head.                               *)
(***************************************************************************)

(* An element is the last of its kind.                                     *)
LEMMA LastIs ==
  ASSUME NEW X, NEW s \in Seq(X), NEW S, NEW e
  PROVE  e \in LastIn(s, S) <=>
           \E i \in DOMAIN s : /\ e = s[i] /\ s[i] \in S
                               /\ \A j \in DOMAIN s : s[j] \in S => j <= i
BY DEF LastIn

LEMMA NoneNoLast ==
  ASSUME NEW X, NEW s \in Seq(X), NEW S, NoneIn(s, S)
  PROVE  LastIn(s, S) = {}
BY DEF LastIn, NoneIn

LEMMA Nothing ==
  ASSUME NEW S
  PROVE  NoneIn(<<>>, S) /\ LastIn(<<>>, S) = {}
BY DEF LastIn, NoneIn

(* Only the membership of the elements that are in the sequence counts.    *)
LEMMA LastSame ==
  ASSUME NEW X, NEW s \in Seq(X), NEW r \in Seq(X), NEW S, NEW T, Len(s) = Len(r),
         \A i \in DOMAIN s : \/ s[i] = r[i] /\ (s[i] \in S <=> r[i] \in T)
                             \/ s[i] \notin S /\ r[i] \notin T
  PROVE  LastIn(s, S) = LastIn(r, T) /\ (NoneIn(s, S) <=> NoneIn(r, T))
<1>1. DOMAIN s = DOMAIN r
  OBVIOUS
<1>2. \A i \in DOMAIN s : s[i] \in S <=> r[i] \in T
  OBVIOUS
<1>3. ASSUME NEW e, NEW i \in DOMAIN s, e = s[i], s[i] \in S,
             \A j \in DOMAIN s : s[j] \in S => j <= i
      PROVE  e \in LastIn(r, T)
  BY <1>1, <1>2, <1>3, LastIs
<1>4. ASSUME NEW e, NEW i \in DOMAIN r, e = r[i], r[i] \in T,
             \A j \in DOMAIN r : r[j] \in T => j <= i
      PROVE  e \in LastIn(s, S)
  BY <1>1, <1>2, <1>4, LastIs
<1>5. \A e : e \in LastIn(s, S) <=> e \in LastIn(r, T)
  BY <1>3, <1>4, LastIs
<1>6. LastIn(s, S) = LastIn(r, T)
  BY <1>5
<1> QED BY <1>1, <1>2, <1>6 DEF NoneIn

LEMMA LastAppendElse ==
  ASSUME NEW X, NEW s \in Seq(X), NEW e \in X, NEW S, e \notin S
  PROVE  /\ LastIn(Append(s, e), S) = LastIn(s, S)
         /\ NoneIn(Append(s, e), S) <=> NoneIn(s, S)
<1> DEFINE r == Append(s, e)
<1>1. /\ r \in Seq(X) /\ DOMAIN s = 1 .. Len(s) /\ Len(s) \in Nat
      /\ DOMAIN r = 1 .. Len(s) + 1
      /\ \A i \in 1 .. Len(s) : r[i] = s[i]
      /\ r[Len(s) + 1] = e
  BY AppendProperties
<1> HIDE DEF r
<1>2. ASSUME NEW f PROVE f \in LastIn(r, S) <=> f \in LastIn(s, S)
  <2>1. ASSUME f \in LastIn(r, S) PROVE f \in LastIn(s, S)
    <3>1. PICK i \in DOMAIN r : /\ f = r[i] /\ r[i] \in S
                                /\ \A j \in DOMAIN r : r[j] \in S => j <= i
      BY <1>1, <2>1, LastIs
    <3>2. i \in 1 .. Len(s)
      BY <1>1, <3>1
    <3> QED BY <1>1, <3>1, <3>2, LastIs
  <2>2. ASSUME f \in LastIn(s, S) PROVE f \in LastIn(r, S)
    <3>1. PICK i \in DOMAIN s : /\ f = s[i] /\ s[i] \in S
                                /\ \A j \in DOMAIN s : s[j] \in S => j <= i
      BY <2>1, <2>2, LastIs
    <3>2. i \in DOMAIN r /\ r[i] = s[i]
      BY <1>1
    <3>3. \A j \in DOMAIN r : r[j] \in S => j <= i
      BY <1>1, <3>1
    <3> QED BY <1>1, <3>1, <3>2, <3>3, LastIs
  <2> QED BY <2>1, <2>2
<1>3. NoneIn(r, S) <=> NoneIn(s, S)
  BY <1>1 DEF NoneIn
<1> QED BY <1>2, <1>3 DEF r

LEMMA LastAppendThis ==
  ASSUME NEW X, NEW s \in Seq(X), NEW e \in X, NEW S, e \in S
  PROVE  LastIn(Append(s, e), S) = {e} /\ ~NoneIn(Append(s, e), S)
<1> DEFINE r == Append(s, e)
<1>1. /\ r \in Seq(X) /\ Len(s) \in Nat
      /\ DOMAIN r = 1 .. Len(s) + 1
      /\ r[Len(s) + 1] = e
  BY AppendProperties
<1> HIDE DEF r
<1>2. ASSUME NEW f PROVE f \in LastIn(r, S) <=> f = e
  <2>1. ASSUME f \in LastIn(r, S) PROVE f = e
    <3>1. PICK i \in DOMAIN r : /\ f = r[i] /\ r[i] \in S
                                /\ \A j \in DOMAIN r : r[j] \in S => j <= i
      BY <1>1, <2>1, LastIs
    <3>2. i = Len(s) + 1
      BY <1>1, <3>1
    <3> QED BY <1>1, <3>1, <3>2
  <2>2. ASSUME f = e PROVE f \in LastIn(r, S)
    <3>1. Len(s) + 1 \in DOMAIN r /\ f = r[Len(s) + 1] /\ r[Len(s) + 1] \in S
      BY <1>1, <2>2
    <3>2. \A j \in DOMAIN r : r[j] \in S => j <= Len(s) + 1
      BY <1>1
    <3> QED BY <1>1, <3>1, <3>2, LastIs
  <2> QED BY <2>1, <2>2
<1>3. ~NoneIn(r, S)
  BY <1>1 DEF NoneIn
<1> QED BY <1>2, <1>3 DEF r

(* The rest of a sequence keeps the last element, unless that was its head *)
(* and nothing is left.                                                    *)
LEMMA LastTail ==
  ASSUME NEW X, NEW s \in Seq(X), s # <<>>, NEW S
  PROVE  /\ Head(s) \notin S => (NoneIn(Tail(s), S) <=> NoneIn(s, S))
         /\ LastIn(Tail(s), S) = IF NoneIn(Tail(s), S) THEN {} ELSE LastIn(s, S)
         /\ NoneIn(Tail(s), S) =>
              LastIn(s, S) = IF Head(s) \in S THEN {Head(s)} ELSE {}
<1> DEFINE r == Tail(s)
<1>1. /\ r \in Seq(X) /\ Len(s) \in Nat \ {0}
      /\ DOMAIN s = 1 .. Len(s) /\ DOMAIN r = 1 .. Len(s) - 1
      /\ \A i \in 1 .. Len(s) - 1 : r[i] = s[i + 1]
      /\ Head(s) = s[1]
  BY HeadTailProperties, EmptySeq
<1> HIDE DEF r
<1>2. Head(s) \notin S => (NoneIn(r, S) <=> NoneIn(s, S))
  <2> SUFFICES ASSUME s[1] \notin S PROVE NoneIn(r, S) <=> NoneIn(s, S)
    BY <1>1
  <2>1. ASSUME NoneIn(r, S), NEW i \in DOMAIN s PROVE s[i] \notin S
    <3>1. CASE i = 1
      BY <3>1
    <3>2. CASE i # 1
      <4>1. i - 1 \in 1 .. Len(s) - 1 /\ (i - 1) + 1 = i
        BY <1>1, <3>2
      <4> QED BY <1>1, <2>1, <4>1 DEF NoneIn
    <3> QED BY <3>1, <3>2
  <2>2. ASSUME NoneIn(s, S), NEW i \in DOMAIN r PROVE r[i] \notin S
    <3>1. i + 1 \in DOMAIN s
      BY <1>1
    <3> QED BY <1>1, <2>2, <3>1 DEF NoneIn
  <2> QED BY <2>1, <2>2 DEF NoneIn
<1>3. CASE NoneIn(r, S)
  <2>1. LastIn(r, S) = {}
    BY <1>1, <1>3, NoneNoLast
  <2>2. \A i \in DOMAIN s : s[i] \in S => i = 1
    <3> SUFFICES ASSUME NEW i \in DOMAIN s, i # 1 PROVE s[i] \notin S
      OBVIOUS
    <3>1. i - 1 \in 1 .. Len(s) - 1 /\ (i - 1) + 1 = i
      BY <1>1
    <3> QED BY <1>1, <1>3, <3>1 DEF NoneIn
  <2>3. ASSUME NEW f PROVE f \in LastIn(s, S) <=> f = s[1] /\ s[1] \in S
    <3>1. 1 \in DOMAIN s
      BY <1>1
    <3>2. \A j \in DOMAIN s : s[j] \in S => j <= 1
      BY <2>2
    <3>3. ASSUME f \in LastIn(s, S) PROVE f = s[1] /\ s[1] \in S
      <4>1. PICK i \in DOMAIN s : f = s[i] /\ s[i] \in S
        BY <3>3, LastIs
      <4> QED BY <2>2, <4>1
    <3> QED BY <3>1, <3>2, <3>3, LastIs
  <2> QED BY <1>1, <1>2, <1>3, <2>1, <2>3 DEF r
<1>4. CASE ~NoneIn(r, S)
  <2>1. PICK k \in DOMAIN r : r[k] \in S
    BY <1>4 DEF NoneIn
  <2>2. ASSUME NEW f, f \in LastIn(r, S) PROVE f \in LastIn(s, S)
    <3>1. PICK i \in DOMAIN r : /\ f = r[i] /\ r[i] \in S
                                /\ \A j \in DOMAIN r : r[j] \in S => j <= i
      BY <1>1, <2>2, LastIs
    <3>2. i + 1 \in DOMAIN s /\ f = s[i + 1] /\ s[i + 1] \in S
      BY <1>1, <3>1
    <3>3. ASSUME NEW j \in DOMAIN s, s[j] \in S PROVE j <= i + 1
      <4>1. CASE j = 1
        BY <1>1, <4>1
      <4>2. CASE j # 1
        <5>1. j - 1 \in DOMAIN r /\ r[j - 1] = s[j]
          BY <1>1, <4>2
        <5> QED BY <1>1, <3>1, <3>3, <5>1
      <4> QED BY <4>1, <4>2
    <3> QED BY <3>2, <3>3, LastIs
  <2>3. ASSUME NEW f, f \in LastIn(s, S) PROVE f \in LastIn(r, S)
    <3>1. PICK i \in DOMAIN s : /\ f = s[i] /\ s[i] \in S
                                /\ \A j \in DOMAIN s : s[j] \in S => j <= i
      BY <2>3, LastIs
    <3>2. k + 1 \in DOMAIN s /\ s[k + 1] \in S
      BY <1>1, <2>1
    <3>3. k + 1 <= i
      BY <3>1, <3>2
    <3>4. i - 1 \in DOMAIN r /\ r[i - 1] = s[i]
      BY <1>1, <3>3
    <3>5. ASSUME NEW j \in DOMAIN r, r[j] \in S PROVE j <= i - 1
      <4>1. j + 1 \in DOMAIN s /\ s[j + 1] \in S
        BY <1>1, <3>5
      <4>2. j + 1 <= i
        BY <3>1, <4>1
      <4> QED BY <1>1, <4>2
    <3> QED BY <1>1, <3>1, <3>4, <3>5, LastIs
  <2>4. LastIn(r, S) = LastIn(s, S)
    BY <2>2, <2>3
  <2> QED BY <1>2, <1>4, <2>4 DEF r
<1> QED BY <1>3, <1>4

(***************************************************************************)
(* Types.                                                                  *)
(***************************************************************************)
TaskTypes ==
  /\ queue \in Seq(Request) /\ ready \in Seq(Tasks)
  /\ step \in [Tasks -> DOMAIN Attempts \cup {"idle", "timer", "booted"}]
  /\ asked \in [Tasks -> Request \cup {NoRequest}]
  /\ reply \in [Tasks -> {"none", "pending", "OK", "TIMEOUT"}]
  /\ tries \in [Tasks -> 0 .. 2]

HistoryTypes == doubt \subseteq Keys /\ unsure \in [Tasks -> SUBSET Keys]

OtherTypes ==
  /\ file \in [Settings -> Version] /\ fw \in [Keys -> Version]
  /\ version \in Version /\ saves \in 0 .. MaxSaves
  /\ post \in [Threads -> {Idle} \cup [parts : SUBSET Routing \ {{}}, val : Version,
                                     seen : [Routing -> Version], alone : BOOLEAN]]
  /\ up \in BOOLEAN /\ open \in BOOLEAN /\ bootApplied \in BOOLEAN
  /\ stuck \in BOOLEAN /\ held \in [Tasks -> Version]
  /\ failures \in 0 .. PollLimit /\ recent \in BOOLEAN
  /\ faults \in 0 .. MaxFaults /\ lossy \in BOOLEAN

LEMMA TypeParts == TypeOK <=> TaskTypes /\ HistoryTypes /\ OtherTypes
BY DEF TypeOK, TaskTypes, HistoryTypes, OtherTypes

LEMMA TypeNext == TaskTypes' /\ HistoryTypes' /\ OtherTypes' => TypeOK'
BY DEF TypeOK, TaskTypes, HistoryTypes, OtherTypes

LEMMA SomeTasks == "startup" \in Tasks /\ "boot" \in Tasks /\ "gone" \notin Tasks
BY DEF Tasks

LEMMA Zero == 0 \in Version /\ 1 \in Version /\ 0 \in 0 .. 2 /\ 1 \in 0 .. 2 /\ 2 \in 0 .. 2
BY DEF Version

LEMMA Steps ==
  /\ DOMAIN Attempts = {"offsets", "pose", "tuning", "limits", "pwm"}
  /\ DOMAIN KeyOf = DOMAIN Attempts
  /\ Attempts["offsets"] = 1 /\ Attempts["pose"] = 1 /\ Attempts["tuning"] = 3
  /\ Attempts["limits"] = 2 /\ Attempts["pwm"] = 1
  /\ KeyOf["offsets"] = "offsets" /\ KeyOf["pose"] = "other" /\ KeyOf["tuning"] = "tuning"
  /\ KeyOf["limits"] = "limits" /\ KeyOf["pwm"] = "pwm"
  /\ \A s \in DOMAIN Attempts : KeyOf[s] \in Keys \cup {"other"} /\ Attempts[s] \in 1 .. 3
BY DEF Attempts, KeyOf, Keys

LEMMA TypeInit == Init => TypeOK
<1> SUFFICES ASSUME Init PROVE TypeOK
  OBVIOUS
<1>1. TaskTypes
  BY EmptySeq, Zero DEF Init, TaskTypes
<1>2. HistoryTypes
  BY DEF Init, HistoryTypes
<1>3. OtherTypes
  <2>1. 0 \in 0 .. MaxSaves /\ 0 \in 0 .. PollLimit /\ 0 \in 0 .. MaxFaults
    OBVIOUS
  <2> QED BY <2>1, Zero DEF Init, OtherTypes
<1> QED BY <1>1, <1>2, <1>3, TypeParts

(* The queue after a request joins it.                                     *)
LEMMA EnqueueType ==
  ASSUME TypeOK, NEW r \in Request
  PROVE  Enqueue(r) \in Seq(Request)
BY AppendProperties DEF Enqueue, TypeOK

LEMMA NoLongerType ==
  ASSUME TypeOK, NEW t \in Tasks
  PROVE  NoLongerReady(t) \in Seq(Tasks)
BY HeadTailProperties DEF NoLongerReady, Resumes, TypeOK

LEMMA AskTypes ==
  ASSUME TypeOK, NEW t \in Tasks, NEW s \in DOMAIN Attempts, NEW val \in Version,
         Ask(t, s, KeyOf[s], val)
  PROVE  TaskTypes' /\ open' \in BOOLEAN
<1> DEFINE r == [by |-> t, key |-> KeyOf[s], val |-> val]
<1>1. r \in Request
  BY Steps DEF Request
<1>2. queue' \in Seq(Request)
  BY <1>1, EnqueueType DEF Ask
<1>3. ready' \in Seq(Tasks)
  BY NoLongerType DEF Ask
<1>4. /\ asked' = [asked EXCEPT ![t] = r] /\ reply' = [reply EXCEPT ![t] = "pending"]
      /\ tries' = [tries EXCEPT ![t] = 0] /\ step' = [step EXCEPT ![t] = s]
  BY DEF Ask
<1> QED BY <1>1, <1>2, <1>3, <1>4, Zero DEF Ask, TypeOK, TaskTypes

LEMMA EndTypes ==
  ASSUME TypeOK, NEW t \in Tasks, End(t)
  PROVE  TaskTypes' /\ HistoryTypes' /\ held' \in [Tasks -> Version]
<1>1. ready' \in Seq(Tasks)
  BY NoLongerType DEF End
<1> QED BY <1>1, Zero DEF End, TypeOK, TaskTypes, HistoryTypes

LEMMA RaiseTypes ==
  ASSUME TypeOK, NEW K \in SUBSET Keys, Raise(K)
  PROVE  HistoryTypes'
BY DEF Raise, TypeOK, HistoryTypes

LEMMA BeginTypes ==
  ASSUME TypeOK, NEW t \in Tasks, NEW K \in SUBSET Keys, Begin(t, K)
  PROVE  HistoryTypes'
BY DEF Begin, TypeOK, HistoryTypes

LEMMA FaultTypes ==
  ASSUME TypeOK, NEW kind, Fault(kind)
  PROVE  faults' \in 0 .. MaxFaults /\ lossy' \in BOOLEAN
BY DEF TypeOK, Fault

LEMMA SavesType ==
  ASSUME TypeOK, saves < MaxSaves, saves' = saves + 1
  PROVE  saves' \in 0 .. MaxSaves
BY DEF TypeOK

LEMMA VersionType ==
  ASSUME TypeOK, NewVersion
  PROVE  version' \in Version /\ version' = version + 1
BY DEF TypeOK, NewVersion, Version

LEMMA LeftOpenIs == \A r : LeftOpen(r) \subseteq Keys
BY DEF LeftOpen, Routing, Keys

(***************************************************************************)
(* The order of tasks and requests.                                        *)
(***************************************************************************)
Order == TaskInv /\ QueueInv /\ ReadyInv

(* A task that goes on waits for no reply, and if it is among those that   *)
(* are ready it is the one that is resumed.                                *)
Placed(t) ==
  reply[t] # "pending" /\ (Resumes(t) \/ \A i \in DOMAIN ready : ready[i] # t)

LEMMA OkPlaced ==
  ASSUME NEW t \in Tasks, Ok(t)
  PROVE  Placed(t)
BY DEF Ok, Placed

LEMMA FailedPlaced ==
  ASSUME Order, NEW t \in Tasks, Failed(t)
  PROVE  Placed(t)
<1>1. step[t] \in DOMAIN Attempts /\ reply[t] = "TIMEOUT"
  BY DEF Order, TaskInv, Failed
<1>2. step[t] # "booted"
  BY <1>1, Steps
<1> QED BY <1>1, <1>2 DEF Order, ReadyInv, Placed

LEMMA OutPlaced ==
  ASSUME Order, NEW t \in Tasks, Ok(t) \/ OutOfTries(t)
  PROVE  Placed(t)
BY OkPlaced, FailedPlaced DEF OutOfTries

LEMMA RestPlaced ==
  ASSUME Order, NEW t \in Tasks,
         step[t] \in {"idle", "timer"} \/ (step[t] = "booted" /\ Resumes(t))
  PROVE  Placed(t) /\ reply[t] = "none" /\ asked[t] = NoRequest
<1>1. step[t] \notin DOMAIN Attempts
  BY Steps
<1>2. reply[t] = "none" /\ asked[t] = NoRequest
  BY <1>1 DEF Order, TaskInv
<1> QED BY <1>2 DEF Order, ReadyInv, Placed

(* It has no request in the queue.                                         *)
LEMMA NotQueued ==
  ASSUME Order, NEW t \in Tasks, reply[t] # "pending", NEW i \in DOMAIN queue
  PROVE  queue[i].by # t
BY SomeTasks DEF Order, QueueInv

(* What is ready once a task goes on.                                      *)
LEMMA ReadyRest ==
  ASSUME TypeOK, Order, NEW t \in Tasks, Placed(t)
  PROVE  LET r == NoLongerReady(t) IN
         /\ r \in Seq(Tasks)
         /\ \A i \in DOMAIN r : r[i] # t /\ \E j \in DOMAIN ready : r[i] = ready[j]
         /\ \A i, j \in DOMAIN r : r[i] = r[j] => i = j
<1>1. ready \in Seq(Tasks)
  BY DEF TypeOK
<1>2. CASE Resumes(t)
  <2> DEFINE r == Tail(ready)
  <2>1. /\ r \in Seq(Tasks) /\ Len(ready) \in Nat \ {0}
        /\ DOMAIN ready = 1 .. Len(ready) /\ DOMAIN r = 1 .. Len(ready) - 1
        /\ \A i \in 1 .. Len(ready) - 1 : r[i] = ready[i + 1]
        /\ Head(ready) = ready[1] /\ ready[1] = t
    BY <1>1, <1>2, HeadTailProperties, EmptySeq DEF Resumes
  <2> HIDE DEF r
  <2>2. ASSUME NEW i \in DOMAIN r
        PROVE  i + 1 \in DOMAIN ready /\ i + 1 # 1 /\ 1 \in DOMAIN ready
    BY <2>1
  <2>3. \A i \in DOMAIN r : r[i] # t /\ r[i] = ready[i + 1] /\ i + 1 \in DOMAIN ready
    BY <2>1, <2>2 DEF Order, ReadyInv
  <2>4. \A i, j \in DOMAIN r : r[i] = r[j] => i = j
    <3> SUFFICES ASSUME NEW i \in DOMAIN r, NEW j \in DOMAIN r, r[i] = r[j] PROVE i = j
      OBVIOUS
    <3>1. i + 1 = j + 1
      BY <2>3 DEF Order, ReadyInv
    <3> QED BY <2>1, <3>1
  <2>5. NoLongerReady(t) = r
    BY <1>2 DEF NoLongerReady, r
  <2> QED BY <2>1, <2>3, <2>4, <2>5
<1>3. CASE ~Resumes(t)
  BY <1>1, <1>3 DEF NoLongerReady, Placed, Order, ReadyInv
<1> QED BY <1>2, <1>3

(* Which of them is the last of a kind.                                    *)
LEMMA ReadyLast ==
  ASSUME TypeOK, Order, NEW t \in Tasks, Placed(t), NEW S, NEW T, t \notin S \/ Failed(t),
         \A u \in Tasks \ {t} : u \in S <=> u \in T
  PROVE  /\ LastIn(NoLongerReady(t), T) = LastIn(ready, S)
         /\ NoneIn(NoLongerReady(t), T) <=> NoneIn(ready, S)
<1> DEFINE r == NoLongerReady(t)
           U == S \ {t}
<1>1. r \in Seq(Tasks) /\ \A i \in DOMAIN r : r[i] # t
  BY ReadyRest
<1>2. \A i \in DOMAIN r : r[i] \in U <=> r[i] \in T
  BY <1>1
<1>3. LastIn(r, U) = LastIn(r, T) /\ (NoneIn(r, U) <=> NoneIn(r, T))
  BY <1>1, <1>2, LastSame
<1>4. LastIn(r, U) = LastIn(ready, U) /\ (NoneIn(r, U) <=> NoneIn(ready, U))
  <2>1. CASE Resumes(t)
    BY <2>1, LastTail DEF TypeOK, NoLongerReady, Resumes
  <2>2. CASE ~Resumes(t)
    BY <2>2 DEF NoLongerReady
  <2> QED BY <2>1, <2>2
<1>5. LastIn(ready, U) = LastIn(ready, S) /\ (NoneIn(ready, U) <=> NoneIn(ready, S))
  <2>1. ready \in Seq(Tasks)
    BY DEF TypeOK
  <2>2. CASE t \notin S
    <3>1. U = S
      BY <2>2
    <3> QED BY <3>1
  <2>3. CASE Failed(t)
    <3>1. \A i \in DOMAIN ready : ready[i] # t
      <4>1. step[t] # "booted"
        BY <2>3, Steps DEF Order, TaskInv, Failed
      <4> QED BY <2>3, <4>1 DEF Order, ReadyInv, Failed
    <3>2. \A i \in DOMAIN ready : ready[i] \in U <=> ready[i] \in S
      BY <3>1
    <3> QED BY <2>1, <3>2, LastSame
  <2> QED BY <2>2, <2>3
<1> QED BY <1>3, <1>4, <1>5

LEMMA AskOrder ==
  ASSUME TypeOK, Order, NEW t \in Tasks, NEW s \in DOMAIN Attempts, NEW val \in Version,
         Ask(t, s, KeyOf[s], val), Placed(t), UNCHANGED stuck
  PROVE  Order'
<1> DEFINE r == [by |-> t, key |-> KeyOf[s], val |-> val]
<1>1. /\ asked' = [asked EXCEPT ![t] = r] /\ reply' = [reply EXCEPT ![t] = "pending"]
      /\ tries' = [tries EXCEPT ![t] = 0] /\ step' = [step EXCEPT ![t] = s]
      /\ ready' = NoLongerReady(t) /\ queue' = Enqueue(r)
  BY DEF Ask
<1>2. r \in Request /\ r.by = t /\ r.key = KeyOf[s] /\ r.by # "gone"
  BY Steps, SomeTasks DEF Request
<1>a. /\ asked'[t] = r /\ reply'[t] = "pending" /\ tries'[t] = 0 /\ step'[t] = s
      /\ \A u \in Tasks \ {t} : /\ asked'[u] = asked[u] /\ reply'[u] = reply[u]
                                /\ tries'[u] = tries[u] /\ step'[u] = step[u]
  BY <1>1 DEF TypeOK
<1> HIDE DEF r
<1>3. TaskInv'
  <2>1. ASSUME NEW u \in Tasks
        PROVE  \/ /\ step'[u] \in DOMAIN Attempts /\ reply'[u] # "none"
                  /\ asked'[u] \in Request
                  /\ asked'[u].by = u /\ asked'[u].key = KeyOf[step'[u]]
                  /\ tries'[u] < Attempts[step'[u]]
               \/ /\ step'[u] \notin DOMAIN Attempts /\ reply'[u] = "none"
                  /\ asked'[u] = NoRequest /\ tries'[u] = 0
    <3>1. CASE u = t
      <4>1. 0 < Attempts[s]
        BY Steps
      <4> QED BY <1>2, <1>a, <3>1, <4>1
    <3>2. CASE u # t
      BY <1>a, <3>2 DEF Order, TaskInv
    <3> QED BY <3>1, <3>2
  <2> QED BY <2>1 DEF TaskInv
<1>4. QueueInv'
  <2>1. CASE stuck
    BY <1>1, <2>1 DEF Order, QueueInv, Enqueue
  <2>2. CASE ~stuck
    <3>1. /\ queue' = Append(queue, r) /\ Len(queue) \in Nat
          /\ DOMAIN queue = 1 .. Len(queue) /\ DOMAIN queue' = 1 .. Len(queue) + 1
          /\ \A i \in 1 .. Len(queue) : queue'[i] = queue[i]
          /\ queue'[Len(queue) + 1] = r
      BY <1>1, <1>2, <2>2, AppendProperties DEF Enqueue, TypeOK
    <3>2. \A i \in DOMAIN queue : queue[i] \in Request /\ queue[i].by # t
      BY NotQueued DEF Placed, TypeOK
    <3>3. ASSUME NEW i \in DOMAIN queue', queue'[i].by # "gone"
          PROVE  reply'[queue'[i].by] = "pending" /\ asked'[queue'[i].by] = queue'[i]
      <4>1. CASE i = Len(queue) + 1
        BY <1>2, <1>a, <3>1, <4>1
      <4>2. CASE i \in DOMAIN queue
        <5>1. queue'[i] = queue[i] /\ queue[i].by \in Tasks \ {t}
          BY <3>1, <3>2, <3>3, <4>2 DEF Request
        <5> QED BY <1>a, <3>3, <4>2, <5>1 DEF Order, QueueInv
      <4> QED BY <3>1, <4>1, <4>2
    <3>4. ASSUME NEW i \in DOMAIN queue', NEW j \in DOMAIN queue', queue'[i].by = queue'[j].by
          PROVE  i = j \/ queue'[i].by = "gone"
      <4>1. CASE i \in DOMAIN queue /\ j \in DOMAIN queue
        BY <3>1, <3>4, <4>1 DEF Order, QueueInv
      <4> QED BY <1>2, <3>1, <3>2, <3>4, <4>1
    <3> QED BY <2>2, <3>3, <3>4 DEF QueueInv
  <2> QED BY <2>1, <2>2
<1>5. ReadyInv'
  <2>1. \A i \in DOMAIN ready' : ready'[i] \in Tasks \ {t} /\ \E j \in DOMAIN ready : ready'[i] = ready[j]
    BY <1>1, ReadyRest
  <2>2. \A i, j \in DOMAIN ready' : ready'[i] = ready'[j] => i = j
    BY <1>1, ReadyRest
  <2>3. ASSUME NEW i \in DOMAIN ready'
        PROVE  reply'[ready'[i]] = "OK" \/ (ready'[i] = "boot" /\ step'["boot"] = "booted")
    <3>1. ready'[i] \in Tasks \ {t} /\ \E j \in DOMAIN ready : ready'[i] = ready[j]
      BY <2>1
    <3> QED BY <1>a, <3>1 DEF Order, ReadyInv
  <2> QED BY <2>2, <2>3 DEF ReadyInv
<1> QED BY <1>3, <1>4, <1>5 DEF Order

LEMMA EndOrder ==
  ASSUME TypeOK, Order, NEW t \in Tasks, End(t), Placed(t), UNCHANGED stuck
  PROVE  Order'
<1>1. /\ asked' = [asked EXCEPT ![t] = NoRequest] /\ reply' = [reply EXCEPT ![t] = "none"]
      /\ tries' = [tries EXCEPT ![t] = 0] /\ step' = [step EXCEPT ![t] = "idle"]
      /\ ready' = NoLongerReady(t) /\ queue' = queue
  BY DEF End
<1>2. /\ asked'[t] = NoRequest /\ reply'[t] = "none" /\ tries'[t] = 0 /\ step'[t] = "idle"
      /\ \A u \in Tasks \ {t} : /\ asked'[u] = asked[u] /\ reply'[u] = reply[u]
                                /\ tries'[u] = tries[u] /\ step'[u] = step[u]
  BY <1>1 DEF TypeOK
<1>3. TaskInv'
  <2>1. "idle" \notin DOMAIN Attempts
    BY Steps
  <2> QED BY <1>2, <2>1 DEF Order, TaskInv
<1>4. QueueInv'
  <2>1. \A i \in DOMAIN queue : queue[i] \in Request /\ queue[i].by # t
    BY NotQueued DEF Placed, TypeOK
  <2>2. \A i \in DOMAIN queue : queue[i].by # "gone" => queue[i].by \in Tasks \ {t}
    BY <2>1 DEF Request
  <2> QED BY <1>1, <1>2, <2>2 DEF Order, QueueInv
<1>5. ReadyInv'
  <2>1. \A i \in DOMAIN ready' : ready'[i] \in Tasks \ {t} /\ \E j \in DOMAIN ready : ready'[i] = ready[j]
    BY <1>1, ReadyRest
  <2>2. \A i, j \in DOMAIN ready' : ready'[i] = ready'[j] => i = j
    BY <1>1, ReadyRest
  <2> QED BY <1>2, <2>1, <2>2 DEF Order, ReadyInv
<1> QED BY <1>3, <1>4, <1>5 DEF Order

LEMMA RetryOrder ==
  ASSUME TypeOK, Order, NEW t \in Tasks, Retry(t)
  PROVE  TaskTypes' /\ Order'
<1>1. /\ reply[t] = "TIMEOUT" /\ queue' = Enqueue(asked[t]) /\ UNCHANGED <<ready, asked, step, stuck>>
      /\ reply' = [reply EXCEPT ![t] = "pending"] /\ tries' = [tries EXCEPT ![t] = @ + 1]
      /\ tries[t] + 1 < Attempts[step[t]]
  <2>1. tries[t] \in 0 .. 2 /\ step[t] \in DOMAIN Attempts
    BY DEF TypeOK, Retry, Failed, Order, TaskInv
  <2>2. Attempts[step[t]] \in 1 .. 3
    BY <2>1, Steps
  <2> QED BY <2>1, <2>2 DEF Retry, Failed, OutOfTries
<1>2. /\ step[t] \in DOMAIN Attempts /\ asked[t] \in Request
      /\ asked[t].by = t /\ asked[t].key = KeyOf[step[t]] /\ t # "gone"
  BY <1>1, SomeTasks DEF Order, TaskInv
<1>3. /\ reply'[t] = "pending" /\ tries'[t] = tries[t] + 1
      /\ \A u \in Tasks \ {t} : reply'[u] = reply[u] /\ tries'[u] = tries[u]
  BY <1>1 DEF TypeOK
<1>4. tries'[t] \in 0 .. 2
  <2>1. Attempts[step[t]] \in 1 .. 3 /\ tries[t] \in 0 .. 2
    BY <1>2, Steps DEF TypeOK
  <2> QED BY <1>1, <1>3, <2>1
<1>5. queue' \in Seq(Request)
  BY <1>1, <1>2, EnqueueType
<1>6. TaskTypes'
  BY <1>1, <1>3, <1>4, <1>5 DEF TypeOK, TaskTypes
<1>7. TaskInv'
  <2>1. reply'[t] # "none" /\ tries'[t] < Attempts[step[t]]
    BY <1>1, <1>3
  <2> QED BY <1>1, <1>2, <1>3, <2>1 DEF Order, TaskInv
<1>8. QueueInv'
  <2>1. CASE stuck
    BY <1>1, <2>1 DEF Order, QueueInv, Enqueue
  <2>2. CASE ~stuck
    <3>1. /\ queue' = Append(queue, asked[t]) /\ Len(queue) \in Nat
          /\ DOMAIN queue = 1 .. Len(queue) /\ DOMAIN queue' = 1 .. Len(queue) + 1
          /\ \A i \in 1 .. Len(queue) : queue'[i] = queue[i]
          /\ queue'[Len(queue) + 1] = asked[t]
      BY <1>1, <1>2, <2>2, AppendProperties DEF Enqueue, TypeOK
    <3>2. \A i \in DOMAIN queue : queue[i] \in Request /\ queue[i].by # t
      BY <1>1, NotQueued DEF TypeOK
    <3>3. ASSUME NEW i \in DOMAIN queue', queue'[i].by # "gone"
          PROVE  reply'[queue'[i].by] = "pending" /\ asked'[queue'[i].by] = queue'[i]
      <4>1. CASE i = Len(queue) + 1
        BY <1>1, <1>2, <1>3, <3>1, <4>1
      <4>2. CASE i \in DOMAIN queue
        <5>1. queue'[i] = queue[i] /\ queue[i].by \in Tasks \ {t}
          BY <3>1, <3>2, <3>3, <4>2 DEF Request
        <5> QED BY <1>1, <1>3, <3>3, <4>2, <5>1 DEF Order, QueueInv
      <4> QED BY <3>1, <4>1, <4>2
    <3>4. ASSUME NEW i \in DOMAIN queue', NEW j \in DOMAIN queue', queue'[i].by = queue'[j].by
          PROVE  i = j \/ queue'[i].by = "gone"
      <4>1. CASE i \in DOMAIN queue /\ j \in DOMAIN queue
        BY <3>1, <3>4, <4>1 DEF Order, QueueInv
      <4> QED BY <1>2, <3>1, <3>2, <3>4, <4>1
    <3> QED BY <1>1, <2>2, <3>3, <3>4 DEF QueueInv
  <2> QED BY <2>1, <2>2
<1>9. ReadyInv'
  <2>1. ASSUME NEW i \in DOMAIN ready
        PROVE  reply'[ready[i]] = "OK" \/ (ready[i] = "boot" /\ step["boot"] = "booted")
    <3>1. ready[i] \in Tasks
      BY DEF TypeOK
    <3>2. CASE ready[i] = t
      <4>1. step[t] # "booted"
        BY <1>2, Steps
      <4> QED BY <1>1, <3>2, <4>1 DEF Order, ReadyInv
    <3> QED BY <1>3, <3>1, <3>2 DEF Order, ReadyInv
  <2> QED BY <1>1, <2>1 DEF Order, ReadyInv
<1> QED BY <1>6, <1>7, <1>8, <1>9 DEF Order

(* A request that has lost its caller.                                     *)
LEMMA GiveUpQueue ==
  ASSUME TypeOK, NEW t \in Tasks, GiveUp(t)
  PROVE  /\ queue' \in Seq(Request) /\ Len(queue') = Len(queue)
         /\ DOMAIN queue' = DOMAIN queue
         /\ \A i \in DOMAIN queue :
              /\ queue[i].by # t => queue'[i] = queue[i]
              /\ queue[i].by = t => /\ queue'[i].by = "gone" /\ queue'[i].key = queue[i].key
                                    /\ queue'[i].val = queue[i].val
<1>1. queue' = [i \in DOMAIN queue |-> IF queue[i].by = t THEN [queue[i] EXCEPT !.by = "gone"]
                                       ELSE queue[i]]
  BY DEF GiveUp
<1>2. queue \in Seq(Request) /\ DOMAIN queue = 1 .. Len(queue) /\ Len(queue) \in Nat
  BY DEF TypeOK
<1>3. \A i \in DOMAIN queue : queue[i] \in Request
  BY <1>2
<1>4. \A i \in DOMAIN queue : queue'[i] \in Request
  BY <1>1, <1>3 DEF Request
<1>5. queue' \in [1 .. Len(queue) -> Request]
  BY <1>1, <1>2, <1>4
<1>6. queue' \in Seq(Request) /\ Len(queue') = Len(queue)
  BY <1>2, <1>5, SeqDef, LenProperties
<1> QED BY <1>1, <1>2, <1>3, <1>6 DEF Request

LEMMA GiveUpOrder ==
  ASSUME TypeOK, Order, NEW t \in Tasks, GiveUp(t)
  PROVE  TaskTypes' /\ Order'
<1>1. /\ reply[t] = "pending" /\ UNCHANGED <<ready, asked, step, tries, stuck>>
      /\ reply' = [reply EXCEPT ![t] = "TIMEOUT"] /\ ~stuck
  BY DEF GiveUp
<1>2. reply'[t] = "TIMEOUT" /\ \A u \in Tasks \ {t} : reply'[u] = reply[u]
  BY <1>1 DEF TypeOK
<1>3. TaskTypes'
  BY <1>1, GiveUpQueue DEF TypeOK, TaskTypes
<1>4. TaskInv'
  BY <1>1, <1>2 DEF Order, TaskInv
<1>5. QueueInv'
  <2>1. ASSUME NEW i \in DOMAIN queue', queue'[i].by # "gone"
        PROVE  queue'[i] = queue[i] /\ queue[i].by \in Tasks \ {t}
    <3>1. i \in DOMAIN queue /\ queue[i].by # t /\ queue'[i] = queue[i]
      BY <2>1, GiveUpQueue
    <3>2. queue[i] \in Request
      BY <3>1 DEF TypeOK
    <3> QED BY <2>1, <3>1, <3>2 DEF Request
  <2>2. ASSUME NEW i \in DOMAIN queue', NEW j \in DOMAIN queue', queue'[i].by = queue'[j].by,
               queue'[i].by # "gone"
        PROVE  i = j
    BY <2>1, <2>2, GiveUpQueue DEF Order, QueueInv
  <2> QED BY <1>1, <1>2, <2>1, <2>2, GiveUpQueue DEF Order, QueueInv
<1>6. ReadyInv'
  <2>1. ASSUME NEW i \in DOMAIN ready
        PROVE  reply'[ready[i]] = "OK" \/ (ready[i] = "boot" /\ step["boot"] = "booted")
    <3>1. ready[i] \in Tasks
      BY DEF TypeOK
    <3>2. CASE ready[i] = t
      BY <1>1, <3>2 DEF Order, ReadyInv
    <3> QED BY <1>2, <3>1, <3>2 DEF Order, ReadyInv
  <2> QED BY <1>1, <2>1 DEF Order, ReadyInv
<1> QED BY <1>3, <1>4, <1>5, <1>6 DEF Order

(* The rest of the queue.                                                  *)
LEMMA QueueTail ==
  ASSUME TypeOK, Order, queue # <<>>
  PROVE  /\ Head(queue) = queue[1] /\ 1 \in DOMAIN queue /\ Head(queue) \in Request
         /\ Tail(queue) \in Seq(Request)
         /\ \A i \in DOMAIN Tail(queue) : i + 1 \in DOMAIN queue /\ Tail(queue)[i] = queue[i + 1]
         /\ \A i \in DOMAIN Tail(queue) : Tail(queue)[i].by # "gone" =>
              Tail(queue)[i].by \in Tasks \ {Head(queue).by}
         /\ Head(queue).by # "gone" =>
              /\ Head(queue).by \in Tasks /\ reply[Head(queue).by] = "pending"
              /\ asked[Head(queue).by] = Head(queue)
<1> DEFINE r == Tail(queue)
<1>1. /\ queue \in Seq(Request) /\ r \in Seq(Request) /\ Len(queue) \in Nat \ {0}
      /\ DOMAIN queue = 1 .. Len(queue) /\ DOMAIN r = 1 .. Len(queue) - 1
      /\ \A i \in 1 .. Len(queue) - 1 : r[i] = queue[i + 1]
      /\ Head(queue) = queue[1]
  BY HeadTailProperties, EmptySeq DEF TypeOK
<1> HIDE DEF r
<1>2. 1 \in DOMAIN queue /\ \A i \in DOMAIN r : i + 1 \in DOMAIN queue /\ i + 1 # 1
  BY <1>1
<1>3. \A i \in DOMAIN queue : queue[i] \in Request
  BY <1>1
<1>4. ASSUME NEW i \in DOMAIN r, r[i].by # "gone" PROVE r[i].by \in Tasks \ {queue[1].by}
  <2>1. r[i] = queue[i + 1] /\ queue[i + 1] \in Request
    BY <1>1, <1>2, <1>3
  <2>2. r[i].by # queue[1].by
    BY <1>2, <1>4, <2>1 DEF Order, QueueInv
  <2> QED BY <1>4, <2>1, <2>2 DEF Request
<1>5. queue[1].by # "gone" => /\ queue[1].by \in Tasks /\ reply[queue[1].by] = "pending"
                              /\ asked[queue[1].by] = queue[1]
  BY <1>2, <1>3 DEF Order, QueueInv, Request
<1> QED BY <1>1, <1>2, <1>3, <1>4, <1>5 DEF r

LEMMA TailOrder ==
  ASSUME TypeOK, Order, queue # <<>>, queue' = Tail(queue), UNCHANGED asked,
         \A u \in Tasks \ {Head(queue).by} : reply'[u] = reply[u], ~stuck'
  PROVE  QueueInv'
<1>1. \A i \in DOMAIN queue' : i + 1 \in DOMAIN queue /\ queue'[i] = queue[i + 1]
  BY QueueTail
<1>2. \A i \in DOMAIN queue' : queue'[i].by # "gone" => queue'[i].by \in Tasks \ {Head(queue).by}
  BY QueueTail
<1>3. \A i \in DOMAIN queue' : i \in Nat
  <2>1. queue' \in Seq(Request)
    BY QueueTail
  <2> QED BY <2>1
<1>4. ASSUME NEW i \in DOMAIN queue', NEW j \in DOMAIN queue', queue'[i].by = queue'[j].by,
             queue'[i].by # "gone"
      PROVE  i = j
  <2>1. i + 1 = j + 1
    BY <1>1, <1>4 DEF Order, QueueInv
  <2> QED BY <1>3, <2>1
<1> QED BY <1>1, <1>2, <1>4 DEF Order, QueueInv

LEMMA ServeOrder ==
  ASSUME TypeOK, Order, Serve
  PROVE  TaskTypes' /\ HistoryTypes' /\ fw' \in [Keys -> Version] /\ Order'
<1> DEFINE r == Head(queue)
<1>1. /\ ~stuck /\ queue # <<>> /\ queue' = Tail(queue) /\ fw' = Written(r)
      /\ UNCHANGED <<stuck, step, asked, tries, unsure>>
  BY DEF Serve
<1>2. r \in Request /\ Tail(queue) \in Seq(Request)
  BY <1>1, QueueTail
<1> HIDE DEF r
<1>3. fw' \in [Keys -> Version]
  BY <1>1, <1>2 DEF Written, TypeOK, Request
<1>4. CASE r.by = "gone"
  <2>1. UNCHANGED <<reply, ready, doubt>>
    BY <1>4 DEF Serve, r
  <2>2. QueueInv'
    BY <1>1, <2>1, TailOrder
  <2>3. TaskInv' /\ ReadyInv'
    BY <1>1, <2>1 DEF Order, TaskInv, ReadyInv
  <2>4. TaskTypes' /\ HistoryTypes'
    BY <1>1, <1>2, <2>1 DEF TypeOK, TaskTypes, HistoryTypes
  <2> QED BY <1>3, <2>2, <2>3, <2>4 DEF Order
<1>5. CASE r.by # "gone"
  <2>1. /\ reply' = [reply EXCEPT ![r.by] = "OK"] /\ ready' = Append(ready, r.by)
        /\ doubt' = doubt \ ({r.key} \ unsure[r.by])
    BY <1>5 DEF Serve, r
  <2>2. r.by \in Tasks /\ reply[r.by] = "pending" /\ asked[r.by] = r
    BY <1>1, <1>5, QueueTail DEF r
  <2>3. reply'[r.by] = "OK" /\ \A u \in Tasks \ {r.by} : reply'[u] = reply[u]
    BY <2>1, <2>2 DEF TypeOK
  <2>4. QueueInv'
    BY <1>1, <2>3, TailOrder DEF r
  <2>5. TaskInv'
    BY <1>1, <2>2, <2>3 DEF Order, TaskInv
  <2>6. /\ ready' \in Seq(Tasks) /\ Len(ready) \in Nat
        /\ DOMAIN ready = 1 .. Len(ready) /\ DOMAIN ready' = 1 .. Len(ready) + 1
        /\ \A i \in 1 .. Len(ready) : ready'[i] = ready[i]
        /\ ready'[Len(ready) + 1] = r.by
    BY <2>1, <2>2, AppendProperties DEF TypeOK
  <2>7. \A i \in DOMAIN ready : ready[i] # r.by
    <3>1. step[r.by] \in DOMAIN Attempts
      BY <2>2 DEF Order, TaskInv
    <3>2. step[r.by] # "booted"
      BY <3>1, Steps
    <3> QED BY <2>2, <3>2 DEF Order, ReadyInv
  <2>8. ReadyInv'
    <3>1. ASSUME NEW i \in DOMAIN ready'
          PROVE  reply'[ready'[i]] = "OK" \/ (ready'[i] = "boot" /\ step'["boot"] = "booted")
      <4>1. CASE i = Len(ready) + 1
        BY <2>3, <2>6, <4>1
      <4>2. CASE i \in DOMAIN ready
        <5>1. ready'[i] = ready[i] /\ ready[i] \in Tasks \ {r.by}
          BY <2>6, <2>7, <4>2 DEF TypeOK
        <5> QED BY <1>1, <2>3, <4>2, <5>1 DEF Order, ReadyInv
      <4> QED BY <2>6, <4>1, <4>2
    <3>2. ASSUME NEW i \in DOMAIN ready', NEW j \in DOMAIN ready', ready'[i] = ready'[j]
          PROVE  i = j
      <4>1. CASE i \in DOMAIN ready /\ j \in DOMAIN ready
        BY <2>6, <3>2, <4>1 DEF Order, ReadyInv
      <4> QED BY <2>6, <2>7, <3>2, <4>1
    <3> QED BY <3>1, <3>2 DEF ReadyInv
  <2>9. TaskTypes' /\ HistoryTypes'
    BY <1>1, <1>2, <2>1, <2>6 DEF TypeOK, TaskTypes, HistoryTypes
  <2> QED BY <1>3, <2>4, <2>5, <2>8, <2>9 DEF Order
<1> QED BY <1>4, <1>5

(* The queue of a writer that is blocked.                                  *)
LEMMA BlockedOrder ==
  ASSUME TypeOK, Order, queue' = <<>>, UNCHANGED tasks
  PROVE  TaskTypes' /\ Order'
BY EmptySeq DEF TypeOK, TaskTypes, Order, TaskInv, QueueInv, ReadyInv, tasks

LEMMA ServeLostOrder ==
  ASSUME TypeOK, Order, ServeLost
  PROVE  TaskTypes' /\ fw' \in [Keys -> Version] /\ stuck' \in BOOLEAN /\ Order'
<1> DEFINE r == Head(queue)
<1>1. /\ ~stuck /\ queue # <<>> /\ fw' \in {fw, Written(r)} /\ Loses
      /\ UNCHANGED <<ready, step, asked, tries, held>>
  BY DEF ServeLost
<1>2. r \in Request /\ Tail(queue) \in Seq(Request)
  BY <1>1, QueueTail
<1> HIDE DEF r
<1>3. fw' \in [Keys -> Version] /\ stuck' \in BOOLEAN
  BY <1>1, <1>2 DEF Written, TypeOK, Request, Loses
<1>4. CASE stuck'
  BY <1>1, <1>3, <1>4, BlockedOrder DEF Loses, tasks
<1>5. CASE ~stuck'
  <2>1. /\ queue' = Tail(queue)
        /\ reply' = IF r.by = "gone" THEN reply ELSE [reply EXCEPT ![r.by] = "TIMEOUT"]
    BY <1>1, <1>5 DEF Loses, r
  <2>2. r.by # "gone" => r.by \in Tasks /\ reply[r.by] = "pending" /\ asked[r.by] = r
    BY <1>1, QueueTail DEF r
  <2>3. \A u \in Tasks \ {r.by} : reply'[u] = reply[u]
    BY <2>1, <2>2 DEF TypeOK
  <2>4. r.by # "gone" => reply'[r.by] = "TIMEOUT"
    BY <2>1, <2>2 DEF TypeOK
  <2>5. QueueInv'
    BY <1>1, <1>5, <2>1, <2>3, TailOrder DEF r
  <2>6. TaskInv'
    <3>1. \A u \in Tasks : reply'[u] = reply[u] \/ (reply[u] = "pending" /\ reply'[u] = "TIMEOUT")
      BY <2>2, <2>3, <2>4, SomeTasks
    <3> QED BY <1>1, <3>1 DEF Order, TaskInv
  <2>7. ReadyInv'
    <3>1. ASSUME NEW i \in DOMAIN ready
          PROVE  reply'[ready[i]] = "OK" \/ (ready[i] = "boot" /\ step["boot"] = "booted")
      <4>1. ready[i] \in Tasks
        BY DEF TypeOK
      <4>2. CASE ready[i] = r.by
        BY <2>2, <4>1, <4>2, SomeTasks DEF Order, ReadyInv
      <4> QED BY <2>3, <4>1, <4>2 DEF Order, ReadyInv
    <3> QED BY <1>1, <3>1 DEF Order, ReadyInv
  <2>8. TaskTypes'
    <3>1. reply' \in [Tasks -> {"none", "pending", "OK", "TIMEOUT"}]
      BY <2>1, <2>2 DEF TypeOK
    <3> QED BY <1>1, <1>2, <2>1, <3>1 DEF TypeOK, TaskTypes
  <2> QED BY <1>3, <2>5, <2>6, <2>7, <2>8 DEF Order
<1> QED BY <1>3, <1>4, <1>5

LEMMA BootOrder ==
  ASSUME TypeOK, Order, step["boot"] = "idle", UNCHANGED <<uart, asked, reply, tries>>,
         \/ BootReady
         \/ UNCHANGED <<bootApplied, step, ready>>
  PROVE  TaskTypes' /\ bootApplied' \in BOOLEAN /\ Order'
<1>1. CASE UNCHANGED <<bootApplied, step, ready>>
  BY <1>1 DEF TypeOK, TaskTypes, Order, TaskInv, QueueInv, ReadyInv, uart
<1>2. CASE BootReady
  <2>1. /\ "boot" \in Tasks /\ "booted" \notin DOMAIN Attempts /\ "idle" \notin DOMAIN Attempts
        /\ "idle" # "booted"
    BY Steps, SomeTasks
  <2>2. /\ step' = [step EXCEPT !["boot"] = "booted"] /\ ready' = Append(ready, "boot")
        /\ bootApplied' = TRUE
    BY <1>2 DEF BootReady
  <2>3. step'["boot"] = "booted" /\ \A u \in Tasks \ {"boot"} : step'[u] = step[u]
    BY <2>1, <2>2 DEF TypeOK
  <2>4. /\ ready' \in Seq(Tasks) /\ Len(ready) \in Nat
        /\ DOMAIN ready = 1 .. Len(ready) /\ DOMAIN ready' = 1 .. Len(ready) + 1
        /\ \A i \in 1 .. Len(ready) : ready'[i] = ready[i]
        /\ ready'[Len(ready) + 1] = "boot"
    BY <2>1, <2>2, AppendProperties DEF TypeOK
  <2>5. reply["boot"] = "none" /\ asked["boot"] = NoRequest /\ tries["boot"] = 0
    BY <2>1 DEF Order, TaskInv
  <2>6. \A i \in DOMAIN ready : ready[i] \in Tasks /\ ready[i] # "boot" /\ reply[ready[i]] = "OK"
    BY <2>1, <2>5 DEF Order, ReadyInv, TypeOK
  <2>7. TaskInv'
    BY <2>1, <2>3, <2>5 DEF Order, TaskInv
  <2>8. QueueInv'
    BY DEF Order, QueueInv, uart
  <2>9. ReadyInv'
    <3>1. ASSUME NEW i \in DOMAIN ready', NEW j \in DOMAIN ready', ready'[i] = ready'[j]
          PROVE  i = j
      <4>1. CASE i \in DOMAIN ready /\ j \in DOMAIN ready
        BY <2>4, <3>1, <4>1 DEF Order, ReadyInv
      <4> QED BY <2>4, <2>6, <3>1, <4>1
    <3>2. \A i \in DOMAIN ready' :
            reply[ready'[i]] = "OK" \/ (ready'[i] = "boot" /\ step'["boot"] = "booted")
      BY <2>3, <2>4, <2>6
    <3> QED BY <3>1, <3>2 DEF ReadyInv
  <2>10. TaskTypes'
    BY <2>2, <2>4 DEF TypeOK, TaskTypes, uart
  <2> QED BY <2>2, <2>7, <2>8, <2>9, <2>10 DEF Order
<1> QED BY <1>1, <1>2

LEMMA StartOrder ==
  ASSUME TypeOK, Order, Start, step["startup"] = "idle"
  PROVE  TaskTypes' /\ Order'
<1>1. /\ "startup" \in Tasks /\ "timer" \notin DOMAIN Attempts /\ "idle" \notin DOMAIN Attempts
      /\ "boot" # "startup" /\ "boot" \in Tasks
  BY Steps, SomeTasks
<1>2. step' = [step EXCEPT !["startup"] = "timer"] /\ UNCHANGED <<uart, ready, asked, reply, tries>>
  BY DEF Start
<1>3. step'["startup"] = "timer" /\ \A u \in Tasks \ {"startup"} : step'[u] = step[u]
  BY <1>1, <1>2 DEF TypeOK
<1>4. reply["startup"] = "none" /\ asked["startup"] = NoRequest /\ tries["startup"] = 0
  BY <1>1 DEF Order, TaskInv
<1>5. TaskInv'
  BY <1>1, <1>2, <1>3, <1>4 DEF Order, TaskInv
<1>6. QueueInv' /\ ReadyInv'
  BY <1>1, <1>2, <1>3 DEF Order, QueueInv, ReadyInv, uart
<1>7. TaskTypes'
  BY <1>2 DEF TypeOK, TaskTypes, uart
<1> QED BY <1>5, <1>6, <1>7 DEF Order

LEMMA EndsOrder ==
  ASSUME TypeOK, ProcessEnds
  PROVE  /\ TaskTypes' /\ HistoryTypes' /\ Order' /\ DownInv'
         /\ up' = FALSE /\ open' = FALSE /\ bootApplied' = FALSE /\ stuck' = FALSE
         /\ held' \in [Tasks -> Version] /\ failures' \in 0 .. PollLimit
<1>1. /\ queue' = <<>> /\ ready' = <<>> /\ step' = [t \in Tasks |-> "idle"]
      /\ asked' = [t \in Tasks |-> NoRequest] /\ reply' = [t \in Tasks |-> "none"]
      /\ tries' = [t \in Tasks |-> 0] /\ held' = [t \in Tasks |-> 0] /\ failures' = 0
      /\ up' = FALSE /\ open' = FALSE /\ bootApplied' = FALSE /\ stuck' = FALSE
      /\ unsure' = [t \in Tasks |-> {}]
      /\ doubt' = doubt \cup UNION {LeftOpen(asked[t]) : t \in Tasks}
  BY DEF ProcessEnds
<1>2. TaskTypes'
  BY <1>1, EmptySeq, Zero DEF TaskTypes
<1>3. UNION {LeftOpen(asked[t]) : t \in Tasks} \subseteq Keys
  BY LeftOpenIs
<1>4. HistoryTypes'
  BY <1>1, <1>3 DEF TypeOK, HistoryTypes
<1>5. TaskInv'
  <2>1. "idle" \notin DOMAIN Attempts
    BY Steps
  <2> QED BY <1>1, <2>1 DEF TaskInv
<1>6. QueueInv' /\ ReadyInv'
  BY <1>1 DEF QueueInv, ReadyInv
<1>7. DownInv'
  BY <1>1 DEF DownInv
<1>8. held' \in [Tasks -> Version] /\ failures' \in 0 .. PollLimit
  BY <1>1, Zero
<1> QED BY <1>1, <1>2, <1>4, <1>5, <1>6, <1>7, <1>8 DEF Order

(***************************************************************************)
(* The parts of the actions that begin to send a setting.                  *)
(***************************************************************************)
(* A task that may ask again, as the actions do.                           *)
LEMMA SendOffsetsBasics ==
  ASSUME TypeOK, Order, NEW t \in Tasks, SendOffsets(t), Placed(t), UNCHANGED stuck
  PROVE  TaskTypes' /\ HistoryTypes' /\ open' \in BOOLEAN /\ Order'
<1>1. "offsets" \in DOMAIN Attempts /\ KeyOf["offsets"] = "offsets"
  BY Steps
<1>2. file["offsets"] \in Version
  BY DEF TypeOK, Settings, Keys
<1>3. Ask(t, "offsets", KeyOf["offsets"], file["offsets"])
  BY <1>1 DEF SendOffsets
<1>4. HistoryTypes'
  BY RaiseTypes, BeginTypes DEF SendOffsets, Keys
<1> QED BY <1>1, <1>2, <1>3, <1>4, AskTypes, AskOrder

LEMMA SendPwmBasics ==
  ASSUME TypeOK, Order, NEW t \in Tasks, NEW config \in Version, SendPwm(t, config),
         Placed(t), UNCHANGED stuck
  PROVE  TaskTypes' /\ HistoryTypes' /\ open' \in BOOLEAN /\ Order'
<1>1. "pwm" \in DOMAIN Attempts /\ KeyOf["pwm"] = "pwm"
  BY Steps
<1>2. Ask(t, "pwm", KeyOf["pwm"], config)
  BY <1>1 DEF SendPwm
<1>3. HistoryTypes'
  BY BeginTypes DEF SendPwm, Keys
<1> QED BY <1>1, <1>2, <1>3, AskTypes, AskOrder

LEMMA ReadAndSendVrBasics ==
  ASSUME TypeOK, Order, NEW t \in Tasks, ReadAndSendVr(t), Placed(t), UNCHANGED stuck
  PROVE  /\ TaskTypes' /\ HistoryTypes' /\ open' \in BOOLEAN /\ Order'
         /\ held' \in [Tasks -> Version]
<1>1. "tuning" \in DOMAIN Attempts /\ KeyOf["tuning"] = "tuning"
  BY Steps
<1>2. file["tuning"] \in Version /\ file["limits"] \in Version
  BY DEF TypeOK, Settings, Keys
<1>3. Ask(t, "tuning", KeyOf["tuning"], file["tuning"])
  BY <1>1 DEF ReadAndSendVr
<1>4. HistoryTypes'
  BY BeginTypes DEF ReadAndSendVr, Keys, Routing
<1>5. held' \in [Tasks -> Version]
  BY <1>2 DEF ReadAndSendVr, TypeOK
<1> QED BY <1>1, <1>2, <1>3, <1>4, <1>5, AskTypes, AskOrder

LEMMA VrSentBasics ==
  ASSUME TypeOK, Order, NEW t \in Tasks, VrSent(t), Placed(t), UNCHANGED stuck
  PROVE  /\ TaskTypes' /\ HistoryTypes' /\ open' \in BOOLEAN /\ Order'
         /\ held' \in [Tasks -> Version]
<1>1. CASE t \in Syncs
  <2>1. file["pwm"] \in Version
    BY DEF TypeOK, Settings, Keys
  <2>2. SendPwm(t, file["pwm"]) /\ UNCHANGED held
    BY <1>1 DEF VrSent
  <2>3. held' \in [Tasks -> Version]
    BY <2>2 DEF TypeOK
  <2> QED BY <2>1, <2>2, <2>3, SendPwmBasics
<1>2. CASE t \notin Syncs
  <2>1. End(t) /\ open' = open
    BY <1>2 DEF VrSent, End
  <2>2. open' \in BOOLEAN
    BY <2>1 DEF TypeOK
  <2> QED BY <2>1, <2>2, EndTypes, EndOrder
<1> QED BY <1>1, <1>2

(***************************************************************************)
(* Every step keeps the types and the order.                               *)
(***************************************************************************)
LEMMA FileIs ==
  ASSUME TypeOK, NEW k \in Settings
  PROVE  file[k] \in Version
BY DEF TypeOK

LEMMA Idles ==
  /\ {"offsets", "pose", "tuning", "limits", "pwm"} \subseteq DOMAIN Attempts
  /\ "idle" \notin DOMAIN Attempts /\ "timer" \notin DOMAIN Attempts
  /\ "booted" \notin DOMAIN Attempts /\ "idle" # "timer" /\ "idle" # "booted"
BY Steps

LEMMA Running ==
  ASSUME DownInv, NEW t \in Tasks, step[t] # "idle"
  PROVE  up
BY DEF DownInv

(* What a page asks for.                                                   *)
LEMMA PageBasics ==
  ASSUME TypeOK, Order, DownInv, NEW p \in Pages,
         SaveSettings(p) \/ ApplyOffsets(p) \/ SavePwm(p) \/ ApplyVr(p)
  PROVE  TypeOK' /\ Order' /\ DownInv'
<1>1. p \in Tasks /\ step[p] = "idle" /\ up /\ saves' \in 0 .. MaxSaves
  BY SavesType DEF Tasks, Asks, SaveSettings, ApplyOffsets, SavePwm, ApplyVr
<1>2. Placed(p)
  <2>1. step[p] \in {"idle", "timer"} /\ p \in Tasks
    BY <1>1
  <2> QED BY <2>1, RestPlaced
<1>3. DownInv'
  BY <1>1 DEF DownInv, SaveSettings, ApplyOffsets, SavePwm, ApplyVr, process
<1>4. CASE SaveSettings(p)
  <2>1. NewVersion /\ Save(version', version') /\ Raise({"offsets"})
        /\ UNCHANGED <<fw, post, process, uart, tasks, watch, faults, lossy>>
    BY <1>4 DEF SaveSettings
  <2>2. version' \in Version
    BY <2>1, VersionType
  <2>3. HistoryTypes'
    BY <2>1, RaiseTypes DEF Keys
  <2>4. TaskTypes'
    BY <2>1 DEF TypeOK, TaskTypes, uart, tasks
  <2>5. OtherTypes'
    BY <1>1, <2>1, <2>2 DEF TypeOK, OtherTypes, Save, process, uart, tasks, watch
  <2>6. Order'
    BY <2>1 DEF Order, TaskInv, QueueInv, ReadyInv, uart, tasks
  <2> QED BY <1>3, <2>3, <2>4, <2>5, <2>6, TypeNext
<1>5. CASE ApplyOffsets(p)
  <2>1. /\ NewVersion /\ Ask(p, "offsets", "offsets", version') /\ Begin(p, {"offsets"})
        /\ UNCHANGED <<file, post, fw, up, bootApplied, stuck, held, watch, faults, lossy>>
    BY <1>5 DEF ApplyOffsets
  <2>2. version' \in Version
    BY <2>1, VersionType
  <2>3. HistoryTypes'
    BY <1>1, <2>1, BeginTypes DEF Keys
  <2>4. Ask(p, "offsets", KeyOf["offsets"], version')
    BY <2>1, Steps
  <2>5. TaskTypes' /\ open' \in BOOLEAN /\ Order'
    BY <1>1, <1>2, <2>1, <2>2, <2>4, Idles, AskTypes, AskOrder
  <2>6. OtherTypes'
    BY <1>1, <2>1, <2>2, <2>5 DEF TypeOK, OtherTypes, watch
  <2> QED BY <1>3, <2>3, <2>5, <2>6, TypeNext
<1>6. CASE SavePwm(p)
  <2>1. /\ NewVersion /\ file' = [file EXCEPT !["pwm"] = version'] /\ SendPwm(p, version')
        /\ UNCHANGED <<post, fw, up, bootApplied, stuck, held, watch, faults, lossy>>
    BY <1>6 DEF SavePwm
  <2>2. version' \in Version
    BY <2>1, VersionType
  <2>3. TaskTypes' /\ HistoryTypes' /\ open' \in BOOLEAN /\ Order'
    BY <1>1, <1>2, <2>1, <2>2, SendPwmBasics
  <2>4. OtherTypes'
    BY <1>1, <2>1, <2>2, <2>3 DEF TypeOK, OtherTypes, watch
  <2> QED BY <1>3, <2>3, <2>4, TypeNext
<1>7. CASE ApplyVr(p)
  <2>1. ReadAndSendVr(p) /\ UNCHANGED <<disk, fw, up, bootApplied, stuck, watch, faults, lossy>>
    BY <1>7 DEF ApplyVr
  <2>2. TaskTypes' /\ HistoryTypes' /\ open' \in BOOLEAN /\ Order' /\ held' \in [Tasks -> Version]
    BY <1>1, <1>2, <2>1, ReadAndSendVrBasics
  <2>3. OtherTypes'
    BY <1>1, <2>1, <2>2 DEF TypeOK, OtherTypes, disk, watch
  <2> QED BY <1>3, <2>2, <2>3, TypeNext
<1> QED BY <1>4, <1>5, <1>6, <1>7

(* A POST.                                                                 *)
LEMMA PostBasics ==
  ASSUME TypeOK, Order, DownInv, NEW h \in Threads, PostReads(h) \/ PostWrites(h)
  PROVE  TypeOK' /\ Order' /\ DownInv'
<1>1. UNCHANGED <<fw, process, uart, tasks, watch, faults, lossy>>
  BY DEF PostReads, PostWrites
<1>2. TaskTypes'
  BY <1>1 DEF TypeOK, TaskTypes, uart, tasks
<1>3. Order' /\ DownInv'
  BY <1>1 DEF Order, TaskInv, QueueInv, ReadyInv, DownInv, uart, tasks, process
<1>4. CASE PostReads(h)
  <2>1. version' \in Version /\ saves' \in 0 .. MaxSaves
    BY <1>4, VersionType, SavesType DEF PostReads
  <2>2. [k \in Routing |-> file[k]] \in [Routing -> Version]
    BY FileIs DEF Routing, Settings, Keys
  <2>3. PICK parts \in SUBSET Routing \ {{}} :
          post' = [post EXCEPT ![h] = [parts |-> parts, val |-> version', alone |-> TRUE,
                                       seen |-> [k \in Routing |-> file[k]]]]
    BY <1>4 DEF PostReads
  <2>4. [parts |-> parts, val |-> version', alone |-> TRUE, seen |-> [k \in Routing |-> file[k]]]
          \in [parts : SUBSET Routing \ {{}}, val : Version, seen : [Routing -> Version], alone : BOOLEAN]
    BY <2>1, <2>2
  <2>5. post' \in [Threads -> {Idle} \cup [parts : SUBSET Routing \ {{}}, val : Version,
                                          seen : [Routing -> Version], alone : BOOLEAN]]
    BY <2>3, <2>4 DEF TypeOK
  <2>6. UNCHANGED <<file, history>>
    BY <1>4 DEF PostReads
  <2>7. OtherTypes'
    BY <1>1, <2>1, <2>5, <2>6 DEF TypeOK, OtherTypes, process, uart, tasks, watch
  <2>8. HistoryTypes'
    BY <2>6 DEF TypeOK, HistoryTypes, history
  <2> QED BY <1>2, <1>3, <2>7, <2>8, TypeNext
<1>5. CASE PostWrites(h)
  <2> DEFINE Posts == [parts : SUBSET Routing \ {{}}, val : Version,
                       seen : [Routing -> Version], alone : BOOLEAN]
  <2>1. \A g \in Threads : post[g] \in {Idle} \cup Posts
    BY DEF TypeOK
  <2>2. \A g \in Threads : post[g] # Idle =>
          post[g] \in Posts /\ [post[g] EXCEPT !.alone = FALSE] \in Posts
    BY <2>1
  <2> HIDE DEF Posts
  <2>3. post' \in [Threads -> {Idle} \cup Posts]
    <3>1. post' = [g \in Threads |-> IF g = h \/ post[g] = Idle THEN Idle
                                     ELSE [post[g] EXCEPT !.alone = FALSE]]
      BY <1>5 DEF PostWrites, PostEnds
    <3>2. ASSUME NEW g \in Threads
          PROVE  (IF g = h \/ post[g] = Idle THEN Idle ELSE [post[g] EXCEPT !.alone = FALSE])
                   \in {Idle} \cup Posts
      <4>1. CASE g = h \/ post[g] = Idle
        BY <4>1
      <4>2. CASE ~(g = h \/ post[g] = Idle)
        BY <2>2, <4>2
      <4> QED BY <4>1, <4>2
    <3> QED BY <3>1, <3>2, Zenon
  <2>4. file' \in [Settings -> Version]
    <3>1. post[h].val \in Version /\ \A k \in Routing : post[h].seen[k] \in Version
      <4>1. post[h] \in Posts
        BY <1>5, <2>2 DEF PostWrites
      <4> QED BY <4>1 DEF Posts
    <3> QED BY <1>5, <3>1, FileIs DEF PostWrites
  <2>5. HistoryTypes'
    <3>1. {k \in Routing : file'[k] # file[k]} \in SUBSET Keys
      BY DEF Routing, Keys
    <3> QED BY <1>5, <3>1, RaiseTypes DEF PostWrites
  <2>6. OtherTypes'
    BY <1>1, <1>5, <2>3, <2>4 DEF PostWrites, Posts, TypeOK, OtherTypes, process, uart, tasks, watch
  <2> QED BY <1>2, <1>3, <2>5, <2>6, TypeNext
<1> QED BY <1>4, <1>5

(* A task that is resumed.                                                 *)
LEMMA ResumeBasics ==
  ASSUME TypeOK, Order, DownInv, NEW t \in Tasks, Resume(t)
  PROVE  TypeOK' /\ Order' /\ DownInv'
<1>1. step[t] \in DOMAIN Attempts /\ (Ok(t) \/ OutOfTries(t))
  BY Idles DEF Resume, OffsetsApplied, OffsetsSent, TuningSent, LimitsSent, TaskEnds
<1>2. Placed(t) /\ up
  BY <1>1, OutPlaced, Running, Idles
<1>3. /\ UNCHANGED <<version, post, fw, saves, up, stuck, watch, faults, lossy>>
      /\ bootApplied' \in BOOLEAN
  BY DEF Resume, OffsetsApplied, OffsetsSent, TuningSent, LimitsSent, TaskEnds, disk, TypeOK
<1>4. DownInv'
  BY <1>2, <1>3 DEF DownInv
<1>5. ASSUME file' \in [Settings -> Version], open' \in BOOLEAN, held' \in [Tasks -> Version]
      PROVE  OtherTypes'
  BY <1>3, <1>5 DEF TypeOK, OtherTypes, watch
<1>6. CASE OffsetsApplied(t)
  <2>1. CASE Ok(t) /\ step[t] = "offsets" /\ Save(asked[t].val, file["home"])
             /\ Ask(t, "pose", "other", 0) /\ UNCHANGED <<held, history>>
    <3>1. asked[t].val \in Version /\ file["home"] \in Version
      BY <1>1, FileIs DEF Order, TaskInv, Request, Settings
    <3>2. Ask(t, "pose", KeyOf["pose"], 0)
      BY <2>1, Steps
    <3>3. TaskTypes' /\ open' \in BOOLEAN /\ Order'
      BY <1>2, <1>3, <3>2, Idles, Zero, AskTypes, AskOrder
    <3>4. HistoryTypes' /\ held' \in [Tasks -> Version]
      BY <2>1 DEF TypeOK, HistoryTypes, history
    <3>5. file' \in [Settings -> Version]
      BY <2>1, <3>1 DEF TypeOK, Save
    <3> QED BY <1>4, <1>5, <3>3, <3>4, <3>5, TypeNext
  <2>2. CASE OutOfTries(t) /\ End(t) /\ UNCHANGED file
    <3>1. TaskTypes' /\ HistoryTypes' /\ held' \in [Tasks -> Version] /\ Order'
      BY <1>2, <1>3, <2>2, EndTypes, EndOrder
    <3>2. file' \in [Settings -> Version] /\ open' \in BOOLEAN
      BY <2>2 DEF TypeOK, End
    <3> QED BY <1>4, <1>5, <3>1, <3>2, TypeNext
  <2> QED BY <1>6, <2>1, <2>2 DEF OffsetsApplied
<1>7. ASSUME UNCHANGED file PROVE file' \in [Settings -> Version]
  BY <1>7 DEF TypeOK
<1>8. CASE OffsetsSent(t)
  <2>1. ReadAndSendVr(t) /\ UNCHANGED file
    BY <1>8 DEF OffsetsSent, disk
  <2>2. TaskTypes' /\ HistoryTypes' /\ open' \in BOOLEAN /\ Order' /\ held' \in [Tasks -> Version]
    BY <1>2, <1>3, <2>1, ReadAndSendVrBasics
  <2> QED BY <1>4, <1>5, <1>7, <2>1, <2>2, TypeNext
<1>9. ASSUME VrSent(t), UNCHANGED file
      PROVE  TypeOK' /\ Order' /\ DownInv'
  <2>1. TaskTypes' /\ HistoryTypes' /\ open' \in BOOLEAN /\ Order' /\ held' \in [Tasks -> Version]
    BY <1>2, <1>3, <1>9, VrSentBasics
  <2> QED BY <1>4, <1>5, <1>7, <1>9, <2>1, TypeNext
<1>10. CASE TuningSent(t)
  <2>1. CASE Ok(t) /\ Ask(t, "limits", "limits", held[t]) /\ UNCHANGED <<held, history>>
    <3>1. held[t] \in Version
      BY DEF TypeOK
    <3>2. Ask(t, "limits", KeyOf["limits"], held[t])
      BY <2>1, Steps
    <3>3. TaskTypes' /\ open' \in BOOLEAN /\ Order'
      BY <1>2, <1>3, <3>1, <3>2, Idles, AskTypes, AskOrder
    <3>4. HistoryTypes' /\ held' \in [Tasks -> Version]
      BY <2>1 DEF TypeOK, HistoryTypes, history
    <3>5. UNCHANGED file
      BY <1>10 DEF TuningSent, disk
    <3> QED BY <1>4, <1>5, <1>7, <3>3, <3>4, <3>5, TypeNext
  <2>2. CASE OutOfTries(t) /\ VrSent(t)
    BY <1>9, <1>10, <2>2 DEF TuningSent, disk
  <2> QED BY <1>10, <2>1, <2>2 DEF TuningSent
<1>11. CASE LimitsSent(t)
  BY <1>9, <1>11 DEF LimitsSent, disk
<1>12. CASE TaskEnds(t)
  <2>1. End(t) /\ UNCHANGED file
    BY <1>12 DEF TaskEnds, disk
  <2>2. TaskTypes' /\ HistoryTypes' /\ held' \in [Tasks -> Version] /\ Order'
    BY <1>2, <1>3, <2>1, EndTypes, EndOrder
  <2>3. open' \in BOOLEAN
    BY <2>1 DEF TypeOK, End
  <2> QED BY <1>4, <1>5, <1>7, <2>1, <2>2, <2>3, TypeNext
<1> QED BY <1>6, <1>8, <1>10, <1>11, <1>12 DEF Resume

(* Retries, time limits, BOOT_READY and the start of the server.           *)
LEMMA SyncBasics ==
  ASSUME TypeOK, Order, DownInv, BootSync \/ StartupSync
  PROVE  TypeOK' /\ Order' /\ DownInv'
<1>1. UNCHANGED <<disk, fw, saves, up, bootApplied, stuck, watch, faults, lossy>>
  BY DEF BootSync, StartupSync
<1>2. ASSUME open' \in BOOLEAN, held' \in [Tasks -> Version]
      PROVE  OtherTypes'
  BY <1>1, <1>2 DEF TypeOK, OtherTypes, disk, watch
<1>3. up
  BY SomeTasks, Running DEF BootSync, StartupSync
<1>4. DownInv'
  BY <1>1, <1>3 DEF DownInv
<1>5. held \in [Tasks -> Version]
  BY DEF TypeOK
<1>6. CASE BootSync
  <2>1. SendOffsets("boot") /\ Placed("boot") /\ UNCHANGED held
    BY <1>6, RestPlaced, SomeTasks DEF BootSync
  <2>2. TaskTypes' /\ HistoryTypes' /\ open' \in BOOLEAN /\ Order'
    BY <1>1, <2>1, SomeTasks, SendOffsetsBasics
  <2> QED BY <1>2, <1>4, <1>5, <2>1, <2>2, TypeNext
<1>7. CASE StartupSync
  <2>1. Placed("startup")
    BY <1>7, RestPlaced, SomeTasks DEF StartupSync
  <2>2. CASE End("startup")
    <3>1. TaskTypes' /\ HistoryTypes' /\ held' \in [Tasks -> Version] /\ Order'
      BY <1>1, <2>1, <2>2, SomeTasks, EndTypes, EndOrder
    <3>2. open' \in BOOLEAN
      BY <2>2 DEF TypeOK, End
    <3> QED BY <1>2, <1>4, <3>1, <3>2, TypeNext
  <2>3. CASE SendOffsets("startup") /\ UNCHANGED held
    <3>1. TaskTypes' /\ HistoryTypes' /\ open' \in BOOLEAN /\ Order'
      BY <1>1, <2>1, <2>3, SomeTasks, SendOffsetsBasics
    <3> QED BY <1>2, <1>4, <1>5, <2>3, <3>1, TypeNext
  <2> QED BY <1>7, <2>2, <2>3 DEF StartupSync
<1> QED BY <1>6, <1>7

LEMMA TaskBasics ==
  ASSUME TypeOK, Order, DownInv, NEW t \in Tasks, Retry(t) \/ GiveUp(t)
  PROVE  TypeOK' /\ Order' /\ DownInv'
<1>1. UNCHANGED <<disk, fw, saves, process, stuck, held, watch, step>>
  BY DEF Retry, GiveUp
<1>2. DownInv'
  BY <1>1 DEF DownInv, process
<1>3. CASE Retry(t)
  <2>1. HistoryTypes' /\ OtherTypes'
    BY <1>1, <1>3 DEF Retry, TypeOK, HistoryTypes, OtherTypes, disk, process, watch, history
  <2> QED BY <1>2, <1>3, <2>1, RetryOrder, TypeNext
<1>4. CASE GiveUp(t)
  <2>1. faults' \in 0 .. MaxFaults /\ lossy' \in BOOLEAN
    BY <1>4, FaultTypes DEF GiveUp
  <2>2. OtherTypes'
    BY <1>1, <2>1 DEF TypeOK, OtherTypes, disk, process, watch
  <2>3. HistoryTypes'
    BY <1>4, LeftOpenIs, RaiseTypes DEF GiveUp
  <2> QED BY <1>2, <1>4, <2>2, <2>3, GiveUpOrder, TypeNext
<1> QED BY <1>3, <1>4

(* The firmware.                                                           *)
LEMMA FirmwareBasics ==
  ASSUME TypeOK, Order, DownInv, Serve \/ ServeLost \/ FirmwareResets
  PROVE  TypeOK' /\ Order' /\ DownInv'
<1>1. UNCHANGED <<disk, saves, up, open, held, watch>>
  BY DEF Serve, ServeLost, FirmwareResets, process, tasks
<1>2. ASSUME fw' \in [Keys -> Version], stuck' \in BOOLEAN, bootApplied' \in BOOLEAN,
             faults' \in 0 .. MaxFaults, lossy' \in BOOLEAN
      PROVE  OtherTypes'
  BY <1>1, <1>2 DEF TypeOK, OtherTypes, disk, watch
<1>3. stuck \in BOOLEAN /\ bootApplied \in BOOLEAN /\ faults \in 0 .. MaxFaults /\ lossy \in BOOLEAN
  BY DEF TypeOK
<1>4. CASE Serve
  <2>1. UNCHANGED <<step, process, stuck, faults, lossy>>
    BY <1>4 DEF Serve
  <2>2. UNCHANGED bootApplied /\ DownInv'
    BY <2>1 DEF DownInv, process
  <2> QED BY <1>2, <1>3, <1>4, <2>1, <2>2, ServeOrder, TypeNext
<1>5. CASE ServeLost
  <2>1. faults' \in 0 .. MaxFaults /\ lossy' \in BOOLEAN
    BY <1>5, FaultTypes DEF ServeLost
  <2>2. UNCHANGED bootApplied /\ DownInv'
    BY <1>5 DEF ServeLost, DownInv, process
  <2>3. HistoryTypes'
    BY <1>5, LeftOpenIs, RaiseTypes DEF ServeLost
  <2> QED BY <1>2, <1>3, <1>5, <2>1, <2>2, <2>3, ServeLostOrder, TypeNext
<1>6. CASE FirmwareResets
  <2>1. faults' \in 0 .. MaxFaults /\ lossy' \in BOOLEAN /\ stuck' = stuck
    BY <1>6, FaultTypes DEF FirmwareResets, uart
  <2>2. fw' \in [Keys -> Version]
    BY <1>6, Zero DEF FirmwareResets
  <2>3. HistoryTypes'
    BY <1>6, RaiseTypes DEF FirmwareResets
  <2>4. TaskTypes' /\ bootApplied' \in BOOLEAN /\ Order'
    BY <1>6, BootOrder DEF FirmwareResets
  <2>5. DownInv'
    BY <1>1, <1>6 DEF FirmwareResets, DownInv
  <2> QED BY <1>2, <1>3, <2>1, <2>2, <2>3, <2>4, <2>5, TypeNext
<1> QED BY <1>4, <1>5, <1>6

(* The poll and the life of the server.                                    *)
LEMMA ServerBasics ==
  ASSUME TypeOK, Order, DownInv, Polling \/ Crash \/ Start
  PROVE  TypeOK' /\ Order' /\ DownInv'
<1>1. UNCHANGED <<disk, fw, saves>>
  BY DEF Polling, PollAnswered, PollLost, PollFails, HardRestart, RestartAges, Crash, Start,
         ProcessEnds
<1>2. CASE PollAnswered \/ PollFails \/ RestartAges
  <2>1. UNCHANGED <<tasks, uart, history, up, bootApplied, faults, lossy>>
    BY <1>2 DEF PollAnswered, PollFails, RestartAges, process
  <2>2. TaskTypes' /\ HistoryTypes' /\ Order' /\ DownInv'
    BY <2>1 DEF TypeOK, TaskTypes, HistoryTypes, Order, TaskInv, QueueInv, ReadyInv, DownInv,
                tasks, uart, history
  <2>3. failures' \in 0 .. PollLimit /\ recent' \in BOOLEAN /\ open' \in BOOLEAN
    <3>1. failures \in 0 .. PollLimit /\ recent \in BOOLEAN /\ open \in BOOLEAN
      BY DEF TypeOK
    <3>2. failures' \in {0, failures} \/ (failures < PollLimit /\ failures' = failures + 1)
      BY <1>2 DEF PollAnswered, PollFails, RestartAges
    <3>3. recent' \in {recent, FALSE} /\ open' \in {open, TRUE}
      BY <1>2 DEF PollAnswered, PollFails, RestartAges, process
    <3>4. failures' \in 0 .. PollLimit
      BY <3>1, <3>2
    <3>5. recent' \in BOOLEAN /\ open' \in BOOLEAN
      BY <3>1, <3>3, Zenon
    <3> QED BY <3>4, <3>5
  <2>4. OtherTypes'
    BY <1>1, <2>1, <2>3 DEF TypeOK, OtherTypes, disk, tasks, uart
  <2> QED BY <2>2, <2>4, TypeNext
<1>3. CASE PollLost
  <2>1. /\ UNCHANGED <<tasks, history, watch, up, bootApplied>> /\ queue' = <<>>
        /\ open' = TRUE /\ stuck' = TRUE
    BY <1>3 DEF PollLost
  <2>2. faults' \in 0 .. MaxFaults /\ lossy' \in BOOLEAN
    BY <1>3, FaultTypes DEF PollLost
  <2>3. TaskTypes' /\ Order'
    BY <2>1, BlockedOrder
  <2>4. HistoryTypes' /\ DownInv'
    BY <2>1 DEF TypeOK, HistoryTypes, DownInv, tasks, history
  <2>5. OtherTypes'
    BY <1>1, <2>1, <2>2 DEF TypeOK, OtherTypes, disk, tasks, watch
  <2> QED BY <2>3, <2>4, <2>5, TypeNext
<1>4. CASE HardRestart \/ Crash
  <2>1. ProcessEnds
    BY <1>4 DEF HardRestart, Crash
  <2>2. faults' \in 0 .. MaxFaults /\ lossy' \in BOOLEAN /\ recent' \in BOOLEAN
    BY <1>4, FaultTypes DEF HardRestart, Crash, TypeOK
  <2>3. OtherTypes'
    BY <1>1, <2>1, <2>2, EndsOrder DEF TypeOK, OtherTypes, disk
  <2> QED BY <2>1, <2>3, EndsOrder, TypeNext
<1>5. CASE Start
  <2>1. /\ UNCHANGED <<open, bootApplied, uart, held, watch, faults, history, lossy>>
        /\ ~up /\ up' = TRUE
    BY <1>5 DEF Start
  <2>2. step["startup"] = "idle"
    BY <2>1, SomeTasks DEF DownInv
  <2>3. DownInv' /\ HistoryTypes'
    BY <2>1 DEF DownInv, TypeOK, HistoryTypes, history
  <2>4. OtherTypes'
    BY <1>1, <2>1 DEF TypeOK, OtherTypes, disk, uart, watch
  <2> QED BY <1>5, <2>2, <2>3, <2>4, StartOrder, TypeNext
<1> QED BY <1>2, <1>3, <1>4, <1>5 DEF Polling

LEMMA BasicStep == TypeOK /\ Order /\ DownInv /\ [Next]_vars => TypeOK' /\ Order' /\ DownInv'
<1> SUFFICES ASSUME TypeOK, Order, DownInv, [Next]_vars PROVE TypeOK' /\ Order' /\ DownInv'
  OBVIOUS
<1>1. CASE UNCHANGED vars
  BY <1>1 DEF vars, disk, process, uart, tasks, watch, history, TypeOK, Order, TaskInv, QueueInv,
              ReadyInv, DownInv
<1> QED BY <1>1, PageBasics, PostBasics, TaskBasics, ResumeBasics, SyncBasics, ServerBasics,
           FirmwareBasics DEF Next

LEMMA BasicInit == Init => TypeOK /\ Order /\ DownInv
<1> SUFFICES ASSUME Init PROVE Order /\ DownInv
  BY TypeInit
<1> QED BY Idles DEF Init, Order, TaskInv, QueueInv, ReadyInv, DownInv

(***************************************************************************)
(* Which task writes what, when a task asks for something or ends.         *)
(***************************************************************************)
Wants(s, k) == KeyOf[s] = k \/ (k = "limits" /\ s = "tuning")

(* The history only becomes more careful, but for task t.                  *)
Grows(t) ==
  /\ doubt \subseteq doubt'
  /\ \A u \in Tasks \ {t} : step[u] # "idle" => unsure[u] \subseteq unsure'[u]

LEMMA WriterIs ==
  ASSUME Order, NEW t \in Tasks, NEW k \in Keys,
         Writes(t, k) \/ Repeats(t) \/ k \in LeftOpen(asked[t])
  PROVE  step[t] \in DOMAIN Attempts /\ step[t] # "idle" /\ asked[t] \in Request
<1>1. step[t] \in DOMAIN Attempts
  <2>1. k \notin LeftOpen(NoRequest)
    BY DEF LeftOpen, NoRequest, Routing, Keys
  <2>2. ~(0 > 0)
    OBVIOUS
  <2> QED BY <2>1, <2>2 DEF Order, TaskInv, Writes, Repeats, Failed
<1> QED BY <1>1, Idles DEF Order, TaskInv

LEMMA LeftOpenOf ==
  ASSUME NEW r \in Request, NEW k \in Keys
  PROVE  k \in LeftOpen(r) <=> r.key = k \/ (r.key \in Routing /\ k \in Routing)
BY DEF LeftOpen, Routing, Keys

LEMMA LastMember ==
  ASSUME NEW X, NEW s \in Seq(X), NEW S, NEW e \in LastIn(s, S)
  PROVE  e \in S /\ e \in X /\ \E i \in DOMAIN s : s[i] = e
BY LastIs

LEMMA AskIs ==
  ASSUME TypeOK, NEW t \in Tasks, NEW s \in DOMAIN Attempts, NEW val \in Version,
         Ask(t, s, KeyOf[s], val)
  PROVE  LET r == [by |-> t, key |-> KeyOf[s], val |-> val] IN
         /\ r \in Request /\ queue' = Enqueue(r) /\ ready' = NoLongerReady(t)
         /\ asked'[t] = r /\ asked'[t].key = KeyOf[s] /\ asked'[t].val = val
         /\ asked'[t] \in Request
         /\ reply'[t] = "pending" /\ tries'[t] = 0 /\ step'[t] = s
         /\ \A u \in Tasks \ {t} : /\ asked'[u] = asked[u] /\ reply'[u] = reply[u]
                                   /\ tries'[u] = tries[u] /\ step'[u] = step[u]
<1>1. [by |-> t, key |-> KeyOf[s], val |-> val] \in Request
  BY Steps DEF Request
<1> QED BY <1>1 DEF Ask, TypeOK

LEMMA EndIs ==
  ASSUME TypeOK, NEW t \in Tasks, End(t)
  PROVE  /\ queue' = queue /\ ready' = NoLongerReady(t)
         /\ asked'[t] = NoRequest /\ reply'[t] = "none" /\ tries'[t] = 0 /\ step'[t] = "idle"
         /\ \A u \in Tasks \ {t} : /\ asked'[u] = asked[u] /\ reply'[u] = reply[u]
                                   /\ tries'[u] = tries[u] /\ step'[u] = step[u]
                                   /\ held'[u] = held[u]
         /\ Grows(t)
BY DEF End, TypeOK, Grows

LEMMA AskWrites ==
  ASSUME TypeOK, NEW t \in Tasks, NEW s \in DOMAIN Attempts, NEW val \in Version,
         Ask(t, s, KeyOf[s], val), NEW k
  PROVE  /\ \A u \in Tasks \ {t} : Writes(u, k)' <=> Writes(u, k)
         /\ Writes(t, k)' <=> Wants(s, k)
<1>1. KeyOf["tuning"] = "tuning"
  BY Steps
<1>2. /\ asked'[t].key = KeyOf[s] /\ reply'[t] = "pending" /\ step'[t] = s
      /\ \A u \in Tasks \ {t} : asked'[u] = asked[u] /\ reply'[u] = reply[u] /\ step'[u] = step[u]
  BY AskIs
<1>3. Writes(t, k)' <=> Wants(s, k)
  BY <1>1, <1>2 DEF Writes, Wants
<1>4. ASSUME NEW u \in Tasks \ {t} PROVE Writes(u, k)' <=> Writes(u, k)
  BY <1>2 DEF Writes
<1> QED BY <1>3, <1>4

LEMMA AskUnsettled ==
  ASSUME TypeOK, Order, NEW t \in Tasks, NEW s \in DOMAIN Attempts, NEW val \in Version,
         Ask(t, s, KeyOf[s], val), Grows(t), NEW k \in Keys, Unsettled(k),
         Wants(s, k) => k \in unsure'[t]
  PROVE  Unsettled(k)'
<1>1. ASSUME NEW u \in Tasks, Writes(u, k)' PROVE k \in unsure'[u]
  <2>1. CASE u = t
    BY <1>1, <2>1, AskWrites
  <2>2. CASE u # t
    <3>1. Writes(u, k) /\ k \in unsure[u]
      BY <1>1, <2>2, AskWrites DEF Unsettled
    <3> QED BY <2>2, <3>1, WriterIs DEF Grows
  <2> QED BY <2>1, <2>2
<1> QED BY <1>1 DEF Unsettled, Grows

LEMMA AskRepeat ==
  ASSUME TypeOK, Order, NEW t \in Tasks, NEW s \in DOMAIN Attempts, NEW val \in Version,
         Ask(t, s, KeyOf[s], val), Grows(t), RepeatInv,
         \A u \in Tasks \ {t} : \A k \in Keys :
           Repeats(u) /\ k \in LeftOpen(asked[u]) /\ Wants(s, k) => k \in unsure'[t]
  PROVE  RepeatInv'
<1> SUFFICES ASSUME NEW u \in Tasks, Repeats(u)', NEW k \in LeftOpen(asked[u])'
             PROVE  Unsettled(k)' /\ k \in unsure'[u]
  BY DEF RepeatInv
<1>1. k \in Keys
  BY LeftOpenIs
<1>a. /\ reply'[t] = "pending" /\ tries'[t] = 0
      /\ \A v \in Tasks \ {t} : asked'[v] = asked[v] /\ reply'[v] = reply[v] /\ tries'[v] = tries[v]
  BY AskIs
<1>2. CASE u = t
  BY <1>a, <1>2 DEF Repeats, Failed
<1>3. CASE u # t
  <2>1. Repeats(u) /\ k \in LeftOpen(asked[u])
    <3>1. asked'[u] = asked[u] /\ reply'[u] = reply[u] /\ tries'[u] = tries[u]
      BY <1>a, <1>3
    <3> QED BY <3>1 DEF Repeats, Failed
  <2>2. Unsettled(k) /\ k \in unsure[u]
    BY <2>1 DEF RepeatInv
  <2>3. k \in unsure'[u]
    BY <1>1, <1>3, <2>1, <2>2, WriterIs DEF Grows
  <2>4. Unsettled(k)'
    BY <1>1, <1>3, <2>1, <2>2, AskUnsettled
  <2> QED BY <2>3, <2>4
<1> QED BY <1>2, <1>3

LEMMA AskGone ==
  ASSUME TypeOK, Order, NEW t \in Tasks, NEW s \in DOMAIN Attempts, NEW val \in Version,
         Ask(t, s, KeyOf[s], val), Placed(t), Grows(t), GoneInv
  PROVE  GoneInv'
<1> DEFINE r == [by |-> t, key |-> KeyOf[s], val |-> val]
<1>1. r \in Request /\ queue' = Enqueue(r) /\ r.by # "gone"
  BY AskIs, SomeTasks
<1> HIDE DEF r
<1>2. CASE stuck
  <2>1. queue' = queue /\ queue = <<>>
    BY <1>1, <1>2 DEF Enqueue, Order, QueueInv
  <2> QED BY <2>1 DEF GoneInv
<1>3. CASE ~stuck
  <2>1. /\ queue' = Append(queue, r) /\ Len(queue) \in Nat
        /\ DOMAIN queue = 1 .. Len(queue) /\ DOMAIN queue' = 1 .. Len(queue) + 1
        /\ \A i \in 1 .. Len(queue) : queue'[i] = queue[i]
        /\ queue'[Len(queue) + 1] = r
    BY <1>1, <1>3, AppendProperties DEF Enqueue, TypeOK
  <2>2. ASSUME NEW i \in DOMAIN queue', queue'[i].by = "gone", queue'[i].key \in Keys
        PROVE  /\ queue'[i].key \in doubt'
               /\ \A j \in 1 .. i : queue'[j].by # "gone" /\ queue'[j].key = queue'[i].key
                                      => queue'[j].key \in unsure'[queue'[j].by]
    <3>1. i \in DOMAIN queue /\ queue'[i] = queue[i]
      BY <1>1, <2>1, <2>2
    <3>2. queue'[i].key \in doubt'
      BY <2>2, <3>1 DEF GoneInv, Grows
    <3>3. ASSUME NEW j \in 1 .. i, queue'[j].by # "gone", queue'[j].key = queue'[i].key
          PROVE  queue'[j].key \in unsure'[queue'[j].by]
      <4>1. j \in DOMAIN queue /\ queue'[j] = queue[j] /\ queue[j] \in Request
        BY <2>1, <3>1 DEF TypeOK
      <4>2. queue[j].key \in unsure[queue[j].by]
        BY <2>2, <3>1, <3>3, <4>1 DEF GoneInv
      <4>3. queue[j].by \in Tasks \ {t} /\ asked[queue[j].by] = queue[j]
            /\ reply[queue[j].by] = "pending"
        BY <3>3, <4>1, NotQueued DEF Request, Order, QueueInv, Placed
      <4>4. Writes(queue[j].by, queue[j].key) /\ queue[j].key \in Keys
        BY <2>2, <3>3, <4>1, <4>3 DEF Writes
      <4>5. step[queue[j].by] # "idle"
        BY <4>3, <4>4, WriterIs
      <4> QED BY <4>1, <4>2, <4>3, <4>5 DEF Grows
    <3> QED BY <3>2, <3>3
  <2> QED BY <2>2 DEF GoneInv
<1> QED BY <1>2, <1>3

(***************************************************************************)
(* A setting that a task does not ask to write.                            *)
(***************************************************************************)
LEMMA QueueElse ==
  ASSUME TypeOK, NEW r \in Request, NEW S, r \notin S
  PROVE  /\ LastIn(Enqueue(r), S) = LastIn(queue, S)
         /\ NoneIn(Enqueue(r), S) <=> NoneIn(queue, S)
BY LastAppendElse DEF Enqueue, TypeOK

LEMMA QueueThis ==
  ASSUME TypeOK, NEW r \in Request, NEW S, r \in S, ~stuck
  PROVE  LastIn(Enqueue(r), S) = {r} /\ ~NoneIn(Enqueue(r), S)
BY LastAppendThis DEF Enqueue, TypeOK

(* What the setting depends on of the queue and of the tasks is the same.  *)
LEMMA AgreesSame ==
  ASSUME TypeOK, NEW k \in Keys, fw'[k] = fw[k], file'[k] = file[k],
         LastIn(queue', For(k)) = LastIn(queue, For(k)),
         NoneIn(queue', For(k)) <=> NoneIn(queue, For(k)),
         k = "offsets" =>
           /\ ~Overtaken => ~Overtaken'
           /\ LastIn(ready', Applying') = LastIn(ready, Applying)
           /\ NoneIn(ready', Applying') <=> NoneIn(ready, Applying)
           /\ \A p \in LastIn(ready, Applying) : asked'[p].val = asked[p].val,
         k = "limits" =>
           /\ LastIn(queue', Tuning) = LastIn(queue, Tuning)
           /\ NoneIn(queue', Tuning) <=> NoneIn(queue, Tuning)
           /\ LastIn(ready', At("tuning")') = LastIn(ready, At("tuning"))
           /\ NoneIn(ready', At("tuning")') <=> NoneIn(ready, At("tuning"))
           /\ \A r \in LastIn(queue, Tuning) : held'[r.by] = held[r.by]
           /\ \A t \in LastIn(ready, At("tuning")) : held'[t] = held[t],
         Agrees(k)
  PROVE  Agrees(k)'
<1>1. ASSUME PlainAgrees(k) PROVE PlainAgrees(k)'
  BY <1>1 DEF PlainAgrees
<1>2. CASE k \in {"tuning", "pwm"}
  BY <1>1, <1>2 DEF Agrees
<1>3. CASE k = "offsets"
  <2>1. OffsetsAgree'
    BY <1>3 DEF Agrees, OffsetsAgree
  <2> QED BY <1>3, <2>1 DEF Agrees
<1>4. CASE k = "limits"
  <2>1. LimitsAgree'
    BY <1>1, <1>4 DEF Agrees, LimitsAgree
  <2> QED BY <1>4, <2>1 DEF Agrees
<1> QED BY <1>2, <1>3, <1>4 DEF Keys

LEMMA ReadyNot ==
  ASSUME TypeOK, Order, NEW t \in Tasks, Failed(t)
  PROVE  \A i \in DOMAIN ready : ready[i] # t
<1>1. step[t] # "booted"
  BY Steps DEF Order, TaskInv, Failed
<1> QED BY <1>1 DEF Order, ReadyInv, Failed

LEMMA AskAgreesElse ==
  ASSUME TypeOK, Order, NEW t \in Tasks, NEW s \in DOMAIN Attempts, NEW val \in Version,
         Ask(t, s, KeyOf[s], val), Placed(t), NEW k \in Keys, ~Wants(s, k),
         fw'[k] = fw[k], file'[k] = file[k], \A u \in Tasks \ {t} : held'[u] = held[u],
         k = "offsets" => t \notin Pages \/ step[t] # "offsets",
         k = "limits" => step[t] # "tuning" \/ Failed(t),
         Agrees(k)
  PROVE  Agrees(k)'
<1> DEFINE r == [by |-> t, key |-> KeyOf[s], val |-> val]
<1>1. /\ r \in Request /\ queue' = Enqueue(r) /\ ready' = NoLongerReady(t) /\ step'[t] = s
      /\ \A u \in Tasks \ {t} : asked'[u] = asked[u] /\ step'[u] = step[u]
  BY AskIs
<1>2. KeyOf[s] # k /\ r.key # k /\ r \notin For(k)
  BY DEF Wants, For
<1>3. LastIn(queue', For(k)) = LastIn(queue, For(k)) /\ (NoneIn(queue', For(k)) <=> NoneIn(queue, For(k)))
  BY <1>1, <1>2, QueueElse
<1>4. ASSUME k = "offsets"
      PROVE  /\ ~Overtaken => ~Overtaken'
             /\ LastIn(ready', Applying') = LastIn(ready, Applying)
             /\ NoneIn(ready', Applying') <=> NoneIn(ready, Applying)
             /\ \A p \in LastIn(ready, Applying) : asked'[p].val = asked[p].val
  <2>1. s # "offsets"
    BY <1>2, <1>4, Steps
  <2>2. t \notin Applying /\ \A u \in Tasks \ {t} : u \in Applying <=> u \in Applying'
    BY <1>1, <1>4 DEF Applying, At
  <2>3. ~Overtaken => ~Overtaken'
    BY <1>1, <2>1 DEF Overtaken, Tasks
  <2>4. /\ LastIn(ready', Applying') = LastIn(ready, Applying)
        /\ NoneIn(ready', Applying') <=> NoneIn(ready, Applying)
    BY <1>1, <2>2, ReadyLast
  <2>5. \A p \in LastIn(ready, Applying) : asked'[p].val = asked[p].val
    <3>1. \A p \in LastIn(ready, Applying) : p \in Applying /\ p \in Tasks
      BY LastMember DEF TypeOK
    <3> QED BY <1>1, <2>2, <3>1
  <2> QED BY <2>3, <2>4, <2>5
<1>5. ASSUME k = "limits"
      PROVE  /\ LastIn(queue', Tuning) = LastIn(queue, Tuning)
             /\ NoneIn(queue', Tuning) <=> NoneIn(queue, Tuning)
             /\ LastIn(ready', At("tuning")') = LastIn(ready, At("tuning"))
             /\ NoneIn(ready', At("tuning")') <=> NoneIn(ready, At("tuning"))
             /\ \A q \in LastIn(queue, Tuning) : held'[q.by] = held[q.by]
             /\ \A u \in LastIn(ready, At("tuning")) : held'[u] = held[u]
  <2>1. s # "tuning" /\ KeyOf[s] # "tuning" /\ r \notin Tuning
    <3>1. s # "tuning"
      BY <1>5 DEF Wants
    <3>2. KeyOf[s] # "tuning"
      BY <3>1, Steps
    <3> QED BY <3>1, <3>2 DEF Tuning, For
  <2>2. LastIn(queue', Tuning) = LastIn(queue, Tuning) /\ (NoneIn(queue', Tuning) <=> NoneIn(queue, Tuning))
    BY <1>1, <2>1, QueueElse
  <2>3. /\ t \notin At("tuning") \/ Failed(t)
        /\ \A u \in Tasks \ {t} : u \in At("tuning") <=> u \in At("tuning")'
    BY <1>1, <1>5 DEF At
  <2>4. /\ LastIn(ready', At("tuning")') = LastIn(ready, At("tuning"))
        /\ NoneIn(ready', At("tuning")') <=> NoneIn(ready, At("tuning"))
    BY <1>1, <2>3, ReadyLast
  <2>5. \A q \in LastIn(queue, Tuning) : held'[q.by] = held[q.by]
    <3>1. ASSUME NEW q \in LastIn(queue, Tuning) PROVE q.by \in Tasks \ {t}
      <4>1. q \in Tuning /\ q \in Request /\ \E i \in DOMAIN queue : queue[i] = q
        BY LastMember DEF TypeOK
      <4>2. q.by # t
        BY <4>1, NotQueued DEF Placed
      <4> QED BY <4>1, <4>2 DEF Tuning, Request
    <3> QED BY <3>1
  <2>6. \A u \in LastIn(ready, At("tuning")) : held'[u] = held[u]
    <3>1. ASSUME NEW u \in LastIn(ready, At("tuning")) PROVE u \in Tasks \ {t}
      <4>1. u \in At("tuning") /\ u \in Tasks /\ \E i \in DOMAIN ready : ready[i] = u
        BY LastMember DEF TypeOK
      <4>2. u # t
        BY <2>3, <4>1, ReadyNot
      <4> QED BY <4>1, <4>2
    <3> QED BY <3>1
  <2> QED BY <2>2, <2>4, <2>5, <2>6
<1> QED BY <1>3, <1>4, <1>5, AgreesSame

LEMMA AskWaits ==
  ASSUME TypeOK, Order, NEW t \in Tasks, NEW s \in DOMAIN Attempts, NEW val \in Version,
         Ask(t, s, KeyOf[s], val), Placed(t), NEW k \in Keys
  PROVE  (Waits(k) => Waits(k)') /\ (Wants(s, k) => Waits(k)')
<1>1. /\ asked'[t] \in Request /\ asked'[t].key = KeyOf[s] /\ reply'[t] = "pending"
      /\ \A u \in Tasks \ {t} : asked'[u] = asked[u] /\ reply'[u] = reply[u]
  BY AskIs
<1>2. ASSUME Waits(k) PROVE Waits(k)'
  <2>1. PICK u \in Tasks : reply[u] = "pending" /\ k \in LeftOpen(asked[u])
    BY <1>2 DEF Waits
  <2>2. u # t
    BY <2>1 DEF Placed
  <2> QED BY <1>1, <2>1, <2>2 DEF Waits
<1>3. ASSUME Wants(s, k) PROVE Waits(k)'
  <2>1. asked'[t].key = k \/ (asked'[t].key \in Routing /\ k \in Routing)
    BY <1>1, <1>3, Steps DEF Wants, Routing
  <2>2. k \in LeftOpen(asked'[t])
    BY <1>1, <2>1, LeftOpenOf
  <2> QED BY <1>1, <2>2 DEF Waits
<1> QED BY <1>2, <1>3

LEMMA AskFollowsElse ==
  ASSUME TypeOK, Order, NEW t \in Tasks, NEW s \in DOMAIN Attempts, NEW val \in Version,
         Ask(t, s, KeyOf[s], val), Placed(t), Grows(t), UNCHANGED stuck,
         NEW k \in Keys, ~Wants(s, k),
         fw'[k] = fw[k], file'[k] = file[k], \A u \in Tasks \ {t} : held'[u] = held[u],
         k = "offsets" => t \notin Pages \/ step[t] # "offsets",
         k = "limits" => step[t] # "tuning" \/ Failed(t),
         Follows(k)
  PROVE  Follows(k)'
<1>1. CASE Unsettled(k)
  BY <1>1, AskUnsettled DEF Follows
<1>2. CASE Agrees(k)
  BY <1>2, AskAgreesElse DEF Follows
<1>3. CASE stuck /\ (k \in doubt \/ Waits(k))
  BY <1>3, AskWaits DEF Follows, Grows
<1> QED BY <1>1, <1>2, <1>3 DEF Follows

LEMMA EndRepeat ==
  ASSUME TypeOK, Order, NEW t \in Tasks, End(t), RepeatInv, GoneInv, Placed(t)
  PROVE  /\ \A k \in Keys : Unsettled(k) => Unsettled(k)'
         /\ RepeatInv' /\ GoneInv'
<1>1. /\ asked'[t] = NoRequest /\ reply'[t] = "none" /\ tries'[t] = 0 /\ queue' = queue
      /\ \A u \in Tasks \ {t} : /\ asked'[u] = asked[u] /\ reply'[u] = reply[u]
                                /\ tries'[u] = tries[u] /\ step'[u] = step[u]
  BY EndIs
<1>2. doubt' = doubt /\ \A u \in Tasks \ {t} : unsure'[u] = unsure[u]
  BY DEF End, TypeOK
<1>3. ASSUME NEW k \in Keys, Unsettled(k) PROVE Unsettled(k)'
  <2>1. ASSUME NEW u \in Tasks, Writes(u, k)' PROVE k \in unsure'[u]
    <3>1. u # t
      BY <1>1, <2>1 DEF Writes
    <3>2. Writes(u, k)
      BY <1>1, <2>1, <3>1 DEF Writes
    <3> QED BY <1>2, <1>3, <3>1, <3>2 DEF Unsettled
  <2> QED BY <1>2, <1>3, <2>1 DEF Unsettled
<1>4. RepeatInv'
  <2> SUFFICES ASSUME NEW u \in Tasks, Repeats(u)', NEW k \in LeftOpen(asked[u])'
               PROVE  Unsettled(k)' /\ k \in unsure'[u]
    BY DEF RepeatInv
  <2>1. u # t
    BY <1>1 DEF Repeats, Failed
  <2>2. asked'[u] = asked[u] /\ reply'[u] = reply[u] /\ tries'[u] = tries[u] /\ k \in Keys
    BY <1>1, <2>1, LeftOpenIs
  <2>3. Unsettled(k) /\ k \in unsure[u]
    BY <2>2 DEF RepeatInv, Repeats, Failed
  <2> QED BY <1>2, <1>3, <2>1, <2>2, <2>3
<1>5. GoneInv'
  <2>1. ASSUME NEW i \in DOMAIN queue, NEW j \in 1 .. i, queue[j].by # "gone"
        PROVE  unsure'[queue[j].by] = unsure[queue[j].by]
    <3>1. j \in DOMAIN queue /\ queue[j] \in Request
      BY DEF TypeOK
    <3>2. queue[j].by \in Tasks \ {t}
      BY <2>1, <3>1, NotQueued DEF Request, Placed
    <3> QED BY <1>2, <3>2
  <2> QED BY <1>1, <1>2, <2>1 DEF GoneInv
<1> QED BY <1>3, <1>4, <1>5

LEMMA EndFollows ==
  ASSUME TypeOK, Order, NEW t \in Tasks, End(t), Placed(t), RepeatInv, GoneInv, UNCHANGED stuck,
         NEW k \in Keys, fw'[k] = fw[k], file'[k] = file[k],
         step[t] \in {"offsets", "tuning"} => Failed(t),
         Follows(k)
  PROVE  Follows(k)'
<1>1. /\ ready' = NoLongerReady(t) /\ step'[t] = "idle" /\ reply'[t] = "none" /\ queue' = queue
      /\ \A u \in Tasks \ {t} : /\ asked'[u] = asked[u] /\ step'[u] = step[u]
                                /\ reply'[u] = reply[u] /\ held'[u] = held[u]
  BY EndIs
<1>2. CASE Unsettled(k)
  BY <1>2, EndRepeat DEF Follows
<1>3. CASE Agrees(k)
  <2>1. ~Overtaken => ~Overtaken'
    BY <1>1 DEF Overtaken, Tasks
  <2>2. t \notin Applying \/ Failed(t)
    BY DEF Applying, At
  <2>3. t \notin At("tuning") \/ Failed(t)
    BY DEF At
  <2>4. \A u \in Tasks \ {t} : (u \in Applying <=> u \in Applying') /\ (u \in At("tuning") <=> u \in At("tuning")')
    BY <1>1 DEF Applying, At
  <2>5. /\ LastIn(ready', Applying') = LastIn(ready, Applying)
        /\ NoneIn(ready', Applying') <=> NoneIn(ready, Applying)
    BY <1>1, <2>2, <2>4, ReadyLast
  <2>6. /\ LastIn(ready', At("tuning")') = LastIn(ready, At("tuning"))
        /\ NoneIn(ready', At("tuning")') <=> NoneIn(ready, At("tuning"))
    BY <1>1, <2>3, <2>4, ReadyLast
  <2>7. ASSUME NEW u \in LastIn(ready, Applying) \cup LastIn(ready, At("tuning"))
        PROVE  u \in Tasks \ {t}
    <3>1. u \in Applying \cup At("tuning") /\ u \in Tasks /\ \E i \in DOMAIN ready : ready[i] = u
      BY LastMember DEF TypeOK
    <3>2. u # t
      BY <2>2, <2>3, <3>1, ReadyNot DEF Applying, At
    <3> QED BY <3>1, <3>2
  <2>8. ASSUME NEW q \in LastIn(queue, Tuning) PROVE q.by \in Tasks \ {t}
    <3>1. q \in Tuning /\ q \in Request /\ \E i \in DOMAIN queue : queue[i] = q
      BY LastMember DEF TypeOK
    <3>2. q.by # t
      BY <3>1, NotQueued DEF Placed
    <3> QED BY <3>1, <3>2 DEF Tuning, Request
  <2>9. Agrees(k)'
    BY <1>1, <1>3, <2>1, <2>5, <2>6, <2>7, <2>8, AgreesSame
  <2> QED BY <2>9 DEF Follows
<1>4. CASE stuck /\ (k \in doubt \/ Waits(k))
  <2>1. Waits(k) => Waits(k)'
    BY <1>1 DEF Waits, Placed
  <2> QED BY <1>4, <2>1, EndIs DEF Follows, Grows
<1> QED BY <1>2, <1>3, <1>4 DEF Follows

(***************************************************************************)
(* Sending a setting.                                                      *)
(***************************************************************************)
Sound == AgreeInv /\ RepeatInv /\ GoneInv

LEMMA HistoryGrows ==
  ASSUME TypeOK, NEW t \in Tasks,
         \/ \E K : Raise(K)
         \/ \E K : Begin(t, K)
         \/ UNCHANGED history
  PROVE  Grows(t)
<1>1. CASE \E K : Raise(K)
  BY <1>1 DEF Raise, TypeOK, Grows
<1>2. CASE \E K : Begin(t, K)
  BY <1>2 DEF Begin, TypeOK, Grows
<1>3. CASE UNCHANGED history
  BY <1>3 DEF history, TypeOK, Grows
<1> QED BY <1>1, <1>2, <1>3

LEMMA RaiseUnsettles ==
  ASSUME TypeOK, NEW K, Raise(K), NEW k \in K, \A u \in Tasks : Writes(u, k)' => step[u] # "idle"
  PROVE  Unsettled(k)'
BY DEF Raise, TypeOK, Unsettled

(* A task that has to repeat a request makes the one that begins unsure.   *)
LEMMA BeginUnsure ==
  ASSUME TypeOK, Order, NEW t \in Tasks, NEW K \in {{"offsets"}, {"pwm"}, Routing}, Begin(t, K),
         NEW u \in Tasks \ {t}, Repeats(u), NEW k \in K, k \in LeftOpen(asked[u])
  PROVE  k \in unsure'[t]
<1>1. k \in Keys
  BY DEF Keys, Routing
<1>2. asked[u] \in Request
  BY <1>1, WriterIs
<1>3. asked[u].key \in K
  BY <1>1, <1>2, LeftOpenOf DEF Routing
<1>4. Shaky(u, K)
  BY <1>3 DEF Shaky, Repeats
<1>5. unsure' = [unsure EXCEPT ![t] = K]
  BY <1>4 DEF Begin
<1> QED BY <1>5 DEF TypeOK

LEMMA SendOffsetsSound ==
  ASSUME TypeOK, Order, Sound, NEW t \in Tasks, t \notin Pages, SendOffsets(t), Placed(t),
         step[t] \notin {"tuning", "idle"}, UNCHANGED <<stuck, file, fw, held>>
  PROVE  Sound'
<1> DEFINE val == file["offsets"]
<1>1. "offsets" \in DOMAIN Attempts /\ KeyOf["offsets"] = "offsets" /\ val \in Version
  BY Steps, FileIs DEF Settings, Keys
<1>2. Ask(t, "offsets", KeyOf["offsets"], val)
  BY <1>1 DEF SendOffsets
<1>3. \A k \in Keys : Wants("offsets", k) <=> k = "offsets"
  BY <1>1 DEF Wants
<1>4. Grows(t)
  BY HistoryGrows DEF SendOffsets
<1> HIDE DEF val
<1>5. GoneInv'
  BY <1>1, <1>2, <1>4, AskGone DEF Sound
<1>6. RepeatInv'
  <2>1. ASSUME NEW u \in Tasks \ {t}, NEW k \in Keys, Repeats(u), k \in LeftOpen(asked[u]),
               Wants("offsets", k)
        PROVE  k \in unsure'[t]
    <3>1. k \in {"offsets"}
      BY <1>3, <2>1
    <3>2. CASE Raise({"offsets"})
      BY <3>1, <3>2 DEF Raise
    <3>3. CASE Begin(t, {"offsets"})
      BY <2>1, <3>1, <3>3, BeginUnsure
    <3> QED BY <3>2, <3>3 DEF SendOffsets
  <2> QED BY <1>1, <1>2, <1>4, <2>1, AskRepeat DEF Sound
<1>7. ASSUME NEW k \in Keys PROVE Follows(k)'
  <2>1. Follows(k)
    BY DEF Sound, AgreeInv
  <2>2. CASE k # "offsets"
    BY <1>1, <1>2, <1>3, <1>4, <2>1, <2>2, AskFollowsElse
  <2>3. CASE k = "offsets" /\ stuck
    BY <1>1, <1>2, <1>3, <2>3, AskWaits DEF Follows
  <2>4. CASE k = "offsets" /\ ~stuck
    <3>1. CASE Overtaken
      <4>1. Raise({"offsets"})
        BY <3>1 DEF SendOffsets
      <4>2. ASSUME NEW u \in Tasks, Writes(u, "offsets")' PROVE step[u] # "idle"
        <5>1. CASE u # t
          BY <1>1, <1>2, <4>2, <5>1, AskWrites, WriterIs DEF Keys
        <5> QED BY <5>1
      <4> QED BY <2>4, <4>1, <4>2, RaiseUnsettles DEF Follows
    <3>2. CASE ~Overtaken
      <4> DEFINE r == [by |-> t, key |-> KeyOf["offsets"], val |-> val]
      <4>1. /\ r \in Request /\ queue' = Enqueue(r) /\ \A u \in Tasks \ {t} : step'[u] = step[u]
        BY <1>1, <1>2, AskIs
      <4>2. r.by = t /\ r.key = "offsets" /\ r.val = file["offsets"]
        BY <1>1 DEF val
      <4> HIDE DEF r
      <4>3. r \in For("offsets")
        BY <4>1, <4>2 DEF For
      <4>4. LastIn(queue', For("offsets")) = {r} /\ ~NoneIn(queue', For("offsets"))
        BY <2>4, <4>1, <4>3, QueueThis
      <4>5. ~Overtaken'
        BY <3>2, <4>1 DEF Overtaken, Tasks
      <4> QED BY <2>4, <4>2, <4>4, <4>5 DEF Follows, Agrees, OffsetsAgree
    <3> QED BY <3>1, <3>2
  <2> QED BY <2>2, <2>3, <2>4
<1> QED BY <1>5, <1>6, <1>7 DEF Sound, AgreeInv

LEMMA SendPwmSound ==
  ASSUME TypeOK, Order, Sound, NEW t \in Tasks, NEW config \in Version, SendPwm(t, config), Placed(t),
         file'["pwm"] = config, \A k \in Keys \ {"pwm"} : file'[k] = file[k],
         t \notin Pages \/ step[t] # "offsets", step[t] = "tuning" => Failed(t),
         UNCHANGED <<stuck, fw, held>>
  PROVE  Sound'
<1>1. "pwm" \in DOMAIN Attempts /\ KeyOf["pwm"] = "pwm"
  BY Steps
<1>2. Ask(t, "pwm", KeyOf["pwm"], config)
  BY <1>1 DEF SendPwm
<1>3. \A k \in Keys : Wants("pwm", k) <=> k = "pwm"
  BY <1>1 DEF Wants
<1>4. Begin(t, {"pwm"}) /\ Grows(t)
  BY HistoryGrows DEF SendPwm
<1>5. GoneInv'
  BY <1>1, <1>2, <1>4, AskGone DEF Sound
<1>6. RepeatInv'
  <2>1. ASSUME NEW u \in Tasks \ {t}, NEW k \in Keys, Repeats(u), k \in LeftOpen(asked[u]),
               Wants("pwm", k)
        PROVE  k \in unsure'[t]
    <3>1. k \in {"pwm"}
      BY <1>3, <2>1
    <3> QED BY <1>4, <2>1, <3>1, BeginUnsure
  <2> QED BY <1>1, <1>2, <1>4, <2>1, AskRepeat DEF Sound
<1>7. ASSUME NEW k \in Keys PROVE Follows(k)'
  <2>1. Follows(k)
    BY DEF Sound, AgreeInv
  <2>2. CASE k # "pwm"
    BY <1>1, <1>2, <1>3, <1>4, <2>1, <2>2, AskFollowsElse
  <2>3. CASE k = "pwm" /\ stuck
    BY <1>1, <1>2, <1>3, <2>3, AskWaits DEF Follows
  <2>4. CASE k = "pwm" /\ ~stuck
    <3> DEFINE r == [by |-> t, key |-> KeyOf["pwm"], val |-> config]
    <3>1. r \in Request /\ queue' = Enqueue(r) /\ r.key = "pwm" /\ r.val = file'["pwm"]
      BY <1>1, <1>2, AskIs
    <3> HIDE DEF r
    <3>2. r \in For("pwm")
      BY <3>1 DEF For
    <3>3. LastIn(queue', For("pwm")) = {r} /\ ~NoneIn(queue', For("pwm"))
      BY <2>4, <3>1, <3>2, QueueThis
    <3> QED BY <2>4, <3>1, <3>3 DEF Follows, Agrees, PlainAgrees
  <2> QED BY <2>2, <2>3, <2>4
<1> QED BY <1>5, <1>6, <1>7 DEF Sound, AgreeInv

LEMMA ReadAndSendVrSound ==
  ASSUME TypeOK, Order, Sound, NEW t \in Tasks, ReadAndSendVr(t), Placed(t),
         t \notin Pages \/ step[t] # "offsets", step[t] # "tuning",
         UNCHANGED <<stuck, file, fw>>
  PROVE  Sound'
<1> DEFINE val == file["tuning"]
<1>1. "tuning" \in DOMAIN Attempts /\ KeyOf["tuning"] = "tuning" /\ val \in Version
  BY Steps, FileIs DEF Settings, Keys
<1>2. Ask(t, "tuning", KeyOf["tuning"], val)
  BY <1>1 DEF ReadAndSendVr
<1>3. \A k \in Keys : Wants("tuning", k) <=> k \in Routing
  BY <1>1 DEF Wants, Routing
<1>4. Begin(t, Routing) /\ Grows(t)
  BY HistoryGrows DEF ReadAndSendVr
<1>a. held'[t] = file["limits"] /\ \A u \in Tasks \ {t} : held'[u] = held[u]
  BY DEF ReadAndSendVr, TypeOK
<1> HIDE DEF val
<1>5. GoneInv'
  BY <1>1, <1>2, <1>4, AskGone DEF Sound
<1>6. RepeatInv'
  <2>1. ASSUME NEW u \in Tasks \ {t}, NEW k \in Keys, Repeats(u), k \in LeftOpen(asked[u]),
               Wants("tuning", k)
        PROVE  k \in unsure'[t]
    BY <1>3, <1>4, <2>1, BeginUnsure
  <2> QED BY <1>1, <1>2, <1>4, <2>1, AskRepeat DEF Sound
<1>7. ASSUME NEW k \in Keys PROVE Follows(k)'
  <2>1. Follows(k)
    BY DEF Sound, AgreeInv
  <2>2. CASE k \notin Routing
    <3>1. k # "limits"
      BY <2>2 DEF Routing
    <3> QED BY <1>1, <1>2, <1>3, <1>4, <1>a, <2>1, <2>2, <3>1, AskFollowsElse
  <2>3. CASE k \in Routing /\ stuck
    BY <1>1, <1>2, <1>3, <2>3, AskWaits DEF Follows
  <2>4. CASE k \in Routing /\ ~stuck
    <3> DEFINE r == [by |-> t, key |-> KeyOf["tuning"], val |-> val]
    <3>1. r \in Request /\ queue' = Enqueue(r)
      BY <1>1, <1>2, AskIs
    <3>2. r.by = t /\ r.key = "tuning" /\ r.val = file["tuning"] /\ t # "gone"
      BY <1>1, SomeTasks DEF val
    <3> HIDE DEF r
    <3>3. r \in For("tuning") /\ r \in Tuning
      BY <3>1, <3>2 DEF For, Tuning
    <3>4. CASE k = "tuning"
      <4>1. LastIn(queue', For("tuning")) = {r} /\ ~NoneIn(queue', For("tuning"))
        BY <2>4, <3>1, <3>3, QueueThis
      <4> QED BY <3>2, <3>4, <4>1 DEF Follows, Agrees, PlainAgrees
    <3>5. CASE k = "limits"
      <4>1. LastIn(queue', Tuning) = {r} /\ ~NoneIn(queue', Tuning)
        BY <2>4, <3>1, <3>3, QueueThis
      <4> QED BY <1>a, <3>2, <3>5, <4>1 DEF Follows, Agrees, LimitsAgree
    <3> QED BY <2>4, <3>4, <3>5 DEF Routing
  <2> QED BY <2>2, <2>3, <2>4
<1> QED BY <1>5, <1>6, <1>7 DEF Sound, AgreeInv

LEMMA EndSound ==
  ASSUME TypeOK, Order, Sound, NEW t \in Tasks, End(t), Placed(t), UNCHANGED <<stuck, file, fw>>,
         step[t] \in {"offsets", "tuning"} => Failed(t)
  PROVE  Sound'
<1>1. RepeatInv' /\ GoneInv'
  BY EndRepeat DEF Sound
<1>2. \A k \in Keys : Follows(k)'
  BY EndFollows DEF Sound, AgreeInv
<1> QED BY <1>1, <1>2 DEF Sound, AgreeInv

LEMMA VrSentSound ==
  ASSUME TypeOK, Order, Sound, NEW t \in Tasks, VrSent(t), Placed(t), step[t] # "offsets",
         step[t] = "tuning" => Failed(t), UNCHANGED <<stuck, file, fw>>
  PROVE  Sound'
<1>1. CASE t \in Syncs
  <2>1. SendPwm(t, file["pwm"]) /\ UNCHANGED held /\ file["pwm"] \in Version
    BY <1>1, FileIs DEF VrSent, Settings, Keys
  <2> QED BY <2>1, SendPwmSound
<1>2. CASE t \notin Syncs
  BY <1>2, EndSound DEF VrSent
<1> QED BY <1>1, <1>2

(***************************************************************************)
(* Steps that only change a file or nothing of all this.                   *)
(***************************************************************************)
LEMMA SameSound ==
  ASSUME TypeOK, Sound, UNCHANGED <<uart, tasks, history, fw>>, \A k \in Keys : file'[k] = file[k]
  PROVE  Sound'
<1>1. UNCHANGED <<queue, stuck, ready, step, asked, reply, tries, held, doubt, unsure, fw>>
  BY DEF uart, tasks, history
<1>2. Overtaken' = Overtaken /\ Applying' = Applying /\ At("tuning")' = At("tuning")
  BY <1>1 DEF Overtaken, Applying, At
<1>3. ASSUME NEW k \in Keys
      PROVE  (Unsettled(k) => Unsettled(k)') /\ (Waits(k) => Waits(k)') /\ (Agrees(k) => Agrees(k)')
  <2>1. Unsettled(k) => Unsettled(k)'
    BY <1>1 DEF Unsettled, Writes
  <2>2. Waits(k) => Waits(k)'
    BY <1>1 DEF Waits
  <2>3. Agrees(k) => Agrees(k)'
    BY <1>1, <1>2, AgreesSame
  <2> QED BY <2>1, <2>2, <2>3
<1>4. AgreeInv'
  BY <1>1, <1>3 DEF Sound, AgreeInv, Follows
<1>5. RepeatInv'
  BY <1>1, <1>3, LeftOpenIs DEF Sound, RepeatInv, Repeats, Failed
<1>6. GoneInv'
  BY <1>1 DEF Sound, GoneInv
<1> QED BY <1>4, <1>5, <1>6 DEF Sound

(* A setting that stays unsettled when others are raised.                  *)
LEMMA RaiseKeeps ==
  ASSUME TypeOK, Order, NEW K, Raise(K), NEW k \in Keys, Unsettled(k),
         \A u \in Tasks : Writes(u, k)' => Writes(u, k)
  PROVE  Unsettled(k)'
<1>1. ASSUME NEW u \in Tasks, Writes(u, k)' PROVE k \in unsure'[u]
  <2>1. k \in unsure[u] /\ step[u] # "idle"
    BY <1>1, WriterIs DEF Unsettled
  <2> QED BY <2>1 DEF Raise
<1> QED BY <1>1 DEF Raise, Unsettled

LEMMA RaiseRepeat ==
  ASSUME TypeOK, Order, RepeatInv, NEW K \in SUBSET Keys, Raise(K), UNCHANGED <<asked, tries>>,
         \A k \in Keys : \A u \in Tasks : Writes(u, k)' => Writes(u, k),
         \A u \in Tasks : Failed(u)' => Failed(u) \/ LeftOpen(asked[u]) \subseteq K
  PROVE  RepeatInv'
<1> SUFFICES ASSUME NEW u \in Tasks, Repeats(u)', NEW k \in LeftOpen(asked[u])'
             PROVE  Unsettled(k)' /\ k \in unsure'[u]
  BY DEF RepeatInv
<1>1. k \in Keys /\ k \in LeftOpen(asked[u]) /\ step[u] # "idle"
  <2>1. k \in Keys /\ k \in LeftOpen(asked[u])
    BY LeftOpenIs
  <2> QED BY <2>1, WriterIs
<1>2. CASE k \in K
  <2>1. \A v \in Tasks : Writes(v, k)' => step[v] # "idle"
    BY <1>1, WriterIs
  <2>2. Unsettled(k)'
    BY <1>2, <2>1, RaiseUnsettles
  <2> QED BY <1>1, <1>2, <2>2 DEF Raise
<1>3. CASE k \notin K
  <2>1. Repeats(u)
    BY <1>1, <1>3 DEF Repeats
  <2>2. Unsettled(k) /\ k \in unsure[u]
    BY <1>1, <2>1 DEF RepeatInv
  <2>3. Unsettled(k)'
    BY <1>1, <2>2, RaiseKeeps
  <2> QED BY <1>1, <2>2, <2>3 DEF Raise
<1> QED BY <1>2, <1>3

LEMMA RaiseSound ==
  ASSUME TypeOK, Order, Sound, NEW K \in SUBSET Keys, Raise(K), UNCHANGED <<uart, tasks, fw>>,
         \A k \in Keys \ K : file'[k] = file[k]
  PROVE  Sound'
<1>1. UNCHANGED <<queue, stuck, ready, step, asked, reply, tries, held, fw>>
  BY DEF uart, tasks
<1>2. \A k \in Keys : \A u \in Tasks : Writes(u, k)' <=> Writes(u, k)
  BY <1>1 DEF Writes
<1>3. ASSUME NEW k \in Keys PROVE Follows(k)'
  <2>1. CASE k \in K
    <3>1. \A v \in Tasks : Writes(v, k)' => step[v] # "idle"
      BY <1>2, WriterIs
    <3> QED BY <2>1, <3>1, RaiseUnsettles DEF Follows
  <2>2. CASE k \notin K
    <3>1. CASE Unsettled(k)
      BY <1>2, <3>1, RaiseKeeps DEF Follows
    <3>2. CASE Agrees(k)
      <4>1. Overtaken' = Overtaken /\ Applying' = Applying /\ At("tuning")' = At("tuning")
        BY <1>1 DEF Overtaken, Applying, At
      <4> QED BY <1>1, <2>2, <3>2, <4>1, AgreesSame DEF Follows
    <3>3. CASE stuck /\ (k \in doubt \/ Waits(k))
      BY <1>1, <3>3 DEF Follows, Waits, Raise
    <3> QED BY <3>1, <3>2, <3>3 DEF Sound, AgreeInv, Follows
  <2> QED BY <2>1, <2>2
<1>4. RepeatInv'
  BY <1>1, <1>2, RaiseRepeat DEF Sound, Failed
<1>5. GoneInv'
  <2>1. ASSUME NEW j \in DOMAIN queue, queue[j].by # "gone", NEW k \in unsure[queue[j].by]
        PROVE  k \in unsure'[queue[j].by]
    <3>1. queue[j] \in Request
      BY DEF TypeOK
    <3>2. queue[j].by \in Tasks /\ reply[queue[j].by] = "pending"
      BY <2>1, <3>1 DEF Order, QueueInv, Request
    <3>3. step[queue[j].by] # "idle"
      BY <3>2, Idles DEF Order, TaskInv
    <3> QED BY <3>2, <3>3 DEF Raise
  <2>2. \A i \in DOMAIN queue : \A j \in 1 .. i : j \in DOMAIN queue
    BY DEF TypeOK
  <2>3. doubt \subseteq doubt'
    BY DEF Raise
  <2> QED BY <1>1, <2>1, <2>2, <2>3 DEF GoneInv, Sound
<1> QED BY <1>3, <1>4, <1>5 DEF Sound, AgreeInv

(***************************************************************************)
(* The pages.                                                              *)
(***************************************************************************)
LEMMA ApplyOffsetsSound ==
  ASSUME TypeOK, Order, Sound, NEW p \in Pages, ApplyOffsets(p)
  PROVE  Sound'
<1>1. p \in Tasks /\ step[p] = "idle" /\ Placed(p)
  BY RestPlaced DEF Tasks, ApplyOffsets, Asks
<1>2. /\ version' \in Version /\ Begin(p, {"offsets"})
      /\ UNCHANGED <<file, fw, stuck, held>>
  BY VersionType DEF ApplyOffsets
<1>3. "offsets" \in DOMAIN Attempts /\ KeyOf["offsets"] = "offsets"
  BY Steps
<1>a. PICK val \in Version : Ask(p, "offsets", KeyOf["offsets"], val)
  BY <1>2, <1>3 DEF ApplyOffsets
<1>4. \A k \in Keys : Wants("offsets", k) <=> k = "offsets"
  BY <1>3 DEF Wants
<1>5. Grows(p)
  BY <1>1, <1>2, HistoryGrows
<1>6. GoneInv'
  BY <1>1, <1>3, <1>a, <1>5, AskGone DEF Sound
<1>7. RepeatInv'
  <2>1. ASSUME NEW u \in Tasks \ {p}, NEW k \in Keys, Repeats(u), k \in LeftOpen(asked[u]),
               Wants("offsets", k)
        PROVE  k \in unsure'[p]
    <3>1. k \in {"offsets"}
      BY <1>4, <2>1
    <3> QED BY <1>1, <1>2, <2>1, <3>1, BeginUnsure
  <2> QED BY <1>1, <1>3, <1>a, <1>5, <2>1, AskRepeat DEF Sound
<1>8. ASSUME NEW k \in Keys PROVE Follows(k)'
  <2>1. Follows(k)
    BY DEF Sound, AgreeInv
  <2>2. CASE k # "offsets"
    BY <1>1, <1>2, <1>3, <1>a, <1>4, <1>5, <2>1, <2>2, AskFollowsElse
  <2>3. CASE k = "offsets" /\ stuck
    BY <1>1, <1>2, <1>3, <1>a, <1>4, <2>3, AskWaits DEF Follows
  <2>4. CASE k = "offsets" /\ ~stuck
    <3> DEFINE r == [by |-> p, key |-> KeyOf["offsets"], val |-> val]
    <3>1. r \in Request /\ queue' = Enqueue(r)
      BY <1>1, <1>3, <1>a, AskIs
    <3>2. r.by = p /\ r.key = "offsets"
      BY <1>3
    <3> HIDE DEF r
    <3>3. r \in For("offsets")
      BY <3>1, <3>2 DEF For
    <3>4. LastIn(queue', For("offsets")) = {r} /\ ~NoneIn(queue', For("offsets"))
      BY <2>4, <3>1, <3>3, QueueThis
    <3> QED BY <2>4, <3>2, <3>4 DEF Follows, Agrees, OffsetsAgree
  <2> QED BY <2>2, <2>3, <2>4
<1> QED BY <1>6, <1>7, <1>8 DEF Sound, AgreeInv

LEMMA PageSound ==
  ASSUME TypeOK, Order, Sound, NEW p \in Pages,
         SaveSettings(p) \/ ApplyOffsets(p) \/ SavePwm(p) \/ ApplyVr(p)
  PROVE  Sound'
<1>1. p \in Tasks /\ step[p] = "idle"
  BY DEF Tasks, Asks, SaveSettings, ApplyOffsets, SavePwm, ApplyVr
<1>2. Placed(p)
  BY <1>1, RestPlaced
<1>3. CASE SaveSettings(p)
  <2>1. Raise({"offsets"}) /\ UNCHANGED <<uart, tasks, fw>>
    BY <1>3 DEF SaveSettings
  <2>2. \A k \in Keys \ {"offsets"} : file'[k] = file[k]
    BY <1>3 DEF SaveSettings, Save, TypeOK, Settings, Keys
  <2> QED BY <2>1, <2>2, RaiseSound DEF Keys
<1>4. CASE SavePwm(p)
  <2>1. file' = [file EXCEPT !["pwm"] = version'] /\ SendPwm(p, version') /\ version' \in Version
        /\ UNCHANGED <<fw, stuck, held>>
    BY <1>4, VersionType DEF SavePwm
  <2>2. file'["pwm"] = version' /\ \A k \in Keys \ {"pwm"} : file'[k] = file[k]
    BY <2>1 DEF TypeOK, Settings, Keys
  <2> QED BY <1>1, <1>2, <2>1, <2>2, SendPwmSound
<1>5. CASE ApplyVr(p)
  <2>1. ReadAndSendVr(p) /\ UNCHANGED <<stuck, file, fw>>
    BY <1>5 DEF ApplyVr, disk
  <2> QED BY <1>1, <1>2, <2>1, ReadAndSendVrSound
<1> QED BY <1>3, <1>4, <1>5, ApplyOffsetsSound

LEMMA PostSound ==
  ASSUME TypeOK, Order, Sound, NEW h \in Threads, PostReads(h) \/ PostWrites(h)
  PROVE  Sound'
<1>1. CASE PostReads(h)
  BY <1>1, SameSound DEF PostReads
<1>2. CASE PostWrites(h)
  <2> DEFINE K == {k \in Routing : file'[k] # file[k]}
  <2>1. K \in SUBSET Keys /\ Raise(K) /\ UNCHANGED <<uart, tasks, fw>>
    BY <1>2 DEF PostWrites, Routing, Keys
  <2>2. \A k \in Keys \ K : file'[k] = file[k]
    <3>1. \A k \in Settings \ Routing : file'[k] = file[k]
      <4>1. post[h].parts \subseteq Routing
        BY <1>2 DEF PostWrites, TypeOK
      <4> QED BY <1>2, <4>1 DEF PostWrites
    <3> QED BY <3>1 DEF Settings
  <2> HIDE DEF K
  <2> QED BY <2>1, <2>2, RaiseSound
<1> QED BY <1>1, <1>2

(***************************************************************************)
(* A task that is resumed.                                                 *)
(***************************************************************************)
(* What is ready after the first of them, of a kind to which it belonged.  *)
LEMMA ReadyNext ==
  ASSUME TypeOK, Order, NEW t \in Tasks, Resumes(t), NEW S, NEW T, t \in S,
         \A u \in Tasks \ {t} : u \in S <=> u \in T
  PROVE  /\ ~NoneIn(NoLongerReady(t), T) => LastIn(NoLongerReady(t), T) = LastIn(ready, S)
         /\ NoneIn(NoLongerReady(t), T) => LastIn(ready, S) = {t} /\ LastIn(NoLongerReady(t), T) = {}
         /\ ~NoneIn(ready, S)
         /\ \A i \in DOMAIN NoLongerReady(t) : NoLongerReady(t)[i] \in Tasks \ {t}
<1> DEFINE r == Tail(ready)
<1>1. /\ ready \in Seq(Tasks) /\ ready # <<>> /\ Head(ready) = t /\ NoLongerReady(t) = r
      /\ 1 \in DOMAIN ready /\ ready[1] = t
  BY HeadTailProperties, EmptySeq DEF Resumes, NoLongerReady, TypeOK
<1>2. Placed(t)
  <2>1. reply[t] # "pending"
    BY <1>1, Idles DEF Order, ReadyInv, TaskInv
  <2> QED BY <2>1 DEF Placed
<1>3. r \in Seq(Tasks) /\ \A i \in DOMAIN r : r[i] \in Tasks \ {t}
  BY <1>1, <1>2, ReadyRest
<1>4. LastIn(r, S) = LastIn(r, T) /\ (NoneIn(r, S) <=> NoneIn(r, T))
  BY <1>3, LastSame
<1>5. /\ LastIn(r, S) = IF NoneIn(r, S) THEN {} ELSE LastIn(ready, S)
      /\ NoneIn(r, S) => LastIn(ready, S) = {t}
  BY <1>1, LastTail
<1>6. ~NoneIn(ready, S)
  BY <1>1 DEF NoneIn
<1> HIDE DEF r
<1> QED BY <1>1, <1>3, <1>4, <1>5, <1>6

(* The file follows when the firmware has the offsets.                     *)
LEMMA OffsetsWrittenSound ==
  ASSUME TypeOK, Order, Sound, NEW p \in Pages, step[p] = "offsets", Ok(p),
         Save(asked[p].val, file["home"]), Ask(p, "pose", "other", 0),
         UNCHANGED <<held, history, fw, stuck>>
  PROVE  Sound'
<1>1. "pose" \in DOMAIN Attempts /\ KeyOf["pose"] = "other" /\ 0 \in Version /\ p \in Tasks
  BY Steps, Zero DEF Tasks
<1>2. Ask(p, "pose", KeyOf["pose"], 0)
  BY <1>1
<1>3. \A k \in Keys : ~Wants("pose", k)
  BY <1>1 DEF Wants, Keys
<1>4. Grows(p) /\ Placed(p) /\ Resumes(p)
  BY <1>1, HistoryGrows, OkPlaced DEF Ok
<1>5. file'["offsets"] = asked[p].val /\ \A k \in Keys \ {"offsets"} : file'[k] = file[k]
  BY DEF Save, TypeOK, Settings, Keys
<1>6. GoneInv'
  BY <1>1, <1>2, <1>4, AskGone DEF Sound
<1>7. RepeatInv'
  BY <1>1, <1>2, <1>3, <1>4, AskRepeat DEF Sound
<1>8. ASSUME NEW k \in Keys PROVE Follows(k)'
  <2>1. Follows(k)
    BY DEF Sound, AgreeInv
  <2>2. CASE k # "offsets"
    BY <1>1, <1>2, <1>3, <1>4, <1>5, <2>1, <2>2, AskFollowsElse
  <2>3. CASE k = "offsets"
    <3>1. CASE Unsettled(k)
      BY <1>1, <1>2, <1>3, <1>4, <3>1, AskUnsettled DEF Follows
    <3>2. CASE stuck /\ (k \in doubt \/ Waits(k))
      BY <1>1, <1>2, <1>3, <1>4, <3>2, AskWaits DEF Follows, history
    <3>3. CASE Agrees(k)
      <4> DEFINE r == [by |-> p, key |-> KeyOf["pose"], val |-> 0]
      <4>1. /\ r \in Request /\ queue' = Enqueue(r) /\ ready' = NoLongerReady(p)
            /\ step'[p] = "pose"
            /\ \A u \in Tasks \ {p} : asked'[u] = asked[u] /\ step'[u] = step[u]
        BY <1>1, <1>2, AskIs
      <4>2. r \notin For("offsets")
        BY <1>1 DEF For
      <4> HIDE DEF r
      <4>3. /\ LastIn(queue', For("offsets")) = LastIn(queue, For("offsets"))
            /\ NoneIn(queue', For("offsets")) <=> NoneIn(queue, For("offsets"))
        BY <4>1, <4>2, QueueElse
      <4>4. Overtaken /\ OffsetsAgree
        BY <2>3, <3>3 DEF Overtaken, Agrees
      <4>5. \A q \in LastIn(queue', For("offsets")) : q.by \in Pages
        BY <4>3, <4>4 DEF OffsetsAgree
      <4>6. p \in Applying /\ \A u \in Tasks \ {p} : u \in Applying <=> u \in Applying'
        BY <1>1, <4>1 DEF Applying, At
      <4>7. /\ ~NoneIn(ready', Applying') => LastIn(ready', Applying') = LastIn(ready, Applying)
            /\ NoneIn(ready', Applying') => /\ LastIn(ready, Applying) = {p}
                                        /\ LastIn(ready', Applying') = {}
            /\ ~NoneIn(ready, Applying) /\ \A i \in DOMAIN ready' : ready'[i] \in Tasks \ {p}
        BY <1>1, <1>4, <4>1, <4>6, ReadyNext
      <4>8. ready' \in Seq(Tasks)
        BY <1>1, <4>1, NoLongerType
      <4>9. ASSUME NoneIn(queue', For("offsets"))
            PROVE  /\ \A q \in LastIn(ready', Applying') : asked'[q].val = fw'["offsets"]
                   /\ NoneIn(ready', Applying') => fw'["offsets"] = file'["offsets"]
        <5>1. \A q \in LastIn(ready, Applying) : asked[q].val = fw["offsets"]
          BY <4>3, <4>4, <4>9 DEF OffsetsAgree
        <5>2. \A q \in LastIn(ready', Applying') : q \in Tasks \ {p} /\ asked'[q] = asked[q]
          BY <4>1, <4>7, <4>8, LastMember
        <5>3. \A q \in LastIn(ready', Applying') : asked'[q].val = fw'["offsets"]
          BY <4>7, <5>1, <5>2
        <5>4. NoneIn(ready', Applying') => fw'["offsets"] = file'["offsets"]
          BY <1>5, <4>7, <5>1
        <5> QED BY <5>3, <5>4
      <4> QED BY <2>3, <4>5, <4>9 DEF Follows, Agrees, OffsetsAgree
    <3> QED BY <2>1, <3>1, <3>2, <3>3 DEF Follows
  <2> QED BY <2>2, <2>3
<1> QED BY <1>6, <1>7, <1>8 DEF Sound, AgreeInv

(* The limits follow the parameters.                                       *)
LEMMA LimitsFollowSound ==
  ASSUME TypeOK, Order, Sound, NEW t \in Tasks, step[t] = "tuning", Ok(t),
         Ask(t, "limits", "limits", held[t]), UNCHANGED <<held, history, fw, file, stuck>>
  PROVE  Sound'
<1> DEFINE val == held[t]
<1>1. /\ "limits" \in DOMAIN Attempts /\ KeyOf["limits"] = "limits" /\ KeyOf["tuning"] = "tuning"
      /\ val \in Version
  BY Steps DEF TypeOK
<1>2. Ask(t, "limits", KeyOf["limits"], val)
  BY <1>1
<1> HIDE DEF val
<1>3. \A k \in Keys : Wants("limits", k) <=> k = "limits"
  BY <1>1 DEF Wants
<1>4. Grows(t) /\ Placed(t) /\ Resumes(t) /\ unsure' = unsure
  BY HistoryGrows, OkPlaced DEF Ok, history
<1>5. Writes(t, "limits") /\ "limits" \in Keys
  BY DEF Writes, Ok, Keys
<1>6. GoneInv'
  BY <1>1, <1>2, <1>4, AskGone DEF Sound
<1>7. RepeatInv'
  <2>1. ASSUME NEW u \in Tasks \ {t}, NEW k \in Keys, Repeats(u), k \in LeftOpen(asked[u]),
               Wants("limits", k)
        PROVE  k \in unsure'[t]
    BY <1>3, <1>4, <1>5, <2>1 DEF Sound, RepeatInv, Unsettled
  <2> QED BY <1>1, <1>2, <1>4, <2>1, AskRepeat DEF Sound
<1>8. ASSUME NEW k \in Keys PROVE Follows(k)'
  <2>1. Follows(k)
    BY DEF Sound, AgreeInv
  <2>2. CASE k \notin {"limits"}
    BY <1>1, <1>2, <1>3, <1>4, <2>1, <2>2, AskFollowsElse
  <2>3. CASE k = "limits" /\ stuck
    BY <1>1, <1>2, <1>3, <1>4, <2>3, AskWaits DEF Follows
  <2>4. CASE k = "limits" /\ ~stuck
    <3>1. CASE Unsettled(k)
      <4>1. k \in unsure'[t]
        BY <1>4, <1>5, <2>4, <3>1 DEF Unsettled
      <4> QED BY <1>1, <1>2, <1>4, <3>1, <4>1, AskUnsettled DEF Follows
    <3>2. CASE Agrees(k)
      <4> DEFINE r == [by |-> t, key |-> KeyOf["limits"], val |-> val]
      <4>1. /\ r \in Request /\ queue' = Enqueue(r) /\ ready' = NoLongerReady(t)
            /\ step'[t] = "limits"
            /\ \A u \in Tasks \ {t} : asked'[u] = asked[u] /\ step'[u] = step[u]
        BY <1>1, <1>2, AskIs
      <4>2. r \notin Tuning /\ r \in For("limits") /\ r.val = held[t]
        BY <1>1, <4>1 DEF For, Tuning, val
      <4> HIDE DEF r
      <4>3. /\ LastIn(queue', Tuning) = LastIn(queue, Tuning)
            /\ NoneIn(queue', Tuning) <=> NoneIn(queue, Tuning)
        BY <4>1, <4>2, QueueElse
      <4>4. /\ LastIn(queue', For("limits")) = {r} /\ ~NoneIn(queue', For("limits"))
        BY <2>4, <4>1, <4>2, QueueThis
      <4>5. LimitsAgree
        BY <2>4, <3>2 DEF Agrees
      <4>6. t \in At("tuning") /\ \A u \in Tasks \ {t} : u \in At("tuning") <=> u \in At("tuning")'
        BY <4>1 DEF At
      <4>7. /\ ~NoneIn(ready', At("tuning")') => LastIn(ready', At("tuning")') = LastIn(ready, At("tuning"))
            /\ NoneIn(ready', At("tuning")') => /\ LastIn(ready, At("tuning")) = {t}
                                        /\ LastIn(ready', At("tuning")') = {}
            /\ ~NoneIn(ready, At("tuning"))
        <5> DEFINE S == At("tuning")
                   T == At("tuning")'
        <5>1. t \in S /\ \A u \in Tasks \ {t} : u \in S <=> u \in T
          BY <4>6
        <5> HIDE DEF S, T
        <5>2. /\ ~NoneIn(NoLongerReady(t), T) => LastIn(NoLongerReady(t), T) = LastIn(ready, S)
              /\ NoneIn(NoLongerReady(t), T) => /\ LastIn(ready, S) = {t}
                                               /\ LastIn(NoLongerReady(t), T) = {}
              /\ ~NoneIn(ready, S)
          BY <1>4, <5>1, ReadyNext
        <5> QED BY <4>1, <5>2 DEF S, T
      <4>8. \A q \in LastIn(queue', Tuning) : held'[q.by] = file'["limits"]
        BY <4>3, <4>5 DEF LimitsAgree
      <4>9. ASSUME NoneIn(queue', Tuning)
            PROVE  /\ \A u \in LastIn(ready', At("tuning")') : held'[u] = file'["limits"]
                   /\ NoneIn(ready', At("tuning")') => PlainAgrees("limits")'
        <5>1. \A u \in LastIn(ready, At("tuning")) : held[u] = file["limits"]
          BY <4>3, <4>5, <4>9 DEF LimitsAgree
        <5>2. \A u \in LastIn(ready', At("tuning")') : held'[u] = file'["limits"]
          BY <4>7, <5>1
        <5>3. NoneIn(ready', At("tuning")') => r.val = file'["limits"]
          BY <4>2, <4>7, <5>1
        <5> QED BY <4>4, <5>2, <5>3 DEF PlainAgrees
      <4> QED BY <2>4, <4>8, <4>9 DEF Follows, Agrees, LimitsAgree
    <3> QED BY <2>1, <2>4, <3>1, <3>2 DEF Follows
  <2> QED BY <2>2, <2>3, <2>4
<1> QED BY <1>6, <1>7, <1>8 DEF Sound, AgreeInv

LEMMA ResumeSound ==
  ASSUME TypeOK, Order, Sound, NEW t \in Tasks, Resume(t)
  PROVE  Sound'
<1>1. /\ step[t] \in DOMAIN Attempts /\ (Ok(t) \/ OutOfTries(t)) /\ UNCHANGED <<stuck, fw>>
  BY Idles DEF Resume, OffsetsApplied, OffsetsSent, TuningSent, LimitsSent, TaskEnds
<1>2. Placed(t)
  BY <1>1, OutPlaced
<1>3. CASE OffsetsApplied(t)
  <2>1. t \in Pages /\ step[t] = "offsets"
    BY <1>3 DEF OffsetsApplied
  <2>2. CASE /\ Ok(t) /\ Save(asked[t].val, file["home"])
             /\ Ask(t, "pose", "other", 0) /\ UNCHANGED <<held, history>>
    BY <1>1, <2>1, <2>2, OffsetsWrittenSound
  <2>3. CASE OutOfTries(t) /\ End(t) /\ UNCHANGED file
    BY <1>1, <1>2, <2>3, EndSound DEF OutOfTries
  <2> QED BY <1>3, <2>2, <2>3 DEF OffsetsApplied
<1>4. CASE OffsetsSent(t)
  <2>1. ReadAndSendVr(t) /\ UNCHANGED file /\ t \notin Pages /\ step[t] # "tuning"
    BY <1>4 DEF OffsetsSent, disk, Syncs
  <2> QED BY <1>1, <1>2, <2>1, ReadAndSendVrSound
<1>5. CASE TuningSent(t)
  <2>1. step[t] = "tuning" /\ UNCHANGED file
    BY <1>5 DEF TuningSent, disk
  <2>2. CASE Ok(t) /\ Ask(t, "limits", "limits", held[t]) /\ UNCHANGED <<held, history>>
    BY <1>1, <2>1, <2>2, LimitsFollowSound
  <2>3. CASE OutOfTries(t) /\ VrSent(t)
    BY <1>1, <1>2, <2>1, <2>3, VrSentSound DEF OutOfTries
  <2> QED BY <1>5, <2>2, <2>3 DEF TuningSent
<1>6. CASE LimitsSent(t)
  BY <1>1, <1>2, <1>6, VrSentSound DEF LimitsSent, disk
<1>7. CASE TaskEnds(t)
  BY <1>1, <1>2, <1>7, EndSound DEF TaskEnds, disk
<1> QED BY <1>3, <1>4, <1>5, <1>6, <1>7 DEF Resume

(***************************************************************************)
(* A request that is sent again or whose caller is gone.                   *)
(***************************************************************************)
LEMMA QueuedIs ==
  ASSUME TypeOK, Order, NEW i \in DOMAIN queue
  PROVE  /\ queue[i] \in Request /\ i \in Nat /\ \A j \in 1 .. i : j \in DOMAIN queue
         /\ queue[i].by # "gone" =>
              /\ queue[i].by \in Tasks /\ reply[queue[i].by] = "pending"
              /\ asked[queue[i].by] = queue[i] /\ step[queue[i].by] # "idle"
<1>1. queue[i] \in Request /\ i \in Nat /\ \A j \in 1 .. i : j \in DOMAIN queue
  BY DEF TypeOK
<1>2. ASSUME queue[i].by # "gone"
      PROVE  /\ queue[i].by \in Tasks /\ reply[queue[i].by] = "pending"
             /\ asked[queue[i].by] = queue[i]
  BY <1>1, <1>2 DEF Order, QueueInv, Request
<1>3. ASSUME queue[i].by # "gone" PROVE step[queue[i].by] # "idle"
  BY <1>2, <1>3, Idles DEF Order, TaskInv
<1> QED BY <1>1, <1>2, <1>3

LEMMA RetrySound ==
  ASSUME TypeOK, Order, Sound, NEW t \in Tasks, Retry(t)
  PROVE  Sound'
<1>1. /\ reply[t] = "TIMEOUT" /\ queue' = Enqueue(asked[t]) /\ Repeats(t)
      /\ UNCHANGED <<ready, asked, step, stuck, held, fw, file, doubt, unsure>>
      /\ reply'[t] = "pending" /\ \A u \in Tasks \ {t} : reply'[u] = reply[u] /\ tries'[u] = tries[u]
  BY DEF Retry, Failed, Repeats, TypeOK, disk, history
<1>2. /\ asked[t] \in Request /\ asked[t].by = t /\ t # "gone"
      /\ asked[t].key = KeyOf[step[t]] /\ step[t] \in DOMAIN Attempts
  BY <1>1, SomeTasks DEF Order, TaskInv
<1>3. \A k \in LeftOpen(asked[t]) : Unsettled(k) /\ k \in unsure[t]
  BY <1>1 DEF Sound, RepeatInv
<1>4. ASSUME NEW k \in Keys, asked[t].key = k \/ (k = "limits" /\ asked[t].key = "tuning")
      PROVE  k \in LeftOpen(asked[t])
  BY <1>2, <1>4, LeftOpenOf DEF Routing
<1>5. ASSUME NEW k \in Keys, Unsettled(k) PROVE Unsettled(k)'
  <2>1. ASSUME NEW u \in Tasks, Writes(u, k)' PROVE k \in unsure[u]
    <3>1. CASE u = t
      <4>1. step[t] = "tuning" => asked[t].key = "tuning"
        BY <1>2, Steps
      <4>2. asked[t].key = k \/ (k = "limits" /\ asked[t].key = "tuning")
        BY <1>1, <2>1, <3>1, <4>1 DEF Writes
      <4> QED BY <1>3, <1>4, <3>1, <4>2
    <3>2. CASE u # t
      BY <1>1, <1>5, <2>1, <3>2 DEF Writes, Unsettled
    <3> QED BY <3>1, <3>2
  <2> QED BY <1>1, <1>5, <2>1 DEF Unsettled
<1>6. RepeatInv'
  <2> SUFFICES ASSUME NEW u \in Tasks, Repeats(u)', NEW k \in LeftOpen(asked[u])'
               PROVE  Unsettled(k)' /\ k \in unsure'[u]
    BY DEF RepeatInv
  <2>1. Repeats(u)
    BY <1>1 DEF Repeats, Failed
  <2>2. Unsettled(k) /\ k \in unsure[u] /\ k \in Keys
    BY <1>1, <2>1, LeftOpenIs DEF Sound, RepeatInv
  <2> QED BY <1>1, <1>5, <2>2
<1>7. ASSUME NEW k \in Keys PROVE Follows(k)'
  <2>1. CASE k \in LeftOpen(asked[t]) \/ Unsettled(k)
    BY <1>3, <1>5, <2>1 DEF Follows
  <2>2. CASE k \notin LeftOpen(asked[t]) /\ Agrees(k)
    <3>1. asked[t] \notin For(k) /\ (k = "limits" => asked[t] \notin Tuning)
      BY <1>4, <2>2 DEF For, Tuning
    <3>2. LastIn(queue', For(k)) = LastIn(queue, For(k)) /\ (NoneIn(queue', For(k)) <=> NoneIn(queue, For(k)))
      BY <1>1, <1>2, <3>1, QueueElse
    <3>3. k = "limits" => /\ LastIn(queue', Tuning) = LastIn(queue, Tuning)
                          /\ NoneIn(queue', Tuning) <=> NoneIn(queue, Tuning)
      BY <1>1, <1>2, <3>1, QueueElse
    <3>4. Overtaken' = Overtaken /\ Applying' = Applying /\ At("tuning")' = At("tuning")
      BY <1>1 DEF Overtaken, Applying, At
    <3> QED BY <1>1, <2>2, <3>2, <3>3, <3>4, AgreesSame DEF Follows
  <2>3. CASE stuck /\ (k \in doubt \/ Waits(k))
    <3>1. Waits(k) => Waits(k)'
      BY <1>1 DEF Waits
    <3> QED BY <1>1, <2>3, <3>1 DEF Follows
  <2> QED BY <2>1, <2>2, <2>3 DEF Sound, AgreeInv, Follows
<1>8. GoneInv'
  <2>1. CASE stuck
    BY <1>1, <2>1 DEF Enqueue, Sound, GoneInv
  <2>2. CASE ~stuck
    <3>1. /\ queue' = Append(queue, asked[t]) /\ Len(queue) \in Nat
          /\ DOMAIN queue = 1 .. Len(queue) /\ DOMAIN queue' = 1 .. Len(queue) + 1
          /\ \A i \in 1 .. Len(queue) : queue'[i] = queue[i]
          /\ queue'[Len(queue) + 1] = asked[t]
      BY <1>1, <1>2, <2>2, AppendProperties DEF Enqueue, TypeOK
    <3>2. \A i \in DOMAIN queue' : queue'[i].by = "gone" => i \in DOMAIN queue
      BY <1>2, <3>1
    <3>3. \A i \in DOMAIN queue : \A j \in 1 .. i : queue'[i] = queue[i] /\ queue'[j] = queue[j]
      BY <3>1
    <3> SUFFICES ASSUME NEW i \in DOMAIN queue', queue'[i].by = "gone", queue'[i].key \in Keys
                 PROVE  /\ queue'[i].key \in doubt
                        /\ \A j \in 1 .. i : queue'[j].by # "gone" /\ queue'[j].key = queue'[i].key
                                               => queue'[j].key \in unsure[queue'[j].by]
      BY <1>1 DEF GoneInv
    <3>4. i \in DOMAIN queue /\ queue'[i] = queue[i] /\ \A j \in 1 .. i : queue'[j] = queue[j]
      BY <3>1, <3>2
    <3> QED BY <3>4 DEF Sound, GoneInv
  <2> QED BY <2>1, <2>2
<1> QED BY <1>6, <1>7, <1>8 DEF Sound, AgreeInv

LEMMA GiveUpSound ==
  ASSUME TypeOK, Order, Sound, NEW t \in Tasks, GiveUp(t)
  PROVE  Sound'
<1> DEFINE K == LeftOpen(asked[t])
<1>1. /\ reply[t] = "pending" /\ ~stuck /\ Raise(K) /\ K \in SUBSET Keys
      /\ UNCHANGED <<ready, asked, step, tries, stuck, held, fw, file>>
      /\ reply'[t] = "TIMEOUT" /\ \A u \in Tasks \ {t} : reply'[u] = reply[u]
  BY LeftOpenIs DEF GiveUp, TypeOK, disk
<1>2. asked[t] \in Request
  BY <1>1 DEF Order, TaskInv
<1>3. \A k \in Keys : \A u \in Tasks : Writes(u, k)' => Writes(u, k)
  BY <1>1 DEF Writes
<1>4. RepeatInv'
  <2>1. \A u \in Tasks : Failed(u)' => Failed(u) \/ LeftOpen(asked[u]) \subseteq K
    BY <1>1 DEF Failed
  <2> QED BY <1>1, <1>3, <2>1, RaiseRepeat DEF Sound
<1>5. \A i \in DOMAIN queue : queue[i].by = t => queue[i] = asked[t]
  BY QueuedIs, SomeTasks
<1>6. ASSUME NEW k \in Keys PROVE Follows(k)'
  <2>1. CASE k \in K
    <3>1. \A u \in Tasks : Writes(u, k)' => step[u] # "idle"
      BY <1>3, WriterIs
    <3> QED BY <1>1, <2>1, <3>1, RaiseUnsettles DEF Follows
  <2>2. CASE k \notin K /\ Unsettled(k)
    BY <1>1, <1>3, <2>2, RaiseKeeps DEF Follows
  <2>3. CASE k \notin K /\ Agrees(k)
    <3>1. asked[t].key # k /\ (k = "limits" => asked[t].key # "tuning")
      BY <1>2, <2>3, LeftOpenOf DEF Routing
    <3>2. queue' \in Seq(Request) /\ queue \in Seq(Request) /\ Len(queue') = Len(queue)
      BY GiveUpQueue DEF TypeOK
    <3>3. \A i \in DOMAIN queue' : \/ queue'[i] = queue[i]
                                   \/ queue'[i] \notin For(k) /\ queue[i] \notin For(k)
      BY <1>5, <3>1, GiveUpQueue DEF For
    <3>4. LastIn(queue', For(k)) = LastIn(queue, For(k)) /\ (NoneIn(queue', For(k)) <=> NoneIn(queue, For(k)))
      BY <3>2, <3>3, LastSame
    <3>5. k = "limits" => /\ LastIn(queue', Tuning) = LastIn(queue, Tuning)
                          /\ NoneIn(queue', Tuning) <=> NoneIn(queue, Tuning)
      <4> SUFFICES ASSUME k = "limits"
                   PROVE  /\ LastIn(queue', Tuning) = LastIn(queue, Tuning)
                          /\ NoneIn(queue', Tuning) <=> NoneIn(queue, Tuning)
        OBVIOUS
      <4>1. \A i \in DOMAIN queue' : \/ queue'[i] = queue[i]
                                     \/ queue'[i] \notin Tuning /\ queue[i] \notin Tuning
        BY <1>5, <3>1, GiveUpQueue DEF Tuning, For
      <4> QED BY <3>2, <4>1, LastSame
    <3>6. Overtaken' = Overtaken /\ Applying' = Applying /\ At("tuning")' = At("tuning")
      BY <1>1 DEF Overtaken, Applying, At
    <3> QED BY <1>1, <2>3, <3>4, <3>5, <3>6, AgreesSame DEF Follows
  <2> QED BY <1>1, <2>1, <2>2, <2>3 DEF Sound, AgreeInv, Follows
<1>7. GoneInv'
  <2>1. \A i \in DOMAIN queue' : queue'[i].by # "gone" => queue'[i] = queue[i] /\ queue[i].by # "gone"
    BY GiveUpQueue
  <2> SUFFICES ASSUME NEW i \in DOMAIN queue', queue'[i].by = "gone", queue'[i].key \in Keys
               PROVE  /\ queue'[i].key \in doubt'
                      /\ \A j \in 1 .. i : queue'[j].by # "gone" /\ queue'[j].key = queue'[i].key
                                             => queue'[j].key \in unsure'[queue'[j].by]
    BY DEF GoneInv
  <2>2. i \in DOMAIN queue /\ queue'[i].key = queue[i].key /\ \A j \in 1 .. i : j \in DOMAIN queue
    BY QueuedIs, GiveUpQueue
  <2>3. CASE queue[i].by = t
    <3>1. queue'[i].key \in K
      BY <1>2, <1>5, <2>2, <2>3, LeftOpenOf
    <3>2. ASSUME NEW j \in 1 .. i, queue'[j].by # "gone", queue'[j].key = queue'[i].key
          PROVE  queue'[j].key \in unsure'[queue'[j].by]
      <4>1. queue'[j] = queue[j] /\ queue[j].by \in Tasks /\ step[queue[j].by] # "idle"
        BY <2>1, <2>2, <3>2, QueuedIs, GiveUpQueue
      <4> QED BY <1>1, <3>1, <3>2, <4>1 DEF Raise
    <3> QED BY <1>1, <3>1, <3>2 DEF Raise
  <2>4. CASE queue[i].by # t
    <3>1. queue[i].by = "gone" /\ queue[i].key \in Keys
      BY <2>2, <2>4, GiveUpQueue
    <3>2. ASSUME NEW j \in 1 .. i, queue'[j].by # "gone", queue'[j].key = queue'[i].key
          PROVE  queue'[j].key \in unsure'[queue'[j].by]
      <4>1. /\ queue'[j] = queue[j] /\ queue[j].by \in Tasks /\ step[queue[j].by] # "idle"
            /\ queue[j].by # "gone"
        BY <2>1, <2>2, <3>2, QueuedIs, GiveUpQueue
      <4>2. queue[j].key \in unsure[queue[j].by]
        BY <2>2, <3>1, <3>2, <4>1 DEF Sound, GoneInv
      <4> QED BY <1>1, <4>1, <4>2 DEF Raise
    <3> QED BY <1>1, <2>2, <3>1, <3>2 DEF Raise, Sound, GoneInv
  <2> QED BY <2>3, <2>4
<1> QED BY <1>4, <1>6, <1>7 DEF Sound, AgreeInv

LEMMA SyncSound ==
  ASSUME TypeOK, Order, Sound, BootSync \/ StartupSync
  PROVE  Sound'
<1>1. "boot" \in Tasks \ Pages /\ "startup" \in Tasks \ Pages
  BY SomeTasks
<1>2. UNCHANGED <<file, fw, stuck>>
  BY DEF BootSync, StartupSync, disk
<1>3. CASE BootSync
  <2>1. SendOffsets("boot") /\ Placed("boot") /\ UNCHANGED held /\ step["boot"] = "booted"
    BY <1>3, RestPlaced, SomeTasks DEF BootSync
  <2> QED BY <1>1, <1>2, <2>1, SendOffsetsSound
<1>4. CASE StartupSync
  <2>1. Placed("startup") /\ step["startup"] = "timer"
    BY <1>4, RestPlaced, SomeTasks DEF StartupSync
  <2>2. CASE End("startup")
    BY <1>1, <1>2, <2>1, <2>2, EndSound
  <2>3. CASE SendOffsets("startup") /\ UNCHANGED held
    BY <1>1, <1>2, <2>1, <2>3, SendOffsetsSound
  <2> QED BY <1>4, <2>2, <2>3 DEF StartupSync
<1> QED BY <1>3, <1>4

(***************************************************************************)
(* The firmware serves a request.                                          *)
(***************************************************************************)
LEMMA QueueNext ==
  ASSUME TypeOK, queue # <<>>, NEW S
  PROVE  /\ Head(queue) \notin S => /\ LastIn(Tail(queue), S) = LastIn(queue, S)
                                    /\ NoneIn(Tail(queue), S) <=> NoneIn(queue, S)
         /\ ~NoneIn(Tail(queue), S) => LastIn(Tail(queue), S) = LastIn(queue, S)
         /\ NoneIn(Tail(queue), S) => LastIn(Tail(queue), S) = {}
         /\ Head(queue) \in S /\ NoneIn(Tail(queue), S) => LastIn(queue, S) = {Head(queue)}
<1>1. queue \in Seq(Request)
  BY DEF TypeOK
<1> QED BY <1>1, LastTail

LEMMA ServePlain ==
  ASSUME TypeOK, Order, queue # <<>>, queue' = Tail(queue), fw' = Written(Head(queue)),
         UNCHANGED file, NEW k \in Keys, PlainAgrees(k)
  PROVE  PlainAgrees(k)'
<1> DEFINE r == Head(queue)
<1>1. r \in Request /\ (r \in For(k) <=> r.key = k)
  BY QueueTail DEF For
<1>2. fw'[k] = IF r \in For(k) THEN r.val ELSE fw[k]
  BY <1>1 DEF Written, TypeOK
<1>3. CASE r \notin For(k)
  BY <1>2, <1>3, QueueNext DEF PlainAgrees
<1>4. CASE r \in For(k) /\ NoneIn(queue', For(k))
  <2>1. LastIn(queue, For(k)) = {r} /\ LastIn(queue', For(k)) = {}
    BY <1>4, QueueNext
  <2> QED BY <1>2, <1>4, <2>1 DEF PlainAgrees
<1>5. CASE r \in For(k) /\ ~NoneIn(queue', For(k))
  <2>1. LastIn(queue', For(k)) = LastIn(queue, For(k))
    BY <1>5, QueueNext
  <2> QED BY <1>5, <2>1 DEF PlainAgrees
<1> QED BY <1>3, <1>4, <1>5

(* A request whose caller is gone.                                         *)
LEMMA ServeGoneAgrees ==
  ASSUME TypeOK, Order, Serve, Head(queue).by = "gone", NEW k \in Keys, Agrees(k)
  PROVE  Agrees(k)'
<1> DEFINE r == Head(queue)
<1>1. /\ queue # <<>> /\ queue' = Tail(queue) /\ fw' = Written(r)
      /\ UNCHANGED <<ready, step, asked, held, file>>
  BY DEF Serve, disk
<1>2. r \in Request
  BY <1>1, QueueTail
<1>3. PlainAgrees(k) => PlainAgrees(k)'
  BY <1>1, ServePlain
<1>4. Overtaken' = Overtaken /\ Applying' = Applying /\ At("tuning")' = At("tuning")
  BY <1>1 DEF Overtaken, Applying, At
<1>5. CASE k \in {"tuning", "pwm"}
  BY <1>3, <1>5 DEF Agrees
<1>6. CASE k = "limits"
  <2>1. r \notin Tuning
    BY DEF Tuning
  <2>2. LastIn(queue', Tuning) = LastIn(queue, Tuning) /\ (NoneIn(queue', Tuning) <=> NoneIn(queue, Tuning))
    BY <1>1, <2>1, QueueNext
  <2>3. LimitsAgree'
    BY <1>1, <1>3, <1>4, <1>6, <2>2 DEF Agrees, LimitsAgree
  <2> QED BY <1>6, <2>3 DEF Agrees
<1>7. CASE k = "offsets" /\ r \notin For("offsets")
  <2>1. fw'[k] = fw[k]
    BY <1>1, <1>2, <1>7 DEF Written, TypeOK, For
  <2>2. /\ LastIn(queue', For(k)) = LastIn(queue, For(k))
        /\ NoneIn(queue', For(k)) <=> NoneIn(queue, For(k))
    BY <1>1, <1>7, QueueNext
  <2> QED BY <1>1, <1>4, <1>7, <2>1, <2>2, AgreesSame
<1>8. CASE k = "offsets" /\ r \in For("offsets")
  <2>1. OffsetsAgree /\ fw'["offsets"] = r.val /\ "gone" \notin Pages
    BY <1>1, <1>2, <1>8 DEF Written, TypeOK, For, Agrees
  <2>2. CASE NoneIn(queue', For("offsets"))
    <3>1. LastIn(queue, For("offsets")) = {r} /\ LastIn(queue', For("offsets")) = {}
      BY <1>1, <1>8, <2>2, QueueNext
    <3>2. ~Overtaken /\ r.val = file["offsets"]
      BY <2>1, <3>1 DEF OffsetsAgree
    <3>3. Applying = {}
      BY <3>2 DEF Applying, Overtaken, At
    <3>4. LastIn(ready, Applying) = {}
      BY <3>3 DEF LastIn
    <3> QED BY <1>1, <1>4, <1>8, <2>1, <3>1, <3>2, <3>4 DEF Agrees, OffsetsAgree
  <2>3. CASE ~NoneIn(queue', For("offsets"))
    <3>1. LastIn(queue', For("offsets")) = LastIn(queue, For("offsets"))
      BY <1>1, <2>3, QueueNext
    <3> QED BY <1>1, <1>4, <1>8, <2>1, <2>3, <3>1 DEF Agrees, OffsetsAgree
  <2> QED BY <2>2, <2>3
<1> QED BY <1>5, <1>6, <1>7, <1>8 DEF Keys

(* A request of a task, which becomes the last one that is ready.          *)
LEMMA ServeTaskAgrees ==
  ASSUME TypeOK, Order, Serve, Head(queue).by # "gone", NEW k \in Keys, Agrees(k)
  PROVE  Agrees(k)'
<1> DEFINE r == Head(queue)
           t == r.by
<1>1. /\ queue # <<>> /\ queue' = Tail(queue) /\ fw' = Written(r) /\ ready' = Append(ready, t)
      /\ UNCHANGED <<step, asked, held, file>>
  BY DEF Serve, disk
<1>2. /\ r \in Request /\ t \in Tasks /\ asked[t] = r /\ r.key = KeyOf[step[t]] 
      /\ step[t] \in DOMAIN Attempts /\ ready \in Seq(Tasks)
  BY <1>1, QueueTail DEF Order, TaskInv, TypeOK
<1>3. PlainAgrees(k) => PlainAgrees(k)'
  BY <1>1, ServePlain
<1>4. Overtaken' = Overtaken /\ Applying' = Applying /\ At("tuning")' = At("tuning")
  BY <1>1 DEF Overtaken, Applying, At
<1>5. (step[t] = "tuning" <=> r.key = "tuning") /\ (step[t] = "offsets" <=> r.key = "offsets")
  BY <1>2, Steps
<1>6. CASE k \in {"tuning", "pwm"}
  BY <1>3, <1>6 DEF Agrees
<1>7. ASSUME NEW S, t \notin S
      PROVE  LastIn(ready', S) = LastIn(ready, S) /\ (NoneIn(ready', S) <=> NoneIn(ready, S))
  BY <1>1, <1>2, <1>7, LastAppendElse
<1>8. ASSUME NEW S, t \in S
      PROVE  LastIn(ready', S) = {t} /\ ~NoneIn(ready', S)
  BY <1>1, <1>2, <1>8, LastAppendThis
<1>9. CASE k = "limits"
  <2>1. LimitsAgree /\ (r \in Tuning <=> r.key = "tuning")
    BY <1>2, <1>9 DEF Agrees, Tuning, For
  <2>2. CASE r.key # "tuning"
    <3>1. LastIn(queue', Tuning) = LastIn(queue, Tuning) /\ (NoneIn(queue', Tuning) <=> NoneIn(queue, Tuning))
      BY <1>1, <2>1, <2>2, QueueNext
    <3>2. t \notin At("tuning")
      BY <1>5, <2>2 DEF At
    <3>3. /\ LastIn(ready', At("tuning")) = LastIn(ready, At("tuning"))
          /\ NoneIn(ready', At("tuning")) <=> NoneIn(ready, At("tuning"))
      BY <1>7, <3>2
    <3>4. LimitsAgree'
      BY <1>1, <1>3, <1>4, <1>9, <2>1, <3>1, <3>3 DEF LimitsAgree
    <3> QED BY <1>9, <3>4 DEF Agrees
  <2>3. CASE r.key = "tuning"
    <3>1. t \in At("tuning")
      BY <1>2, <1>5, <2>3 DEF At
    <3>2. LastIn(ready', At("tuning")) = {t} /\ ~NoneIn(ready', At("tuning"))
      BY <1>8, <3>1
    <3>3. CASE NoneIn(queue', Tuning)
      <4>1. LastIn(queue, Tuning) = {r} /\ LastIn(queue', Tuning) = {}
        BY <1>1, <2>1, <2>3, <3>3, QueueNext
      <4>2. held[t] = file["limits"]
        BY <2>1, <4>1 DEF LimitsAgree
      <4> QED BY <1>1, <1>4, <1>9, <3>2, <4>1, <4>2 DEF Agrees, LimitsAgree
    <3>4. CASE ~NoneIn(queue', Tuning)
      <4>1. LastIn(queue', Tuning) = LastIn(queue, Tuning)
        BY <1>1, <3>4, QueueNext
      <4> QED BY <1>1, <1>9, <2>1, <3>4, <4>1 DEF Agrees, LimitsAgree
    <3> QED BY <3>3, <3>4
  <2> QED BY <2>2, <2>3
<1>10. CASE k = "offsets" /\ r.key # "offsets"
  <2>1. fw'[k] = fw[k] /\ r \notin For(k)
    BY <1>1, <1>2, <1>10 DEF Written, TypeOK, For
  <2>2. /\ LastIn(queue', For(k)) = LastIn(queue, For(k))
        /\ NoneIn(queue', For(k)) <=> NoneIn(queue, For(k))
    BY <1>1, <2>1, QueueNext
  <2>3. t \notin Applying
    BY <1>5, <1>10 DEF Applying, At
  <2>4. LastIn(ready', Applying) = LastIn(ready, Applying) /\ (NoneIn(ready', Applying) <=> NoneIn(ready, Applying))
    BY <1>7, <2>3
  <2> QED BY <1>1, <1>4, <1>10, <2>1, <2>2, <2>4, AgreesSame
<1>11. CASE k = "offsets" /\ r.key = "offsets"
  <2>1. OffsetsAgree /\ fw'["offsets"] = r.val /\ r \in For("offsets") /\ step[t] = "offsets"
    BY <1>1, <1>2, <1>5, <1>11 DEF Written, TypeOK, For, Agrees
  <2>2. CASE NoneIn(queue', For("offsets"))
    <3>1. LastIn(queue, For("offsets")) = {r} /\ LastIn(queue', For("offsets")) = {}
      BY <1>1, <2>1, <2>2, QueueNext
    <3>2. t \in Pages \/ (~Overtaken /\ r.val = file["offsets"])
      BY <2>1, <3>1 DEF OffsetsAgree
    <3>3. CASE t \in Pages
      <4>1. t \in Applying
        BY <1>2, <2>1, <3>3 DEF Applying, At
      <4>2. LastIn(ready', Applying) = {t} /\ ~NoneIn(ready', Applying)
        BY <1>8, <4>1
      <4> QED BY <1>1, <1>2, <1>4, <1>11, <2>1, <3>1, <4>2 DEF Agrees, OffsetsAgree
    <3>4. CASE ~Overtaken /\ r.val = file["offsets"]
      <4>1. Applying = {}
        BY <3>4 DEF Applying, Overtaken, At
      <4>2. LastIn(ready', Applying) = {}
        BY <4>1 DEF LastIn
      <4> QED BY <1>1, <1>4, <1>11, <2>1, <3>1, <3>4, <4>2 DEF Agrees, OffsetsAgree
    <3> QED BY <3>2, <3>3, <3>4
  <2>3. CASE ~NoneIn(queue', For("offsets"))
    <3>1. LastIn(queue', For("offsets")) = LastIn(queue, For("offsets"))
      BY <1>1, <2>3, QueueNext
    <3> QED BY <1>1, <1>4, <1>11, <2>1, <2>3, <3>1 DEF Agrees, OffsetsAgree
  <2> QED BY <2>2, <2>3
<1> QED BY <1>6, <1>9, <1>10, <1>11 DEF Keys

LEMMA ServeSound ==
  ASSUME TypeOK, Order, Sound, Serve
  PROVE  Sound'
<1> DEFINE r == Head(queue)
<1>1. /\ queue # <<>> /\ queue' = Tail(queue) /\ ~stuck /\ UNCHANGED <<stuck, step, asked, tries, unsure>>
  BY DEF Serve
<1>2. /\ r = queue[1] /\ 1 \in DOMAIN queue
      /\ \A i \in DOMAIN queue' : i + 1 \in DOMAIN queue /\ queue'[i] = queue[i + 1]
      /\ r.by # "gone" => r.by \in Tasks /\ reply[r.by] = "pending" /\ asked[r.by] = r
      /\ \A i \in DOMAIN queue' : i \in Nat
  <2>1. queue' \in Seq(Request)
    BY <1>1, QueueTail
  <2> QED BY <1>1, <2>1, QueueTail
<1>3. /\ r.by = "gone" => UNCHANGED <<reply, doubt>>
      /\ r.by # "gone" => /\ reply'[r.by] = "OK" /\ \A u \in Tasks \ {r.by} : reply'[u] = reply[u]
                          /\ doubt' = doubt \ ({r.key} \ unsure[r.by])
  BY <1>2 DEF Serve, TypeOK
<1> HIDE DEF r
<1>4. ASSUME NEW k \in Keys, Unsettled(k) PROVE Unsettled(k)'
  <2>1. k \in doubt'
    <3>1. r.by # "gone" /\ r.key = k => k \in unsure[r.by]
      BY <1>2, <1>4 DEF Unsettled, Writes
    <3> QED BY <1>3, <1>4, <3>1 DEF Unsettled
  <2>2. ASSUME NEW u \in Tasks, Writes(u, k)' PROVE Writes(u, k)
    <3>1. reply'[u] = reply[u] \/ (reply[u] = "pending" /\ reply'[u] = "OK")
      BY <1>2, <1>3
    <3> QED BY <1>1, <2>2, <3>1 DEF Writes
  <2> QED BY <1>1, <1>4, <2>1, <2>2 DEF Unsettled
<1>5. AgreeInv'
  <2> SUFFICES ASSUME NEW k \in Keys PROVE Follows(k)'
    BY DEF AgreeInv
  <2>1. Unsettled(k) \/ Agrees(k)
    BY <1>1 DEF Sound, AgreeInv, Follows
  <2> QED BY <1>4, <2>1, ServeGoneAgrees, ServeTaskAgrees DEF Follows
<1>6. RepeatInv'
  <2> SUFFICES ASSUME NEW u \in Tasks, Repeats(u)', NEW k \in LeftOpen(asked[u])'
               PROVE  Unsettled(k)' /\ k \in unsure'[u]
    BY DEF RepeatInv
  <2>1. Repeats(u)
    BY <1>1, <1>2, <1>3 DEF Repeats, Failed
  <2> QED BY <1>1, <1>4, <2>1, LeftOpenIs DEF Sound, RepeatInv
<1>7. GoneInv'
  <2> SUFFICES ASSUME NEW i \in DOMAIN queue', queue'[i].by = "gone", queue'[i].key \in Keys
               PROVE  /\ queue'[i].key \in doubt'
                      /\ \A j \in 1 .. i : queue'[j].by # "gone" /\ queue'[j].key = queue'[i].key
                                             => queue'[j].key \in unsure'[queue'[j].by]
    BY DEF GoneInv
  <2>1. i + 1 \in DOMAIN queue /\ queue'[i] = queue[i + 1] /\ 1 \in 1 .. i + 1
    BY <1>2
  <2>2. /\ queue'[i].key \in doubt
        /\ \A j \in 1 .. i + 1 : queue[j].by # "gone" /\ queue[j].key = queue'[i].key
                                   => queue[j].key \in unsure[queue[j].by]
    BY <2>1 DEF Sound, GoneInv
  <2>3. queue'[i].key \in doubt'
    BY <1>2, <1>3, <2>1, <2>2
  <2>4. ASSUME NEW j \in 1 .. i PROVE queue'[j] = queue[j + 1] /\ j + 1 \in 1 .. i + 1
    <3>1. queue' \in Seq(Request)
      BY <1>1, QueueTail
    <3>2. j \in DOMAIN queue' /\ i \in Nat
      BY <3>1
    <3> QED BY <1>2, <3>2
  <2> QED BY <1>1, <2>2, <2>3, <2>4
<1> QED BY <1>5, <1>6, <1>7 DEF Sound

(***************************************************************************)
(* Replies that are lost, the firmware's restart and the server's life.    *)
(***************************************************************************)
(* A setting that no waiting task will write has nothing in the queue.     *)
LEMMA QueueNone ==
  ASSUME TypeOK, Order, GoneInv, NEW k \in Keys, k \notin doubt, ~Waits(k)
  PROVE  NoneIn(queue, For(k)) /\ (k = "limits" => NoneIn(queue, Tuning))
<1>1. ASSUME NEW i \in DOMAIN queue, queue[i].by # "gone"
      PROVE  k \notin LeftOpen(queue[i]) /\ queue[i] \in Request
  BY <1>1, QueuedIs DEF Waits
<1>2. ASSUME NEW i \in DOMAIN queue, queue[i] \in For(k) PROVE FALSE
  <2>1. queue[i].key = k /\ queue[i].by # "gone"
    BY <1>2 DEF For, GoneInv
  <2> QED BY <1>1, <2>1, LeftOpenOf
<1>3. ASSUME k = "limits", NEW i \in DOMAIN queue, queue[i] \in Tuning PROVE FALSE
  <2>1. queue[i].by # "gone" /\ queue[i].key = "tuning"
    BY <1>3 DEF Tuning, For
  <2> QED BY <1>1, <1>3, <2>1, LeftOpenOf DEF Routing
<1> QED BY <1>2, <1>3 DEF NoneIn

(* If no task is concerned with it at all, the firmware has the file's.    *)
LEMMA Settled ==
  ASSUME TypeOK, Order, GoneInv, NEW k \in Keys, Follows(k), k \notin doubt,
         \A t \in Tasks : k \notin LeftOpen(asked[t])
  PROVE  fw[k] = file[k]
<1>1. ~Waits(k) /\ ~Unsettled(k)
  BY DEF Waits, Unsettled
<1>2. Agrees(k) /\ NoneIn(queue, For(k)) /\ (k = "limits" => NoneIn(queue, Tuning))
  BY <1>1, QueueNone DEF Follows
<1>3. CASE k \in {"tuning", "pwm"}
  BY <1>2, <1>3 DEF Agrees, PlainAgrees
<1>4. CASE k = "offsets"
  <2>1. \A t \in Tasks : step[t] # "offsets"
    <3>1. ASSUME NEW t \in Tasks, step[t] = "offsets" PROVE FALSE
      <4>1. asked[t] \in Request /\ asked[t].key = k
        BY <1>4, <3>1, Steps DEF Order, TaskInv
      <4> QED BY <4>1, LeftOpenOf
    <3> QED BY <3>1
  <2>2. NoneIn(ready, Applying)
    <3>1. Applying = {}
      BY <2>1 DEF Applying, At
    <3> QED BY <3>1 DEF NoneIn
  <2> QED BY <1>2, <1>4, <2>2 DEF Agrees, OffsetsAgree
<1>5. CASE k = "limits"
  <2>1. \A t \in Tasks : step[t] # "tuning"
    <3>1. ASSUME NEW t \in Tasks, step[t] = "tuning" PROVE FALSE
      <4>1. asked[t] \in Request /\ asked[t].key = "tuning"
        BY <3>1, Steps DEF Order, TaskInv
      <4> QED BY <1>5, <4>1, LeftOpenOf DEF Routing
    <3> QED BY <3>1
  <2>2. NoneIn(ready, At("tuning"))
    <3>1. At("tuning") = {}
      BY <2>1 DEF At
    <3> QED BY <3>1 DEF NoneIn
  <2> QED BY <1>2, <1>5, <2>2 DEF Agrees, LimitsAgree, PlainAgrees
<1> QED BY <1>3, <1>4, <1>5 DEF Keys

(* The writer is blocked and drops its queue.                              *)
LEMMA BlockedFollows ==
  ASSUME TypeOK, Order, Sound, ~stuck, stuck', queue' = <<>>, doubt \subseteq doubt',
         UNCHANGED <<ready, step, asked, reply, held, file>>,
         NEW k \in Keys, k \in doubt' \/ fw'[k] = fw[k]
  PROVE  Follows(k)'
<1>1. CASE k \in doubt' \/ Waits(k)
  <2>1. Waits(k) => Waits(k)'
    BY DEF Waits
  <2> QED BY <1>1, <2>1 DEF Follows
<1>2. CASE ~(k \in doubt' \/ Waits(k))
  <2>1. Agrees(k)
    BY <1>2 DEF Sound, AgreeInv, Follows, Unsettled
  <2>2. NoneIn(queue, For(k)) /\ (k = "limits" => NoneIn(queue, Tuning))
    BY <1>2, QueueNone DEF Sound
  <2>3. queue \in Seq(Request)
    BY DEF TypeOK
  <2>4. /\ LastIn(queue', For(k)) = LastIn(queue, For(k))
        /\ NoneIn(queue', For(k)) <=> NoneIn(queue, For(k))
    BY <2>2, <2>3, NoneNoLast, Nothing
  <2>5. k = "limits" => /\ LastIn(queue', Tuning) = LastIn(queue, Tuning)
                        /\ NoneIn(queue', Tuning) <=> NoneIn(queue, Tuning)
    BY <2>2, <2>3, NoneNoLast, Nothing
  <2>6. Overtaken' = Overtaken /\ Applying' = Applying /\ At("tuning")' = At("tuning")
    BY DEF Overtaken, Applying, At
  <2> QED BY <1>2, <2>1, <2>4, <2>5, <2>6, AgreesSame DEF Follows
<1> QED BY <1>1, <1>2

LEMMA ServeLostSound ==
  ASSUME TypeOK, Order, Sound, ServeLost
  PROVE  Sound'
<1> DEFINE r == Head(queue)
           K == LeftOpen(r)
<1>1. /\ queue # <<>> /\ ~stuck /\ Loses /\ fw' \in {fw, Written(r)} /\ Raise(K)
      /\ K \in SUBSET Keys
      /\ UNCHANGED <<file, ready, step, asked, tries, held>>
  BY LeftOpenIs DEF ServeLost, disk
<1>2. /\ r = queue[1] /\ 1 \in DOMAIN queue /\ r \in Request
      /\ r.by # "gone" => r.by \in Tasks /\ reply[r.by] = "pending" /\ asked[r.by] = r
  BY <1>1, QueueTail
<1>3. \A k \in Keys \ K : fw'[k] = fw[k] /\ r \notin For(k) /\ (k = "limits" => r \notin Tuning)
  BY <1>1, <1>2, LeftOpenOf DEF Written, TypeOK, For, Tuning, Routing
<1>4. stuck' \in BOOLEAN
  BY <1>1 DEF Loses
<1>5. /\ stuck' => queue' = <<>> /\ reply' = reply
      /\ ~stuck' => /\ queue' = Tail(queue)
                    /\ r.by = "gone" => reply' = reply
                    /\ r.by # "gone" => /\ reply'[r.by] = "TIMEOUT"
                                        /\ \A u \in Tasks \ {r.by} : reply'[u] = reply[u]
  BY <1>1, <1>2 DEF Loses, TypeOK
<1> HIDE DEF r, K
<1>6. ASSUME NEW u \in Tasks
      PROVE  reply'[u] = reply[u] \/ (r.by = u /\ r.by # "gone" /\ reply'[u] = "TIMEOUT")
  BY <1>2, <1>4, <1>5, SomeTasks
<1>7. \A k \in Keys : \A u \in Tasks : Writes(u, k)' => Writes(u, k)
  BY <1>1, <1>6 DEF Writes
<1>8. RepeatInv'
  <2>1. \A u \in Tasks : Failed(u)' => Failed(u) \/ LeftOpen(asked[u]) \subseteq K
    BY <1>2, <1>6 DEF Failed, K
  <2> QED BY <1>1, <1>7, <2>1, RaiseRepeat DEF Sound
<1>9. ASSUME NEW k \in Keys PROVE Follows(k)'
  <2>1. CASE k \in K
    <3>1. \A u \in Tasks : Writes(u, k)' => step[u] # "idle"
      BY <1>7, WriterIs
    <3> QED BY <1>1, <2>1, <3>1, RaiseUnsettles DEF Follows
  <2>2. CASE k \notin K /\ stuck'
    BY <1>1, <1>3, <1>5, <2>2, BlockedFollows DEF Raise
  <2>3. CASE k \notin K /\ ~stuck' /\ Unsettled(k)
    BY <1>1, <1>7, <2>3, RaiseKeeps DEF Follows
  <2>4. CASE k \notin K /\ ~stuck' /\ Agrees(k)
    <3>1. /\ LastIn(queue', For(k)) = LastIn(queue, For(k))
          /\ NoneIn(queue', For(k)) <=> NoneIn(queue, For(k))
      BY <1>1, <1>3, <1>5, <2>4, QueueNext DEF r
    <3>2. k = "limits" => /\ LastIn(queue', Tuning) = LastIn(queue, Tuning)
                          /\ NoneIn(queue', Tuning) <=> NoneIn(queue, Tuning)
      BY <1>1, <1>3, <1>5, <2>4, QueueNext DEF r
    <3>3. Overtaken' = Overtaken /\ Applying' = Applying /\ At("tuning")' = At("tuning")
      BY <1>1 DEF Overtaken, Applying, At
    <3> QED BY <1>1, <1>3, <2>4, <3>1, <3>2, <3>3, AgreesSame DEF Follows
  <2> QED BY <1>1, <1>4, <2>1, <2>2, <2>3, <2>4 DEF Sound, AgreeInv, Follows
<1>10. GoneInv'
  <2>1. CASE stuck'
    BY <1>5, <2>1 DEF GoneInv
  <2>2. CASE ~stuck'
    <3> SUFFICES ASSUME NEW i \in DOMAIN queue', queue'[i].by = "gone", queue'[i].key \in Keys
                 PROVE  /\ queue'[i].key \in doubt'
                        /\ \A j \in 1 .. i : queue'[j].by # "gone" /\ queue'[j].key = queue'[i].key
                                               => queue'[j].key \in unsure'[queue'[j].by]
      BY DEF GoneInv
    <3>1. queue' \in Seq(Request) /\ \A j \in DOMAIN queue' : j + 1 \in DOMAIN queue /\ queue'[j] = queue[j + 1]
      BY <1>1, <1>5, <2>2, QueueTail
    <3>2. ASSUME NEW j \in 1 .. i
          PROVE  queue'[j] = queue[j + 1] /\ j + 1 \in 1 .. i + 1 /\ j + 1 \in DOMAIN queue
      <4>1. j \in DOMAIN queue' /\ i \in Nat
        BY <3>1
      <4> QED BY <3>1, <4>1
    <3>3. /\ queue'[i].key \in doubt
          /\ \A j \in 1 .. i + 1 : queue[j].by # "gone" /\ queue[j].key = queue'[i].key
                                     => queue[j].key \in unsure[queue[j].by]
      BY <3>1 DEF Sound, GoneInv
    <3>4. ASSUME NEW j \in 1 .. i, queue'[j].by # "gone", queue'[j].key = queue'[i].key
          PROVE  queue'[j].key \in unsure'[queue'[j].by]
      <4>1. queue'[j].by \in Tasks /\ step[queue'[j].by] # "idle"
        BY <3>2, <3>4, QueuedIs
      <4> QED BY <1>1, <3>2, <3>3, <3>4, <4>1 DEF Raise
    <3> QED BY <1>1, <3>3, <3>4 DEF Raise
  <2> QED BY <1>4, <2>1, <2>2
<1> QED BY <1>8, <1>9, <1>10 DEF Sound, AgreeInv

LEMMA PollLostSound ==
  ASSUME TypeOK, Order, Sound, PollLost
  PROVE  Sound'
<1>1. /\ ~stuck /\ stuck' /\ queue' = <<>>
      /\ UNCHANGED <<ready, step, asked, reply, tries, held, file, fw, doubt, unsure>>
  BY DEF PollLost, disk, tasks, history
<1>2. \A k \in Keys : Follows(k)'
  BY <1>1, BlockedFollows
<1>3. \A k \in Keys : Unsettled(k) => Unsettled(k)'
  BY <1>1 DEF Unsettled, Writes
<1>4. RepeatInv'
  BY <1>1, <1>3, LeftOpenIs DEF Sound, RepeatInv, Repeats, Failed
<1> QED BY <1>1, <1>2, <1>4 DEF Sound, AgreeInv, GoneInv

LEMMA ResetSound ==
  ASSUME TypeOK, Order, Sound, FirmwareResets
  PROVE  Sound'
<1>1. Raise(Keys) /\ UNCHANGED <<queue, stuck, asked, reply, tries>> /\ step["boot"] = "idle"
  BY DEF FirmwareResets, uart
<1>2. \A u \in Tasks \ {"boot"} : step'[u] = step[u]
  BY DEF FirmwareResets, BootReady, TypeOK
<1>3. ASSUME NEW u \in Tasks, reply[u] # "none" PROVE step[u] # "idle"
  BY <1>3, Idles DEF Order, TaskInv
<1>4. ASSUME NEW k \in Keys PROVE Unsettled(k)'
  <2>1. \A u \in Tasks : Writes(u, k)' => step[u] # "idle"
    BY <1>1, <1>3 DEF Writes
  <2> QED BY <1>1, <2>1, RaiseUnsettles
<1>5. RepeatInv'
  <2> SUFFICES ASSUME NEW u \in Tasks, Repeats(u)', NEW k \in LeftOpen(asked[u])'
               PROVE  Unsettled(k)' /\ k \in unsure'[u]
    BY DEF RepeatInv
  <2>1. k \in Keys /\ step[u] # "idle"
    BY <1>1, WriterIs, LeftOpenIs
  <2> QED BY <1>1, <1>4, <2>1 DEF Raise
<1>6. GoneInv'
  <2> SUFFICES ASSUME NEW i \in DOMAIN queue, queue[i].key \in Keys
               PROVE  /\ queue[i].key \in doubt'
                      /\ \A j \in 1 .. i : queue[j].by # "gone" /\ queue[j].key = queue[i].key
                                             => queue[j].key \in unsure'[queue[j].by]
    BY <1>1 DEF GoneInv
  <2>1. ASSUME NEW j \in 1 .. i, queue[j].by # "gone", queue[j].key = queue[i].key
        PROVE  queue[j].key \in unsure'[queue[j].by]
    <3>1. queue[j].by \in Tasks /\ step[queue[j].by] # "idle"
      BY <2>1, QueuedIs
    <3> QED BY <1>1, <2>1, <3>1 DEF Raise
  <2> QED BY <1>1, <2>1 DEF Raise
<1> QED BY <1>4, <1>5, <1>6 DEF Sound, AgreeInv, Follows

LEMMA StartSound ==
  ASSUME TypeOK, Order, Sound, Start, step["startup"] = "idle"
  PROVE  Sound'
<1>1. /\ step' = [step EXCEPT !["startup"] = "timer"]
      /\ UNCHANGED <<queue, stuck, ready, asked, reply, tries, held, file, fw, doubt, unsure>>
  BY DEF Start, disk, uart, history
<1>2. \A u \in Tasks : \A s \in {"offsets", "tuning"} : step'[u] = s <=> step[u] = s
  BY <1>1 DEF TypeOK
<1>3. Overtaken' = Overtaken /\ Applying' = Applying /\ At("tuning")' = At("tuning")
  BY <1>2 DEF Overtaken, Applying, At, Tasks
<1>4. ASSUME NEW k \in Keys
      PROVE  (Unsettled(k) => Unsettled(k)') /\ (Waits(k) => Waits(k)') /\ (Agrees(k) => Agrees(k)')
  <2>1. Unsettled(k) => Unsettled(k)'
    BY <1>1, <1>2 DEF Unsettled, Writes
  <2>2. Waits(k) => Waits(k)'
    BY <1>1 DEF Waits
  <2>3. Agrees(k) => Agrees(k)'
    BY <1>1, <1>3, AgreesSame
  <2> QED BY <2>1, <2>2, <2>3
<1>5. AgreeInv'
  BY <1>1, <1>4 DEF Sound, AgreeInv, Follows
<1>6. RepeatInv'
  BY <1>1, <1>4, LeftOpenIs DEF Sound, RepeatInv, Repeats, Failed
<1>7. GoneInv'
  BY <1>1 DEF Sound, GoneInv
<1> QED BY <1>5, <1>6, <1>7 DEF Sound

LEMMA EndsSound ==
  ASSUME TypeOK, Order, Sound, ProcessEnds
  PROVE  Sound'
<1>1. /\ queue' = <<>> /\ ready' = <<>> /\ UNCHANGED <<file, fw>>
      /\ \A t \in Tasks : /\ reply'[t] = "none" /\ asked'[t] = NoRequest /\ tries'[t] = 0
                          /\ step'[t] = "idle"
      /\ doubt' = doubt \cup UNION {LeftOpen(asked[t]) : t \in Tasks}
  BY DEF ProcessEnds, disk
<1>2. ASSUME NEW k \in Keys PROVE Follows(k)'
  <2>1. CASE k \in doubt'
    <3>1. \A t \in Tasks : ~Writes(t, k)'
      BY <1>1 DEF Writes
    <3> QED BY <2>1, <3>1 DEF Follows, Unsettled
  <2>2. CASE k \notin doubt'
    <3>1. k \notin doubt /\ \A t \in Tasks : k \notin LeftOpen(asked[t])
      BY <1>1, <2>2
    <3>2. fw'[k] = file'[k]
      BY <1>1, <3>1, Settled DEF Sound, AgreeInv
    <3>3. \A S : /\ LastIn(queue', S) = {} /\ LastIn(ready', S) = {}
                 /\ NoneIn(queue', S) /\ NoneIn(ready', S)
      BY <1>1, Nothing
    <3>4. CASE k \in {"tuning", "pwm"}
      BY <3>2, <3>3, <3>4 DEF Follows, Agrees, PlainAgrees
    <3>5. CASE k = "offsets"
      <4>1. OffsetsAgree'
        BY <3>2, <3>3, <3>5 DEF OffsetsAgree
      <4> QED BY <3>5, <4>1 DEF Follows, Agrees
    <3>6. CASE k = "limits"
      <4>1. LimitsAgree'
        BY <3>2, <3>3, <3>6 DEF LimitsAgree, PlainAgrees
      <4> QED BY <3>6, <4>1 DEF Follows, Agrees
    <3> QED BY <3>4, <3>5, <3>6 DEF Keys
  <2> QED BY <2>1, <2>2
<1>3. RepeatInv'
  BY <1>1 DEF RepeatInv, Repeats, Failed
<1>4. GoneInv'
  BY <1>1 DEF GoneInv
<1> QED BY <1>2, <1>3, <1>4 DEF Sound, AgreeInv

(***************************************************************************)
(* The files.                                                              *)
(***************************************************************************)
(* What a step may do to the files.                                        *)
LEMMA FileSame ==
  ASSUME TypeOK, FileInv, UNCHANGED post,
         version' = version \/ version' = version + 1,
         \A k \in Routing : file'[k] = file[k],
         \A k \in {"home", "pwm"} : file'[k] \in {file[k], version'}
  PROVE  /\ FileInv'
         /\ \A k \in Settings \ {"offsets"} : file'[k] >= file[k]
<1>1. Settings \ {"offsets"} = Routing \cup {"home", "pwm"}
  BY DEF Settings, Keys, Routing
<1>2. version \in Nat /\ version <= version' /\ version' \in Nat
  BY DEF TypeOK, Version
<1>3. ASSUME NEW k \in Settings \ {"offsets"}
      PROVE  file[k] \in Nat /\ file[k] <= version /\ file'[k] \in {file[k], version'}
  <2>1. file[k] \in Version
    BY FileIs
  <2> QED BY <1>1, <2>1 DEF FileInv, Version
<1>4. ASSUME NEW k \in Settings \ {"offsets"} PROVE file'[k] <= version' /\ file'[k] >= file[k]
  BY <1>2, <1>3
<1>5. ASSUME NEW h \in Threads, post[h] # Idle
      PROVE  /\ post[h].val <= version'
             /\ \A k \in Routing :
                  /\ post[h].seen[k] <= version'
                  /\ post[h].alone => post[h].seen[k] = file'[k] /\ file'[k] <= post[h].val
  <2>1. post[h].val \in Nat /\ \A k \in Routing : post[h].seen[k] \in Nat
    BY <1>5 DEF TypeOK, Version
  <2> QED BY <1>2, <1>5, <2>1 DEF FileInv
<1> QED BY <1>4, <1>5 DEF FileInv

LEMMA PostFile ==
  ASSUME TypeOK, FileInv, NEW h \in Threads, PostReads(h) \/ PostWrites(h)
  PROVE  /\ FileInv'
         /\ \A k \in Settings \ {"offsets"} :
              file'[k] >= file[k] \/ (PostWrites(h) /\ ~post[h].alone)
<1>1. /\ Routing \subseteq Settings \ {"offsets"} /\ version \in Nat
      /\ \A k \in Settings : file[k] \in Nat
  BY FileIs DEF Routing, Settings, Keys, TypeOK, Version
<1>2. ASSUME NEW g \in Threads, post[g] # Idle
      PROVE  /\ post[g] \in [parts : SUBSET Routing \ {{}}, val : Version,
                             seen : [Routing -> Version], alone : BOOLEAN]
             /\ post[g].val \in Nat /\ \A k \in Routing : post[g].seen[k] \in Nat
             /\ post[g].parts \subseteq Routing
  BY <1>2 DEF TypeOK, Version
<1>3. CASE PostReads(h)
  <2>1. /\ version' = version + 1 /\ UNCHANGED file
        /\ \E parts \in SUBSET Routing \ {{}} :
             post' = [post EXCEPT ![h] = [parts |-> parts, val |-> version', alone |-> TRUE,
                                          seen |-> [k \in Routing |-> file[k]]]]
    BY <1>3 DEF PostReads, NewVersion
  <2>2. /\ post'[h].val = version' /\ \A k \in Routing : post'[h].seen[k] = file[k]
        /\ \A g \in Threads \ {h} : post'[g] = post[g]
    BY <2>1 DEF TypeOK
  <2>3. \A k \in Settings \ {"offsets"} : file'[k] <= version /\ file'[k] <= version'
    BY <1>1, <2>1 DEF FileInv
  <2>4. ASSUME NEW g \in Threads, post'[g] # Idle
        PROVE  /\ post'[g].val <= version'
               /\ \A k \in Routing :
                    /\ post'[g].seen[k] <= version'
                    /\ post'[g].alone => post'[g].seen[k] = file'[k] /\ file'[k] <= post'[g].val
    <3>1. CASE g = h
      <4>1. version' <= version'
        BY <1>1, <2>1
      <4> QED BY <1>1, <2>1, <2>2, <2>3, <3>1, <4>1
    <3>2. CASE g # h
      BY <1>1, <1>2, <2>1, <2>2, <2>4, <3>2 DEF FileInv
    <3> QED BY <3>1, <3>2
  <2>5. \A k \in Settings : file'[k] >= file[k]
    BY <1>1, <2>1
  <2> QED BY <2>3, <2>4, <2>5 DEF FileInv
<1>4. CASE PostWrites(h)
  <2>1. /\ post[h] # Idle /\ version' = version
        /\ \A k \in Settings : file'[k] = IF k \in post[h].parts THEN post[h].val
                                          ELSE IF k \in Routing THEN post[h].seen[k] ELSE file[k]
        /\ \A g \in Threads : post'[g] = IF g = h \/ post[g] = Idle THEN Idle
                                         ELSE [post[g] EXCEPT !.alone = FALSE]
    BY <1>4 DEF PostWrites, PostEnds
  <2>2. \A k \in Settings \ {"offsets"} : file'[k] <= version'
    BY <1>1, <1>2, <2>1 DEF FileInv
  <2>3. ASSUME NEW g \in Threads, post'[g] # Idle
        PROVE  /\ post'[g].val <= version'
               /\ \A k \in Routing :
                    /\ post'[g].seen[k] <= version'
                    /\ post'[g].alone => post'[g].seen[k] = file'[k] /\ file'[k] <= post'[g].val
    <3>1. post[g] # Idle /\ post'[g] = [post[g] EXCEPT !.alone = FALSE]
      BY <2>1, <2>3
    <3>2. post'[g].val = post[g].val /\ post'[g].seen = post[g].seen /\ ~post'[g].alone
      BY <1>2, <3>1
    <3> QED BY <2>1, <3>1, <3>2 DEF FileInv
  <2>4. ASSUME NEW k \in Settings \ {"offsets"}, post[h].alone PROVE file'[k] >= file[k]
    BY <1>1, <1>2, <2>1, <2>4 DEF FileInv
  <2> QED BY <1>4, <2>2, <2>3, <2>4 DEF FileInv
<1> QED BY <1>3, <1>4

(* The version of a setting only grows, but for POSTs that overlap.        *)
LEMMA FileStep ==
  ASSUME TypeOK, FileInv, [Next]_vars
  PROVE  /\ FileInv'
         /\ \A k \in Settings \ {"offsets"} :
              \/ file'[k] >= file[k]
              \/ \E h \in Threads : PostWrites(h) /\ ~post[h].alone
<1>1. ASSUME UNCHANGED disk
      PROVE  FileInv' /\ \A k \in Settings \ {"offsets"} : file'[k] >= file[k]
  <2>1. UNCHANGED <<file, version, post>>
    BY <1>1 DEF disk
  <2> QED BY <2>1, FileSame
<1>2. ASSUME NEW p \in Pages, SaveSettings(p) \/ ApplyOffsets(p) \/ SavePwm(p) \/ ApplyVr(p)
      PROVE  FileInv' /\ \A k \in Settings \ {"offsets"} : file'[k] >= file[k]
  <2>1. CASE SaveSettings(p)
    <3>1. /\ version' = version + 1 /\ UNCHANGED post
          /\ file' = [file EXCEPT !["offsets"] = version', !["home"] = version']
      BY <2>1 DEF SaveSettings, NewVersion, Save
    <3>2. /\ file'["home"] = version' /\ file'["pwm"] = file["pwm"]
          /\ \A k \in Routing : file'[k] = file[k]
      BY <3>1 DEF TypeOK, Settings, Keys, Routing
    <3> QED BY <3>1, <3>2, FileSame
  <2>2. CASE ApplyOffsets(p)
    BY <2>2, FileSame DEF ApplyOffsets, NewVersion
  <2>3. CASE SavePwm(p)
    <3>1. /\ version' = version + 1 /\ UNCHANGED post
          /\ file' = [file EXCEPT !["pwm"] = version']
      BY <2>3 DEF SavePwm, NewVersion
    <3>2. /\ file'["pwm"] = version' /\ file'["home"] = file["home"]
          /\ \A k \in Routing : file'[k] = file[k]
      BY <3>1 DEF TypeOK, Settings, Keys, Routing
    <3> QED BY <3>1, <3>2, FileSame
  <2>4. CASE ApplyVr(p)
    BY <1>1, <2>4 DEF ApplyVr
  <2> QED BY <1>2, <2>1, <2>2, <2>3, <2>4
<1>3. ASSUME NEW t \in Tasks, Retry(t) \/ GiveUp(t) \/ Resume(t)
      PROVE  FileInv' /\ \A k \in Settings \ {"offsets"} : file'[k] >= file[k]
  <2>1. CASE OffsetsApplied(t)
    <3>1. UNCHANGED <<version, post>>
      BY <2>1 DEF OffsetsApplied
    <3>2. \A k \in Routing \cup {"home", "pwm"} : file'[k] = file[k]
      <4>1. CASE UNCHANGED file
        BY <4>1
      <4>2. CASE Save(asked[t].val, file["home"])
        BY <4>2 DEF Save, TypeOK, Settings, Keys, Routing
      <4> QED BY <2>1, <4>1, <4>2 DEF OffsetsApplied
    <3> QED BY <3>1, <3>2, FileSame
  <2>2. CASE Retry(t) \/ GiveUp(t) \/ OffsetsSent(t) \/ TuningSent(t) \/ LimitsSent(t) \/ TaskEnds(t)
    <3>1. UNCHANGED disk
      BY <2>2 DEF Retry, GiveUp, OffsetsSent, TuningSent, LimitsSent, TaskEnds
    <3> QED BY <1>1, <3>1
  <2> QED BY <1>3, <2>1, <2>2 DEF Resume
<1>4. ASSUME BootSync \/ StartupSync \/ Polling \/ Serve \/ ServeLost \/ FirmwareResets \/ Crash \/ Start
      PROVE  UNCHANGED disk
  BY <1>4 DEF BootSync, StartupSync, Polling, PollAnswered, PollLost, PollFails, HardRestart, RestartAges,
              Serve, ServeLost, FirmwareResets, Crash, Start, ProcessEnds
<1>5. CASE UNCHANGED vars
  BY <1>1, <1>5 DEF vars
<1> QED BY <1>1, <1>2, <1>3, <1>4, <1>5, PostFile DEF Next

(***************************************************************************)
(* The theorems.                                                           *)
(***************************************************************************)
LEMMA SoundInit == Init => Sound /\ FileInv
<1> SUFFICES ASSUME Init PROVE Sound /\ FileInv
  OBVIOUS
<1>1. \A k \in Keys : Unsettled(k)
  BY DEF Init, Unsettled, Writes
<1>2. AgreeInv /\ RepeatInv /\ GoneInv
  BY <1>1 DEF Init, AgreeInv, Follows, RepeatInv, Repeats, Failed, GoneInv
<1>3. FileInv
  BY DEF Init, FileInv
<1> QED BY <1>2, <1>3 DEF Sound

LEMMA SoundStep ==
  ASSUME TypeOK, Order, DownInv, Sound, [Next]_vars
  PROVE  Sound'
<1>1. CASE UNCHANGED vars
  BY <1>1, SameSound DEF vars, disk
<1>2. CASE Polling \/ Crash \/ Start
  <2>1. CASE PollAnswered \/ PollFails \/ RestartAges
    BY <2>1, SameSound DEF PollAnswered, PollFails, RestartAges, disk
  <2>2. CASE HardRestart \/ Crash
    BY <2>2, EndsSound DEF HardRestart, Crash
  <2>3. CASE Start
    BY <2>3, StartSound, SomeTasks DEF Start, DownInv
  <2> QED BY <1>2, <2>1, <2>2, <2>3, PollLostSound DEF Polling
<1> QED BY <1>1, <1>2, PageSound, PostSound, RetrySound, GiveUpSound, ResumeSound, SyncSound,
           ServeSound, ServeLostSound, ResetSound DEF Next

LEMMA IInvIs == IInv <=> TypeOK /\ Order /\ DownInv /\ Sound /\ FileInv
BY DEF IInv, Order, Sound

(* Every reachable state satisfies the inductive invariant: tasks and      *)
(* requests match, and for each setting the last task in the order of the  *)
(* loop and the UART decides what the firmware and the file will hold.     *)
THEOREM Inductive == Spec => []IInv
<1>1. Init => IInv
  BY BasicInit, SoundInit, IInvIs
<1>2. IInv /\ [Next]_vars => IInv'
  <2> SUFFICES ASSUME IInv, [Next]_vars PROVE IInv'
    OBVIOUS
  <2>1. TypeOK /\ Order /\ DownInv /\ Sound /\ FileInv
    BY IInvIs
  <2>2. TypeOK' /\ Order' /\ DownInv'
    BY <2>1, BasicStep
  <2>3. Sound' /\ FileInv'
    BY <2>1, SoundStep, FileStep
  <2> QED BY <2>2, <2>3 DEF IInv, Order, Sound
<1> QED BY <1>1, <1>2, PTL DEF Spec

(* The state keeps its types: no more saves and faults than the bounds,    *)
(* one request for each task.                                              *)
THEOREM TypeCorrect == Spec => []TypeOK
<1>1. IInv => TypeOK
  BY DEF IInv
<1> QED BY <1>1, Inductive, PTL

(* When nothing is under way, the firmware holds what the file does of     *)
(* each setting that was sent last without a loss, whatever the order of   *)
(* pages, start of the server, BOOT_READY and replies was.                 *)
THEOREM AgreementAtRest == Spec => []AgreesAtRest
<1>1. IInv => AgreesAtRest
  <2> SUFFICES ASSUME IInv, AtRest, NEW k \in Keys, k \notin doubt PROVE fw[k] = file[k]
    BY DEF AgreesAtRest
  <2>1. TypeOK /\ Order /\ GoneInv /\ Follows(k)
    BY IInvIs DEF Sound, AgreeInv
  <2>2. ASSUME NEW t \in Tasks PROVE k \notin LeftOpen(asked[t])
    <3>1. step[t] = "idle"
      BY DEF AtRest
    <3> QED BY <2>1, <3>1, WriterIs
  <2> QED BY <2>1, <2>2, Settled
<1> QED BY <1>1, Inductive, PTL

(* Saving or applying one setting never brings an older version of another *)
(* one back, unless two POSTs of the routing file overlap.                 *)
THEOREM NoOldVersion == Spec => NothingReverts
<1>1. IInv /\ [Next]_vars =>
        [\A k \in Settings \ {"offsets"} :
           \/ file'[k] >= file[k]
           \/ \E h \in Threads : PostWrites(h) /\ ~post[h].alone]_vars
  BY IInvIs, FileStep
<1> QED BY <1>1, Inductive, PTL DEF Spec, NothingReverts
=============================================================================
