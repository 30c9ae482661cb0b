---------------------------- MODULE ConsentProofs ----------------------------
(***************************************************************************)
(* Proofs about the two ways in which the arm follows somebody else than   *)
(* the operator's hands: the joint stream, which needs a consent that the  *)
(* master of the link may take back too late (JointStream, for all limits  *)
(* and any number of positions), and HEAD mode, in which the server holds  *)
(* the grips itself (HeadMode, for any number of operators and loops).     *)
(***************************************************************************)
EXTENDS JointStream, HeadMode, TLAPS

-----------------------------------------------------------------------------
(***************************************************************************)
(* The joint stream.                                                       *)
(***************************************************************************)
LEMMA LimitsAre ==
  /\ MaxPos \in Nat /\ Gate \in Nat /\ LinkTimeout \in Nat /\ StreamTimeout \in Nat
  /\ FrameTimeout \in Nat
BY JointStreamAssumption DEF JointStreamAssumption

(* Sums and differences, for values before and after a step.               *)
LEMMA Sums ==
  /\ \A a, b, c \in Nat : a <= b + 1 /\ b <= c => a <= c + 1
  /\ \A a, b \in Nat : a <= 1 => a <= b + 2 /\ a <= b + 1
OBVIOUS

LEMMA OlderIs ==
  ASSUME NEW limit \in Nat, NEW age \in 0 .. limit + 1
  PROVE  /\ Older(age, limit) \in 0 .. limit + 1
         /\ age <= limit => Older(age, limit) = age + 1
         /\ age = limit + 1 => Older(age, limit) = age
BY DEF Older

LEMMA TowardsIs ==
  ASSUME NEW a \in Positions, NEW b \in Positions
  PROVE  Towards(a, b) \in Positions
BY LimitsAre DEF Towards, Positions

LEMMA FramesAre ==
  /\ \A k \in {"none", "idle", "vr"} : [kind |-> k] \in Frames
  /\ \A p \in Positions : [kind |-> "ik", target |-> p] \in Frames
  /\ \A f \in Frames : f.kind = "ik" => f.target \in Positions
BY DEF Frames

LEMMA ReportsAre ==
  /\ StreamTypeOK => Current \in Report
  /\ \A r \in Report : r.pos \in Positions
BY DEF StreamTypeOK, Current, Report

LEMMA StreamInitInv == StreamInit => StreamInv
<1> SUFFICES ASSUME StreamInit PROVE StreamInv
  OBVIOUS
<1> USE LimitsAre, JointStreamAssumption DEF StreamInit
<1>1. Current \in Report
  BY DEF Current, Report
<1>2. [kind |-> "none"] \in Frames
  BY FramesAre
<1>3. master \in {"node", "plugin"} /\ node \in {"up", "polling"}
  BY DEF JointStreamAssumption
<1>4. cmd \in Positions \cup {-1}
  OBVIOUS
<1>5. StreamTypeOK
  <2>1. seenAge \in 0 .. LinkTimeout + 1 /\ frameAge \in 0 .. FrameTimeout + 1
        /\ away \in 0 .. LinkTimeout + 3 /\ overdue \in 0 .. StreamTimeout + 2
    OBVIOUS
  <2>2. /\ cmdFresh \in BOOLEAN /\ intent \in BOOLEAN /\ enabled \in BOOLEAN
        /\ setpose \in BOOLEAN /\ known \in BOOLEAN /\ fsm \in {"SAFE", "IDLE", "STOPPED"}
        /\ pos \in Positions /\ seen \in Report \cup {Nothing}
    OBVIOUS
  <2>3. frame \in Frames /\ reply \in Report
    BY <1>1, <1>2
  <2> QED
    BY <1>3, <1>4, <2>1, <2>2, <2>3 DEF StreamTypeOK
<1>6. ConsentInv
  BY DEF ConsentInv
<1>7. ReportInv /\ OverdueInv
  BY DEF ReportInv, OverdueInv
<1> QED
  BY <1>5, <1>6, <1>7 DEF StreamInv

-----------------------------------------------------------------------------
(* Commands, the operator's intents and requests: no exchange.             *)
LEMMA InputsInv ==
  ASSUME StreamInv, JointCommand \/ ControllerCommand \/ TeleopIntent \/ InputExpires
  PROVE  StreamInv'
<1> USE DEF StreamInv, JointCommand, ControllerCommand, TeleopIntent, InputExpires,
            firmware, lapse
<1>1. StreamTypeOK'
  BY DEF StreamTypeOK
<1>2. ConsentInv'
  BY DEF ConsentInv
<1>3. ReportInv' /\ OverdueInv'
  BY DEF ReportInv, OverdueInv, Withdraws
<1> QED
  BY <1>1, <1>2, <1>3

(* Consent given on request finds telemetry and a command within the gate. *)
LEMMA EnableInv ==
  ASSUME StreamInv, StreamEnable
  PROVE  StreamInv'
<1> USE LimitsAre DEF StreamInv, StreamEnable, inputs, firmware
<1>1. StreamTypeOK'
  BY DEF StreamTypeOK
<1>2. ConsentInv'
  BY DEF ConsentInv, Acceptable
<1>3. ReportInv' /\ OverdueInv'
  BY DEF StreamTypeOK, ReportInv, OverdueInv
<1> QED
  BY <1>1, <1>2, <1>3

(* What ends the consent, or starts a master without it.                   *)
LEMMA EndsInv ==
  ASSUME StreamInv,
         StreamDisable \/ Shutdown \/ Deactivate \/ NodeDies \/ LinkLost
           \/ Restart \/ Activate
  PROVE  StreamInv'
<1> USE LimitsAre DEF StreamInv, StreamDisable, Shutdown, Deactivate, Closes, NodeDies,
            LinkLost, Restart, Activate, StartsAs, inputs, firmware, lapse
<1>0. ~enabled'
  OBVIOUS
<1>1. StreamTypeOK'
  <2>1. CASE StreamDisable \/ Shutdown \/ Deactivate
    BY <2>1 DEF StreamTypeOK
  <2>2. CASE NodeDies \/ LinkLost
    BY <2>2 DEF StreamTypeOK
  <2>3. CASE Restart \/ Activate
    <3>1. LinkTimeout + 1 \in 0 .. LinkTimeout + 1
      OBVIOUS
    <3> QED
      BY <2>3, <3>1 DEF StreamTypeOK
  <2> QED
    BY <2>1, <2>2, <2>3
<1>2. ConsentInv'
  BY <1>0 DEF ConsentInv
<1>3. ReportInv' /\ OverdueInv'
  BY <1>0 DEF ReportInv, OverdueInv
<1> QED
  BY <1>1, <1>2, <1>3

(* HOME, a stop and ENABLE, between two exchanges.                         *)
LEMMA OperatorInv ==
  ASSUME StreamInv, Home \/ Stop \/ Enable
  PROVE  StreamInv'
<1> USE LimitsAre DEF StreamInv, Home, Stop, Enable, nodeVars, inputs, lapse
<1>1. StreamTypeOK'
  <2>1. CASE Home \/ Stop
    BY <2>1 DEF StreamTypeOK
  <2>2. CASE Enable
    <3>1. 0 \in 0 .. LinkTimeout + 3
      OBVIOUS
    <3> QED
      BY <2>2, <3>1 DEF StreamTypeOK
  <2> QED
    BY <2>1, <2>2
<1>2. ConsentInv'
  BY DEF ConsentInv
<1>3. ReportInv' /\ OverdueInv'
  BY DEF StreamTypeOK, ReportInv, OverdueInv, Withdraws
<1> QED
  BY <1>1, <1>2, <1>3

-----------------------------------------------------------------------------
(* What the firmware does until the next exchange.                         *)
LEMMA FirmwareIs ==
  ASSUME StreamTypeOK, setpose => fsm = "IDLE",
         NEW f \in Frames, NEW age \in 0 .. FrameTimeout + 1, FirmwareRuns(f, age)
  PROVE  /\ frame' = f /\ frameAge' = age
         /\ fsm' \in {"SAFE", "IDLE", "STOPPED"} /\ setpose' \in BOOLEAN
         /\ known' \in BOOLEAN /\ pos' \in Positions
         /\ setpose' => fsm' = "IDLE"
         /\ pos' # pos /\ ~setpose /\ f.kind = "ik" => age <= StreamTimeout /\ age <= FrameTimeout
<1> USE LimitsAre DEF StreamTypeOK
<1>1. 0 \in Positions
  BY DEF Positions
<1>2. CASE Silenced(age)
  BY <1>2 DEF FirmwareRuns, Silenced
<1>3. CASE SetposeMoves
  BY <1>1, <1>3, TowardsIs DEF FirmwareRuns, SetposeMoves
<1>4. CASE age <= FrameTimeout /\ Obeys(f, age)
  BY <1>4, TowardsIs, FramesAre DEF FirmwareRuns, Obeys
<1>5. CASE StaysAway(f, age)
  BY <1>5 DEF FirmwareRuns, StaysAway
<1> QED
  BY <1>2, <1>3, <1>4, <1>5 DEF FirmwareRuns

(* The history of an exchange.                                             *)
LEMMA CountsIs ==
  ASSUME StreamTypeOK, NEW given \in BOOLEAN, Counts(given), enabled' \in BOOLEAN
  PROVE  /\ away' \in 0 .. LinkTimeout + 3 /\ overdue' \in 0 .. StreamTimeout + 2
         /\ fsm' = "IDLE" /\ ~setpose' => away' = 0
         /\ enabled' => away' <= (IF given THEN 0 ELSE away) + 1
         /\ overdue' <= (IF given THEN 0 ELSE overdue) + 1
         /\ (given \/ overdue = 0) /\ enabled' /\ overdue' > 0
              => overdue' = 1 /\ ((seen' # Nothing /\ ~Streams(seen')) \/ away' = LinkTimeout + 3)
<1> DEFINE before == IF given THEN 0 ELSE away
           late == IF given THEN 0 ELSE overdue
<1> USE LimitsAre
<1>1. before \in 0 .. LinkTimeout + 3 /\ late \in 0 .. StreamTimeout + 2
  BY DEF StreamTypeOK
<1>2. /\ Older(before, LinkTimeout + 2) \in 0 .. LinkTimeout + 3
      /\ Older(before, LinkTimeout + 2) <= before + 1
  <2> HIDE DEF before
  <2> QED BY <1>1 DEF Older
<1>2a. /\ Older(late, StreamTimeout + 1) \in 0 .. StreamTimeout + 2
       /\ Older(late, StreamTimeout + 1) <= late + 1
       /\ Older(0, StreamTimeout + 1) = 1
  <2> HIDE DEF late
  <2> QED BY <1>1 DEF Older
<1> HIDE DEF before, late
<1>3. /\ away' = IF enabled' /\ (fsm' # "IDLE" \/ setpose')
                 THEN Older(before, LinkTimeout + 2) ELSE 0
      /\ overdue' = IF late > 0 \/ ~enabled' \/ (seen' # Nothing /\ ~Streams(seen'))
                         \/ away' > LinkTimeout + 2
                    THEN Older(late, StreamTimeout + 1) ELSE 0
  BY DEF Counts, before, late
<1>4. /\ away' \in 0 .. LinkTimeout + 3 /\ overdue' \in 0 .. StreamTimeout + 2
      /\ fsm' = "IDLE" /\ ~setpose' => away' = 0
      /\ away' <= before + 1 /\ overdue' <= late + 1
  BY <1>1, <1>2, <1>2a, <1>3
<1>5. late = 0 /\ enabled' /\ overdue' > 0
        => overdue' = 1 /\ ((seen' # Nothing /\ ~Streams(seen')) \/ away' = LinkTimeout + 3)
  BY <1>2a, <1>3, <1>4
<1> QED
  BY <1>4, <1>5 DEF before, late

(* A frame with consent has the command of a master that is up.            *)
LEMMA SentIs ==
  ASSUME StreamInv, enabled' = (Arms \/ (enabled /\ ~Withdraws))
  PROVE  /\ Sent \in Frames
         /\ Sent.kind = "ik" => enabled'
         /\ enabled' => node = "up" /\ cmd \in Positions
<1>1. enabled' => node = "up" /\ cmd \in Positions
  BY DEF StreamInv, ConsentInv, Arms
<1>2. CASE enabled'
  BY <1>1, <1>2, FramesAre DEF Sent
<1>3. CASE ~enabled'
  BY <1>3, FramesAre DEF Sent
<1> QED
  BY <1>1, <1>2, <1>3

(* An exchange keeps the types, and only a master that is up and has a     *)
(* command has consent after it.                                           *)
LEMMA ExchangeTypes ==
  ASSUME StreamInv, Exchange
  PROVE  /\ StreamTypeOK' /\ ConsentInv'
         /\ \/ seen' = reply /\ seenAge' = 0
            \/ seen' = seen /\ seenAge' = Older(seenAge, LinkTimeout)
         /\ frame'.kind = "ik" => enabled' \/ (frame' = frame /\ frameAge' = Older(frameAge, FrameTimeout))
<1> USE LimitsAre DEF StreamInv
<1>1. enabled' \in BOOLEAN
  BY DEF StreamTypeOK, Exchange, Arms
<1>2. /\ Sent \in Frames /\ (Sent.kind = "ik" => enabled')
      /\ (enabled' => node = "up" /\ cmd \in Positions)
  BY SentIs DEF Exchange
<1>3. PICK accepted \in BOOLEAN :
        FirmwareRuns(IF accepted THEN Sent ELSE frame,
                     IF accepted THEN 0 ELSE Older(frameAge, FrameTimeout))
  BY DEF Exchange
<1>4. /\ (IF accepted THEN Sent ELSE frame) \in Frames
      /\ (IF accepted THEN 0 ELSE Older(frameAge, FrameTimeout)) \in 0 .. FrameTimeout + 1
  <2>1. Older(frameAge, FrameTimeout) \in 0 .. FrameTimeout + 1
    BY OlderIs DEF StreamTypeOK
  <2> QED
    BY <1>2, <2>1 DEF StreamTypeOK
<1>5. /\ frame' = (IF accepted THEN Sent ELSE frame)
      /\ frameAge' = (IF accepted THEN 0 ELSE Older(frameAge, FrameTimeout))
      /\ fsm' \in {"SAFE", "IDLE", "STOPPED"} /\ setpose' \in BOOLEAN
      /\ known' \in BOOLEAN /\ pos' \in Positions
      /\ setpose' => fsm' = "IDLE"
  BY <1>3, <1>4, FirmwareIs DEF ConsentInv
<1>6. Older(seenAge, LinkTimeout) \in 0 .. LinkTimeout + 1
  BY OlderIs DEF StreamTypeOK
<1>7. /\ \/ seen' = reply /\ seenAge' = 0
         \/ seen' = seen /\ seenAge' = Older(seenAge, LinkTimeout)
      /\ \/ node = "polling" /\ node' = "up" /\ cmd' = reply.pos
         \/ node' = node /\ cmd' = cmd
      /\ master' = master /\ cmdFresh' = cmdFresh /\ intent' = intent
      /\ reply' = Current
  BY DEF Exchange, TakesReport
<1>8. reply.pos \in Positions /\ Current \in Report
  BY ReportsAre DEF StreamTypeOK
<1>9. away' \in 0 .. LinkTimeout + 3 /\ overdue' \in 0 .. StreamTimeout + 2
  <2>1. Arms \in BOOLEAN /\ Counts(Arms)
    BY DEF Exchange, Arms
  <2> QED
    BY <1>1, <2>1, CountsIs
<1>10. StreamTypeOK'
  <2>1. seen' \in Report \cup {Nothing} /\ seenAge' \in 0 .. LinkTimeout + 1
    BY <1>6, <1>7 DEF StreamTypeOK
  <2>2. node' \in {"up", "polling", "closing", "down"} /\ cmd' \in Positions \cup {-1}
    BY <1>7, <1>8 DEF StreamTypeOK
  <2>3. frame' \in Frames /\ frameAge' \in 0 .. FrameTimeout + 1
    BY <1>4, <1>5
  <2>4. /\ master' \in {"node", "plugin"} /\ cmdFresh' \in BOOLEAN /\ intent' \in BOOLEAN
        /\ reply' \in Report
    BY <1>7, <1>8 DEF StreamTypeOK
  <2> QED
    BY <1>1, <1>5, <1>9, <2>1, <2>2, <2>3, <2>4 DEF StreamTypeOK
<1>11. ConsentInv'
  <2>1. enabled' => node' = "up" /\ cmd' \in Positions
    BY <1>2, <1>7
  <2>2. cmdFresh' => cmd' \in Positions
    BY <1>7, <1>8 DEF ConsentInv
  <2>3. master' = "plugin" /\ node' = "up" => cmd' \in Positions
    BY <1>7, <1>8 DEF ConsentInv
  <2> QED
    BY <1>5, <2>1, <2>2, <2>3 DEF ConsentInv
<1> QED
  BY <1>2, <1>5, <1>7, <1>10, <1>11

(* A consent that goes on after an exchange was given by it, or was not    *)
(* overdue before; the telemetry is as old as the absence it does not say. *)
LEMMA ExchangeInv ==
  ASSUME StreamInv, Exchange
  PROVE  StreamInv'
<1> USE LimitsAre DEF StreamInv
<1>1. /\ StreamTypeOK' /\ ConsentInv'
      /\ \/ seen' = reply /\ seenAge' = 0
         \/ seen' = seen /\ seenAge' = Older(seenAge, LinkTimeout)
      /\ frame'.kind = "ik" => enabled' \/ (frame' = frame /\ frameAge' = Older(frameAge, FrameTimeout))
  BY ExchangeTypes
<1>2. /\ enabled' = (Arms \/ (enabled /\ ~Withdraws))
      /\ reply' = Current /\ Counts(Arms)
  BY DEF Exchange
<1>3. /\ fsm' = "IDLE" /\ ~setpose' => away' = 0
      /\ enabled' => away' <= (IF Arms THEN 0 ELSE away) + 1
      /\ overdue' <= (IF Arms THEN 0 ELSE overdue) + 1
      /\ (Arms \/ overdue = 0) /\ enabled' /\ overdue' > 0
           => overdue' = 1 /\ ((seen' # Nothing /\ ~Streams(seen')) \/ away' = LinkTimeout + 3)
  <2>1. Arms \in BOOLEAN /\ enabled' \in BOOLEAN
    BY <1>1 DEF StreamTypeOK, Arms
  <2> QED
    BY <1>2, <2>1, CountsIs
<1>4. /\ away \in 0 .. LinkTimeout + 3 /\ overdue \in 0 .. StreamTimeout + 2
      /\ seenAge \in 0 .. LinkTimeout + 1 /\ frameAge \in 0 .. FrameTimeout + 1
      /\ away' \in 0 .. LinkTimeout + 3 /\ overdue' \in 0 .. StreamTimeout + 2
      /\ seenAge' \in 0 .. LinkTimeout + 1 /\ frameAge' \in 0 .. FrameTimeout + 1
  BY <1>1 DEF StreamTypeOK
<1>4a. /\ away' \in Nat /\ overdue' \in Nat /\ seenAge' \in Nat /\ frameAge' \in Nat
       /\ away \in Nat /\ overdue \in Nat /\ seenAge \in Nat /\ frameAge \in Nat
  BY <1>4
<1>5. enabled' => Arms \/ (enabled /\ ~Withdraws /\ overdue = 0)
  <2>1. enabled /\ ~Withdraws => overdue = 0
    BY <1>4 DEF OverdueInv
  <2> QED
    BY <1>2, <2>1, Zenon
<1>6. enabled' /\ Streams(reply') => away' <= 1
  <2>1. Streams(Current) => away = 0
    BY DEF Streams, Current, ReportInv, StreamTypeOK
  <2> QED
    BY <1>2, <1>3, <1>4, <2>1
<1>7. enabled' /\ Streams(seen') => away' <= seenAge' + 2
  <2> SUFFICES ASSUME enabled', Streams(seen') PROVE away' <= seenAge' + 2
    OBVIOUS
  <2>1. CASE Arms
    <3>1. away' <= 1
      BY <1>3, <2>1
    <3> QED
      BY <1>4a, <3>1, Sums
  <2>2. CASE ~Arms /\ seen' = reply /\ seenAge' = 0
    <3>1. away <= 1
      BY <1>5, <2>2 DEF ReportInv
    <3> QED
      BY <1>3, <1>4, <2>2, <3>1
  <2>3. CASE ~Arms /\ seen' = seen /\ seenAge' = Older(seenAge, LinkTimeout)
    <3>1. away <= seenAge + 2
      BY <1>5, <2>3 DEF ReportInv
    <3>2. seenAge <= LinkTimeout => seenAge' = seenAge + 1
      BY <1>4, <2>3, OlderIs
    <3>3. seenAge = LinkTimeout + 1 => seenAge' = LinkTimeout + 1
      BY <1>4, <2>3, OlderIs
    <3> QED
      BY <1>3, <1>4, <2>3, <3>1, <3>2, <3>3
  <2> QED
    BY <1>1, <2>1, <2>2, <2>3
<1>8. ReportInv'
  BY <1>3, <1>6, <1>7 DEF ReportInv
<1>9. enabled' /\ overdue' > 0 => overdue' = 1 /\ Withdraws'
  <2> SUFFICES ASSUME enabled', overdue' > 0 PROVE overdue' = 1 /\ Withdraws'
    OBVIOUS
  <2>1. overdue' = 1 /\ ((seen' # Nothing /\ ~Streams(seen')) \/ away' = LinkTimeout + 3)
    BY <1>3, <1>5
  <2>2. ~Streams(seen') \/ seenAge' > LinkTimeout
    <3> SUFFICES ASSUME Streams(seen'), ~(seenAge' > LinkTimeout) PROVE FALSE
      OBVIOUS
    <3>1. away' = LinkTimeout + 3 /\ away' <= seenAge' + 2
      BY <1>7, <2>1
    <3>2. \A a, b, c \in Nat : a = b + 3 /\ a <= c + 2 => c > b
      OBVIOUS
    <3> QED
      BY <1>4a, <3>1, <3>2
  <2>3. Withdraws'
    BY <2>2 DEF Withdraws, Streams
  <2> QED
    BY <2>1, <2>3
<1>10. frame'.kind = "ik" => overdue' <= frameAge' + 1 \/ frameAge' = FrameTimeout + 1
  <2>1. CASE enabled'
    <3>1. overdue' <= 1
      BY <1>4, <1>9, <2>1
    <3> QED
      BY <1>4a, <3>1, Sums
  <2>2. CASE frame'.kind = "ik" /\ ~enabled'
    <3>1. frame' = frame /\ frameAge' = Older(frameAge, FrameTimeout)
      BY <1>1, <2>2
    <3>2. overdue <= frameAge + 1 \/ frameAge = FrameTimeout + 1
      BY <2>2, <3>1 DEF OverdueInv
    <3>3. /\ frameAge <= FrameTimeout => frameAge' = frameAge + 1
          /\ frameAge = FrameTimeout + 1 => frameAge' = frameAge
      BY <1>4, <3>1, OlderIs
    <3>4. overdue' <= overdue + 1
      BY <1>2, <1>3, <2>2
    <3>5. CASE frameAge <= FrameTimeout
      <4>1. overdue <= frameAge + 1
        BY <1>4, <3>2, <3>5
      <4>2. frameAge' = frameAge + 1
        BY <3>3, <3>5
      <4> QED
        BY <1>4a, <3>4, <4>1, <4>2, Sums
    <3>6. CASE frameAge = FrameTimeout + 1
      BY <3>3, <3>6
    <3>7. frameAge <= FrameTimeout \/ frameAge = FrameTimeout + 1
      BY <1>4
    <3> QED
      BY <3>5, <3>6, <3>7
  <2> QED
    BY <2>1, <2>2
<1> QED
  BY <1>1, <1>8, <1>9, <1>10 DEF OverdueInv

(* Without a master there is no consent, and the last frame gets older.    *)
LEMMA SilenceInv ==
  ASSUME StreamInv, Silence
  PROVE  StreamInv'
<1> USE LimitsAre DEF StreamInv
<1>1. /\ FirmwareRuns(frame, Older(frameAge, FrameTimeout)) /\ Counts(FALSE)
      /\ master' = master /\ node' = node /\ cmd' = cmd /\ cmdFresh' = cmdFresh
      /\ intent' = intent /\ seen' = seen /\ seenAge' = seenAge /\ enabled' = enabled
      /\ reply' = reply /\ node = "down"
  BY DEF Silence, nodeVars, inputs
<1>2. ~enabled /\ enabled \in BOOLEAN
  BY <1>1 DEF ConsentInv, StreamTypeOK
<1>3. /\ Older(frameAge, FrameTimeout) \in 0 .. FrameTimeout + 1
      /\ frameAge <= FrameTimeout => Older(frameAge, FrameTimeout) = frameAge + 1
      /\ frameAge = FrameTimeout + 1 => Older(frameAge, FrameTimeout) = frameAge
  BY OlderIs DEF StreamTypeOK
<1>4. /\ frame' = frame /\ frameAge' = Older(frameAge, FrameTimeout)
      /\ fsm' \in {"SAFE", "IDLE", "STOPPED"} /\ setpose' \in BOOLEAN
      /\ known' \in BOOLEAN /\ pos' \in Positions
      /\ setpose' => fsm' = "IDLE"
  BY <1>1, <1>3, FirmwareIs DEF ConsentInv, StreamTypeOK
<1>5. /\ away' \in 0 .. LinkTimeout + 3 /\ overdue' \in 0 .. StreamTimeout + 2
      /\ fsm' = "IDLE" /\ ~setpose' => away' = 0
      /\ overdue' <= overdue + 1
  BY <1>1, <1>2, CountsIs
<1>6. StreamTypeOK'
  BY <1>1, <1>3, <1>4, <1>5 DEF StreamTypeOK
<1>7. ConsentInv' /\ ReportInv'
  BY <1>1, <1>2, <1>4, <1>5 DEF ConsentInv, ReportInv
<1>8. frame'.kind = "ik" => overdue' <= frameAge' + 1 \/ frameAge' = FrameTimeout + 1
  BY <1>3, <1>4, <1>5 DEF OverdueInv, StreamTypeOK
<1> QED
  BY <1>1, <1>2, <1>6, <1>7, <1>8 DEF OverdueInv

LEMMA StreamStepInv == StreamInv /\ [StreamNext]_streamVars => StreamInv'
<1> SUFFICES ASSUME StreamInv, [StreamNext]_streamVars PROVE StreamInv'
  OBVIOUS
<1>1. CASE UNCHANGED streamVars
  BY <1>1 DEF streamVars, nodeVars, inputs, firmware, lapse, StreamInv, StreamTypeOK,
              ConsentInv, ReportInv, OverdueInv, Withdraws
<1>2. CASE StreamNext
  BY <1>2, InputsInv, EnableInv, EndsInv, OperatorInv, ExchangeInv, SilenceInv
  DEF StreamNext
<1> QED
  BY <1>1, <1>2

(* The inductive invariant of the joint stream: who has consent, how old   *)
(* telemetry can be that does not say the firmware is away, and the age of *)
(* the frame the firmware may still obey.                                  *)
THEOREM StreamInductive == StreamSpec => []StreamInv
BY StreamInitInv, StreamStepInv, PTL DEF StreamSpec

(* Every variable of JointStream keeps its type.                           *)
THEOREM StreamTypes == StreamSpec => []StreamTypeOK
<1>1. StreamInv => StreamTypeOK
  BY DEF StreamInv
<1> QED
  BY <1>1, StreamInductive, PTL

(* What moves the arm in a step of the model, other than a SETPOSE, is the *)
(* firmware obeying its frame while it is valid.                           *)
LEMMA ObeyedFrameIsValid ==
  ASSUME StreamInv, StreamNext, pos' # pos, ~setpose, frame'.kind = "ik"
  PROVE  frameAge' <= StreamTimeout /\ frameAge' <= FrameTimeout
<1> USE LimitsAre
<1>1. Exchange \/ Silence
  BY DEF StreamNext, JointCommand, TeleopIntent, InputExpires, StreamEnable,
         StreamDisable, ControllerCommand, Deactivate, LinkLost, Activate, Shutdown,
         NodeDies, Restart, Home, Stop, Enable, Closes, StartsAs, firmware, nodeVars
<1>2. PICK f \in Frames, age \in 0 .. FrameTimeout + 1 : FirmwareRuns(f, age)
  <2>1. Older(frameAge, FrameTimeout) \in 0 .. FrameTimeout + 1 /\ frame \in Frames
    BY OlderIs DEF StreamInv, StreamTypeOK
  <2>2. CASE Exchange
    <3>1. Sent \in Frames
      BY <2>2, SentIs DEF Exchange
    <3> QED
      BY <2>1, <2>2, <3>1 DEF Exchange
  <2>3. CASE Silence
    BY <2>1, <2>3 DEF Silence
  <2> QED
    BY <1>1, <2>2, <2>3
<1> QED
  BY <1>2, FirmwareIs DEF StreamInv, ConsentInv

(* The arm follows a stream no longer than a frame is valid after the      *)
(* consent has ended or ought to have, for every pattern of lost frames    *)
(* and replies, restarts of the master and length of a stop or a SETPOSE   *)
(* (spi_driver_node.py:370-396, jonny5_system.cpp:303-350, rt_loop.c:276). *)
THEOREM StreamNeedsConsent == StreamSpec => FollowsConsentOnly
<1> DEFINE Obeys1 == pos' # pos /\ ~setpose /\ frame'.kind = "ik" => overdue' <= StreamTimeout + 1
<1>1. StreamInv /\ StreamInv' /\ [StreamNext]_streamVars => [Obeys1]_streamVars
  <2> SUFFICES ASSUME StreamInv, StreamInv', StreamNext,
                      pos' # pos, ~setpose, frame'.kind = "ik"
               PROVE  overdue' <= StreamTimeout + 1
    OBVIOUS
  <2>1. frameAge' <= StreamTimeout /\ frameAge' <= FrameTimeout
    BY ObeyedFrameIsValid
  <2>2. frameAge' \in Nat /\ overdue' \in Nat
    BY LimitsAre DEF StreamInv, StreamTypeOK
  <2>3. frameAge' # FrameTimeout + 1
    BY LimitsAre, <2>1, <2>2
  <2>4. overdue' <= frameAge' + 1
    BY <2>3 DEF StreamInv, OverdueInv
  <2> QED
    BY LimitsAre, <2>1, <2>2, <2>4, Sums
<1> QED
  BY <1>1, StreamInductive, PTL DEF StreamSpec, FollowsConsentOnly
-----------------------------------------------------------------------------
(***************************************************************************)
(* HEAD mode.                                                              *)
(***************************************************************************)
USE HeadModeAssumption DEF HeadModeAssumption

(* The loops only, as ReleasedWithoutLoop sees them.                       *)
IInv == TypeOK /\ ReleasedWithoutLoop

LEMMA ModesAre == 0 \in 0 .. 5 /\ 1 \in 0 .. 5 /\ 2 \in 0 .. 5 /\ 3 \in 0 .. 5
OBVIOUS

LEMMA InitInv == Init => IInv
<1> SUFFICES ASSUME Init PROVE IInv
  OBVIOUS
<1>1. TypeOK
  <2>1. latest \in Intent
    BY ModesAre DEF Init, Intent
  <2>2. loop \in [Loops -> {"none", "new", "running", "cancelled"}]
    BY DEF Init
  <2>3. /\ step \in [Clients -> {"idle", "stopping", "cancelling", "stopped", "applying"}]
        /\ request \in [Clients -> 0 .. 5] /\ awaits \in [Clients -> Loops \cup {0}]
    BY ModesAre DEF Init
  <2> QED
    BY <2>1, <2>2, <2>3 DEF Init, TypeOK
<1>2. ReleasedWithoutLoop
  BY DEF Init, ReleasedWithoutLoop
<1> QED
  BY <1>1, <1>2 DEF IInv

(* A loop that is changed in one place keeps the others alive.             *)
LEMMA LoopSet ==
  ASSUME TypeOK, NEW l, NEW s \in {"none", "new", "running", "cancelled"}
  PROVE  /\ [loop EXCEPT ![l] = s] \in [Loops -> {"none", "new", "running", "cancelled"}]
         /\ \A k \in Loops : k # l => [loop EXCEPT ![l] = s][k] = loop[k]
         /\ l \in Loops => [loop EXCEPT ![l] = s][l] = s
BY DEF TypeOK

LEMMA CreateLoopIs ==
  ASSUME TypeOK, CreateLoop
  PROVE  /\ loop' \in [Loops -> {"none", "new", "running", "cancelled"}]
         /\ task' \in Loops /\ HeadRuns'
<1>1. PICK l \in Loops : loop' = [loop EXCEPT ![l] = "new"] /\ task' = l
  BY DEF CreateLoop
<1>2. loop' \in [Loops -> {"none", "new", "running", "cancelled"}] /\ loop'[l] = "new"
  BY <1>1, LoopSet
<1> QED
  BY <1>1, <1>2 DEF HeadRuns, Alive

(* The end of a stop writes an intent without grips, and its own place.    *)
LEMMA AfterStopIs ==
  ASSUME TypeOK, NEW c \in Clients, NEW mode \in 0 .. 5, AfterStop(c, mode)
  PROVE  /\ latest' \in Intent /\ latest'.grip = "none"
         /\ stopSet' \in BOOLEAN /\ left' \in BOOLEAN
         /\ step' \in [Clients -> {"idle", "stopping", "cancelling", "stopped", "applying"}]
         /\ loop' \in [Loops -> {"none", "new", "running", "cancelled"}]
         /\ task' \in Loops \cup {0}
         /\ HeadRuns => HeadRuns'
<1>1. latest' \in Intent /\ latest'.grip = "none"
  BY ModesAre DEF AfterStop, TypeOK, Intent
<1>2. stopSet' \in BOOLEAN
  BY Zenon DEF AfterStop
<1>3. left' \in BOOLEAN
  BY Zenon DEF AfterStop
<1>4. step' \in [Clients -> {"idle", "stopping", "cancelling", "stopped", "applying"}]
  BY DEF AfterStop, TypeOK
<1>5. CreateLoop \/ (task' = 0 /\ UNCHANGED loop)
  BY DEF AfterStop
<1>6. /\ loop' \in [Loops -> {"none", "new", "running", "cancelled"}]
      /\ task' \in Loops \cup {0}
      /\ HeadRuns => HeadRuns'
  BY <1>5, CreateLoopIs DEF TypeOK, HeadRuns, Alive
<1> QED
  BY <1>1, <1>2, <1>3, <1>4, <1>6

-----------------------------------------------------------------------------
LEMMA ConnectionInv ==
  ASSUME IInv, NEW c \in Clients, Connect(c) \/ Disconnect(c)
  PROVE  IInv'
BY DEF IInv, TypeOK, ReleasedWithoutLoop, HeadRuns, Alive, Connect,
       Disconnect, handlers, history

LEMMA SetVrModeInv ==
  ASSUME IInv, NEW c \in Clients, SetVrMode(c)
  PROVE  IInv'
<1> PICK mode \in VrModes :
      /\ request' = [request EXCEPT ![c] = mode]
      /\ exclusive' = (exclusive /\ ~Clash(c, mode))
      /\ IF task # 0
         THEN /\ stopSet' = TRUE
              /\ awaits' = [awaits EXCEPT ![c] = task]
              /\ step' = [step EXCEPT ![c] = "stopping"]
              /\ left' = (left /\ mode # 3)
              /\ UNCHANGED <<latest, task, loop>>
         ELSE AfterStop(c, mode) /\ UNCHANGED awaits
  BY DEF SetVrMode
<1>1. TypeOK /\ mode \in 0 .. 5
  BY DEF IInv
<1>2. exclusive' \in BOOLEAN
  BY Zenon
<1>3. connected' = connected /\ configured' = configured /\ active' = FALSE
  BY DEF SetVrMode
<1>4. request' \in [Clients -> 0 .. 5]
  BY <1>1 DEF TypeOK
<1>5. CASE task # 0
  <2>1. left' \in BOOLEAN
    BY <1>5, Zenon
  <2>2. TypeOK'
    BY <1>1, <1>2, <1>3, <1>4, <1>5, <2>1 DEF TypeOK
  <2>3. ReleasedWithoutLoop'
    BY <1>3, <1>5 DEF IInv, ReleasedWithoutLoop, HeadRuns, Alive
  <2> QED
    BY <2>2, <2>3 DEF IInv
<1>6. CASE task = 0
  <2>1. TypeOK'
    BY <1>1, <1>2, <1>3, <1>4, <1>6, AfterStopIs DEF TypeOK
  <2>2. ReleasedWithoutLoop'
    BY <1>1, <1>3, <1>6, AfterStopIs DEF ReleasedWithoutLoop
  <2> QED
    BY <2>1, <2>2 DEF IInv
<1> QED
  BY <1>5, <1>6

LEMMA HandlerInv ==
  ASSUME IInv, NEW c \in Clients, Handler(c)
  PROVE  IInv'
<1>1. CASE StopTimesOut(c)
  <2>1. loop' \in [Loops -> {"none", "new", "running", "cancelled"}]
    BY <1>1, LoopSet DEF IInv, StopTimesOut
  <2>2. TypeOK'
    BY <1>1, <2>1 DEF IInv, TypeOK, StopTimesOut, history
  <2>3. HeadRuns => HeadRuns'
    BY <1>1, LoopSet DEF IInv, HeadRuns, Alive, StopTimesOut
  <2> QED
    BY <1>1, <2>2, <2>3 DEF IInv, ReleasedWithoutLoop, StopTimesOut
<1>2. CASE Stopped(c)
  <2>1. request[c] \in 0 .. 5 /\ TypeOK /\ AfterStop(c, request[c])
    BY <1>2 DEF IInv, TypeOK, Stopped
  <2>2. TypeOK'
    BY <1>2, <2>1, AfterStopIs DEF TypeOK, Stopped
  <2>3. ReleasedWithoutLoop'
    BY <1>2, <2>1, AfterStopIs DEF IInv, ReleasedWithoutLoop, Stopped
  <2> QED
    BY <2>2, <2>3 DEF IInv
<1>3. CASE Applied(c)
  <2>1. /\ loop' \in [Loops -> {"none", "new", "running", "cancelled"}]
        /\ task' \in Loops \cup {0} /\ (HeadRuns => HeadRuns')
    BY <1>3, CreateLoopIs DEF IInv, TypeOK, Applied, HeadRuns, Alive
  <2>2. TypeOK'
    BY <1>3, <2>1 DEF IInv, TypeOK, Applied, history
  <2> QED
    BY <1>3, <2>1, <2>2 DEF IInv, ReleasedWithoutLoop, Applied
<1> QED
  BY <1>1, <1>2, <1>3 DEF Handler

LEMMA LoopInv ==
  ASSUME IInv, NEW l \in Loops, Loop(l)
  PROVE  IInv'
<1>1. CASE LoopStarts(l)
  <2>1. latest' \in Intent
    BY <1>1, ModesAre DEF LoopStarts, Pressed, Intent
  <2>2. loop' \in [Loops -> {"none", "new", "running", "cancelled"}] /\ loop'[l] = "running"
    BY <1>1, LoopSet DEF IInv, LoopStarts
  <2>3. TypeOK'
    BY <1>1, <2>1, <2>2 DEF IInv, TypeOK, LoopStarts, handlers, history
  <2> QED
    BY <2>2, <2>3 DEF IInv, ReleasedWithoutLoop, HeadRuns, Alive
<1>2. CASE LoopTicks(l)
  <2>1. latest' \in Intent
    BY <1>2, ModesAre DEF IInv, TypeOK, LoopTicks, Pressed, Intent
  <2>2. TypeOK'
    BY <1>2, <2>1 DEF IInv, TypeOK, LoopTicks, handlers, history
  <2>3. HeadRuns'
    BY <1>2 DEF LoopTicks, HeadRuns, Alive
  <2> QED
    BY <2>2, <2>3 DEF IInv, ReleasedWithoutLoop
<1>3. CASE LoopEnds(l)
  <2>1. loop' \in [Loops -> {"none", "new", "running", "cancelled"}]
    BY <1>3, LoopSet DEF IInv, LoopEnds, LoopLeaves
  <2>2. latest' \in Intent /\ latest'.grip = "none" /\ active' = FALSE
    BY <1>3, ModesAre DEF IInv, TypeOK, LoopEnds, Intent
  <2>3. /\ step' \in [Clients -> {"idle", "stopping", "cancelling", "stopped", "applying"}]
        /\ awaits' \in [Clients -> Loops \cup {0}] /\ connected' \subseteq Clients
    BY <1>3 DEF IInv, TypeOK, LoopEnds, LoopLeaves, WakeWaiters
  <2>4. TypeOK'
    BY <1>3, <2>1, <2>2, <2>3 DEF IInv, TypeOK, LoopEnds, history
  <2> QED
    BY <2>2, <2>4 DEF IInv, ReleasedWithoutLoop
<1> QED
  BY <1>1, <1>2, <1>3 DEF Loop

LEMMA IntentInv ==
  ASSUME IInv, NEW c \in Clients, IntentArrives(c)
  PROVE  IInv'
<1> PICK sent \in IntentModes, beat \in 0 .. 1 :
      \E mode \in Validated(sent) :
        /\ latest' = Rewritten([mode |-> mode, grip |-> "operator", beat |-> beat])
        /\ StopHeadMode(mode)
        /\ left' = IF mode = 2 THEN \A d \in Clients : ~Starts(d) ELSE left
  BY DEF IntentArrives
<1> PICK mode \in Validated(sent) :
      /\ latest' = Rewritten([mode |-> mode, grip |-> "operator", beat |-> beat])
      /\ StopHeadMode(mode)
      /\ left' = IF mode = 2 THEN \A d \in Clients : ~Starts(d) ELSE left
  OBVIOUS
<1>1. mode \in 0 .. 5
  BY DEF Validated
<1>2. latest' \in Intent /\ (latest'.grip = "server" => active)
  BY <1>1, ModesAre DEF Rewritten, Intent
<1>3. stopSet' \in BOOLEAN
  BY Zenon DEF StopHeadMode
<1>4. left' \in BOOLEAN
  <2>1. left \in BOOLEAN
    BY DEF IInv, TypeOK
  <2> QED
    BY <2>1, Zenon
<1>5. TypeOK'
  BY <1>2, <1>3, <1>4 DEF IInv, TypeOK, IntentArrives, handlers
<1>6. ReleasedWithoutLoop'
  BY <1>2 DEF IInv, ReleasedWithoutLoop, HeadRuns, Alive, IntentArrives
<1> QED
  BY <1>5, <1>6 DEF IInv

-----------------------------------------------------------------------------
LEMMA StepInv == IInv /\ [Next]_vars => IInv'
<1> SUFFICES ASSUME IInv, [Next]_vars PROVE IInv'
  OBVIOUS
<1>1. CASE UNCHANGED vars
  BY <1>1 DEF vars, IInv, TypeOK, ReleasedWithoutLoop, HeadRuns, Alive
<1>2. CASE Next
  BY <1>2, ConnectionInv, SetVrModeInv, HandlerInv, LoopInv, IntentInv DEF Next
<1> QED
  BY <1>1, <1>2

LEMMA Inductive == Spec => []IInv
BY InitInv, StepInv, PTL DEF Spec

(* Every variable keeps its type; a handler waits for a loop of the set.   *)
THEOREM TypeCorrect == Spec => []TypeOK
<1>1. IInv => TypeOK
  BY DEF IInv
<1> QED
  BY <1>1, Inductive, PTL

(* The server presses the grips, or rewrites intents, only while a         *)
(* heartbeat loop is alive (ws_handlers_intent.py:348-377).                *)
THEOREM GripsNeedLoop == Spec => []ReleasedWithoutLoop
<1>1. IInv => ReleasedWithoutLoop
  BY DEF IInv
<1> QED
  BY <1>1, Inductive, PTL
=============================================================================
