------------------------------ MODULE WsUart ------------------------------
(***************************************************************************)
(* The motion side of the WebSocket server (ws_handlers_uart.py): the      *)
(* handler of the operators' UART commands, the demo sequence and the      *)
(* callback that receives SETPOSE_DONE.  All are tasks of one event loop,  *)
(* except the callback, which runs in the UART reader thread; they share   *)
(* one UART, whose requests are served in order (UartManager.tla has its   *)
(* threads).                                                               *)
(*                                                                         *)
(* A task sends a request and is suspended until the writer answers it or  *)
(* its own time limit expires; in the second case the request stays in the *)
(* queue.  Between two suspensions a task is alone on the loop: that is    *)
(* one step here.  The pauses between two attempts are part of the retry.  *)
(*                                                                         *)
(* Angles, profiles and speeds are abstracted: a motion command is known   *)
(* by its kind, and SETPOSE stands for SETPOSE, SETPOSE_T, SETPOSE_T_HR    *)
(* and PARK, which the handler treats alike.                               *)
(***************************************************************************)
EXTENDS Naturals, Sequences

CONSTANTS
  Clients,      (* connected operators                                     *)
  MaxCommands,  (* commands they send in a run, besides starting a demo    *)
  MaxFaults,    (* replies lost, callers that give up, E-STOPs             *)
  MaxDemos,     (* demos started                                           *)
  Commands,     (* plain commands they choose from                         *)
  Faults,       (* what may go wrong: "lost", "slow", "stop", and in the   *)
                (* self test "imu"                                         *)
  LossBlocks    (* does a lost reply block the UART writer for ever        *)

ASSUME WsUartAssumption ==
       /\ MaxCommands \in Nat /\ MaxFaults \in Nat /\ MaxDemos \in Nat
       /\ Faults \subseteq {"lost", "slow", "stop", "imu"}
       /\ LossBlocks \subseteq BOOLEAN /\ LossBlocks # {}
       /\ Commands \subseteq {"SAFE", "HOME", "TELEOPPOSE", "SETPOSE"}
       /\ {"demo", "gone"} \cap Clients = {}

VARIABLES
  fsm,         (* firmware: IDLE, STOPPED or SAFE                          *)
  moving,      (* firmware: the request whose trajectory runs, or NoRequest*)
  done,        (* firmware: a SETPOSE_DONE is to be sent: "none", "new" or *)
               (* "due", when a command has been handled since             *)
  queue,       (* the UART manager's queue of requests                     *)
  stuck,       (* its writer waits for ever for a lost reply               *)
  step,        (* per task: where it is suspended                          *)
  asked,       (* per task: its last request                               *)
  reply,       (* per task: the answer to it, "pending" until there is one *)
  tries,       (* per task: attempts that failed                           *)
  due,         (* commands that the callback has scheduled on the loop     *)
  stopEvent,   (* _demo_stop_event is set                                  *)
  doneEvent,   (* _setpose_done_event: "none", "unset", "set"              *)
  demoId,      (* number of the last demo started                          *)
  zeroPending, (* _pose_zero_pending                                       *)
  relaxPending,(* _home_relax_pending                                      *)
  commands,    (* commands the operators have sent                         *)
  faults       (* faults so far                                            *)

(* History: the last demo that a STOP or a hold, executed by the firmware, *)
(* was meant to end.                                                       *)
VARIABLE ended

robot == <<fsm, moving, done>>
uart == <<queue, stuck>>
tasks == <<step, asked, reply, tries>>
demoVars == <<stopEvent, doneEvent, demoId>>
flags == <<zeroPending, relaxPending>>
vars == <<fsm, moving, done, queue, stuck, step, asked, reply, tries, due,
          stopEvent, doneEvent, demoId, zeroPending, relaxPending, commands,
          faults, ended>>

Tasks == Clients \cup {"demo"}
Fsm == {"IDLE", "STOPPED", "SAFE"}
Moves == {"HOME", "TELEOPPOSE", "SETPOSE", "DEMO", "HOLD", "AUTO_HOME"}
Deferred == {"HEADZERO", "RELAX_DIGITAL"}

(* A request: who waits for it, the command, and the demo it belongs to or *)
(* is meant to end.                                                        *)
Request == [by : Tasks \cup {"gone"}, demo : 0 .. MaxDemos,
            cmd : Moves \cup Deferred \cup {"STATUS?", "ENABLE", "STOP", "SAFE"}]
NoRequest == [by |-> "gone", demo |-> 0, cmd |-> "none"]
For(t, cmd) == [by |-> t, demo |-> 0, cmd |-> cmd]

(* How many times a step sends its command before it counts as failed.     *)
Attempts == [probe |-> 2, safe |-> 2, enable |-> 2, autohome |-> 2, hold |-> 2,
             send |-> 1, demo |-> 1, direct |-> 1]

TypeOK ==
  /\ fsm \in Fsm /\ moving \in Request \cup {NoRequest}
  /\ done \in {"none", "new", "due"}
  /\ queue \in Seq(Request) /\ stuck \in BOOLEAN
  /\ step \in [Tasks -> DOMAIN Attempts \cup {"idle", "check", "wait"}]
  /\ asked \in [Tasks -> Request \cup {NoRequest}]
  /\ reply \in [Tasks -> Fsm \cup {"none", "pending", "OK", "ERR", "TIMEOUT"}]
  /\ tries \in [Tasks -> 0 .. 1] /\ due \subseteq Deferred
  /\ stopEvent \in BOOLEAN /\ doneEvent \in {"none", "unset", "set"}
  /\ demoId \in 0 .. MaxDemos /\ ended \in 0 .. MaxDemos
  /\ zeroPending \in BOOLEAN /\ relaxPending \in BOOLEAN
  /\ commands \in 0 .. MaxCommands /\ faults \in 0 .. MaxFaults

Init ==
  /\ fsm \in Fsm /\ moving = NoRequest /\ done = "none"
  /\ queue = <<>> /\ stuck = FALSE
  /\ step = [t \in Tasks |-> "idle"]
  /\ asked = [t \in Tasks |-> NoRequest]
  /\ reply = [t \in Tasks |-> "none"] /\ tries = [t \in Tasks |-> 0]
  /\ due = {}
  /\ stopEvent = FALSE /\ doneEvent = "none" /\ demoId = 0
  /\ zeroPending = FALSE /\ relaxPending = FALSE
  /\ commands = 0 /\ faults = 0 /\ ended = 0

-----------------------------------------------------------------------------
(***************************************************************************)
(* Requests.                                                               *)
(***************************************************************************)

(* A blocked writer never looks at the queue again, so its contents are    *)
(* left out from then on.                                                  *)
Enqueue(request) == IF stuck THEN queue ELSE Append(queue, request)

(* A task sends a request and is suspended at step s.                      *)
Ask(t, request, s) ==
  /\ queue' = Enqueue(request)
  /\ asked' = [asked EXCEPT ![t] = request]
  /\ reply' = [reply EXCEPT ![t] = "pending"]
  /\ tries' = [tries EXCEPT ![t] = 0]
  /\ step' = [step EXCEPT ![t] = s]

(* A task goes on without a request.                                       *)
Goto(t, s) ==
  /\ step' = [step EXCEPT ![t] = s]
  /\ reply' = [reply EXCEPT ![t] = "none"]
  /\ asked' = [asked EXCEPT ![t] = NoRequest]
  /\ tries' = [tries EXCEPT ![t] = 0]
  /\ UNCHANGED queue

Failed(t) == reply[t] \in {"ERR", "TIMEOUT"}
Ok(t) == reply[t] \in Fsm \cup {"OK"}
OutOfTries(t) == Failed(t) /\ tries[t] + 1 >= Attempts[step[t]]

(* _uart_cmd_with_retries: the next attempt.                               *)
Retry(t) ==
  /\ Failed(t) /\ ~OutOfTries(t)
  /\ queue' = Enqueue(asked[t])
  /\ reply' = [reply EXCEPT ![t] = "pending"]
  /\ tries' = [tries EXCEPT ![t] = @ + 1]
  /\ UNCHANGED <<robot, stuck, step, asked, due, demoVars, flags, commands,
                 faults, ended>>

Fault(kind) == kind \in Faults /\ faults < MaxFaults /\ faults' = faults + 1

(* The caller's own time limit: the request stays in the queue, for nobody.*)
(* It expires when the writer is blocked, or when others keep it busy.     *)
GiveUp(t) ==
  /\ reply[t] = "pending"
  /\ \/ stuck /\ UNCHANGED faults
     \/ Fault("slow")
  /\ reply' = [reply EXCEPT ![t] = "TIMEOUT"]
  /\ queue' = [i \in DOMAIN queue |-> IF queue[i].by = t
                                      THEN [queue[i] EXCEPT !.by = "gone"]
                                      ELSE queue[i]]
  /\ UNCHANGED <<robot, stuck, step, asked, tries, due, demoVars, flags,
                 commands, ended>>

-----------------------------------------------------------------------------
(***************************************************************************)
(* The firmware.                                                           *)
(***************************************************************************)

(* A command that the firmware answers with this reply.                    *)
Executes(request, answer) ==
  LET stops == request.cmd \in {"STOP", "SAFE"}
      moves == request.cmd \in Moves /\ answer = "OK"
  IN /\ CASE request.cmd = "STATUS?" -> answer = fsm
            [] request.cmd = "ENABLE" -> answer = (IF fsm = "STOPPED" THEN "ERR" ELSE "OK")
            [] request.cmd \in Moves -> answer \in (IF fsm = "IDLE" THEN {"OK", "ERR"}
                                                                 ELSE {"ERR"})
            [] OTHER -> answer = "OK"
     /\ fsm' = CASE request.cmd = "STOP" -> "STOPPED"
                 [] request.cmd = "SAFE" -> "SAFE"
                 [] request.cmd = "ENABLE" /\ answer = "OK" -> "IDLE"
                 [] OTHER -> fsm
     /\ moving' = CASE stops -> NoRequest [] moves -> request [] OTHER -> moving
     /\ ended' = IF (stops \/ moves) /\ request.cmd # "DEMO" /\ request.demo > ended
                 THEN request.demo ELSE ended

(* The main loop looks for a finished trajectory after each turn of its    *)
(* command dispatcher: of the commands that wait, one comes first.         *)
MainLoopTurns == done # "due" /\ done' = IF done = "new" THEN "due" ELSE done

(* The writer sends the oldest request and receives its reply.             *)
Serve ==
  /\ ~stuck /\ queue # <<>>
  /\ MainLoopTurns
  /\ queue' = Tail(queue)
  /\ \E answer \in Fsm \cup {"OK", "ERR"} :
       /\ Executes(Head(queue), answer)
       /\ reply' = IF Head(queue).by = "gone" THEN reply
                   ELSE [reply EXCEPT ![Head(queue).by] = answer]
  /\ UNCHANGED <<stuck, step, asked, tries, due, demoVars, flags,
                 commands, faults>>

(* The command or its reply is lost on the line.                           *)
ServeLost ==
  /\ ~stuck /\ queue # <<>>
  /\ Fault("lost")
  /\ stuck' \in LossBlocks
  /\ queue' = IF stuck' THEN <<>> ELSE Tail(queue)
  /\ \/ UNCHANGED <<robot, ended>>
     \/ /\ MainLoopTurns
        /\ \E answer \in Fsm \cup {"OK", "ERR"} : Executes(Head(queue), answer)
  /\ reply' = IF stuck' \/ Head(queue).by = "gone" THEN reply
              ELSE [reply EXCEPT ![Head(queue).by] = "TIMEOUT"]
  /\ UNCHANGED <<step, asked, tries, due, demoVars, flags, commands>>

(* The real-time tick ends a trajectory; the main loop reports it later.   *)
TrajectoryEnds ==
  /\ moving # NoRequest /\ done = "none"
  /\ moving' = NoRequest /\ done' = "new"
  /\ UNCHANGED <<fsm, uart, tasks, due, demoVars, flags, commands, faults,
                 ended>>

(* The E-STOP or the link watchdog stops the arm.                          *)
FirmwareStops ==
  /\ Fault("stop")
  /\ fsm' \in {"STOPPED", "SAFE"} \ {fsm}
  /\ moving' = NoRequest
  /\ UNCHANGED <<done, uart, tasks, due, demoVars, flags, commands, ended>>

-----------------------------------------------------------------------------
(***************************************************************************)
(* SETPOSE_DONE: on_uart_unsolicited, in the reader thread.                *)
(***************************************************************************)
SetposeDone ==
  /\ done # "none" /\ done' = "none"
  /\ doneEvent' = IF doneEvent = "unset" THEN "set" ELSE doneEvent
  /\ due' = due \cup (IF zeroPending THEN {"HEADZERO"} ELSE {})
                 \cup (IF relaxPending THEN {"RELAX_DIGITAL"} ELSE {})
  /\ zeroPending' = FALSE /\ relaxPending' = FALSE
  /\ UNCHANGED <<fsm, moving, uart, tasks, stopEvent, demoId, commands, faults,
                 ended>>

(* The coroutine it scheduled sends the command; it only logs the answer.  *)
SendDeferred ==
  \E cmd \in due :
    /\ due' = due \ {cmd}
    /\ queue' = Enqueue(For("gone", cmd))
    /\ UNCHANGED <<robot, stuck, tasks, demoVars, flags, commands, faults,
                   ended>>

-----------------------------------------------------------------------------
(***************************************************************************)
(* The operators' commands: handle_uart_cmd.                               *)
(***************************************************************************)
DemoRuns == step["demo"] # "idle"
Receives(c) == step[c] = "idle" /\ commands < MaxCommands /\ commands' = commands + 1

Enable(c) ==
  /\ Receives(c)
  /\ Ask(c, For(c, "STATUS?"), "probe")
  /\ UNCHANGED <<robot, stuck, due, demoVars, flags, faults, ended>>

(* Fault: the demo is not told. *)
StopForgetsDemo(c) ==
  /\ Receives(c)
  /\ Ask(c, [by |-> c, demo |-> IF DemoRuns THEN demoId ELSE 0, cmd |-> "STOP"], "send")
  /\ UNCHANGED <<robot, stuck, due, demoVars, flags, faults, ended>>

(* STOP also asks the demo to end, before it is sent.                      *)
Stop(c) ==
  /\ Receives(c)
  /\ Ask(c, [by |-> c, demo |-> IF DemoRuns THEN demoId ELSE 0, cmd |-> "STOP"], "send")
  /\ stopEvent' = (stopEvent \/ DemoRuns)
  /\ UNCHANGED <<robot, stuck, due, doneEvent, demoId, flags, faults, ended>>

OtherCommand(c) ==
  /\ Receives(c)
  /\ \E cmd \in Commands : Ask(c, For(c, cmd), "send")
  /\ UNCHANGED <<robot, stuck, due, demoVars, flags, faults, ended>>

(* DEMO starts the demo, or asks the one that runs to end and freezes the  *)
(* arm where the telemetry, if there is one, says it is.                   *)
StartDemo(c) ==
  /\ step[c] = "idle" /\ ~DemoRuns
  /\ demoId < MaxDemos /\ demoId' = demoId + 1
  /\ stopEvent' = FALSE
  /\ Goto("demo", "check")
  /\ UNCHANGED <<robot, stuck, due, doneEvent, flags, commands, faults, ended>>

StopDemo(c) ==
  /\ Receives(c) /\ DemoRuns
  /\ stopEvent' = TRUE
  /\ \/ Ask(c, [by |-> c, demo |-> demoId, cmd |-> "HOLD"], "hold")
     \/ UNCHANGED <<queue, tasks>>
  /\ UNCHANGED <<robot, stuck, due, doneEvent, demoId, flags, faults, ended>>

(* The answer to the probe of ENABLE; without one the state is the one     *)
(* known before, which may be any.  A stopped robot goes through SAFE,     *)
(* ENABLE and home.                                                        *)
Probed(c) ==
  /\ step[c] = "probe"
  /\ \/ /\ reply[c] = "STOPPED" \/ OutOfTries(c)
        /\ Ask(c, For(c, "SAFE"), "safe")
     \/ /\ reply[c] \in {"IDLE", "SAFE"} \/ OutOfTries(c)
        /\ Ask(c, For(c, "ENABLE"), "send")
  /\ UNCHANGED <<robot, stuck, due, demoVars, flags, commands, faults, ended>>

RecoveryStep(c, from, cmd, to) ==
  /\ step[c] = from
  /\ \/ Ok(c) /\ Ask(c, For(c, cmd), to)
     \/ OutOfTries(c) /\ Goto(c, "idle")
  /\ UNCHANGED <<robot, stuck, due, demoVars, flags, commands, faults, ended>>
SafeDone(c) == RecoveryStep(c, "safe", "ENABLE", "enable")
EnableDone(c) == RecoveryStep(c, "enable", "AUTO_HOME", "autohome")

(* The last command of a recovery, or the freeze: whatever its outcome.    *)
SequenceDone(c) ==
  /\ step[c] \in {"autohome", "hold"} /\ (Ok(c) \/ OutOfTries(c))
  /\ Goto(c, "idle")
  /\ UNCHANGED <<robot, stuck, due, demoVars, flags, commands, faults, ended>>

(* What a plain command leaves behind: HOME plans RELAX_DIGITAL, a         *)
(* TELEOPPOSE accepted in HEAD or HYBRID plans HEADZERO, for the next      *)
(* SETPOSE_DONE.                                                           *)
CommandDone(c) ==
  /\ step[c] = "send" /\ (Ok(c) \/ OutOfTries(c))
  /\ relaxPending' = IF asked[c].cmd = "HOME" THEN Ok(c) ELSE relaxPending
  /\ zeroPending' \in IF asked[c].cmd # "TELEOPPOSE" THEN {zeroPending}
                      ELSE IF Ok(c) THEN {zeroPending, TRUE} ELSE {FALSE}
  /\ Goto(c, "idle")
  /\ UNCHANGED <<robot, stuck, due, demoVars, commands, faults, ended>>

-----------------------------------------------------------------------------
(***************************************************************************)
(* The demo: _run_demo_sequence and _wait_setpose_done_async.              *)
(***************************************************************************)

(* Fault: the step is sent without looking at the stop event again. *)
CheckBlindly ==
  /\ step["demo"] = "check"
  /\ Ask("demo", [by |-> "demo", demo |-> demoId, cmd |-> "DEMO"], "demo")
  /\ UNCHANGED <<robot, stuck, due, demoVars, flags, commands, faults, ended>>

DemoCheck ==
  /\ step["demo"] = "check"
  /\ IF stopEvent THEN Goto("demo", "idle")
     ELSE Ask("demo", [by |-> "demo", demo |-> demoId, cmd |-> "DEMO"], "demo")
  /\ UNCHANGED <<robot, stuck, due, demoVars, flags, commands, faults, ended>>

DemoSent ==
  /\ step["demo"] = "demo" /\ (Ok("demo") \/ OutOfTries("demo"))
  /\ IF Ok("demo") /\ ~stopEvent
     THEN Goto("demo", "wait") /\ doneEvent' = "unset"
     ELSE Goto("demo", "idle") /\ UNCHANGED doneEvent
  /\ UNCHANGED <<robot, stuck, due, stopEvent, demoId, flags, commands, faults,
                 ended>>

DemoWakes ==
  /\ step["demo"] = "wait" /\ doneEvent = "set"
  /\ doneEvent' = "none"
  /\ Goto("demo", IF stopEvent THEN "idle" ELSE "check")
  /\ UNCHANGED <<robot, stuck, due, stopEvent, demoId, flags, commands, faults,
                 ended>>

(* Fault: the demo waits for SETPOSE_DONE without a time limit. *)
NeverTimesOut == FALSE /\ UNCHANGED vars

(* No SETPOSE_DONE in 10 s.                                                *)
DemoTimesOut ==
  /\ step["demo"] = "wait" /\ doneEvent = "unset"
  /\ doneEvent' = "none"
  /\ Goto("demo", "idle")
  /\ UNCHANGED <<robot, stuck, due, stopEvent, demoId, flags, commands, faults,
                 ended>>

-----------------------------------------------------------------------------
Answered(c) ==
  \/ Probed(c) \/ SafeDone(c) \/ EnableDone(c) \/ SequenceDone(c)
  \/ CommandDone(c)
Demo == DemoCheck \/ DemoSent \/ DemoWakes

Next ==
  \/ \E t \in Tasks : Retry(t) \/ GiveUp(t)
  \/ \E c \in Clients :
       \/ Enable(c) \/ Stop(c) \/ OtherCommand(c) \/ StartDemo(c) \/ StopDemo(c)
       \/ Answered(c)
  \/ Serve \/ ServeLost \/ TrajectoryEnds \/ FirmwareStops
  \/ SetposeDone \/ SendDeferred
  \/ Demo \/ DemoTimesOut

Spec == Init /\ [][Next]_vars

(* The threads and the loop run, time passes; nobody has to press a button,*)
(* and nothing has to fail.                                                *)
Fairness ==
  /\ WF_vars(Serve) /\ WF_vars(TrajectoryEnds) /\ WF_vars(SetposeDone)
  /\ WF_vars(SendDeferred) /\ WF_vars(Demo) /\ WF_vars(DemoTimesOut)
  /\ \A t \in Tasks : WF_vars(Retry(t)) /\ WF_vars(stuck /\ GiveUp(t))
  /\ \A c \in Clients : WF_vars(Answered(c))

FairSpec == Spec /\ Fairness

-----------------------------------------------------------------------------
(***************************************************************************)
(* Properties.                                                             *)
(***************************************************************************)

(* No step of a demo starts to move the arm once a STOP, or the freeze of  *)
(* the DEMO button, meant for that demo has been executed: not even if an  *)
(* ENABLE follows at once and its auto-home reports SETPOSE_DONE.          *)
StopEndsDemo ==
  [][moving' # moving /\ moving'.cmd = "DEMO" => moving'.demo > ended]_vars

(* A demo that is asked to end ends, although the STOP that asked for it   *)
(* also cancels the SETPOSE_DONE it may be waiting for.                    *)
StopFreesDemo == (stopEvent /\ DemoRuns) ~> ~DemoRuns

-----------------------------------------------------------------------------
(***************************************************************************)
(* Why StopEndsDemo holds: the inductive invariant.  A task waits for what *)
(* its step has asked for; it is told once, since no two requests in the   *)
(* queue are its own.                                                      *)
(***************************************************************************)
TaskInv ==
  /\ \A t \in Tasks :
       \/ /\ step[t] \in DOMAIN Attempts /\ reply[t] # "none"
          /\ asked[t] \in Request /\ asked[t].by = t
       \/ /\ step[t] \notin DOMAIN Attempts /\ reply[t] = "none"
          /\ asked[t] = NoRequest
  /\ \A t \in Tasks : asked[t].cmd = "DEMO" <=> step[t] = "demo"
  /\ step["demo"] \in {"idle", "check", "demo", "wait"}

QueueInv ==
  /\ stuck => queue = <<>>
  /\ \A i \in DOMAIN queue : queue[i].by # "gone" =>
       reply[queue[i].by] = "pending" /\ asked[queue[i].by] = queue[i]
  /\ \A i, j \in DOMAIN queue : queue[i].by = queue[j].by => i = j \/ queue[i].by = "gone"

(* A request that ends a demo.  Nobody asks for the end of a demo yet to   *)
(* come; ...                                                               *)
Ends(request, n) == request.cmd # "DEMO" /\ request.demo >= n
NumberInv ==
  /\ ended <= demoId
  /\ \A t \in Tasks : asked[t].demo <= demoId
  /\ \A i \in DOMAIN queue : queue[i].demo <= demoId

(* ... as long as the stop event is not set, nobody has asked for the end  *)
(* of the one that runs; ...                                               *)
RunningInv ==
  DemoRuns => /\ demoId > 0
              /\ ~stopEvent => /\ ended < demoId
                               /\ \A t \in Tasks : ~Ends(asked[t], demoId)
                               /\ \A i \in DOMAIN queue : ~Ends(queue[i], demoId)

(* ... and a step of a demo that waits in the queue is before all that     *)
(* could end it.                                                           *)
DemoInv ==
  \A i \in DOMAIN queue : queue[i].cmd = "DEMO" =>
    /\ queue[i].demo > ended
    /\ \A j \in 1 .. i : ~Ends(queue[j], queue[i].demo)

(* The arm is moved in IDLE only.                                          *)
MotionInv == moving # NoRequest => fsm = "IDLE"

DemosInv ==
  TypeOK /\ TaskInv /\ QueueInv /\ NumberInv /\ RunningInv /\ DemoInv /\ MotionInv
=============================================================================
