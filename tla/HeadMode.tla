------------------------------ MODULE HeadMode ------------------------------
(***************************************************************************)
(* HEAD mode on the WebSocket server: handle_set_vr_mode and its heartbeat *)
(* loop (ws_handlers_intent.py), and what the handler of a connection does *)
(* with an intent (ws_server.py).  In HEAD mode the server itself presses  *)
(* both grips: the loop writes the shared intent every 20 ms with mode 3,  *)
(* the grips and a new heartbeat, and intents that arrive meanwhile are    *)
(* rewritten in the same way.                                              *)
(*                                                                         *)
(* One handler per connection, and the loops, are tasks of one event loop; *)
(* what a task does between two suspensions is one step.  The intent in    *)
(* memory and its file are always written together and are one variable.   *)
(* Of an intent only the mode, who decides on the grips and the heartbeat  *)
(* are kept, the last one modulo 2.                                        *)
(***************************************************************************)
EXTENDS Naturals, FiniteSets

CONSTANTS
  Clients,    (* connections                                               *)
  MaxLoops,   (* heartbeat loops that may exist at a time                  *)
  VrModes,    (* modes asked for with set_vr_mode                          *)
  IntentModes (* modes of the intents                                      *)

ASSUME HeadModeAssumption ==
       /\ MaxLoops \in Nat \ {0}
       /\ VrModes \subseteq 0 .. 5 /\ IntentModes \subseteq 0 .. 5

VARIABLES
  connected,  (* open connections                                          *)
  configured, (* there is a VR configuration to apply to the firmware      *)
  latest,     (* shared_state.latest_intent                                *)
  active,     (* _dashboard_head_active                                    *)
  task,       (* _head_mode_task, 0 for None                               *)
  stopSet,    (* the current _head_mode_stop_event is set                  *)
  loop,       (* state of each heartbeat loop                              *)
  step,       (* per connection: where its set_vr_mode handler is          *)
  request,    (* per connection: the mode it asked for                     *)
  awaits      (* per connection: the loop its handler waits for            *)

(* History: no two requests have overlapped in a way the code does not     *)
(* handle; the last thing an operator asked for is to leave HEAD.          *)
VARIABLES exclusive, left

handlers == <<step, request, awaits>>
history == <<exclusive, left>>
vars == <<connected, configured, latest, active, task, stopSet, loop, step,
          request, awaits, exclusive, left>>

Loops == 1 .. MaxLoops
Intent == [mode : 0 .. 5, grip : {"none", "operator", "server"}, beat : 0 .. 1]

TypeOK ==
  /\ connected \subseteq Clients /\ configured \in BOOLEAN
  /\ latest \in Intent /\ active \in BOOLEAN
  /\ task \in Loops \cup {0} /\ stopSet \in BOOLEAN
  /\ loop \in [Loops -> {"none", "new", "running", "cancelled"}]
  /\ step \in [Clients -> {"idle", "stopping", "cancelling", "stopped", "applying"}]
  /\ request \in [Clients -> 0 .. 5] /\ awaits \in [Clients -> Loops \cup {0}]
  /\ exclusive \in BOOLEAN /\ left \in BOOLEAN

Init ==
  /\ connected = {} /\ configured \in BOOLEAN
  /\ latest = [mode |-> 0, grip |-> "none", beat |-> 0]
  /\ active = FALSE /\ task = 0 /\ stopSet = FALSE
  /\ loop = [l \in Loops |-> "none"]
  /\ step = [c \in Clients |-> "idle"]
  /\ request = [c \in Clients |-> 0] /\ awaits = [c \in Clients |-> 0]
  /\ exclusive = TRUE /\ left = FALSE

Alive(l) == loop[l] # "none"
HeadRuns == \E l \in Loops : Alive(l)
Busy(c) == step[c] # "idle"
Starts(c) == Busy(c) /\ request[c] = 3

-----------------------------------------------------------------------------
(***************************************************************************)
(* Connections.                                                            *)
(***************************************************************************)
Connect(c) ==
  /\ c \notin connected /\ ~Busy(c)
  /\ connected' = connected \cup {c}
  /\ UNCHANGED <<configured, latest, active, task, stopSet, loop, handlers, history>>

(* A handler that is running goes on, until it tries to answer.            *)
Disconnect(c) ==
  /\ c \in connected /\ connected' = connected \ {c}
  /\ UNCHANGED <<configured, latest, active, task, stopSet, loop, handlers, history>>

-----------------------------------------------------------------------------
(***************************************************************************)
(* set_vr_mode.                                                            *)
(***************************************************************************)

(* Requests of two operators that the code does not keep apart: two starts,*)
(* or a start and any other one when there is nothing to apply.            *)
Clash(c, mode) ==
  \E d \in Clients \ {c} :
    Busy(d) /\ (IF configured THEN mode = 3 /\ request[d] = 3
                              ELSE mode = 3 \/ request[d] = 3)

(* The end of _stop_head_mode_clean, and what follows it without a further *)
(* suspension: a start makes a new event, and asks the firmware to take    *)
(* the configuration; without one the heartbeat loop is created at once.   *)
CreateLoop ==
  \E l \in Loops :
    /\ ~Alive(l) /\ \A k \in Loops : k < l => Alive(k)
    /\ loop' = [loop EXCEPT ![l] = "new"] /\ task' = l

AfterStop(c, mode) ==
  /\ latest' = [latest EXCEPT !.mode = 1, !.grip = "none"]
  /\ stopSet' = (stopSet /\ mode # 3)
  /\ IF mode \in {3, 4, 5} /\ configured
     THEN step' = [step EXCEPT ![c] = "applying"] /\ task' = 0 /\ UNCHANGED loop
     ELSE /\ step' = [step EXCEPT ![c] = "idle"]
          /\ IF mode = 3 THEN CreateLoop ELSE task' = 0 /\ UNCHANGED loop
  /\ left' = IF mode = 3 THEN FALSE
             ELSE \A d \in Clients \ {c} : ~Starts(d)

(* The request arrives.  A loop that runs is told to stop and waited for.  *)
SetVrMode(c) ==
  /\ c \in connected /\ ~Busy(c)
  /\ active' = FALSE
  /\ \E mode \in VrModes :
       /\ request' = [request EXCEPT ![c] = mode]
       /\ exclusive' = (exclusive /\ ~Clash(c, mode))
       /\ IF task # 0
          THEN /\ stopSet' = TRUE
               /\ awaits' = [awaits EXCEPT ![c] = task]
               /\ step' = [step EXCEPT ![c] = "stopping"]
               /\ left' = (left /\ mode # 3)
               /\ UNCHANGED <<latest, task, loop>>
          ELSE AfterStop(c, mode) /\ UNCHANGED awaits
  /\ UNCHANGED <<connected, configured>>

(* 0.3 s without an end: the loop is cancelled.  A loop that sees the event*)
(* ends within 20 ms, so this needs an event replaced meanwhile.           *)
StopTimesOut(c) ==
  /\ step[c] = "stopping" /\ ~stopSet /\ loop[awaits[c]] # "new"
  /\ step' = [step EXCEPT ![c] = "cancelling"]
  /\ loop' = [loop EXCEPT ![awaits[c]] = "cancelled"]
  /\ UNCHANGED <<connected, configured, latest, active, task, stopSet, request,
                 awaits, history>>

Stopped(c) ==
  /\ step[c] = "stopped"
  /\ AfterStop(c, request[c])
  /\ awaits' = [awaits EXCEPT ![c] = 0]
  /\ UNCHANGED <<connected, configured, active, request, exclusive>>

(* The firmware has answered, or not: the outcome is only logged.  The     *)
(* answer takes longer than the event loop takes to run what is ready.     *)
Applied(c) ==
  /\ step[c] = "applying" /\ \A d \in Clients : step[d] # "stopped"
  /\ step' = [step EXCEPT ![c] = "idle"]
  /\ IF request[c] = 3 THEN CreateLoop ELSE UNCHANGED <<loop, task>>
  /\ UNCHANGED <<connected, configured, latest, active, stopSet, request, awaits,
                 history>>

-----------------------------------------------------------------------------
(***************************************************************************)
(* The heartbeat loop.                                                     *)
(***************************************************************************)
Pressed(beat) == [mode |-> 3, grip |-> "server", beat |-> beat]

LoopStarts(l) ==
  /\ loop[l] = "new" /\ ~stopSet
  /\ loop' = [loop EXCEPT ![l] = "running"]
  /\ active' = TRUE
  /\ latest' \in {Pressed(beat) : beat \in 0 .. 1}
  /\ UNCHANGED <<connected, configured, task, stopSet, handlers, history>>

LoopTicks(l) ==
  /\ loop[l] = "running" /\ ~stopSet
  /\ latest' = Pressed(1 - latest.beat)
  /\ UNCHANGED <<connected, configured, active, task, stopSet, loop, handlers,
                 history>>

(* Who waits for the loop goes on; but if another has cancelled it, the    *)
(* cancellation reaches the waiting handler and closes its connection.     *)
WakeWaiters(l) ==
  LET waits == {c \in Clients : awaits[c] = l}
      broken == {c \in waits : step[c] = "stopping" /\ loop[l] = "cancelled"}
  IN /\ step' = [c \in Clients |-> IF c \in broken THEN "idle"
                                   ELSE IF c \in waits THEN "stopped" ELSE step[c]]
     /\ awaits' = [c \in Clients |-> IF c \in waits THEN 0 ELSE awaits[c]]
     /\ connected' = connected \ broken

LoopLeaves(l) ==
  /\ loop[l] = "cancelled" \/ (Alive(l) /\ stopSet)
  /\ loop' = [loop EXCEPT ![l] = "none"]
  /\ WakeWaiters(l)

(* Fault: the finally block forgets that HEAD is over. *)
LoopEndsActive(l) ==
  /\ LoopLeaves(l)
  /\ task' = 0
  /\ latest' = [latest EXCEPT !.mode = 2, !.grip = "none"]
  /\ UNCHANGED <<configured, active, stopSet, request, history>>

(* Its finally block releases the grips.                                   *)
LoopEnds(l) ==
  /\ LoopLeaves(l)
  /\ active' = FALSE /\ task' = 0
  /\ latest' = [latest EXCEPT !.mode = 2, !.grip = "none"]
  /\ UNCHANGED <<configured, stopSet, request, history>>

-----------------------------------------------------------------------------
(***************************************************************************)
(* An intent arrives: validate_and_build_intent and handle_client.         *)
(***************************************************************************)

(* Without HYBRID enabled, HYBRID falls back to manual.                    *)
Validated(mode) == IF mode = 4 THEN {2, 4} ELSE {mode}

Rewritten(intent) ==
  IF active /\ intent.mode \in {3, 4}
  THEN [intent EXCEPT !.mode = 3, !.grip = "server"] ELSE intent

(* Fault: stop_head_mode asks whether the loop has started to run. *)
StopHeadModeIfActive(mode) == stopSet' = (stopSet \/ (mode = 2 /\ active))

(* stop_head_mode, after a manual intent.                                  *)
StopHeadMode(mode) == stopSet' = (stopSet \/ (mode = 2 /\ task # 0))

(* Entering an assisted mode also applies the VR configuration to the      *)
(* firmware, which touches nothing here.                                   *)
IntentArrives(c) ==
  /\ c \in connected /\ ~Busy(c)
  /\ \E sent \in IntentModes, beat \in 0 .. 1 :
     \E mode \in Validated(sent) :
       /\ latest' = Rewritten([mode |-> mode, grip |-> "operator", beat |-> beat])
       /\ StopHeadMode(mode)
       /\ left' = IF mode = 2 THEN \A d \in Clients : ~Starts(d) ELSE left
  /\ UNCHANGED <<connected, configured, active, task, loop, handlers, exclusive>>

-----------------------------------------------------------------------------
Handler(c) == StopTimesOut(c) \/ Stopped(c) \/ Applied(c)
Loop(l) == LoopStarts(l) \/ LoopTicks(l) \/ LoopEnds(l)

Next ==
  \/ \E c \in Clients : Connect(c) \/ Disconnect(c) \/ SetVrMode(c) \/ IntentArrives(c)
  \/ \E c \in Clients : Handler(c)
  \/ \E l \in Loops : Loop(l)

Spec == Init /\ [][Next]_vars

(* The event loop runs what is ready, and time passes.                     *)
FairSpec ==
  /\ Spec
  /\ \A c \in Clients : WF_vars(Handler(c))
  /\ \A l \in Loops : WF_vars(Loop(l))

-----------------------------------------------------------------------------
(***************************************************************************)
(* Properties.                                                             *)
(***************************************************************************)

(* The server presses the grips only while a heartbeat loop is there to    *)
(* release them: an intent is not rewritten, and the last one is not left  *)
(* with the grips pressed, after the last loop has ended.                  *)
ReleasedWithoutLoop == active \/ latest.grip = "server" => HeadRuns

(* HEAD ends after an operator has asked to leave it, by set_vr_mode or by *)
(* a manual intent, unless it is started again; requests of two operators  *)
(* that overlap are the exception (see exclusive).                         *)
LeaveEndsHead == left ~> (~HeadRuns \/ ~left \/ ~exclusive)
=============================================================================
