--------------------------- MODULE ServerConfig ---------------------------
(***************************************************************************)
(* The settings of the robot and the life of the two servers that keep     *)
(* them.  A setting is a file of the Raspberry Pi and, for most, a value   *)
(* the firmware has to be told: the WebSocket server sends it when a page  *)
(* asks, when the firmware says BOOT_READY and when the server itself      *)
(* starts.  The HTTPS server, another process, rewrites the routing file.  *)
(* The WebSocket server also polls the robot and, when it gets no answer   *)
(* for long, has itself restarted.                                         *)
(*                                                                         *)
(* All tasks of the WebSocket server share one event loop, which runs them *)
(* in the order in which they become ready, and one UART, whose requests   *)
(* are served in order.  A task is alone between two suspensions.          *)
(*                                                                         *)
(* The content of a setting is a version number, a larger one for each     *)
(* change; 0 is the firmware's factory value.  Limits are those of one     *)
(* joint.  A file is replaced whole, so a reader sees one version.         *)
(***************************************************************************)
EXTENDS Naturals, Sequences

CONSTANTS
  Pages,       (* pages of the dashboard                                   *)
  Threads,     (* of the HTTPS server                                      *)
  MaxSaves,    (* changes and applications they ask for                    *)
  MaxFaults,   (* faults in a run                                          *)
  Faults,      (* which: "lost", a reply; "slow", a caller gives up;       *)
               (* "crash" of the server, "reset" of the firmware           *)
  PollLimit,   (* failed polls before the state is UNKNOWN                 *)
  LossBlocks   (* does a lost reply block the UART writer for ever         *)

ASSUME ServerConfigAssumption ==
       /\ MaxSaves \in Nat /\ MaxFaults \in Nat /\ PollLimit \in Nat \ {0}
       /\ Faults \subseteq {"lost", "slow", "crash", "reset"}
       /\ LossBlocks \subseteq BOOLEAN /\ LossBlocks # {}
       /\ Pages \cap {"startup", "boot", "gone"} = {}

VARIABLES
  file,        (* the files: a version of each setting                     *)
  fw,          (* the firmware's version of each of its settings           *)
  version,     (* the last version made                                    *)
  saves,       (* what the pages have asked for                            *)
  post,        (* per thread: the routing POST it handles, or Idle         *)
  up,          (* the WebSocket server runs                                *)
  open,        (* it has opened the serial port                            *)
  bootApplied, (* _boot_config_applied                                     *)
  queue,       (* the UART manager's queue of requests                     *)
  stuck,       (* its writer waits for ever for a lost reply               *)
  ready,       (* tasks the loop will resume, in order                     *)
  step,        (* per task: where it is suspended                          *)
  asked,       (* per task: its request                                    *)
  reply,       (* per task: "none", "pending", "OK", "TIMEOUT"             *)
  tries,       (* per task: attempts that failed                           *)
  held,        (* per task: the limits it has read                         *)
  failures,    (* consecutive polls that failed; at PollLimit the state is *)
               (* UNKNOWN                                                  *)
  recent,      (* the last hard restart is less than 90 s ago              *)
  faults       (* faults so far                                            *)

(* History: settings of which the file and the firmware may disagree, and  *)
(* those a task's request will not settle.                                 *)
VARIABLES doubt, unsure

(* Has a reply been lost or a caller given up.                             *)
VARIABLE lossy

disk == <<file, version, post>>
process == <<up, open, bootApplied>>
uart == <<queue, stuck>>
tasks == <<ready, step, asked, reply, tries, held>>
watch == <<failures, recent>>
history == <<doubt, unsure>>
vars == <<disk, fw, saves, process, uart, tasks, watch, faults, history, lossy>>

Keys == {"offsets", "tuning", "limits", "pwm"}
Settings == Keys \cup {"home"}
Routing == {"tuning", "limits"}
Tasks == Pages \cup {"startup", "boot"}

Version == 0 .. MaxSaves + 1
Request == [by : Tasks \cup {"gone"}, key : Keys \cup {"other"}, val : Version]
NoRequest == [by |-> "gone", key |-> "none", val |-> 0]
Idle == [parts |-> {}]

(* How many times a step sends its request before it counts as failed.     *)
Attempts == [offsets |-> 1, pose |-> 1, tuning |-> 3, limits |-> 2, pwm |-> 1]

TypeOK ==
  /\ file \in [Settings -> Version] /\ fw \in [Keys -> Version]
  /\ version \in Version /\ saves \in 0 .. MaxSaves
  /\ post \in [Threads -> {Idle} \cup [parts : SUBSET Routing \ {{}}, val : Version,
                                     seen : [Routing -> Version], alone : BOOLEAN]]
  /\ up \in BOOLEAN /\ open \in BOOLEAN /\ bootApplied \in BOOLEAN
  /\ queue \in Seq(Request) /\ stuck \in BOOLEAN /\ ready \in Seq(Tasks)
  /\ step \in [Tasks -> DOMAIN Attempts \cup {"idle", "timer", "booted"}]
  /\ asked \in [Tasks -> Request \cup {NoRequest}]
  /\ reply \in [Tasks -> {"none", "pending", "OK", "TIMEOUT"}]
  /\ tries \in [Tasks -> 0 .. 2] /\ held \in [Tasks -> Version]
  /\ failures \in 0 .. PollLimit /\ recent \in BOOLEAN
  /\ faults \in 0 .. MaxFaults
  /\ doubt \subseteq Keys /\ unsure \in [Tasks -> SUBSET Keys] /\ lossy \in BOOLEAN

(* The settings were saved before; the firmware has just been switched on. *)
Init ==
  /\ file = [k \in Settings |-> 1] /\ fw = [k \in Keys |-> 0]
  /\ version = 1 /\ saves = 0 /\ post = [h \in Threads |-> Idle]
  /\ up = FALSE /\ open = FALSE /\ bootApplied = FALSE
  /\ queue = <<>> /\ stuck = FALSE /\ ready = <<>>
  /\ step = [t \in Tasks |-> "idle"]
  /\ asked = [t \in Tasks |-> NoRequest] /\ reply = [t \in Tasks |-> "none"]
  /\ tries = [t \in Tasks |-> 0]
  /\ held = [t \in Tasks |-> 0]
  /\ failures = 0 /\ recent = FALSE /\ faults = 0
  /\ doubt = Keys /\ unsure = [t \in Tasks |-> {}] /\ lossy = FALSE

Fault(kind) == /\ kind \in Faults /\ faults < MaxFaults /\ faults' = faults + 1
               /\ lossy' = (lossy \/ kind \in {"lost", "slow"})

-----------------------------------------------------------------------------
(***************************************************************************)
(* Requests.  A reply makes its task ready; after a failed attempt there   *)
(* is a pause, so a task that goes on has lost its place.                  *)
(***************************************************************************)
(* Fault: the newest request is served first. *)
EnqueueFirst(request) == IF stuck THEN queue ELSE <<request>> \o queue

Enqueue(request) == IF stuck THEN queue ELSE Append(queue, request)

(* The loop resumes the first task that is ready.                          *)
Resumes(t) == ready # <<>> /\ Head(ready) = t
NoLongerReady(t) == IF Resumes(t) THEN Tail(ready) ELSE ready

Ask(t, s, key, val) ==
  LET request == [by |-> t, key |-> key, val |-> val] IN
  /\ queue' = Enqueue(request) /\ open' = TRUE
  /\ asked' = [asked EXCEPT ![t] = request]
  /\ reply' = [reply EXCEPT ![t] = "pending"]
  /\ tries' = [tries EXCEPT ![t] = 0]
  /\ step' = [step EXCEPT ![t] = s]
  /\ ready' = NoLongerReady(t)

End(t) ==
  /\ step' = [step EXCEPT ![t] = "idle"]
  /\ held' = [held EXCEPT ![t] = 0]
  /\ unsure' = [unsure EXCEPT ![t] = {}] /\ UNCHANGED doubt
  /\ reply' = [reply EXCEPT ![t] = "none"]
  /\ asked' = [asked EXCEPT ![t] = NoRequest]
  /\ tries' = [tries EXCEPT ![t] = 0]
  /\ ready' = NoLongerReady(t)
  /\ UNCHANGED <<queue, open>>

Failed(t) == reply[t] = "TIMEOUT"
Ok(t) == reply[t] = "OK" /\ Resumes(t)
OutOfTries(t) == Failed(t) /\ tries[t] + 1 >= Attempts[step[t]]

Retry(t) ==
  /\ Failed(t) /\ ~OutOfTries(t)
  /\ queue' = Enqueue(asked[t])
  /\ reply' = [reply EXCEPT ![t] = "pending"]
  /\ tries' = [tries EXCEPT ![t] = @ + 1]
  /\ UNCHANGED <<disk, fw, saves, process, stuck, ready, step, asked, held, watch,
                 faults, history, lossy>>

(* History.  No request that is under way settles these keys any more.     *)
Raise(K) ==
  /\ doubt' = doubt \cup K
  /\ unsure' = [t \in Tasks |-> IF step[t] = "idle" THEN {} ELSE unsure[t] \cup K]

(* What a request that fails leaves open: a delayed application of the VR  *)
(* parameters sends its limits later too.                                  *)
LeftOpen(request) == IF request.key \in Routing THEN Routing ELSE {request.key} \cap Keys

(* Task t begins to write keys K.  It settles them, unless another task    *)
(* has to repeat a request for one of them and may come later with less.   *)
Shaky(t, K) == asked[t].key \in K /\ (tries[t] > 0 \/ Failed(t))
Begin(t, K) ==
  /\ unsure' = [unsure EXCEPT ![t] = IF \E u \in Tasks \ {t} : Shaky(u, K) THEN K ELSE {}]
  /\ UNCHANGED doubt

(* The caller's own time limit.  (While the writer is blocked all requests *)
(* end this way, one after the other, which changes nothing here: the      *)
(* tasks are left where they are until the process ends.)                  *)
GiveUp(t) ==
  /\ reply[t] = "pending" /\ ~stuck
  /\ Fault("slow")
  /\ reply' = [reply EXCEPT ![t] = "TIMEOUT"]
  /\ queue' = [i \in DOMAIN queue |-> IF queue[i].by = t
                                      THEN [queue[i] EXCEPT !.by = "gone"]
                                      ELSE queue[i]]
  /\ Raise(LeftOpen(asked[t]))
  /\ UNCHANGED <<disk, fw, saves, process, stuck, ready, step, asked, tries, held,
                 watch>>

-----------------------------------------------------------------------------
(***************************************************************************)
(* The firmware: SET_OFFSETS, SET_VR_PARAMS, SET_JOINT_LIMITS and          *)
(* SET_PWM_CONFIG are accepted in every state.                             *)
(***************************************************************************)
Written(request) == IF request.key \in Keys THEN [fw EXCEPT ![request.key] = request.val]
                                            ELSE fw

Serve ==
  /\ ~stuck /\ queue # <<>>
  /\ LET request == Head(queue) IN
     /\ fw' = Written(request)
     /\ IF request.by = "gone" THEN UNCHANGED <<reply, ready, doubt>>
        ELSE /\ reply' = [reply EXCEPT ![request.by] = "OK"]
             /\ ready' = Append(ready, request.by)
             /\ doubt' = doubt \ ({request.key} \ unsure[request.by])
  /\ queue' = Tail(queue)
  /\ UNCHANGED <<disk, saves, process, stuck, step, asked, tries, held, watch, faults,
                 unsure, lossy>>

(* The request or its reply is lost on the line.                           *)
Loses ==
  /\ stuck' \in LossBlocks
  /\ queue' = IF stuck' THEN <<>> ELSE Tail(queue)
  /\ reply' = IF stuck' \/ Head(queue).by = "gone" THEN reply
              ELSE [reply EXCEPT ![Head(queue).by] = "TIMEOUT"]

ServeLost ==
  /\ ~stuck /\ queue # <<>>
  /\ Fault("lost")
  /\ Loses
  /\ fw' \in {fw, Written(Head(queue))}
  /\ Raise(LeftOpen(Head(queue)))
  /\ UNCHANGED <<disk, saves, process, ready, step, asked, tries, held, watch>>

(* Fault: what was sent once is not sent again. *)
BootReadyOnce ==
  /\ bootApplied' = TRUE
  /\ IF bootApplied THEN UNCHANGED <<step, ready>>
     ELSE /\ step' = [step EXCEPT !["boot"] = "booted"]
          /\ ready' = Append(ready, "boot")

(* The firmware restarts with its factory settings and says BOOT_READY.    *)
(* The reader thread hears it if the port is open: it sets the flag and    *)
(* schedules the task that sends the settings.                             *)
BootReady ==
  /\ bootApplied' = TRUE
  /\ step' = [step EXCEPT !["boot"] = "booted"]
  /\ ready' = Append(ready, "boot")

FirmwareResets ==
  /\ Fault("reset")
  /\ step["boot"] = "idle"
  /\ fw' = [k \in Keys |-> 0]
  /\ Raise(Keys)
  /\ IF up /\ open THEN BootReady ELSE UNCHANGED <<bootApplied, step, ready>>
  /\ UNCHANGED <<disk, saves, up, open, uart, asked, reply, tries, held, watch>>

-----------------------------------------------------------------------------
(***************************************************************************)
(* The pages.                                                              *)
(***************************************************************************)
Asks(p) == up /\ step[p] = "idle" /\ saves < MaxSaves /\ saves' = saves + 1
NewVersion == version < MaxSaves + 1 /\ version' = version + 1

(* The settings file is written whole: what is not given gets its default. *)
Save(offsets, home) == file' = [file EXCEPT !["offsets"] = offsets, !["home"] = home]

(* A page saves all the settings it shows, without telling the firmware.   *)
SaveSettings(p) ==
  /\ Asks(p) /\ NewVersion
  /\ Save(version', version')
  /\ Raise({"offsets"})
  /\ UNCHANGED <<fw, post, process, uart, tasks, watch, faults, lossy>>

(* The offsets are sent; the file follows when the firmware has them, then *)
(* the arm moves to its new HOME.                                          *)
ApplyOffsets(p) ==
  /\ Asks(p) /\ NewVersion
  /\ Ask(p, "offsets", "offsets", version')
  /\ Begin(p, {"offsets"})
  /\ UNCHANGED <<file, post, fw, up, bootApplied, stuck, held, watch, faults, lossy>>

(* Fault: only the offsets are saved, not what the file holds besides. *)
OffsetsAppliedAlone(p) ==
  /\ p \in Pages /\ step[p] = "offsets"
  /\ \/ /\ Ok(p)
        /\ Save(asked[p].val, 0)
        /\ Ask(p, "pose", "other", 0)
        /\ UNCHANGED <<held, history>>
     \/ OutOfTries(p) /\ End(p) /\ UNCHANGED file
  /\ UNCHANGED <<version, post, fw, saves, up, bootApplied, stuck, watch, faults, lossy>>

OffsetsApplied(p) ==
  /\ p \in Pages /\ step[p] = "offsets"
  /\ \/ /\ Ok(p)
        /\ Save(asked[p].val, file["home"])
        /\ Ask(p, "pose", "other", 0)
        /\ UNCHANGED <<held, history>>
     \/ OutOfTries(p) /\ End(p) /\ UNCHANGED file
  /\ UNCHANGED <<version, post, fw, saves, up, bootApplied, stuck, watch, faults, lossy>>

SendPwm(t, config) == Ask(t, "pwm", "pwm", config) /\ Begin(t, {"pwm"})

(* The PWM configuration is saved and sent in one step.                    *)
SavePwm(p) ==
  /\ Asks(p) /\ NewVersion
  /\ file' = [file EXCEPT !["pwm"] = version']
  /\ SendPwm(p, version')
  /\ UNCHANGED <<post, fw, up, bootApplied, stuck, held, watch, faults, lossy>>

(* apply_vr_config_now reads the routing file once, for all it sends.      *)
ReadAndSendVr(t) ==
  /\ Ask(t, "tuning", "tuning", file["tuning"])
  /\ held' = [held EXCEPT ![t] = file["limits"]]
  /\ Begin(t, Routing)

ApplyVr(p) ==
  /\ Asks(p)
  /\ ReadAndSendVr(p)
  /\ UNCHANGED <<disk, fw, up, bootApplied, stuck, watch, faults, lossy>>

(* A POST of some parts of the routing file: a thread of the HTTPS server  *)
(* reads the file, then writes it with the parts of the POST.              *)
PostReads(h) ==
  /\ post[h] = Idle /\ saves < MaxSaves /\ saves' = saves + 1
  /\ NewVersion
  /\ \E parts \in SUBSET Routing \ {{}} :
       post' = [post EXCEPT ![h] = [parts |-> parts, val |-> version', alone |-> TRUE,
                                    seen |-> [k \in Routing |-> file[k]]]]
  /\ UNCHANGED <<file, fw, process, uart, tasks, watch, faults, history, lossy>>

PostEnds(h) == post' = [g \in Threads |-> IF g = h \/ post[g] = Idle THEN Idle
                                          ELSE [post[g] EXCEPT !.alone = FALSE]]

PostWrites(h) ==
  /\ post[h] # Idle /\ PostEnds(h)
  /\ file' = [k \in Settings |-> IF k \in post[h].parts THEN post[h].val
                                 ELSE IF k \in Routing THEN post[h].seen[k] ELSE file[k]]
  /\ Raise({k \in Routing : file'[k] # file[k]})
  /\ UNCHANGED <<version, fw, saves, process, uart, tasks, watch, faults, lossy>>

-----------------------------------------------------------------------------
(***************************************************************************)
(* Sending the settings: after BOOT_READY, or at the start of the server   *)
(* when there has been no BOOT_READY for 1.5 s.                            *)
(***************************************************************************)
Syncs == {"startup", "boot"}

(* An apply_offsets on its way has not changed the file yet.               *)
Overtaken == \E p \in Pages : step[p] = "offsets"

SendOffsets(t) ==
  /\ Ask(t, "offsets", "offsets", file["offsets"])
  /\ IF Overtaken THEN Raise({"offsets"}) ELSE Begin(t, {"offsets"})

BootSync ==
  /\ step["boot"] = "booted" /\ Resumes("boot")
  /\ SendOffsets("boot")
  /\ UNCHANGED <<disk, fw, saves, up, bootApplied, stuck, held, watch, faults, lossy>>

StartupSync ==
  /\ step["startup"] = "timer"
  /\ IF bootApplied THEN End("startup")
                    ELSE SendOffsets("startup") /\ UNCHANGED held
  /\ UNCHANGED <<disk, fw, saves, up, bootApplied, stuck, watch, faults, lossy>>

(* Whatever the outcome of the offsets, the VR parameters follow.          *)
OffsetsSent(t) ==
  /\ t \in Syncs /\ step[t] = "offsets" /\ (Ok(t) \/ OutOfTries(t))
  /\ ReadAndSendVr(t)
  /\ UNCHANGED <<disk, fw, saves, up, bootApplied, stuck, watch, faults, lossy>>

(* The end of an application of the VR parameters.                         *)
VrSent(t) ==
  IF t \in Syncs
  THEN SendPwm(t, file["pwm"]) /\ UNCHANGED held
  ELSE End(t)

(* Without the parameters the limits are not sent.                         *)
TuningSent(t) ==
  /\ step[t] = "tuning"
  /\ \/ /\ Ok(t)
        /\ Ask(t, "limits", "limits", held[t])
        /\ UNCHANGED <<held, history>>
     \/ OutOfTries(t) /\ VrSent(t)
  /\ UNCHANGED <<disk, fw, saves, up, bootApplied, stuck, watch, faults, lossy>>

LimitsSent(t) ==
  /\ step[t] = "limits" /\ (Ok(t) \/ OutOfTries(t))
  /\ VrSent(t)
  /\ UNCHANGED <<disk, fw, saves, up, bootApplied, stuck, watch, faults, lossy>>

(* The last request of a task; the startup task then sets the flag too.    *)
TaskEnds(t) ==
  /\ step[t] \in {"pwm", "pose"} /\ (Ok(t) \/ OutOfTries(t))
  /\ End(t)
  /\ bootApplied' = (bootApplied \/ t = "startup")
  /\ UNCHANGED <<disk, fw, saves, up, stuck, watch, faults, lossy>>

-----------------------------------------------------------------------------
(***************************************************************************)
(* The poll of the robot's state and the restart of the server.  The polls *)
(* take their turn in the queue and write nothing, so a round of attempts  *)
(* is one step: it is answered unless the writer is blocked, and may be    *)
(* what blocks it.                                                         *)
(***************************************************************************)
PollAnswered ==
  /\ up /\ ~stuck
  /\ open' = TRUE /\ failures' = 0
  /\ UNCHANGED <<disk, fw, saves, up, bootApplied, uart, tasks, recent, faults, history,
                 lossy>>

PollLost ==
  /\ up /\ ~stuck /\ TRUE \in LossBlocks
  /\ Fault("lost")
  /\ stuck' = TRUE /\ queue' = <<>> /\ open' = TRUE
  /\ UNCHANGED <<disk, fw, saves, up, bootApplied, tasks, watch, history>>

(* The process ends: its tasks, its queue and its flags go with it, the    *)
(* files and the time stamp of the restart stay.                           *)
ProcessEnds ==
  /\ up' = FALSE /\ open' = FALSE /\ bootApplied' = FALSE
  /\ queue' = <<>> /\ stuck' = FALSE /\ ready' = <<>>
  /\ step' = [t \in Tasks |-> "idle"]
  /\ asked' = [t \in Tasks |-> NoRequest] /\ reply' = [t \in Tasks |-> "none"]
  /\ tries' = [t \in Tasks |-> 0] /\ held' = [t \in Tasks |-> 0]
  /\ failures' = 0
  /\ doubt' = doubt \cup UNION {LeftOpen(asked[t]) : t \in Tasks}
  /\ unsure' = [t \in Tasks |-> {}]
  /\ UNCHANGED <<disk, fw, saves>>

(* Fault: the count of failures starts again with each recovery. *)
PollForgets ==
  /\ up /\ stuck
  /\ failures' = (failures + 1) % PollLimit
  /\ UNCHANGED <<disk, fw, saves, process, uart, tasks, recent, faults, history, lossy>>

(* After too many failures in a row the state is UNKNOWN; a recovery is    *)
(* tried, whose requests are not answered either.                          *)
PollFails ==
  /\ up /\ stuck
  /\ failures' = IF failures < PollLimit THEN failures + 1 ELSE failures
  /\ UNCHANGED <<disk, fw, saves, process, uart, tasks, recent, faults, history, lossy>>

(* When it has been UNKNOWN for 5 s the server ends itself, at most every  *)
(* 90 s: the time stamp of the last time is in a file.                     *)
HardRestart ==
  /\ up /\ failures = PollLimit
  /\ ~recent /\ recent' = TRUE
  /\ ProcessEnds
  /\ UNCHANGED <<faults, lossy>>

Crash ==
  /\ up /\ Fault("crash")
  /\ ProcessEnds
  /\ UNCHANGED recent

(* systemd starts it again: main().                                        *)
Start ==
  /\ ~up /\ up' = TRUE
  /\ step' = [step EXCEPT !["startup"] = "timer"]
  /\ UNCHANGED <<disk, fw, saves, open, bootApplied, uart, ready, asked, reply, tries,
                 held, watch, faults, history, lossy>>

RestartAges ==
  /\ recent /\ recent' = FALSE
  /\ UNCHANGED <<disk, fw, saves, process, uart, tasks, failures, faults,
                 history, lossy>>

-----------------------------------------------------------------------------
Resume(t) == OffsetsApplied(t) \/ OffsetsSent(t) \/ TuningSent(t) \/ LimitsSent(t) \/ TaskEnds(t)
Polling == PollAnswered \/ PollLost \/ PollFails \/ HardRestart \/ RestartAges

Next ==
  \/ \E p \in Pages : SaveSettings(p) \/ ApplyOffsets(p) \/ SavePwm(p) \/ ApplyVr(p)
  \/ \E h \in Threads : PostReads(h) \/ PostWrites(h)
  \/ \E t \in Tasks : Retry(t) \/ GiveUp(t) \/ Resume(t)
  \/ BootSync \/ StartupSync \/ Polling
  \/ Serve \/ ServeLost \/ FirmwareResets
  \/ Crash \/ Start

Spec == Init /\ [][Next]_vars

(* The loop runs what is ready, pauses and time limits end, the robot is   *)
(* polled, the writer serves its queue unless it is blocked, systemd       *)
(* restarts the server, the HTTPS server answers.                          *)
Goes(t) == Retry(t) \/ Resume(t)
Fairness ==
  /\ \A p \in Pages : WF_vars(Goes(p))
  /\ \A h \in Threads : WF_vars(PostWrites(h))
  /\ WF_vars(Goes("boot") \/ BootSync) /\ WF_vars(Goes("startup") \/ StartupSync)
  /\ WF_vars(PollAnswered \/ PollFails \/ HardRestart \/ RestartAges)
  /\ WF_vars(Serve \/ Start)

FairSpec == Spec /\ Fairness

-----------------------------------------------------------------------------
(* When nothing is under way, the firmware and the file agree on a setting *)
(* that was sent last without a loss, however the applications of several  *)
(* pages, the start of the server and a BOOT_READY were interleaved: what  *)
(* is left in doubt is what was saved without being sent, lost, or sent    *)
(* from the file while apply_offsets was on its way.                       *)
AtRest == queue = <<>> /\ ~stuck /\ \A t \in Tasks : step[t] = "idle"
AgreesAtRest == AtRest => \A k \in Keys : k \in doubt \/ fw[k] = file[k]

(* Nobody brings an older version of a setting back by saving another one: *)
(* neither apply_offsets, which waits between two accesses to the file,    *)
(* nor a POST, unless another POST wrote between its two accesses.         *)
NothingReverts ==
  [][\A k \in Settings \ {"offsets"} :
       \/ file'[k] >= file[k]
       \/ \E h \in Threads : PostWrites(h) /\ ~post[h].alone]_vars

(* A firmware that has restarted does not stay on its factory values,      *)
(* whether the server ran, was starting or crashed then.                   *)
FactoryNeverStays == (\E k \in Keys : fw[k] = 0) ~> (lossy \/ \A k \in Keys : fw[k] # 0)

(* A UART writer that waits for a reply that will not come does not last:  *)
(* the poll has the server restarted.                                      *)
LinkComesBack == stuck ~> ~stuck

-----------------------------------------------------------------------------
(***************************************************************************)
(* Why AgreesAtRest and NothingReverts hold: their inductive invariant.    *)
(***************************************************************************)

(* A task has asked for what its step says, once, and is resumed once for  *)
(* each reply; a server that does not run has no tasks.                    *)
KeyOf == [offsets |-> "offsets", pose |-> "other", tuning |-> "tuning",
          limits |-> "limits", pwm |-> "pwm"]

TaskInv ==
  \A t \in Tasks :
    \/ /\ step[t] \in DOMAIN Attempts /\ reply[t] # "none"
       /\ asked[t] \in Request
       /\ asked[t].by = t /\ asked[t].key = KeyOf[step[t]]
       /\ tries[t] < Attempts[step[t]]
    \/ /\ step[t] \notin DOMAIN Attempts /\ reply[t] = "none"
       /\ asked[t] = NoRequest /\ tries[t] = 0

DownInv == ~up => \A t \in Tasks : step[t] = "idle"

QueueInv ==
  /\ stuck => queue = <<>>
  /\ \A i \in DOMAIN queue : queue[i].by # "gone" =>
       reply[queue[i].by] = "pending" /\ asked[queue[i].by] = queue[i]
  /\ \A i, j \in DOMAIN queue : queue[i].by = queue[j].by => i = j \/ queue[i].by = "gone"

ReadyInv ==
  /\ \A i \in DOMAIN ready :
       reply[ready[i]] = "OK" \/ (ready[i] = "boot" /\ step["boot"] = "booted")
  /\ \A i, j \in DOMAIN ready : ready[i] = ready[j] => i = j

(* The loop and the UART serve in the same order, so of all the tasks that *)
(* will write a setting the last one in that order decides.  It asks for   *)
(* what the file holds ...                                                 *)
LastIn(s, S) ==
  {s[i] : i \in {i \in DOMAIN s : s[i] \in S /\ \A j \in DOMAIN s : s[j] \in S => j <= i}}
NoneIn(s, S) == \A i \in DOMAIN s : s[i] \notin S

For(k) == {r \in Request : r.key = k}
At(s) == {t \in Tasks : step[t] = s}

PlainAgrees(k) ==
  /\ \A r \in LastIn(queue, For(k)) : r.val = file[k]
  /\ NoneIn(queue, For(k)) => fw[k] = file[k]

(* ... or will hold once apply_offsets goes on ...                         *)
Applying == Pages \cap At("offsets")
OffsetsAgree ==
  /\ \A r \in LastIn(queue, For("offsets")) :
       r.by \in Pages \/ (~Overtaken /\ r.val = file["offsets"])
  /\ NoneIn(queue, For("offsets")) =>
       /\ \A p \in LastIn(ready, Applying) : asked[p].val = fw["offsets"]
       /\ NoneIn(ready, Applying) => fw["offsets"] = file["offsets"]

(* ... and the limits follow the parameters, with what was read then.      *)
Tuning == {r \in For("tuning") : r.by # "gone"}
LimitsAgree ==
  /\ \A r \in LastIn(queue, Tuning) : held[r.by] = file["limits"]
  /\ NoneIn(queue, Tuning) =>
       /\ \A t \in LastIn(ready, At("tuning")) : held[t] = file["limits"]
       /\ NoneIn(ready, At("tuning")) => PlainAgrees("limits")

Agrees(k) == /\ k \in {"tuning", "pwm"} => PlainAgrees(k)
             /\ k = "offsets" => OffsetsAgree
             /\ k = "limits" => LimitsAgree

(* It is so unless the setting is in doubt and no task that will write it  *)
(* settles it, or the UART is blocked and a task waits to write it.        *)
Writes(t, k) == \/ reply[t] = "pending" /\ asked[t].key = k
                \/ reply[t] \in {"pending", "OK"} /\ k = "limits" /\ step[t] = "tuning"
Unsettled(k) == k \in doubt /\ \A t \in Tasks : Writes(t, k) => k \in unsure[t]
Waits(k) == \E t \in Tasks : reply[t] = "pending" /\ k \in LeftOpen(asked[t])

Follows(k) == \/ Unsettled(k) \/ Agrees(k)
              \/ stuck /\ (k \in doubt \/ Waits(k))
AgreeInv == \A k \in Keys : Follows(k)

(* A task that failed and may repeat its request leaves it unsettled, and  *)
(* a request whose caller is gone is settled only by one behind it.        *)
Repeats(t) == Failed(t) \/ tries[t] > 0
RepeatInv ==
  \A t \in Tasks : Repeats(t) =>
    \A k \in LeftOpen(asked[t]) : Unsettled(k) /\ k \in unsure[t]

GoneInv ==
  \A i \in DOMAIN queue : queue[i].by = "gone" /\ queue[i].key \in Keys =>
    /\ queue[i].key \in doubt
    /\ \A j \in 1 .. i : queue[j].by # "gone" /\ queue[j].key = queue[i].key
                           => queue[j].key \in unsure[queue[j].by]

(* The version of a change is the largest, and nothing of the routing file *)
(* changes between the two accesses of a POST that is alone.               *)
FileInv ==
  /\ \A k \in Settings \ {"offsets"} : file[k] <= version
  /\ \A h \in Threads : post[h] # Idle =>
       /\ post[h].val <= version
       /\ \A k \in Routing :
            /\ post[h].seen[k] <= version
            /\ post[h].alone => post[h].seen[k] = file[k] /\ file[k] <= post[h].val

IInv == /\ TypeOK /\ TaskInv /\ DownInv /\ QueueInv /\ ReadyInv
        /\ AgreeInv /\ RepeatInv /\ GoneInv /\ FileInv
=============================================================================
