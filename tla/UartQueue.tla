----------------------------- MODULE UartQueue -----------------------------
(***************************************************************************)
(* What send_uart_command promises its callers, whatever the threads, the  *)
(* line and the firmware do behind it: the calls are served one at a time, *)
(* in the order they were made; a call that is served while its caller     *)
(* still waits is told its own reply, or a failure and no reply; a caller  *)
(* is told once, and one that has given up keeps its turn but is told      *)
(* nothing more.  UartManager implements this.                             *)
(***************************************************************************)
EXTENDS Sequences

CONSTANTS
  Calls,    (* calls of send_uart_command                                  *)
  NoCall    (* no call                                                     *)

VARIABLES
  waiting,  (* the calls not yet served, the one being served at the head  *)
  told,     (* told[c]: "new", "pending", or what the caller was told      *)
  got       (* got[c]: the call whose reply c was given                    *)

Init ==
  /\ waiting = <<>>
  /\ told = [c \in Calls |-> "new"]
  /\ got = [c \in Calls |-> NoCall]

Ask(c) ==
  /\ told[c] = "new"
  /\ told' = [told EXCEPT ![c] = "pending"]
  /\ waiting' = Append(waiting, c)
  /\ UNCHANGED got

GiveUp(c) ==
  /\ told[c] = "pending"
  /\ told' = [told EXCEPT ![c] = "caller timeout"]
  /\ UNCHANGED <<waiting, got>>

Tell(c, result, of) ==
  /\ told' = [told EXCEPT ![c] = result]
  /\ got' = [got EXCEPT ![c] = of]

Serve(c) ==
  /\ waiting # <<>> /\ c = Head(waiting)
  /\ waiting' = Tail(waiting)
  /\ \/ /\ told[c] = "pending"
        /\ \/ Tell(c, "reply", c)
           \/ \E failure \in {"writer timeout", "error"} : Tell(c, failure, NoCall)
     \/ told[c] # "pending" /\ UNCHANGED <<told, got>>

Next == \E c \in Calls : Ask(c) \/ GiveUp(c) \/ Serve(c)

Spec == Init /\ [][Next]_<<waiting, told, got>>
=============================================================================
