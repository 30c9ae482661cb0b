----------------------------- MODULE TorqueGate -----------------------------
(***************************************************************************)
(* What the firmware promises about torque, whatever the pipeline behind:  *)
(* a servo that is off is energised only in IDLE, by a step that stays in  *)
(* IDLE, and only with a cause: a trajectory under way, both grips held in *)
(* a mode that actuates, or the consent to the joint stream.  SafetyCore   *)
(* and VrPipeline both implement this.                                     *)
(***************************************************************************)
CONSTANTS Causes    (* what may energise a servo                           *)

VARIABLES
  fsm,      (* the state of the safety state machine                       *)
  cause,    (* the causes present                                          *)
  torque    (* some servo is energised                                     *)

Init ==
  /\ fsm = "SAFE"
  /\ cause = {}
  /\ torque = FALSE

Energise ==
  /\ fsm = "IDLE" /\ fsm' = "IDLE"
  /\ cause \cap Causes # {}
  /\ torque' = TRUE

(* Commands, frames, the emergency stop, the watchdog: they change states  *)
(* and causes, and may take torque away.                                   *)
KeepOrCut == torque' \in {torque, FALSE}

Next == Energise \/ KeepOrCut

Spec == Init /\ [][Next]_<<fsm, cause, torque>>
=============================================================================
