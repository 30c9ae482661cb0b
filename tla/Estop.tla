------------------------------- MODULE Estop -------------------------------
(***************************************************************************)
(* The emergency-stop input of the STM32G474 firmware (core/estop.c): the  *)
(* mushroom button on PC6, read once per 1 kHz tick and debounced over     *)
(* DebounceSamples consecutive samples.  This module is the part that      *)
(* SafetyCore and EstopNotify share; each adds what a debounced edge does. *)
(***************************************************************************)
EXTENDS Naturals

CONSTANTS DebounceSamples,  (* ESTOP_DEBOUNCE_SAMPLES, 10 in the firmware  *)
          Lines             (* values the GPIO line may take in a model    *)

ASSUME EstopAssumption ==
       /\ DebounceSamples \in Nat \ {0}
       /\ Lines \subseteq BOOLEAN
       /\ Lines # {}

VARIABLES
  line,     (* raw_active: button pressed, wire cut or read error          *)
  estopOk,  (* estop_initialized                                           *)
  deb,      (* estop_debounced_state                                       *)
  cnt       (* estop_debounce_counter                                      *)

estopVars == <<line, estopOk, deb, cnt>>

EstopTypeOK ==
  /\ line \in BOOLEAN
  /\ estopOk \in BOOLEAN
  /\ deb \in BOOLEAN
  /\ cnt \in 0 .. DebounceSamples - 1

(* estop_init: the debounce starts from the level read at boot; a failed   *)
(* initialisation forces the debounced state to active for ever.           *)
EstopInit ==
  /\ line \in Lines
  /\ estopOk \in BOOLEAN
  /\ deb = (~estopOk \/ line)
  /\ cnt = 0

(* The contact, the wire or the GPIO driver changes between two samples.   *)
LineChanges ==
  /\ line' \in Lines \ {line}
  /\ UNCHANGED <<estopOk, deb, cnt>>

(* This sample completes a debounce window: deb takes the line's value.    *)
Edge == estopOk /\ line # deb /\ cnt + 1 >= DebounceSamples

(* The sampling half of estop_poll_tick.                                   *)
SampleLine ==
  /\ deb' = IF Edge THEN line ELSE deb
  /\ cnt' = IF estopOk /\ line # deb /\ ~Edge THEN cnt + 1
            ELSE IF estopOk THEN 0 ELSE cnt
  /\ UNCHANGED <<line, estopOk>>

=============================================================================
