----------------------------- MODULE MCSpiLink -----------------------------
(* Small instances of SpiLink for TLC; the .cfg files choose the sizes. *)
EXTENDS SpiLink

(* With three frames: sequence numbers that wrap (from 3), and, where they *)
(* are tracked, a restart of the Pi that steps back by half the range      *)
(* (from 1).                                                               *)
MCFirstSeqs == [v \in {1, 2} |-> IF v = 1 THEN {3} ELSE {1, 3}]
=============================================================================
