---------------------------- MODULE MCSelfTest ----------------------------
(* A small instance of SelfTest for TLC. *)
EXTENDS SelfTest
=============================================================================
