---------------------------- MODULE MCSafetyCore ----------------------------
(* Small instances of SafetyCore for TLC; the .cfg files choose the sizes. *)
EXTENDS SafetyCore
=============================================================================
