----------------------------- MODULE MCSetPose -----------------------------
(* Small instances of SetPose for TLC; the .cfg files choose the sizes. *)
EXTENDS SetPose
=============================================================================
