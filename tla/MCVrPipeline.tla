--------------------------- MODULE MCVrPipeline ---------------------------
(* Small instances of VrPipeline for TLC; the .cfg files choose the sizes. *)
EXTENDS VrPipeline
=============================================================================
