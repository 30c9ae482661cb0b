--------------------------- MODULE MCEstopNotify ---------------------------
(* Small instances of EstopNotify for TLC; the .cfg files choose the sizes. *)
EXTENDS EstopNotify
=============================================================================
