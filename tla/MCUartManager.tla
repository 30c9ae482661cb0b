--------------------------- MODULE MCUartManager ---------------------------
(* Small instances of UartManager for TLC; the .cfg files choose the sizes. *)
EXTENDS UartManager
=============================================================================
