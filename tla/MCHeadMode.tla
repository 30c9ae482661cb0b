----------------------------- MODULE MCHeadMode -----------------------------
(* Model checking of HeadMode. *)
EXTENDS HeadMode
=============================================================================
