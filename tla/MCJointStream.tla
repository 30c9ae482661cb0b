--------------------------- MODULE MCJointStream ---------------------------
(* Model checking of JointStream. *)
EXTENDS JointStream
=============================================================================
