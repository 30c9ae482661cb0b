-------------------------- MODULE MCServerConfig --------------------------
(* A small instance of ServerConfig for TLC. *)
EXTENDS ServerConfig
=============================================================================
