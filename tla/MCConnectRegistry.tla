------------------------- MODULE MCConnectRegistry --------------------------
(* Instances of the registry of Connect sockets for TLC. *)
EXTENDS ConnectRegistry
=============================================================================
