--------------------------- MODULE MCReconnectPipe ---------------------------
(* Instances of ReconnectPipe for TLC. *)
EXTENDS ReconnectPipe
=============================================================================
