---------------------------- MODULE MCStreamPipe ----------------------------
(* Instances of StreamPipe for TLC. *)
EXTENDS StreamPipe
=============================================================================
