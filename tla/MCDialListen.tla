---------------------------- MODULE MCDialListen ----------------------------
(* Instance of DialListen for TLC. *)
EXTENDS DialListen

\* Every scheme, none and an unknown one, with what fits and what does not.
SmallAddresses ==
    [prefix : {"", "tcp", "uds", "shm", "pipe", "other"}, rest : {"", "name", "host:port", "host:letters"}]
=============================================================================
