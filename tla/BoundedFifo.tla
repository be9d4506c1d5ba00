---------------------------- MODULE BoundedFifo ----------------------------
(***************************************************************************)
(* What one direction of a pipe promises: a queue of at most Capacity      *)
(* messages, each delivered once, whole, and in the order of the sends;    *)
(* and delivered at all, as long as both ends are up.                      *)
(***************************************************************************)
EXTENDS Naturals, Sequences

CONSTANTS Msgs, Capacity, NoMsg

VARIABLES chan,   \* messages sent and not yet received
          out,    \* the message received last
          up      \* neither end has closed or crashed

vars == <<chan, out, up>>

Init == chan = <<>> /\ out = NoMsg /\ up = TRUE

Send == \E m \in Msgs : /\ Len(chan) < Capacity
                        /\ chan' = Append(chan, m)
                        /\ UNCHANGED <<out, up>>

Recv == /\ chan # <<>>
        /\ out' = Head(chan)
        /\ chan' = Tail(chan)
        /\ UNCHANGED up

Down == up' = FALSE /\ UNCHANGED <<chan, out>>

Next == Send \/ Recv \/ Down

\* The receiver is assumed to keep receiving.
Spec == Init /\ [][Next]_vars /\ WF_vars(up /\ Recv)
=============================================================================
