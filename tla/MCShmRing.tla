----------------------------- MODULE MCShmRing -----------------------------
(* Instances of ShmRing for TLC. *)
EXTENDS ShmRing

CONSTANTS a, b

\* An empty message, two that fit and one that does not.
SmallMsgs == {[len |-> 0, val |-> NoVal], [len |-> 1, val |-> a], [len |-> 1, val |-> b],
              [len |-> 2, val |-> a]}
=============================================================================
