------------------------------ MODULE CondVar ------------------------------
(***************************************************************************)
(* std::condition_variable, as the code of this repository uses it: the    *)
(* threads of S, with states st, wait while they are in state "wait" and   *)
(* contend for the mutex again once they are "woken".                      *)
(***************************************************************************)
EXTENDS Naturals, FiniteSets

Waiting(st, S) == {t \in S : st[t] = "wait"}

Wake(st, S, W) == [t \in S |-> IF t \in W THEN "woken" ELSE st[t]]

\* notify_one() called n times: up to n waiters, whichever the system picks.
NotifyN(st, S, n) ==
    {Wake(st, S, W) : W \in {X \in SUBSET Waiting(st, S) :
                                \/ Cardinality(X) = n
                                \/ Cardinality(X) < n /\ X = Waiting(st, S)}}

NotifyAll(st, S) == Wake(st, S, Waiting(st, S))
=============================================================================
