--------------------------- MODULE MCMessageQueue ---------------------------
(* MessageQueue with small sets of threads, sizes and policies. *)
EXTENDS MessageQueue, TLC

AllPolicies == {"kBlock", "kDropNew", "kDropOld", "kFailFast"}
BlockOnly == {"kBlock"}
SmallSizes == {0, 1, 3}
TwoSizes == {1, 2}
AllOps == {"pop", "try_pop", "purge_expired"}
PopAndPurge == {"pop", "purge_expired"}
TryPopOnly == {"try_pop"}

ThreadSymmetry == Permutations(Pushers) \cup Permutations(Poppers)
=============================================================================
