------------------------------ MODULE MCQosPipe ------------------------------
(* QosPipe with small sets of threads, sizes and policies. *)
EXTENDS QosPipe

AllPolicies == {"kBlock", "kDropNew", "kDropOld", "kFailFast"}
SmallSizes == {1, 2, 3}
TwoSizes == {1, 2}
=============================================================================
