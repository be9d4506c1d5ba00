\* Every policy, with and without TTL: accounting, the mark, order, wakeups, close.
CONSTANTS
    Senders = {s1, s2}
    Worker = w
    Closers = {c1}
    Sizes <- SmallSizes
    UnderlyingMax = 2
    Policies <- AllPolicies
    Hwm = 2
    Ttls = {0, 1}
    MaxMsgs = 2
    MaxTime = 1
SPECIFICATION WorkerFairSpec
CHECK_DEADLOCK FALSE
INVARIANTS QueueAccounting HwmBound NoUseAfterClose InOrder WorkerAwake
PROPERTIES CloseCompletes DrainsOtherwise
