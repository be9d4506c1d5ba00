\* kBlock, TTL, consumers that pop() and purge_expired(): blocked pushes return.
CONSTANTS
    Pushers = {p1, p2}
    Poppers = {c1}
    ConsumerOps <- PopAndPurge
    Sizes <- TwoSizes
    MaxSize = 2
    Policies <- BlockOnly
    Hwm = 2
    Ttl = 1
    MaxMsgs = 3
    MaxTime = 3
SPECIFICATION FairSpec
CHECK_DEADLOCK FALSE
INVARIANT NoStrandedPusher
PROPERTY BlockedPushReturns
