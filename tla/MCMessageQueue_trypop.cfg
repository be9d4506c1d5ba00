\* kBlock, TTL, consumers that only try_pop().
CONSTANTS
    Pushers = {p1}
    Poppers = {c1}
    ConsumerOps <- TryPopOnly
    Sizes <- TwoSizes
    MaxSize = 2
    Policies <- BlockOnly
    Hwm = 2
    Ttl = 1
    MaxMsgs = 3
    MaxTime = 4
SPECIFICATION FairSpec
CHECK_DEADLOCK FALSE
PROPERTY BlockedPushReturns
