\* Without a TTL a queue at the mark is never sent.
CONSTANTS
    Senders = {s1}
    Worker = w
    Closers = {c1}
    Sizes <- SmallSizes
    UnderlyingMax = 3
    Policies <- AllPolicies
    Hwm = 2
    Ttls = {0}
    MaxMsgs = 2
    MaxTime = 1
SPECIFICATION FairSpec
CHECK_DEADLOCK FALSE
PROPERTY QueueDrains
