\* Two senders that block: one of them takes the worker's notification.
CONSTANTS
    Senders = {s1, s2}
    Worker = w
    Closers = {c1}
    Sizes <- TwoSizes
    UnderlyingMax = 3
    Policies = {"kBlock"}
    Hwm = 2
    Ttls = {1}
    MaxMsgs = 1
    MaxTime = 1
SPECIFICATION FairSpec
CHECK_DEADLOCK FALSE
PROPERTY QueueDrains
