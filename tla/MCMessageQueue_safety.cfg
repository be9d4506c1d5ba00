\* Every policy and every operation: accounting, bounds, order.
CONSTANTS
    Pushers = {p1, p2}
    Poppers = {c1, c2}
    ConsumerOps <- AllOps
    Sizes <- SmallSizes
    MaxSize = 3
    Policies <- AllPolicies
    Hwm = 2
    Ttl = 1
    MaxMsgs = 3
    MaxTime = 3
SPECIFICATION Spec
SYMMETRY ThreadSymmetry
CHECK_DEADLOCK FALSE
INVARIANTS
    StreamAccounting
    HwmRespected
    DeadlinesSorted
    ClosedWakesAll
    FifoNoLoss
    NoStrandedPopper
