\* One sender, one receiver, a full wrap of the counters, close and crash.
CONSTANTS
    Producers = {p1}
    Consumers = {c1}
    a = a
    b = b
    NoMsg = NoMsg
    NoVal = NoVal
    Msgs <- SmallMsgs
    kSlotPayloadMax = 1
    kSlotCount = 2
    CounterMod = 4
    MayClose = {"tx", "rx"}
    MayCrash = {"tx", "rx"}
SPECIFICATION FairSpec
\* Both processes may have crashed.
CHECK_DEADLOCK FALSE
INVARIANT SlotConservation
PROPERTIES RefinesFifo SendReturns
