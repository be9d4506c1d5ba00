\* Empty, short, longest and oversized payloads, a buffer smaller than two frames.
CONSTANTS
    Transports = {"tcp", "uds", "pipe"}
    Lengths = {0, 1, 2, 3}
    kMaxFramePayload = 2
    WireCapacity = 4
    MaxMsgs = 3
SPECIFICATION FairSpec
\* Both processes may have gone.
CHECK_DEADLOCK FALSE
INVARIANT ClosedIsComplete
PROPERTIES RefinesFifo CallsEnd
