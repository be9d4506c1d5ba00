\* Two listeners on one address, one after the other or at once, and a client; or
\* a listener and two clients whose ids may collide.  One of each may crash.
CONSTANTS
    Listeners = {l1, l2}
    Clients = {c1, c2}
    ConnIds = {i1, i2}
    NumSems = 2
    Backlog = 1
    None = None
    Addresses <- SmallAddresses
    Platforms = {"linux", "macos", "windows"}
    MayCrash = {l1, c1}
    Casts = {{l1, l2, c1}, {l1, c1, c2}}
SPECIFICATION FairSpec
\* Everyone may have finished.
CHECK_DEADLOCK FALSE
INVARIANTS NoLeak OneOwner ReachableAlone
PROPERTIES PickedUp StopEnds
