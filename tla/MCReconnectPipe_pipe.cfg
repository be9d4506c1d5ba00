\* Two users, two closers, one lost connection after another, bounded attempts.
CONSTANTS
    Users = {u1, u2}
    Worker = w
    Closers = {c1, c2}
    MaxAttempts = 1
    MaxConns = 2
SPECIFICATION FairSpec
\* Every thread may be done.
CHECK_DEADLOCK FALSE
INVARIANTS NoLeakedConnection NoLostWakeup
PROPERTIES StaleErrorHarmless CloseJoins WaitersReleased Reconnects
