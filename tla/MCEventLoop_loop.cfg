\* A pipe that keeps recv()'s timeout and one that does not, two consumers.
CONSTANTS
    Pipes = {p, q}
    Honours = {p}
    Chatty = {p, q}
    Consumers = {t1, t2}
    Modes = {"foreground", "background"}
    MaxMsgs = 2
    None = None
SPECIFICATION FairSpec
\* All may have stopped; in the background stop() and the loop block each other.
CHECK_DEADLOCK FALSE
INVARIANTS OnceInOrder NoStranded
PROPERTIES Polled StopEndsRun
