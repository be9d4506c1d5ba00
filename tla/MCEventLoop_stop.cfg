\* One quiet pipe, in the background.
CONSTANTS
    Pipes = {p}
    Honours = {p}
    Chatty = {}
    Consumers = {t1}
    Modes = {"background"}
    MaxMsgs = 1
    None = None
SPECIFICATION FairSpec
CHECK_DEADLOCK FALSE
PROPERTY StopReturns
