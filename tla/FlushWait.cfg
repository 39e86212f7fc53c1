CONSTANTS
    Waiters = {w1, w2}
    MaxOps = 2
    MaxClears = 1
SPECIFICATION FairWaitSpec
CHECK_DEADLOCK FALSE
INVARIANT WaitTypeOK
PROPERTIES  AwaitedFlushWakes
