SPECIFICATION Spec
CONSTANTS
    Faults = {"init", "thread", "slow", "send", "crash", "epoll", "ni"}
    MaxQueue = 2
INVARIANT ThreadGoneBeforeClose
INVARIANT NoThreadOutlivesCleanup
CHECK_DEADLOCK FALSE
