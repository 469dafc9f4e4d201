SPECIFICATION FairSpec
CONSTANTS
    MaxDepth = 2
    MaxQueue = 2
    HandlersMayRaise = TRUE
INVARIANTS
    StartBeforeStop
    NoStopWithoutProcess
    NothingForgotten
    DeadlockIsRealUnlessRaised
    ContextIsFresh
    SuspensionHolds
PROPERTIES
    QueueDrains
\* pwndbg may end GDB.
CHECK_DEADLOCK FALSE
