SPECIFICATION Spec
CONSTANTS
    Threads = {t1}
    HeapEnd = 4
    Sizes = {2}
    MaxCalls = 3
    MaxTrackers = 1
    HandlersMayRaise = FALSE
PROPERTY
    IgnoredLeavesNothing
CHECK_DEADLOCK FALSE
