SPECIFICATION Spec
CONSTANTS
    MaxDepth = 2
    MaxQueue = 2
    HandlersMayRaise = TRUE
INVARIANTS
    DeadlockIsReal
\* pwndbg may end GDB.
CHECK_DEADLOCK FALSE
