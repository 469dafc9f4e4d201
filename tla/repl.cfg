SPECIFICATION ReplSpec
CONSTANTS
    MaxEvents = 1
    MaxSigInts = 2
    HandlersMayRaise = TRUE
    MaxControllers = 2
INVARIANTS
    ScopesBalanced
    IoOnlyInRunLoop
    DriverContract
    PwndbgIsTold
    ControllersRunAtOnce
\* An exception the main loop does not survive ends the program.
CHECK_DEADLOCK FALSE
