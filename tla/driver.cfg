SPECIFICATION FairSpec
CONSTANTS
    MaxEvents = 2
    MaxSigInts = 2
    HandlersMayRaise = FALSE
INVARIANTS
    PromptIsClean
    ThreadsThawed
    PendingIsScoped
PROPERTIES
    EventOrder
    CallsReturn
    InterruptWorks
\* An exception the main loop does not survive ends the program.
CHECK_DEADLOCK FALSE
