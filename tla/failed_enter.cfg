SPECIFICATION Spec
CONSTANTS
    MaxEvents = 2
    MaxSigInts = 0
    HandlersMayRaise = FALSE
INVARIANTS
    FailureIsUndone
\* An exception the main loop does not survive ends the program.
CHECK_DEADLOCK FALSE
