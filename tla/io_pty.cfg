SPECIFICATION FairSpec
CONSTANT MaxData = 2
INVARIANTS
    TerminalIsRestored
PROPERTIES
    ImplementsIODriver
    StopReturns
    OutputFlows
\* After close() the driver is gone.
CHECK_DEADLOCK FALSE
