SPECIFICATION FairSpec
CONSTANT MaxUnread = 2
INVARIANTS
    Conservation
PROPERTIES
    ImplementsIODriver
    StopReturns
    OutputFlows
\* After close() the driver is gone; a dead worker leaves stop() waiting.
CHECK_DEADLOCK FALSE
