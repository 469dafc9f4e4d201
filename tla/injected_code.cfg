SPECIFICATION FairSpec
CONSTANTS
    Threads = {t1, t2}
    PageEnd = 1
    MappedEnd = 4
    BlobLen = 2
    UserBps = {2}
    MaxCalls = 2
    MaxSignals = 1
INVARIANTS
    ProgramIsBack
    OthersUntouched
    ResultIsOurs
    NothingStale
PROPERTIES
    CommandReturns
\* A bounded session ends.
CHECK_DEADLOCK FALSE
