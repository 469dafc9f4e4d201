SPECIFICATION Spec
CONSTANTS
    Threads = {t1, t2}
    HeapEnd = 7
    Sizes = {2, 3}
    MaxCalls = 4
    MaxTrackers = 1
    HandlersMayRaise = TRUE
SYMMETRY Symmetry
INVARIANTS
    FlagsMatchCalls
    OwnedIsUnwatched
    FreedIsWatched
\* A bounded session ends.
CHECK_DEADLOCK FALSE
