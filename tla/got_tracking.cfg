SPECIFICATION Spec
CONSTANTS
    SlotCount = 3
    Threads = {t1}
    Bases = {b1, b2}
    BlockCapacity = 2
    MaxEnables = 2
INVARIANTS
    RouteIsRight
    NobodyLost
    TrapsAreUsable
