SPECIFICATION Spec
CONSTANTS
    StopPoints = {s1, s2}
    Procs = {p1, p2}
    Return = Return
    None = None
INVARIANTS
    GdbAgrees
    OriginalComesBack
PROPERTIES
    DisabledStaysQuiet
