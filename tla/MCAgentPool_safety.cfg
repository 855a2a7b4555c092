\* Three callers, a factory that may fail, and borrows that outlive their limit.
CONSTANTS
    a1 = a1 a2 = a2 a3 = a3 c1 = c1 c2 = c2 c3 = c3
    Agents = {a1, a2, a3}
    Callers = {c1, c2, c3}
    Names = {"coder"}
    Default = "default"
    AnyName = AnyName
    MaxTotal = 2
    MinIdle = 1
    Width = 32
    MaxReclaims = 1
    MaxCleaners = 1
    Failures = TRUE
    Drops = TRUE
    Unusable = TRUE
    None = None
SPECIFICATION Spec
SYMMETRY Symmetric
INVARIANTS TypeOK BorrowedIsHeld IdleBounded TotalCounts OvershootBounded
