\* A reclaimed agent is returned by its holder.
CONSTANTS
    a1 = a1 a2 = a2 a3 = a3 c1 = c1 c2 = c2 c3 = c3
    Agents = {a1, a2, a3}
    Callers = {c1, c2, c3}
    Names = {}
    Default = "default"
    AnyName = AnyName
    MaxTotal = 2
    MinIdle = 0
    Width = 32
    MaxReclaims = 2
    MaxCleaners = 1
    Failures = FALSE
    Drops = FALSE
    Unusable = TRUE
    None = None
SPECIFICATION Spec
INVARIANT TotalNeverWraps
