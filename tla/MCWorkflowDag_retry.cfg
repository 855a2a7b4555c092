SPECIFICATION FairSpec
CONSTANTS
    Nodes = {n1, n2}
    Retries <- TwoAndMost
    MaxU32 = 3
    PowBits = 1
    Panics = TRUE
    Interrupts = FALSE
    None = None
INVARIANT
    EveryAttemptUsed
PROPERTY
    RunEnds
