\* Three callers that may vanish, resets, and requests that keep coming.
CONSTANTS
    c1 = c1 c2 = c2 c3 = c3
    Callers = {c1, c2, c3}
    WindowLen = 1
    MaxFailures = 1
    OpenFor = 1
    MaxProbes = 2
    MinRequests = 1
    Losses = TRUE
    Resets = TRUE
    MaxEvents = 3
SPECIFICATION FairSpec
INVARIANTS TypeOK ProbesBounded FailureBurstBounded
PROPERTIES HalfOpenEnds OpenIsProbed
