\* Waiters, and the liveness of jobs and of waits; the only fault is a wait that
\* is given up. No symmetry.
CONSTANTS
    j1 = j1 j2 = j2 w1 = w1 w2 = w2 c1 = c1 c2 = c2 x1 = x1 x2 = x2
    Jobs = {j1, j2}
    Workers = {w1}
    Clients = {c1}
    Waiters = {x1}
    Priority <- Urgency
    JobTimeout <- Timeouts
    DefaultTimeoutSecs = 300
    MaxRetries = 1
    MaxQueueLen = 1
    Faults <- TimedWaits
    None = None
    Unset = Unset
SPECIFICATION FairSpec
INVARIANT NoLostWakeup
PROPERTIES EveryJobSettles WaitEnds
