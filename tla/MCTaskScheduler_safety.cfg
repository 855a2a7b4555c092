\* Two jobs of different priority, two workers, two callers that may submit the
\* same id, no waiter, one retry, every fault, and a default timeout of 0, that is none.
CONSTANTS
    j1 = j1 j2 = j2 w1 = w1 w2 = w2 c1 = c1 c2 = c2 x1 = x1 x2 = x2
    Jobs = {j1, j2}
    Workers = {w1, w2}
    Clients = {c1, c2}
    Waiters = {}
    Priority <- Urgency
    JobTimeout <- Timeouts
    DefaultTimeoutSecs = 0
    MaxRetries = 1
    MaxQueueLen = 1
    Faults <- AllFaults
    None = None
    Unset = Unset
SPECIFICATION Spec
SYMMETRY Symmetric
INVARIANTS TypeOK ExclusiveOwnership StatusResultAgree RunningIsOwned CountsAddUp
    OneAttemptAfterCancel
PROPERTIES ResultIsFinal HandoffSpec
