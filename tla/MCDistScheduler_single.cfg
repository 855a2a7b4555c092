\* A cluster of the local node alone.
CONSTANTS
    n1 = n1 n2 = n2 t1 = t1 t2 = t2
    Nodes = {n1}
    Local = n1
    Tasks = {t1}
    Strategy = "Any"
    LocalLimit = 1
    NodeTimeout = 1
    SuspectAfter = 0
    MaxQueueSize = 1
    BatchSize = 1
    Expires = FALSE
    Drops = FALSE
    MaxLoops = 1
SPECIFICATION Spec
PROPERTY SubmitSucceeds
