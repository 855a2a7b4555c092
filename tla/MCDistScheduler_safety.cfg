\* The local node and another one, two tasks, a queue of one task per topic.
CONSTANTS
    n1 = n1 n2 = n2 t1 = t1 t2 = t2
    Nodes = {n1, n2}
    Local = n1
    Tasks = {t1, t2}
    Strategy = "Any"
    LocalLimit = 1
    NodeTimeout = 1
    SuspectAfter = 0
    MaxQueueSize = 1
    BatchSize = 1
    Expires = TRUE
    Drops = TRUE
    MaxLoops = 1
SPECIFICATION Spec
CONSTRAINT FewPresent
INVARIANTS TypeOK NoUndercount LocalIsExact
SYMMETRY TaskSymmetry
PROPERTY QueueSpec
