SPECIFICATION Spec
CONSTANTS
    Nodes = {n1, n2, n3}
    Retries <- NoRetries
    MaxU32 = 3
    PowBits = 32
    Panics = FALSE
    Interrupts = TRUE
    None = None
CONSTRAINT FewSkips
SYMMETRY NodeSymmetry
INVARIANTS
    TypeOK
    GraphStaysAcyclic
    RunsAfterDependencies
    CompletedAgrees
    SuccessMeansAllDone
    FailureIsReported
    ResumeKeepsWork
