SPECIFICATION Spec
CONSTANTS
    Motes <- ThreeMotes
    Parents <- Judged
    NonCascade <- NoEdges
    NoMote <- Nil
    CriticFor <- CriticC
    WorldMutating = {"a"}
    Class <- DirectPurePure
    AtLeastOnce = {}
    MaxWorkers = 2
    RetryBudget = 2
    MaxLease = 1
    CascadeCeiling = 10
    MaxRestarts = 0
    Workers = {w1, w2}
    NoId = NoId
    WorkerMaxAttempts = 2
    Failing = {"a"}
    Repudiable = {}
    LossyRpc = TRUE
    FalseDeaths = TRUE
    WorkersOutlive = FALSE
    CriticsFirst = TRUE
SYMMETRY WorkerSymmetry
INVARIANTS
    CriticGate
    NoBlindRefire
    NoneStranded
