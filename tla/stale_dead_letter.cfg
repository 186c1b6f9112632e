SPECIFICATION Spec
CONSTANTS
    Motes <- OneMote
    Parents <- OneAlone
    NonCascade <- NoEdges
    NoMote <- Nil
    CriticFor <- NoCritics1
    WorldMutating = {}
    Class <- AllPure1
    AtLeastOnce = {}
    MaxWorkers = 2
    RetryBudget = 2
    MaxLease = 2
    CascadeCeiling = 10
    MaxRestarts = 0
    Workers = {w1, w2}
    NoId = NoId
    WorkerMaxAttempts = 2
    Failing = {"a"}
    Repudiable = {}
    LossyRpc = FALSE
    FalseDeaths = TRUE
    WorkersOutlive = FALSE
    CriticsFirst = TRUE
SYMMETRY WorkerSymmetry
INVARIANTS
    NoneStranded
