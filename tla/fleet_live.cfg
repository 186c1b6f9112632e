SPECIFICATION FairSpec
CONSTANTS
    Motes <- TwoMotes
    Parents <- Chain2
    NonCascade <- NoEdges
    NoMote <- Nil
    CriticFor <- NoCritics2
    WorldMutating = {}
    Class <- PurePure
    AtLeastOnce = {}
    MaxWorkers = 3
    RetryBudget = 3
    MaxLease = 2
    CascadeCeiling = 10
    MaxRestarts = 0
    Workers = {w1, w2, w3}
    NoId = NoId
    WorkerMaxAttempts = 2
    Failing = {}
    Repudiable = {}
    LossyRpc = FALSE
    FalseDeaths = FALSE
    WorkersOutlive = FALSE
    CriticsFirst = TRUE
PROPERTIES
    Resolves
