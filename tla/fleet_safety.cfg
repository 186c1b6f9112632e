SPECIFICATION Spec
CONSTANTS
    Motes <- TwoMotes
    Parents <- Chain2
    NonCascade <- NoEdges
    NoMote <- Nil
    CriticFor <- NoCritics2
    WorldMutating = {"a", "b"}
    Class <- StagedStaged
    AtLeastOnce = {"b"}
    MaxWorkers = 2
    RetryBudget = 2
    MaxLease = 2
    CascadeCeiling = 10
    MaxRestarts = 1
    Workers = {w1, w2}
    NoId = NoId
    WorkerMaxAttempts = 2
    Failing = {"a"}
    Repudiable = {"a"}
    LossyRpc = TRUE
    FalseDeaths = TRUE
    WorkersOutlive = FALSE
    CriticsFirst = TRUE
SYMMETRY WorkerSymmetry
INVARIANTS
    CausalClosure
    OneHolder
    StagedBeforeFired
    AtMostOnce
PROPERTIES
    RefinesLedger
CHECK_DEADLOCK FALSE
