SPECIFICATION FairSpec
CONSTANTS
    Motes <- ThreeMotes
    Parents <- Judged
    NonCascade <- NoEdges
    NoMote <- Nil
    CriticFor <- CriticC
    WorldMutating = {"a", "b"}
    Order <- OrderABC
    Class <- DirectStagedPure
    Validated = {"a"}
    Failing = {"a", "b"}
    Policies = {0, 2}
    Cadence = 2
    MaxStarts = 4
    MaxReplaced = 1
    MaxLog = 20
INVARIANTS
    EffectsAccounted
    RecoveryArmDead
    ProjectionIsReplay
PROPERTIES
    RefinesLedger
    Terminates
CHECK_DEADLOCK FALSE
