SPECIFICATION FairSpec
CONSTANTS
    Motes <- BranchMotes
    Parents <- BranchParents
    NonCascade <- NoEdges
    CriticFor <- BranchCritics
    NoMote <- Nil
    WorldMutating = {"e", "j1", "j2"}
    Steps <- BranchSteps
    Order <- BranchOrder
    DataParents <- NoData
    Arm <- BranchArms
    NoArm <- Nil
    AttemptOf <- BranchAttempts
    Waits = {"w"}
    Guards = {"w", "e"}
    Policied = {"j"}
    Conditionals = {"c"}
    Continue = {"j"}
    MaxAttempts = 2
    Delay = 1
    Backoff = 1
    Failing = {"e", "j1", "j2"}
    Crashing = {"c"}
    AtLeastOnce = {"e"}
    Flaky <- FlakyWait
    MaxErrors = 1
    MaxTime = 3
    MaxRestarts = 1
INVARIANTS
    WaitedOut
    OneTimer
    LadderTruth
    OneArm
PROPERTIES
    Settled
