SPECIFICATION Spec
CONSTANTS
    Motes <- WaitSteps
    Parents <- WaitParents
    NonCascade <- NoEdges
    CriticFor <- WaitCritics
    NoMote <- Nil
    WorldMutating = {}
    Steps <- WaitSteps
    Order <- WaitOrder
    DataParents <- WaitParents
    Arm <- WaitArms
    NoArm <- Nil
    AttemptOf <- NoAttempts
    Waits = {"w"}
    Guards = {}
    Policied = {}
    Conditionals = {}
    Continue = {}
    MaxAttempts = 1
    Delay = 1
    Backoff = 1
    Failing = {}
    Crashing = {"a"}
    AtLeastOnce = {}
    Flaky = {}
    MaxErrors = 0
    MaxTime = 2
    MaxRestarts = 0
INVARIANTS
    LostForCause
