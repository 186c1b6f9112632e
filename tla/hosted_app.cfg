SPECIFICATION Spec
CONSTANTS
    MaxGeneration = 3
INVARIANTS
    NoOrphan
    RunningTruth
PROPERTIES
    RestsUntilAsked
    Settles
CHECK_DEADLOCK FALSE
