SPECIFICATION Spec
CONSTANTS
    MaxGeneration = 2
INVARIANTS
    RunningIsServed
CHECK_DEADLOCK FALSE
