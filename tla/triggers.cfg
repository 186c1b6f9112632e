SPECIFICATION LiveSpec
CONSTANTS
    c1 = c1
    c2 = c2
    e1 = e1
    CronNames <- MCCronNames
    HookNames <- MCHookNames
    Events = {e1}
    Clients = {c1, c2}
    Specs <- MCSpecs
    MaxUsed <- MCMaxUsed
    DeadLetterMax = 2
    Burst = 1
    Refill = 1
    Period = 2
    Horizon = 2
    MaxInputs = 3
INVARIANTS
    OneAnswer
    CronOnce
    NoSilentStop
    RateBound
PROPERTY
    DueIsServed
CHECK_DEADLOCK FALSE
