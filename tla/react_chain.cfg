SPECIFICATION FairSpec
CONSTANTS
    MaxTurns = 3
    MaxToolCalls = 3
    MaxBatch = 2
    Ceiling = 9
    TurnPrice = 2
    Calls = {"write", "retrieve"}
    Outputs <- AllOutputs
    Gated = {"write"}
    Retrieval = {"retrieve"}
    Removable = {"write"}
    Failing = {"write"}
    AtLeastOnce = {"write"}
    FailingKinds = {"turn", "rerank"}
    Crashing = {"turn", "obs", "rerank", "input"}
    Kinds = {"run", "launch"}
    Flaky = {"anchor", "branch", "pending", "approval", "rerank"}
    MaxFaults = 1
INVARIANT InFlightIsOffered
INVARIANT BudgetKept
INVARIANT NoRefire
INVARIANT GateHeld
INVARIANT BackPressure
INVARIANT AnswerTruth
PROPERTY ChainSettles
