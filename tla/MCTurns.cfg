SPECIFICATION FairSpec
CONSTANTS
    Procs = {p1, p2}
    Kinds = {"offer", "accept", "model_failed"}
    MaxTurns = 2
    End = 2
    Life = 1
    FaultKinds = {"unreachable", "crash", "takeover", "restart", "reorg", "abort"}
    MaxFaults = 1
INVARIANTS
    ActedOnSeenHistory
    OneDecisionInFlight
PROPERTIES
    NoSecondDecision
    EveryTurnEnds
CHECK_DEADLOCK FALSE
