SPECIFICATION FairSpec
CONSTANTS
    Procs = {p1}
    Ceiling = 3
    AgentMaxFee = 2
    Duration = 1
    MaxTime = 1
    FaultKinds = {"unavailable", "refused", "crash", "restart", "reorg", "spike"}
    MaxFaults = 2
CHECK_DEADLOCK FALSE
INVARIANTS
    EffectsOnce
    SessionSentIsRecorded
    RunningIsReady
    NothingLeftProvisioned
PROPERTIES
    SetupEnds
