SPECIFICATION FairSpec
CONSTANTS
    driver = driver
    operator = operator
    NumActions = 1
    Driver = driver
    Resumers = {}
    Threshold = 2
    ReplaceAfter = 1
    MaxFee = 2
    Faults = {"crash", "lost", "revert"}
    MaxFaults = 2
    MaxEmpty = 2
    NoBlock = NoBlock
    NoTx = NoTx
INVARIANT NoFalseConflict
PROPERTY EveryActionLands
CHECK_DEADLOCK FALSE
