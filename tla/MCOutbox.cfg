SPECIFICATION Spec
CONSTANTS
    driver = driver
    operator = operator
    NumActions = 2
    Driver = driver
    Resumers = {}
    Threshold = 2
    ReplaceAfter = 1
    MaxFee = 2
    Faults = {"crash", "lost", "evict", "reorg", "revert"}
    MaxFaults = 2
    MaxEmpty = 1
    NoBlock = NoBlock
    NoTx = NoTx
INVARIANTS
    ActionMirrorsRow
    
CHECK_DEADLOCK FALSE
