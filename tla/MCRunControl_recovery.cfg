SPECIFICATION Spec
CONSTANTS
    r1 = r1
    p1 = p1
    p2 = p2
    Runs = {r1}
    Procs = {p1}
    Slots <- OneRequest
    OneBlock = TRUE
    Expires = TRUE
    NoRun = NoRun
    NoProc = NoProc
    NoTx = NoTx
    Faults = {"fault"}
    MaxFaults = 2
PROPERTIES
    RecoveryDecidesFromChain
CHECK_DEADLOCK FALSE
