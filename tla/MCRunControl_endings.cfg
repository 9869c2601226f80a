SPECIFICATION FairSpec
CONSTANTS
    r1 = r1
    p1 = p1
    p2 = p2
    Runs = {r1}
    Procs = {p1}
    Slots <- OneRequest
    OneBlock = TRUE
    Expires = TRUE
    NoRun = NoRun
    NoProc = NoProc
    NoTx = NoTx
    Faults = {"crash"}
    MaxFaults = 1
PROPERTIES
    TerminationEnds
CHECK_DEADLOCK FALSE
