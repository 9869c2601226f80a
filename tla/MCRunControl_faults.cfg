SPECIFICATION Spec
CONSTANTS
    r1 = r1
    p1 = p1
    p2 = p2
    Runs = {r1}
    Procs = {p1, p2}
    Slots <- OneRequest
    OneBlock = FALSE
    Expires = FALSE
    NoRun = NoRun
    NoProc = NoProc
    NoTx = NoTx
    Faults = {"crash", "close", "rpc", "agent", "fault", "revert", "refuse", "reorg"}
    MaxFaults = 1
CONSTRAINT FewForks
INVARIANTS
    OutcomeFromChain
    FailedSetupHasNoSession
    ActiveHoldsSlot
    OneDriver
PROPERTIES
    NothingSignedOnceEnding
    NoTurnOnUnseenReorg
CHECK_DEADLOCK FALSE
