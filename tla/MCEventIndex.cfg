SPECIFICATION FairSpec
CONSTANTS
    Salts = {0, 1}
    Original = 0
    Sent = {"open"}
    Threshold = 2
    Chunk = 2
    Slow = TRUE
    MaxHeight = 3
    MaxReorgs = 1
    MaxFaults = 1
INVARIANTS CanonicalIsChain TerminalBacked
PROPERTIES Converges
