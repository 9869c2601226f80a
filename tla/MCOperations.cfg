SPECIFICATION FairSpec
CONSTANTS
    Requests <- Two
    Plans <- Retries
    NoKey = "none"
    First <- Paused
    MaxMoves = 1
    MaxCrashes = 1
INVARIANTS WorkOncePerKey
PROPERTIES ReadersMissNothing EveryOperationEnds
CHECK_DEADLOCK FALSE
