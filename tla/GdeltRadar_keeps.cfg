\* Two passes at once, one of which may die, over two minutes.
CONSTANTS
    Passes = {p1, p2}
    a1 = a1
    a2 = a2
    Articles = {a1, a2}
    Matches <- MCMatches
    LastMinute = 2
    Lag = 1
    GapAfter = 1
    MaxBatches = 2
    MaxFaults = 1
SPECIFICATION FairSpec
INVARIANTS TypeOK NothingPassedOver
PROPERTY PublishedIsKept
\* Every minute may have been passed.
CHECK_DEADLOCK FALSE
