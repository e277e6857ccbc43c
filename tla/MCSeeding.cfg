SPECIFICATION SeedSpec
CONSTANTS
    a = a
    b = b
    Workflows = {a, b}
    Keys = {1, 2}
    Kept = {1}
    Vals = {1, 2}
    Base <- MCBase
    MaxTxns = 2
    MaxAlters = 1
    MaxStarts = 2
    MaxFaults = 1
INVARIANTS DivergenceIsReal PositionsHonest
PROPERTIES Replicates
CHECK_DEADLOCK FALSE
SYMMETRY Sym
