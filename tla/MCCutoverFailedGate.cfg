SPECIFICATION FairSpec
CONSTANTS
    Reshards = {r1}
    NoReshard = NoReshard
    NTargets = 1
    MaxAttempt = 1
    MaxLsn = 1
    MaxAborts = 0
    Events = {"foreign"}
PROPERTY GateWindowBounded
CHECK_DEADLOCK FALSE
