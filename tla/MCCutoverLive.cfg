SPECIFICATION FairSpec
CONSTANTS
    Reshards = {r1}
    NoReshard = NoReshard
    NTargets = 1
    MaxAttempt = 1
    MaxLsn = 1
    MaxAborts = 1
    Events = {"delete"}
PROPERTY GateWindowBounded
PROPERTY SwitchCompletes
PROPERTY DeletionCompletes
CHECK_DEADLOCK FALSE
