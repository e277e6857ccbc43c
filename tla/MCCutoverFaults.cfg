SPECIFICATION Spec
CONSTANTS
    Reshards = {r1}
    NoReshard = NoReshard
    NTargets = 2
    MaxAttempt = 1
    MaxLsn = 2
    MaxAborts = 0
    Events = {"abort", "delete", "foreign", "replace", "fenceFailure"}
 
INVARIANT NoWriteAfterBarrier
INVARIANT NoStrandedFence
INVARIANT NoSplitBrain
 
CHECK_DEADLOCK FALSE
