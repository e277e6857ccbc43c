SPECIFICATION Spec
CONSTANTS
    Reshards = {r1, r2}
    NoReshard = NoReshard
    NTargets = 1
    MaxAttempt = 0
    MaxLsn = 2
    MaxAborts = 0
    Events = {"abort", "foreign"}
SYMMETRY ReshardSymmetry
INVARIANT CutoverInv
INVARIANT AtMostOneSwitch
CHECK_DEADLOCK FALSE
