SPECIFICATION Spec
CONSTANTS
    Reshards = {r1}
    NoReshard = NoReshard
    NTargets = 1
    MaxAttempt = 1
    MaxLsn = 2
    MaxAborts = 0
    Events = {"abort", "delete"}
INVARIANT RoutedTargetsServe
CHECK_DEADLOCK FALSE
