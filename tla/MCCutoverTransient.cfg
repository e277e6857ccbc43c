SPECIFICATION Spec
CONSTANTS
    Reshards = {r1}
    NoReshard = NoReshard
    NTargets = 1
    MaxAttempt = 1
    MaxLsn = 2
    MaxAborts = 0
    Events = {"abort", "timeout", "foreign", "restore", "agentRestart", "slowCompile", "workflowRestart"}
INVARIANT BarrierExists
CHECK_DEADLOCK FALSE
