CONSTANTS
    s1 = s1
    s2 = s2
    s3 = s3
    Sessions <- MCSessions
    Scope <- MCScope
    Specs <- MCSpecs
    MaxSessions = 2
    MaxTotal = 2
    MaxWait = 1
    MaxGeneration = 2
    LastArrival = 1
    Horizon = 3
    MaxCloses = 2
    MaxEpoch = 3
    MaxTime = 2
    WriteLease = 1
    Skews = {1}
SPECIFICATION LiveSpec
INVARIANTS
    WithinLimits
PROPERTIES
    ReplaysOnNewTopology
    Fifo
    RefusedOnlyWhenFull
    NobodyStranded
    RouterFollows
