SPECIFICATION MCSpec

CONSTANTS
    a = a
    s1 = s1
    s2 = s2
    t1 = t1
    t2 = t2
    Workflows = {a}
    Keys = {1, 2}
    Kept = {1}
    Vals = {1}
    Base <- MCBase
    MaxTxns = 1
    MaxAlters = 2
    MaxStarts = 2
    MaxFaults = 1
    Failed = Failed
    Truncated = Truncated
    Trailing = Trailing
    Unexpected = Unexpected
    Garbled = Garbled
    Sessions = {s1, s2}
    MaxCalls = 4
    MaxPrepared = 1
    Tasks = {t1, t2}
    Payloads = {1, 2}
    MaxRecords = 2
    NoTask = NoTask
    Epochs = {0, 1, 2}
    Requests = {1, 2}
    Ops = {1}
    Sqls = {1, 2}
    Handlers = {t1, t2}
    Callers = {t1, t2}
    Marks = {"mine", "theirs"}
    MaxDrops = 2
    MaxRounds = 3

INVARIANTS
    FenceHolds
    UnfenceHolds
    JournalOnce
    AnswersAgree
    NoPhantomSuccess
    RecordsHonest
    ProvenanceHolds
    RunsExact
    WireExact

PROPERTIES
    CatchesUp
    StreamsEnd

CHECK_DEADLOCK FALSE
