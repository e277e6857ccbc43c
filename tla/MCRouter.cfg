CONSTANTS
    Base = 2
    Width = 3
    Unread = Unread
    Hash <- MCHash
    VSchema <- MCVSchema
    Shards <- MCShards
    Binds <- MCBinds
    KeyValues <- MCKeyValues
    Failed = Failed
    Null = Null
    Broken = Broken
    None = None
    ColumnTypes <- MCColumnTypes
    Read <- MCRead
    PgRank <- MCPgRank
    TableData <- MCTableData
    r1 = r1
    r2 = r2
    t1 = t1
    t2 = t2
    t3 = t3
    Routers = {r1, r2}
    Threads = {t1, t2, t3}
    Home <- MCRoutersOf
    MaxId = 4
    BlockSizes = {0, 1, 2}
    MaxLost = 1
    MaxEpoch = 2
    MaxTime = 3
    WriteLease = 1
    Skews = {0, 1}
SPECIFICATION MCSpec
INVARIANTS
    StatementsPlanned
    DispatchesSafe
    AnswersExact
    EveryIdOwned
    UniqueIds
    SingleFlight
    LeaseHonest
    AnnouncementsCount
PROPERTIES
    AdmittedWithinLease
