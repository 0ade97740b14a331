SPECIFICATION FairSpec
CONSTANTS
    short = short
    long = long
    NoText = NoText
    Files = {f1}
    Text <- MCText
    NChunks <- MCNChunks
    MaxStale = 2
    Requests = {r1, r2}
    Kinds = {"hybrid", "stats"}
    Indexer = indexer
    PoolSize = 1
    Limit = 2
    MaxAttempts = 3
INVARIANTS
    TypeOK
    ConnectionsReturn
PROPERTIES
    TitlesFitTexts
    RequestsAnswered
    WritersEnd
