SPECIFICATION FairSpec
CONSTANTS
    Requests = {r1, r2}
    Earlier = {e1}
    Chats = {h1, h2}
    HistoryLimit = 2
    RecursionLimit = 4
    MaxCalls = 2
    Holders = {k1}
    PoolSize = 2
    None = None
CHECK_DEADLOCK FALSE
INVARIANTS TypeOK RecordedOnce MemoryIsWhole FallbackIsFirst
PROPERTIES TurnsEnd LoopRunsAgain
