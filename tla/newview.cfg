SPECIFICATION NewViewSpec
CONSTANTS
    r0 = r0
    r1 = r1
    r2 = r2
    r3 = r3
    Null = Null
    Nil = Nil
    Replica = {r0, r1}
    f = 0
    K = 1
    LogMultiplier = 4
    ViewChangePeriod = 2
    Digest = {d1, d2}
    Live = {r0, r1}
    Amnesiac = {}
    Entry = {r0, r1}
    Duplicates = TRUE
    Reports = TRUE
    MaxSeqNo = 4
    MaxSubmissions = 1
    MaxRestarts = 0
    MaxView = 1
    Order <- Two
    Dispatched <- NoCheckpoints
    Link <- NoSelf
INVARIANT NewViewTypeOK
INVARIANT SkipsOnlyWhenBehind
INVARIANT OneBatchPerNumber
PROPERTY NoVotesAfterViewChange
PROPERTY ImplementsTotalOrder
CHECK_DEADLOCK FALSE
