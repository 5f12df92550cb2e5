SPECIFICATION RecoverySpec
CONSTANTS
    r0 = r0
    r1 = r1
    Null = Null
    Nil = Nil
    Replica = {r0, r1}
    f = 0
    K = 1
    LogMultiplier = 2
    ViewChangePeriod = 1
    Digest = {d1, d2}
    Live = {r0, r1}
    Amnesiac = {}
    Durable = {r0, r1}
    Entry = {r0}
    Duplicates = TRUE
    Reports = TRUE
    MaxSeqNo = 2
    MaxSubmissions = 1
    MaxRestarts = 1
    Order <- Two
    Dispatched <- AllTypes
    Link <- AllLinks
PROPERTY NoVotesAfterViewChange
CHECK_DEADLOCK FALSE
