SPECIFICATION Spec
CONSTANTS
    r0 = r0
    r1 = r1
    r2 = r2
    r3 = r3
    Null = Null
    Nil = Nil
    Replica = {r0, r1}
    f = 0
    K = 1
    LogMultiplier = 4
    ViewChangePeriod = 2
    Digest = {d1}
    Live = {r0, r1}
    Amnesiac = {}
    Entry = {r0}
    Duplicates = TRUE
    Reports = TRUE
    MaxSeqNo = 2
    MaxSubmissions = 2
    MaxRestarts = 0
    Order <- Two
    Dispatched <- AllTypes
    Link <- AllLinks
INVARIANT ViewChangeCarriesPrepared
CHECK_DEADLOCK FALSE
