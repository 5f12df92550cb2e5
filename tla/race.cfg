SPECIFICATION NodeSpec
CONSTANTS
    r0 = r0
    r1 = r1
    Null = Null
    Nil = Nil
    Replica = {r0, r1}
    f = 0
    K = 10
    LogMultiplier = 4
    ViewChangePeriod = 0
    Digest = {d1}
    Live = {r0, r1}
    Amnesiac = {}
    Mortal = {}
    Entry = {r0}
    Duplicates = FALSE
    Reports = FALSE
    MaxSeqNo = 1
    MaxSubmissions = 1
    MaxRestarts = 0
    Link = {}
    Order <- Two
    Dispatched <- Switch
INVARIANT EventsAreSerial
CHECK_DEADLOCK FALSE
