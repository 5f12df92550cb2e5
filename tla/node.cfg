SPECIFICATION FairNodeSpec
CONSTANTS
    r0 = r0
    r1 = r1
    Null = Null
    Nil = Nil
    Replica = {r0, r1}
    f = 0
    K = 10
    LogMultiplier = 4
    ViewChangePeriod = 0
    Digest = {d1, d2}
    Live = {r0, r1}
    Amnesiac = {}
    Mortal = {r1}
    Entry = {r0}
    Duplicates = FALSE
    Reports = FALSE
    MaxSeqNo = 2
    MaxSubmissions = 1
    MaxRestarts = 0
    Link = {}
    Order <- Two
    Dispatched <- Switch
INVARIANT NodeTypeOK
INVARIANT ExecutionIsBacked
PROPERTY StaysUp
PROPERTY GroupSettles
CHECK_DEADLOCK FALSE
