SPECIFICATION FairSpec
CONSTANTS
    r0 = r0
    r1 = r1
    r2 = r2
    r3 = r3
    Null = Null
    Nil = Nil
    Replica = {r0, r1, r2, r3}
    f = 1
    K = 1
    LogMultiplier = 2
    ViewChangePeriod = 0
    Digest = {d1, d2}
    Live = {r0, r1, r2}
    Amnesiac = {}
    Entry = {r0}
    Duplicates = FALSE
    Reports = TRUE
    MaxSeqNo = 2
    MaxSubmissions = 1
    MaxRestarts = 0
    Order <- Four
    Dispatched <- AllTypes
    Link <- NoSelf
INVARIANT NoStalledExecution
INVARIANT WatermarkIsVouched
PROPERTY RequestsExecute
CHECK_DEADLOCK FALSE
