SPECIFICATION Spec
CONSTANTS
    r0 = r0
    r1 = r1
    r2 = r2
    r3 = r3
    Null = Null
    Nil = Nil
    Replica = {r0, r1, r2}
    f = 0
    K = 1
    LogMultiplier = 2
    ViewChangePeriod = 3
    Digest = {d1, d2, d3}
    Live = {r0, r1, r2}
    Amnesiac = {}
    Entry = {r0}
    Duplicates = TRUE
    Reports = TRUE
    MaxSeqNo = 3
    MaxSubmissions = 1
    MaxRestarts = 0
    Order <- Three
    Dispatched <- AllTypes
    Link <- StragglerLinks
SYMMETRY Batches
INVARIANT ViewChangesAreCorrect
ACTION_CONSTRAINT StragglerLast
CHECK_DEADLOCK FALSE
