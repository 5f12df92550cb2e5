SPECIFICATION NewViewSpec
CONSTANTS
    r0 = r0
    r1 = r1
    r2 = r2
    r3 = r3
    Null = Null
    Nil = Nil
    Replica = {r0, r1, r2, r3}
    f = 1
    K = 1
    LogMultiplier = 4
    ViewChangePeriod = 2
    Digest = {d1, d2}
    Live = {r0, r1, r2, r3}
    Amnesiac = {}
    Entry = {r0}
    Duplicates = TRUE
    Reports = TRUE
    MaxSeqNo = 2
    MaxSubmissions = 1
    MaxRestarts = 0
    MaxView = 1
    Order <- Four
    Dispatched <- AllTypes
    Link <- GroupLinks
SYMMETRY Batches
ACTION_CONSTRAINT OneByOne
INVARIANT NumbersAreAssignable
INVARIANT NewViewKeepsCommitted
INVARIANT StoredNewViewIsTakenUp
INVARIANT ViewChangeCarriesPrepared
INVARIANT TimerGuardsOutstanding
CHECK_DEADLOCK FALSE
