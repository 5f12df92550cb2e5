SPECIFICATION RecoverySpec
CONSTANTS
    r0 = r0
    r1 = r1
    Null = Null
    Nil = Nil
    Replica = {r0, r1}
    f = 0
    K = 1
    LogMultiplier = 2
    ViewChangePeriod = 0
    Digest = {d1, d2}
    Live = {r0, r1}
    Amnesiac = {}
    Durable = {r0, r1}
    Entry = {r0}
    Duplicates = TRUE
    Reports = TRUE
    MaxSeqNo = 2
    MaxSubmissions = 1
    MaxRestarts = 2
    Order <- Two
    Dispatched <- AllTypes
    Link <- AllLinks
SYMMETRY Batches
INVARIANT Agreement
INVARIANT StateIsRestorable
INVARIANT ExecutionIsBacked
INVARIANT NoEquivocation
INVARIANT NoPanic
INVARIANT VotesAreStored
CHECK_DEADLOCK FALSE
