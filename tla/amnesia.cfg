SPECIFICATION Spec
CONSTANTS
    r0 = r0
    r1 = r1
    r2 = r2
    r3 = r3
    Null = Null
    Nil = Nil
    Replica = {r0, r1, r2, r3}
    f = 1
    K = 1
    LogMultiplier = 2
    ViewChangePeriod = 1
    Digest = {d1, d2}
    Live = {r0, r2, r3}
    Amnesiac = {r0}
    Entry = {r0}
    Duplicates = TRUE
    Reports = FALSE
    MaxSeqNo = 1
    MaxSubmissions = 1
    MaxRestarts = 1
    Order <- Four
    Dispatched <- AllTypes
    Link <- AllLinks
SYMMETRY Both
INVARIANT Agreement
INVARIANT CommitsAgree
INVARIANT ExecutionIsBacked
INVARIANT VotesBackExecution
INVARIANT NothingForgotten
PROPERTY ImplementsTotalOrder
CHECK_DEADLOCK FALSE
