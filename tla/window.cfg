SPECIFICATION Spec
CONSTANTS
    r0 = r0
    r1 = r1
    r2 = r2
    r3 = r3
    Null = Null
    Nil = Nil
    Replica = {r0, r1}
    f = 0
    K = 2
    LogMultiplier = 2
    ViewChangePeriod = 2
    Digest = {d1, d2, d3}
    Live = {r0, r1}
    Amnesiac = {}
    Entry = {r0}
    Duplicates = TRUE
    Reports = TRUE
    MaxSeqNo = 4
    MaxSubmissions = 2
    MaxRestarts = 0
    Order <- Two
    Dispatched <- AllTypes
    Link <- AllLinks
SYMMETRY Batches
INVARIANT TypeOK
INVARIANT NoEquivocation
INVARIANT NothingLeftToResubmit
INVARIANT TimerGuardsOutstanding
INVARIANT NoPanic
INVARIANT CheckpointsAgree
CHECK_DEADLOCK FALSE
