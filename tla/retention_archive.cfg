SPECIFICATION RetentionSpec
CONSTANTS
    w1 = w1  job = job  job2 = job2  NoOwner = NoOwner  Damaged = Damaged
    ck = ck  tab = tab  e1 = e1  e2 = e2  e3 = e3  e4 = e4
    Writers = {w1, job, job2}
    Jobs = {job, job2}
    Keys = {ck}
    Tables = {tab}
    Days <- MCDays
    Events = {e1, e2, e3, e4}
    Archived = {}
    Parent <- MCParent
    KeyOf <- MCKeyOf
    DayOf <- MCDayOf
    KeyRank <- MCRank
    TableRank <- MCTableRank
    InitialParts <- EmptyPart
    InitialAnchors <- NewChain
    Redelivery = FALSE
    MaxBatch = 2
    MaxCalls = 1
    MaxSeq = 3
    RetentionMonths = 1
    FirstMonth = 3
    PartRows = 1
    MaxMonth = 4
    MaxRuns = 2
CHECK_DEADLOCK FALSE
SYMMETRY JobSymmetry
INVARIANTS RetentionTypeOK OneChain ArchiveVerifies LargestPrefix
PROPERTY NothingLost
