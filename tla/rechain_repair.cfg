SPECIFICATION RechainSpec
CONSTANTS
    w1 = w1  job = job  op = op  NoOwner = NoOwner  Damaged = Damaged
    ck = ck  tab = tab  e1 = e1  e2 = e2  e3 = e3  mark = mark  forged = forged
    Writers = {w1, job, op}
    Jobs = {job}
    Fixer = op
    Keys = {ck}
    Tables = {tab}
    Days <- MCDays
    Events = {e1, e2, e3, mark, forged}
    Archived = {}
    Parent <- MCParent
    KeyOf <- MCKeyOf
    DayOf <- MCDayOf
    KeyRank <- MCRank
    TableRank <- MCTableRank
    InitialParts <- AllParts
    InitialAnchors <- NewChain
    Redelivery = FALSE
    MaxBatch = 1
    MaxCalls = 1
    MaxSeq = 3
    RetentionMonths = 1
    FirstMonth = 3
    PartRows = 2
    MaxMonth = 4
    MaxRuns = 1
    Marker <- MCMarker
    Forged <- MCForged
    MaxForks = 1
    MaxTampers = 1
CHECK_DEADLOCK FALSE
INVARIANTS AlteredStaysVisible RepairHolds
PROPERTY RepairOnlyBroken
