SPECIFICATION Spec
CONSTANTS
    w1 = w1  w2 = w2  NoOwner = NoOwner
    g = g  a = a  b = b  tg = tg  ta = ta
    e1 = e1  e2 = e2  e3 = e3  e4 = e4  old = old
    Writers = {w1, w2}
    Keys = {g, a}
    Tables = {tg, ta}
    Days <- MCDays
    Events = {e1, e2, e3, e4}
    Archived = {old}
    Parent <- MCParent
    KeyOf <- MCKeyOf
    DayOf <- MCDayOf
    KeyRank <- MCKeyRank
    TableRank <- MCTableRank
    InitialParts <- TodaysParts
    InitialAnchors <- NewOrArchived
    Redelivery = FALSE
    MaxBatch = 2
    MaxCalls = 2
    MaxSeq = 2
CHECK_DEADLOCK FALSE
SYMMETRY MCSymmetry
INVARIANTS TypeOK ChainLinked NoDuplicateTable ChainInv
PROPERTIES AppendOnly ImplementsAuditLog
