SPECIFICATION Spec
CONSTANTS
    g = g  a = a
    Keys = {g, a}
    Global = g
    Order <- OrderGA
    Registered = {a}
    MsgKey <- ToTenant
    Poison = {}
    Broken = {}
    AnchorSeq <- NoArchive
    PageSize = 1
    MaxPages = 2
    ReadCount = 1
    Lagging = TRUE
    MaxRecs <- Recs2
    MaxMsgs = 1
    MaxTampers = 2
    MaxAcks = 1
    MaxFails = 1
    MaxHints = 1
CHECK_DEADLOCK FALSE
INVARIANTS TypeOK NothingSkipped
PROPERTY HaltKept
