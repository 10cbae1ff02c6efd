SPECIFICATION FairSpec
CONSTANTS
    g = g  a = a
    Keys = {g, a}
    Global = g
    Order <- OrderGA
    Registered = {a}
    MsgKey <- ToBoth
    Poison = {}
    Broken = {}
    AnchorSeq <- ArchivedA
    PageSize = 1
    MaxPages = 2
    ReadCount = 2
    Lagging = FALSE
    MaxRecs <- RecsArchived
    MaxMsgs = 2
    MaxTampers = 0
    MaxAcks = 0
    MaxFails = 0
    MaxHints = 1
CHECK_DEADLOCK FALSE
INVARIANT Precedence
PROPERTY EveryRecordArrives
