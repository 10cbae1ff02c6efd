SPECIFICATION Spec
CONSTANTS
    g = g  a = a
    Keys = {g, a}
    Global = g
    Order <- OrderGA
    Registered = {a}
    MsgKey <- ToBoth
    Poison = {3}
    Broken = {a}
    AnchorSeq <- NoArchive
    PageSize = 1
    MaxPages = 2
    ReadCount = 2
    Lagging = FALSE
    MaxRecs <- RecsEach
    MaxMsgs = 3
    MaxTampers = 0
    MaxAcks = 0
    MaxFails = 1
    MaxHints = 1
CHECK_DEADLOCK FALSE
INVARIANTS CursorBacked AckedIsDurable
