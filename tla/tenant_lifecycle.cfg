SPECIFICATION Spec
CONSTANTS
    t1 = t1  t2 = t2  g = g
    Tenants = {t1, t2}  Founded = {t2}
    Global = g  NoRow = NoRow  Keep = Keep
    Vanished = {"error", "empty"}
    Reuse = FALSE
    PageSize = 2  MaxPages = 1
    StaleAfter = 1  Interval = 1
    MaxRecs = 4  MaxEvents = 1  MaxFaults = 1
INVARIANT NothingElseForgotten
PROPERTIES StaleIsCured StoppedIsVisible RefusedIsVisible
