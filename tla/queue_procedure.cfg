SPECIFICATION Spec
CONSTANTS
    i1 = i1  i2 = i2  r1 = r1  r2 = r2  r3 = r3
    Items = {i1, i2}
    Requests = {r1, r2}
    Unknown = "escalated"
    MaxEntries = 5
CHECK_DEADLOCK FALSE
INVARIANTS TypeOK ProcedureOnRecord QueueInv
