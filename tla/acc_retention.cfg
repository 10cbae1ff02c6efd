SPECIFICATION Spec
CONSTANTS
    consumer = consumer  poller = poller  j1 = j1  j2 = j2  NoJob = NoJob
    Drains = {consumer, poller}
    Jobs = {j1, j2}
    PageSize = 1
    PartRows = 1
    MaxSeq = 3
    MaxFaults = 1
CHECK_DEADLOCK FALSE
INVARIANTS TypeOK PulledFirst ArchiveSound NoFalseHalt
PROPERTY AgedIsArchived
