SPECIFICATION FairSpec
CONSTANTS
    Tasks = {t1, t2}
    Configs = {home, work}
    WithBssid = {work}
    Unset = Unset
    ApsSize = 2
    MaxFound = 3
    MaxScans = 2
    MaxQueue = 2
    MaxNumber = 3
    CallbackSet = TRUE
    Contract = {"config", "scan", "number"}
CHECK_DEADLOCK FALSE
INVARIANTS
    TypeOK
    ApsInBounds
PROPERTIES
    JoinIsWhole
    RecordsOfLastScan
    BlockingScanIsDone
    ScanTold
