SPECIFICATION FairSpec
CONSTANTS
    Callbacks = {cb}
    NULL = NULL
    Others = {"list_ap", "server"}
    MaxReports = 6
    MaxLeases = 2
    ReadMayFail = TRUE
    QuietNull = TRUE
CHECK_DEADLOCK FALSE
INVARIANTS
    TypeOK
    NullNeverCalled
    AppUpToDate
PROPERTIES
    AddressTold
