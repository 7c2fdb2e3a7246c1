SPECIFICATION Spec
CONSTANTS
    Callbacks = {cb}
    NULL = NULL
    Others = {}
    MaxReports = 4
    MaxLeases = 1
    ReadMayFail = FALSE
    QuietNull = FALSE
CHECK_DEADLOCK FALSE
INVARIANTS
    NullNeverCalled
