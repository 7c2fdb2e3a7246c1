SPECIFICATION Spec
CONSTANTS
    Callbacks = {cb}
    NULL = NULL
    Others = {}
    MaxReports = 4
    MaxLeases = 1
    ReadMayFail = FALSE
    QuietNull = TRUE
CHECK_DEADLOCK FALSE
PROPERTIES
    AddressWhileConnected
