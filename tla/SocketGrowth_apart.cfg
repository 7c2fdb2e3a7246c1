SPECIFICATION Spec
CONSTANTS
    MaxTables = 3
    MaxBytes = 4
    MaxPbuf = 2
    MaxLen = 3
    GrowsApart = TRUE
INVARIANTS
    TypeOK
    NoUseAfterFree
    InOrder
    NothingLeftBehind
