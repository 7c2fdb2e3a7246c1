SPECIFICATION FairSpec
CONSTANTS
    Tasks = {t1, t2}
    Conns = {c1, c2}
    Types = {tcp}
    Null = Null
    Growth = 1
    MaxBlocks = 2
    CallocMayFail = TRUE
    Exclusive <- FirstAlone
CHECK_DEADLOCK FALSE
INVARIANTS
    TypeOK
    LockExclusive
    InBounds
    ConnUnique
PROPERTIES
    EntryKept
    CallsReturn
