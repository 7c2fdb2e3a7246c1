SPECIFICATION Spec
CONSTANTS
    Tasks = {t1, t2}
    Conns = {c1, c2}
    Types = {tcp}
    Null = Null
    Growth = 1
    MaxBlocks = 2
    CallocMayFail = FALSE
    Exclusive <- FirstAlone
CHECK_DEADLOCK FALSE
INVARIANTS
    Ownership
