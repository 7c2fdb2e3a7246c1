SPECIFICATION Spec
CONSTANTS
    Tasks = {t1, t2}
    Conns = {c1, c2, c3}
    Types = {tcp}
    Null = Null
    Growth = 2
    MaxBlocks = 2
    CallocMayFail = FALSE
    Exclusive <- FirstAndCloseAlone
SYMMETRY Symmetry
CHECK_DEADLOCK FALSE
INVARIANTS
    Ownership
    NoLeak
PROPERTIES
    KeepsPromise
