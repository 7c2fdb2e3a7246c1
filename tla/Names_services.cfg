SPECIFICATION Spec
CONSTANTS
    Tasks = {t1, t2}
    Functions <- SomeFunctions
    Values = {v1, v2}
    Zero = Zero
    MayFail = {"command", "malloc"}
    Apart <- AllApart
    Hosts = {host1, host2}
    Blocks = {b1, b2}
    Null = Null
SYMMETRY Symmetry
CHECK_DEADLOCK FALSE
INVARIANTS
    TypeOK
    HeapSafe
    HostnameKept
PROPERTIES
    ClockOfOwnZone
    KeepsRegisters
    HostIsTheOneAsked
