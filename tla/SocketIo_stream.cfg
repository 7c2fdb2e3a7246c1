SPECIFICATION FairSpec
CONSTANTS
    Tasks = {t1, t2}
    MaxBytes = 4
    MaxPbuf = 2
    MaxLen = 3
    SizeMod = 16
    OneAtATime = TRUE
INVARIANTS
    TypeOK
    NothingLost
    PbufsOwned
    AvailableKept
    NothingHeld
PROPERTIES
    EndOfStream
    KeepsPromise
    CallsEnd
    DontWaitIsLocal
