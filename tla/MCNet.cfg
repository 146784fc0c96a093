SPECIFICATION NetSpec
CONSTANTS
    Admins = {a1}
    a1 = a1
    MaxChanges = 4
    MaxTime = 10
    Skews <- MCSkews
    Timeout = 4
    Retries = 2
    SeqMod = 3
    Counts = {2, 4}
    Ids = {1, 2}
    Ports = {1}
INVARIANTS
    ReadersSeeWhole
    NetcfgSawLease
    OffsetWithinDelay
    RequestsAccounted
    PrintedIsOneAnswer
PROPERTY
    FilesFollowInterface
CHECK_DEADLOCK FALSE
