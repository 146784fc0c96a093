SPECIFICATION LibcFairSpec
CONSTANTS
    t1 = t1
    t2 = t2
    MaxFd = 5
    Handles <- MCHandles
    Threads <- TwoThreads
    Minimums <- FromZero
    MaxDirs = 1
    Opens = {h1, h2}
    Bytes = {7}
    Lengths = {1}
    MaxSize = 2
    Dirs = {1, 2}
    Places = {1, 2, 3}
    Names = {1, 2}
    Room = 5
    Pieces <- MCPieces
    Buffered = 4
    MaxBytes = 6
    PollSlots = 2
    Workers = {w1, w2, w3}
INVARIANTS
    FdsKeepTheirHandles
    NothingElseIsLost
    AtFindsItsFile
    MessagesIntact
PROPERTIES
    ImplementsPosix
    JoinReturns
CHECK_DEADLOCK FALSE
