SPECIFICATION ProgramsSpec
CONSTANTS
    Byte <- Repeating
    RingSize = 3
    Anchor = 2
    HeartbeatRounds = 2
    Lost = Lost
    MaxLog = 4
    MaxFailures = 1
    MaxBoots = 3
    MaxTries = 2
    MaxScripts = 3
    MaxStarts = 3
    Clients = {c1, c2}
    Nodes <- MCNodes
    Folders <- MCFolders
    Root = "/"
    Home = "bin"
    Parent <- MCParent
    Order <- MCOrder
    Searches <- MCSearches
    kHistory = 2
    kMaxEntries = 2
INVARIANTS
    HistoryFits
    WindowMatches
    NoSilentLoss
    PreviousHasStart
    AutorunOnce
PROPERTIES
    SelectionKept
    KeepsHistory
    EventuallySaved
    EventuallyAnswered
CHECK_DEADLOCK FALSE
