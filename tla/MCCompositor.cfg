SPECIFICATION CompositorSpec
CONSTANTS
    w1 = w1
    w2 = w2
    s1 = s1
    s2 = s2
    s3 = s3
    Windows <- TwoWindows
    Surfaces <- ThreeSurfaces
    NoSurface = NoSurface
    Slots = 2
    ForgetLists = 1
    QueueLength = 1
    MaxMoves = 4
    NoWindow = NoWindow
    Panes <- TwoWindows
    Pinned <- MCPinned
    MaxChanges = 2
    Switchers <- OneSwitcher
    Pictures <- TwoPictures
    DefaultPicture = "p"
    Addresses <- TwoAddresses
    MaxVersions = 2
INVARIANTS
    PolledAfterList
    DragWhileLeftDown
    WallpaperShown
PROPERTIES
    DragKeepsWindow
    EventuallyDrawn
    EventuallyNoticed
CHECK_DEADLOCK FALSE
