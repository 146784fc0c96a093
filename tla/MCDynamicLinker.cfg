SPECIFICATION FairSpec
CONSTANTS
    main = main
    instant = instant
    ui = ui
    gl = gl
    libm = libm
    missing = missing
    symbol = symbol
    Main = main
    Names <- MCNames
    Files <- MCFiles
    Broken <- Nobody
    Long <- MCLong
    Fixed <- MCFixed
    Resolve <- MCResolve
    Size <- MCSize
    Stride = 4
    MaxObjects = 5
    MaxNeeded = 2
    Needs <- MCNeeds
    Symbols <- MCSymbols
INVARIANTS
    LoadsEachOnce
    MapsApart
    OneDefinition
PROPERTIES
    Terminates
