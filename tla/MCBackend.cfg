SPECIFICATION FairSpec
CONSTANTS
    Plane <- MCPlane
    Screen <- MCScreen
    Colors <- MCColors
    Positions <- MCPositions
    dark = dark
    light = light
    NoPointer = NoPointer
    Garbage = Garbage
    Nothing = Nothing
    StaleImage = StaleImage
    CursorRect <- MCCursorRect
    Unite <- MCUnite
INVARIANTS
    DrawsOffScreen
    SettledScreenIsCurrent
PROPERTIES
    KeepsPromise
    EventuallyCurrent
