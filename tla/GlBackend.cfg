\* One window whose program shows three surfaces in turn, one of them a GPU
\* buffer, with room for two textures.
SPECIFICATION Spec
CONSTANTS
    Windows = {w1}
    Surfaces = {s1, s2, s3}
    Shared = {s1, s2}
    NoSurface = NoSurface
    Nothing = Nothing
    MaxTextures = 2
    KeepFrames = 2
    ForgetLists = 1
    MaxMoves = 5
INVARIANTS
    FramesAreFresh
    TearsOnlyAfterTimeout
    SettledScreenIsFresh
