SPECIFICATION Spec
CONSTANTS
    kMaxRows = 2
    kMaxCols = 2
    Tab = 2
    Digit <- MCDigit
    MaxParams = 1
    Word = 8
    Sizes <- MCSizes
INVARIANTS
    RowsShown
PROPERTIES
    NothingLeftOver
CHECK_DEADLOCK FALSE
