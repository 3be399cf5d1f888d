SPECIFICATION FairSpec
CONSTANTS
    WIDTH = 4
    Depth = 9
    Starts <- MCStarts
\* a solution has been found
CHECK_DEADLOCK FALSE
INVARIANTS
    FoundIsAPath
    FoundIsShort
PROPERTIES
    BoundGrows
    IsSolved
