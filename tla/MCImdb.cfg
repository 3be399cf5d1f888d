SPECIFICATION MCSpec
CONSTANTS
    MaxLines = 6
    Keys = {1, 2, 3, 4, 5, 6}
\* the key has been answered
CHECK_DEADLOCK FALSE
INVARIANTS
    TreeIsBalanced
    NodesAreTrue
    SearchIsShort
PROPERTIES
    ImplementsDictionary
