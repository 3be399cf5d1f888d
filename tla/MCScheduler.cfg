\* The shipped slices; jobs that end in, at and beyond the last slice of each level.
CONSTANTS
    Q1 = 2
    Q2 = 4
    Q3 = 8
    MaxProcesses = 3
    Times = {0, 1, 7}
    Jobs = {2, 7, 15}
    Workloads <- Files
SPECIFICATION FairSpec
INVARIANTS
    TypeOK
    EveryNodeInOnePlace
    BooksAreRight
    SliceLedger
    CompletionOrder
    ResponseBound
PROPERTIES
    ImplementsWorkConserving
    ImplementsWaitingTime
    Termination
\* main returns
CHECK_DEADLOCK FALSE
