\* Slices of one unit: every process with a longer job is preempted in memory; a
\* third process may arrive while the others run, or when they have ended.
CONSTANTS
    Q1 = 1
    Q2 = 1
    Q3 = 1
    MaxProcesses = 3
    Times = {0, 3, 6}
    Sizes = {1, 2, 4}
    Jobs = {1, 3}
    MemSizes = {3, 4, 7}
    Workloads <- FilesAndCrowds
SPECIFICATION SimSpec
INVARIANT
    HolesAreConcatenated
\* main returns or exits
CHECK_DEADLOCK FALSE
