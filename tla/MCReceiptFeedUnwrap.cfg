CONSTANTS
    Partitions <- TwoPartitions
    HourLength = 2
    WindowHours = 2
    Cutoff = 0
    MaxNow = 6
    MaxQueries = 3
SPECIFICATION Spec
INVARIANT NoPanic
CHECK_DEADLOCK FALSE
