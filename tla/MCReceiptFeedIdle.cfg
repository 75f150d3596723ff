CONSTANTS
    Partitions <- TwoPartitions
    HourLength = 2
    WindowHours = 2
    Cutoff = 0
    MaxNow = 6
    MaxQueries = 1
SPECIFICATION FairSpec
PROPERTY EventuallyConsistent
CHECK_DEADLOCK FALSE
