CONSTANTS
    Partitions <- TwoPartitions
    HourLength = 2
    WindowHours = 2
    Cutoff = 2
    MaxNow = 6
    MaxQueries = 1
SPECIFICATION FairSpec
PROPERTY ReplayStops
CHECK_DEADLOCK FALSE
