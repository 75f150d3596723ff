CONSTANTS
    Partitions <- TwoPartitions
    HourLength = 2
    WindowHours = 3
    Cutoff = 0
    MaxNow = 7
    MaxQueries = 2
SPECIFICATION FairSpec
INVARIANTS TypeOK CountedOnce NothingLost
PROPERTY ReplayStops
CHECK_DEADLOCK FALSE
