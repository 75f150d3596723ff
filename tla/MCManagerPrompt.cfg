SPECIFICATION FairStorageSpec
CONSTANTS
    Receipts <- ThreeReceipts
    Flaky <- FlakyReceipts
    Requesters = {q1}
    Deliveries = 2
    Buffer = 1
    LongestBuffer = 2
    MaxDelay = 1
    Limit = 4
    MaxValue = 7
    MaxNow = 6
INVARIANTS TypeOK RavsWorthTheirSources NoReceiptStranded TruncationIsSafe
PROPERTIES RemovesOnlyAggregated LastRavOnlyGrows StoredIsSettled InvalidAreRemoved
