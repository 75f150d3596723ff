SPECIFICATION FeedSpec
CONSTANTS
    pA = pA
    pB = pB
    keyA = keyA
    keyB = keyB
    Payers = {pA, pB}
    Signers = {keyA, keyB}
    MaxSigningKeys = 2
    MaxAccepted = 0
    Receipts <- MCReceipts
    EarlierRavs = {}
    MaxBatch = 2
    MaxValue = 8
    HalfBase = 3
    Versions = {"0.0", "0.1"}
    QueueLimit = 1
    MaxHandled = 3
    FeedSigners = {keyA}
    ManagerPayer = pA
INVARIANT RavsCountAsDebt
CHECK_DEADLOCK FALSE
