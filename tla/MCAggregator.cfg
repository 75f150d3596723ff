SPECIFICATION Spec
CONSTANTS
    pA = pA
    pB = pB
    keyA = keyA
    oldA = oldA
    keyB = keyB
    Payers = {pA, pB}
    Signers = {keyA, oldA, keyB}
    MaxSigningKeys = 2
    MaxAccepted = 2
    Receipts <- MCReceipts
    EarlierRavs <- MCEarlierRavs
    MaxBatch = 2
    MaxValue = 6
INVARIANTS TypeOK OnePayerPerSigner RegistryMatchesConfig NeverOverPromised SignersVouchForTheirPayer PublishedDebtIsBacked
CHECK_DEADLOCK FALSE
