CONSTANTS
    MinDeposit = 2  MaxAdjustment = 8  Round = 3
    FillNum = 3  FillDen = 4  MarginNum = 1  MarginDen = 2  MinWithdraw = 2
    Receivers <- TwoReceivers
    Debts <- NoOrFullDebt
    ConfigDebts <- NoConfigDebts
    Signers = {s1, s2}
    Reclaiming = TRUE
    GrtAllowance = 24
    Unlimited = FALSE
    ThawPeriod = 1
    MaxLag = 1
    Unreliable = FALSE
    MaxPending = 1
    MaxRestarts = 0
    MaxCollects = 1
    Collections <- OneCollection
SPECIFICATION Spec
INVARIANT CycleIsCapped
