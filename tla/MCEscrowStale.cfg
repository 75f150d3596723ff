CONSTANTS
    MinDeposit = 2  MaxAdjustment = 8  Round = 4
    FillNum = 4  FillDen = 5  MarginNum = 1  MarginDen = 2  MinWithdraw = 2
    Receivers <- OneReceiver
    Debts <- NoOrFullDebt
    ConfigDebts <- NoConfigDebts
    Signers = {}
    Reclaiming = TRUE
    GrtAllowance = 24
    Unlimited = TRUE
    ThawPeriod = 1
    MaxLag = 1
    Unreliable = TRUE
    MaxPending = 1
    MaxRestarts = 0
    MaxCollects = 0
    Collections <- OneCollection
SPECIFICATION Spec
PROPERTY NeverPlansOnStaleData
