CONSTANTS
    MinDeposit = 2  MaxAdjustment = 8  Round = 4
    FillNum = 4  FillDen = 5  MarginNum = 1  MarginDen = 2  MinWithdraw = 1
    Receivers <- OneReceiver
    Debts <- NoOrSmallDebt
    ConfigDebts <- NoConfigDebts
    Signers = {}
    Reclaiming = TRUE
    GrtAllowance = 24
    Unlimited = TRUE
    ThawPeriod = 1
    MaxLag = 1
    Unreliable = TRUE
    MaxPending = 1
    MaxRestarts = 1
    MaxCollects = 1
    Collections <- OneCollection
SPECIFICATION FairSpec
INVARIANT LoopHasAllowance
PROPERTIES DebtIsCovered ThawEnds StartupEnds
