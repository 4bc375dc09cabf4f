CONSTANTS
    IoCount = 1
    AdcCount = 1
    Values <- Binary
    Commands <- Writes
    Roominess <- Both
    MaxWire = 1
    NoValue = NoValue
SPECIFICATION HistorySpec
INVARIANTS
    HistoryTypeOK
    OnlyNewsIsFlagged
    ServerAccounts
    ClientAccounts
