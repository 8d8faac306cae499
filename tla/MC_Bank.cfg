SPECIFICATION Spec
CONSTANTS
    anna = anna
    anna2 = anna2
    bert = bert
    bridge = bridge
    Players = {1, 2}
    Sessions <- MCSessions
    Owner <- MCOwner
    Operator = bridge
    Things = {coin, ware}
    Coin = coin
    Price = 1
    Slots = 1
    Stock <- MCStock
    Savings <- MCSavings
    MaxUnits = 1
    MaxDealings = 2
    MaxLogins = 3
INVARIANTS
    TypeOK
    BalanceIsReceipts
    WealthIsKept
    RowsKeepUp
CHECK_DEADLOCK FALSE
