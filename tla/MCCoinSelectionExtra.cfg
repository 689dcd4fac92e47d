SPECIFICATION Spec
CONSTANTS
    Size = 4
    MinBalance = 3
    MaxBalance = 5
    MinAmount = 3
    MaxAmount = 5
    MaxValue = 15
    Dust = 2
    MaxSplitsPerSide = 2
    Wallets <- MCWallets
    Amounts <- MCAmounts
CHECK_DEADLOCK FALSE
INVARIANTS BalancesAddUp
