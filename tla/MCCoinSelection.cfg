SPECIFICATION Spec
CONSTANTS
    Size = 3
    MinBalance = 1
    MaxBalance = 5
    MinAmount = 0
    MaxAmount = 9
    MaxValue = 15
    Dust = 2
    MaxSplitsPerSide = 2
    Wallets <- MCWallets
    Amounts <- MCAmounts
CHECK_DEADLOCK FALSE
INVARIANTS CapacitySuffices PaysExactly BalancesAddUp NoDustOutputs
