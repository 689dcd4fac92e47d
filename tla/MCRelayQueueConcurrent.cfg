SPECIFICATION ConcurrentSpec
CONSTANTS
    p1 = p1
    p2 = p2
    r1 = r1
    r2 = r2
    r3 = r3
    Requests = {r1, r2}
    Paymasters = {p1}
    PaymasterOf <- PairPaymasterOf
    MaxGasOf <- PairMaxGasOf
    InitialDeposit <- PairInitialDeposit
    GasPrices = {1}
CHECK_DEADLOCK FALSE
INVARIANTS NeverOverCommitted
