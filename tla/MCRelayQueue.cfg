SPECIFICATION FairSpec
CONSTANTS
    p1 = p1
    p2 = p2
    r1 = r1
    r2 = r2
    r3 = r3
    Requests = {r1, r2, r3}
    Paymasters = {p1, p2}
    PaymasterOf <- MCPaymasterOf
    MaxGasOf <- MCMaxGasOf
    InitialDeposit <- MCInitialDeposit
    GasPrices = {1, 2}
CHECK_DEADLOCK FALSE
INVARIANTS EscrowCoversSubmitted WorkerAwake  AnswerIsTrue
PROPERTIES ServesInOrder LocksAreReleased
