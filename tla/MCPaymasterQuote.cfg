SPECIFICATION QuoteFairSpec
CONSTANTS
    BaseFees = {1, 3}
    GasAmounts <- MCGasAmounts
    maxPriorityFeePerGas = 1
    SIMULATION_GAS_CAP = 25000
    PRE_VERIFICATION_FLOOR = 21
    COLD_STORAGE_BUFFER = 40
    POST_EXECUTION_OVERHEAD = 20
    UintMax = 4294967
    VALIDITY_SECONDS = 2
    MaxTime = 4
CHECK_DEADLOCK FALSE
INVARIANTS QuoteTypeOK LimitsCoverEstimate LimitsFitRouter QuoteIsFresh
PROPERTIES RequestIsAnswered
