SPECIFICATION Spec
CONSTANTS
    MaxRecipientPool = 2
    MaxChangePool = 2
    Transfers = {1, 2}
    Requests <- MCRequests
    FirstShards = {1, 2, 3, 4}
    FirstAsset <- MCFirstAsset
    SenderTokens = {2}
    MinPart = 0
    MaxSplits = 2
CHECK_DEADLOCK FALSE
INVARIANTS BundlesExecute PaidExactly FundsAreAnnounced ChangeIsBacked
PROPERTIES SyncPutsRight
