SPECIFICATION FairSpec
CONSTANTS
    token = token
    alice = alice
    s1 = s1
    s2 = s2
    Nothing = Nothing
    Thrown = Thrown
    ZeroAddress = ZeroAddress
    Words <- MCWords
    Order <- MCOrder
    Points <- MCPoints
    Infinity = 0
    PublicKey <- MCPublicKey
    Times <- MCTimes
    Plus <- MCPlus
    Coordinate <- MCCoordinate
    Keccak <- MCKeccak
    ViewTag <- MCViewTag
    Keys <- Me
    Payments <- MCPayments
    OtherLogs <- MCOtherLogs
    DrawsOf <- MCDrawsOf
    Ivs = {0, 1}
    Syncs = {s1, s2}
    ChunkSize = 2
    MaxAmount = 1
    MaxEvents = 1
CHECK_DEADLOCK FALSE
INVARIANTS PaymentsFound MetadataArrives ShardKeysOpen OwnedTokensStay
 
