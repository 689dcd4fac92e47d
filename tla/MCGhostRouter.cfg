SPECIFICATION Spec
CONSTANTS
    a1 = a1
    a2 = a2
    b1 = b1
    c1 = c1
    eth = eth
    nft = nft
    impl = impl
    otherImpl = otherImpl
    NoPaymaster = NoPaymaster
    NoCode = NoCode
    p1 = p1
    p2 = p2
    NoFrame = NoFrame
    Accounts <- MCAccounts
    Assets <- MCAssets
    Paymasters = {p1, p2}
    Targets <- MCTargets
    GhostShard = impl
    Meshes <- MCMeshes
    InitialBalance <- MCInitialBalance
    GasPrices = {1, 2}
    Deposits = {2}
    UintMax = 2
    Validity = 0
    MaxTime = 1
    MaxDeposited = 2
    MaxEther = 4
INVARIANTS TypeOK MeshIsAtomic   PaymasterLedger Solvent
PROPERTIES ValueLeavesOnce NeverAnnouncesSpent ChargedWithinQuote
CONSTRAINT OneConcern
SYMMETRY PaymasterSymmetry
