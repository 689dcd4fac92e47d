SPECIFICATION FairSpec
CONSTANTS
    a = a
    b = b
    x1 = x1
    x2 = x2
    y1 = y1
    dai = dai
    ape = ape
    Nobody = Nobody
    Accounts = {a, b}
    Shards = {x1, x2, y1}
    OwnerOf <- MCOwnerOf
    AssetOf <- MCAssetOf
    Early = {x2, y1}
    MaxClients = 2
    MaxSends = 1
    Syncs = {s1, s2}
    s1 = s1
    s2 = s2
CHECK_DEADLOCK FALSE
INVARIANTS SessionsAreApart
PROPERTIES DashboardIsOwn ScreensAgree
