SPECIFICATION FairSpec
CONSTANTS
    d1 = d1
    c1 = c1
    t1 = t1
    s1 = s1
    Shards = {d1, c1}
    Deposits = {d1}
    Transfers = {t1}
    ChangeOf <- OneChange
    Syncs = {s1}
    MaxFailures = 2
    MaxRestarts = 1
CHECK_DEADLOCK FALSE
INVARIANTS NoFundsForgotten
PROPERTIES FundsAppear SpentAreDropped
