\* Two workers compete for the mutex; every emit may fail.
SPECIFICATION FairSpec
CONSTANTS
    u1 = u1  u2 = u2  e1 = e1  e2 = e2  p1 = p1  p2 = p2
    o1 = o1  o2 = o2  o3 = o3  o4 = o4
    Free = Free
    NoOrder = NoOrder
    Users <- TwoUsers
    Events <- TwoEvents
    Outcomes <- YesOnly
    OrderIds <- TwoOrders
    Partitions <- TwoWorkers
    PartitionOf <- SplitRouting
    DefaultPartition = p1
    Quantities = {1}
    Prices = {1}
    BuyTypes <- LimitOnly
    StartingBalance = 1
    SeedShares = 1
    MaxInt = 100
    RedisFails = TRUE
    LostFanout = FALSE
    UnroutedCancels = FALSE
PROPERTIES
    CommandsFinish
\* With every order id used the engine has nothing left to do.
CHECK_DEADLOCK FALSE
