\* A BUY that improves its price as taker and fills as maker.
SPECIFICATION Spec
CONSTANTS
    u1 = u1  u2 = u2  e1 = e1  e2 = e2  p1 = p1  p2 = p2
    o1 = o1  o2 = o2  o3 = o3  o4 = o4
    Free = Free
    NoOrder = NoOrder
    Users <- TwoUsers
    Events <- OneEvent
    Outcomes <- YesOnly
    OrderIds <- ThreeOrders
    Partitions <- OneWorker
    PartitionOf <- OneRouting
    DefaultPartition = p1
    Quantities = {1, 2}
    Prices = {1, 2}
    BuyTypes <- LimitOnly
    StartingBalance = 4
    SeedShares = 2
    MaxInt = 100
    RedisFails = FALSE
    LostFanout = FALSE
    UnroutedCancels = FALSE
INVARIANTS
    ClosedHoldNothing
SYMMETRY Symmetry
\* With every order id used the engine has nothing left to do.
CHECK_DEADLOCK FALSE
