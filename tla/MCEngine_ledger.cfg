\* Two workers share the users' cash across two events.
SPECIFICATION Spec
CONSTANTS
    u1 = u1  u2 = u2  e1 = e1  e2 = e2  p1 = p1  p2 = p2
    o1 = o1  o2 = o2  o3 = o3  o4 = o4
    Free = Free
    NoOrder = NoOrder
    Users <- TwoUsers
    Events <- TwoEvents
    Outcomes <- YesOnly
    OrderIds <- ThreeOrders
    Partitions <- TwoWorkers
    PartitionOf <- SplitRouting
    DefaultPartition = p1
    Quantities = {1, 2}
    Prices = {1, 2}
    BuyTypes <- LimitOnly
    StartingBalance = 4
    SeedShares = 2
    MaxInt = 100
    RedisFails = FALSE
    LostFanout = FALSE
    UnroutedCancels = FALSE
INVARIANTS
    Conserved
    ReservedBacked
    FundsCovered
    DepthAgrees
PROPERTIES
    EventsInOrder
SYMMETRY Symmetry
\* With every order id used the engine has nothing left to do.
CHECK_DEADLOCK FALSE
