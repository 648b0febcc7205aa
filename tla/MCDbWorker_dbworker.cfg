\* Two events in two partitions, four orders (two of them market orders), one DB worker and one failure of it, or a rolled back event.
SPECIFICATION FairSpec
CONSTANTS
    u1 = u1  u2 = u2  e1 = e1  e2 = e2  p1 = p1  p2 = p2  w1 = w1  w2 = w2
    a = a  b = b  c = c  d = d  NoOrder = NoOrder
    Workers <- OneWorker
    Users <- TwoUsers
    Events <- TwoEvents
    Partitions <- TwoPartitions
    PartitionOf <- SplitRouting
    Orders <- FourOrders
    UserOf <- CrossUsers
    EventOf <- CrossEvents
    SideOf <- CrossSides
    QuantityOf <- CrossQuantities
    PriceOf <- CrossPrices
    MarketOrders <- TakerOrders
    Balance = 2
    BatchSize = 2
    MaxFails = 1
INVARIANTS
    SettledOnce
    FilledExact
    ProjectionCatchesUp
    
    AckedApplied
PROPERTIES
    EventsHandled
ACTION_CONSTRAINT EngineFirst
\* Every order may have been handled and every event applied.
CHECK_DEADLOCK FALSE
