\* Failovers, redelivery and replay into blank and used memories.
\* The stream may end, and the engines may wait for ever, so deadlock is not checked.
CONSTANTS
    e1 = e1
    e2 = e2
    x = x
    y = y
    NoEngine = NoEngine
    Engines <- TwoEngines
    Orders <- TwoOrders
    BatchSize = 2
    MaxLog = 3
    MaxFaults = 1
    Free = NoEngine
SPECIFICATION FairSpec
INVARIANTS
    StateIsLog
    AtLeastOnce
    EffectsAnnounced
PROPERTIES
    CommandsHandled
ACTION_CONSTRAINT FirstNames
CHECK_DEADLOCK FALSE
