\* A command that was never handled is executed by a replay, in silence.
CONSTANTS
    e1 = e1
    e2 = e2
    x = x
    y = y
    NoEngine = NoEngine
    Engines <- TwoEngines
    Orders <- TwoOrders
    BatchSize = 2
    MaxLog = 2
    MaxFaults = 1
    Free = NoEngine
SPECIFICATION Spec
PROPERTIES
    SuppressedKnown
CHECK_DEADLOCK FALSE
