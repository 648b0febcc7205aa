\* Redis and the disk fail, and the process crashes anywhere.
SPECIFICATION FairSpec
CONSTANTS
    MaxEmits = 3
    Trades <- OddTrades
    MaxCrashes = 2
    RedisFails = TRUE
    DiskFails = TRUE
    TornWrites = TRUE
INVARIANTS
    NoneLostByCrash
    StreamInOrder
    AckedDelivered
    LossOnlyBehindSuccess
PROPERTIES
    JournaledDelivered
\* The workers may have nothing more to emit.
CHECK_DEADLOCK FALSE
