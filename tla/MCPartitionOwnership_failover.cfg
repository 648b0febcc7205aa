\* Two engines fail over; after the last fault one of them owns the partition.
SPECIFICATION FairSpec
CONSTANTS
    Engines = {e1, e2}
    DbWorkers = {w1}
    MaxFaults = 3
    MaxEvents = 3
    None = None
INVARIANTS
    TokensUnique
PROPERTIES
    AppliedMonotone
    HolderKeepsLease
    FailoverCompletes
\* The bounds on faults and events may be used up.
CHECK_DEADLOCK FALSE
