\* Two clients that come, stall and leave while updates are broadcast.
\* The process ends with a panic, or waits for peers, so deadlock is not checked.
CONSTANTS
    c1 = c1
    c2 = c2
    ev1 = ev1
    ev2 = ev2
    Clients = {c1, c2}
    Events = {ev1}
    BufferSize = 1
    MaxMessages = 2
SPECIFICATION FairSpec
INVARIANTS
    ClosedOnce
    NoGaps
PROPERTIES
    BroadcastEnds
    ClosedLeave
CHECK_DEADLOCK FALSE
