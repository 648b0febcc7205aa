\* Requests that race each other, their retries and their deadlines.
\* Every request comes to its end, so deadlock is not checked.
CONSTANTS
    r1 = r1
    r2 = r2
    r3 = r3
    ev = ev
    x = x
    NoChannel = NoChannel
    Requests <- Three
    Workloads <- ThreeRequests
    Events = {ev}
    Orders = {x}
    Channels = {c1}
    Partitions = 2
    MaxAppendRetries = 2
    MaxFaults = 2
SPECIFICATION Spec
INVARIANTS
    AnswersTrue
    TakenOnce
    EventsAgree
    FundedEverywhere
CHECK_DEADLOCK FALSE
