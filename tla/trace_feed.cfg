SPECIFICATION LiveSpec
CONSTANTS
    q1 = q1  q2 = q2  e1 = e1  e2 = e2  b1 = b1
    Queries = {q1, q2}
    Elements = {e1}
    Browsers = {b1}
    Selecting = {b1}
    TraceLimit = 1
    ElementLimit = 2
    LogLimit = 3
    QueueLimit = 1
    WireLimit = 1
    MaxEvents = 3
    MaxFaults = 1
    Nobody = Nobody
INVARIANTS TypeOK 
PROPERTIES KeepsItsPromise CatchesUp
CHECK_DEADLOCK FALSE
