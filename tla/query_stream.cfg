SPECIFICATION LiveSpec
CONSTANTS
    r1 = r1  r2 = r2
    Requests = {r1, r2}
    Streams = {r1}
    Setups <- Representative
    MaxRounds = 2
    MaxRefreshes = 1
    MaxTokens = 2
    MaxFaults = 2
    Silent = Silent
INVARIANTS TypeOK   TraceIsClosed
PROPERTIES KeepsItsPromise EveryRequestEnds
CHECK_DEADLOCK FALSE
