SPECIFICATION Spec
CONSTANTS
    t1 = t1  w1 = w1  w2 = w2  a = a  b = b
    Threads = {t1}
    Writers = {w1}
    Plans = {a}
    MaxEntries = 1
    Ttl = 2
    MaxWrites = 1
    MaxAsks = 2
    MaxFaults = 0
    MaxClock = 0
PROPERTIES HitKnowsCompanyFacts
CHECK_DEADLOCK FALSE
