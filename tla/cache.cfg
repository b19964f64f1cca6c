SPECIFICATION Spec
CONSTANTS
    t1 = t1  w1 = w1  w2 = w2  a = a  b = b
    Threads = {t1}
    Writers = {w1, w2}
    Plans = {a, b}
    MaxEntries = 1
    Ttl = 2
    MaxWrites = 2
    MaxAsks = 3
    MaxFaults = 1
    MaxClock = 2
INVARIANTS TypeOK QuietReadIsCurrent
PROPERTIES HitIsYoung
CHECK_DEADLOCK FALSE
