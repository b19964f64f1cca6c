SPECIFICATION LiveSpec
CONSTANTS
    n1 = n1  n2 = n2  p1 = p1  s1 = s1  v1 = v1  v2 = v2  w1 = w1
    None = None
    Items = {n1, n2, p1}
    News = {n1, n2}
    Sections = {s1}
    Unindexed = {p1}
    Versions = {v1, v2}
    DirectVersions = {v2}
    Workers = {w1}
    RetentionLimit = 2
    RepairLimit = 2
    MaxWrites = 3
    MaxFaults = 2
INVARIANTS TypeOK IndexedIsServed ExposedDriftIsOwed TombstoneErased
PROPERTIES FailedNewsIsIndexed PurgedIsSettled NoResurrection FreshnessByRevision
CHECK_DEADLOCK FALSE
