SPECIFICATION Spec
CONSTANTS
    Runs = {1, 2}
    Sources = {1, 2}
    Partitions <- TwoSources
    Retried = {2}
    Cap = 1
    History = 1
    Answerable = {}
    None = None
    MaxFaults = 1
INVARIANTS TypeOK 
PROPERTIES KeepsItsPromise PruningSparesOthers
CHECK_DEADLOCK FALSE
