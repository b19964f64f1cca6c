CONSTANTS
    broad1 = broad1
    legacy1 = legacy1
    indexed1 = indexed1
    big1 = big1
    flat1 = flat1
    lost1 = lost1
    None = None
    Weekdays = {0, 1, 2, 3}
    Holidays = {1}
    LastDay = 3
    Filings = {broad1, indexed1}
    FiledOn <- MCFiledOn
    Kind <- MCKind
    Oversized = {}
    Unsplit = {}
    Unparseable = {}
    Overlap = 1
    Lookback = 2
    BatchLimit = 2
    Steady = TRUE
    MaxFaults = 2
SPECIFICATION Spec
INVARIANTS TypeOK NoDateSkipped AbsentIsUnpublished ProcessedIsRegistered ParsedIsComplete
CHECK_DEADLOCK FALSE
