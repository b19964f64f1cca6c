CONSTANTS
    broad1 = broad1
    legacy1 = legacy1
    indexed1 = indexed1
    big1 = big1
    flat1 = flat1
    lost1 = lost1
    None = None
    Weekdays = {0}
    Holidays = {}
    LastDay = 0
    Filings = {legacy1, indexed1, big1, flat1, lost1}
    FiledOn <- MCFiledOn
    Kind <- MCKind
    Oversized = {big1}
    Unsplit = {flat1}
    Unparseable = {lost1}
    Overlap = 0
    Lookback = 1
    BatchLimit = 4
    Steady = TRUE
    MaxFaults = 1
SPECIFICATION LiveSpec
PROPERTY FilingsParsed
CHECK_DEADLOCK FALSE
