SPECIFICATION LiveSpec
CONSTANTS
    t1 = t1  t2 = t2   a1 = a1  a2 = a2  a3 = a3
    Tickers <- MCTickers
    Articles = {a1, a2, a3}
    Published <- MCPublished
    Of <- MCOf
    Lookback <- MCLookback
    Malformed = {}
    NoCursor = NoCursor
    Day = 1
    Overlap = 1
    Late = 1
    Ahead = 0
    PageSize = 1
    MaxPages = 2
    WorkLimit = 1
    RequestLimit = 2
    MaxTick = 2
    Delistable = {t1}
    Refreshable = {t2}
    MaxRefreshes = 1
    MaxFaults = 1
INVARIANTS TypeOK NothingSkipped
PROPERTIES Delivered
CHECK_DEADLOCK FALSE
