SPECIFICATION Spec
CONSTANTS
    finnhub = finnhub  massive = massive  massive_news = massive_news
    scheduler = scheduler  api = api
    Unknown = Unknown
    Sources = {finnhub}
    Buckets = {finnhub}
    Bucket <- Account
    Processes = {scheduler}
    Refreshers = {}
    PerMinute = 1
    PerDay = 2
    PerRun = 2
    Remainders = {0}
    Resets = {2}
    MaxClock = 2
    MaxFaults = 1
INVARIANTS TypeOK LedgerWithinDay
PROPERTIES CooldownRespected
CHECK_DEADLOCK FALSE
