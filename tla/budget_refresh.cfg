SPECIFICATION Spec
CONSTANTS
    finnhub = finnhub  massive = massive  massive_news = massive_news
    scheduler = scheduler  api = api
    Unknown = Unknown
    Sources = {massive, massive_news}
    Buckets = {massive}
    Bucket <- Account
    Processes = {scheduler, api}
    Refreshers = {api}
    PerMinute = 1
    PerDay = 2
    PerRun = 1
    Remainders = {}
    Resets = {}
    MaxClock = 2
    MaxFaults = 1
INVARIANTS AllAccounted OverrunBounded
CHECK_DEADLOCK FALSE
