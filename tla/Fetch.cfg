SPECIFICATION FetchSpec
CONSTANTS
    Days = 2
    CacheTtl <- MCCacheTtl
    Interval = 2
    Timeout = 1
    Lag = 6
    MaxAge = 7
    MaxTroubles = 1
    MaxRequests = 1
INVARIANTS CardIsCurrent InsightArrives
PROPERTY CacheNeverGoesBack
CHECK_DEADLOCK FALSE
