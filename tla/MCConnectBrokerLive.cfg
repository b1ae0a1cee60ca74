\* Liveness: two requests, so that one waits for the lookup of the other.
\* Java: one operation, which may fail more often than it is retried, and overflow at every point.
CONSTANTS
    Requests = {r1, r2}
    Creators = {k1, k2}
    Customers = {c1}
    None = None
    MaxRequests = 2
    MaxDiscovery = 1
    MaxSigns = 1
    MaxRelays = 1
    PerCustomer = 1
    CacheCapacity = 1
    Setups <- BrokerAndEmbedded
    TaskCapacity = 3
    RetryAttempts = 1
    MaxConnects = 1
    MaxCalls = 1
    MaxFaults = 1
    MaxTrouble = 2
    MaxBatches = 1
    MaxBatch = 2
SPECIFICATION PartFairSpec
PROPERTIES Answered Settles
CHECK_DEADLOCK FALSE
