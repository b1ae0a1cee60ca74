\* Two requests that drop their leases at the same time.
CONSTANTS
    Requests = {r1, r2}
    Creators = {k1}
    Customers = {c1}
    None = None
    MaxRequests = 2
    MaxDiscovery = 1
    MaxSigns = 1
    MaxRelays = 1
    PerCustomer = 1
    CacheCapacity = 1
    Setups <- BrokerAndEmbedded
    TaskCapacity = 3
    RetryAttempts = 1
    MaxConnects = 1
    MaxCalls = 1
    MaxFaults = 1
    MaxTrouble = 1
    MaxBatches = 1
    MaxBatch = 1
SPECIFICATION PartSpec
INVARIANTS FlightsOwned
CHECK_DEADLOCK FALSE
