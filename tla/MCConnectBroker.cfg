\* Three requests for two creators and of two customers, each a ticket or a relay, with scarce permits.
\* Java: two operations with one retry each, a call of the application or a failure of the network
\* against every late callback, and a queue that the report of one failure fills.
CONSTANTS
    Requests = {r1, r2, r3}
    Creators = {k1, k2}
    Customers = {c1, c2}
    None = None
    MaxRequests = 2
    MaxDiscovery = 2
    MaxSigns = 1
    MaxRelays = 2
    PerCustomer = 1
    CacheCapacity = 1
    Setups <- BrokerAndEmbedded
    TaskCapacity = 3
    RetryAttempts = 1
    MaxConnects = 2
    MaxCalls = 1
    MaxFaults = 1
    MaxTrouble = 1
    MaxBatches = 1
    MaxBatch = 1
SPECIFICATION PartSpec
SYMMETRY Symmetry
INVARIANTS SingleFlight PermitsConserved Ownership
PROPERTIES ToldInTurn
CHECK_DEADLOCK FALSE
