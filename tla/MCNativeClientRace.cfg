\* A disconnect() of one host thread against the calls of another.
CONSTANTS
    Hosts = {"h1", "h2"}
    Capacity = 1
    MaxBatch = 1
    MaxDeliveries = 1
    MaxConnects = 2
    MaxUpdates = 1
SPECIFICATION FairSpec
PROPERTIES DisconnectReturns
CHECK_DEADLOCK FALSE
