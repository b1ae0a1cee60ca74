\* Two host threads, two connections, a queue of one delivery.
CONSTANTS
    Hosts = {"h1", "h2"}
    Capacity = 1
    MaxBatch = 2
    MaxDeliveries = 2
    MaxConnects = 2
    MaxUpdates = 2
SPECIFICATION FairSpec
INVARIANTS CallbackContract
PROPERTIES CallsReturn
\* A client may be left disconnected for ever.
CHECK_DEADLOCK FALSE
