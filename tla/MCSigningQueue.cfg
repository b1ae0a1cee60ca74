\* Three calls compete for a queue of one place and the worker; two processes share a cache.
CONSTANTS
    Requests = {r1, r2, r3}
    Capacity = 1
    None = None
    Processes = {"p", "q"}
    MaxFlights = 2
    MaxLoads = 3
SPECIFICATION PartSpec
INVARIANTS NobodyForgotten GivenIsExpected
PROPERTIES NothingSignedAfterDrop NobodyWaitsForever FlightsEnd
CHECK_DEADLOCK FALSE
