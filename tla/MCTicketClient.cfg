\* The client: two reconnect attempts and four generations, with and without listeners that connect.
\* The monitor: two creators and room for one, the second watch after the first; one waiting transition.
CONSTANTS
    FetchGifts = TRUE
    Attempts = 2
    MaxGen = 4
    Creators = {"anna", "ben"}
    Hosts = {"h1"}
    Confirmations = 2
    MaxWatches = 1
    QueueCapacity = 1
    MaxMade = 2
SPECIFICATION PartSpec
INVARIANTS Ownership PollsNeverOverlap
PROPERTIES RetryAfterHonoured Resolves TransitionsHonest WatchesPoll
CHECK_DEADLOCK FALSE
