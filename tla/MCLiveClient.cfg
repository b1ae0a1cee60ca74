\* A guest or a supplied identity, with and without listeners that call connect() themselves.
CONSTANTS
    RoomGiven = FALSE
    FetchRoomInfo = TRUE
    FetchGifts = TRUE
    Attempts = 2
    MaxGen = 4
SPECIFICATION FairSpec
INVARIANTS Ownership SignerMatchesIdentity
PROPERTIES RefusalIsFinal Resolves
CHECK_DEADLOCK FALSE
