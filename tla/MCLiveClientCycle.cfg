\* A 'disconnected' listener that calls connect() itself.
CONSTANTS
    RoomGiven = FALSE
    FetchRoomInfo = FALSE
    FetchGifts = FALSE
    Attempts = 2
    MaxGen = 5
SPECIFICATION FairSpec
PROPERTIES NeverCyclesIdentity
CHECK_DEADLOCK FALSE
