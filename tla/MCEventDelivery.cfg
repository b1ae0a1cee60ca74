\* The ring: two slots, and a byte budget that three small charges or one large one exhaust.
\* The handoff: two places, two notices to a pump. The streaks: two senders, two remembered.
CONSTANTS
    Capacity = 2
    MaxBytes = 4
    BatchSize = 2
    Charges = {1, 3}
    MaxBatch = 3
    MaxEvents = 5
    MaxGen = 4
    HandoffCapacity = 2
    PumpBatch = 2
    MaxCallbacks = 4
    Senders = {"a", "b"}
    MaxCount = 2
    MaxMessages = 4
    StreakMemory = 2
SPECIFICATION PathSpec
INVARIANTS Accounting Budget OneImmediate HandoffContract EachGiftOnce
PROPERTIES NothingAfterDisconnect EventuallyLeaves InOrder NativeReleased
\* A disconnected client may wait for its user for ever.
CHECK_DEADLOCK FALSE
