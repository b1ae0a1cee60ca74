\* The loop: one retry, and a queue of two notices whose bytes run out before or after its slots.
\* The stream: policies of none to two attempts, two losses, two dropped calls.
CONSTANTS
    MaxRetries = 1
    Capacity = 2
    ByteBudget = 4
    BatchCosts = {1, 4}
    StateCost = 2
    NoteCost = 1
    MaxNotices = 8
    MaxAttempts = 2
    MaxBatches = 3
    MaxLosses = 2
    MaxDrops = 2
SPECIFICATION PartSpec
INVARIANTS Prefix Bounded NothingLostSilently
PROPERTIES HonestEnding Concludes RetriesEnd
\* A stream may be closed, or never answered.
CHECK_DEADLOCK FALSE
