SPECIFICATION FairSpec
CONSTANTS
    CounterMod = 8
    MaxPackets = 3
    MaxAttempts = 2
    LoadsInOrder = TRUE
INVARIANTS
    TypeOK
    FramesHavePackets
PROPERTIES
    KeepsPromise
    SnapshotReturns
CHECK_DEADLOCK FALSE
