SPECIFICATION BuildsSpec
CONSTANTS
    Iocp = TRUE
    NumBuffers = 3
    BatchSize = 2
    SocketQueue = 3
    Faults = {"init", "socket", "pool", "port", "thread", "prime", "dequeue", "repost", "wakeup"}
INVARIANTS
    TypeOK
    QuiescentIsClean
    ThreadOwnsItsMemory
    BufferHasOneHolder
    RunningMeansReceiving
PROPERTIES
    
    BuffersStayInUse
    StopReturnsOrThreadWaits
    KeepsPromise
CHECK_DEADLOCK FALSE
