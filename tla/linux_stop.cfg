SPECIFICATION Spec
CONSTANTS
    Iocp = FALSE
    NumBuffers = 1
    BatchSize = 1
    SocketQueue = 3
    Faults = {"socket", "thread"}
PROPERTIES
    StopReturns
CHECK_DEADLOCK FALSE
