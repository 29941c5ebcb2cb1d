SPECIFICATION Spec
CONSTANTS
    Iocp = TRUE
    NumBuffers = 3
    BatchSize = 2
    SocketQueue = 1
    Faults = {}
INVARIANTS
    KernelOwnsItsBuffers
CHECK_DEADLOCK FALSE
