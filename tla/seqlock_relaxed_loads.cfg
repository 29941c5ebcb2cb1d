SPECIFICATION Spec
CONSTANTS
    CounterMod = 8
    MaxPackets = 4
    MaxAttempts = 2
    LoadsInOrder = FALSE
INVARIANTS
    PairNotTorn
CHECK_DEADLOCK FALSE
