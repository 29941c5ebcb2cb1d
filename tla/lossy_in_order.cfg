SPECIFICATION Spec
CONSTANTS
    SeqMod <- MCSeqMod
    PacketsPerFrame <- MCPacketsPerFrame
    FirstSeq <- MCFirstSeq
    Blank = blank
    Frames = 4
    JoinAt <- MCJoinAnywhere
    MaxSkip = 8
    Reach = 0
    Duplicates = FALSE
    Arrivals = {"intact", "garbled"}
    MaxPackets = 12
INVARIANTS
    TypeOK
    UnflaggedLacksAtMostItsFront
    IncompleteHasACause
    LossAccounting
    StatsMatchDeliveries
    NoFrameVanishes
PROPERTIES
    DeliveriesAdvance
CHECK_DEADLOCK FALSE
