SPECIFICATION Spec
CONSTANTS
    SeqMod <- MCSeqMod
    PacketsPerFrame <- MCPacketsPerFrame
    FirstSeq <- MCFirstSeq
    Blank = blank
    Frames = 4
    JoinAt <- MCJoinAtFrameStart
    MaxSkip = 8
    Reach = 0
    Duplicates = FALSE
    Arrivals = {"intact"}
    MaxPackets = 12
INVARIANTS
    CompleteMeansWhole
CHECK_DEADLOCK FALSE
