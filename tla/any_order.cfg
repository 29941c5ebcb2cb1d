SPECIFICATION Spec
CONSTANTS
    SeqMod <- MCSeqMod
    PacketsPerFrame <- MCPacketsPerFrame
    FirstSeq <- MCFirstSeq
    Blank = blank
    Frames = 3
    JoinAt <- MCJoinAnywhere
    MaxSkip = 4
    Reach = 4
    Duplicates = TRUE
    Arrivals = {"intact"}
    MaxPackets = 7
INVARIANTS
    PictureInvariant
    CompleteFrameIsATail
CHECK_DEADLOCK FALSE
