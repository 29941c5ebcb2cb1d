SPECIFICATION Spec
CONSTANTS
    PacketLengths <- MCPacketLengths
    CsrcCounts = {0, 1}
    ExtensionWords = {0, 1}
    SegLengths = {0, 2, 6}
    LineNumbers = {0, 1, 2}
    PixelOffsets = {0, 3}
    MaxSegments = 3
    Width = 4
    Height = 2
    PixelsPerGroup = 2
    PgroupSize = 5
INVARIANTS
    TypeOK
    StaysInBounds
    CopiesFollowTheLayout
PROPERTIES
    WalkEnds
CHECK_DEADLOCK FALSE
