SPECIFICATION Spec
CONSTANTS
    Width = 20
    Height = 2
    PixelsPerGroup = 2
    PgroupSize = 5
    Payload = 42
    SeqMod = 8
    TsMod = 16
    TsStep = 12
    Count = 3
    OffsetLimit = 32
    Drops = TRUE
    SendFails = TRUE
    Blank = blank
INVARIANTS
    ReadAsWritten
CHECK_DEADLOCK FALSE
