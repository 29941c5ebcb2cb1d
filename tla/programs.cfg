SPECIFICATION ProgramsSpec
CONSTANTS
    UintMod = 32
    MaxWidth = 4
    MaxHeight = 2
    MaxFrames = 3
    Settings <- MCSettings
    Options <- MCOptions
    CliWidth = 2
    CliHeight = 2
INVARIANTS
    CallbackHasItsSource
    ShownFrameIsSound
    NothingLeaks
    StatsFollowTheCallback
    OutputOutlivesCallback
    StopsForAReason
PROPERTIES
    CallsReturn
    ReachesTheCount
CHECK_DEADLOCK FALSE
