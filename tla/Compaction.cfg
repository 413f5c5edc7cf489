SPECIFICATION CompactionSpec
CONSTANTS
    MaxLength = 5
    Sizes = {1, 9}
    CallSizes = {5}
    Preview = 2
    TextMax = 6
    VerbosePairs = 2
    Budget = 7
    KeepRecent = 9
    Floor = 2
    Window = 8
    SummarySizes = {1, 2}
CHECK_DEADLOCK FALSE
INVARIANTS
    CommittedIsTurnSuffix
    DropsOnlyToFit
