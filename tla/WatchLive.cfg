CONSTANTS
    MaxLines = 2
    MaxWin = 1
    Texts <- AllTexts
    Modes <- AllModes
    Paths <- OnePath
    ModeOf <- OneSuffix
    Contents <- MidWrite
    Absent = Absent  Unreadable = Unreadable  None = None
    MaxRuns = 1
    MaxSaves = 2
SPECIFICATION Spec
INVARIANT KeptLive
CHECK_DEADLOCK FALSE
