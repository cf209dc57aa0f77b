CONSTANTS
    MaxLines = 6
    MaxWin = 3
    Texts <- AllTexts
    Modes <- AllModes
    Paths <- TwoPaths
    ModeOf <- Suffixes
    Contents <- FewContents
    Absent = Absent  Unreadable = Unreadable  None = None
    MaxRuns = 2
    MaxSaves = 2
SPECIFICATION Spec
INVARIANTS
    IngestTypeOK
    ChunksInOrder
    ChunksCover
    ParagraphsSeparate
    TreeCovers
    IdsDense
PROPERTIES
    ReportedKept
    Returns
\* A direct call of chunk returns, and the runs and saves are bounded.
CHECK_DEADLOCK FALSE
