CONSTANTS
    d1 = d1  d2 = d2  i1 = i1  i2 = i2
    a1 = a1  m1 = m1  m2 = m2
    t1 = t1  t2 = t2  r1 = r1
    NoFile = NoFile  Torn = Torn  None = None
    Dirs <- OneDir
    Ids <- TwoIds
    Tids <- OneTid
    Dims <- OneDim
    Threads <- TwoThreads
    Readers <- OneReader
    MaxVer = 3
SYMMETRY Symm
SPECIFICATION Spec
INVARIANTS
    TypeOK
    CallsConsistent
    MetadataNeverAhead
    NoTearWithinSession
    OneEntryPerId
PROPERTY IsDurableMap
\* A create cut after tier.kind leaves a directory no open accepts again.
CHECK_DEADLOCK FALSE
