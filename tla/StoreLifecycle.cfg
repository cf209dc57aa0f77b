CONSTANTS
    d1 = d1  d2 = d2  i1 = i1  i2 = i2
    a1 = a1  m1 = m1  m2 = m2
    t1 = t1  t2 = t2  r1 = r1
    NoFile = NoFile  Torn = Torn  None = None
    Dirs <- TwoDirs
    Ids <- OneId
    Tids <- OneTid
    Dims <- TwoDims
    Threads <- OneThread
    Readers <- NoReader
    MaxVer = 2
SYMMETRY Symm
SPECIFICATION Spec
INVARIANTS
    HandleDim
    FlushedOrTorn
PROPERTIES
    SnapshotComplete
    IsDurableMap
\* A create cut after tier.kind leaves a directory no open accepts again.
CHECK_DEADLOCK FALSE
