CONSTANTS
    d1 = d1  d2 = d2  i1 = i1  i2 = i2
    a1 = a1  m1 = m1  m2 = m2
    t1 = t1  t2 = t2  r1 = r1
    NoFile = NoFile  Torn = Torn  None = None
    Dirs <- OneDir
    Ids <- OneId
    Tids <- OneTid
    Dims <- OneDim
    Threads <- OneThread
    Readers <- OneReader
    MaxVer = 2
SYMMETRY Symm
SPECIFICATION Spec
INVARIANT ReaderNeverPartial
CHECK_DEADLOCK FALSE
