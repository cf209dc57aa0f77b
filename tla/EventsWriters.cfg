CONSTANTS
    d1 = d1  i1 = i1  i2 = i2  a1 = a1  t1 = t1  t2 = t2  s1 = s1  s2 = s2
    NoFile = NoFile  Torn = Torn  None = None
    Dirs <- OneDir
    Ids <- OneId
    Tids <- OneTid
    Dims <- OneDim
    Threads <- TwoThreads
    Readers <- NoReader
    Subs <- TwoStreams
    Filters <- AllOnly
    Calls <- Blocking
    MaxVer = 2
SYMMETRY Symm
SPECIFICATION WritersSpec
INVARIANT
    EveryEventOnce
PROPERTIES
    DeadPruned
    BroadcastSpec
\* When the tenant is closed and its streams are gone nothing is left to do.
CHECK_DEADLOCK FALSE
