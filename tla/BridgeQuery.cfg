CONSTANTS
    b1 = b1  b2 = b2  c1 = c1  c2 = c2
    None = None
    Bridges <- TwoBridges
    Requests <- TwoRequests
    Accepts <- AllAccepts
    PoolSizes = {1, 2}
    Rankings <- ShortRankings
    TopKs = {0, 2}
    Factor = 2
    Floor = 1
SPECIFICATION BridgeSpec
INVARIANTS
    BridgeTypeOK
    DroppedWithLast
    OnlyCancelledOutlive
    HitsSound
    NoneSkipped
    HitsBounded
    AgreesWithMock
PROPERTIES
    CallsEnd
\* When every call is over, or one is stuck, nothing is left to do.
CHECK_DEADLOCK FALSE
