CONSTANTS
    Rankings <- BlockRankings
    TopKs = {1, 8, 16}
    Factor = 4
    Floor = 64
SPECIFICATION Spec
INVARIANT OversampleEnough
CHECK_DEADLOCK FALSE
