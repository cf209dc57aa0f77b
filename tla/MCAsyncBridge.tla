--------------------------- MODULE MCAsyncBridge ---------------------------
(* Model values and the small instance of AsyncBridge.                     *)
EXTENDS AsyncBridge, TLC

CONSTANTS b1, b2, c1, c2

TwoBridges  == {b1, b2}
TwoRequests == {c1, c2}
AllAccepts  == {"returns", "panics", "reenters"}

\* At most three vectors, one of them a ghost.
ShortRankings ==
    {r \in UNION {[1 .. n -> Classes] : n \in 0 .. 3} :
        \A p, q \in DOMAIN r : r[p] = "ghost" /\ r[q] = "ghost" => p = q}
=============================================================================
