--------------------------- MODULE MCTenantStore ---------------------------
(* Model values, symmetry and the small instances of TenantStore.          *)
EXTENDS TenantStore, TLC

CONSTANTS d1, d2, i1, i2, a1, m1, m2, t1, t2, r1

OneDir     == {d1}
TwoDirs    == {d1, d2}
OneId      == {i1}
TwoIds     == {i1, i2}
OneTid     == {a1}
OneDim     == {m1}
TwoDims    == {m1, m2}
OneThread  == {t1}
TwoThreads == {t1, t2}
OneReader  == {r1}
NoReader   == {}

Symm == Permutations(Dirs) \cup Permutations(Ids) \cup Permutations(Dims)
        \cup Permutations(Threads)
============================================================================
