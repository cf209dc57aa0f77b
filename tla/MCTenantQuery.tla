--------------------------- MODULE MCTenantQuery ---------------------------
(* The rankings of the instance of TenantQuery.                            *)
EXTENDS TenantQuery

\* Indexes as long as the code's floor of 64 candidates: a block of each class.
Run(c, n) == [k \in 1 .. n |-> c]
BlockRankings ==
    {Run("ghost", a) \o Run("rejected", b) \o Run("accepted", c) :
        a \in {0, 1, 32, 63, 64, 65}, b \in {0, 1, 32, 64}, c \in {0, 1, 2, 16, 32}}
=============================================================================
