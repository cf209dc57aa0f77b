---------------------------- MODULE TenantQuery ----------------------------
(***************************************************************************)
(* QueryFiltered::query_filtered of skeg_rigging_skeg::Tenant: oversample  *)
(* the index, then filter, under the inner lock.                           *)
(*                                                                         *)
(* The index still holds the vectors of deleted and never flushed records. *)
(* A query sees it as the sequence of all its vectors by falling           *)
(* similarity, each of one class: a "ghost" has no entry in the sidecar, a *)
(* "rejected" record fails the caller's filter, an "accepted" one passes.  *)
(* A hit is the position of its vector in that sequence.                   *)
(***************************************************************************)
EXTENDS Naturals, FiniteSets, Selection

CONSTANTS
    Rankings,   \* the indexes to query
    TopKs,      \* values of top_k
    Factor,     \* oversampling factor; 4 in the code
    Floor       \* least number of candidates asked of the index; 64 in the code

Classes == {"ghost", "rejected", "accepted"}

ASSUME RankingsAssumption == Rankings \subseteq Seq(Classes)
ASSUME OversampleAssumption ==
    /\ TopKs \subseteq Nat
    /\ Factor \in Nat \ {0}
    /\ Floor \in Nat \ {0}

VARIABLES
    ranking,   \* the index queried
    topK,
    pos,       \* next candidate of the loop
    out,       \* hits so far
    done       \* the call has returned

vars == <<ranking, topK, pos, out, done>>

-----------------------------------------------------------------------------
AtLeast(m, n) == IF m >= n THEN m ELSE n
AtMost(m, n)  == IF m <= n THEN m ELSE n

\* DiskVamanaIndex::search returns at most that many of the nearest vectors.
NoFactor(k)   == AtMost(k, Len(ranking))    \* mutant: not oversampled
Candidates(k) == AtMost(AtLeast(Factor * k, Floor), Len(ranking))

Init ==
    /\ ranking \in Rankings
    /\ topK \in TopKs
    /\ pos = 1
    /\ out = <<>>
    /\ done = FALSE

Looping == ~done /\ pos <= Candidates(topK)

\* The candidate has no record, or the filter does not accept it: next one.
OnlyRejected(c) == c = "rejected"           \* mutant: ghosts become hits
Passed(c)       == c # "accepted"

SkipTwo ==                                  \* mutant: the iterator advances twice
    /\ Looping /\ Passed(ranking[pos])
    /\ pos' = pos + 2
    /\ UNCHANGED <<ranking, topK, out, done>>

Skip ==
    /\ Looping /\ Passed(ranking[pos])
    /\ pos' = pos + 1
    /\ UNCHANGED <<ranking, topK, out, done>>

\* Push the hit first, look at top_k afterwards.
FullLate(n) == n > topK                     \* mutant: off by one
FullEarly(n) == n + 1 >= topK               \* mutant: off by one, the other way
Full(n)     == n >= topK

Hit ==
    /\ Looping /\ ~Passed(ranking[pos])
    /\ out' = Append(out, pos)
    /\ pos' = pos + 1
    /\ done' = Full(Len(out'))
    /\ UNCHANGED <<ranking, topK>>

Return ==
    /\ ~done /\ pos > Candidates(topK)
    /\ done' = TRUE
    /\ UNCHANGED <<ranking, topK, pos, out>>

Next == Skip \/ Hit \/ Return

Spec == Init /\ [][Next]_vars

-----------------------------------------------------------------------------
\* Every variable has its type; the loop never leaves the candidate list
\* (tenant.rs:543-545) and a hit is one of the ranked vectors.
TypeOK ==
    /\ ranking \in Rankings
    /\ topK \in TopKs
    /\ pos \in 1 .. Candidates(topK) + 1
    /\ out \in Seq(1 .. Len(ranking))
    /\ done \in BOOLEAN

Wanted == {p \in 1 .. Len(ranking) : ranking[p] = "accepted"}

\* The hits are records the filter accepted, each once, nearest first
\* (tenant.rs:545-572): never a vector whose record was deleted.
HitsSound ==
    /\ \A j \in 1 .. Len(out) : out[j] \in Wanted
    /\ \A i, j \in 1 .. Len(out) : i < j => out[i] < out[j]

\* No accepted candidate is passed over: what a query returns is a prefix of
\* the accepted candidates, and when it returns fewer than top_k it returns
\* every one of them (tenant.rs:570).
NoneSkipped ==
    /\ \A p \in Wanted : p < pos => \E j \in 1 .. Len(out) : out[j] = p
    /\ done /\ Len(out) < topK =>
           \A p \in Wanted : p <= AtMost(AtLeast(Factor * topK, Floor), Len(ranking)) =>
               \E j \in 1 .. Len(out) : out[j] = p

\* At most top_k hits, one when top_k is 0: the limit is looked at after the
\* push (tenant.rs:564-572).
HitsBounded == Len(out) <= AtLeast(topK, 1)

\* The mock's records in ranking order.
Positions(n) == [p \in 1 .. n |-> p]

\* MockTenant::query_filtered: filter every record, rank, truncate to top_k.
MockHits(k) ==
    LET hits == Selected(Positions(Len(ranking)), Wanted)
    IN SubSeq(hits, 1, AtMost(k, Len(hits)))

\* What a test sees of the mock holds for the store (mock.rs:184-223,
\* tenant.rs:526-575): when both rank alike and the index, ghosts included, is
\* not larger than what is asked of it, they return the same hits, unless
\* top_k is 0.
AgreesWithMock ==
    done /\ topK > 0 /\ Len(ranking) <= AtLeast(Factor * topK, Floor) =>
        out = MockHits(topK)

-----------------------------------------------------------------------------
(* What a comment says and the code does not do.                           *)

\* "Oversample 4x is enough when shareable selectivity is 25%+"
\* (tenant.rs:538-539): when the filter accepts a quarter of the records, a
\* query returns top_k hits, or all there are.
OversampleEnough ==
    LET Count(c) == Len(SelectSeq(ranking, LAMBDA x : x = c))
    IN done /\ 4 * Count("accepted") >= Count("accepted") + Count("rejected") =>
           Len(out) >= AtMost(topK, Count("accepted"))
=============================================================================
