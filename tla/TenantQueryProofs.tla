------------------------- MODULE TenantQueryProofs -------------------------
(* What query_filtered returns, for every index, top_k and oversampling.   *)
EXTENDS AsyncBridge, SelectionProofs, FiniteSetTheorems

\* Hits are accepted candidates already passed by the loop, in its order.
Ordered ==
    /\ \A j \in 1 .. Len(out) : out[j] \in Wanted /\ out[j] < pos
    /\ \A i, j \in 1 .. Len(out) : i < j => out[i] < out[j]

\* Every accepted candidate the loop has passed is a hit.
Complete == \A p \in Wanted : p < pos => \E j \in 1 .. Len(out) : out[j] = p

\* The loop goes on while there is room, and stops only for a reason.
Room ==
    /\ Len(out) <= AtLeast(topK, 1)
    /\ ~done => Len(out) < AtLeast(topK, 1)
    /\ done => Len(out) >= topK \/ pos > Candidates(topK)

\* So far out is what filtering the ranks passed would have selected.
Filtered == out = Selected(Positions(pos - 1), Wanted)

IInv == TypeOK /\ Ordered /\ Complete /\ Room /\ Filtered

\* What the assumptions say of the ranking and of top_k.
LEMMA ConstantTypes ==
    ASSUME ranking \in Rankings, topK \in TopKs
    PROVE  ranking \in Seq(Classes) /\ topK \in Nat /\ Len(ranking) \in Nat
BY RankingsAssumption, OversampleAssumption

\* The number of candidates fetched is at most the length of the ranking.
LEMMA CandidatesType ==
    ASSUME ranking \in Rankings, topK \in TopKs
    PROVE  Candidates(topK) \in Nat /\ Candidates(topK) <= Len(ranking)
BY ConstantTypes, OversampleAssumption DEF Candidates, AtLeast, AtMost

\* The first n ranks, in order.
LEMMA PositionsType == \A n \in Nat : Positions(n) \in Seq(Nat) /\ Len(Positions(n)) = n
BY DEF Positions

\* One rank more comes last.
LEMMA PositionsAppend == \A n \in Nat : Positions(n + 1) = Append(Positions(n), n + 1)
BY DEF Positions

\* What one rank more adds to the selection.
LEMMA PassedRank ==
    ASSUME NEW n \in Nat, n - 1 \in Nat, NEW S
    PROVE  Selected(Positions(n), S) =
              IF n \in S THEN Append(Selected(Positions(n - 1), S), n)
              ELSE Selected(Positions(n - 1), S)
<1>1. Positions(n) = Append(Positions(n - 1), n)
  <2>1. (n - 1) + 1 = n
    OBVIOUS
  <2> QED
    BY <2>1, PositionsAppend
<1> DEFINE q == Positions(n - 1)
<1>2. q \in Seq(Nat)
  BY PositionsType
<1>3. Positions(n) = Append(q, n)
  BY <1>1
<1> HIDE DEF q
<1>4. Selected(Append(q, n), S) = IF n \in S THEN Append(Selected(q, S), n) ELSE Selected(q, S)
  BY <1>2, SelectedAppend
<1> QED
  BY <1>3, <1>4 DEF q

\* The first m of n ranks are a prefix of them.
LEMMA PositionsPrefix ==
    ASSUME NEW n \in Nat, NEW m \in 0 .. n
    PROVE  \E r \in Seq(Nat) : Positions(n) = Positions(m) \o r
<1> DEFINE r == SubSeq(Positions(n), m + 1, n)
<1>1. r \in Seq(Nat) /\ Len(r) = n - m /\ \A i \in 1 .. n - m : r[i] = m + i
  BY PositionsType DEF Positions
<1>2. Positions(m) \in Seq(Nat) /\ Len(Positions(m)) = m
  BY PositionsType
<1> HIDE DEF r
<1>3. Positions(m) \o r \in Seq(Nat) /\ Len(Positions(m) \o r) = n
  <2>1. Len(Positions(m) \o r) = Len(Positions(m)) + Len(r)
    BY <1>1, <1>2, ConcatProperties
  <2>2. m + (n - m) = n
    OBVIOUS
  <2>3. Positions(m) \o r \in Seq(Nat)
    BY <1>1, <1>2
  <2> QED
    BY <1>1, <1>2, <2>1, <2>2, <2>3
<1>4. ASSUME NEW i \in 1 .. n
      PROVE  Positions(n)[i] = (Positions(m) \o r)[i]
  BY <1>1, <1>2 DEF Positions
<1>5. Positions(n) = Positions(m) \o r
  BY <1>3, <1>4, PositionsType, SeqEqual
<1> QED
  BY <1>1, <1>5

\* The invariant holds at the start.
LEMMA InitIInv == Init => IInv
<1> SUFFICES ASSUME Init PROVE IInv
  OBVIOUS
<1>1. TypeOK
  <2>1. out \in Seq(1 .. Len(ranking))
    BY DEF Init
  <2>2. pos \in 1 .. Candidates(topK) + 1
    BY CandidatesType DEF Init
  <2> QED
    BY <2>1, <2>2, Zenon DEF Init, TypeOK
<1>2. Ordered /\ Complete
  BY DEF Init, Ordered, Complete, Wanted
<1>3. Room
  BY <1>1, ConstantTypes DEF Init, Room, AtLeast, TypeOK
<1>4. Filtered
  <2>1. Positions(pos - 1) = <<>>
    BY DEF Init, Positions
  <2> QED
    BY <2>1, SelectedEmpty DEF Init, Filtered
<1> QED
  BY <1>1, <1>2, <1>3, <1>4 DEF IInv

\* The invariant is inductive.
LEMMA StepIInv == IInv /\ [Next]_vars => IInv'
<1> SUFFICES ASSUME IInv, [Next]_vars PROVE IInv'
  OBVIOUS
<1> USE DEF IInv
<1>1. CASE Skip
  <2>1. TypeOK'
    <3>1. pos' \in 1 .. Candidates(topK) + 1 /\ Candidates(topK)' = Candidates(topK)
      BY <1>1, CandidatesType DEF Skip, Looping, TypeOK, Candidates
    <3> QED
      BY <1>1, <3>1 DEF Skip, TypeOK
  <2>2. Ordered' /\ Complete'
    BY <1>1, ConstantTypes, CandidatesType
       DEF Skip, Looping, Passed, Ordered, Complete, Wanted, TypeOK
  <2>3. Room'
    BY <1>1 DEF Skip, Looping, Room, Candidates
  <2>4. Filtered'
    <3>1. pos - 1 \in Nat /\ pos \in Nat /\ (pos - 1) + 1 = pos /\ pos' - 1 = pos
      BY <1>1, CandidatesType DEF Skip, TypeOK
    <3>2. pos \notin Wanted /\ Wanted' = Wanted /\ out' = out
      BY <1>1 DEF Skip, Passed, Wanted
    <3>3. Selected(Positions(pos), Wanted) = Selected(Positions(pos - 1), Wanted)
      BY <3>1, <3>2, PassedRank
    <3> QED
      BY <3>1, <3>2, <3>3 DEF Filtered
  <2> QED
    BY <2>1, <2>2, <2>3, <2>4
<1>2. CASE Hit
  <2>1. /\ pos \in Wanted
        /\ out \in Seq(1 .. Len(ranking)) /\ pos \in 1 .. Len(ranking)
        /\ out' = Append(out, pos) /\ pos' = pos + 1
        /\ Len(out') = Len(out) + 1 /\ Len(out) \in Nat
        /\ Wanted' = Wanted
    BY <1>2, ConstantTypes, CandidatesType
       DEF Hit, Looping, Passed, Wanted, TypeOK
  <2>2. /\ \A j \in 1 .. Len(out) : out'[j] = out[j]
        /\ out'[Len(out) + 1] = pos
    BY <2>1
  <2>3. TypeOK'
    <3>1. pos' \in 1 .. Candidates(topK) + 1 /\ Candidates(topK)' = Candidates(topK)
      BY <1>2, CandidatesType DEF Hit, Looping, TypeOK, Candidates
    <3>2. out' \in Seq(1 .. Len(ranking))
      BY <2>1
    <3> QED
      BY <1>2, <3>1, <3>2 DEF Hit, Full, TypeOK
  <2>4. Ordered'
    <3>1. ASSUME NEW j \in 1 .. Len(out')
          PROVE  out'[j] \in Wanted' /\ out'[j] < pos'
      <4>1. CASE j = Len(out) + 1
        BY <2>1, <2>2, <4>1
      <4>2. CASE j \in 1 .. Len(out)
        <5>1. out[j] \in Wanted /\ out[j] < pos
          BY <4>2 DEF Ordered
        <5>2. out[j] \in Nat
          BY <5>1 DEF Wanted
        <5> QED
          BY <2>1, <2>2, <4>2, <5>1, <5>2
      <4> QED
        BY <2>1, <4>1, <4>2
    <3>2. ASSUME NEW i \in 1 .. Len(out'), NEW j \in 1 .. Len(out'), i < j
          PROVE  out'[i] < out'[j]
      <4>1. CASE j = Len(out) + 1
        BY <2>1, <2>2, <3>2, <4>1 DEF Ordered
      <4>2. CASE j \in 1 .. Len(out)
        BY <2>1, <2>2, <3>2, <4>2 DEF Ordered
      <4> QED
        BY <2>1, <4>1, <4>2
    <3> QED
      BY <3>1, <3>2 DEF Ordered
  <2>5. Complete'
    <3> SUFFICES ASSUME NEW p \in Wanted, p < pos'
                 PROVE  \E j \in 1 .. Len(out') : out'[j] = p
      BY <2>1 DEF Complete
    <3>1. CASE p = pos
      BY <2>1, <2>2, <3>1
    <3>2. CASE p < pos
      BY <2>1, <2>2, <3>2 DEF Complete
    <3> QED
      BY <2>1, <3>1, <3>2 DEF Wanted
  <2>6. Room'
    <3>1. done' <=> Len(out') >= topK
      BY <1>2 DEF Hit, Full
    <3>2. ~done /\ topK' = topK
      BY <1>2 DEF Hit, Looping
    <3>3. Len(out) < AtLeast(topK, 1)
      BY <3>2 DEF Room
    <3>4. Len(out') <= AtLeast(topK, 1)
      BY <2>1, <3>3, ConstantTypes DEF AtLeast, TypeOK
    <3>5. ASSUME ~done'
          PROVE  Len(out') < AtLeast(topK, 1)
      BY <2>1, <3>1, <3>5, ConstantTypes DEF AtLeast, TypeOK
    <3> QED
      BY <3>1, <3>2, <3>4, <3>5 DEF Room
  <2>7. Filtered'
    <3>1. pos - 1 \in Nat /\ (pos - 1) + 1 = pos /\ pos' - 1 = pos
      BY <2>1
    <3>2. Selected(Positions(pos), Wanted) = Append(Selected(Positions(pos - 1), Wanted), pos)
      BY <2>1, <3>1, PassedRank
    <3> QED
      BY <2>1, <3>1, <3>2 DEF Filtered
  <2> QED
    BY <2>3, <2>4, <2>5, <2>6, <2>7
<1>3. CASE Return
  <2>1. TypeOK'
    BY <1>3 DEF Return, TypeOK, Candidates
  <2>2. Ordered' /\ Complete'
    BY <1>3 DEF Return, Ordered, Complete, Wanted
  <2>3. Room'
    BY <1>3 DEF Return, Room, Candidates
  <2>4. Filtered'
    BY <1>3 DEF Return, Filtered, Wanted
  <2> QED
    BY <2>1, <2>2, <2>3, <2>4
<1>4. CASE UNCHANGED vars
  BY <1>4 DEF vars, TypeOK, Ordered, Complete, Room, Wanted, Candidates, Filtered
<1> QED
  BY <1>1, <1>2, <1>3, <1>4 DEF Next

\* The invariant holds in every reachable state.
LEMMA Inductive == Spec => []IInv
BY InitIInv, StepIInv, PTL DEF Spec

\* The loop of query_filtered keeps the types of its variables (tenant.rs:529-574).
THEOREM TypeCorrect == Spec => []TypeOK
<1>1. IInv => TypeOK
  BY DEF IInv
<1> QED
  BY <1>1, Inductive, PTL

LEMMA IInvSound == IInv => HitsSound
BY DEF IInv, Ordered, HitsSound

LEMMA IInvExhaustive == IInv => NoneSkipped
<1> SUFFICES ASSUME IInv PROVE NoneSkipped
  OBVIOUS
<1>1. Complete
  BY DEF IInv
<1>2. ASSUME done, Len(out) < topK, NEW p \in Wanted, p <= Candidates(topK)
      PROVE  p < pos
  BY <1>2, ConstantTypes, CandidatesType DEF IInv, Room, Wanted, TypeOK
<1> QED
  BY <1>1, <1>2 DEF NoneSkipped, Complete, Candidates

\* While every vector is a candidate the loop filters all of them, and it
\* stops at top_k or at the end.
LEMMA IInvAgrees == IInv => AgreesWithMock
<1> DEFINE n == Len(ranking)
           all == Selected(Positions(n), Wanted)
<1> SUFFICES ASSUME IInv, done, topK > 0, n <= AtLeast(Factor * topK, Floor)
             PROVE  out = SubSeq(all, 1, AtMost(topK, Len(all)))
  BY DEF AgreesWithMock, MockHits
<1>1. n \in Nat /\ topK \in Nat /\ topK > 0
  BY ConstantTypes DEF IInv, TypeOK
<1>2. Candidates(topK) = n
  BY <1>1, OversampleAssumption DEF Candidates, AtLeast, AtMost
<1>3. pos \in 1 .. n + 1 /\ pos - 1 \in 0 .. n
  BY <1>1, <1>2 DEF IInv, TypeOK
<1>4. Len(out) <= topK /\ (Len(out) >= topK \/ pos - 1 = n)
  BY <1>1, <1>2, <1>3 DEF IInv, Room, AtLeast
<1>5. out = Selected(Positions(pos - 1), Wanted)
  BY DEF IInv, Filtered
<1>6. out \in Seq(Nat)
  BY <1>3, <1>5, PositionsType, SelectedType
<1>7. PICK r \in Seq(Nat) : Positions(n) = Positions(pos - 1) \o r
  BY <1>1, <1>3, PositionsPrefix
<1> DEFINE rest == Selected(r, Wanted)
<1>8. rest \in Seq(Nat) /\ all = out \o rest
  <2> DEFINE p == Positions(pos - 1)
  <2>1. p \in Seq(Nat)
    BY <1>3, PositionsType
  <2>2. Positions(n) = p \o r /\ out = Selected(p, Wanted)
    BY <1>5, <1>7
  <2> HIDE DEF p
  <2>3. Selected(p \o r, Wanted) = Selected(p, Wanted) \o Selected(r, Wanted)
    BY <2>1, SelectedConcat
  <2>4. rest \in Seq(Nat)
    BY SelectedType
  <2> QED
    BY <2>2, <2>3, <2>4
<1> HIDE DEF all, n, rest
<1>9. CASE Len(out) >= topK
  <2>1. Len(out) = topK /\ Len(all) = Len(out) + Len(rest) /\ Len(rest) \in Nat
    BY <1>1, <1>4, <1>6, <1>8, <1>9
  <2>2. AtMost(topK, Len(all)) = Len(out)
    BY <1>1, <2>1 DEF AtMost
  <2> QED
    BY <1>6, <1>8, <2>2
<1>10. CASE pos - 1 = n
  <2>1. all = out
    BY <1>5, <1>10 DEF all
  <2>2. AtMost(topK, Len(all)) = Len(out)
    BY <1>1, <1>4, <1>6, <2>1 DEF AtMost
  <2> QED
    BY <1>6, <2>1, <2>2
<1> QED
  BY <1>4, <1>9, <1>10

LEMMA IInvBounded == IInv => HitsBounded
BY DEF IInv, Room, HitsBounded

\* Hits are accepted records, each once, nearest first (tenant.rs:545-572).
THEOREM Sound == Spec => []HitsSound
BY IInvSound, Inductive, PTL

\* A query that returns fewer than top_k hits returned every accepted
\* candidate, whatever top_k and the oversampling are (tenant.rs:536-573).
THEOREM Exhaustive == Spec => []NoneSkipped
BY IInvExhaustive, Inductive, PTL

\* Never more than top_k hits, but for the one a query of zero may return
\* (tenant.rs:564-572).
THEOREM Bounded == Spec => []HitsBounded
BY IInvBounded, Inductive, PTL

\* As long as the index, ghosts included, is not larger than what is asked of
\* it, the store returns the hits of the mock, which filters everything before
\* it ranks and truncates (tenant.rs:536-573, mock.rs:188-229).
THEOREM SameHitsAsMock == Spec => []AgreesWithMock
BY IInvAgrees, Inductive, PTL
-----------------------------------------------------------------------------
(***************************************************************************)
(* Async queries, proved for any number of bridges, calls and pool         *)
(* threads, any filters and any index: what a query returns stays right    *)
(* however calls, cancellations, panics and writes interleave, and the     *)
(* tenant is dropped exactly when its last user is gone.                   *)
(*                                                                         *)
(* The query variables satisfy the invariant of the loop (IInv above)      *)
(* throughout: between calls they are an initial state of TenantQuery, so a*)
(* step of the bridge is a step of the loop, a new initial state, or leaves*)
(* the query alone.                                                        *)
(***************************************************************************)

\* With the lock free no query is under way.
Idle == lock = None => pos = 1 /\ out = <<>> /\ done = FALSE

LockHeld == \A c \in Requests : lock = c <=> task[c] \in {"looping", "stuck"}

\* The types of the bridge's own variables.
Types ==
    /\ workers \in PoolSizes
    /\ lock \in Requests \cup {None}
    /\ bridges \subseteq Bridges
    /\ future \in [Requests -> {"none", "awaits", "resolved", "panicked", "cancelled"}]
    /\ via \in [Requests -> Bridges \cup {None}]
    /\ task \in [Requests -> {"none", "queued", "locking", "looping", "stuck", "over", "failed"}]
    /\ accept \in [Requests -> Accepts \cup {"none"}]

\* A pending future borrows an open bridge, and a task outlives its future
\* only when that was cancelled.
Borrows ==
    \A c \in Requests :
        /\ future[c] = "awaits" => via[c] \in bridges
        /\ future[c] # "awaits" => via[c] = None
        /\ future[c] = "none" => task[c] = "none"
        /\ c \in Unfinished => future[c] \in {"awaits", "cancelled"}

\* Every bridge and every unfinished task holds one reference.
Counted ==
    /\ strong = Cardinality(bridges) + Cardinality(Unfinished)
    /\ dropped = (strong = 0)

BridgeInv == IInv /\ Idle /\ LockHeld /\ Types /\ Borrows /\ Counted

-----------------------------------------------------------------------------
(* The query.                                                              *)

\* A state with no query under way satisfies the invariant of the loop.
LEMMA Fresh ==
    ASSUME ranking' \in Rankings, topK' \in TopKs,
           pos' = 1, out' = <<>>, done' = FALSE
    PROVE  IInv'
<1>1. Init'
  BY DEF Init
<1>2. Init' => IInv'
  BY InitIInv, PTL
<1> QED
  BY <1>1, <1>2

\* A step that leaves the query alone keeps the invariant of the loop.
LEMMA Kept == ASSUME IInv, UNCHANGED query PROVE IInv'
<1>1. IInv /\ [Next]_vars => IInv'
  BY StepIInv
<1> QED
  BY <1>1 DEF query, vars

\* The invariant of the loop holds between any two steps of the bridge.
LEMMA QueryStep ==
    ASSUME BridgeInv, [BridgeNext]_bridgeVars
    PROVE  IInv'
<1> USE DEF BridgeInv
<1>1. ranking \in Rankings /\ topK \in TopKs
  BY DEF IInv, TypeOK
<1>2. ASSUME NEW c \in Requests, NEW b \in Bridges, NEW a \in Accepts, Call(c, b, a)
      PROVE  IInv'
  BY <1>2, Kept DEF Call
<1>3. ASSUME NEW c \in Requests, Resolve(c) \/ Cancel(c)
      PROVE  IInv'
  BY <1>3, Kept DEF Resolve, Cancel, EndFuture
<1>4. ASSUME NEW c \in Requests, Start(c) \/ Mismatch(c) \/ Reenter(c)
      PROVE  IInv'
  BY <1>4, Kept DEF Start, Mismatch, Reenter
<1>5. ASSUME NEW c \in Requests, Lock(c)
      PROVE  IInv'
  BY <1>5, Fresh DEF Lock, LockFree, Idle
<1>6. ASSUME NEW c \in Requests, Loop(c)
      PROVE  IInv'
  BY <1>6, StepIInv DEF Loop
<1>7. ASSUME NEW c \in Requests, NEW how, End(c, how)
      PROVE  IInv'
  BY <1>1, <1>7, Fresh DEF End
<1>8. ASSUME NEW b \in Bridges, Close(b)
      PROVE  IInv'
  BY <1>8, Kept DEF Close
<1>9. ASSUME Write
      PROVE  IInv'
  BY <1>1, <1>9, Fresh DEF Write, LockFree, Idle
<1>10. CASE UNCHANGED bridgeVars
  BY <1>10, Kept DEF bridgeVars
<1> QED
  BY <1>2, <1>3, <1>4, <1>5, <1>6, <1>7, <1>8, <1>9, <1>10
     DEF BridgeNext, Work, Finish, SearchError, Unwind

-----------------------------------------------------------------------------
(* Locks, futures and borrows.                                             *)

Around == Idle /\ LockHeld /\ Types /\ Borrows

LEMMA AroundStep ==
    ASSUME BridgeInv, [BridgeNext]_bridgeVars
    PROVE  Around'
<1> USE BridgeAssumption DEF BridgeInv, Around
<1> USE DEF Idle, LockHeld, Types, Borrows, Unfinished, Running
<1>1. ASSUME NEW c \in Requests, NEW b \in Bridges, NEW a \in Accepts, Call(c, b, a)
      PROVE  Around'
  BY <1>1 DEF Call, query
<1>2. ASSUME NEW c \in Requests, NEW how \in {"resolved", "panicked", "cancelled"},
             EndFuture(c, how), how # "cancelled" => task[c] \in {"over", "failed"}
      PROVE  Around'
  BY <1>2 DEF EndFuture, query, arc, pool
<1>3. ASSUME NEW c \in Requests, Start(c) \/ Mismatch(c)
      PROVE  Around'
  BY <1>3 DEF Start, Mismatch, query, arc, async
<1>4. ASSUME NEW c \in Requests, Lock(c)
      PROVE  Around'
  BY <1>4 DEF Lock, LockFree, arc, async
<1>5. ASSUME NEW c \in Requests, Loop(c)
      PROVE  Around'
  BY <1>5 DEF Loop, arc, pool, async
<1>6. ASSUME NEW c \in Requests, NEW how \in {"over", "failed"}, End(c, how)
      PROVE  Around'
  BY <1>6 DEF End, Unlocked, async
<1>7. ASSUME NEW c \in Requests, Reenter(c)
      PROVE  Around'
  BY <1>7 DEF Reenter, query, arc, async
<1>8. ASSUME NEW b \in Bridges, Close(b)
      PROVE  Around'
  BY <1>8 DEF Close, Unborrowed, query, pool
<1>9. ASSUME Write
      PROVE  Around'
  BY <1>9 DEF Write, arc, pool, async
<1>10. CASE UNCHANGED bridgeVars
  BY <1>10 DEF bridgeVars, query, arc, pool, async
<1> QED
  BY <1>1, <1>2, <1>3, <1>4, <1>5, <1>6, <1>7, <1>8, <1>9, <1>10
     DEF BridgeNext, Resolve, Cancel, Work, Finish, SearchError, Unwind

-----------------------------------------------------------------------------
(* References.                                                             *)

\* Both sets that are counted are finite.
LEMMA Finite ==
    ASSUME Types
    PROVE  /\ IsFiniteSet(bridges) /\ Cardinality(bridges) \in Nat
           /\ IsFiniteSet(Unfinished) /\ Cardinality(Unfinished) \in Nat
           /\ Cardinality(bridges) = 0 <=> bridges = {}
           /\ Cardinality(Unfinished) = 0 <=> Unfinished = {}
<1>1. bridges \in SUBSET Bridges /\ Unfinished \in SUBSET Requests
  BY DEF Types, Unfinished, Running
<1>2. IsFiniteSet(bridges) /\ IsFiniteSet(Unfinished)
  BY <1>1, FS_Subset, BridgeAssumption
<1> QED
  BY <1>2, FS_CardinalityType, FS_EmptySet

\* A task that ends gives its reference back.
LEMMA TaskEnds ==
    ASSUME BridgeInv, NEW c \in Unfinished, Release,
           bridges' = bridges, Unfinished' = Unfinished \ {c}
    PROVE  Counted'
<1>1. Cardinality(Unfinished') = Cardinality(Unfinished) - 1
  BY Finite, FS_RemoveElement DEF BridgeInv
<1> QED
  BY <1>1, Finite DEF BridgeInv, Counted, Release

\* A step that neither takes nor drops a reference.
LEMMA SameUsers ==
    ASSUME Counted, UNCHANGED <<arc, bridges>>, Unfinished' = Unfinished
    PROVE  Counted'
BY DEF Counted, arc

LEMMA CountedStep ==
    ASSUME BridgeInv, [BridgeNext]_bridgeVars
    PROVE  Counted'
<1> USE DEF BridgeInv
<1>1. ASSUME NEW c \in Requests, NEW b \in Bridges, NEW a \in Accepts, Call(c, b, a)
      PROVE  Counted'
  <2>1. Unfinished' = Unfinished \cup {c} /\ c \notin Unfinished
    BY <1>1 DEF Call, Unfinished, Running, Types, Borrows
  <2>2. Cardinality(Unfinished') = Cardinality(Unfinished) + 1
    BY <2>1, Finite, FS_AddElement
  <2>3. Cardinality(bridges) # 0
    BY <1>1, Finite, FS_EmptySet DEF Call
  <2> QED
    BY <1>1, <2>2, <2>3, Finite DEF Call, Counted
<1>2. ASSUME NEW c \in Requests, NEW how, EndFuture(c, how)
      PROVE  Counted'
  BY <1>2, SameUsers DEF EndFuture, pool, Unfinished, Running
<1>3. ASSUME NEW c \in Requests, Start(c) \/ Lock(c) \/ Reenter(c)
      PROVE  Counted'
  <2>1. Unfinished' = Unfinished
    BY <1>3 DEF Start, Lock, Reenter, Unfinished, Running, Types
  <2> QED
    BY <1>3, <2>1, SameUsers DEF Start, Lock, Reenter, async
<1>4. ASSUME NEW c \in Requests, Mismatch(c)
      PROVE  Counted'
  <2>1. c \in Unfinished /\ Unfinished' = Unfinished \ {c}
    BY <1>4 DEF Mismatch, Unfinished, Running, Types
  <2> QED
    BY <1>4, <2>1, TaskEnds DEF Mismatch, async
<1>5. ASSUME NEW c \in Requests, Loop(c)
      PROVE  Counted'
  BY <1>5, SameUsers DEF Loop, pool, async, Unfinished, Running
<1>6. ASSUME NEW c \in Requests, NEW how \in {"over", "failed"}, End(c, how)
      PROVE  Counted'
  <2>1. c \in Unfinished /\ Unfinished' = Unfinished \ {c}
    BY <1>6 DEF End, Unfinished, Running, Types
  <2> QED
    BY <1>6, <2>1, TaskEnds DEF End, async
<1>7. ASSUME NEW b \in Bridges, Close(b)
      PROVE  Counted'
  <2>1. Cardinality(bridges') = Cardinality(bridges) - 1
    BY <1>7, Finite, FS_RemoveElement DEF Close
  <2>2. Unfinished' = Unfinished
    BY <1>7 DEF Close, pool, Unfinished, Running
  <2> QED
    BY <1>7, <2>1, <2>2, Finite DEF Close, Counted, Release
<1>8. ASSUME Write
      PROVE  Counted'
  BY <1>8, SameUsers DEF Write, pool, async, Unfinished, Running
<1>9. CASE UNCHANGED bridgeVars
  BY <1>9, SameUsers DEF bridgeVars, pool, async, Unfinished, Running
<1> QED
  BY <1>1, <1>2, <1>3, <1>4, <1>5, <1>6, <1>7, <1>8, <1>9
     DEF BridgeNext, Resolve, Cancel, Work, Finish, SearchError, Unwind

-----------------------------------------------------------------------------
LEMMA InitBridgeInv == BridgeInit => BridgeInv
<1> SUFFICES ASSUME BridgeInit PROVE BridgeInv
  OBVIOUS
<1>1. IInv /\ Idle
  BY InitIInv DEF BridgeInit, Init, Idle
<1>2. LockHeld /\ Types /\ Borrows /\ Unfinished = {}
  BY BridgeAssumption
     DEF BridgeInit, LockHeld, Types, Borrows, Unfinished, Running
<1>3. Counted
  <2>1. Cardinality(Unfinished) = 0 /\ Cardinality(bridges) \in Nat \ {0}
    BY <1>2, Finite, BridgeAssumption DEF BridgeInit
  <2>2. strong = Cardinality(bridges) + Cardinality(Unfinished) /\ strong # 0
    BY <2>1 DEF BridgeInit
  <2> QED
    BY <2>1, <2>2, Zenon DEF BridgeInit, Counted
<1> QED
  BY <1>1, <1>2, <1>3 DEF BridgeInv

LEMMA StepBridgeInv == BridgeInv /\ [BridgeNext]_bridgeVars => BridgeInv'
BY QueryStep, AroundStep, CountedStep DEF BridgeInv, Around

LEMMA BridgeInductive == BridgeSpec => []BridgeInv
BY InitBridgeInv, StepBridgeInv, PTL DEF BridgeSpec

\* Every variable of the bridge keeps its type, and no future borrows a bridge
\* that is closed (asyncs.rs:185-225).
THEOREM BridgeTypeCorrect == BridgeSpec => []BridgeTypeOK
<1>1. ASSUME BridgeInv PROVE BridgeTypeOK
  <2>1. via \in [Requests -> bridges \cup {None}]
    BY <1>1 DEF BridgeInv, Types, Borrows
  <2>2. strong \in Nat /\ dropped \in BOOLEAN
    BY <1>1, Finite DEF BridgeInv, Counted
  <2> QED
    BY <1>1, <2>1, <2>2 DEF BridgeInv, IInv, LockHeld, Types, BridgeTypeOK
<1> QED
  BY <1>1, BridgeInductive, PTL

\* The tenant's Drop runs with its last reference, detached tasks included
\* (asyncs.rs:196-203, 215-224).
THEOREM DropsWithLast == BridgeSpec => []DroppedWithLast
<1>1. ASSUME BridgeInv PROVE DroppedWithLast
  <2>1. strong = 0 <=> Cardinality(bridges) = 0 /\ Cardinality(Unfinished) = 0
    BY <1>1, Finite DEF BridgeInv, Counted
  <2>2. dropped <=> strong = 0
    BY <1>1, Zenon DEF BridgeInv, Counted
  <2> QED
    BY <1>1, <2>1, <2>2, Finite, Zenon DEF BridgeInv, DroppedWithLast
<1> QED
  BY <1>1, BridgeInductive, PTL

\* After the last close only cancelled calls still use the tenant
\* (asyncs.rs:107-118).
THEOREM CancelledOutlive == BridgeSpec => []OnlyCancelledOutlive
<1>1. ASSUME BridgeInv PROVE OnlyCancelledOutlive
  BY <1>1 DEF BridgeInv, Borrows, OnlyCancelledOutlive, Unfinished, Running
<1> QED
  BY <1>1, BridgeInductive, PTL

\* Whatever interleaves, hits are accepted records, each once, nearest first
\* (tenant.rs:545-572).
THEOREM AsyncSound == BridgeSpec => []HitsSound
<1>1. BridgeInv => HitsSound
  BY IInvSound DEF BridgeInv
<1> QED
  BY <1>1, BridgeInductive, PTL

\* ... no accepted candidate is passed over (tenant.rs:536-573) ...
THEOREM AsyncExhaustive == BridgeSpec => []NoneSkipped
<1>1. BridgeInv => NoneSkipped
  BY IInvExhaustive DEF BridgeInv
<1> QED
  BY <1>1, BridgeInductive, PTL

\* ... and there are at most top_k of them, or one (tenant.rs:564-572).
THEOREM AsyncBounded == BridgeSpec => []HitsBounded
<1>1. BridgeInv => HitsBounded
  BY IInvBounded DEF BridgeInv
<1> QED
  BY <1>1, BridgeInductive, PTL

\* The mock's answers are those of the store under the bridge as well, however
\* calls, panics and writers interleave (tenant.rs:526-575, asyncs.rs:164-184).
THEOREM AsyncSameHitsAsMock == BridgeSpec => []AgreesWithMock
<1>1. BridgeInv => AgreesWithMock
  BY IInvAgrees DEF BridgeInv
<1> QED
  BY <1>1, BridgeInductive, PTL
=============================================================================
