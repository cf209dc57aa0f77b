-------------------------- MODULE SelectionProofs --------------------------
(* What FoldLeft computes, and what Selected therefore returns.  FoldLeft  *)
(* is a CHOOSE of a recursive function on sets of positions: that function *)
(* exists and is unique (FoldExists, FoldUnique), by an induction obtained *)
(* from the least element every non-empty set of naturals has.             *)
EXTENDS Selection, SequenceTheorems, WellFoundedInduction, TLAPS

\* Induction on the naturals: of the numbers outside S there would be a
\* least one (WFMin), and its predecessor would be in S.
LEMMA Induction ==
    ASSUME NEW S, 0 \in S, \A n \in Nat : n \in S => n + 1 \in S
    PROVE  Nat \subseteq S
<1> DEFINE T == Nat \ S
           R == {ss \in Nat \X Nat : ss[1] < ss[2]}
<1>1. IsWellFoundedOn(R, Nat)
    BY NatLessThanWellFounded DEF OpToRel
<1>2. SUFFICES ASSUME T # {} PROVE FALSE
    OBVIOUS
<1>3. T \subseteq Nat
    OBVIOUS
<1>4. PICK x \in T : \A y \in T : <<y, x>> \notin R
    <2> HIDE DEF T, R
    <2> QED BY <1>1, <1>2, <1>3, WFMin
<1>5. x \in Nat /\ x \notin S /\ x # 0
    OBVIOUS
<1>6. x - 1 \in Nat /\ (x - 1) + 1 = x
    BY <1>5
<1>7. x - 1 \in T /\ <<x - 1, x>> \in R
    BY <1>5, <1>6
<1> QED BY <1>4, <1>7

\* Induction on sequences, from their front to their last element.
LEMMA SeqInduction ==
    ASSUME NEW E, NEW P, <<>> \in P, \A q \in Seq(E), e \in E : q \in P => Append(q, e) \in P
    PROVE  Seq(E) \subseteq P
<1> DEFINE S == {n \in Nat : \A q \in Seq(E) : Len(q) = n => q \in P}
<1>1. 0 \in S
    BY EmptySeq
<1>2. ASSUME NEW n \in Nat, n \in S PROVE n + 1 \in S
    <2> SUFFICES ASSUME NEW q \in Seq(E), Len(q) = n + 1 PROVE q \in P
        OBVIOUS
    <2>1. q # <<>>
        OBVIOUS
    <2>2. PICK front \in Seq(E), last \in E : q = Append(front, last)
        BY <2>1, SequenceEmptyOrAppend
    <2>3. Len(front) = n
        BY <2>2
    <2> QED BY <1>2, <2>2, <2>3
<1>3. Nat \subseteq S
    <2> HIDE DEF S
    <2> QED BY <1>1, <1>2, Induction
<1> QED BY <1>3, LenProperties

\* The greatest element of a set of naturals that has a bound.
LEMMA MaxOfSegment ==
    ASSUME NEW n \in Nat, NEW s \in SUBSET (1 .. n), s # {}
    PROVE  Max(s) \in s /\ \A y \in s : Max(s) >= y
<1> DEFINE S == {m \in Nat : \A t \in SUBSET (1 .. m) : t # {} => \E x \in t : \A y \in t : x >= y}
<1>1. 0 \in S
    <2>1. \A t \in SUBSET (1 .. 0) : t = {}
        OBVIOUS
    <2> QED BY <2>1
<1>2. ASSUME NEW m \in Nat, m \in S PROVE m + 1 \in S
    <2> SUFFICES ASSUME NEW t \in SUBSET (1 .. m + 1), t # {} PROVE \E x \in t : \A y \in t : x >= y
        OBVIOUS
    <2>1. CASE m + 1 \in t
        BY <2>1
    <2>2. CASE m + 1 \notin t
        <3>1. t \in SUBSET (1 .. m)
            BY <2>2
        <3> QED BY <1>2, <3>1
    <2> QED BY <2>1, <2>2
<1>3. Nat \subseteq S
    <2> HIDE DEF S
    <2> QED BY <1>1, <1>2, Induction
<1>4. \E x \in s : \A y \in s : x >= y
    BY <1>3
<1> QED BY <1>4 DEF Max

-----------------------------------------------------------------------------
\* One step of a fold is a function from D \X E to D, and b is in D.
Operation(D, E, g, b) == b \in D /\ g \in [D \X E -> D]

\* The step FoldLeft takes: the greatest position of s is folded last.
Step(it, g, b, q, s) == IF s = {} THEN b ELSE g[<<it[s \ {Max(s)}], q[Max(s)]>>]

\* it has the value of the fold for every set of positions up to n.
Folds(it, g, b, q, n) == \A s \in SUBSET (1 .. n) : it[s] = Step(it, g, b, q, s)

\* A fold defined on the sets below n can be continued to n + 1.
LEMMA FoldOneMore ==
    ASSUME NEW D, NEW E, NEW g, NEW b, Operation(D, E, g, b), NEW q \in Seq(E),
           NEW n \in Nat, n + 1 <= Len(q),
           NEW old \in [SUBSET (1 .. n) -> D], Folds(old, g, b, q, n)
    PROVE  \E it \in [SUBSET (1 .. n + 1) -> D] : Folds(it, g, b, q, n + 1)
<1> DEFINE it == [s \in SUBSET (1 .. n + 1) |->
                    IF n + 1 \in s THEN g[<<old[s \ {n + 1}], q[n + 1]>>] ELSE old[s]]
<1>1. q[n + 1] \in E
    OBVIOUS
<1>2. ASSUME NEW s \in SUBSET (1 .. n + 1)
      PROVE  it[s] \in D /\ it[s] = Step(it, g, b, q, s)
    <2>1. CASE n + 1 \in s
        <3>1. Max(s) \in s /\ \A y \in s : Max(s) >= y
            <4>1. n + 1 \in Nat /\ s # {}
                BY <2>1
            <4> QED BY <4>1, MaxOfSegment
        <3>2. Max(s) \in 1 .. n + 1 /\ Max(s) >= n + 1
            BY <2>1, <3>1
        <3>3. Max(s) = n + 1
            BY <3>2
        <3>4. s \ {n + 1} \in SUBSET (1 .. n) /\ s \ {n + 1} \in SUBSET (1 .. n + 1)
            <4>1. \A y \in 1 .. n + 1 : y # n + 1 => y \in 1 .. n
                OBVIOUS
            <4> QED BY <4>1
        <3>5. it[s \ {n + 1}] = old[s \ {n + 1}] /\ old[s \ {n + 1}] \in D
            BY <3>4
        <3>6. it[s] = g[<<old[s \ {n + 1}], q[n + 1]>>]
            BY <2>1
        <3>7. it[s] = g[<<it[s \ {Max(s)}], q[Max(s)]>>] /\ it[s] \in D
            <4> HIDE DEF it
            <4> QED BY <1>1, <3>3, <3>5, <3>6 DEF Operation
        <3> HIDE DEF it
        <3> QED BY <2>1, <3>7 DEF Step
    <2>2. CASE n + 1 \notin s
        <3>1. s \in SUBSET (1 .. n)
            <4>1. \A y \in 1 .. n + 1 : y # n + 1 => y \in 1 .. n
                OBVIOUS
            <4> QED BY <2>2, <4>1
        <3>2. /\ s \ {Max(s)} \in SUBSET (1 .. n) /\ s \ {Max(s)} \in SUBSET (1 .. n + 1)
              /\ n + 1 \notin s \ {Max(s)}
            BY <2>2, <3>1
        <3>3. it[s] = old[s] /\ it[s \ {Max(s)}] = old[s \ {Max(s)}]
            BY <2>2, <3>2
        <3>4. old[s] = Step(old, g, b, q, s) /\ old[s] \in D
            BY <3>1 DEF Folds
        <3> HIDE DEF it
        <3> QED BY <3>3, <3>4 DEF Step
    <2> QED BY <2>1, <2>2
<1>3. it \in [SUBSET (1 .. n + 1) -> D]
    BY <1>2
<1>4. Folds(it, g, b, q, n + 1)
    <2> HIDE DEF it
    <2> QED BY <1>2 DEF Folds
<1> QED BY <1>3, <1>4

\* The recursive function that a fold of q is exists.
LEMMA FoldExists ==
    ASSUME NEW D, NEW E, NEW g, NEW b, Operation(D, E, g, b), NEW q \in Seq(E)
    PROVE  \E it \in [SUBSET (1 .. Len(q)) -> D] : Folds(it, g, b, q, Len(q))
<1> DEFINE P(n) == \E it \in [SUBSET (1 .. n) -> D] : Folds(it, g, b, q, n)
           S == {n \in Nat : n <= Len(q) => P(n)}
<1>1. 0 \in S
    <2> DEFINE it == [s \in SUBSET (1 .. 0) |-> b]
    <2>1. it \in [SUBSET (1 .. 0) -> D] /\ \A s \in SUBSET (1 .. 0) : s = {} /\ it[s] = b
        BY DEF Operation
    <2>2. Folds(it, g, b, q, 0)
        BY <2>1 DEF Folds, Step
    <2> QED BY <2>1, <2>2
<1>2. ASSUME NEW n \in Nat, n \in S PROVE n + 1 \in S
    <2> HIDE DEF P
    <2>1. SUFFICES ASSUME n + 1 <= Len(q) PROVE P(n + 1)
        OBVIOUS
    <2>2. n <= Len(q)
        BY <2>1, LenProperties
    <2>3. P(n)
        BY <1>2, <2>2
    <2> QED BY <2>1, <2>3, FoldOneMore DEF P
<1>3. Nat \subseteq S
    <2> HIDE DEF S
    <2> QED BY <1>1, <1>2, Induction
<1>4. Len(q) \in S
    BY <1>3, LenProperties
<1> HIDE DEF P
<1>5. P(Len(q))
    BY <1>4, LenProperties
<1> QED BY <1>5 DEF P

\* f and h agree on a set of positions once they do on what the fold sees first.
SameStep(f, h, n) ==
    \A s \in SUBSET (1 .. n) : (s # {} => f[s \ {Max(s)}] = h[s \ {Max(s)}]) => f[s] = h[s]

\* Two functions that follow the same recursion are the same.
LEMMA FoldUnique ==
    ASSUME NEW n \in Nat, NEW f, NEW h, SameStep(f, h, n)
    PROVE  \A s \in SUBSET (1 .. n) : f[s] = h[s]
<1> DEFINE Same(k) == k <= n => \A s \in SUBSET (1 .. k) : f[s] = h[s]
           S == {k \in Nat : Same(k)}
<1>1. 0 \in S
    <2> SUFFICES ASSUME NEW s \in SUBSET (1 .. 0) PROVE f[s] = h[s]
        OBVIOUS
    <2>1. s = {} /\ s \in SUBSET (1 .. n)
        OBVIOUS
    <2> QED BY <2>1 DEF SameStep
<1>2. ASSUME NEW k \in Nat, k \in S PROVE k + 1 \in S
    <2> SUFFICES ASSUME k + 1 <= n, NEW s \in SUBSET (1 .. k + 1) PROVE f[s] = h[s]
        OBVIOUS
    <2>1. s \in SUBSET (1 .. n)
        OBVIOUS
    <2>2. ASSUME s # {} PROVE s \ {Max(s)} \in SUBSET (1 .. k)
        <3>1. Max(s) \in s /\ \A y \in s : Max(s) >= y
            BY <2>1, <2>2, MaxOfSegment
        <3>2. ASSUME NEW y \in s, y # Max(s) PROVE y \in 1 .. k
            <4>1. y \in 1 .. k + 1 /\ Max(s) \in 1 .. k + 1 /\ Max(s) >= y
                BY <3>1
            <4> QED BY <3>2, <4>1
        <3> QED BY <2>1, <3>2
    <2>3. s # {} => f[s \ {Max(s)}] = h[s \ {Max(s)}]
        BY <1>2, <2>2
    <2> QED BY <2>1, <2>3 DEF SameStep
<1>3. Nat \subseteq S
    <2> HIDE DEF S
    <2> QED BY <1>1, <1>2, Induction
<1>4. n \in S
    <2> HIDE DEF S
    <2> QED BY <1>3
<1>5. Same(n)
    <2> HIDE DEF Same
    <2> QED BY <1>4
<1>6. n <= n
    OBVIOUS
<1> QED BY <1>5, <1>6
-----------------------------------------------------------------------------
\* FoldLeft by an operation given as a function.
Iterate(g, b, q) == FoldLeft(LAMBDA v, e : g[<<v, e>>], b, q)

\* Iterate is the last value of such a function.
FoldValue(D, g, b, q) ==
    \E it \in [SUBSET (1 .. Len(q)) -> D] :
        Folds(it, g, b, q, Len(q)) /\ Iterate(g, b, q) = it[1 .. Len(q)]

\* A fold by an operation is the value of such a function.
LEMMA IterateFolds ==
    ASSUME NEW D, NEW E, NEW g, NEW b, Operation(D, E, g, b), NEW q \in Seq(E)
    PROVE  FoldValue(D, g, b, q)
<1> DEFINE It(it) == it = [s \in SUBSET DOMAIN q |->
                            IF s = {} THEN b ELSE g[<<it[s \ {Max(s)}], q[Max(s)]>>]]
           iter == CHOOSE it : It(it)
<1>1. Iterate(g, b, q) = iter[DOMAIN q]
    BY DEF Iterate, FoldLeft, MapThenFoldSet
<1>2. PICK it \in [SUBSET (1 .. Len(q)) -> D] : Folds(it, g, b, q, Len(q))
    BY FoldExists
<1>3. DOMAIN q = 1 .. Len(q) /\ Len(q) \in Nat
    OBVIOUS
<1>4. It(it)
    BY <1>2, <1>3 DEF Folds, Step
<1>5. It(iter)
    <2> HIDE DEF It
    <2> QED BY <1>4
<1>6. \A s \in SUBSET (1 .. Len(q)) : iter[s] = Step(iter, g, b, q, s)
    <2> HIDE DEF iter
    <2> QED BY <1>3, <1>5 DEF Step
<1> HIDE DEF iter, It
<1>7. SameStep(it, iter, Len(q))
    BY <1>2, <1>6 DEF Folds, Step, SameStep
<1>8. \A s \in SUBSET (1 .. Len(q)) : it[s] = iter[s]
    <2>1. Len(q) \in Nat
        BY LenProperties
    <2> QED BY ONLY <1>7, <2>1, FoldUnique
<1> QED BY <1>1, <1>2, <1>3, <1>8 DEF FoldValue

\* The fold of the empty sequence is the initial value.
LEMMA IterateEmpty ==
    ASSUME NEW D, NEW E, NEW g, NEW b, Operation(D, E, g, b)
    PROVE  Iterate(g, b, <<>>) = b
<1>1. <<>> \in Seq(E) /\ Len(<<>>) = 0
    OBVIOUS
<1>2. FoldValue(D, g, b, <<>>)
    BY <1>1, IterateFolds
<1>3. PICK it : Folds(it, g, b, <<>>, 0) /\ Iterate(g, b, <<>>) = it[1 .. 0]
    BY <1>1, <1>2 DEF FoldValue
<1>4. 1 .. 0 = {} /\ {} \in SUBSET (1 .. 0)
    OBVIOUS
<1> QED BY <1>3, <1>4 DEF Folds, Step

\* A fold stays in the set its operation maps to.
LEMMA IterateType ==
    ASSUME NEW D, NEW E, NEW g, NEW b, Operation(D, E, g, b), NEW q \in Seq(E)
    PROVE  Iterate(g, b, q) \in D
<1>1. FoldValue(D, g, b, q)
    BY IterateFolds
<1>2. PICK it \in [SUBSET (1 .. Len(q)) -> D] : Iterate(g, b, q) = it[1 .. Len(q)]
    BY <1>1 DEF FoldValue
<1>3. 1 .. Len(q) \in SUBSET (1 .. Len(q))
    OBVIOUS
<1> QED BY <1>2, <1>3

\* The fold of a longer sequence takes one step more.
LEMMA IterateAppend ==
    ASSUME NEW D, NEW E, NEW g, NEW b, Operation(D, E, g, b), NEW q \in Seq(E), NEW e \in E
    PROVE  Iterate(g, b, Append(q, e)) = g[<<Iterate(g, b, q), e>>]
<1> DEFINE n == Len(q)
           r == Append(q, e)
<1>1. n \in Nat
    OBVIOUS
<1>2. r \in Seq(E) /\ Len(r) = n + 1 /\ r[n + 1] = e /\ \A k \in 1 .. n : r[k] = q[k]
    OBVIOUS
<1>3. PICK f : Folds(f, g, b, q, n) /\ Iterate(g, b, q) = f[1 .. n]
    <2>1. FoldValue(D, g, b, q)
        BY IterateFolds
    <2> QED BY <2>1 DEF FoldValue
<1> HIDE DEF r, n
<1>4. PICK h : Folds(h, g, b, r, n + 1) /\ Iterate(g, b, r) = h[1 .. n + 1]
    <2>1. FoldValue(D, g, b, r)
        BY <1>2, IterateFolds
    <2> QED BY <1>2, <2>1 DEF FoldValue
<1>5. SUBSET (1 .. n) \subseteq SUBSET (1 .. n + 1)
    BY <1>1
<1>6. SameStep(f, h, n)
    <2>1. ASSUME NEW s \in SUBSET (1 .. n), s # {}, f[s \ {Max(s)}] = h[s \ {Max(s)}]
          PROVE  f[s] = h[s]
        <3>1. Max(s) \in 1 .. n
            BY <1>1, <2>1, MaxOfSegment
        <3>2. f[s] = g[<<f[s \ {Max(s)}], q[Max(s)]>>] /\ h[s] = g[<<h[s \ {Max(s)}], r[Max(s)]>>]
            BY <1>3, <1>4, <1>5, <2>1 DEF Folds, Step
        <3> QED BY <1>2, <2>1, <3>1, <3>2
    <2>2. {} \in SUBSET (1 .. n) /\ {} \in SUBSET (1 .. n + 1)
        OBVIOUS
    <2>3. f[{}] = h[{}]
        BY <1>3, <1>4, <2>2 DEF Folds, Step
    <2> QED BY <2>1, <2>3 DEF SameStep
<1>7. f[1 .. n] = h[1 .. n]
    BY <1>1, <1>6, FoldUnique
<1>8. 1 .. n + 1 # {} /\ n + 1 \in 1 .. n + 1 /\ n + 1 \in Nat
    <2>1. n + 1 \in Nat /\ 1 <= n + 1
        BY <1>1
    <2>2. n + 1 \in 1 .. n + 1
        BY <2>1
    <2> QED BY <2>1, <2>2
<1>9. Max(1 .. n + 1) = n + 1
    <2>1. Max(1 .. n + 1) \in 1 .. n + 1 /\ \A y \in 1 .. n + 1 : Max(1 .. n + 1) >= y
        BY <1>8, MaxOfSegment
    <2>2. Max(1 .. n + 1) >= n + 1
        BY <1>8, <2>1
    <2> QED BY <1>1, <2>1, <2>2
<1>10. (1 .. n + 1) \ {n + 1} = 1 .. n
    BY <1>1
<1>11. h[1 .. n + 1] = g[<<h[1 .. n], e>>]
    <2>1. h[1 .. n + 1] = Step(h, g, b, r, 1 .. n + 1)
        BY <1>4 DEF Folds
    <2> QED BY <1>2, <1>8, <1>9, <1>10, <2>1 DEF Step
<1> QED BY <1>3, <1>4, <1>7, <1>11 DEF r
\* Folding from the left: the first element may be folded into the initial value.
LEMMA IterateFirst ==
    ASSUME NEW D, NEW E, NEW g, NEW b, Operation(D, E, g, b), NEW e \in E, NEW q \in Seq(E)
    PROVE  Iterate(g, b, <<e>> \o q) = Iterate(g, g[<<b, e>>], q)
<1> DEFINE c == g[<<b, e>>]
           P == {r \in Seq(E) : Iterate(g, b, <<e>> \o r) = Iterate(g, c, r)}
<1>1. Operation(D, E, g, c)
    BY DEF Operation
<1>2. <<e>> \in Seq(E) /\ <<e>> = Append(<<>>, e) /\ <<>> \in Seq(E) /\ <<e>> \o <<>> = <<e>>
    OBVIOUS
<1>3. <<>> \in P
    <2>1. Iterate(g, b, <<>>) = b
        BY IterateEmpty
    <2>2. Iterate(g, b, Append(<<>>, e)) = g[<<Iterate(g, b, <<>>), e>>]
        <3> DEFINE z == <<>>
        <3>1. z \in Seq(E)
            BY <1>2
        <3> HIDE DEF z
        <3>2. Iterate(g, b, Append(z, e)) = g[<<Iterate(g, b, z), e>>]
            BY <3>1, IterateAppend
        <3> QED BY <3>2 DEF z
    <2>3. Iterate(g, c, <<>>) = c
        <3> HIDE DEF c
        <3> QED BY <1>1, IterateEmpty
    <2> QED BY <1>2, <2>1, <2>2, <2>3
<1>4. ASSUME NEW r \in Seq(E), r \in P, NEW x \in E PROVE Append(r, x) \in P
    <2> DEFINE p == <<e>> \o r
    <2>1. p \in Seq(E) /\ <<e>> \o Append(r, x) = Append(p, x) /\ Append(r, x) \in Seq(E)
        OBVIOUS
    <2>2. Iterate(g, b, p) = Iterate(g, c, r)
        BY <1>4
    <2> HIDE DEF p, c
    <2>3. Iterate(g, b, Append(p, x)) = g[<<Iterate(g, b, p), x>>]
        BY <2>1, IterateAppend
    <2>4. Iterate(g, c, Append(r, x)) = g[<<Iterate(g, c, r), x>>]
        BY <1>1, IterateAppend
    <2> QED BY <2>1, <2>2, <2>3, <2>4
<1>5. Seq(E) \subseteq P
    <2> HIDE DEF P
    <2> QED BY <1>3, <1>4, SeqInduction
<1> QED BY <1>5

-----------------------------------------------------------------------------
\* The step of Selected as a function.
Keeping(S, E) == [p \in Seq(E) \X E |-> IF p[2] \in S THEN Append(p[1], p[2]) ELSE p[1]]

\* The step of Selected is an operation on sequences.
LEMMA KeepingOperation == \A S, E : Operation(Seq(E), E, Keeping(S, E), <<>>)
BY DEF Operation, Keeping

\* Selected is a fold by that operation.
LEMMA SelectedIterates ==
    ASSUME NEW S, NEW E, NEW q \in Seq(E)
    PROVE  Selected(q, S) = Iterate(Keeping(S, E), <<>>, q)
<1> DEFINE D == Seq(E)
           g == Keeping(S, E)
           It(it) == it = [s \in SUBSET DOMAIN q |->
                            IF s = {} THEN <<>>
                            ELSE IF q[Max(s)] \in S THEN Append(it[s \ {Max(s)}], q[Max(s)])
                                 ELSE it[s \ {Max(s)}]]
           iter == CHOOSE it : It(it)
<1>1. Selected(q, S) = iter[DOMAIN q]
    BY DEF Selected, FoldLeft, MapThenFoldSet
<1>2. Operation(D, E, g, <<>>)
    BY KeepingOperation
<1>3. FoldValue(D, g, <<>>, q)
    <2> HIDE DEF D, g
    <2> QED BY <1>2, IterateFolds
<1> HIDE DEF g
<1>4. PICK it \in [SUBSET (1 .. Len(q)) -> D] :
        Folds(it, g, <<>>, q, Len(q)) /\ Iterate(g, <<>>, q) = it[1 .. Len(q)]
    BY <1>3 DEF FoldValue
<1>5. DOMAIN q = 1 .. Len(q) /\ Len(q) \in Nat
    OBVIOUS
<1>6. ASSUME NEW s \in SUBSET (1 .. Len(q)), s # {}
      PROVE  g[<<it[s \ {Max(s)}], q[Max(s)]>>] =
                IF q[Max(s)] \in S THEN Append(it[s \ {Max(s)}], q[Max(s)])
                ELSE it[s \ {Max(s)}]
    <2>1. Max(s) \in 1 .. Len(q)
        BY <1>5, <1>6, MaxOfSegment
    <2>2. q[Max(s)] \in E /\ s \ {Max(s)} \in SUBSET (1 .. Len(q))
        <3>1. \A k \in 1 .. Len(q) : q[k] \in E
            OBVIOUS
        <3> QED BY <2>1, <3>1
    <2>3. it[s \ {Max(s)}] \in Seq(E)
        BY <2>2
    <2> QED BY <2>2, <2>3 DEF g, Keeping
<1>7. It(it)
    BY <1>4, <1>5, <1>6 DEF Folds, Step
<1>8. It(iter)
    <2> HIDE DEF It
    <2> QED BY <1>7
<1>9. SameStep(it, iter, Len(q))
    <2> HIDE DEF iter
    <2>1. \A s \in SUBSET (1 .. Len(q)) : iter[s] = IF s = {} THEN <<>>
                            ELSE IF q[Max(s)] \in S THEN Append(iter[s \ {Max(s)}], q[Max(s)])
                                 ELSE iter[s \ {Max(s)}]
        BY <1>5, <1>8
    <2>2. \A s \in SUBSET (1 .. Len(q)) : it[s] = IF s = {} THEN <<>>
                            ELSE IF q[Max(s)] \in S THEN Append(it[s \ {Max(s)}], q[Max(s)])
                                 ELSE it[s \ {Max(s)}]
        BY <1>5, <1>7
    <2> QED BY <2>1, <2>2 DEF SameStep
<1> HIDE DEF iter, It
<1>10. \A s \in SUBSET (1 .. Len(q)) : it[s] = iter[s]
    <2>1. Len(q) \in Nat
        BY LenProperties
    <2> QED BY ONLY <1>9, <2>1, FoldUnique
<1> QED BY <1>1, <1>4, <1>5, <1>10 DEF g

\* Nothing is selected of nothing.
LEMMA SelectedEmpty == \A S : Selected(<<>>, S) = <<>>
<1> TAKE S
<1>1. <<>> \in Seq({})
    OBVIOUS
<1>2. Selected(<<>>, S) = Iterate(Keeping(S, {}), <<>>, <<>>)
    BY <1>1, SelectedIterates
<1>3. Operation(Seq({}), {}, Keeping(S, {}), <<>>)
    BY KeepingOperation
<1> QED BY <1>2, <1>3, IterateEmpty

\* A selection has the elements of the sequence.
LEMMA SelectedType ==
    ASSUME NEW E, NEW q \in Seq(E), NEW S
    PROVE  Selected(q, S) \in Seq(E)
<1>1. Selected(q, S) = Iterate(Keeping(S, E), <<>>, q)
    BY SelectedIterates
<1>2. Operation(Seq(E), E, Keeping(S, E), <<>>)
    BY KeepingOperation
<1> QED BY <1>1, <1>2, IterateType

\* A new last element is selected or is not.
LEMMA SelectedAppend ==
    ASSUME NEW E, NEW q \in Seq(E), NEW e \in E, NEW S
    PROVE  Selected(Append(q, e), S) =
              IF e \in S THEN Append(Selected(q, S), e) ELSE Selected(q, S)
<1> DEFINE g == Keeping(S, E)
<1>1. Append(q, e) \in Seq(E)
    OBVIOUS
<1>2. Selected(q, S) = Iterate(g, <<>>, q) /\ Selected(Append(q, e), S) = Iterate(g, <<>>, Append(q, e))
    BY <1>1, SelectedIterates
<1>3. Operation(Seq(E), E, g, <<>>)
    BY KeepingOperation
<1>4. Iterate(g, <<>>, Append(q, e)) = g[<<Iterate(g, <<>>, q), e>>]
    <2> HIDE DEF g
    <2> QED BY <1>3, IterateAppend
<1>5. Selected(q, S) \in Seq(E)
    BY SelectedType
<1>6. g[<<Selected(q, S), e>>] = IF e \in S THEN Append(Selected(q, S), e) ELSE Selected(q, S)
    BY <1>5 DEF Keeping
<1> HIDE DEF g
<1> QED BY <1>2, <1>4, <1>6

\* A concatenation is selected from part by part.
LEMMA SelectedConcat ==
    ASSUME NEW E, NEW p \in Seq(E), NEW q \in Seq(E), NEW S
    PROVE  Selected(p \o q, S) = Selected(p, S) \o Selected(q, S)
<1> DEFINE P == {r \in Seq(E) : Selected(p \o r, S) = Selected(p, S) \o Selected(r, S)}
<1>1. <<>> \in P
    <2>1. p \o <<>> = p /\ Selected(p, S) \o <<>> = Selected(p, S)
        BY SelectedType, ConcatEmptySeq
    <2>2. Selected(<<>>, S) = <<>>
        BY SelectedEmpty
    <2>3. <<>> \in Seq(E)
        OBVIOUS
    <2> QED BY <2>1, <2>2, <2>3
<1>2. ASSUME NEW r \in Seq(E), r \in P, NEW e \in E PROVE Append(r, e) \in P
    <2>1. p \o Append(r, e) = Append(p \o r, e) /\ p \o r \in Seq(E)
        OBVIOUS
    <2>2. Selected(p, S) \in Seq(E) /\ Selected(r, S) \in Seq(E)
        BY SelectedType
    <2>3. Selected(p, S) \o Append(Selected(r, S), e) = Append(Selected(p, S) \o Selected(r, S), e)
        BY <2>2
    <2>4. Selected(Append(p \o r, e), S) =
            IF e \in S THEN Append(Selected(p \o r, S), e) ELSE Selected(p \o r, S)
        BY <2>1, SelectedAppend
    <2>5. Selected(Append(r, e), S) = IF e \in S THEN Append(Selected(r, S), e) ELSE Selected(r, S)
        BY SelectedAppend
    <2>6. Selected(p \o r, S) = Selected(p, S) \o Selected(r, S)
        BY <1>2
    <2>7. Selected(p \o Append(r, e), S) = Selected(p, S) \o Selected(Append(r, e), S)
        <3> HIDE DEF P
        <3> QED BY <2>1, <2>3, <2>4, <2>5, <2>6
    <2>8. Append(r, e) \in Seq(E)
        OBVIOUS
    <2> QED BY <2>7, <2>8
<1>3. Seq(E) \subseteq P
    <2> HIDE DEF P
    <2> QED BY <1>1, <1>2, SeqInduction
<1> QED BY <1>3

\* The selection from one element.
LEMMA SelectedSingle ==
    ASSUME NEW e, NEW S
    PROVE  Selected(<<e>>, S) = IF e \in S THEN <<e>> ELSE <<>>
<1>1. <<>> \in Seq({e}) /\ e \in {e} /\ Append(<<>>, e) = <<e>>
    OBVIOUS
<1>2. Selected(Append(<<>>, e), S) =
        IF e \in S THEN Append(Selected(<<>>, S), e) ELSE Selected(<<>>, S)
    BY <1>1, SelectedAppend
<1>3. Selected(<<>>, S) = <<>>
    BY SelectedEmpty
<1> QED BY <1>1, <1>2, <1>3

\* The elements of a sequence with one more.
LEMMA ToSetAppends ==
    ASSUME NEW E, NEW q \in Seq(E), NEW e
    PROVE  ToSet(Append(q, e)) = ToSet(q) \cup {e}
<1>1. DOMAIN Append(q, e) = DOMAIN q \cup {Len(q) + 1} /\ Len(q) \in Nat /\ DOMAIN q = 1 .. Len(q)
    OBVIOUS
<1>2. Append(q, e)[Len(q) + 1] = e /\ \A k \in DOMAIN q : Append(q, e)[k] = q[k]
    OBVIOUS
<1> QED BY <1>1, <1>2 DEF ToSet

\* The elements selected are those of the sequence that are in S.
LEMMA SelectedSet ==
    ASSUME NEW E, NEW q \in Seq(E), NEW S
    PROVE  ToSet(Selected(q, S)) = ToSet(q) \cap S
<1> DEFINE P == {r \in Seq(E) : ToSet(Selected(r, S)) = ToSet(r) \cap S}
<1>1. <<>> \in P
    <2>1. ToSet(<<>>) = {}
        BY DEF ToSet
    <2> QED BY <2>1, SelectedEmpty
<1>2. ASSUME NEW r \in Seq(E), r \in P, NEW e \in E PROVE Append(r, e) \in P
    <2>1. Selected(Append(r, e), S) = IF e \in S THEN Append(Selected(r, S), e) ELSE Selected(r, S)
        BY SelectedAppend
    <2>2. Selected(r, S) \in Seq(E)
        BY SelectedType
    <2>3. ToSet(Append(Selected(r, S), e)) = ToSet(Selected(r, S)) \cup {e}
        BY <2>2, ToSetAppends
    <2>4. ToSet(Append(r, e)) = ToSet(r) \cup {e}
        BY ToSetAppends
    <2>5. ToSet(Selected(r, S)) = ToSet(r) \cap S
        BY <1>2
    <2>6. ToSet(Selected(Append(r, e), S)) = ToSet(Append(r, e)) \cap S
        <3> HIDE DEF P
        <3>1. CASE e \in S
            BY <2>1, <2>3, <2>4, <2>5, <3>1
        <3>2. CASE e \notin S
            BY <2>1, <2>4, <2>5, <3>2
        <3> QED BY <3>1, <3>2
    <2>7. Append(r, e) \in Seq(E)
        OBVIOUS
    <2> QED BY <2>6, <2>7
<1>3. Seq(E) \subseteq P
    <2> HIDE DEF P
    <2> QED BY <1>1, <1>2, SeqInduction
<1> QED BY <1>3

\* A selection is not longer than the sequence.
LEMMA SelectedShorter ==
    ASSUME NEW E, NEW q \in Seq(E), NEW S
    PROVE  Len(Selected(q, S)) <= Len(q)
<1> DEFINE P == {r \in Seq(E) : Len(Selected(r, S)) <= Len(r)}
<1>1. <<>> \in P
    BY SelectedEmpty
<1>2. ASSUME NEW r \in Seq(E), r \in P, NEW e \in E PROVE Append(r, e) \in P
    <2>1. Selected(Append(r, e), S) = IF e \in S THEN Append(Selected(r, S), e) ELSE Selected(r, S)
        BY SelectedAppend
    <2>2. Selected(r, S) \in Seq(E) /\ Len(Selected(r, S)) <= Len(r)
        BY <1>2, SelectedType
    <2>3. Len(Append(r, e)) = Len(r) + 1 /\ Len(r) \in Nat
        OBVIOUS
    <2>4. Len(Append(Selected(r, S), e)) = Len(Selected(r, S)) + 1 /\ Len(Selected(r, S)) \in Nat
        BY <2>2
    <2>5. Len(Selected(Append(r, e), S)) <= Len(r) + 1
        BY <2>1, <2>2, <2>3, <2>4
    <2> QED BY <2>3, <2>5
<1>3. Seq(E) \subseteq P
    <2> HIDE DEF P
    <2> QED BY <1>1, <1>2, SeqInduction
<1> QED BY <1>3
=============================================================================
