-------------------------- MODULE MockTenantProofs --------------------------
(***************************************************************************)
(* MockTenant for any ids, sizes, caps and streams: no quota is outgrown   *)
(* but by overwriting, and a consumer can follow the tenant event by       *)
(* event.                                                                  *)
(*                                                                         *)
(* The sum of the sizes and the replay of a channel are folds; what one    *)
(* element adds to them comes from SelectionProofs.                        *)
(***************************************************************************)
EXTENDS MockTenant, SelectionProofs

MockEvent == Inserted \cup Deleted
Copies    == SUBSET [id : Ids, shareable : BOOLEAN]

\* The senders of an open tenant are those of the live streams and of some
\* dropped ones; only a live stream has events waiting.
Connected ==
    \A s \in Subs : /\ open /\ st[s] = "live" => s \in ToSet(subs)
                    /\ st[s] # "live" => chan[s] = <<>>

MockInv == TypeOK /\ Connected /\ UsageWithinQuota /\ ReplicaFollows

-----------------------------------------------------------------------------
(* The sum of the sizes.                                                   *)

Adding == [p \in Nat \X MockRecord |-> p[1] + p[2].size]

\* Bytes is a fold by that operation.
LEMMA AddingOperation == Operation(Nat, MockRecord, Adding, 0)
<1>1. ASSUME NEW p \in Nat \X MockRecord PROVE p[1] + p[2].size \in Nat
  <2>1. p[1] \in Nat /\ p[2].size \in Nat
    BY MockAssumption DEF MockRecord
  <2> QED
    BY <2>1
<1>2. Adding \in [Nat \X MockRecord -> Nat]
  BY <1>1 DEF Adding
<1> QED
  BY <1>2 DEF Operation

\* The bytes of the records are an iterated sum.
LEMMA BytesIterates ==
    ASSUME NEW q \in Seq(MockRecord)
    PROVE  Bytes(q) = Iterate(Adding, 0, q)
<1> DEFINE It(it) == it = [s \in SUBSET DOMAIN q |->
                             IF s = {} THEN 0 ELSE it[s \ {Max(s)}] + q[Max(s)].size]
           iter == CHOOSE it : It(it)
<1>1. Bytes(q) = iter[DOMAIN q]
  BY DEF Bytes, FoldLeft, MapThenFoldSet
<1>2. PICK it \in [SUBSET (1 .. Len(q)) -> Nat] :
        Folds(it, Adding, 0, q, Len(q)) /\ Iterate(Adding, 0, q) = it[1 .. Len(q)]
  <2>1. FoldValue(Nat, Adding, 0, q)
    BY AddingOperation, IterateFolds
  <2> QED
    BY <2>1 DEF FoldValue
<1>3. DOMAIN q = 1 .. Len(q) /\ Len(q) \in Nat
  OBVIOUS
<1>4. ASSUME NEW s \in SUBSET (1 .. Len(q)), s # {}
      PROVE  Adding[<<it[s \ {Max(s)}], q[Max(s)]>>] = it[s \ {Max(s)}] + q[Max(s)].size
  <2>1. Max(s) \in 1 .. Len(q)
    BY <1>3, <1>4, MaxOfSegment
  <2>2. q[Max(s)] \in MockRecord /\ s \ {Max(s)} \in SUBSET (1 .. Len(q))
    <3>1. \A k \in 1 .. Len(q) : q[k] \in MockRecord
      OBVIOUS
    <3> QED
      BY <2>1, <3>1
  <2>3. it[s \ {Max(s)}] \in Nat
    BY <2>2
  <2> QED
    BY <2>2, <2>3 DEF Adding
<1>5. It(it)
  BY <1>2, <1>3, <1>4 DEF Folds, Step
<1>6. It(iter)
  <2> HIDE DEF It
  <2> QED
    BY <1>5
<1>7. SameStep(it, iter, Len(q))
  <2> HIDE DEF iter
  <2>1. \A s \in SUBSET (1 .. Len(q)) :
          iter[s] = IF s = {} THEN 0 ELSE iter[s \ {Max(s)}] + q[Max(s)].size
    BY <1>3, <1>6
  <2>2. \A s \in SUBSET (1 .. Len(q)) :
          it[s] = IF s = {} THEN 0 ELSE it[s \ {Max(s)}] + q[Max(s)].size
    BY <1>3, <1>5
  <2> QED
    BY <2>1, <2>2 DEF SameStep
<1> HIDE DEF iter, It
<1>8. \A s \in SUBSET (1 .. Len(q)) : it[s] = iter[s]
  BY <1>3, <1>7, FoldUnique
<1> QED
  BY <1>1, <1>2, <1>3, <1>8

\* A number of bytes; one record more adds its own.
LEMMA BytesType == \A q \in Seq(MockRecord) : Bytes(q) \in Nat
BY AddingOperation, BytesIterates, IterateType

\* A pushed record adds its size.
LEMMA BytesAppend ==
    ASSUME NEW q \in Seq(MockRecord), NEW r \in MockRecord
    PROVE  Bytes(Append(q, r)) = Bytes(q) + r.size
<1>1. Append(q, r) \in Seq(MockRecord)
  OBVIOUS
<1>2. Bytes(Append(q, r)) = Iterate(Adding, 0, Append(q, r)) /\ Bytes(q) = Iterate(Adding, 0, q)
  BY <1>1, BytesIterates
<1>3. Iterate(Adding, 0, Append(q, r)) = Adding[<<Iterate(Adding, 0, q), r>>]
  BY AddingOperation, IterateAppend
<1>4. Bytes(q) \in Nat
  BY BytesType
<1>5. Adding[<<Bytes(q), r>>] = Bytes(q) + r.size
  BY <1>4 DEF Adding
<1> QED
  BY <1>2, <1>3, <1>5

\* No records have no bytes.
LEMMA BytesEmpty == Bytes(<<>>) = 0
<1>1. <<>> \in Seq(MockRecord)
  OBVIOUS
<1> QED
  BY <1>1, AddingOperation, BytesIterates, IterateEmpty

\* Fewer records take fewer bytes.
LEMMA BytesSelected ==
    ASSUME NEW q \in Seq(MockRecord), NEW S
    PROVE  Bytes(Selected(q, S)) <= Bytes(q)
<1> DEFINE P == {x \in Seq(MockRecord) : Bytes(Selected(x, S)) <= Bytes(x)}
<1>1. <<>> \in P
  BY SelectedEmpty, BytesEmpty
<1>2. ASSUME NEW x \in Seq(MockRecord), x \in P, NEW r \in MockRecord
      PROVE  Append(x, r) \in P
  <2>1. Selected(x, S) \in Seq(MockRecord)
    BY SelectedType
  <2>2. Selected(Append(x, r), S) = IF r \in S THEN Append(Selected(x, S), r) ELSE Selected(x, S)
    BY SelectedAppend
  <2>3. Bytes(Append(x, r)) = Bytes(x) + r.size
    BY BytesAppend
  <2>4. Bytes(Append(Selected(x, S), r)) = Bytes(Selected(x, S)) + r.size
    BY <2>1, BytesAppend
  <2>5. Bytes(x) \in Nat /\ Bytes(Selected(x, S)) \in Nat /\ r.size \in Nat
    BY <2>1, BytesType, MockAssumption DEF MockRecord
  <2>6. Bytes(Selected(x, S)) <= Bytes(x)
    BY <1>2
  <2>7. Bytes(Selected(Append(x, r), S)) <= Bytes(Append(x, r))
    <3> HIDE DEF P
    <3>1. CASE r \in S
      BY <2>2, <2>3, <2>4, <2>5, <2>6, <3>1
    <3>2. CASE r \notin S
      BY <2>2, <2>3, <2>5, <2>6, <3>2
    <3> QED
      BY <3>1, <3>2
  <2>8. Append(x, r) \in Seq(MockRecord)
    OBVIOUS
  <2> QED
    BY <2>7, <2>8
<1>3. Seq(MockRecord) \subseteq P
  <2> HIDE DEF P
  <2> QED
    BY <1>1, <1>2, SeqInduction
<1> QED
  BY <1>3

-----------------------------------------------------------------------------
(* The replay of a channel.                                                *)

Applying == [p \in Copies \X MockEvent |-> Apply(p[1], p[2])]

Replay(recs, q) == FoldLeft(Apply, recs, q)

\* An event turns a copy of records into another one.
LEMMA ApplyType == \A recs \in Copies, e \in MockEvent : Apply(recs, e) \in Copies
BY DEF Apply, Copies, MockEvent, Inserted, Deleted

\* Applying events is an operation on copies, as folds need it.
LEMMA ApplyingOperation == \A recs \in Copies : Operation(Copies, MockEvent, Applying, recs)
BY ApplyType DEF Operation, Applying

\* Replaying a channel is iterated applying.
LEMMA ReplayIterates ==
    ASSUME NEW recs \in Copies, NEW q \in Seq(MockEvent)
    PROVE  Replay(recs, q) = Iterate(Applying, recs, q)
<1> DEFINE It(it) == it = [s \in SUBSET DOMAIN q |->
                             IF s = {} THEN recs ELSE Apply(it[s \ {Max(s)}], q[Max(s)])]
           iter == CHOOSE it : It(it)
<1>1. Replay(recs, q) = iter[DOMAIN q]
  BY DEF Replay, FoldLeft, MapThenFoldSet
<1>2. PICK it \in [SUBSET (1 .. Len(q)) -> Copies] :
        Folds(it, Applying, recs, q, Len(q)) /\ Iterate(Applying, recs, q) = it[1 .. Len(q)]
  <2>1. Operation(Copies, MockEvent, Applying, recs)
    BY ApplyingOperation
  <2>2. FoldValue(Copies, Applying, recs, q)
    BY <2>1, IterateFolds
  <2> QED
    BY <2>2 DEF FoldValue
<1>3. DOMAIN q = 1 .. Len(q) /\ Len(q) \in Nat
  OBVIOUS
<1>4. ASSUME NEW s \in SUBSET (1 .. Len(q)), s # {}
      PROVE  Applying[<<it[s \ {Max(s)}], q[Max(s)]>>] = Apply(it[s \ {Max(s)}], q[Max(s)])
  <2>1. Max(s) \in 1 .. Len(q)
    BY <1>3, <1>4, MaxOfSegment
  <2>2. q[Max(s)] \in MockEvent /\ s \ {Max(s)} \in SUBSET (1 .. Len(q))
    <3>1. \A k \in 1 .. Len(q) : q[k] \in MockEvent
      OBVIOUS
    <3> QED
      BY <2>1, <3>1
  <2>3. it[s \ {Max(s)}] \in Copies
    BY <2>2
  <2> QED
    BY <2>2, <2>3 DEF Applying
<1>5. It(it)
  BY <1>2, <1>3, <1>4 DEF Folds, Step
<1>6. It(iter)
  <2> HIDE DEF It
  <2> QED
    BY <1>5
<1>7. SameStep(it, iter, Len(q))
  <2> HIDE DEF iter
  <2>1. \A s \in SUBSET (1 .. Len(q)) :
          iter[s] = IF s = {} THEN recs ELSE Apply(iter[s \ {Max(s)}], q[Max(s)])
    BY <1>3, <1>6
  <2>2. \A s \in SUBSET (1 .. Len(q)) :
          it[s] = IF s = {} THEN recs ELSE Apply(it[s \ {Max(s)}], q[Max(s)])
    BY <1>3, <1>5
  <2> QED
    BY <2>1, <2>2 DEF SameStep
<1> HIDE DEF iter, It
<1>8. \A s \in SUBSET (1 .. Len(q)) : it[s] = iter[s]
  BY <1>3, <1>7, FoldUnique
<1> QED
  BY <1>1, <1>2, <1>3, <1>8

\* Nothing waiting changes nothing.
LEMMA ReplayEmpty == \A recs \in Copies : Replay(recs, <<>>) = recs
<1> TAKE recs \in Copies
<1>1. <<>> \in Seq(MockEvent) /\ Operation(Copies, MockEvent, Applying, recs)
  BY ApplyingOperation
<1>2. Iterate(Applying, recs, <<>>) = recs
  BY <1>1, IterateEmpty
<1> QED
  BY <1>1, <1>2, ReplayIterates

\* The event sent last is applied last ...
LEMMA ReplayAppend ==
    ASSUME NEW recs \in Copies, NEW q \in Seq(MockEvent), NEW e \in MockEvent
    PROVE  Replay(recs, Append(q, e)) = Apply(Replay(recs, q), e)
<1>1. Append(q, e) \in Seq(MockEvent) /\ Operation(Copies, MockEvent, Applying, recs)
  BY ApplyingOperation
<1>2. /\ Replay(recs, q) = Iterate(Applying, recs, q)
      /\ Replay(recs, Append(q, e)) = Iterate(Applying, recs, Append(q, e))
  BY <1>1, ReplayIterates
<1>3. Iterate(Applying, recs, Append(q, e)) = Applying[<<Iterate(Applying, recs, q), e>>]
  BY <1>1, IterateAppend
<1>4. Iterate(Applying, recs, q) \in Copies
  BY <1>1, IterateType
<1>5. Applying[<<Iterate(Applying, recs, q), e>>] = Apply(Iterate(Applying, recs, q), e)
  BY <1>4 DEF Applying
<1> QED
  BY <1>2, <1>3, <1>5

\* ... and the one received first can be applied at once.
LEMMA ReplayFirst ==
    ASSUME NEW recs \in Copies, NEW q \in Seq(MockEvent), q # <<>>
    PROVE  Replay(recs, q) = Replay(Apply(recs, Head(q)), Tail(q))
<1> DEFINE e == Head(q)
           r == Tail(q)
<1>1. e \in MockEvent /\ r \in Seq(MockEvent) /\ q = <<e>> \o r
  <2>1. e \in MockEvent /\ r \in Seq(MockEvent) /\ <<e>> \in Seq(MockEvent)
    OBVIOUS
  <2>2. Len(q) \in Nat /\ Len(q) >= 1 /\ Len(r) = Len(q) - 1
    OBVIOUS
  <2>3. \A i \in 1 .. Len(q) : q[i] = (<<e>> \o r)[i]
    BY <2>1, <2>2
  <2>4. Len(<<e>> \o r) = Len(q) /\ <<e>> \o r \in Seq(MockEvent)
    BY <2>1, <2>2
  <2> HIDE DEF e, r
  <2>5. q = <<e>> \o r
    BY <2>3, <2>4, SeqEqual
  <2> QED
    BY <2>1, <2>5
<1> HIDE DEF e, r
<1>2. Operation(Copies, MockEvent, Applying, recs)
  BY ApplyingOperation
<1>3. Iterate(Applying, recs, <<e>> \o r) = Iterate(Applying, Applying[<<recs, e>>], r)
  BY <1>1, <1>2, IterateFirst
<1>4. Applying[<<recs, e>>] = Apply(recs, e) /\ Apply(recs, e) \in Copies
  BY <1>1, ApplyType DEF Applying
<1>5. /\ Replay(recs, q) = Iterate(Applying, recs, q)
      /\ Replay(Apply(recs, e), r) = Iterate(Applying, Apply(recs, e), r)
  BY <1>1, <1>4, ReplayIterates
<1>6. Replay(recs, q) = Replay(Apply(recs, e), r)
  BY <1>1, <1>3, <1>4, <1>5
<1> QED
  BY <1>6 DEF e, r
-----------------------------------------------------------------------------
(* The records.                                                            *)

Distinct(recs) == \A j, k \in DOMAIN recs : recs[j].id = recs[k].id => j = k

InsertedEvent(r) == [kind |-> "RecordInserted", id |-> r.id, shareable |-> r.shareable]
DeletedEvent(i)  == [kind |-> "RecordDeleted", id |-> i]

\* Deleting keeps the ids distinct.
LEMMA DistinctSelected ==
    ASSUME NEW q \in Seq(MockRecord), Distinct(q), NEW S
    PROVE  Distinct(Selected(q, S))
<1> DEFINE P == {x \in Seq(MockRecord) : Distinct(x) => Distinct(Selected(x, S))}
<1>1. <<>> \in P
  BY SelectedEmpty
<1>2. ASSUME NEW x \in Seq(MockRecord), x \in P, NEW r \in MockRecord
      PROVE  Append(x, r) \in P
  <2> DEFINE y == Selected(x, S)
  <2>1. y \in Seq(MockRecord)
    BY SelectedType
  <2>2. Selected(Append(x, r), S) = IF r \in S THEN Append(y, r) ELSE y
    BY SelectedAppend
  <2>3. ToSet(y) \subseteq ToSet(x)
    BY SelectedSet
  <2>4. Distinct(x) => Distinct(y)
    BY <1>2
  <2> HIDE DEF y, P
  <2>5. ASSUME Distinct(Append(x, r))
        PROVE  Distinct(x) /\ \A e \in ToSet(x) : e.id # r.id
    <3>1. /\ DOMAIN x = 1 .. Len(x) /\ DOMAIN Append(x, r) = 1 .. Len(x) + 1 /\ Len(x) \in Nat
          /\ Append(x, r)[Len(x) + 1] = r /\ \A k \in 1 .. Len(x) : Append(x, r)[k] = x[k]
      OBVIOUS
    <3> QED
      BY <2>5, <3>1 DEF Distinct, ToSet
  <2>6. ASSUME Distinct(y), \A e \in ToSet(y) : e.id # r.id
        PROVE  Distinct(Append(y, r))
    <3>1. /\ DOMAIN y = 1 .. Len(y) /\ DOMAIN Append(y, r) = 1 .. Len(y) + 1 /\ Len(y) \in Nat
          /\ Append(y, r)[Len(y) + 1] = r /\ \A k \in 1 .. Len(y) : Append(y, r)[k] = y[k]
      BY <2>1
    <3>2. \A k \in 1 .. Len(y) : y[k].id # r.id
      BY <2>6, <3>1 DEF ToSet
    <3> QED
      BY <2>6, <3>1, <3>2 DEF Distinct
  <2>7. Distinct(Append(x, r)) => Distinct(Selected(Append(x, r), S))
    BY <2>2, <2>3, <2>4, <2>5, <2>6
  <2>8. Append(x, r) \in Seq(MockRecord)
    OBVIOUS
  <2> QED
    BY <2>7, <2>8 DEF P
<1>3. Seq(MockRecord) \subseteq P
  <2> HIDE DEF P
  <2> QED
    BY <1>1, <1>2, SeqInduction
<1> QED
  BY <1>3

\* What insert leaves in the tenant is what its event says.
LEMMA StoredRecords ==
    ASSUME TypeOK, NEW r \in MockRecord
    PROVE  /\ Stored(r) \in Seq(MockRecord) /\ Distinct(Stored(r))
           /\ Flags(Stored(r)) = Apply(Flags(records), InsertedEvent(r))
<1>1. /\ records \in Seq(MockRecord) /\ DOMAIN records = 1 .. Len(records) /\ Len(records) \in Nat
      /\ \A k \in 1 .. Len(records) : records[k] \in MockRecord
      /\ Distinct(records)
  <2>1. records \in Seq(MockRecord) /\ Distinct(records)
    BY DEF TypeOK, Distinct
  <2> QED
    BY <2>1
<1>2. Apply(Flags(records), InsertedEvent(r)) =
        {f \in Flags(records) : f.id # r.id} \cup {[id |-> r.id, shareable |-> r.shareable]}
  BY DEF Apply, InsertedEvent
<1>3. CASE Has(r.id)
  <2> DEFINE new == [k \in DOMAIN records |-> IF records[k].id = r.id THEN r ELSE records[k]]
  <2>1. Stored(r) = new
    BY <1>3 DEF Stored
  <2>2. /\ new \in Seq(MockRecord) /\ DOMAIN new = DOMAIN records
        /\ \A k \in DOMAIN records : new[k] = IF records[k].id = r.id THEN r ELSE records[k]
    BY <1>1
  <2> HIDE DEF new
  <2>3. Distinct(new)
    BY <1>1, <2>2 DEF Distinct
  <2>4. ToSet(new) = {e \in ToSet(records) : e.id # r.id} \cup {r}
    <3>1. PICK k \in DOMAIN records : records[k].id = r.id
      BY <1>3 DEF Has, ToSet
    <3>2. new[k] = r
      BY <2>2, <3>1
    <3>3. ASSUME NEW j \in DOMAIN records
          PROVE  new[j] = r \/ (new[j] = records[j] /\ records[j].id # r.id)
      BY <2>2
    <3>4. ASSUME NEW j \in DOMAIN records, records[j].id # r.id
          PROVE  new[j] = records[j]
      BY <2>2, <3>4
    <3> QED
      BY <2>2, <3>1, <3>2, <3>3, <3>4 DEF ToSet
  <2>5. Flags(new) = {f \in Flags(records) : f.id # r.id} \cup {[id |-> r.id, shareable |-> r.shareable]}
    BY <2>4 DEF Flags
  <2> QED
    BY <1>2, <2>1, <2>2, <2>3, <2>5
<1>4. CASE ~Has(r.id)
  <2> DEFINE new == Append(records, r)
  <2>1. Stored(r) = new
    BY <1>4 DEF Stored
  <2>2. /\ new \in Seq(MockRecord) /\ DOMAIN new = 1 .. Len(records) + 1
        /\ new[Len(records) + 1] = r /\ \A k \in 1 .. Len(records) : new[k] = records[k]
    BY <1>1
  <2>3. ToSet(new) = ToSet(records) \cup {r}
    BY <1>1, ToSetAppends
  <2> HIDE DEF new
  <2>4. \A k \in 1 .. Len(records) : records[k].id # r.id
    BY <1>1, <1>4 DEF Has, ToSet
  <2>5. Distinct(new)
    BY <1>1, <2>2, <2>4 DEF Distinct
  <2>6. \A f \in Flags(records) : f.id # r.id
    BY <1>4 DEF Has, Flags
  <2>7. Flags(new) = Flags(records) \cup {[id |-> r.id, shareable |-> r.shareable]}
    BY <2>3 DEF Flags
  <2> QED
    BY <1>2, <2>1, <2>2, <2>5, <2>6, <2>7
<1> QED
  BY <1>3, <1>4

\* And so is what delete leaves.
LEMMA WithoutRecords ==
    ASSUME TypeOK, NEW i \in Ids
    PROVE  /\ Without(i) \in Seq(MockRecord) /\ Distinct(Without(i))
           /\ Flags(Without(i)) = Apply(Flags(records), DeletedEvent(i))
           /\ Len(Without(i)) <= Len(records)
           /\ Bytes(Without(i)) <= Bytes(records)
<1> DEFINE S == {r \in MockRecord : r.id # i}
<1>1. records \in Seq(MockRecord) /\ Distinct(records)
  BY DEF TypeOK, Distinct
<1>2. Without(i) = Selected(records, S)
  BY DEF Without
<1>3. ToSet(records) \subseteq MockRecord
  BY <1>1 DEF ToSet
<1>4. S \subseteq MockRecord /\ \A r \in MockRecord : r \in S <=> r.id # i
  OBVIOUS
<1> HIDE DEF S
<1>5. ToSet(Without(i)) = ToSet(records) \cap S
  BY <1>1, <1>2, SelectedSet
<1>6. ToSet(Without(i)) = {r \in ToSet(records) : r.id # i}
  BY <1>3, <1>4, <1>5
<1>7. Flags(Without(i)) = {f \in Flags(records) : f.id # i}
  BY <1>6 DEF Flags
<1>8. Apply(Flags(records), DeletedEvent(i)) = {f \in Flags(records) : f.id # i}
  BY DEF Apply, DeletedEvent
<1>9. Without(i) \in Seq(MockRecord) /\ Distinct(Without(i))
  BY <1>1, <1>2, SelectedType, DistinctSelected
<1>10. Len(Without(i)) <= Len(records) /\ Bytes(Without(i)) <= Bytes(records)
  BY <1>1, <1>2, SelectedShorter, BytesSelected
<1> QED
  BY <1>7, <1>8, <1>9, <1>10

-----------------------------------------------------------------------------
(* The streams.                                                            *)

\* emit reaches every live stream, and nobody else.
LEMMA Emitted ==
    ASSUME TypeOK, Connected, open, NEW e \in MockEvent, Emit(e)
    PROVE  /\ subs' \in Seq(Subs)
           /\ chan' \in [Subs -> Seq(MockEvent)]
           /\ \A s \in Subs : /\ st[s] = "live" => s \in ToSet(subs') /\ chan'[s] = Append(chan[s], e)
                              /\ st[s] # "live" => chan'[s] = chan[s]
<1>1. subs \in Seq(Subs) /\ chan \in [Subs -> Seq(MockEvent)]
  BY DEF TypeOK, StreamTypeOK, MockEvent
<1>2. /\ subs' = Selected(subs, Live)
      /\ chan' = [s \in Subs |-> IF s \in ToSet(subs') THEN Append(chan[s], e) ELSE chan[s]]
  BY DEF Emit
<1>3. subs' \in Seq(Subs) /\ ToSet(subs') = ToSet(subs) \cap Live
  BY <1>1, <1>2, SelectedType, SelectedSet
<1>4. \A s \in Subs : s \in ToSet(subs') <=> st[s] = "live"
  BY <1>3 DEF Live, Connected
<1>5. \A s \in Subs : Append(chan[s], e) \in Seq(MockEvent) /\ chan[s] \in Seq(MockEvent)
  BY <1>1
<1>6. chan' \in [Subs -> Seq(MockEvent)]
  BY <1>2, <1>5
<1> QED
  BY <1>2, <1>3, <1>4, <1>6

\* What a consumer copies of the records is a copy.
LEMMA FlagsType == \A q \in Seq(MockRecord) : Flags(q) \in Copies
<1> TAKE q \in Seq(MockRecord)
<1>1. ToSet(q) \subseteq MockRecord
  BY DEF ToSet
<1> QED
  BY <1>1 DEF Flags, Copies, MockRecord

\* A consumer that will have applied what waits for it can apply one event more.
LEMMA ChangeReplayed ==
    ASSUME TypeOK, Connected, ReplicaFollows, open, NEW e \in MockEvent, Emit(e),
           UNCHANGED <<st, filter, replica>>, Flags(records') = Apply(Flags(records), e)
    PROVE  ReplicaFollows'
<1> SUFFICES ASSUME NEW s \in Subs, st[s] = "live", filter[s] = Kinds
             PROVE  Replay(replica[s], chan'[s]) = Flags(records')
  BY DEF ReplicaFollows, Replay
<1>1. replica[s] \in Copies /\ chan[s] \in Seq(MockEvent)
  BY DEF TypeOK, StreamTypeOK, Copies, MockEvent
<1>2. chan'[s] = Append(chan[s], e)
  BY Emitted
<1>3. Replay(replica[s], chan[s]) = Flags(records)
  BY DEF ReplicaFollows, Replay
<1>4. Replay(replica[s], Append(chan[s], e)) = Apply(Replay(replica[s], chan[s]), e)
  BY <1>1, ReplayAppend
<1> QED
  BY <1>2, <1>3, <1>4

-----------------------------------------------------------------------------
(* Every step keeps the invariant.                                         *)

\* A write keeps the types once it has new records and an event.
LEMMA ChangeTypes ==
    ASSUME TypeOK, Connected, open, NEW e \in MockEvent, Emit(e),
           UNCHANGED <<st, filter, call, late, open, quota, replica>>,
           records' \in Seq(MockRecord), Distinct(records'), entitled' \in Usage
    PROVE  TypeOK' /\ Connected'
<1>1. /\ subs' \in Seq(Subs) /\ chan' \in [Subs -> Seq(MockEvent)]
      /\ \A s \in Subs : /\ st[s] = "live" => s \in ToSet(subs') /\ chan'[s] = Append(chan[s], e)
                         /\ st[s] # "live" => chan'[s] = chan[s]
  BY Emitted
<1>2. StreamTypeOK(Inserted \cup Deleted)'
  BY <1>1 DEF TypeOK, StreamTypeOK, MockEvent
<1>3. TypeOK'
  BY <1>1, <1>2 DEF TypeOK, Distinct
<1>4. Connected'
  BY <1>1 DEF Connected
<1> QED
  BY <1>3, <1>4

\* Usage is a number of bytes and a number of records.
LEMMA UsageTypes ==
    ASSUME TypeOK
    PROVE  /\ Len(records) \in Nat /\ Bytes(records) \in Nat
           /\ entitled.records \in Nat /\ entitled.bytes \in Nat
           /\ quota.records \in Nat \cup {NoCap} /\ quota.bytes \in Nat \cup {NoCap}
<1>1. records \in Seq(MockRecord) /\ entitled \in Usage /\ quota \in Quota
  BY DEF TypeOK
<1>2. Len(records) \in Nat /\ Bytes(records) \in Nat
  BY <1>1, BytesType, LenProperties
<1> QED
  BY <1>1, <1>2, MockAssumption DEF Usage, Quota

\* A write that stays within the quota or adds no record.
LEMMA InsertKeeps ==
    ASSUME MockInv, NEW r \in MockRecord, Insert(r)
    PROVE  MockInv'
<1> DEFINE e == InsertedEvent(r)
<1>1. /\ TypeOK /\ Connected /\ UsageWithinQuota /\ ReplicaFollows /\ open
      /\ Allowed(r) /\ records' = Stored(r) /\ Emit(e)
      /\ UNCHANGED <<st, filter, call, late, open, quota, replica>>
  BY DEF MockInv, Insert, InsertedEvent
<1>2. e \in MockEvent
  BY DEF InsertedEvent, MockEvent, Inserted, MockRecord
<1>3. /\ records' \in Seq(MockRecord) /\ Distinct(records')
      /\ Flags(records') = Apply(Flags(records), e)
  BY <1>1, StoredRecords
<1> HIDE DEF e
<1>4. Len(records') \in Nat /\ Bytes(records') \in Nat
  BY <1>3, BytesType, LenProperties
<1>5. entitled' \in Usage /\ UsageWithinQuota'
  <2>1. CASE Has(r.id)
    <3>1. Len(records') = Len(records)
      <4>1. /\ records \in Seq(MockRecord)
            /\ records' = [k \in DOMAIN records |-> IF records[k].id = r.id THEN r ELSE records[k]]
        BY <1>1, <2>1 DEF Stored, TypeOK
      <4>2. DOMAIN records' = DOMAIN records
        BY <4>1
      <4>3. DOMAIN records = 1 .. Len(records) /\ DOMAIN records' = 1 .. Len(records') /\ Len(records) \in Nat
        BY <1>3, <4>1, LenProperties
      <4> QED
        BY <1>4, <4>2, <4>3
    <3>2. entitled' = [entitled EXCEPT !.bytes = AtLeast(@, Bytes(records'))]
      BY <2>1 DEF Insert
    <3>3. /\ entitled'.records = entitled.records
          /\ entitled'.bytes = AtLeast(entitled.bytes, Bytes(records'))
          /\ entitled' \in Usage
      BY <1>1, <1>4, <3>2 DEF TypeOK, Usage, AtLeast
    <3>4. Within(quota.records, Len(records'), entitled'.records)
      BY <1>1, <3>1, <3>3 DEF UsageWithinQuota
    <3>5. Within(quota.bytes, Bytes(records'), entitled'.bytes)
      <4> DEFINE b == Bytes(records')
      <4>1. b \in Nat /\ entitled'.bytes = AtLeast(entitled.bytes, b)
        BY <1>4, <3>3
      <4> HIDE DEF b
      <4>2. b <= AtLeast(quota.bytes, AtLeast(entitled.bytes, b)) \/ quota.bytes = NoCap
        BY <1>1, <4>1, UsageTypes DEF AtLeast
      <4> QED
        BY <4>1, <4>2 DEF Within, b
    <3> QED
      BY <1>1, <3>3, <3>4, <3>5 DEF UsageWithinQuota
  <2>2. CASE ~Has(r.id)
    <3>1. /\ ~Exceeds(quota.records, Len(records) + 1)
          /\ ~Exceeds(quota.bytes, Bytes(records) + r.size)
          /\ records' = Append(records, r) /\ entitled' = entitled
      BY <1>1, <2>2 DEF Allowed, Stored, Insert
    <3>2. Len(records') = Len(records) + 1 /\ Bytes(records') = Bytes(records) + r.size
      <4>1. records \in Seq(MockRecord)
        BY <1>1 DEF TypeOK
      <4> QED
        BY <3>1, <4>1, BytesAppend, AppendProperties
    <3>3. ~Exceeds(quota.records, Len(records')) /\ ~Exceeds(quota.bytes, Bytes(records'))
      BY <3>1, <3>2
    <3> DEFINE n == Len(records')
               b == Bytes(records')
    <3>4. n \in Nat /\ b \in Nat
      BY <1>4
    <3>5. ~Exceeds(quota.records, n) /\ ~Exceeds(quota.bytes, b)
      BY <3>3
    <3> HIDE DEF n, b
    <3>6. Within(quota.records, n, entitled.records) /\ Within(quota.bytes, b, entitled.bytes)
      BY <1>1, <3>4, <3>5, UsageTypes DEF Within, Exceeds, AtLeast
    <3>7. Within(quota.records, Len(records'), entitled.records) /\ Within(quota.bytes, Bytes(records'), entitled.bytes)
      BY <3>6 DEF n, b
    <3> QED
      BY <1>1, <3>1, <3>7 DEF UsageWithinQuota, TypeOK
  <2> QED
    BY <2>1, <2>2
<1> QED
  BY <1>1, <1>2, <1>3, <1>5, ChangeTypes, ChangeReplayed DEF MockInv

\* Delete.
LEMMA DeleteKeeps ==
    ASSUME MockInv, NEW i \in Ids, Delete(i)
    PROVE  MockInv'
<1> DEFINE e == DeletedEvent(i)
<1>1. /\ TypeOK /\ Connected /\ UsageWithinQuota /\ ReplicaFollows /\ open
      /\ records' = Without(i) /\ Emit(e)
      /\ UNCHANGED <<st, filter, call, late, open, quota, replica>>
  BY DEF MockInv, Delete, DeletedEvent
<1>2. e \in MockEvent
  BY DEF DeletedEvent, MockEvent, Deleted
<1>3. /\ records' \in Seq(MockRecord) /\ Distinct(records')
      /\ Flags(records') = Apply(Flags(records), e)
      /\ Len(records') <= Len(records) /\ Bytes(records') <= Bytes(records)
  BY <1>1, WithoutRecords
<1> HIDE DEF e
<1> DEFINE n == Len(records')
           b == Bytes(records')
<1>4. n \in Nat /\ b \in Nat /\ n <= Len(records) /\ b <= Bytes(records)
  BY <1>3, BytesType, LenProperties
<1>5. entitled' = [records |-> AtMost(entitled.records, n), bytes |-> AtMost(entitled.bytes, b)]
  BY DEF Delete
<1> HIDE DEF n, b
<1>6. entitled' \in Usage
  BY <1>1, <1>4, <1>5, UsageTypes DEF Usage, AtMost
<1>7. Within(quota.records, n, entitled'.records) /\ Within(quota.bytes, b, entitled'.bytes)
  <2>1. ASSUME NEW cap \in Nat \cup {NoCap}, NEW old \in Nat, NEW new \in Nat, NEW ent \in Nat,
               Within(cap, old, ent), new <= old
        PROVE  Within(cap, new, AtMost(ent, new))
    BY <2>1, MockAssumption DEF Within, AtLeast, AtMost
  <2>2. Within(quota.records, Len(records), entitled.records) /\ Within(quota.bytes, Bytes(records), entitled.bytes)
    BY <1>1 DEF UsageWithinQuota
  <2>3. Within(quota.records, n, AtMost(entitled.records, n))
    BY <1>1, <1>4, <2>1, <2>2, UsageTypes
  <2>4. Within(quota.bytes, b, AtMost(entitled.bytes, b))
    BY <1>1, <1>4, <2>1, <2>2, UsageTypes
  <2> QED
    BY <1>5, <2>3, <2>4
<1>8. UsageWithinQuota'
  BY <1>1, <1>7 DEF UsageWithinQuota, n, b
<1> QED
  BY <1>1, <1>2, <1>3, <1>6, <1>8, ChangeTypes, ChangeReplayed DEF MockInv

\* A new quota entitles to the usage there is.
LEMMA SetQuotaKeeps ==
    ASSUME MockInv, NEW q \in Quota, SetQuota(q)
    PROVE  MockInv'
<1>1. /\ quota' = q /\ entitled' = [records |-> Len(records), bytes |-> Bytes(records)]
      /\ UNCHANGED <<st, filter, chan, call, late, open, records, subs, replica>>
  BY DEF SetQuota, CurrentUsage, streamVars
<1>2. Len(records) \in Nat /\ Bytes(records) \in Nat
  BY UsageTypes DEF MockInv
<1>3. TypeOK'
  BY <1>1, <1>2 DEF MockInv, TypeOK, StreamTypeOK, Usage
<1>4. Connected' /\ ReplicaFollows'
  BY <1>1 DEF MockInv, Connected, ReplicaFollows, Flags
<1>5. UsageWithinQuota'
  <2> DEFINE n == Len(records)
             b == Bytes(records)
  <2>1. n \in Nat /\ b \in Nat /\ entitled'.records = n /\ entitled'.bytes = b
    BY <1>1, <1>2
  <2>2. q.records \in Nat \cup {NoCap} /\ q.bytes \in Nat \cup {NoCap}
    BY MockAssumption DEF Quota
  <2> HIDE DEF n, b
  <2>3. Within(q.records, n, n) /\ Within(q.bytes, b, b)
    BY <2>1, <2>2 DEF Within, AtLeast
  <2>4. Within(q.records, n, entitled'.records) /\ Within(q.bytes, b, entitled'.bytes)
    BY <2>1, <2>3
  <2>5. n' = n /\ b' = b
    BY <1>1 DEF n, b
  <2> QED
    BY <1>1, <2>4, <2>5 DEF UsageWithinQuota, n, b
<1> QED
  BY <1>3, <1>4, <1>5 DEF MockInv

\* A consumer that subscribes copies what the tenant holds, and no event waits.
LEMMA SubscribeKeeps ==
    ASSUME MockInv, NEW s \in Subs, NEW f \in Filters, Subscribe(s, f)
    PROVE  MockInv'
<1>1. /\ open /\ st[s] = "none" /\ st' = [st EXCEPT ![s] = "live"] /\ filter' = [filter EXCEPT ![s] = f]
      /\ subs' = Append(subs, s) /\ replica' = [replica EXCEPT ![s] = Flags(records)]
      /\ UNCHANGED <<chan, call, late, open, records, quota, entitled>>
  BY DEF Subscribe, NewStream
<1>2. TypeOK
  BY DEF MockInv
<1>3. Flags(records) \in Copies
  BY <1>2, FlagsType DEF TypeOK
<1>4. subs \in Seq(Subs) /\ subs' \in Seq(Subs) /\ ToSet(subs') = ToSet(subs) \cup {s}
  <2>1. subs \in Seq(Subs)
    BY <1>2 DEF TypeOK
  <2> QED
    BY <1>1, <2>1, ToSetAppends
<1>5. StreamTypeOK(Inserted \cup Deleted)'
  BY <1>1, <1>2 DEF TypeOK, StreamTypeOK
<1>6. TypeOK'
  BY <1>1, <1>2, <1>3, <1>4, <1>5 DEF TypeOK, Copies
<1>7. st \in [Subs -> {"none", "live", "dropped"}] /\ replica \in [Subs -> Copies] /\ filter \in [Subs -> Filters \cup {{}}]
  BY <1>2 DEF TypeOK, StreamTypeOK, Copies
<1>8. Connected'
  BY <1>1, <1>4, <1>7 DEF MockInv, Connected
<1>9. ReplicaFollows'
  <2> SUFFICES ASSUME NEW x \in Subs, st'[x] = "live", filter'[x] = Kinds
               PROVE  Replay(replica'[x], chan'[x]) = Flags(records')
    BY DEF ReplicaFollows, Replay
  <2>1. CASE x = s
    <3>1. chan'[x] = <<>> /\ replica'[x] = Flags(records) /\ records' = records
      BY <1>1, <1>7, <2>1 DEF MockInv, Connected
    <3> QED
      BY <1>3, <3>1, ReplayEmpty
  <2>2. CASE x # s
    <3>1. /\ st[x] = "live" /\ filter[x] = Kinds /\ replica'[x] = replica[x] /\ chan'[x] = chan[x]
          /\ records' = records
      BY <1>1, <1>7, <2>2
    <3>2. Replay(replica[x], chan[x]) = Flags(records)
      BY <3>1 DEF MockInv, ReplicaFollows, Replay
    <3> QED
      BY <3>1, <3>2
  <2> QED
    BY <2>1, <2>2
<1>10. UsageWithinQuota'
  BY <1>1 DEF MockInv, UsageWithinQuota
<1> QED
  BY <1>6, <1>8, <1>9, <1>10 DEF MockInv

\* A receive call applies the oldest event; a filter that accepts every kind skips none.
LEMMA ReceiveKeeps ==
    ASSUME MockInv, NEW s \in Subs, Receive(s)
    PROVE  MockInv'
<1>1. UNCHANGED <<st, filter, open, records, quota, subs, entitled>>
  BY DEF Receive, SkipEvent, GiveUp, TakeEvent, tenant
<1>2. /\ TypeOK /\ chan \in [Subs -> Seq(MockEvent)] /\ replica \in [Subs -> Copies]
      /\ StreamTypeOK(Inserted \cup Deleted)
  BY DEF MockInv, TypeOK, StreamTypeOK, MockEvent, Copies
<1>3. UsageWithinQuota'
  BY <1>1 DEF MockInv, UsageWithinQuota
<1>4. ASSUME StreamTypeOK(Inserted \cup Deleted)', replica' \in [Subs -> Copies]
      PROVE  TypeOK'
  BY <1>1, <1>2, <1>4 DEF TypeOK, Copies
<1>5. CASE GiveUp(s, s \in ToSet(subs)) /\ UNCHANGED replica
  <2>1. StreamTypeOK(Inserted \cup Deleted)' /\ UNCHANGED chan
    BY <1>2, <1>5 DEF GiveUp, EndCall, StreamTypeOK
  <2>2. Connected' /\ ReplicaFollows'
    BY <1>1, <1>5, <2>1 DEF MockInv, Connected, ReplicaFollows, Flags
  <2> QED
    BY <1>2, <1>3, <1>4, <1>5, <2>1, <2>2 DEF MockInv
<1>6. CASE SkipEvent(s) \/ TakeEvent(s)
  <2>1. /\ chan[s] # <<>> /\ chan' = [chan EXCEPT ![s] = Tail(@)]
        /\ chan[s] \in Seq(MockEvent)
    BY <1>2, <1>6 DEF SkipEvent, TakeEvent
  <2>2. Tail(chan[s]) \in Seq(MockEvent) /\ Head(chan[s]) \in MockEvent
    BY <2>1
  <2>3. chan' \in [Subs -> Seq(MockEvent)] /\ chan'[s] = Tail(chan[s]) /\ \A x \in Subs \ {s} : chan'[x] = chan[x]
    BY <1>2, <2>1, <2>2
  <2>4. StreamTypeOK(Inserted \cup Deleted)'
    BY <1>2, <1>6, <2>3 DEF SkipEvent, TakeEvent, EndCall, StreamTypeOK, MockEvent
  <2>5. Connected'
    BY <1>1, <2>1, <2>3 DEF MockInv, Connected
  <2>6. replica' \in [Subs -> Copies] /\ ReplicaFollows'
    <3>1. CASE SkipEvent(s) /\ UNCHANGED replica
      <4>1. filter[s] # Kinds
        BY <2>2, <3>1 DEF SkipEvent, Accepts, MockEvent, Inserted, Deleted, Kinds
      <4> SUFFICES ASSUME NEW x \in Subs, st'[x] = "live", filter'[x] = Kinds
                   PROVE  Replay(replica'[x], chan'[x]) = Flags(records')
        BY <1>2, <3>1 DEF ReplicaFollows, Replay
      <4>2. x # s /\ chan'[x] = chan[x] /\ replica'[x] = replica[x] /\ records' = records
        BY <1>1, <2>3, <3>1, <4>1
      <4>3. Replay(replica[x], chan[x]) = Flags(records)
        BY <1>1 DEF MockInv, ReplicaFollows, Replay
      <4> QED
        BY <4>2, <4>3
    <3>2. CASE replica' = [replica EXCEPT ![s] = Apply(@, Head(chan[s]))]
      <4>1. /\ Apply(replica[s], Head(chan[s])) \in Copies
            /\ replica'[s] = Apply(replica[s], Head(chan[s])) /\ \A x \in Subs \ {s} : replica'[x] = replica[x]
            /\ replica' \in [Subs -> Copies]
        BY <1>2, <2>2, <3>2, ApplyType
      <4> SUFFICES ASSUME NEW x \in Subs, st'[x] = "live", filter'[x] = Kinds
                   PROVE  Replay(replica'[x], chan'[x]) = Flags(records')
        BY <4>1 DEF ReplicaFollows, Replay
      <4>2. Replay(replica[x], chan[x]) = Flags(records) /\ records' = records
        BY <1>1 DEF MockInv, ReplicaFollows, Replay
      <4>3. CASE x = s
        <5>1. Replay(replica[s], chan[s]) = Replay(Apply(replica[s], Head(chan[s])), Tail(chan[s]))
          BY <1>2, <2>1, ReplayFirst
        <5> QED
          BY <2>3, <4>1, <4>2, <4>3, <5>1
      <4>4. CASE x # s
        BY <2>3, <4>1, <4>2, <4>4
      <4> QED
        BY <4>3, <4>4
    <3>3. SkipEvent(s) => ~TakeEvent(s) /\ ~GiveUp(s, s \in ToSet(subs))
      BY <2>1 DEF SkipEvent, TakeEvent, GiveUp
    <3> QED
      BY <1>6, <2>1, <3>1, <3>2, <3>3 DEF Receive, GiveUp
  <2> QED
    BY <1>3, <1>4, <2>4, <2>5, <2>6 DEF MockInv
<1> QED
  BY <1>5, <1>6 DEF Receive

\* The remaining steps of a consumer, and the end of the tenant.
LEMMA OthersKeep ==
    ASSUME MockInv, Drop \/ \E s \in Subs : StartCall(s) \/ TimePasses(s) \/ Unsubscribe(s)
    PROVE  MockInv'
<1>1. UNCHANGED <<records, quota, entitled>>
  BY DEF Drop, StartCall, TimePasses, Unsubscribe, tenant
<1>2. UsageWithinQuota'
  BY <1>1 DEF MockInv, UsageWithinQuota
<1>3. TypeOK /\ StreamTypeOK(Inserted \cup Deleted) /\ Connected /\ ReplicaFollows
  BY DEF MockInv, TypeOK
<1>4. CASE Drop
  <2>1. subs' = <<>> /\ <<>> \in Seq(Subs) /\ open' = FALSE /\ UNCHANGED <<st, filter, chan, call, late, replica>>
    BY <1>4 DEF Drop, streamVars
  <2>2. TypeOK'
    BY <1>1, <1>3, <2>1 DEF TypeOK, StreamTypeOK
  <2>3. Connected' /\ ReplicaFollows'
    BY <1>1, <1>3, <2>1 DEF Connected, ReplicaFollows, Flags
  <2> QED
    BY <1>2, <2>2, <2>3 DEF MockInv
<1>5. ASSUME NEW s \in Subs, StartCall(s) \/ TimePasses(s)
      PROVE  MockInv'
  <2>1. UNCHANGED <<st, filter, chan, open, subs, replica>>
    BY <1>5 DEF StartCall, TimePasses, Begin, Deadline, tenant
  <2>2. StreamTypeOK(Inserted \cup Deleted)'
    BY <1>3, <1>5 DEF StartCall, TimePasses, Begin, Deadline, StreamTypeOK
  <2>3. TypeOK'
    BY <1>1, <1>3, <2>1, <2>2 DEF TypeOK
  <2>4. Connected' /\ ReplicaFollows'
    BY <1>1, <1>3, <2>1 DEF Connected, ReplicaFollows, Flags
  <2> QED
    BY <1>2, <2>3, <2>4 DEF MockInv
<1>6. ASSUME NEW s \in Subs, Unsubscribe(s)
      PROVE  MockInv'
  <2>1. /\ st' = [st EXCEPT ![s] = "dropped"] /\ filter' = [filter EXCEPT ![s] = {}]
        /\ chan' = [chan EXCEPT ![s] = <<>>] /\ replica' = [replica EXCEPT ![s] = {}]
        /\ UNCHANGED <<open, subs, call, late>>
    BY <1>6 DEF Unsubscribe, DropStream, tenant
  <2>2. StreamTypeOK(Inserted \cup Deleted)'
    BY <1>3, <2>1 DEF StreamTypeOK
  <2>3. TypeOK'
    BY <1>1, <1>3, <2>1, <2>2 DEF TypeOK
  <2>4. Connected' /\ ReplicaFollows'
    <3>1. /\ st \in [Subs -> {"none", "live", "dropped"}] /\ filter \in [Subs -> Filters \cup {{}}]
          /\ chan \in [Subs -> Seq(MockEvent)] /\ replica \in [Subs -> Copies]
      BY <1>3 DEF TypeOK, StreamTypeOK, MockEvent, Copies
    <3>2. Connected'
      BY <1>3, <2>1, <3>1 DEF Connected
    <3> SUFFICES ASSUME NEW x \in Subs, st'[x] = "live", filter'[x] = Kinds
                 PROVE  Replay(replica'[x], chan'[x]) = Flags(records')
      BY <3>2 DEF ReplicaFollows, Replay
    <3>3. x # s /\ st[x] = "live" /\ filter[x] = Kinds /\ chan'[x] = chan[x] /\ replica'[x] = replica[x]
      BY <2>1, <3>1
    <3>4. Replay(replica[x], chan[x]) = Flags(records)
      BY <1>3, <3>3 DEF ReplicaFollows, Replay
    <3> QED
      BY <1>1, <3>3, <3>4
  <2> QED
    BY <1>2, <2>3, <2>4 DEF MockInv
<1> QED
  BY <1>4, <1>5, <1>6

\* A new mock satisfies the invariant.
LEMMA InitMock == Init => MockInv
<1> SUFFICES ASSUME Init PROVE MockInv
  OBVIOUS
<1>1. <<>> \in Seq(MockRecord) /\ <<>> \in Seq(Subs) /\ <<>> \in Seq(MockEvent)
  OBVIOUS
<1>2. StreamTypeOK(Inserted \cup Deleted)
  BY <1>1 DEF Init, StreamsInit, StreamTypeOK, MockEvent
<1>3. TypeOK
  BY <1>1, <1>2, MockAssumption DEF Init, TypeOK, Quota, Usage
<1>4. Connected /\ ReplicaFollows
  BY DEF Init, StreamsInit, Connected, ReplicaFollows
<1>5. UsageWithinQuota
  BY DEF Init, UsageWithinQuota, Within
<1> QED
  BY <1>3, <1>4, <1>5 DEF MockInv

\* The invariant holds in every reachable state.
LEMMA MockInductive == Spec => []MockInv
<1>1. MockInv /\ [Next]_vars => MockInv'
  <2> SUFFICES ASSUME MockInv, [Next]_vars PROVE MockInv'
    OBVIOUS
  <2>1. CASE Next
    BY <2>1, InsertKeeps, DeleteKeeps, SetQuotaKeeps, SubscribeKeeps, ReceiveKeeps, OthersKeep
       DEF Next, Change
  <2>2. CASE UNCHANGED vars
    BY <2>2 DEF vars, tenant, streamVars, MockInv, TypeOK, StreamTypeOK, Connected,
                UsageWithinQuota, ReplicaFollows, Flags
  <2> QED
    BY <2>1, <2>2
<1> QED
  BY <1>1, InitMock, PTL DEF Spec

\* Types of the tenant and its streams, and an id is held once: insert
\* overwrites in place and delete removes every record of an id (mock.rs:87-149).
THEOREM MockTypeCorrect == Spec => []TypeOK
<1>1. MockInv => TypeOK
  BY DEF MockInv
<1> QED
  BY <1>1, MockInductive, PTL

\* A quota stricter than the usage is never outgrown: above the record cap the
\* tenant only shrinks, above the byte cap only an overwrite makes it grow,
\* for any caps, record sizes and sequence of calls (mock.rs:93-117,
\* accounting.rs:60-63).
THEOREM QuotaIsKept == Spec => []UsageWithinQuota
<1>1. MockInv => UsageWithinQuota
  BY DEF MockInv
<1> QED
  BY <1>1, MockInductive, PTL

\* A consumer of all events that started from a copy of the tenant knows its
\* records once it has applied what waits in its channel, however many events
\* those are (mock.rs:119-169).
THEOREM ReplicasFollow == Spec => []ReplicaFollows
<1>1. MockInv => ReplicaFollows
  BY DEF MockInv
<1> QED
  BY <1>1, MockInductive, PTL
=============================================================================
