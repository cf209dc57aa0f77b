------------------------- MODULE TenantEventsProofs -------------------------
(***************************************************************************)
(* TenantEvents, the store composed with its event streams, for any number *)
(* of threads, streams, filters and records: the invariants of streams and *)
(* emissions (EInv), the refinement of Broadcast, which also needs every   *)
(* version in its range (Numbered), and that what a consumer looks up when *)
(* an event arrives follows the records (AInv).                            *)
(***************************************************************************)
EXTENDS TenantEvents, TenantStoreRefinement, SelectionProofs

\* A call that is to emit has its event; the emission in progress is one.
Announced == \A t \in Threads : pc[t] \in {"indexed", "emit"} => ev[t] # None
Emitting  == em # None => pc[em.thread] = "emit"

\* A stream that is not live holds nothing, and its consumer knows nothing.
Streams ==
    \A s \in Subs : st[s] # "live" =>
        got[s] = <<>> /\ chan[s] = <<>> /\ seen[s] = None

\* Each stream is registered once, by subscribe.
Registered ==
    /\ \A i, j \in 1 .. Len(subs) : subs[i] = subs[j] => i = j
    /\ \A i \in 1 .. Len(subs) : st[subs[i]] # "none"

\* Where the walk of an emission has been, no sender is dead.
Walked ==
    em # None => /\ \A s \in em.dead : st[s] = "dropped"
                 /\ \A j \in 1 .. em.at - 1 : subs[j] \notin em.dead

EInv ==
    /\ IInv /\ Announced
    /\ EventsTypeOK /\ Emitting
    /\ Streams /\ Registered /\ Walked

-----------------------------------------------------------------------------
(* Sequences.                                                              *)

\* Removing one element shifts those behind it.
LEMMA Removed ==
    ASSUME NEW S, NEW q \in Seq(S), NEW i \in 1 .. Len(q)
    PROVE  /\ RemoveAt(q, i) \in Seq(S)
           /\ Len(RemoveAt(q, i)) = Len(q) - 1
           /\ \A j \in 1 .. Len(q) - 1 :
                  RemoveAt(q, i)[j] = IF j < i THEN q[j] ELSE q[j + 1]
<1>1. Len(q) \in Nat /\ \A j \in 1 .. Len(q) : q[j] \in S
  BY LenProperties, ElementOfSeq
<1> DEFINE a == SubSeq(q, 1, i - 1)  b == SubSeq(q, i + 1, Len(q))
<1>2. a \in Seq(S) /\ Len(a) = i - 1 /\ \A j \in 1 .. i - 1 : a[j] = q[j]
  BY <1>1, SubSeqProperties
<1>3. b \in Seq(S) /\ Len(b) = Len(q) - i /\ \A j \in 1 .. Len(q) - i : b[j] = q[j + i]
  BY <1>1, SubSeqProperties
<1>4. RemoveAt(q, i) = a \o b
  BY DEF RemoveAt
<1> HIDE DEF a, b
<1>5. /\ a \o b \in Seq(S) /\ Len(a \o b) = Len(q) - 1
      /\ \A j \in 1 .. Len(q) - 1 : (a \o b)[j] = IF j <= i - 1 THEN a[j] ELSE b[j - (i - 1)]
  <2>1. /\ a \o b \in Seq(S) /\ Len(a \o b) = Len(a) + Len(b)
        /\ \A j \in 1 .. Len(a) + Len(b) : (a \o b)[j] = IF j <= Len(a) THEN a[j] ELSE b[j - Len(a)]
    BY <1>2, <1>3, ConcatProperties
  <2> QED
    BY <1>1, <1>2, <1>3, <2>1
<1> QED
  BY <1>1, <1>2, <1>3, <1>4, <1>5

-----------------------------------------------------------------------------
(* The store under the events.                                             *)

\* The events only add to a step of the store.
LEMMA StepOfStore == [EventsNext]_allVars => [Next]_vars
<1> SUFFICES ASSUME [EventsNext]_allVars PROVE [Next]_vars
  OBVIOUS
<1>1. CASE Store \/ Die
  BY <1>1 DEF Store, Die, Next
<1>2. CASE \E t \in Threads : Emit(t)
  BY <1>2 DEF Emit, EmitStart, EmitSend, EmitEnd, Next
<1>3. CASE \E s \in Subs : \/ \E f \in Filters : Subscribe(s, f)
                          \/ Consume(s) \/ ReadAll(s) \/ Unsubscribe(s)
  BY <1>3 DEF Subscribe, Consume, StartCall, Receive, TimePasses, ReadAll, Unsubscribe
<1>4. CASE UNCHANGED allVars
  BY <1>4 DEF allVars
<1> QED
  BY <1>1, <1>2, <1>3, <1>4 DEF EventsNext

\* insert and delete set the event before they get to emit it, and nothing
\* of the store touches a thread that does.
LEMMA StoreEmits ==
    ASSUME IInv, IInv', Announced, SilentNext
    PROVE  /\ Announced'
           /\ \A t \in Threads : pc[t] = "emit" => pc'[t] = "emit" /\ ev'[t] = ev[t]
           /\ h # None /\ h' = None => Alone
<1> USE DEF IInv, TypeOK
<1>1. ASSUME NEW t \in Threads, Boot(t)
      PROVE  /\ Announced' /\ ev' = ev
             /\ \A u \in Threads : pc[u] = "emit" => pc'[u] = "emit"
             /\ h # None => h' # None
  <2>1. h = None
    BY <1>1 DEF Boot, Open, CreateNew, OpenExisting, OpenAdopt, OpenCreate, CreateIndex,
                SidecarTruncate, SidecarFill, CallsConsistent, BootPc
  <2>2. \A u \in Threads : pc[u] \notin {"indexed", "emit"}
    BY <2>1 DEF CallsConsistent, CallPc
  <2>3. ev' = ev
    BY <1>1 DEF Boot, Open, CreateNew, OpenExisting, OpenAdopt, OpenCreate, CreateIndex,
                SidecarTruncate, SidecarFill
  <2>4. \A u \in Threads : pc'[u] \notin {"indexed", "emit"}
    <3>1. ASSUME NEW d \in Dirs, NEW tid \in Tids, NEW dim \in Dims, Open(t, d, tid, dim)
          PROVE  \A u \in Threads : pc'[u] \notin {"indexed", "emit"}
      BY <2>2, <3>1 DEF Open, OpenExisting, OpenAdopt, OpenCreate
    <3>2. CASE CreateIndex(t) \/ SidecarTruncate(t) \/ SidecarFill(t)
      BY <2>2, <3>2 DEF CreateIndex, SidecarTruncate, SidecarFill
    <3> QED
      BY <1>1, <3>1, <3>2 DEF Boot, CreateNew
  <2> QED
    BY <2>1, <2>2, <2>3, <2>4 DEF Announced
<1>2. ASSUME NEW t \in Threads, Mutate(t)
      PROVE  /\ Announced' /\ h' # None
             /\ \A u \in Threads : pc[u] = "emit" => pc'[u] = "emit" /\ ev'[u] = ev[u]
  <2>1. h' # None
    <3>1. CASE Consolidate(t)
      BY <3>1 DEF Consolidate, CanLock, CanEnter
    <3>2. CASE (\E i \in Ids : InsertIndex(t, i) \/ Delete(t, i)) \/ InsertSidecar(t)
      <4>1. pc'[t] \in CallPc
        BY <3>2 DEF InsertIndex, Delete, InsertSidecar, CallPc
      <4> QED
        BY <4>1 DEF CallsConsistent
    <3> QED
      BY <1>2, <3>1, <3>2 DEF Mutate
  <2>2. CASE \E i \in Ids : InsertIndex(t, i) \/ Delete(t, i)
    <3>1. PICK i \in Ids : InsertIndex(t, i) \/ Delete(t, i)
      BY <2>2
    <3>2. h \in Handles /\ \A e \in h.side.recs : e \in Entry
      BY <3>1 DEF InsertIndex, Delete, CanLock, CanEnter, Handles, Sidecar
    <3>3. /\ pc[t] = "idle" /\ \A u \in Threads : u # t => pc'[u] = pc[u] /\ ev'[u] = ev[u]
          /\ \E v \in Nat \ {0}, k \in {"RecordInserted", "RecordDeleted"} :
                 ev'[t] = [kind |-> k, id |-> i, ver |-> v]
      BY <3>1, <3>2 DEF InsertIndex, Delete, CanLock, CanEnter, Entry
    <3>4. ev'[t] # None
      BY <3>3, SentinelAssumption DEF Event
    <3> QED
      BY <2>1, <3>3, <3>4 DEF Announced
  <2>3. CASE InsertSidecar(t) \/ Consolidate(t)
    BY <2>1, <2>3 DEF InsertSidecar, Consolidate, Announced
  <2> QED
    BY <1>2, <2>2, <2>3 DEF Mutate
<1>3. ASSUME NEW t \in Threads, Persist(t) \/ Lifecycle(t)
      PROVE  /\ Announced' /\ (h # None /\ h' = None => Alone)
             /\ \A u \in Threads : pc[u] = "emit" => pc'[u] = "emit" /\ ev'[u] = ev[u]
  <2>1. ev' = ev /\ pc[t] # "emit" /\ \A u \in Threads : pc'[u] \in {"indexed", "emit"} => pc'[u] = pc[u]
    <3>1. CASE Persist(t)
      BY <3>1 DEF Persist, Flush, TruncateSidecar, FlushFill, FlushError, CanLock, CanEnter
    <3>2. CASE Lifecycle(t)
      BY <3>2 DEF Lifecycle, SnapshotElsewhere, Snapshot, TruncateSidecar, CanLock, CanEnter, RestoreFrom, CopyFile,
                  CopyError, RemoveFile, SnapshotDone, RestoreOpen, Destroy, DestroyDone, Alone
    <3> QED
      BY <1>3, <3>1, <3>2
  <2>2. \A u \in Threads : u # t => pc'[u] = pc[u]
    <3>1. CASE Persist(t)
      BY <3>1 DEF Persist, Flush, TruncateSidecar, FlushFill, FlushError
    <3>2. CASE Lifecycle(t)
      BY <3>2 DEF Lifecycle, SnapshotElsewhere, Snapshot, TruncateSidecar, RestoreFrom, CopyFile,
                  CopyError, RemoveFile, SnapshotDone, RestoreOpen, Destroy, DestroyDone
    <3> QED
      BY <1>3, <3>1, <3>2
  <2>3. h # None /\ h' = None => Alone
    <3>1. CASE Persist(t)
      BY <3>1 DEF Persist, Flush, TruncateSidecar, FlushFill, FlushError
    <3>2. CASE Lifecycle(t)
      BY <3>2 DEF Lifecycle, SnapshotElsewhere, Snapshot, TruncateSidecar, RestoreFrom, CopyFile,
                  CopyError, RemoveFile, SnapshotDone, RestoreOpen, Destroy, DestroyDone,
                  CallsConsistent, BootPc
    <3> QED
      BY <1>3, <3>1, <3>2
  <2> QED
    BY <2>1, <2>2, <2>3 DEF Announced
<1>4. ASSUME (\E r \in Readers : OpenReadonly(r)) \/ Close
      PROVE  /\ Announced' /\ (h # None /\ h' = None => Alone)
             /\ \A u \in Threads : pc[u] = "emit" => pc'[u] = "emit" /\ ev'[u] = ev[u]
  BY <1>4 DEF OpenReadonly, ReadSidecar, ReadIndex, CloseView, Close, Announced
<1> QED
  BY <1>1, <1>2, <1>3, <1>4 DEF SilentNext

-----------------------------------------------------------------------------
(* One lemma per action of the events.                                     *)

\* What an event of a thread in emit is.
LEMMA TheEvent ==
    ASSUME EInv, NEW t \in Threads, pc[t] = "emit"
    PROVE  ev[t] \in Event
BY DEF EInv, IInv, TypeOK, Announced

LEMMA StoreKeeps ==
    ASSUME EInv, IInv', Store
    PROVE  EInv'
<1>1. /\ Announced'
      /\ \A t \in Threads : pc[t] = "emit" => pc'[t] = "emit" /\ ev'[t] = ev[t]
      /\ h # None /\ h' = None => Alone
  BY StoreEmits DEF EInv, Store
<1>2. UNCHANGED <<st, filter, chan, call, late, em, got, owed, seen>>
  BY DEF Store, streamVars, history
<1>3. Emitting'
  BY <1>1, <1>2 DEF EInv, Emitting, EventsTypeOK
<1>4. CASE subs' = subs
  BY <1>1, <1>2, <1>3, <1>4
     DEF EInv, EventsTypeOK, StreamTypeOK, Streams, Registered, Walked
<1>5. CASE subs' = <<>> /\ em = None
  BY <1>1, <1>2, <1>3, <1>5
     DEF EInv, EventsTypeOK, StreamTypeOK, Streams, Registered, Walked
<1>6. subs' = subs \/ (subs' = <<>> /\ em = None)
  BY <1>1 DEF Store, EInv, Emitting, EventsTypeOK, Alone
<1> QED
  BY <1>4, <1>5, <1>6

LEMMA DieKeeps ==
    ASSUME EInv, IInv', Die
    PROVE  EInv'
<1>1. Announced' /\ Emitting'
  BY DEF Die, Crash, Announced, Emitting
<1>2. EventsTypeOK'
  <2>1. StreamTypeOK(Event)'
    BY DEF Die, EInv, EventsTypeOK, StreamTypeOK
  <2>2. /\ subs' = <<>> /\ em' = None
        /\ got' \in [Subs -> Seq(Event)] /\ owed' \in [Subs -> Seq(Event)]
    BY DEF Die
  <2>3. seen' \in [Subs -> (SUBSET Entry) \cup {None}]
    BY DEF Die
  <2> QED
    BY <2>1, <2>2, <2>3 DEF EventsTypeOK
<1>3. Streams' /\ Registered' /\ Walked'
  BY DEF Die, Streams, Registered, Walked
<1> QED
  BY <1>1, <1>2, <1>3 DEF EInv

LEMMA SubscribeKeeps ==
    ASSUME EInv, IInv', NEW s \in Subs, NEW f \in Filters, Subscribe(s, f)
    PROVE  EInv'
<1> USE DEF EInv, Subscribe, CanRegister, SubscribersFree, NewStream, history
<1>1. Announced' /\ Emitting' /\ Walked'
  BY DEF vars, Announced, Emitting, Walked
<1>2. Len(subs) \in Nat /\ \A i \in 1 .. Len(subs) : subs[i] \in Subs
  BY LenProperties, ElementOfSeq DEF EventsTypeOK
<1>3. EventsTypeOK'
  <2>1. nextVer \in Nat
    BY DEF IInv, TypeOK
  <2> QED
    BY <2>1 DEF EventsTypeOK, StreamTypeOK
<1>4. Streams'
  BY DEF Streams, EventsTypeOK, StreamTypeOK
<1>5. Registered'
  <2>1. Len(subs') = Len(subs) + 1 /\ \A i \in 1 .. Len(subs') : subs'[i] = IF i <= Len(subs) THEN subs[i] ELSE s
    BY DEF EventsTypeOK
  <2>2. \A i \in 1 .. Len(subs) : subs[i] # s
    BY DEF Registered
  <2>3. \A k \in 1 .. Len(subs') : k \in 1 .. Len(subs) \/ k = Len(subs) + 1
    BY <1>2, <2>1
  <2>4. ASSUME NEW i \in 1 .. Len(subs'), NEW j \in 1 .. Len(subs'), subs'[i] = subs'[j]
        PROVE  i = j
    <3>1. CASE i \in 1 .. Len(subs) /\ j \in 1 .. Len(subs)
      <4>1. subs[i] = subs[j]
        BY <1>2, <2>1, <2>4, <3>1
      <4> QED
        BY <3>1, <4>1 DEF Registered
    <3>2. CASE i \notin 1 .. Len(subs) \/ j \notin 1 .. Len(subs)
      BY <1>2, <2>1, <2>2, <2>3, <2>4, <3>2
    <3> QED
      BY <3>1, <3>2
  <2>5. ASSUME NEW i \in 1 .. Len(subs')
        PROVE  st'[subs'[i]] # "none"
    <3>1. st \in [Subs -> {"none", "live", "dropped"}] /\ st' = [st EXCEPT ![s] = "live"]
      BY DEF EventsTypeOK, StreamTypeOK
    <3>2. CASE i \in 1 .. Len(subs)
      BY <1>2, <2>1, <2>2, <3>1, <3>2 DEF Registered
    <3>3. CASE i = Len(subs) + 1
      BY <1>2, <2>1, <3>1, <3>3
    <3> QED
      BY <2>3, <3>2, <3>3
  <2> QED
    BY <2>4, <2>5 DEF Registered
<1> QED
  BY <1>1, <1>3, <1>4, <1>5

LEMMA EmitStartKeeps ==
    ASSUME EInv, IInv', NEW t \in Threads, EmitStart(t)
    PROVE  EInv'
<1> USE DEF EInv, EmitStart, SubscribersFree
<1>1. UNCHANGED <<pc, ev, st, filter, chan, call, late, subs, got, seen>>
  BY DEF vars, streamVars
<1>2. Announced' /\ Emitting'
  BY <1>1 DEF Announced, Emitting
<1>3. EventsTypeOK'
  <2>1. owed' \in [Subs -> Seq(Event)]
    BY TheEvent DEF EventsTypeOK
  <2>2. Len(subs) \in Nat
    BY LenProperties DEF EventsTypeOK
  <2> QED
    BY <1>1, <2>1, <2>2 DEF EventsTypeOK, StreamTypeOK
<1>4. Streams' /\ Registered'
  BY <1>1 DEF Streams, Registered
<1>5. Walked'
  BY <1>1 DEF Walked
<1> QED
  BY <1>2, <1>3, <1>4, <1>5

LEMMA EmitSendKeeps ==
    ASSUME EInv, IInv', NEW t \in Threads, EmitSend(t)
    PROVE  EInv'
<1> USE DEF EInv
<1>1. /\ UNCHANGED <<pc, ev, st, filter, call, late, got, owed, seen>>
      /\ em # None /\ em.thread = t /\ em.at <= Len(subs)
  BY DEF EmitSend, vars, history
<1>2. /\ em \in [thread : Threads, at : 1 .. Len(subs) + 1, dead : SUBSET Subs]
      /\ subs \in Seq(Subs) /\ Len(subs) \in Nat /\ em.at \in 1 .. Len(subs)
      /\ \A i \in 1 .. Len(subs) : subs[i] \in Subs
  BY <1>1, LenProperties, ElementOfSeq DEF EventsTypeOK
<1>3. Announced' /\ Emitting'
  <2>1. em'.thread = t /\ pc[t] = "emit"
    BY <1>1, <1>2 DEF EmitSend, Emitting
  <2> QED
    BY <1>1, <2>1 DEF Announced, Emitting
<1> DEFINE s == subs[em.at]
<1>4. CASE /\ st[s] = "live"
           /\ chan' = [chan EXCEPT ![s] = Append(@, ev[t])]
           /\ em' = [em EXCEPT !.at = @ + 1]
           /\ UNCHANGED subs
  <2>1. ev[t] \in Event
    BY <1>1, TheEvent DEF Emitting
  <2>2. EventsTypeOK'
    <3>0. chan \in [Subs -> Seq(Event)]
      BY DEF EventsTypeOK, StreamTypeOK
    <3>1. chan' \in [Subs -> Seq(Event)]
      BY <1>2, <1>4, <2>1, <3>0
    <3>2. em' \in [thread : Threads, at : 1 .. Len(subs') + 1, dead : SUBSET Subs]
      BY <1>2, <1>4
    <3>3. StreamTypeOK(Event)'
      <4>1. UNCHANGED <<st, filter, call, late>>
        BY <1>1
      <4> QED
        BY <3>1, <4>1 DEF EventsTypeOK, StreamTypeOK
    <3>4. {got', owed'} \subseteq [Subs -> Seq(Event)] /\ seen' \in [Subs -> (SUBSET Entry) \cup {None}]
      BY <1>1 DEF EventsTypeOK
    <3> QED
      BY <1>2, <1>4, <3>2, <3>3, <3>4 DEF EventsTypeOK
  <2>3. Streams' /\ Registered'
    BY <1>1, <1>2, <1>4 DEF Streams, Registered, EventsTypeOK, StreamTypeOK
  <2>4. Walked'
    BY <1>1, <1>2, <1>4 DEF Walked
  <2> QED
    BY <1>3, <2>2, <2>3, <2>4
<1>5. CASE /\ st[s] = "dropped"
           /\ subs' = DropSender(em.at)
           /\ em' = [em EXCEPT !.at = IF Len(subs') < Len(subs) THEN AfterDead(@) ELSE @ + 1]
           /\ UNCHANGED chan
  <2>1. /\ subs' \in Seq(Subs) /\ Len(subs') = Len(subs) - 1
        /\ \A j \in 1 .. Len(subs) - 1 : subs'[j] = IF j < em.at THEN subs[j] ELSE subs[j + 1]
    BY <1>2, <1>5, Removed DEF DropSender
  <2>2. em' = em
    BY <1>2, <1>5, <2>1 DEF AfterDead
  <2>3. EventsTypeOK'
    <3>1. em' \in [thread : Threads, at : 1 .. Len(subs') + 1, dead : SUBSET Subs]
      BY <1>2, <2>1, <2>2
    <3>3. StreamTypeOK(Event)'
      BY <1>1, <1>5 DEF EventsTypeOK, StreamTypeOK
    <3>4. {got', owed'} \subseteq [Subs -> Seq(Event)] /\ seen' \in [Subs -> (SUBSET Entry) \cup {None}]
      BY <1>1 DEF EventsTypeOK
    <3> QED
      BY <2>1, <3>1, <3>3, <3>4 DEF EventsTypeOK
  <2>4. Streams'
    BY <1>1, <1>5 DEF Streams
  <2>5. Registered'
    <3>1. ASSUME NEW i \in 1 .. Len(subs'), NEW j \in 1 .. Len(subs'), subs'[i] = subs'[j]
          PROVE  i = j
      <4> DEFINE Old(k) == IF k < em.at THEN k ELSE k + 1
      <4>1. /\ Old(i) \in 1 .. Len(subs) /\ subs'[i] = subs[Old(i)]
            /\ Old(j) \in 1 .. Len(subs) /\ subs'[j] = subs[Old(j)]
        BY <1>2, <2>1
      <4>2. Old(i) = Old(j)
        BY <3>1, <4>1 DEF Registered
      <4> QED
        BY <1>2, <2>1, <4>2
    <3>2. \A i \in 1 .. Len(subs') : st'[subs'[i]] # "none"
      BY <1>1, <1>2, <2>1 DEF Registered
    <3> QED
      BY <3>1, <3>2 DEF Registered
  <2>6. Walked'
    BY <1>1, <1>2, <2>1, <2>2 DEF Walked
  <2> QED
    BY <1>3, <2>3, <2>4, <2>5, <2>6
<1> QED
  BY <1>4, <1>5 DEF EmitSend

LEMMA EmitEndKeeps ==
    ASSUME EInv, IInv', NEW t \in Threads, EmitEnd(t)
    PROVE  EInv'
<1> USE DEF EInv, EmitEnd
<1>1. UNCHANGED <<st, filter, chan, call, late, subs, got, owed, seen>>
  BY DEF streamVars, history
<1>2. Announced' /\ Emitting'
  BY DEF EmitDone, Announced, Emitting, IInv, TypeOK
<1>3. EventsTypeOK'
  BY <1>1 DEF EventsTypeOK, StreamTypeOK
<1>4. Streams' /\ Registered' /\ Walked'
  BY <1>1 DEF Streams, Registered, Walked
<1> QED
  BY <1>2, <1>3, <1>4

\* What a consumer knows after it has looked an id up are records.
LEMMA LookedUpType ==
    ASSUME IInv, NEW s \in Subs, seen[s] \in (SUBSET Entry) \cup {None}, NEW i
    PROVE  LookedUp(s, i) \in (SUBSET Entry) \cup {None}
<1>1. Held(i) \subseteq Entry
  <2>1. h # None => h.side.recs \subseteq Entry
    BY DEF IInv, TypeOK, Handles, Sidecar
  <2> QED
    BY <2>1 DEF Held, About
<1> QED
  BY <1>1 DEF LookedUp, Without

LEMMA ConsumeKeeps ==
    ASSUME EInv, IInv', NEW s \in Subs, Consume(s)
    PROVE  EInv'
<1> USE DEF EInv
<1>1. UNCHANGED <<pc, ev, subs, em, owed, st, filter>>
  BY DEF Consume, StartCall, Receive, TimePasses, Begin, SkipEvent, GiveUp, TakeEvent, Deadline,
         vars, history
<1>2. Announced' /\ Emitting' /\ Registered' /\ Walked'
  BY <1>1 DEF Announced, Emitting, Registered, Walked
<1>3. CASE StartCall(s) \/ TimePasses(s)
  <2>1. UNCHANGED <<chan, got, seen>>
    BY <1>3 DEF StartCall, TimePasses, Begin, Deadline, history
  <2>2. StreamTypeOK(Event)'
    <3>1. CASE StartCall(s)
      BY <1>1, <2>1, <3>1 DEF StartCall, Begin, EventsTypeOK, StreamTypeOK
    <3>2. CASE TimePasses(s)
      BY <1>1, <2>1, <3>2 DEF TimePasses, Deadline, EventsTypeOK, StreamTypeOK
    <3> QED
      BY <1>3, <3>1, <3>2
  <2> QED
    BY <1>1, <1>2, <2>1, <2>2 DEF EventsTypeOK, Streams
<1>4. CASE GiveUp(s, s \in ToSet(subs)) /\ UNCHANGED <<vars, subs, em, history>>
  <2>1. UNCHANGED <<chan, got, seen>>
    BY <1>4 DEF GiveUp, history
  <2>2. StreamTypeOK(Event)'
    BY <1>1, <1>4, <2>1 DEF GiveUp, EndCall, EventsTypeOK, StreamTypeOK
  <2> QED
    BY <1>1, <1>2, <2>1, <2>2 DEF EventsTypeOK, Streams
<1>5. ASSUME call[s] # "idle", chan[s] # <<>>, chan' = [chan EXCEPT ![s] = Tail(@)]
      PROVE  /\ chan[s] \in Seq(Event) /\ Head(chan[s]) \in Event
             /\ chan' \in [Subs -> Seq(Event)] /\ st[s] = "live"
             /\ \A x \in Subs : st[x] # "live" => chan'[x] = <<>>
  <2>1. chan[s] \in Seq(Event)
    BY DEF EventsTypeOK, StreamTypeOK
  <2>2. Head(chan[s]) \in Event /\ Tail(chan[s]) \in Seq(Event)
    BY <1>5, <2>1, HeadTailProperties
  <2> QED
    BY <1>5, <2>1, <2>2 DEF EventsTypeOK, StreamTypeOK, Streams
<1>6. CASE SkipEvent(s) /\ UNCHANGED <<vars, subs, em, history>>
  <2>1. UNCHANGED <<call, late, got, seen>>
    BY <1>6 DEF SkipEvent, history
  <2>2. StreamTypeOK(Event)'
    BY <1>1, <1>5, <1>6, <2>1 DEF SkipEvent, EventsTypeOK, StreamTypeOK
  <2> QED
    BY <1>1, <1>2, <1>5, <1>6, <2>1, <2>2 DEF SkipEvent, EventsTypeOK, Streams
<1>7. CASE /\ TakeEvent(s) /\ got' = [got EXCEPT ![s] = Append(@, Head(chan[s]))]
           /\ seen' = [seen EXCEPT ![s] = LookedUp(s, Head(chan[s]).id)]
  <2>1. /\ Head(chan[s]) \in Event /\ st[s] = "live"
        /\ \A x \in Subs : st[x] # "live" => chan'[x] = <<>>
        /\ chan' \in [Subs -> Seq(Event)]
    BY <1>5, <1>7 DEF TakeEvent, Accepts
  <2>2. StreamTypeOK(Event)'
    BY <1>1, <1>7, <2>1 DEF TakeEvent, EndCall, EventsTypeOK, StreamTypeOK
  <2>3. /\ got \in [Subs -> Seq(Event)] /\ owed \in [Subs -> Seq(Event)]
        /\ seen \in [Subs -> (SUBSET Entry) \cup {None}]
    BY DEF EventsTypeOK
  <2>4. got' \in [Subs -> Seq(Event)]
    BY <1>7, <2>1, <2>3
  <2>5. LookedUp(s, Head(chan[s]).id) \in (SUBSET Entry) \cup {None}
    BY <2>3, LookedUpType
  <2>6. seen' \in [Subs -> (SUBSET Entry) \cup {None}]
    BY <1>7, <2>3, <2>5
  <2>7. EventsTypeOK'
    BY <1>1, <2>2, <2>3, <2>4, <2>6 DEF EventsTypeOK
  <2>8. Streams'
    BY <1>1, <1>7, <2>1, <2>3 DEF Streams
  <2> QED
    BY <1>2, <2>7, <2>8
<1> QED
  BY <1>3, <1>4, <1>6, <1>7 DEF Consume, Receive

LEMMA ReadAllKeeps ==
    ASSUME EInv, IInv', NEW s \in Subs, ReadAll(s)
    PROVE  EInv'
<1> USE DEF EInv
<1>1. /\ UNCHANGED <<pc, ev, subs, em, owed, got, st, filter, chan, call, late>>
      /\ st[s] = "live" /\ seen' = [seen EXCEPT ![s] = h.side.recs] /\ h # None
  BY DEF ReadAll, vars, streamVars
<1>2. Announced' /\ Emitting' /\ Registered' /\ Walked'
  BY <1>1 DEF Announced, Emitting, Registered, Walked
<1>3. h.side.recs \in SUBSET Entry
  BY <1>1 DEF IInv, TypeOK, Handles, Sidecar
<1>4. EventsTypeOK'
  <2>1. seen' \in [Subs -> (SUBSET Entry) \cup {None}]
    BY <1>1, <1>3 DEF EventsTypeOK
  <2> QED
    BY <1>1, <2>1 DEF EventsTypeOK, StreamTypeOK
<1>5. Streams'
  BY <1>1 DEF Streams, EventsTypeOK
<1> QED
  BY <1>2, <1>4, <1>5

LEMMA UnsubscribeKeeps ==
    ASSUME EInv, IInv', NEW s \in Subs, Unsubscribe(s)
    PROVE  EInv'
<1> USE DEF EInv, Unsubscribe, DropStream, Forget
<1>1. Announced' /\ Emitting'
  BY DEF vars, Announced, Emitting
<1>2. EventsTypeOK'
  <2>1. StreamTypeOK(Event)'
    BY DEF EventsTypeOK, StreamTypeOK
  <2>2. /\ UNCHANGED <<subs, em>>
        /\ got' \in [Subs -> Seq(Event)] /\ owed' \in [Subs -> Seq(Event)]
    BY DEF EventsTypeOK
  <2>3. seen' \in [Subs -> (SUBSET Entry) \cup {None}]
    BY DEF EventsTypeOK
  <2> QED
    BY <2>1, <2>2, <2>3 DEF EventsTypeOK
<1>3. Streams'
  <2>1. got'[s] = <<>> /\ chan'[s] = <<>> /\ seen'[s] = None
    BY DEF EventsTypeOK, StreamTypeOK
  <2>2. \A x \in Subs \ {s} : UNCHANGED <<got[x], chan[x], st[x], seen[x]>>
    BY DEF EventsTypeOK, StreamTypeOK
  <2> QED
    BY <2>1, <2>2 DEF Streams
<1>4. st' = [st EXCEPT ![s] = "dropped"] /\ st \in [Subs -> {"none", "live", "dropped"}]
  BY DEF EventsTypeOK, StreamTypeOK
<1>5. Registered'
  BY <1>4 DEF Registered, EventsTypeOK
<1>6. Walked'
  BY <1>4 DEF Walked, EventsTypeOK
<1> QED
  BY <1>1, <1>2, <1>3, <1>5, <1>6

-----------------------------------------------------------------------------
(* The invariant, its base case and its step.                              *)

LEMMA InitEInv == Init /\ EventsInit => EInv
<1> SUFFICES ASSUME Init, EventsInit PROVE EInv
  OBVIOUS
<1>1. IInv
  BY InitIInv
<1>2. Announced /\ Emitting
  BY DEF Init, EventsInit, Announced, Emitting
<1>3. EventsTypeOK
  <2>1. StreamTypeOK(Event)
    BY DEF EventsInit, StreamsInit, StreamTypeOK
  <2>2. /\ subs = <<>> /\ em = None
        /\ got \in [Subs -> Seq(Event)] /\ owed \in [Subs -> Seq(Event)]
    BY DEF EventsInit
  <2>3. seen \in [Subs -> (SUBSET Entry) \cup {None}]
    BY DEF EventsInit
  <2> QED
    BY <2>1, <2>2, <2>3 DEF EventsTypeOK
<1>4. Streams /\ Registered /\ Walked
  BY DEF EventsInit, StreamsInit, Streams, Registered, Walked
<1> QED
  BY <1>1, <1>2, <1>3, <1>4 DEF EInv

LEMMA StepEInv == EInv /\ [EventsNext]_allVars => EInv'
<1> SUFFICES ASSUME EInv, [EventsNext]_allVars PROVE EInv'
  OBVIOUS
<1>0. IInv'
  BY StepOfStore, StepIInv DEF EInv
<1>1. CASE Store \/ Die
  BY <1>0, <1>1, StoreKeeps, DieKeeps
<1>2. CASE \E t \in Threads : Emit(t)
  BY <1>0, <1>2, EmitStartKeeps, EmitSendKeeps, EmitEndKeeps DEF Emit
<1>3. CASE \E s \in Subs : \/ \E f \in Filters : Subscribe(s, f)
                          \/ Consume(s) \/ ReadAll(s) \/ Unsubscribe(s)
  BY <1>0, <1>3, SubscribeKeeps, ConsumeKeeps, ReadAllKeeps, UnsubscribeKeeps
<1>4. CASE UNCHANGED allVars
  <2>1. Announced' /\ Emitting' /\ EventsTypeOK'
    BY <1>4 DEF allVars, vars, streamVars, history, EInv, Announced, Emitting, EventsTypeOK, StreamTypeOK
  <2>2. Streams' /\ Registered' /\ Walked'
    BY <1>4 DEF allVars, vars, streamVars, history, EInv, Streams, Registered, Walked
  <2> QED
    BY <1>0, <2>1, <2>2 DEF EInv
<1> QED
  BY <1>1, <1>2, <1>3, <1>4 DEF EventsNext

LEMMA EInductive == EventsSpec => []EInv
BY InitEInv, StepEInv, PTL DEF EventsSpec

-----------------------------------------------------------------------------
\* Types of the event surface: each channel holds events of the store, and an
\* emission never walks past the end of the senders, which shrink under it
\* (tenant.rs:290-296), for any number of threads and streams.
THEOREM EventsTypeCorrect == EventsSpec => []EventsTypeOK
<1>1. EInv => EventsTypeOK
  BY DEF EInv
<1> QED
  BY <1>1, EInductive, PTL

\* An emission that ends has removed every sender that was dead when it began
\* (tenant.rs:290-296), however streams come and go during its walk.
THEOREM DeadArePruned == EventsSpec => DeadPruned
<1>1. EInv /\ [EventsNext]_allVars =>
          [\A t \in Threads : EmitEnd(t) => ToSet(subs) \cap em.dead = {}]_allVars
  <2> SUFFICES ASSUME EInv, NEW t \in Threads, EmitEnd(t)
               PROVE  ToSet(subs) \cap em.dead = {}
    OBVIOUS
  <2>1. /\ em # None /\ em.at > Len(subs) /\ subs \in Seq(Subs)
        /\ em.at \in 1 .. Len(subs) + 1
    BY DEF EmitEnd, EInv, EventsTypeOK
  <2>2. Len(subs) \in Nat /\ DOMAIN subs = 1 .. Len(subs)
    BY <2>1, LenProperties
  <2>3. \A j \in DOMAIN subs : subs[j] \notin em.dead
    BY <2>1, <2>2 DEF EInv, Walked
  <2> QED
    BY <2>3 DEF ToSet
<1> QED
  BY <1>1, EInductive, PTL DEF EventsSpec, DeadPruned

-----------------------------------------------------------------------------
(* Versions, of records and of events, stay in the range of the broadcast. *)

Versioned(recs) == \A e \in recs : e.ver \in 1 .. MaxVer

Numbered ==
    /\ Versioned(Records)
    /\ \A d \in Dirs : Versioned(Disk[d].recs)
    /\ \A t \in Threads : ev[t] # None => ev[t].ver \in 1 .. MaxVer

\* A tenant being a map, its records come from inserts or from its files.
LEMMA MapVersioned ==
    ASSUME RInv, Numbered, Map!Step
    PROVE  Versioned(Records') /\ \A d \in Dirs : Versioned(Disk'[d].recs)
<1>1. /\ Versioned(Records) /\ \A d \in Dirs : Versioned(Disk[d].recs)
      /\ OpenDir \in Dirs \cup {None}
  BY DEF Numbered, OpenDir, RInv, SafeInv, IInv, TypeOK, Handles
<1>2. Disk = [d \in Dirs |-> Disk[d]]
  BY DEF Disk
<1>3. ASSUME UNCHANGED Records, UNCHANGED Disk
      PROVE  Versioned(Records') /\ \A d \in Dirs : Versioned(Disk'[d].recs)
  BY <1>1, <1>3
<1>4. ASSUME NEW d \in Dirs, NEW S, Versioned(S), Disk' = [Disk EXCEPT ![d] = Map!Whole(S)]
      PROVE  \A x \in Dirs : Versioned(Disk'[x].recs)
  BY <1>1, <1>2, <1>4 DEF Map!Whole
<1>5. ASSUME NEW d \in Dirs, Disk' = [Disk EXCEPT ![d] = Map!Lost]
      PROVE  \A x \in Dirs : Versioned(Disk'[x].recs)
  BY <1>1, <1>2, <1>5 DEF Map!Lost, Versioned
<1>6. ASSUME Map!Elsewhere
      PROVE  \A x \in Dirs : Versioned(Disk'[x].recs)
  <2>1. CASE UNCHANGED Disk
    BY <1>1, <2>1
  <2>2. ASSUME NEW d \in Dirs, Disk'[d] \in {Disk[s] : s \in Dirs} \cup {Map!Absent, Map!Lost},
               Disk' = [Disk EXCEPT ![d] = Disk'[d]]
        PROVE  \A x \in Dirs : Versioned(Disk'[x].recs)
    <3>1. Versioned(Disk'[d].recs)
      BY <1>1, <2>2 DEF Map!Absent, Map!Lost, Versioned
    <3>2. \A x \in Dirs \ {d} : Disk'[x] = Disk[x]
      BY <1>2, <2>2
    <3> QED
      BY <1>1, <3>1, <3>2
  <2> QED
    BY <1>6, <2>1, <2>2 DEF Map!Elsewhere, Map!Disturb, Targets
<1>7. CASE \E d \in Dirs : Map!Create(d) \/ Map!CutCreate(d) \/ Map!Open(d)
  <2> PICK d \in Dirs : Map!Create(d) \/ Map!CutCreate(d) \/ Map!Open(d)
    BY <1>7
  <2>1. CASE Map!Create(d)
    <3>1. Versioned({}) /\ Records' = {} /\ Disk' = [Disk EXCEPT ![d] = Map!Whole({})]
      BY <2>1 DEF Map!Create, Versioned
    <3> QED
      BY <1>4, <3>1
  <2>2. CASE Map!CutCreate(d)
    BY <1>1, <1>5, <2>2 DEF Map!CutCreate
  <2>3. CASE Map!Open(d)
    BY <1>1, <2>3 DEF Map!Open
  <2> QED
    BY <2>1, <2>2, <2>3
<1>8. CASE \E i \in Ids : Map!Delete(i) \/ \E v \in 1 .. MaxVer : Map!Insert(i, v)
  BY <1>1, <1>8 DEF Map!Delete, Map!Insert, Map!Others, Versioned
<1>9. CASE Map!Cut \/ Map!Flush
  BY <1>1, <1>4, <1>5, <1>9 DEF Map!Cut, Map!Flush
<1>10. CASE (Map!Elsewhere /\ UNCHANGED <<OpenDir, Records>>) \/ Map!Leave
  BY <1>1, <1>6, <1>10 DEF Map!Leave, Versioned
<1> QED
  BY <1>7, <1>8, <1>9, <1>10 DEF Map!Step

\* Only insert and delete make an event.
LEMMA NewEvents ==
    ASSUME TypeOK, [Next]_vars, NEW t \in Threads
    PROVE  \/ ev'[t] \in {ev[t], None}
           \/ \E i \in Ids : InsertIndex(t, i) \/ Delete(t, i)
<1>1. ASSUME NEW u \in Threads, Boot(u)
      PROVE  ev' = ev
  BY <1>1 DEF Boot, Open, CreateNew, OpenExisting, OpenAdopt, OpenCreate, CreateIndex,
              SidecarTruncate, SidecarFill
<1>2. ASSUME NEW u \in Threads, Mutate(u)
      PROVE  ev'[t] = ev[t] \/ \E i \in Ids : InsertIndex(t, i) \/ Delete(t, i)
  <2>1. CASE InsertSidecar(u) \/ Consolidate(u)
    BY <2>1 DEF InsertSidecar, Consolidate
  <2>2. ASSUME NEW i \in Ids, InsertIndex(u, i) \/ Delete(u, i)
        PROVE  ev'[t] = ev[t] \/ u = t
    BY <2>2 DEF TypeOK, InsertIndex, Delete
  <2> QED
    BY <1>2, <2>1, <2>2 DEF Mutate
<1>3. ASSUME NEW u \in Threads, Persist(u) \/ Lifecycle(u)
      PROVE  ev' = ev
  <2>1. CASE Persist(u)
    BY <2>1 DEF Persist, Flush, TruncateSidecar, FlushFill, FlushError
  <2>2. CASE Lifecycle(u)
    BY <2>2 DEF Lifecycle, SnapshotElsewhere, Snapshot, TruncateSidecar, RestoreFrom, CopyFile,
                CopyError, RemoveFile, SnapshotDone, RestoreOpen, Destroy, DestroyDone
  <2> QED
    BY <1>3, <2>1, <2>2
<1>4. CASE (\E r \in Readers : OpenReadonly(r)) \/ Close \/ UNCHANGED vars
  BY <1>4 DEF OpenReadonly, ReadSidecar, ReadIndex, CloseView, Close, vars
<1>5. CASE Crash \/ \E u \in Threads : EmitDone(u)
  BY <1>5 DEF TypeOK, Crash, EmitDone
<1> QED
  BY <1>1, <1>2, <1>3, <1>4, <1>5 DEF Next, SilentNext

LEMMA NumberedInvariant == Spec => []Numbered
<1>1. Init => Numbered
  <2> SUFFICES ASSUME Init PROVE Numbered
    OBVIOUS
  <2>1. Records = {} /\ \A d \in Dirs : Disk[d].recs = {}
    BY InitMaps DEF Map!Init, Map!Absent
  <2> QED
    BY <2>1 DEF Init, Numbered, Versioned
<1>2. RInv /\ Numbered /\ [Next]_vars => Numbered'
  <2> SUFFICES ASSUME RInv, Numbered, [Next]_vars PROVE Numbered'
    OBVIOUS
  <2>1. Versioned(Records)' /\ \A d \in Dirs : Versioned(Disk[d].recs)'
    <3>1. CASE Next
      BY <3>1, StepMaps, MapVersioned DEF Versioned
    <3>2. CASE UNCHANGED vars
      <4>1. UNCHANGED <<Records, Disk>>
        BY <3>2, DiskSame DEF vars, Records, Filling
      <4> QED
        BY <4>1 DEF Numbered, Versioned
    <3> QED
      BY <3>1, <3>2
  <2>2. ASSUME NEW t \in Threads, ev'[t] # None
        PROVE  ev'[t].ver \in 1 .. MaxVer
    <3>1. CASE ev'[t] \in {ev[t], None}
      BY <2>2, <3>1 DEF Numbered
    <3>2. ASSUME NEW i \in Ids, InsertIndex(t, i)
          PROVE  ev'[t].ver \in 1 .. MaxVer
      BY <3>2, BoundAssumption DEF RInv, SafeInv, IInv, TypeOK, Versions, InsertIndex
    <3>3. ASSUME NEW i \in Ids, Delete(t, i)
          PROVE  ev'[t].ver \in 1 .. MaxVer
      <4>1. Records = h.side.recs
        BY <3>3 DEF Delete, CanLock, CanEnter, Records
      <4>2. PICK e \in h.side.recs :
                ev' = [ev EXCEPT ![t] = [kind |-> "RecordDeleted", id |-> i, ver |-> e.ver]]
        BY <3>3 DEF Delete
      <4>3. ev'[t].ver = e.ver
        BY <4>2 DEF RInv, SafeInv, IInv, TypeOK
      <4> QED
        BY <4>1, <4>2, <4>3 DEF Numbered, Versioned
    <3>4. TypeOK
      BY DEF RInv, SafeInv, IInv
    <3> QED
      BY <3>1, <3>2, <3>3, <3>4, NewEvents
  <2> QED
    BY <2>1, <2>2 DEF Numbered
<1> QED
  BY <1>1, <1>2, RInductive, PTL DEF Spec

-----------------------------------------------------------------------------
(* The events refine the broadcast.                                        *)

LEMMA Concats ==
    ASSUME NEW S, NEW q \in Seq(S)
    PROVE  /\ q \o <<>> = q
           /\ \A e \in S : q \o <<e>> = Append(q, e)
           /\ \A r \in Seq(S) : q # <<>> =>
                  q \o r # <<>> /\ Tail(q \o r) = Tail(q) \o r /\ Head(q \o r) = Head(q)
<1>1. q \o <<>> = q
  BY ConcatEmptySeq
<1>2. \A e \in S : q \o <<e>> = Append(q, e)
  BY AppendIsConcat
<1>3. ASSUME NEW r \in Seq(S), q # <<>>
      PROVE  q \o r # <<>> /\ Tail(q \o r) = Tail(q) \o r /\ Head(q \o r) = Head(q)
  BY <1>3
<1> QED
  BY <1>1, <1>2, <1>3

\* What is under way to a stream is at most the event of the thread in emit.
LEMMA Carried ==
    ASSUME EInv, NEW s \in Subs
    PROVE  /\ chan[s] \in Seq(Event)
           /\ InFlight(s) = <<>> \/ (em # None /\ ev[em.thread] \in Event
                                     /\ InFlight(s) = <<ev[em.thread]>>)
           /\ InFlight(s) \in Seq(Event)
<1>1. chan[s] \in Seq(Event)
  BY DEF EInv, EventsTypeOK, StreamTypeOK
<1>2. em # None => ev[em.thread] \in Event
  BY TheEvent DEF EInv, EventsTypeOK, Emitting
<1> QED
  BY <1>1, <1>2 DEF InFlight

\* A stream that is not live has nothing published to it.
LEMMA NothingPending ==
    ASSUME EInv, NEW s \in Subs, st[s] # "live"
    PROVE  Pending[s] = <<>>
<1>1. chan[s] = <<>> /\ InFlight(s) = <<>>
  BY DEF EInv, Streams, InFlight
<1>2. <<>> \o <<>> = <<>>
  BY Concats
<1> QED
  BY <1>1, <1>2 DEF Pending

LEMMA SameInFlight ==
    ASSUME UNCHANGED <<em, st, subs>>, em # None => ev'[em.thread] = ev[em.thread]
    PROVE  \A s \in Subs : InFlight(s)' = InFlight(s)
BY DEF InFlight

LEMMA Stutters ==
    ASSUME UNCHANGED <<st, subs, chan>>, \A s \in Subs : InFlight(s)' = InFlight(s)
    PROVE  UNCHANGED B!vars
BY DEF B!vars, Listening, Pending

\* The store leaves the streams alone, or hangs up on all of them.
LEMMA StoreBroadcasts ==
    ASSUME EInv, IInv', Store
    PROVE  [B!Next]_(B!vars) /\ Pending' = Pending
<1>1. /\ \A t \in Threads : pc[t] = "emit" => ev'[t] = ev[t]
      /\ h # None /\ h' = None => Alone
  BY StoreEmits DEF EInv, Store
<1>2. UNCHANGED <<em, st, chan>> /\ (em # None => em.thread \in Threads /\ pc[em.thread] = "emit")
  BY DEF EInv, EventsTypeOK, Emitting, Store, streamVars
<1>3. CASE subs' = subs
  BY <1>1, <1>2, <1>3, SameInFlight, Stutters DEF B!vars
<1>4. CASE h # None /\ h' = None /\ subs' = <<>>
  <2>1. em = None /\ em' = None
    BY <1>1, <1>2, <1>4 DEF Alone
  <2>2. Listening' = {}
    BY <1>4 DEF Listening, ToSet
  <2>3. Pending' = Pending
    BY <1>2, <2>1 DEF Pending, InFlight
  <2> QED
    BY <2>2, <2>3 DEF B!Next, B!Hangup
<1> QED
  BY <1>3, <1>4 DEF Store

LEMMA DieBroadcasts ==
    ASSUME EInv, Die
    PROVE  [B!Next]_(B!vars)
<1>1. Listening' = {}
  BY DEF Die, Listening, ToSet
<1>2. \A s \in Subs : chan'[s] = <<>> /\ InFlight(s)' = <<>>
  BY DEF Die, InFlight
<1>3. <<>> \o <<>> = <<>>
  BY Concats
<1>4. Pending' = [s \in Subs |-> <<>>]
  BY <1>2, <1>3 DEF Pending
<1> QED
  BY <1>1, <1>4 DEF B!Next, B!Crash

LEMMA SubscribeBroadcasts ==
    ASSUME EInv, NEW s \in Subs, NEW f \in Filters, Subscribe(s, f)
    PROVE  [B!Next]_(B!vars) /\ Pending' = Pending
<1>1. /\ st[s] = "none" /\ st' = [st EXCEPT ![s] = "live"]
      /\ subs' = Append(subs, s) /\ em = None /\ UNCHANGED <<em, chan>>
  BY DEF Subscribe, CanRegister, SubscribersFree, NewStream
<1>2. st \in [Subs -> {"none", "live", "dropped"}] /\ subs \in Seq(Subs)
  BY DEF EInv, EventsTypeOK, StreamTypeOK
<1>3. s \notin Listening /\ Pending[s] = <<>>
  BY <1>1, NothingPending DEF Listening
<1>4. ToSet(subs') = ToSet(subs) \cup {s} /\ ToSet(subs) \subseteq Subs
  <2>1. Len(subs) \in Nat /\ \A i \in 1 .. Len(subs) : subs[i] \in Subs
    BY <1>2, LenProperties, ElementOfSeq
  <2>2. /\ DOMAIN subs = 1 .. Len(subs) /\ DOMAIN subs' = 1 .. Len(subs) + 1
        /\ \A i \in 1 .. Len(subs) + 1 : subs'[i] = IF i <= Len(subs) THEN subs[i] ELSE s
    BY <1>1, <1>2
  <2> QED
    BY <2>1, <2>2 DEF ToSet
<1>5. Listening' = Listening \cup {s}
  BY <1>1, <1>2, <1>4 DEF Listening
<1>6. Pending' = Pending
  BY <1>1 DEF Pending, InFlight
<1> QED
  BY <1>3, <1>5, <1>6 DEF B!Next, B!Subscribe

\* The event is published the moment the emission takes the lock.
LEMMA EmitStartPending ==
    ASSUME EInv, NEW t \in Threads, EmitStart(t)
    PROVE  /\ ev[t] \in Event /\ Listening' = Listening
           /\ \A s \in Subs : Pending'[s] = IF s \in Listening THEN Append(Pending[s], ev[t])
                                            ELSE Pending[s]
<1>1. /\ em = None /\ em' # None /\ em'.thread = t /\ em'.at = 1
      /\ UNCHANGED <<st, subs, chan, ev>> /\ pc[t] = "emit"
  <2>1. em' = [thread |-> t, at |-> 1, dead |-> {x \in Subs : st[x] = "dropped"}]
    BY DEF EmitStart
  <2>2. em' # None
    BY <2>1, EmissionAssumption DEF Emissions
  <2> QED
    BY <2>1, <2>2 DEF EmitStart, SubscribersFree, streamVars, vars
<1>2. ev[t] \in Event
  BY <1>1, TheEvent DEF EInv
<1>3. Listening' = Listening
  BY <1>1 DEF Listening
<1>4. subs \in Seq(Subs) /\ DOMAIN subs = 1 .. Len(subs)
  BY LenProperties DEF EInv, EventsTypeOK
<1>5. ASSUME NEW s \in Subs
      PROVE  Pending'[s] = IF s \in Listening THEN Append(Pending[s], ev[t]) ELSE Pending[s]
  <2>1. InFlight(s) = <<>> /\ InFlight(s)' = IF s \in Listening THEN <<ev[t]>> ELSE <<>>
    BY <1>1, <1>4 DEF InFlight, Listening, ToSet
  <2>2. chan[s] \in Seq(Event) /\ Pending[s] = chan[s]
    BY <2>1, Carried, Concats DEF Pending
  <2>3. Pending'[s] = chan[s] \o InFlight(s)'
    BY <1>1 DEF Pending
  <2>4. chan[s] \o <<>> = chan[s] /\ chan[s] \o <<ev[t]>> = Append(chan[s], ev[t])
    BY <1>2, <2>2, Concats
  <2> QED
    BY <2>1, <2>2, <2>3, <2>4
<1> QED
  BY <1>2, <1>3, <1>5

LEMMA EmitStartBroadcasts ==
    ASSUME EInv, Numbered, NEW t \in Threads, EmitStart(t)
    PROVE  [B!Next]_(B!vars)
<1>1. /\ ev[t] \in Event /\ Listening' = Listening
      /\ \A s \in Subs : Pending'[s] = IF s \in Listening THEN Append(Pending[s], ev[t])
                                       ELSE Pending[s]
  BY EmitStartPending
<1>2. ev[t].ver \in 1 .. MaxVer
  BY DEF EmitStart, Numbered, EInv, Announced
<1>3. ev[t] \in [kind : Kinds, id : Ids, ver : 1 .. MaxVer]
  BY <1>1, <1>2 DEF Event, Kinds
<1>4. Pending' = [s \in Subs |-> IF s \in Listening THEN Append(Pending[s], ev[t]) ELSE Pending[s]]
  BY <1>1 DEF Pending
<1> QED
  BY <1>1, <1>3, <1>4 DEF B!Next, B!Publish

\* The rest of the emission only moves the event to where it already counts.
LEMMA EmitSendBroadcasts ==
    ASSUME EInv, NEW t \in Threads, EmitSend(t)
    PROVE  UNCHANGED B!vars
<1>1. /\ UNCHANGED <<st, ev>> /\ em # None /\ em.thread = t /\ em.at <= Len(subs)
  BY DEF EmitSend, vars
<1>2. /\ em \in [thread : Threads, at : 1 .. Len(subs) + 1, dead : SUBSET Subs]
      /\ subs \in Seq(Subs) /\ Len(subs) \in Nat /\ em.at \in 1 .. Len(subs)
      /\ \A i \in 1 .. Len(subs) : subs[i] \in Subs
  BY <1>1, LenProperties, ElementOfSeq DEF EInv, EventsTypeOK
<1>3. ev[t] \in Event
  BY <1>1, TheEvent DEF EInv, Emitting
<1>4. \A k \in Nat : [em EXCEPT !.at = k] # None
  BY <1>2, EmissionAssumption DEF Emissions
<1> PICK s \in Subs : s = subs[em.at]
  BY <1>2
<1>5. CASE /\ st[s] = "live"
           /\ chan' = [chan EXCEPT ![s] = Append(@, ev[t])]
           /\ em' = [em EXCEPT !.at = @ + 1]
           /\ UNCHANGED subs
  <2>1. em' # None /\ em'.at = em.at + 1 /\ em'.thread = t
    BY <1>1, <1>2, <1>4, <1>5
  <2>2. InFlight(s) = <<ev[t]>> /\ InFlight(s)' = <<>>
    <3>1. \A j \in em.at + 1 .. Len(subs) : subs[j] # s
      BY <1>2 DEF EInv, Registered
    <3>2. em.at \in em.at .. Len(subs) /\ subs[em.at] = s
      BY <1>2
    <3>3. InFlight(s) = <<ev[t]>>
      BY <1>1, <1>5, <3>2 DEF InFlight
    <3>4. InFlight(s)' = <<>>
      BY <1>5, <2>1, <3>1 DEF InFlight
    <3> QED
      BY <3>3, <3>4
  <2>3. \A x \in Subs \ {s} : InFlight(x)' = InFlight(x)
    BY <1>1, <1>2, <1>5, <2>1 DEF InFlight
  <2>4. /\ chan \in [Subs -> Seq(Event)] /\ s \in Subs
        /\ chan'[s] = Append(chan[s], ev[t]) /\ \A x \in Subs \ {s} : chan'[x] = chan[x]
    BY <1>2, <1>5 DEF EInv, EventsTypeOK, StreamTypeOK
  <2>5. chan'[s] \o InFlight(s)' = chan[s] \o InFlight(s)
    <3>1. chan[s] \in Seq(Event) /\ Append(chan[s], ev[t]) \in Seq(Event)
      BY <1>3, <2>4
    <3>2. /\ chan[s] \o <<ev[t]>> = Append(chan[s], ev[t])
          /\ Append(chan[s], ev[t]) \o <<>> = Append(chan[s], ev[t])
      BY <1>3, <3>1, Concats
    <3> QED
      BY <2>2, <2>4, <3>2
  <2>6. Pending' = Pending
    BY <2>3, <2>4, <2>5 DEF Pending
  <2>7. Listening' = Listening
    BY <1>1, <1>5 DEF Listening
  <2> QED
    BY <2>6, <2>7 DEF B!vars
<1>6. CASE /\ st[s] = "dropped"
           /\ subs' = DropSender(em.at)
           /\ em' = [em EXCEPT !.at = IF Len(subs') < Len(subs) THEN AfterDead(@) ELSE @ + 1]
           /\ UNCHANGED chan
  <2>1. /\ subs' \in Seq(Subs) /\ Len(subs') = Len(subs) - 1
        /\ \A j \in 1 .. Len(subs) - 1 : subs'[j] = IF j < em.at THEN subs[j] ELSE subs[j + 1]
    BY <1>2, <1>6, Removed DEF DropSender
  <2>2. em' = em
    BY <1>2, <1>6, <2>1 DEF AfterDead
  <2>3. ASSUME NEW x \in Subs, st[x] = "live", NEW j \in 1 .. Len(subs), subs[j] = x
        PROVE  \E k \in 1 .. Len(subs') : subs'[k] = x /\ (j >= em.at => k >= em.at)
    <3>1. j # em.at
      BY <1>6, <2>3
    <3>2. CASE j < em.at
      BY <1>2, <2>1, <2>3, <3>2
    <3>3. CASE j > em.at
      <4>1. j - 1 \in 1 .. Len(subs') /\ j - 1 >= em.at /\ subs'[j - 1] = subs[j]
        BY <1>2, <2>1, <3>3
      <4> QED
        BY <2>3, <4>1
    <3> QED
      BY <1>2, <3>1, <3>2, <3>3
  <2>4. ASSUME NEW k \in 1 .. Len(subs')
        PROVE  \E j \in 1 .. Len(subs) : subs[j] = subs'[k] /\ (k >= em.at => j >= em.at)
    <3>1. CASE k < em.at
      BY <1>2, <2>1, <3>1
    <3>2. CASE k >= em.at
      <4>1. k + 1 \in 1 .. Len(subs) /\ subs'[k] = subs[k + 1] /\ k + 1 >= em.at
        BY <1>2, <2>1, <3>2
      <4> QED
        BY <4>1
    <3> QED
      BY <1>2, <2>1, <3>1, <3>2
  <2>5. DOMAIN subs = 1 .. Len(subs) /\ DOMAIN subs' = 1 .. Len(subs') /\ Len(subs') \in Nat
    BY <1>2, <2>1, LenProperties
  <2>6. ASSUME NEW x \in Subs
        PROVE  InFlight(x)' = InFlight(x)
    <3>1. st[x] = "live" => ((\E j \in em.at .. Len(subs) : subs[j] = x)
                             <=> (\E k \in em.at .. Len(subs') : subs'[k] = x))
      <4>1. ASSUME st[x] = "live", NEW j \in em.at .. Len(subs), subs[j] = x
            PROVE  \E k \in em.at .. Len(subs') : subs'[k] = x
        <5>1. j \in 1 .. Len(subs) /\ j >= em.at
          BY <1>2, <4>1
        <5>2. PICK k \in 1 .. Len(subs') : subs'[k] = x /\ k >= em.at
          BY <2>3, <4>1, <5>1
        <5> QED
          BY <1>2, <2>5, <5>2
      <4>2. ASSUME NEW k \in em.at .. Len(subs'), subs'[k] = x
            PROVE  \E j \in em.at .. Len(subs) : subs[j] = x
        <5>1. k \in 1 .. Len(subs') /\ k >= em.at
          BY <1>2, <2>5, <4>2
        <5>2. PICK j \in 1 .. Len(subs) : subs[j] = x /\ j >= em.at
          BY <2>4, <4>2, <5>1
        <5> QED
          BY <1>2, <5>2
      <4> QED
        BY <4>1, <4>2
    <3> QED
      BY <1>1, <2>2, <3>1 DEF InFlight
  <2>7. ASSUME NEW x \in Subs, st[x] = "live"
        PROVE  x \in ToSet(subs) <=> x \in ToSet(subs')
    <3>1. x \in ToSet(subs) <=> \E j \in 1 .. Len(subs) : subs[j] = x
      BY <2>5 DEF ToSet
    <3>2. x \in ToSet(subs') <=> \E k \in 1 .. Len(subs') : subs'[k] = x
      BY <2>5 DEF ToSet
    <3> QED
      BY <2>3, <2>4, <2>7, <3>1, <3>2
  <2>8. ToSet(subs) \subseteq Subs /\ ToSet(subs') \subseteq Subs
    BY <1>2, <2>1, <2>5, ElementOfSeq DEF ToSet
  <2>9. Listening' = Listening
    BY <1>1, <2>7, <2>8 DEF Listening
  <2> QED
    BY <1>6, <2>6, <2>9 DEF B!vars, Pending
<1> QED
  BY <1>5, <1>6 DEF EmitSend

LEMMA EmitEndBroadcasts ==
    ASSUME EInv, NEW t \in Threads, EmitEnd(t)
    PROVE  UNCHANGED B!vars
<1>1. /\ UNCHANGED <<st, subs, chan>> /\ em' = None /\ em # None /\ em.at > Len(subs)
      /\ em.at \in 1 .. Len(subs) + 1 /\ Len(subs) \in Nat
  BY LenProperties DEF EmitEnd, streamVars, EInv, EventsTypeOK
<1>2. \A s \in Subs : InFlight(s)' = InFlight(s)
  BY <1>1 DEF InFlight
<1> QED
  BY <1>1, <1>2, Stutters

\* A receive call takes what was published one by one.
LEMMA ConsumePending ==
    ASSUME EInv, NEW s \in Subs, Consume(s)
    PROVE  /\ UNCHANGED Listening
           /\ \/ UNCHANGED <<chan, Pending>>
              \/ /\ chan[s] # <<>> /\ Head(Pending[s]) = Head(chan[s])
                 /\ Pending[s] # <<>> /\ Pending' = [Pending EXCEPT ![s] = Tail(@)]
<1>1. UNCHANGED <<st, subs, em, ev>>
  BY DEF Consume, StartCall, Receive, TimePasses, Begin, SkipEvent, GiveUp, TakeEvent, Deadline,
         vars, history
<1>2. \A x \in Subs : InFlight(x)' = InFlight(x)
  BY <1>1, SameInFlight
<1>3. Listening' = Listening
  BY <1>1 DEF Listening
<1>4. CASE UNCHANGED chan
  BY <1>1, <1>2, <1>3, <1>4 DEF Pending
<1>5. CASE chan[s] # <<>> /\ chan' = [chan EXCEPT ![s] = Tail(@)]
  <2>1. chan \in [Subs -> Seq(Event)]
    BY DEF EInv, EventsTypeOK, StreamTypeOK
  <2>2. Pending[s] # <<>> /\ Pending'[s] = Tail(Pending[s]) /\ Head(Pending[s]) = Head(chan[s])
    <3>1. /\ chan[s] \o InFlight(s) # <<>> /\ Tail(chan[s] \o InFlight(s)) = Tail(chan[s]) \o InFlight(s)
          /\ Head(chan[s] \o InFlight(s)) = Head(chan[s])
      BY <1>5, Carried, Concats
    <3>2. Pending'[s] = Tail(chan[s]) \o InFlight(s)
      BY <1>2, <1>5, <2>1 DEF Pending
    <3> QED
      BY <3>1, <3>2 DEF Pending
  <2>3. Pending' = [Pending EXCEPT ![s] = Tail(@)]
    BY <1>2, <1>5, <2>1, <2>2 DEF Pending
  <2> QED
    BY <1>3, <1>5, <2>2, <2>3
<1> QED
  BY <1>4, <1>5 DEF Consume, StartCall, Receive, TimePasses, Begin, SkipEvent, GiveUp,
                    TakeEvent, Deadline

LEMMA ConsumeBroadcasts ==
    ASSUME EInv, NEW s \in Subs, Consume(s)
    PROVE  [B!Next]_(B!vars)
BY ConsumePending DEF B!vars, B!Next, B!Take

\* A stream that is dropped, even under an emission, takes its queue with it.
LEMMA UnsubscribeBroadcasts ==
    ASSUME EInv, NEW s \in Subs, Unsubscribe(s)
    PROVE  [B!Next]_(B!vars) /\ Pending' = [Pending EXCEPT ![s] = <<>>]
<1>1. /\ st \in [Subs -> {"none", "live", "dropped"}] /\ st' = [st EXCEPT ![s] = "dropped"]
      /\ chan \in [Subs -> Seq(Event)] /\ chan' = [chan EXCEPT ![s] = <<>>]
      /\ UNCHANGED <<subs, em, ev>>
  BY DEF Unsubscribe, DropStream, vars, EInv, EventsTypeOK, StreamTypeOK
<1>2. ToSet(subs) \subseteq Subs
  BY ElementOfSeq, LenProperties DEF EInv, EventsTypeOK, ToSet
<1>3. Listening' = Listening \ {s}
  BY <1>1, <1>2 DEF Listening
<1>4. chan'[s] \o InFlight(s)' = <<>>
  <2>1. chan'[s] = <<>> /\ InFlight(s)' = <<>>
    BY <1>1 DEF InFlight
  <2>2. <<>> \o <<>> = <<>>
    BY Concats
  <2> QED
    BY <2>1, <2>2
<1>5. \A x \in Subs \ {s} : chan'[x] = chan[x] /\ InFlight(x)' = InFlight(x)
  BY <1>1 DEF InFlight
<1>6. Pending' = [Pending EXCEPT ![s] = <<>>]
  BY <1>4, <1>5 DEF Pending
<1> QED
  BY <1>3, <1>6 DEF B!Next, B!Leave

\* Emissions are an atomic broadcast, for any number of writers, streams and
\* records: who subscribes or drops in the middle of one sees all of it or
\* nothing, and what was published is taken in order (tenant.rs:283-296).
THEOREM EventsAreBroadcast == EventsSpec => BroadcastSpec
<1>1. Init /\ EventsInit => B!Init
  <2> SUFFICES ASSUME EventsInit PROVE B!Init
    OBVIOUS
  <2>1. Listening = {}
    BY DEF EventsInit, Listening, ToSet
  <2>2. \A s \in Subs : chan[s] = <<>> /\ InFlight(s) = <<>>
    BY DEF EventsInit, StreamsInit, InFlight
  <2>3. <<>> \o <<>> = <<>>
    BY Concats
  <2> QED
    BY <2>1, <2>2, <2>3 DEF B!Init, Pending
<1>2. EInv /\ EInv' /\ Numbered /\ [EventsNext]_allVars => [B!Next]_(B!vars)
  <2> SUFFICES ASSUME EInv, EInv', Numbered, [EventsNext]_allVars
               PROVE  [B!Next]_(B!vars)
    OBVIOUS
  <2>1. CASE Store \/ Die
    BY <2>1, StoreBroadcasts, DieBroadcasts DEF EInv
  <2>2. CASE \E t \in Threads : Emit(t)
    BY <2>2, EmitStartBroadcasts, EmitSendBroadcasts, EmitEndBroadcasts DEF Emit
  <2>3. CASE \E s \in Subs : (\E f \in Filters : Subscribe(s, f)) \/ Consume(s) \/ Unsubscribe(s)
    BY <2>3, SubscribeBroadcasts, ConsumeBroadcasts, UnsubscribeBroadcasts
  <2>4. CASE UNCHANGED allVars \/ \E s \in Subs : ReadAll(s)
    <3>1. UNCHANGED <<st, subs, chan, em, ev>>
      BY <2>4 DEF allVars, vars, streamVars, ReadAll
    <3> QED
      BY <3>1, SameInFlight, Stutters
  <2> QED
    BY <2>1, <2>2, <2>3, <2>4 DEF EventsNext
<1>3. EventsSpec => Spec
  BY StepOfStore, PTL DEF EventsSpec, Spec
<1> QED
  BY <1>1, <1>2, <1>3, EInductive, NumberedInvariant, PTL DEF EventsSpec, BroadcastSpec, B!Spec

-----------------------------------------------------------------------------
(* Every event once.                                                       *)

Asked(s) == {e \in Event : Accepts(filter[s], e)}

\* What a stream received and has pending is what it is owed.
Balanced(s) == got[s] \o Selected(Pending[s], Asked(s)) = Selected(owed[s], Asked(s))

OInv == \A s \in Subs : /\ st[s] # "live" => owed[s] = <<>>
                        /\ st[s] = "live" => Balanced(s)

LEMMA OInvSays == OInv => EveryEventOnce
BY Zenon DEF OInv, Balanced, Asked, Pending, EveryEventOnce

LEMMA EventSeqs ==
    ASSUME EInv, NEW s \in Subs
    PROVE  got[s] \in Seq(Event) /\ owed[s] \in Seq(Event) /\ Pending[s] \in Seq(Event)
<1>1. got[s] \in Seq(Event) /\ owed[s] \in Seq(Event)
  BY DEF EInv, EventsTypeOK
<1>2. chan[s] \o InFlight(s) \in Seq(Event)
  BY Carried
<1> QED
  BY <1>1, <1>2 DEF Pending

\* One event more on both sides.
LEMMA OneMoreOwed ==
    ASSUME NEW S, NEW E, NEW g \in Seq(E), NEW q \in Seq(E), NEW o \in Seq(E), NEW e \in E,
           g \o Selected(q, S) = Selected(o, S)
    PROVE  g \o Selected(Append(q, e), S) = Selected(Append(o, e), S)
<1>1. Selected(q, S) \in Seq(E)
  BY SelectedType
<1>2. Selected(Append(q, e), S) = IF e \in S THEN Append(Selected(q, S), e) ELSE Selected(q, S)
  BY SelectedAppend
<1>3. Selected(Append(o, e), S) = IF e \in S THEN Append(Selected(o, S), e) ELSE Selected(o, S)
  BY SelectedAppend
<1> DEFINE x == Selected(q, S)
<1> HIDE DEF x
<1>4. x \in Seq(E) => g \o Append(x, e) = Append(g \o x, e)
  OBVIOUS
<1>5. g \o Append(Selected(q, S), e) = Append(g \o Selected(q, S), e)
  BY <1>1, <1>4 DEF x
<1>6. CASE e \in S
  BY <1>2, <1>3, <1>5, <1>6
<1>7. CASE e \notin S
  BY <1>2, <1>3, <1>7
<1> QED
  BY <1>6, <1>7

\* One event moves from the pending to the received, or is thrown away.
LEMMA OneTaken ==
    ASSUME NEW S, NEW E, NEW g \in Seq(E), NEW q \in Seq(E), q # <<>>
    PROVE  g \o Selected(q, S) = IF Head(q) \in S THEN Append(g, Head(q)) \o Selected(Tail(q), S)
                                 ELSE g \o Selected(Tail(q), S)
<1> DEFINE e == Head(q)
           r == Tail(q)
<1>1. e \in E /\ r \in Seq(E) /\ q = <<e>> \o r /\ <<e>> \in Seq(E)
  <2>1. e \in E /\ r \in Seq(E) /\ <<e>> \in Seq(E)
    OBVIOUS
  <2>2. Len(q) \in Nat /\ Len(q) >= 1 /\ Len(r) = Len(q) - 1
    OBVIOUS
  <2>3. \A i \in 1 .. Len(q) : q[i] = (<<e>> \o r)[i]
    BY <2>1, <2>2
  <2>4. Len(<<e>> \o r) = Len(q) /\ <<e>> \o r \in Seq(E)
    BY <2>1, <2>2
  <2> HIDE DEF e, r
  <2>5. q = <<e>> \o r
    BY <2>3, <2>4, SeqEqual
  <2> QED
    BY <2>1, <2>5
<1> HIDE DEF e, r
<1>2. Selected(<<e>> \o r, S) = Selected(<<e>>, S) \o Selected(r, S)
  <2> DEFINE p == <<e>>
  <2>1. p \in Seq(E)
    BY <1>1
  <2> HIDE DEF p
  <2>2. Selected(p \o r, S) = Selected(p, S) \o Selected(r, S)
    BY <1>1, <2>1, SelectedConcat
  <2> QED
    BY <2>2 DEF p
<1>3. Selected(<<e>>, S) = IF e \in S THEN <<e>> ELSE <<>>
  BY SelectedSingle
<1>4. Selected(r, S) \in Seq(E)
  BY <1>1, SelectedType
<1> DEFINE x == Selected(r, S)
<1>5. x \in Seq(E)
  BY <1>4
<1>6. Selected(q, S) = (IF e \in S THEN <<e>> ELSE <<>>) \o x
  BY <1>1, <1>2, <1>3
<1> HIDE DEF x
<1>7. <<>> \o x = x /\ g \o (<<e>> \o x) = Append(g, e) \o x
  <2>0. g \in Seq(E) /\ <<e>> \in Seq(E)
    BY <1>1
  <2>1. g \o (<<e>> \o x) = (g \o <<e>>) \o x
    BY <1>5, <2>0, ConcatAssociative
  <2>2. g \o <<e>> = Append(g, e)
    BY <1>1, AppendIsConcat
  <2>3. <<>> \o x = x
    BY <1>5, ConcatEmptySeq
  <2> QED
    BY <2>1, <2>2, <2>3
<1>8. CASE e \in S
  BY <1>6, <1>7, <1>8 DEF e, r, x
<1>9. CASE e \notin S
  BY <1>6, <1>7, <1>9 DEF e, r, x
<1> QED
  BY <1>8, <1>9

\* Streams on which nothing moves.
LEMMA StillBalanced ==
    ASSUME OInv, NEW s \in Subs, st'[s] = st[s], filter'[s] = filter[s],
           got'[s] = got[s], owed'[s] = owed[s], Pending'[s] = Pending[s]
    PROVE  (st[s] # "live" => owed[s] = <<>>)' /\ (st[s] = "live" => Balanced(s))'
<1>1. Asked(s)' = Asked(s)
  BY DEF Asked, Accepts
<1> QED
  BY <1>1 DEF OInv, Balanced

\* An emission owes its event to exactly those it publishes it to.
LEMMA EmitStartOwes ==
    ASSUME EInv, OInv, NEW t \in Threads, EmitStart(t)
    PROVE  OInv'
<1> SUFFICES ASSUME NEW s \in Subs
             PROVE  (st[s] # "live" => owed[s] = <<>>)' /\ (st[s] = "live" => Balanced(s))'
  BY DEF OInv
<1>1. /\ UNCHANGED <<st, filter, got>> /\ Asked(s)' = Asked(s)
      /\ owed' = [x \in Subs |-> IF x \in ToSet(subs) /\ st[x] = "live"
                                 THEN Append(owed[x], ev[t]) ELSE owed[x]]
  BY DEF EmitStart, streamVars, Asked, Accepts
<1>2. ev[t] \in Event /\ Pending'[s] = IF s \in Listening THEN Append(Pending[s], ev[t]) ELSE Pending[s]
  BY EmitStartPending
<1>3. CASE s \notin Listening
  <2>1. owed'[s] = owed[s]
    BY <1>1, <1>3 DEF Listening
  <2> QED
    BY <1>1, <1>2, <1>3, <2>1, StillBalanced
<1>4. CASE s \in Listening
  <2>1. st[s] = "live" /\ owed'[s] = Append(owed[s], ev[t]) /\ Pending'[s] = Append(Pending[s], ev[t])
    BY <1>1, <1>2, <1>4 DEF Listening
  <2>2. got[s] \o Selected(Pending[s], Asked(s)) = Selected(owed[s], Asked(s))
    BY <2>1 DEF OInv, Balanced
  <2>3. got[s] \in Seq(Event) /\ owed[s] \in Seq(Event) /\ Pending[s] \in Seq(Event)
    BY EventSeqs
  <2>4. got[s] \o Selected(Append(Pending[s], ev[t]), Asked(s)) = Selected(Append(owed[s], ev[t]), Asked(s))
    BY <1>2, <2>2, <2>3, OneMoreOwed
  <2>5. Balanced(s)'
    BY <1>1, <2>1, <2>4 DEF Balanced
  <2> QED
    BY <1>1, <2>1, <2>5
<1> QED
  BY <1>3, <1>4

\* A call takes the oldest pending event and returns or skips it as the filter says.
LEMMA ConsumeOwes ==
    ASSUME EInv, OInv, NEW s \in Subs, Consume(s)
    PROVE  OInv'
<1>1. UNCHANGED <<st, filter, owed>>
  BY DEF Consume, StartCall, Receive, TimePasses, Begin, SkipEvent, GiveUp, TakeEvent, Deadline,
         history
<1>2. chan \in [Subs -> Seq(Event)] /\ got \in [Subs -> Seq(Event)]
  BY DEF EInv, EventsTypeOK, StreamTypeOK
<1>3. CASE TakeEvent(s) /\ got' = [got EXCEPT ![s] = Append(@, Head(chan[s]))]
  <2>1. /\ chan[s] # <<>> /\ chan'[s] = Tail(chan[s]) /\ Accepts(filter[s], Head(chan[s]))
        /\ got'[s] = Append(got[s], Head(chan[s])) /\ \A x \in Subs \ {s} : got'[x] = got[x]
    BY <1>2, <1>3 DEF TakeEvent
  <2>2. chan' # chan
    BY <1>2, <2>1
  <2>3. /\ Head(Pending[s]) = Head(chan[s]) /\ Pending[s] # <<>>
        /\ Pending'[s] = Tail(Pending[s]) /\ \A x \in Subs \ {s} : Pending'[x] = Pending[x]
    BY <2>2, ConsumePending DEF Pending
  <2>4. Head(chan[s]) \in Asked(s) /\ Asked(s)' = Asked(s)
    <3>1. Head(chan[s]) \in Event
      BY <1>2, <2>1
    <3> QED
      BY <1>1, <2>1, <3>1 DEF Asked, Accepts
  <2>5. st[s] = "live" => Balanced(s)'
    <3> SUFFICES ASSUME st[s] = "live" PROVE Balanced(s)'
      OBVIOUS
    <3>1. got[s] \o Selected(Pending[s], Asked(s)) = Selected(owed[s], Asked(s))
      BY DEF OInv, Balanced
    <3>2. got[s] \in Seq(Event) /\ Pending[s] \in Seq(Event)
      BY EventSeqs
    <3>3. got[s] \o Selected(Pending[s], Asked(s)) =
            Append(got[s], Head(Pending[s])) \o Selected(Tail(Pending[s]), Asked(s))
      BY <2>3, <2>4, <3>2, OneTaken
    <3> QED
      BY <1>1, <2>1, <2>3, <2>4, <3>1, <3>3 DEF Balanced
  <2>6. ASSUME NEW x \in Subs, x # s
        PROVE  (st[x] # "live" => owed[x] = <<>>)' /\ (st[x] = "live" => Balanced(x))'
    BY <1>1, <2>1, <2>3, <2>6, StillBalanced
  <2> QED
    BY <1>1, <2>5, <2>6 DEF OInv
<1>4. CASE SkipEvent(s) /\ UNCHANGED got
  <2>1. chan[s] # <<>> /\ chan'[s] = Tail(chan[s]) /\ ~Accepts(filter[s], Head(chan[s]))
    BY <1>2, <1>4 DEF SkipEvent
  <2>2. chan' # chan
    BY <1>2, <2>1
  <2>3. /\ Head(Pending[s]) = Head(chan[s]) /\ Pending[s] # <<>>
        /\ Pending'[s] = Tail(Pending[s]) /\ \A x \in Subs \ {s} : Pending'[x] = Pending[x]
    BY <2>2, ConsumePending DEF Pending
  <2>4. Head(chan[s]) \notin Asked(s) /\ Asked(s)' = Asked(s)
    BY <1>1, <2>1 DEF Asked, Accepts
  <2>5. st[s] = "live" => Balanced(s)'
    <3> SUFFICES ASSUME st[s] = "live" PROVE Balanced(s)'
      OBVIOUS
    <3>1. got[s] \o Selected(Pending[s], Asked(s)) = Selected(owed[s], Asked(s))
      BY DEF OInv, Balanced
    <3>2. got[s] \in Seq(Event) /\ Pending[s] \in Seq(Event)
      BY EventSeqs
    <3>3. got[s] \o Selected(Pending[s], Asked(s)) = got[s] \o Selected(Tail(Pending[s]), Asked(s))
      <4> DEFINE q == Pending[s]
                 g == got[s]
                 S == Asked(s)
      <4>1. q \in Seq(Event) /\ g \in Seq(Event) /\ q # <<>> /\ Head(q) \notin S
        BY <2>3, <2>4, <3>2
      <4> HIDE DEF q, g, S
      <4>2. g \o Selected(q, S) = IF Head(q) \in S THEN Append(g, Head(q)) \o Selected(Tail(q), S)
                                  ELSE g \o Selected(Tail(q), S)
        BY <4>1, OneTaken
      <4> QED
        BY <4>1, <4>2 DEF q, g, S
    <3> QED
      BY <1>1, <1>4, <2>3, <2>4, <3>1, <3>3 DEF Balanced
  <2>6. ASSUME NEW x \in Subs, x # s
        PROVE  (st[x] # "live" => owed[x] = <<>>)' /\ (st[x] = "live" => Balanced(x))'
    BY <1>1, <1>4, <2>3, <2>6, StillBalanced
  <2> QED
    BY <1>1, <2>5, <2>6 DEF OInv
<1>5. CASE UNCHANGED <<chan, got>>
  <2>1. Pending' = Pending
    <3>1. chan[s] # <<>> => Tail(chan[s]) # chan[s]
      BY <1>2
    <3>2. UNCHANGED <<st, subs, em, ev>>
      BY DEF Consume, StartCall, Receive, TimePasses, Begin, SkipEvent, GiveUp, TakeEvent,
             Deadline, vars, history
    <3>3. \A x \in Subs : InFlight(x)' = InFlight(x)
      BY <3>2, SameInFlight
    <3> QED
      BY <1>5, <3>3 DEF Pending
  <2>2. ASSUME NEW x \in Subs
        PROVE  (st[x] # "live" => owed[x] = <<>>)' /\ (st[x] = "live" => Balanced(x))'
    BY <1>1, <1>5, <2>1, StillBalanced
  <2> QED
    BY <2>2 DEF OInv
<1>6. \/ UNCHANGED <<chan, got>>
      \/ SkipEvent(s) /\ UNCHANGED got
      \/ TakeEvent(s) /\ got' = [got EXCEPT ![s] = Append(@, Head(chan[s]))]
  BY DEF Consume, StartCall, Receive, TimePasses, Begin, GiveUp, Deadline, history
<1> QED
  BY <1>3, <1>4, <1>5, <1>6

\* A stream begins with nothing owed and forgets what it was owed.
LEMMA SubscribeOwes ==
    ASSUME EInv, OInv, NEW s \in Subs, NEW f \in Filters, Subscribe(s, f)
    PROVE  OInv'
<1>1. /\ st[s] = "none" /\ st' = [st EXCEPT ![s] = "live"] /\ filter' = [filter EXCEPT ![s] = f]
      /\ UNCHANGED <<got, owed>>
  BY DEF Subscribe, NewStream, history
<1>2. st \in [Subs -> {"none", "live", "dropped"}] /\ filter \in [Subs -> Filters \cup {{}}]
  BY DEF EInv, EventsTypeOK, StreamTypeOK
<1>3. Pending' = Pending
  BY SubscribeBroadcasts
<1>4. st'[s] = "live" /\ Balanced(s)'
  <2>1. Pending'[s] = <<>> /\ got'[s] = <<>> /\ owed'[s] = <<>>
    BY <1>1, <1>3, NothingPending DEF EInv, Streams, OInv
  <2>2. Selected(<<>>, Asked(s)') = <<>>
    BY SelectedEmpty
  <2>3. <<>> \o <<>> = <<>>
    BY Concats
  <2> QED
    BY <1>1, <1>2, <2>1, <2>2, <2>3 DEF Balanced
<1>5. ASSUME NEW x \in Subs, x # s
      PROVE  (st[x] # "live" => owed[x] = <<>>)' /\ (st[x] = "live" => Balanced(x))'
  BY <1>1, <1>2, <1>3, <1>5, StillBalanced
<1> QED
  BY <1>4, <1>5 DEF OInv

LEMMA UnsubscribeOwes ==
    ASSUME EInv, OInv, NEW s \in Subs, Unsubscribe(s)
    PROVE  OInv'
<1>1. /\ st' = [st EXCEPT ![s] = "dropped"] /\ filter' = [filter EXCEPT ![s] = {}]
      /\ got' = [got EXCEPT ![s] = <<>>] /\ owed' = [owed EXCEPT ![s] = <<>>]
  BY DEF Unsubscribe, DropStream, Forget
<1>2. /\ st \in [Subs -> {"none", "live", "dropped"}] /\ filter \in [Subs -> Filters \cup {{}}]
      /\ got \in [Subs -> Seq(Event)] /\ owed \in [Subs -> Seq(Event)]
  BY DEF EInv, EventsTypeOK, StreamTypeOK
<1>3. Pending' = [Pending EXCEPT ![s] = <<>>]
  BY UnsubscribeBroadcasts
<1>4. st'[s] # "live" /\ owed'[s] = <<>>
  BY <1>1, <1>2
<1>5. ASSUME NEW x \in Subs, x # s
      PROVE  (st[x] # "live" => owed[x] = <<>>)' /\ (st[x] = "live" => Balanced(x))'
  <2>1. Pending'[x] = Pending[x]
    BY <1>3, <1>5 DEF Pending
  <2> QED
    BY <1>1, <1>2, <1>5, <2>1, StillBalanced
<1> QED
  BY <1>4, <1>5 DEF OInv

LEMMA OInductive == EventsSpec => []OInv
<1>1. EventsInit => OInv
  BY DEF EventsInit, StreamsInit, OInv
<1>2. EInv /\ EInv' /\ OInv /\ [EventsNext]_allVars => OInv'
  <2> SUFFICES ASSUME EInv, EInv', OInv, [EventsNext]_allVars PROVE OInv'
    OBVIOUS
  <2>1. ASSUME UNCHANGED <<st, filter, got, owed>>, Pending' = Pending PROVE OInv'
    <3>1. ASSUME NEW x \in Subs
          PROVE  (st[x] # "live" => owed[x] = <<>>)' /\ (st[x] = "live" => Balanced(x))'
      BY <2>1, StillBalanced
    <3> QED
      BY <3>1 DEF OInv
  <2>2. CASE Store
    <3>1. IInv'
      BY DEF EInv
    <3>2. Pending' = Pending
      BY <2>2, <3>1, StoreBroadcasts
    <3> QED
      BY <2>1, <2>2, <3>2 DEF Store, streamVars, history
  <2>3. CASE Die
    <3>1. st \in [Subs -> {"none", "live", "dropped"}]
      BY DEF EInv, EventsTypeOK, StreamTypeOK
    <3>2. \A s \in Subs : st'[s] # "live" /\ owed'[s] = <<>>
      BY <2>3, <3>1 DEF Die
    <3> QED
      BY <3>2 DEF OInv
  <2>4. ASSUME NEW t \in Threads, Emit(t) PROVE OInv'
    <3>1. CASE EmitStart(t)
      BY <3>1, EmitStartOwes
    <3>2. CASE EmitSend(t) \/ EmitEnd(t)
      <4>1. Pending' = Pending
        BY <3>2, EmitSendBroadcasts, EmitEndBroadcasts DEF B!vars
      <4> QED
        BY <2>1, <3>2, <4>1 DEF EmitSend, EmitEnd, streamVars, history
    <3> QED
      BY <2>4, <3>1, <3>2 DEF Emit
  <2>5. CASE \E s \in Subs : (\E f \in Filters : Subscribe(s, f)) \/ Consume(s) \/ Unsubscribe(s)
    BY <2>5, SubscribeOwes, ConsumeOwes, UnsubscribeOwes
  <2>6. CASE UNCHANGED allVars \/ \E s \in Subs : ReadAll(s)
    <3>1. UNCHANGED <<st, subs, chan, em, ev, filter, got, owed>>
      BY <2>6 DEF allVars, vars, streamVars, history, ReadAll
    <3>2. \A x \in Subs : InFlight(x)' = InFlight(x)
      BY <3>1, SameInFlight
    <3>3. Pending' = Pending
      BY <3>1, <3>2 DEF Pending
    <3> QED
      BY <2>1, <3>1, <3>3
  <2> QED
    BY <2>2, <2>3, <2>4, <2>5, <2>6 DEF EventsNext
<1> QED
  BY <1>1, <1>2, EInductive, PTL DEF EventsSpec

\* Every live subscriber has received, or has on its way to it, every event
\* its filter accepts, once and in the order of emission (events.rs:220-222),
\* for any number of writers, streams and records.
THEOREM EventsArriveOnce == EventsSpec => []EveryEventOnce
BY OInvSays, OInductive, PTL

-----------------------------------------------------------------------------
(* What is looked up follows the records.                                  *)

\* A live stream without a filter whose consumer has read all records once.
Follower(s) == s \in Listening /\ filter[s] = Kinds /\ seen[s] # None

\* An event about an id waits in the stream or is being sent to it ...
Coming(s, i) == \E e \in ToSet(Pending[s]) : e.id = i

\* ... or belongs to a call that has not begun to send it.
Unsent(i) ==
    \E t \in Threads : pc[t] = "emit" /\ ev[t].id = i /\ (em = None \/ em.thread # t)

InStep(s, i) == About(seen[s], i) = Held(i) \/ Coming(s, i) \/ Unsent(i)

\* The senders are gone with the tenant.
Attended == h = None => subs = <<>>

AInv ==
    /\ Attended
    /\ \A s \in Subs : Follower(s) => \A i \in Ids : InStep(s, i)

-----------------------------------------------------------------------------
LEMMA ToSetAppend ==
    ASSUME NEW S, NEW q \in Seq(S), NEW e \in S
    PROVE  ToSet(Append(q, e)) = ToSet(q) \cup {e}
<1>1. Len(q) \in Nat /\ DOMAIN q = 1 .. Len(q)
  BY LenProperties
<1>2. /\ DOMAIN Append(q, e) = 1 .. Len(q) + 1
      /\ \A i \in 1 .. Len(q) + 1 : Append(q, e)[i] = IF i <= Len(q) THEN q[i] ELSE e
  BY <1>1
<1>3. \A x : x \in ToSet(Append(q, e)) <=> x \in ToSet(q) \cup {e}
  BY <1>1, <1>2 DEF ToSet
<1> QED
  BY <1>3

\* What every step of the store is to the records and the events.
Unheard ==
    /\ UNCHANGED <<ev, nextVer>>
    /\ \A t \in Threads : /\ pc'[t] = "indexed" <=> pc[t] = "indexed"
                          /\ pc'[t] = "emit" <=> pc[t] = "emit"
    /\ h' = h \/ h' = None \/ h = None

LEMMA StoreShape ==
    ASSUME IInv, SilentNext
    PROVE  \/ Unheard
           \/ \E t \in Threads : InsertSidecar(t)
           \/ \E t \in Threads, i \in Ids : InsertIndex(t, i) \/ Delete(t, i)
<1> USE DEF IInv, TypeOK
<1>1. ASSUME NEW t \in Threads, Boot(t)
      PROVE  Unheard
  <2>1. h = None /\ \A u \in Threads : pc[u] \notin {"indexed", "emit"}
    BY <1>1 DEF Boot, Open, CreateNew, OpenExisting, OpenAdopt, OpenCreate, CreateIndex,
                SidecarTruncate, SidecarFill, CallsConsistent, BootPc, CallPc
  <2>2. /\ UNCHANGED <<ev, nextVer>> /\ \A u \in Threads : pc'[u] \notin {"indexed", "emit"}
    <3>1. UNCHANGED <<ev, nextVer>>
      BY <1>1 DEF Boot, Open, CreateNew, OpenExisting, OpenAdopt, OpenCreate, CreateIndex,
                SidecarTruncate, SidecarFill
    <3>3. pc' = pc \/ \E c \in {"create", "sidecar", "fill", "idle"} : pc' = [pc EXCEPT ![t] = c]
      BY <1>1 DEF Boot, Open, CreateNew, OpenExisting, OpenAdopt, OpenCreate, CreateIndex,
                SidecarTruncate, SidecarFill
    <3> QED
      BY <2>1, <3>1, <3>3
  <2> QED
    BY <2>1, <2>2 DEF Unheard
<1>2. ASSUME NEW t \in Threads, Consolidate(t)
      PROVE  Unheard
  BY <1>2 DEF Consolidate, Unheard
<1>3. ASSUME NEW t \in Threads, Persist(t)
      PROVE  Unheard
  BY <1>3 DEF Persist, Flush, TruncateSidecar, FlushFill, FlushError, CanLock, CanEnter, Unheard
<1>4. ASSUME NEW t \in Threads, Lifecycle(t)
      PROVE  Unheard
  <2>1. UNCHANGED <<ev, nextVer>> /\ (h' = h \/ h' = None \/ h = None)
    BY <1>4 DEF Lifecycle, SnapshotElsewhere, Snapshot, TruncateSidecar, RestoreFrom, CopyFile,
                CopyError, RemoveFile, SnapshotDone, RestoreOpen, Destroy, DestroyDone,
                CallsConsistent
  <2>2. pc[t] \notin {"indexed", "emit"}
    BY <1>4 DEF Lifecycle, SnapshotElsewhere, Snapshot, TruncateSidecar, CanLock, CanEnter, RestoreFrom, CopyFile,
                CopyError, RemoveFile, SnapshotDone, RestoreOpen, Destroy, DestroyDone, Alone
  <2>3. pc' = pc \/ \E c \in {"flush", "restore", "idle", "remove"} : pc' = [pc EXCEPT ![t] = c]
    BY <1>4 DEF Lifecycle, SnapshotElsewhere, Snapshot, TruncateSidecar, RestoreFrom, CopyFile,
                CopyError, RemoveFile, SnapshotDone, RestoreOpen, Destroy, DestroyDone
  <2> QED
    BY <2>1, <2>2, <2>3 DEF Unheard
<1>5. CASE (\E r \in Readers : OpenReadonly(r)) \/ Close
  BY <1>5 DEF OpenReadonly, ReadSidecar, ReadIndex, CloseView, Close, Unheard
<1> QED
  BY <1>1, <1>2, <1>3, <1>4, <1>5 DEF SilentNext, Mutate

-----------------------------------------------------------------------------
(* One lemma per kind of step.                                             *)

\* What comes after the first of a sequence.
LEMMA ToSetTail ==
    ASSUME NEW S, NEW q \in Seq(S), q # <<>>, NEW e \in ToSet(q), e # Head(q)
    PROVE  e \in ToSet(Tail(q))
<1>1. Len(q) \in Nat /\ DOMAIN q = 1 .. Len(q)
  BY LenProperties
<1>2. /\ DOMAIN Tail(q) = 1 .. Len(q) - 1
      /\ \A j \in 1 .. Len(q) - 1 : Tail(q)[j] = q[j + 1]
      /\ Head(q) = q[1]
  BY <1>1
<1>3. PICK k \in 1 .. Len(q) : q[k] = e
  BY <1>1 DEF ToSet
<1>4. k - 1 \in 1 .. Len(q) - 1 /\ Tail(q)[k - 1] = e
  BY <1>1, <1>2, <1>3
<1> QED
  BY <1>2, <1>4 DEF ToSet

\* A step that leaves the records and what consumers know alone, and takes
\* nothing away that is on its way.
LEMMA StaysInStep ==
    ASSUME AInv, Attended',
           \A s \in Subs : Follower(s)' =>
               Follower(s) /\ seen'[s] = seen[s] /\ Pending'[s] = Pending[s] /\ h' = h,
           \A i \in Ids : Unsent(i) => Unsent(i)'
    PROVE  AInv'
<1>1. ASSUME NEW s \in Subs, Follower(s)', NEW i \in Ids
      PROVE  InStep(s, i)'
  <2>1. InStep(s, i) /\ seen'[s] = seen[s] /\ Pending'[s] = Pending[s] /\ h' = h
    BY <1>1 DEF AInv
  <2> QED
    BY <2>1 DEF InStep, About, Held, Coming
<1> QED
  BY <1>1 DEF AInv

\* The thread that emits is in emit.
LEMMA Emitter ==
    ASSUME EInv, em # None
    PROVE  em.thread \in Threads /\ pc[em.thread] = "emit"
BY DEF EInv, EventsTypeOK, Emitting

LEMMA UnheardFollows ==
    ASSUME EInv, IInv', AInv, Store, Unheard
    PROVE  AInv'
<1>1. /\ UNCHANGED <<st, filter, em, seen>>
      /\ subs' = IF h # None /\ h' = None THEN <<>> ELSE subs
  BY DEF Store, streamVars, history
<1>2. Pending' = Pending
  BY StoreBroadcasts
<1>3. Attended'
  BY <1>1 DEF AInv, Attended, Unheard
<1>4. ASSUME NEW s \in Subs, Follower(s)'
      PROVE  Follower(s) /\ h' = h
  <2>1. subs' # <<>>
    BY <1>4 DEF Follower, Listening, ToSet
  <2>2. subs' = subs /\ h # None
    BY <1>1, <2>1 DEF AInv, Attended
  <2>3. h' = h
    BY <1>1, <2>1, <2>2 DEF Unheard
  <2> QED
    BY <1>1, <1>4, <2>2, <2>3 DEF Follower, Listening
<1>5. \A i \in Ids : Unsent(i) => Unsent(i)'
  BY <1>1 DEF Unsent, Unheard
<1> QED
  BY <1>1, <1>2, <1>3, <1>4, <1>5, StaysInStep

\* Between its two writes an insert has changed no record.
LEMMA InsertIndexFollows ==
    ASSUME EInv, IInv', AInv, Store, NEW t \in Threads, NEW i \in Ids, InsertIndex(t, i)
    PROVE  AInv'
<1>1. /\ h' = h /\ h # None /\ pc[t] = "idle"
      /\ \A u \in Threads \ {t} : pc'[u] = pc[u] /\ ev'[u] = ev[u]
      /\ UNCHANGED <<st, filter, em, seen, subs>>
  BY DEF InsertIndex, CanLock, CanEnter, Store, streamVars, history, EInv, IInv, TypeOK
<1>2. Pending' = Pending
  BY StoreBroadcasts
<1>3. \A s \in Subs : Follower(s)' => Follower(s)
  BY <1>1 DEF Follower, Listening
<1>4. \A j \in Ids : Unsent(j) => Unsent(j)'
  BY <1>1 DEF Unsent
<1>5. Attended'
  BY <1>1 DEF Attended
<1> QED
  BY <1>1, <1>2, <1>3, <1>4, <1>5, StaysInStep

\* The step that changes the record of an id leaves an event about it.
LEMMA ChangeFollows ==
    ASSUME EInv, AInv, NEW t \in Threads, NEW i \in Ids,
           pc[t] # "emit", pc'[t] = "emit", ev'[t].id = i,
           \A u \in Threads : pc[u] = "emit" => pc'[u] = "emit" /\ ev'[u] = ev[u],
           h # None, h' # None,
           \A j \in Ids \ {i} : About(h'.side.recs, j) = About(h.side.recs, j),
           UNCHANGED <<st, filter, em, seen, subs, Pending>>
    PROVE  AInv'
<1>1. Unsent(i)'
  BY Emitter DEF Unsent
<1>2. ASSUME NEW s \in Subs, Follower(s)', NEW j \in Ids
      PROVE  InStep(s, j)'
  <2>1. CASE j = i
    BY <1>1, <2>1 DEF InStep
  <2>2. CASE j # i
    <3>1. InStep(s, j)
      BY <1>2 DEF AInv, Follower, Listening
    <3>2. Held(j)' = Held(j)
      BY <2>2 DEF Held, About
    <3>3. Unsent(j) => Unsent(j)'
      BY DEF Unsent
    <3>4. Coming(s, j)' = Coming(s, j) /\ About(seen[s], j)' = About(seen[s], j)
      BY DEF Coming, About
    <3> QED
      BY <3>1, <3>2, <3>3, <3>4 DEF InStep
  <2> QED
    BY <2>1, <2>2
<1> QED
  BY <1>2 DEF AInv, Attended

LEMMA InsertSidecarFollows ==
    ASSUME EInv, IInv', AInv, Store, NEW t \in Threads, InsertSidecar(t)
    PROVE  AInv'
<1> DEFINE new == [id |-> ev[t].id, ver |-> ev[t].ver]
<1>1. /\ h \in Handles /\ h # None /\ h' # None /\ ev[t] \in Event /\ ev' = ev
      /\ pc[t] = "indexed" /\ pc'[t] = "emit" /\ \A u \in Threads \ {t} : pc'[u] = pc[u]
  <2>1. pc'[t] = "emit" /\ h' # None
    BY DEF InsertSidecar, EInv, IInv, TypeOK, CallsConsistent, CallPc
  <2> QED
    BY <2>1, SentinelAssumption DEF EInv, IInv, TypeOK, CallsConsistent, CallPc, InsertSidecar
<1>2. UNCHANGED <<st, filter, em, seen, subs, Pending>>
  BY <1>1, StoreBroadcasts DEF Store, streamVars, history
<1>3. new \in Entry /\ new.id = ev[t].id /\ ev[t].id \in Ids /\ h.side.recs \in SUBSET Entry
  BY <1>1 DEF Entry, Event, Handles, Sidecar
<1>4. h'.side.recs = Upsert(h.side.recs, new)
  <2>1. Upsert(h.side.recs, new) \in SUBSET Entry
    BY <1>3 DEF Upsert
  <2>2. h' = [h EXCEPT !.side.recs = Upsert(@, new)]
    BY DEF InsertSidecar
  <2> HIDE DEF new
  <2> QED
    BY <1>1, <2>1, <2>2 DEF Handles, Sidecar
<1> HIDE DEF new
<1>5. \A j \in Ids \ {ev[t].id} : About(h'.side.recs, j) = About(h.side.recs, j)
  BY <1>3, <1>4 DEF About, Upsert
<1> QED
  BY <1>1, <1>2, <1>3, <1>5, ChangeFollows

LEMMA DeleteFollows ==
    ASSUME EInv, IInv', AInv, Store, NEW t \in Threads, NEW i \in Ids, Delete(t, i)
    PROVE  AInv'
<1>1. /\ h \in Handles /\ h # None /\ h' # None /\ pc[t] = "idle" /\ pc'[t] = "emit"
      /\ \A u \in Threads \ {t} : pc'[u] = pc[u] /\ ev'[u] = ev[u]
      /\ ev'[t].id = i /\ h' = [h EXCEPT !.side.recs = Without(@, i)]
  <2>1. pc'[t] = "emit" /\ h' # None
    BY DEF EInv, IInv, TypeOK, CallsConsistent, CallPc, Delete
  <2> QED
    BY <2>1, SentinelAssumption DEF EInv, IInv, TypeOK, CallsConsistent, Delete, CanLock, CanEnter
<1>2. UNCHANGED <<st, filter, em, seen, subs, Pending>>
  BY <1>1, StoreBroadcasts DEF Store, streamVars, history
<1>3. h'.side.recs = Without(h.side.recs, i)
  <2>1. h.side.recs \in SUBSET Entry /\ Without(h.side.recs, i) \in SUBSET Entry
    BY <1>1 DEF Handles, Sidecar, Without
  <2> QED
    BY <1>1, <2>1 DEF Handles, Sidecar
<1>4. \A j \in Ids \ {i} : About(h'.side.recs, j) = About(h.side.recs, j)
  BY <1>3 DEF About, Without
<1> QED
  BY <1>1, <1>2, <1>4, ChangeFollows

\* The event of the call that begins to send is on its way to every follower.
LEMMA EmitStartFollows ==
    ASSUME EInv, AInv, NEW t \in Threads, EmitStart(t)
    PROVE  AInv'
<1>1. /\ UNCHANGED <<pc, ev, h, st, filter, subs, seen>> /\ em = None
      /\ em' = [thread |-> t, at |-> 1, dead |-> {x \in Subs : st[x] = "dropped"}]
  BY DEF EmitStart, SubscribersFree, vars, streamVars
<1>2. /\ ev[t] \in Event /\ Listening' = Listening
      /\ \A s \in Subs : Pending'[s] = IF s \in Listening THEN Append(Pending[s], ev[t])
                                       ELSE Pending[s]
  BY EmitStartPending
<1>3. ASSUME NEW s \in Subs, Follower(s)', NEW i \in Ids
      PROVE  InStep(s, i)'
  <2>1. s \in Listening /\ InStep(s, i)
    BY <1>1, <1>2, <1>3 DEF AInv, Follower
  <2>2. ToSet(Pending'[s]) = ToSet(Pending[s]) \cup {ev[t]}
    BY <1>2, <2>1, EventSeqs, ToSetAppend
  <2>3. About(seen[s], i)' = About(seen[s], i) /\ Held(i)' = Held(i)
    BY <1>1 DEF About, Held
  <2>4. Coming(s, i) => Coming(s, i)'
    BY <2>2 DEF Coming
  <2>5. Unsent(i) => Unsent(i)' \/ Coming(s, i)'
    <3> SUFFICES ASSUME Unsent(i) PROVE Unsent(i)' \/ Coming(s, i)'
      OBVIOUS
    <3>1. PICK u \in Threads : pc[u] = "emit" /\ ev[u].id = i
      BY DEF Unsent
    <3>2. CASE u = t
      BY <2>2, <3>1, <3>2 DEF Coming
    <3>3. CASE u # t
      BY <1>1, <3>1, <3>3 DEF Unsent
    <3> QED
      BY <3>2, <3>3
  <2> QED
    BY <2>1, <2>3, <2>4, <2>5 DEF InStep
<1> QED
  BY <1>1, <1>3 DEF AInv, Attended

\* From then on it stays there until it is taken, whoever drops meanwhile.
LEMMA EmitSendFollows ==
    ASSUME EInv, AInv, NEW t \in Threads, EmitSend(t)
    PROVE  AInv'
<1>1. /\ UNCHANGED <<pc, ev, h, st, filter, seen>>
      /\ em # None /\ em' # None /\ em'.thread = em.thread
  <2>1. em \in [thread : Threads, at : 1 .. Len(subs) + 1, dead : SUBSET Subs] /\ em.at \in Nat
    BY LenProperties DEF EmitSend, EInv, EventsTypeOK
  <2>2. \E k \in Nat : em' = [em EXCEPT !.at = k]
    BY <2>1 DEF EmitSend, AfterDead
  <2>3. em' \in Emissions /\ em'.thread = em.thread
    BY <2>1, <2>2 DEF Emissions
  <2> QED
    BY <2>3, EmissionAssumption DEF EmitSend, vars, history
<1>2. Pending' = Pending /\ Listening' = Listening
  BY EmitSendBroadcasts DEF B!vars
<1>3. subs # <<>>
  BY LenProperties DEF EmitSend, EInv, EventsTypeOK
<1>4. Attended'
  BY <1>1, <1>3 DEF AInv, Attended
<1>5. \A i \in Ids : Unsent(i) => Unsent(i)'
  BY <1>1 DEF Unsent
<1> QED
  BY <1>1, <1>2, <1>4, <1>5, StaysInStep DEF Follower

LEMMA EmitEndFollows ==
    ASSUME EInv, AInv, NEW t \in Threads, EmitEnd(t)
    PROVE  AInv'
<1>1. /\ em # None /\ em.thread = t /\ em' = None
      /\ \A u \in Threads \ {t} : pc'[u] = pc[u] /\ ev'[u] = ev[u]
      /\ UNCHANGED <<h, subs, st, filter, seen>>
  BY DEF EmitEnd, EmitDone, streamVars, history, EInv, IInv, TypeOK
<1>2. Pending' = Pending /\ Listening' = Listening
  BY EmitEndBroadcasts DEF B!vars
<1>3. Attended'
  BY <1>1 DEF AInv, Attended
<1>4. \A i \in Ids : Unsent(i) => Unsent(i)'
  BY <1>1 DEF Unsent
<1> QED
  BY <1>1, <1>2, <1>3, <1>4, StaysInStep DEF Follower

\* What happens to one stream leaves the others in step.
LEMMA OneStream ==
    ASSUME AInv, NEW s \in Subs,
           UNCHANGED <<pc, ev, em, h, subs>>,
           \A x \in Subs \ {s} : UNCHANGED <<st[x], filter[x], seen[x], Pending[x]>>,
           Follower(s)' => \A i \in Ids : InStep(s, i)'
    PROVE  AInv'
<1>1. ASSUME NEW x \in Subs, x # s, Follower(x)', NEW i \in Ids
      PROVE  InStep(x, i)'
  <2>1. InStep(x, i)
    BY <1>1 DEF AInv, Follower, Listening
  <2> QED
    BY <1>1, <2>1 DEF InStep, About, Held, Coming, Unsent
<1> QED
  BY <1>1 DEF AInv, Attended

\* An event that is taken makes the consumer look its id up.
LEMMA TakeFollows ==
    ASSUME EInv, AInv, NEW s \in Subs, NEW q \in Seq(Event), q # <<>>, Pending[s] = q,
           Pending'[s] = Tail(q), seen'[s] = LookedUp(s, Head(q).id),
           UNCHANGED <<pc, ev, em, h, subs, filter>>, Listening' = Listening
    PROVE  Follower(s)' => \A i \in Ids : InStep(s, i)'
<1> SUFFICES ASSUME Follower(s)', NEW i \in Ids PROVE InStep(s, i)'
  OBVIOUS
<1>1. seen[s] # None /\ seen'[s] = Without(seen[s], Head(q).id) \cup Held(Head(q).id)
  BY DEF Follower, LookedUp
<1>2. InStep(s, i)
  BY <1>1 DEF AInv, Follower
<1>3. Held(i)' = Held(i) /\ Unsent(i)' = Unsent(i)
  BY DEF Held, About, Unsent
<1>4. CASE Head(q).id = i
  <2>1. About(seen'[s], i) = Held(i)
    BY <1>1, <1>4 DEF About, Held, Without
  <2> QED
    BY <1>3, <2>1 DEF InStep, About
<1>5. CASE Head(q).id # i
  <2>1. About(seen'[s], i) = About(seen[s], i)
    BY <1>1, <1>5 DEF About, Held, Without
  <2>2. Coming(s, i) => Coming(s, i)'
    BY <1>5, ToSetTail DEF Coming
  <2> QED
    BY <1>2, <1>3, <2>1, <2>2 DEF InStep, About
<1> QED
  BY <1>4, <1>5

LEMMA ConsumeFollows ==
    ASSUME EInv, AInv, NEW s \in Subs, Consume(s)
    PROVE  AInv'
<1>1. UNCHANGED <<pc, ev, em, h, subs, st, filter>>
  BY DEF Consume, StartCall, Receive, TimePasses, Begin, SkipEvent, GiveUp, TakeEvent, Deadline,
         vars, history
<1>2. /\ chan \in [Subs -> Seq(Event)] /\ Pending[s] \in Seq(Event)
      /\ seen \in [Subs -> (SUBSET Entry) \cup {None}]
  BY EventSeqs DEF EInv, EventsTypeOK, StreamTypeOK
<1>3. Listening' = Listening
  BY <1>1 DEF Listening
<1>4. CASE UNCHANGED <<chan, seen>>
  <2>1. Pending' = Pending
    <3>1. \A x \in Subs : InFlight(x)' = InFlight(x)
      BY <1>1, SameInFlight
    <3> QED
      BY <1>4, <3>1 DEF Pending
  <2>2. \A i \in Ids : Unsent(i)' = Unsent(i)
    BY <1>1 DEF Unsent
  <2> QED
    BY <1>1, <1>3, <1>4, <2>1, <2>2, StaysInStep DEF AInv, Attended, Follower
<1>5. ASSUME chan[s] # <<>>, chan'[s] = Tail(chan[s])
      PROVE  /\ Head(Pending[s]) = Head(chan[s]) /\ Pending[s] # <<>>
             /\ Pending'[s] = Tail(Pending[s]) /\ \A x \in Subs \ {s} : Pending'[x] = Pending[x]
  <2>1. chan' # chan
    BY <1>2, <1>5
  <2> QED
    BY <2>1, ConsumePending DEF Pending
<1>6. CASE SkipEvent(s) /\ UNCHANGED seen
  <2>1. /\ chan[s] # <<>> /\ chan'[s] = Tail(chan[s])
        /\ Head(chan[s]) \in Event /\ Head(chan[s]).kind \notin filter[s]
    BY <1>2, <1>6 DEF SkipEvent, Accepts
  <2>2. filter[s] # Kinds
    BY <2>1 DEF Event, Kinds
  <2>3. ~Follower(s)'
    BY <1>1, <2>2 DEF Follower
  <2> QED
    BY <1>1, <1>5, <1>6, <2>1, <2>3, OneStream
<1>7. CASE TakeEvent(s) /\ seen' = [seen EXCEPT ![s] = LookedUp(s, Head(chan[s]).id)]
  <2>1. /\ chan[s] # <<>> /\ chan'[s] = Tail(chan[s])
        /\ seen'[s] = LookedUp(s, Head(chan[s]).id) /\ \A x \in Subs \ {s} : seen'[x] = seen[x]
    BY <1>2, <1>7 DEF TakeEvent
  <2>2. /\ Head(Pending[s]) = Head(chan[s]) /\ Pending[s] # <<>>
        /\ Pending'[s] = Tail(Pending[s]) /\ \A x \in Subs \ {s} : Pending'[x] = Pending[x]
    BY <1>5, <2>1
  <2>3. Follower(s)' => \A i \in Ids : InStep(s, i)'
    BY <1>1, <1>2, <1>3, <2>1, <2>2, TakeFollows
  <2> QED
    BY <1>1, <2>1, <2>2, <2>3, OneStream
<1>8. \/ UNCHANGED <<chan, seen>>
      \/ SkipEvent(s) /\ UNCHANGED seen
      \/ TakeEvent(s) /\ seen' = [seen EXCEPT ![s] = LookedUp(s, Head(chan[s]).id)]
  BY DEF Consume, StartCall, Receive, TimePasses, Begin, GiveUp, Deadline, history
<1> QED
  BY <1>4, <1>6, <1>7, <1>8

LEMMA ReadAllFollows ==
    ASSUME EInv, AInv, NEW s \in Subs, ReadAll(s)
    PROVE  AInv'
<1>1. /\ UNCHANGED <<pc, ev, em, h, subs, st, filter, chan>> /\ h # None
      /\ seen' = [seen EXCEPT ![s] = h.side.recs] /\ seen \in [Subs -> (SUBSET Entry) \cup {None}]
  BY DEF ReadAll, vars, streamVars, EInv, EventsTypeOK
<1>2. \A x \in Subs : Pending'[x] = Pending[x]
  <2>1. \A x \in Subs : InFlight(x)' = InFlight(x)
    BY <1>1, SameInFlight
  <2> QED
    BY <1>1, <2>1 DEF Pending
<1>3. \A i \in Ids : About(seen'[s], i) = Held(i)'
  BY <1>1 DEF Held, About
<1>4. \A i \in Ids : InStep(s, i)'
  BY <1>3 DEF InStep, About
<1>5. \A x \in Subs \ {s} : seen'[x] = seen[x]
  BY <1>1
<1> QED
  BY <1>1, <1>2, <1>4, <1>5, OneStream

LEMMA SubscribeFollows ==
    ASSUME EInv, AInv, NEW s \in Subs, NEW f \in Filters, Subscribe(s, f)
    PROVE  AInv'
<1>1. /\ h # None /\ st[s] = "none" /\ st' = [st EXCEPT ![s] = "live"]
      /\ filter' = [filter EXCEPT ![s] = f] /\ subs' = Append(subs, s)
      /\ UNCHANGED <<pc, ev, em, h, seen>>
  BY DEF Subscribe, NewStream, vars, history
<1>2. /\ st \in [Subs -> {"none", "live", "dropped"}] /\ subs \in Seq(Subs)
      /\ filter \in [Subs -> Filters \cup {{}}]
  BY DEF EInv, EventsTypeOK, StreamTypeOK
<1>3. Pending' = Pending
  BY SubscribeBroadcasts
<1>4. ~Follower(s)'
  BY <1>1 DEF EInv, Streams, Follower
<1>5. ASSUME NEW x \in Subs, Follower(x)'
      PROVE  Follower(x)
  <2>1. x # s
    BY <1>4, <1>5
  <2>2. x \in ToSet(subs)
    BY <1>1, <1>2, <1>5, <2>1, ToSetAppend DEF Follower, Listening
  <2>3. st'[x] = st[x] /\ filter'[x] = filter[x]
    BY <1>1, <1>2, <2>1
  <2> QED
    BY <1>1, <1>5, <2>2, <2>3 DEF Follower, Listening
<1>6. Attended' /\ \A i \in Ids : Unsent(i)' = Unsent(i)
  BY <1>1 DEF Attended, Unsent
<1> QED
  BY <1>1, <1>3, <1>5, <1>6, StaysInStep

LEMMA UnsubscribeFollows ==
    ASSUME EInv, AInv, NEW s \in Subs, Unsubscribe(s)
    PROVE  AInv'
<1>1. /\ st' = [st EXCEPT ![s] = "dropped"] /\ filter' = [filter EXCEPT ![s] = {}]
      /\ seen' = [seen EXCEPT ![s] = None] /\ UNCHANGED <<pc, ev, em, h, subs>>
  BY DEF Unsubscribe, DropStream, Forget, vars
<1>2. /\ st \in [Subs -> {"none", "live", "dropped"}] /\ filter \in [Subs -> Filters \cup {{}}]
      /\ seen \in [Subs -> (SUBSET Entry) \cup {None}]
  BY DEF EInv, EventsTypeOK, StreamTypeOK
<1>3. \A x \in Subs \ {s} : Pending'[x] = Pending[x]
  BY UnsubscribeBroadcasts DEF Pending
<1>4. ~Follower(s)'
  BY <1>1, <1>2 DEF Follower
<1> QED
  BY <1>1, <1>2, <1>3, <1>4, OneStream

LEMMA DieFollows ==
    ASSUME Die
    PROVE  AInv'
<1>1. subs' = <<>>
  BY DEF Die
<1> QED
  BY <1>1 DEF AInv, Attended, Follower, Listening, ToSet

-----------------------------------------------------------------------------
LEMMA AInductive == EventsSpec => []AInv
<1>1. Init /\ EventsInit => AInv
  BY DEF Init, EventsInit, AInv, Attended, Follower
<1>2. EInv /\ EInv' /\ AInv /\ [EventsNext]_allVars => AInv'
  <2> SUFFICES ASSUME EInv, EInv', AInv, [EventsNext]_allVars PROVE AInv'
    OBVIOUS
  <2>0. IInv /\ IInv'
    BY DEF EInv
  <2>1. CASE Store
    <3>1. SilentNext
      BY <2>1 DEF Store
    <3> QED
      BY <2>0, <2>1, <3>1, StoreShape, UnheardFollows, InsertIndexFollows, InsertSidecarFollows,
         DeleteFollows
  <2>2. CASE Die
    BY <2>2, DieFollows
  <2>3. CASE \E t \in Threads : Emit(t)
    BY <2>3, EmitStartFollows, EmitSendFollows, EmitEndFollows DEF Emit
  <2>4. CASE \E s \in Subs : \/ \E f \in Filters : Subscribe(s, f)
                            \/ Consume(s) \/ ReadAll(s) \/ Unsubscribe(s)
    BY <2>4, SubscribeFollows, ConsumeFollows, ReadAllFollows, UnsubscribeFollows
  <2>5. CASE UNCHANGED allVars
    <3>1. UNCHANGED <<pc, ev, em, h, subs, st, chan, filter, seen>>
      BY <2>5 DEF allVars, vars, streamVars, history
    <3>2. \A x \in Subs : InFlight(x)' = InFlight(x)
      BY <3>1, SameInFlight
    <3>3. Pending' = Pending
      BY <3>1, <3>2 DEF Pending
    <3>4. Attended' /\ \A i \in Ids : Unsent(i)' = Unsent(i)
      BY <3>1 DEF AInv, Attended, Unsent
    <3> QED
      BY <3>1, <3>3, <3>4, StaysInStep DEF Follower, Listening
  <2> QED
    BY <2>1, <2>2, <2>3, <2>4, <2>5 DEF EventsNext
<1> QED
  BY <1>1, <1>2, EInductive, PTL DEF EventsSpec

\* Where a subscriber that looks an id up whenever an event about it arrives
\* does not agree with the tenant, an event about that id is on its way to it,
\* in whatever order two writers of the id got to emit (events.rs:31-34,
\* tenant.rs:261-265, 283-296), for any number of writers, streams and records.
THEOREM LookupsSuffice == EventsSpec => []CacheFollows
<1>1. EInv /\ AInv => CacheFollows
  <2> SUFFICES ASSUME EInv, AInv, NEW s \in ToSet(subs), NEW i \in Ids, st[s] = "live",
                      filter[s] = Kinds, seen[s] # None
               PROVE  \/ About(seen[s], i) = Held(i)
                      \/ \E e \in ToSet(chan[s] \o InFlight(s)) : e.id = i
                      \/ \E t \in Threads : /\ pc[t] = "emit" /\ ev[t].id = i
                                            /\ em = None \/ em.thread # t
    BY DEF CacheFollows
  <2>1. s \in Subs
    BY ElementOfSeq, LenProperties DEF EInv, EventsTypeOK, ToSet
  <2>2. InStep(s, i)
    BY <2>1 DEF AInv, Follower, Listening
  <2>3. Pending[s] = chan[s] \o InFlight(s)
    BY <2>1 DEF Pending
  <2> QED
    BY <2>2, <2>3 DEF InStep, Coming, Unsent
<1> QED
  BY <1>1, AInductive, EInductive, PTL
=============================================================================
