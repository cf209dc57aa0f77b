----------------------- MODULE TenantStoreRefinement -----------------------
(***************************************************************************)
(* TenantStore implements DurableMap, proved for every value of its        *)
(* constants: every step of its files, locks and threads is a step of the  *)
(* map under the mapping Map, or leaves the map alone.                     *)
(*                                                                         *)
(* The second half proves what the map does not tell: no metadata is ever  *)
(* ahead of its vector, and a snapshot is a whole tenant, as long as the   *)
(* callers that copy directories meet the duties TenantStore states.       *)
(***************************************************************************)
EXTENDS TenantStoreProofs

\* An open that creates or adopts finds no sidecar, and none appears before
\* the open itself begins to write one.
Booting ==
    \A t \in Threads :
        /\ pc[t] \in {"create", "sidecar"} => dir[req.dir].meta = NoFile
        /\ pc[t] = "create" => dir[req.dir].graph = NoFile
        /\ pc[t] = "fill" => dir[req.dir].meta = Torn

RInv == SafeInv /\ Booting

-----------------------------------------------------------------------------
(* What leaves the map alone.                                              *)

\* No call is between the two writes of an insert.
NoInsert == \A t \in Threads : pc[t] # "indexed"

\* Then the records of the map are those of the handle.
LEMMA RecordsOfHandle ==
    ASSUME TypeOK, NoInsert
    PROVE  Records = IF h = None THEN {} ELSE h.side.recs
BY DEF Records, NoInsert, TypeOK

\* The durable metadata of a directory changes only with its sidecar and when
\* a create fills it.
LEMMA DiskSame ==
    ASSUME \A d \in Dirs : dir'[d].meta = dir[d].meta,
           \A d \in Dirs : Filling(d)' <=> Filling(d)
    PROVE  UNCHANGED Disk
BY DEF Disk, OnDisk, Readable, MetaMissing

\* In particular when no call is in that step of a create.
NoFill == \A t \in Threads : pc[t] # "fill"

LEMMA DiskSameNoFill ==
    ASSUME \A d \in Dirs : dir'[d].meta = dir[d].meta, NoFill, NoFill'
    PROVE  UNCHANGED Disk
BY DiskSame DEF Filling, NoFill

\* The vectors of a directory change only with the files of its index.
LEMMA IndexSame ==
    ASSUME NEW d \in Dirs, dir'[d].kind = dir[d].kind,
           dir'[d].graph = dir[d].graph, dir'[d].delta = dir[d].delta
    PROVE  (IndexOpens(d)' <=> IndexOpens(d)) /\ Index(d)' = Index(d)
BY DEF Index, IndexOpens

LEMMA VectorsSame ==
    ASSUME \A d \in Dirs : /\ dir'[d].kind = dir[d].kind
                           /\ dir'[d].graph = dir[d].graph
                           /\ dir'[d].delta = dir[d].delta
    PROVE  UNCHANGED Vectors
BY IndexSame DEF Vectors

\* A step that leaves the map alone is a step of it.
LEMMA Quiet ==
    ASSUME UNCHANGED <<OpenDir, Records, Disk, Vectors>>
    PROVE  Map!Step
BY DEF Map!Step, Map!Elsewhere

\* Nobody copies over or removes the directory of the open tenant.
Apart == Targets \in SUBSET (Dirs \ {OpenDir})

LEMMA TargetsApart == RInv => Apart
<1> SUFFICES ASSUME RInv, NEW d \in Dirs, Target(d) PROVE d # OpenDir
  BY DEF Apart, Targets
<1> USE DEF RInv, SafeInv, IInv, TypeOK
<1>1. CASE h = None
  BY <1>1, SentinelAssumption DEF OpenDir
<1>2. CASE h # None
  BY <1>2 DEF OpenDir, Target, CallsConsistent, CallPc, BootPc
<1> QED
  BY <1>1, <1>2

-----------------------------------------------------------------------------
(* One lemma per action that the map can see.                              *)

LEMMA OpenExistingMaps ==
    ASSUME RInv, NEW t \in Threads, NEW d \in Dirs, NEW tid \in Tids, NEW dim \in Dims,
           OpenExisting(t, d, tid, dim)
    PROVE  Map!Step
<1>1. TypeOK /\ NoInsert /\ h = None /\ UNCHANGED <<dir, lock, pc, ev, req>>
  BY DEF RInv, SafeInv, IInv, OpenExisting, Alone, NoInsert
<1>2. h' # None /\ h'.dir = d /\ h'.side = dir[d].meta
  <2>1. h' \in Handles
    BY DEF RInv, SafeInv, IInv, TypeOK, OpenExisting, Handle, Handles, Readable, Tree
  <2> QED
    BY <2>1, SentinelAssumption DEF OpenExisting, Handle
<1>3. Disk[d].is = "whole" /\ Disk[d].recs = dir[d].meta.recs
  BY DEF Disk, OnDisk, OpenExisting
<1>4. Records' = dir[d].meta.recs
  BY <1>1, <1>2 DEF Records, NoInsert, TypeOK
<1>5. UNCHANGED <<Disk, Vectors>>
  BY <1>1, DiskSame, VectorsSame DEF Filling
<1>6. Map!Open(d)
  BY <1>1, <1>2, <1>3, <1>4, <1>5 DEF Map!Open, OpenDir
<1> QED
  BY <1>6 DEF Map!Step

\* A call that begins to create or adopt a tenant: nothing is open yet.
LEMMA BeginMaps ==
    ASSUME RInv, NEW t \in Threads, NEW d \in Dirs, NEW tid \in Tids, NEW dim \in Dims,
           OpenAdopt(t, d, tid, dim) \/ OpenCreate(t, d, tid, dim)
    PROVE  Map!Step
<1>1. /\ TypeOK /\ NoInsert /\ NoFill /\ NoInsert' /\ NoFill'
      /\ UNCHANGED <<h, lock>>
  BY DEF RInv, SafeInv, IInv, TypeOK, OpenAdopt, OpenCreate, Alone, NoInsert, NoFill
<1>2. UNCHANGED <<OpenDir, Records>>
  BY <1>1 DEF OpenDir, Records, NoInsert, TypeOK
<1>3. CASE OpenAdopt(t, d, tid, dim)
  BY <1>1, <1>2, <1>3, DiskSameNoFill, VectorsSame, Quiet DEF OpenAdopt
<1>4. CASE OpenCreate(t, d, tid, dim)
  <2>1. /\ dir[d].graph = NoFile /\ dir'[d].graph = NoFile
        /\ \A s \in Dirs : dir'[s].meta = dir[s].meta
        /\ \A s \in Dirs \ {d} : dir'[s] = dir[s]
    BY <1>1, <1>4 DEF OpenCreate, IndexExists, TypeOK, Tree
  <2>2. \A s \in Dirs : Index(s)' = Index(s)
    BY <2>1 DEF Index, IndexOpens
  <2> QED
    BY <1>1, <1>2, <2>1, <2>2, DiskSameNoFill, Quiet DEF Vectors
<1> QED
  BY <1>3, <1>4

\* The empty index is as good as none.
LEMMA CreateIndexMaps ==
    ASSUME RInv, NEW t \in Threads, CreateIndex(t)
    PROVE  Map!Step
<1>1. /\ TypeOK /\ req.dir \in Dirs /\ h = None
      /\ NoInsert /\ NoFill /\ NoInsert' /\ NoFill' /\ UNCHANGED <<h, lock>>
  BY DEF RInv, SafeInv, IInv, TypeOK, CallsConsistent, CreateIndex, BootPc, Request,
         NoInsert, NoFill
<1>d. PICK d \in Dirs : d = req.dir
  BY <1>1
<1>2. UNCHANGED <<OpenDir, Records>>
  BY <1>1 DEF OpenDir, Records, NoInsert, TypeOK
<1>3. /\ dir'[d].graph.vec = NoVecs /\ dir'[d].delta = NoVecs
      /\ \A s \in Dirs : dir'[s].meta = dir[s].meta
      /\ \A s \in Dirs \ {d} : dir'[s] = dir[s]
  BY <1>1, <1>d DEF CreateIndex, TypeOK, Tree
<1>4. Index(d) = NoVecs
  BY <1>d DEF RInv, Booting, CreateIndex, Index, IndexOpens
<1>5. Index(d)' = NoVecs
  BY <1>3 DEF Index, Merged, NoVecs
<1>6. \A s \in Dirs : Index(s)' = Index(s)
  BY <1>3, <1>4, <1>5, IndexSame
<1> QED
  BY <1>1, <1>2, <1>3, <1>6, DiskSameNoFill, Quiet DEF Vectors

\* A create that has begun to write the sidecar has not created anything ...
LEMMA SidecarTruncateMaps ==
    ASSUME RInv, NEW t \in Threads, SidecarTruncate(t)
    PROVE  Map!Step
<1>1. /\ TypeOK /\ req.dir \in Dirs /\ NoInsert /\ NoFill /\ NoInsert' /\ UNCHANGED <<h, lock, req>>
      /\ pc'[t] = "fill"
  BY DEF RInv, SafeInv, IInv, TypeOK, CallsConsistent, SidecarTruncate, BootPc, Request,
         NoInsert, NoFill
<1>d. PICK d \in Dirs : d = req.dir
  BY <1>1
<1>2. UNCHANGED <<OpenDir, Records>>
  BY <1>1 DEF OpenDir, Records, NoInsert, TypeOK
<1>3. /\ dir[d].meta = NoFile /\ dir'[d].meta = Torn
      /\ \A s \in Dirs \ {d} : dir'[s] = dir[s]
  BY <1>1, <1>d DEF RInv, Booting, SidecarTruncate, TypeOK, Tree
<1>4. OnDisk(d)' = OnDisk(d)
  BY <1>1, <1>d, <1>3 DEF OnDisk, Readable, MetaMissing, Filling
<1>5. \A s \in Dirs \ {d} : OnDisk(s)' = OnDisk(s)
  BY <1>1, <1>d, <1>3 DEF OnDisk, Readable, MetaMissing, Filling, SidecarTruncate, NoFill
<1>6. UNCHANGED Vectors
  BY <1>1, VectorsSame DEF SidecarTruncate, TypeOK, Tree
<1> QED
  BY <1>2, <1>4, <1>5, <1>6, Quiet DEF Disk

\* ... until it is filled.
LEMMA SidecarFillMaps ==
    ASSUME RInv, NEW t \in Threads, SidecarFill(t)
    PROVE  Map!Step
<1>1. /\ TypeOK /\ req \in Request /\ req.dir \in Dirs /\ h = None /\ NoInsert /\ NoInsert' /\ NoFill'
      /\ pc[t] = "fill" /\ \A u \in Threads : pc[u] = "fill" => u = t
  BY DEF RInv, SafeInv, IInv, TypeOK, CallsConsistent, SidecarFill, BootPc, Request,
         NoInsert, NoFill
<1>d. PICK d \in Dirs : d = req.dir
  BY <1>1
<1>s. PICK side \in Sidecar : side = EmptySidecar(req.tid, req.dim)
  BY <1>1 DEF EmptySidecar, Sidecar, Request
<1>2. /\ dir[d].meta = Torn /\ dir'[d].meta = side
      /\ \A s \in Dirs \ {d} : dir'[s] = dir[s]
  BY <1>1, <1>d, <1>s DEF RInv, Booting, SidecarFill, TypeOK, Tree
<1>3. h' # None /\ h'.dir = d /\ h'.side = side
  <2>1. h' \in Handles
    BY <1>1, <1>d, <1>s DEF TypeOK, SidecarFill, Handle, Handles, Request
  <2> QED
    BY <2>1, <1>d, <1>s, SentinelAssumption DEF SidecarFill, Handle
<1>4. OnDisk(d) = [is |-> "absent", recs |-> {}]
  BY <1>1, <1>d, <1>2 DEF OnDisk, Readable, Filling
<1>5. OnDisk(d)' = [is |-> "whole", recs |-> {}]
  <2>1. side \notin {NoFile, Torn}
    BY SentinelAssumption
  <2>2. side.recs = {}
    BY <1>s DEF EmptySidecar
  <2> QED
    BY <1>2, <2>1, <2>2 DEF OnDisk, Readable
<1>6. \A s \in Dirs \ {d} : OnDisk(s)' = OnDisk(s)
  BY <1>1, <1>d, <1>2 DEF OnDisk, Readable, MetaMissing, Filling, NoFill
<1>7. UNCHANGED Vectors
  BY <1>1, VectorsSame DEF SidecarFill, TypeOK, Tree
<1>8. Records' = {}
  BY <1>1, <1>3, <1>s DEF Records, NoInsert, TypeOK, SidecarFill, EmptySidecar
<1>9. Map!Create(d)
  BY <1>1, <1>3, <1>4, <1>5, <1>6, <1>7, <1>8
     DEF Map!Create, Map!Absent, Map!Whole, OpenDir, Disk
<1> QED
  BY <1>1, <1>9 DEF Map!Step

\* An insert happens to the map when its vector is written.
LEMMA InsertIndexMaps ==
    ASSUME RInv, NEW t \in Threads, NEW i \in Ids, InsertIndex(t, i)
    PROVE  Map!Step
<1>1. /\ TypeOK /\ NoInsert /\ h \in Handles /\ h # None /\ h.dir \in Dirs /\ h' = h
      /\ nextVer \in 1 .. MaxVer /\ IndexOpens(h.dir)
      /\ lock' = t /\ pc'[t] = "indexed" /\ ev'[t].id = i /\ ev'[t].ver = nextVer
  <2>1. NoInsert
    BY SentinelAssumption DEF RInv, SafeInv, IInv, CallsConsistent, InsertIndex, CanLock, NoInsert
  <2>2. nextVer \in 1 .. MaxVer
    BY BoundAssumption DEF RInv, SafeInv, IInv, TypeOK, Versions, InsertIndex
  <2> QED
    BY <2>1, <2>2 DEF RInv, SafeInv, IInv, TypeOK, HandleDim, InsertIndex, CanLock, CanEnter, Handles
<1> PICK d \in Dirs : d = h.dir
  BY <1>1
<1>2. /\ dir[d].graph \in Graph /\ dir[d].delta \in Vecs
      /\ dir'[d].kind = dir[d].kind /\ dir'[d].graph = dir[d].graph
      /\ dir'[d].delta = [dir[d].delta EXCEPT ![i] = nextVer]
      /\ \A s \in Dirs : dir'[s].meta = dir[s].meta
      /\ \A s \in Dirs \ {d} : dir'[s] = dir[s]
  BY <1>1, IndexFiles DEF InsertIndex, PutVector, TypeOK, Tree
<1>3. Index(d)' = [Index(d) EXCEPT ![i] = nextVer]
  <2>0. [dir[d].delta EXCEPT ![i] = nextVer] \in Vecs
    BY <1>1, <1>2 DEF Vecs
  <2>1. IndexOpens(d) /\ IndexOpens(d)'
    BY <1>1, <1>2, <2>0, SentinelAssumption DEF IndexOpens
  <2>2. /\ Index(d) = Merged(dir[d].graph, dir[d].delta)
        /\ Index(d)' = Merged(dir[d].graph, [dir[d].delta EXCEPT ![i] = nextVer])
    <3>1. Index(d) = Merged(dir[d].graph, dir[d].delta)
      BY <2>1 DEF Index
    <3>2. Index(d)' = Merged(dir'[d].graph, dir'[d].delta)
      BY <2>1 DEF Index, Merged
    <3> QED
      BY <1>2, <3>1, <3>2
  <2> QED
    BY <1>1, <1>2, <2>2 DEF Merged, Vecs
<1>4. \A s \in Dirs \ {d} : Index(s)' = Index(s)
  BY <1>2, IndexSame
<1>5. Vectors' = [Vectors EXCEPT ![d] = [@ EXCEPT ![i] = nextVer]]
  BY <1>3, <1>4 DEF Vectors
<1>6. UNCHANGED Disk
  BY <1>1, <1>2, DiskSame DEF Filling, InsertIndex, CanLock, CanEnter, TypeOK
<1>7. Records = h.side.recs
  BY <1>1, RecordsOfHandle
<1>8. Records' = {r \in Records : r.id # i} \cup {[id |-> i, ver |-> nextVer]}
  BY <1>1, <1>7, SentinelAssumption DEF Records, Upsert
<1>9. Map!Insert(i, nextVer)
  BY <1>1, <1>5, <1>6, <1>8, SentinelAssumption DEF Map!Insert, Map!Others, OpenDir
<1> QED
  BY <1>1, <1>9 DEF Map!Step

\* What follows in memory, the map has counted already.
LEMMA InsertSidecarMaps ==
    ASSUME RInv, NEW t \in Threads, InsertSidecar(t)
    PROVE  Map!Step
<1>1. /\ lock = t /\ lock' = None /\ h \in Handles /\ h # None /\ ev[t] \in Event
      /\ h' # None /\ h'.dir = h.dir
      /\ h'.side.recs = Upsert(h.side.recs, [id |-> ev[t].id, ver |-> ev[t].ver])
  <2>1. lock = t /\ lock' = None /\ h \in Handles /\ h # None /\ ev[t] \in Event
    BY DEF RInv, SafeInv, IInv, TypeOK, CallsConsistent, CallPc, InsertSidecar
  <2> DEFINE new == Upsert(h.side.recs, [id |-> ev[t].id, ver |-> ev[t].ver])
  <2>2. new \in SUBSET Entry
    BY <2>1 DEF Upsert, Handles, Sidecar, Entry, Event
  <2>3. h' = [h EXCEPT !.side.recs = new]
    BY DEF InsertSidecar
  <2> HIDE DEF new
  <2>4. h' \in Handles /\ h'.dir = h.dir /\ h'.side.recs = new
    BY <2>1, <2>2, <2>3, SidecarUpdate DEF Handles, Sidecar
  <2> QED
    BY <2>1, <2>4, SentinelAssumption DEF new
<1>2. UNCHANGED <<OpenDir, Records>>
  BY <1>1, SentinelAssumption DEF OpenDir, Records, InsertSidecar
<1>3. UNCHANGED <<Disk, Vectors>>
  BY DiskSame, VectorsSame DEF InsertSidecar, Filling, RInv, SafeInv, IInv, TypeOK
<1> QED
  BY <1>2, <1>3, Quiet

LEMMA DeleteMaps ==
    ASSUME RInv, NEW t \in Threads, NEW i \in Ids, Delete(t, i)
    PROVE  Map!Step
<1>1. /\ TypeOK /\ NoInsert /\ h \in Handles /\ h # None
      /\ h' # None /\ h'.dir = h.dir /\ h'.side.recs = Without(h.side.recs, i)
      /\ lock = None /\ lock' = None
  <2>1. /\ TypeOK /\ NoInsert /\ h \in Handles /\ h # None
        /\ lock = None /\ lock' = None
    BY SentinelAssumption DEF RInv, SafeInv, IInv, TypeOK, CallsConsistent, Delete, CanLock, CanEnter, NoInsert
  <2> DEFINE new == Without(h.side.recs, i)
  <2>2. new \in SUBSET Entry
    BY <2>1 DEF Without, Handles, Sidecar
  <2>3. h' = [h EXCEPT !.side.recs = new]
    BY DEF Delete
  <2> HIDE DEF new
  <2>4. h' \in Handles /\ h'.dir = h.dir /\ h'.side.recs = new
    BY <2>1, <2>2, <2>3, SidecarUpdate DEF Handles, Sidecar
  <2> QED
    BY <2>1, <2>4, SentinelAssumption DEF new
<1>2. Records = h.side.recs /\ Records' = Without(h.side.recs, i)
  BY <1>1 DEF Records
<1>3. UNCHANGED <<Disk, Vectors>>
  BY <1>1, DiskSame, VectorsSame DEF Delete, CanLock, CanEnter, Filling, TypeOK
<1>4. Map!Delete(i)
  BY <1>1, <1>2, <1>3, SentinelAssumption DEF Map!Delete, Map!Others, OpenDir, Without, Handles
<1> QED
  BY <1>4 DEF Map!Step

\* Consolidation moves vectors between files and keeps every one.
LEMMA ConsolidateMaps ==
    ASSUME RInv, NEW t \in Threads, Consolidate(t)
    PROVE  Map!Step
<1>1. TypeOK /\ h \in Handles /\ h.dir \in Dirs /\ h' = h /\ IndexOpens(h.dir)
  BY DEF RInv, SafeInv, IInv, TypeOK, HandleDim, Consolidate, CanLock, CanEnter, Handles
<1> PICK d \in Dirs : d = h.dir
  BY <1>1
<1>2. /\ dir[d].graph \in Graph /\ Index(d) \in Vecs
      /\ dir'[d].kind = dir[d].kind /\ dir'[d].delta = NoVecs
      /\ dir'[d].graph = [dir[d].graph EXCEPT !.vec = Index(d)]
      /\ \A s \in Dirs : dir'[s].meta = dir[s].meta
      /\ \A s \in Dirs \ {d} : dir'[s] = dir[s]
  BY <1>1, IndexFiles DEF Consolidate, TypeOK, Tree
<1>3. Index(d)' = Index(d)
  <2>1. dir'[d].graph \in Graph /\ dir'[d].graph.vec = Index(d)
    BY <1>2 DEF Graph
  <2>2. NoVecs \in Vecs
    BY DEF NoVecs, Vecs
  <2>3. IndexOpens(d)'
    BY <1>1, <1>2, <2>1, <2>2, SentinelAssumption DEF IndexOpens
  <2>4. Index(d)' = Merged(dir'[d].graph, NoVecs)
    BY <1>2, <2>3 DEF Index
  <2> QED
    BY <1>2, <2>1, <2>4 DEF Merged, NoVecs, Vecs
<1>4. UNCHANGED Vectors
  BY <1>2, <1>3, IndexSame DEF Vectors
<1>5. UNCHANGED <<OpenDir, Records, Disk>>
  BY <1>1, <1>2, DiskSame DEF Consolidate, OpenDir, Records, Filling
<1> QED
  BY <1>4, <1>5, Quiet

\* A flush, of flush or of snapshot, cuts the sidecar ...
LEMMA TruncateMaps ==
    ASSUME RInv, NEW t \in Threads, TruncateSidecar(t)
    PROVE  Map!Step
<1>1. /\ TypeOK /\ NoInsert /\ h \in Handles /\ h # None /\ h.dir \in Dirs /\ h' = h
      /\ NoFill /\ NoInsert' /\ NoFill' /\ lock' \in Threads
  <2>1. NoInsert
    BY SentinelAssumption DEF RInv, SafeInv, IInv, CallsConsistent, TruncateSidecar, CanLock, NoInsert
  <2> QED
    BY <2>1 DEF RInv, SafeInv, IInv, TypeOK, CallsConsistent, TruncateSidecar, CanLock, CanEnter,
                Handles, BootPc, NoInsert, NoFill
<1> PICK d \in Dirs : d = h.dir
  BY <1>1
<1>2. /\ dir'[d].meta = Torn
      /\ \A s \in Dirs : /\ dir'[s].kind = dir[s].kind
                         /\ dir'[s].graph = dir[s].graph
                         /\ dir'[s].delta = dir[s].delta
      /\ \A s \in Dirs \ {d} : dir'[s] = dir[s]
  BY <1>1 DEF TruncateSidecar, TypeOK, Tree
<1>3. /\ OnDisk(d)' = [is |-> "lost", recs |-> {}]
      /\ \A s \in Dirs \ {d} : OnDisk(s)' = OnDisk(s)
  BY <1>1, <1>2, SentinelAssumption DEF OnDisk, Readable, MetaMissing, Filling, NoFill
<1>4. UNCHANGED <<OpenDir, Records, Vectors>>
  BY <1>1, <1>2, VectorsSame DEF OpenDir, Records, NoInsert, TypeOK
<1>5. Map!Cut
  BY <1>1, <1>3, <1>4, SentinelAssumption DEF Map!Cut, Map!Lost, OpenDir, Disk
<1> QED
  BY <1>5 DEF Map!Step

\* ... and fills it with what the handle holds.
LEMMA FlushFillMaps ==
    ASSUME RInv, NEW t \in Threads, FlushFill(t)
    PROVE  Map!Step
<1>1. /\ TypeOK /\ NoInsert /\ h \in Handles /\ h # None /\ h.dir \in Dirs /\ h' = h
      /\ NoFill /\ NoInsert' /\ NoFill' /\ h.side \in Sidecar
  <2>1. NoInsert
    BY DEF RInv, SafeInv, IInv, CallsConsistent, FlushFill, NoInsert
  <2> QED
    BY <2>1 DEF RInv, SafeInv, IInv, TypeOK, CallsConsistent, FlushFill,
                Handles, CallPc, BootPc, NoInsert, NoFill
<1> PICK d \in Dirs : d = h.dir
  BY <1>1
<1>2. /\ dir'[d].meta = h.side
      /\ \A s \in Dirs : /\ dir'[s].kind = dir[s].kind
                         /\ dir'[s].graph = dir[s].graph
                         /\ dir'[s].delta = dir[s].delta
      /\ \A s \in Dirs \ {d} : dir'[s] = dir[s]
  BY <1>1 DEF FlushFill, TypeOK, Tree
<1>3. h.side \notin {NoFile, Torn}
  BY <1>1, SentinelAssumption
<1>4. Records = h.side.recs /\ Records' = h.side.recs
  BY <1>1 DEF Records, NoInsert, TypeOK, FlushFill
<1>5. /\ OnDisk(d)' = [is |-> "whole", recs |-> h.side.recs]
      /\ \A s \in Dirs \ {d} : OnDisk(s)' = OnDisk(s)
  BY <1>1, <1>2, <1>3 DEF OnDisk, Readable, MetaMissing, Filling, NoFill
<1>6. UNCHANGED <<OpenDir, Vectors>>
  BY <1>1, <1>2, VectorsSame DEF OpenDir
<1>7. Map!Flush
  BY <1>1, <1>4, <1>5, <1>6, SentinelAssumption DEF Map!Flush, Map!Whole, OpenDir, Disk
<1> QED
  BY <1>7 DEF Map!Step

\* Calls that end, fail or begin to copy a closed tenant.
LEMMA CallMaps ==
    ASSUME RInv, NEW t \in Threads,
           \/ FlushError(t)
           \/ \E s, d \in Dirs : RestoreFrom(t, s, d)
           \/ SnapshotDone(t)
           \/ DestroyDone(t)
           \/ EmitDone(t)
    PROVE  Map!Step
<1>1. /\ TypeOK /\ UNCHANGED <<dir, h>>
      /\ \A u \in Threads : pc'[u] = "indexed" <=> pc[u] = "indexed"
      /\ \A u \in Threads : pc'[u] = "fill" <=> pc[u] = "fill"
  BY DEF RInv, SafeInv, IInv, TypeOK, FlushError, RestoreFrom, SnapshotDone, DestroyDone, EmitDone, Alone
<1>2. UNCHANGED Records
  BY <1>1 DEF RInv, SafeInv, IInv, TypeOK, CallsConsistent, Records, FlushError, RestoreFrom, SnapshotDone, DestroyDone, EmitDone, Alone
<1>3. \A d \in Dirs : Filling(d)' <=> Filling(d)
  BY <1>1 DEF Filling, FlushError, RestoreFrom, SnapshotDone, DestroyDone, EmitDone, RInv, SafeInv, IInv, CallsConsistent, BootPc
<1>4. UNCHANGED <<OpenDir, Disk, Vectors>>
  BY <1>1, <1>3, DiskSame, VectorsSame DEF OpenDir
<1> QED
  BY <1>2, <1>4, Quiet

\* A reader changes nothing.
LEMMA ReaderMaps ==
    ASSUME NEW r \in Readers, OpenReadonly(r)
    PROVE  Map!Step
<1>1. UNCHANGED <<dir, h, lock, pc, ev, req>>
  BY DEF OpenReadonly, ReadSidecar, ReadIndex, CloseView
<1>2. UNCHANGED <<OpenDir, Records, Disk, Vectors>>
  BY <1>1, DiskSame, VectorsSame DEF OpenDir, Records, Filling
<1> QED
  BY <1>2, Quiet

\* Whatever happens to the files of a target, its sidecar is none, cut, or
\* the sidecar some directory had.
LEMMA TargetDisturbed ==
    ASSUME NEW d \in Targets, NoFill, NoFill',
           \A s \in Dirs \ {d} : dir'[s] = dir[s],
           dir'[d].meta \in {NoFile, Torn} \/ \E s \in Dirs : dir'[d].meta = dir[s].meta
    PROVE  Map!Disturb
<1>1. d \in Dirs
  BY DEF Targets
<1>2. \A s \in Dirs \ {d} : OnDisk(s)' = OnDisk(s) /\ Index(s)' = Index(s)
  BY IndexSame DEF OnDisk, Readable, MetaMissing, Filling, NoFill
<1>3. \/ OnDisk(d)' \in {Map!Absent, Map!Lost}
      \/ \E s \in Dirs : OnDisk(d)' = OnDisk(s)
  BY <1>1 DEF OnDisk, Readable, MetaMissing, Filling, NoFill, Map!Absent, Map!Lost
<1>4. Disk'[d] \in {Disk[s] : s \in Dirs} \cup {Map!Absent, Map!Lost}
  BY <1>1, <1>3 DEF Disk
<1>5. /\ Disk' = [Disk EXCEPT ![d] = Disk'[d]]
      /\ Vectors' = [Vectors EXCEPT ![d] = Vectors'[d]]
  BY <1>1, <1>2 DEF Disk, Vectors
<1> QED
  BY <1>4, <1>5 DEF Map!Disturb

\* One file of a directory is written: the others stay.
LEMMA OneFile ==
    ASSUME dir \in [Dirs -> Tree], NEW d \in Dirs, NEW f \in Files, NEW v,
           dir' = [dir EXCEPT ![d][f] = v]
    PROVE  /\ \A s \in Dirs \ {d} : dir'[s] = dir[s]
           /\ dir'[d].meta = IF f = "meta" THEN v ELSE dir[d].meta
<1>1. "meta" \in DOMAIN dir[d] /\ f \in DOMAIN dir[d]
  BY DEF Tree, Files
<1> QED
  BY <1>1

\* A call that copies works on a target of its own, and nothing is created.
LEMMA Copying ==
    ASSUME RInv, NEW t \in Threads, pc[t] \in {"copy", "restore"}
    PROVE  /\ cp[t] \in Copy /\ cp[t].src \in Dirs /\ cp[t].dst \in Dirs
           /\ cp[t].dst \in Targets
           /\ NoFill
<1>1. cp[t] \in Copy /\ cp[t] # None
  BY DEF RInv, SafeInv, IInv, TypeOK, CallsConsistent
<1>2. cp[t].src \in Dirs /\ cp[t].dst \in Dirs
  BY <1>1 DEF Copy
<1>3. NoFill
  BY DEF RInv, SafeInv, IInv, CallsConsistent, CallPc, BootPc, NoFill
<1> QED
  BY <1>1, <1>2, <1>3 DEF Targets, Target

\* A copy that is cut leaves the file cut.
LEMMA CutCopyDisturbs ==
    ASSUME RInv, NEW t \in Threads, NEW f \in Files,
           pc[t] \in {"copy", "restore"}, CutCopy(t, f), NoFill'
    PROVE  Map!Disturb
<1>1. PICK d \in Dirs : d = cp[t].dst
  BY Copying
<1>2. /\ \A s \in Dirs \ {d} : dir'[s] = dir[s]
      /\ dir'[d].meta = IF f = "meta" THEN Torn ELSE dir[d].meta
  <2>1. dir \in [Dirs -> Tree]
    BY DEF RInv, SafeInv, IInv, TypeOK
  <2>2. dir' = [dir EXCEPT ![d][f] = Torn]
    BY <1>1 DEF CutCopy
  <2> QED
    BY <2>1, <2>2, OneFile
<1> QED
  BY <1>1, <1>2, Copying, TargetDisturbed

LEMMA CopyMaps ==
    ASSUME RInv, NEW t \in Threads, NEW f \in Files, CopyFile(t, f) \/ CopyError(t, f)
    PROVE  Map!Step
<1>1. /\ TypeOK /\ h' = h /\ lock' = lock /\ ev' = ev /\ NoFill'
      /\ \A u \in Threads : pc'[u] = "indexed" <=> pc[u] = "indexed"
  BY Copying DEF CopyFile, CopyError, RInv, SafeInv, IInv, TypeOK, NoFill
<1>2. UNCHANGED <<OpenDir, Records>>
  BY <1>1 DEF OpenDir, Records, TypeOK
<1>3. CASE CopyFile(t, f)
  <2>1. PICK d \in Dirs : d = cp[t].dst
    BY <1>3, Copying DEF CopyFile
  <2>2. PICK s \in Dirs : s = cp[t].src
    BY <1>3, Copying DEF CopyFile
  <2>3. CASE dir' = dir
    BY <1>1, <1>2, <1>3, <2>3, Copying, DiskSameNoFill, VectorsSame, Quiet DEF CopyFile
  <2>4. CASE dir' = [dir EXCEPT ![d][f] = Copied(s, d, f)]
    <3>1. /\ \A r \in Dirs \ {d} : dir'[r] = dir[r]
          /\ dir'[d].meta = IF f = "meta" THEN Copied(s, d, f) ELSE dir[d].meta
      <4>1. dir \in [Dirs -> Tree]
        BY <1>1 DEF TypeOK
      <4>2. PICK v : v = Copied(s, d, f)
        OBVIOUS
      <4>3. dir' = [dir EXCEPT ![d][f] = v]
        BY <2>4, <4>2
      <4>4. /\ \A r \in Dirs \ {d} : dir'[r] = dir[r]
            /\ dir'[d].meta = IF f = "meta" THEN v ELSE dir[d].meta
        BY <4>1, <4>3, OneFile
      <4> QED
        BY <4>2, <4>4
    <3>2. dir'[d].meta \in {Torn, dir[s].meta, dir[d].meta}
      BY <3>1 DEF Copied
    <3>3. d \in Targets /\ NoFill
      BY <1>3, <2>1, Copying DEF CopyFile
    <3>4. Map!Disturb
      BY <1>1, <3>1, <3>2, <3>3, TargetDisturbed
    <3> QED
      BY <1>2, <3>4 DEF Map!Step, Map!Elsewhere
  <2> QED
    BY <1>3, <2>1, <2>2, <2>3, <2>4 DEF CopyFile
<1>4. CASE CopyError(t, f)
  <2>1. Map!Disturb
    BY <1>1, <1>4, CutCopyDisturbs DEF CopyError
  <2> QED
    BY <1>2, <2>1 DEF Map!Step, Map!Elsewhere
<1> QED
  BY <1>3, <1>4

LEMMA RemoveFileMaps ==
    ASSUME RInv, NEW t \in Threads, NEW f \in Files, RemoveFile(t, f)
    PROVE  Map!Step
<1>1. /\ TypeOK /\ UNCHANGED <<h, lock, ev, pc>> /\ NoFill /\ NoFill'
      /\ req.dir \in Dirs /\ pc[t] = "remove"
  BY DEF RemoveFile, RInv, SafeInv, IInv, TypeOK, CallsConsistent, BootPc, Request, NoFill
<1>2. PICK d \in Dirs : d = req.dir
  BY <1>1
<1>3. /\ \A s \in Dirs \ {d} : dir'[s] = dir[s]
      /\ dir'[d].meta = IF f = "meta" THEN NoFile ELSE dir[d].meta
  <2>1. dir \in [Dirs -> Tree]
    BY <1>1 DEF TypeOK
  <2>2. dir' = [dir EXCEPT ![d][f] = NoFile]
    BY <1>2 DEF RemoveFile
  <2> QED
    BY <2>1, <2>2, OneFile
<1>4. d \in Targets
  BY <1>1, <1>2 DEF Targets, Target
<1>5. Map!Disturb
  BY <1>1, <1>3, <1>4, TargetDisturbed
<1> QED
  BY <1>1, <1>5 DEF Map!Step, Map!Elsewhere, OpenDir, Records

LEMMA RestoreOpenMaps ==
    ASSUME RInv, NEW t \in Threads, RestoreOpen(t)
    PROVE  Map!Step
<1>1. /\ TypeOK /\ NoInsert /\ NoInsert' /\ NoFill /\ NoFill' /\ h = None
      /\ UNCHANGED <<dir, lock>>
  BY DEF RInv, SafeInv, IInv, TypeOK, CallsConsistent, RestoreOpen, NoInsert, NoFill
<1>2. UNCHANGED <<Disk, Vectors>>
  BY <1>1, DiskSameNoFill, VectorsSame
<1>3. PICK d \in Dirs : d = cp[t].dst
  BY Copying DEF RestoreOpen
<1>4. CASE Readable(d) /\ IndexOfDim(d, dir[d].meta.dim)
  <2>1. h' = Handle(d, dir[d].meta.tid, dir[d].meta) /\ dir[d].meta \in Sidecar
    BY <1>1, <1>3, <1>4 DEF RestoreOpen, Readable, TypeOK, Tree
  <2>2. h' \in Handles
    BY <1>1, <2>1 DEF Handle, Handles, Sidecar, TypeOK
  <2>3. h' # None /\ h'.dir = d /\ h'.side.recs = dir[d].meta.recs
    BY <2>1, <2>2, SentinelAssumption DEF Handle
  <2>4. Records' = dir[d].meta.recs
    BY <1>1, <2>3 DEF Records, NoInsert, TypeOK
  <2>5. Map!Open(d)
    BY <1>1, <1>2, <1>4, <2>3, <2>4 DEF Map!Open, OpenDir, Disk, OnDisk
  <2> QED
    BY <2>5 DEF Map!Step
<1>5. CASE ~(Readable(d) /\ IndexOfDim(d, dir[d].meta.dim))
  <2>1. h' = h
    BY <1>3, <1>5 DEF RestoreOpen
  <2> QED
    BY <1>1, <1>2, <2>1, Quiet DEF OpenDir, Records
<1> QED
  BY <1>4, <1>5

\* Without a handle there are no records.
LEMMA CloseMaps ==
    ASSUME RInv, Close \/ \E t \in Threads : Destroy(t)
    PROVE  Map!Step
<1>1. /\ h \in Handles /\ h # None /\ h.dir \in Dirs /\ h' = None /\ dir' = dir
      /\ NoFill /\ NoFill'
  BY DEF RInv, SafeInv, IInv, TypeOK, Close, Destroy, Handles, Alone, NoFill
<1>2. UNCHANGED <<Disk, Vectors>>
  BY <1>1, DiskSameNoFill, VectorsSame
<1>3. OpenDir # None /\ OpenDir' = None /\ Records' = {}
  BY <1>1, SentinelAssumption DEF OpenDir, Records
<1> QED
  BY <1>2, <1>3 DEF Map!Step, Map!Leave, Map!Elsewhere

\* A crash closes the tenant, cuts a create, or cuts a copy.
LEMMA CrashMaps ==
    ASSUME RInv, Crash
    PROVE  Map!Step
<1>1. TypeOK /\ h' = None /\ NoFill' /\ OpenDir' = None /\ Records' = {}
  BY DEF RInv, SafeInv, IInv, Crash, NoFill, OpenDir, Records
<1>2. CASE NoFill
  <2>1. Map!Elsewhere
    <3>1. CASE dir' = dir
      BY <1>1, <1>2, <3>1, DiskSameNoFill, VectorsSame DEF Map!Elsewhere
    <3>2. CASE \E t \in Threads, f \in Files : pc[t] \in {"copy", "restore"} /\ CutCopy(t, f)
      BY <1>1, <3>2, CutCopyDisturbs DEF Map!Elsewhere
    <3> QED
      BY <3>1, <3>2 DEF Crash
  <2>2. CASE h = None
    BY <1>1, <2>1, <2>2 DEF Map!Step, OpenDir, Records
  <2>3. CASE h # None
    <3>1. OpenDir # None
      BY <1>1, <2>3, SentinelAssumption DEF OpenDir, TypeOK, Handles
    <3> QED
      BY <1>1, <2>1, <3>1 DEF Map!Step, Map!Leave
  <2> QED
    BY <2>2, <2>3
<1>3. CASE ~NoFill
  <2>1. PICK t \in Threads : pc[t] = "fill"
    BY <1>3 DEF NoFill
  <2>2. /\ h = None /\ req.dir \in Dirs /\ dir' = dir
        /\ \A u \in Threads : u # t => pc[u] = "idle"
    BY <2>1 DEF RInv, SafeInv, IInv, TypeOK, CallsConsistent, BootPc, Request, Crash
  <2>3. PICK d \in Dirs : d = req.dir
    BY <2>2
  <2>4. dir[d].meta = Torn
    BY <2>1, <2>3 DEF RInv, Booting
  <2>5. OnDisk(d) = Map!Absent /\ OnDisk(d)' = Map!Lost
    BY <1>1, <2>1, <2>2, <2>3, <2>4, SentinelAssumption
       DEF OnDisk, Readable, MetaMissing, Filling, NoFill, Map!Absent, Map!Lost
  <2>6. \A s \in Dirs \ {d} : OnDisk(s)' = OnDisk(s)
    BY <1>1, <2>2, <2>3 DEF OnDisk, Readable, MetaMissing, Filling, NoFill
  <2>7. UNCHANGED Vectors
    BY <2>2, VectorsSame
  <2>8. Map!CutCreate(d)
    BY <1>1, <2>2, <2>5, <2>6, <2>7 DEF Map!CutCreate, OpenDir, Records, Disk
  <2> QED
    BY <2>8 DEF Map!Step
<1> QED
  BY <1>2, <1>3

-----------------------------------------------------------------------------
(* The invariant the mapping needs, its base case and its step.            *)

\* A create in progress is alone: no other call touches its directory.
LEMMA StepBooting ==
    ASSUME RInv, [Next]_vars
    PROVE  Booting'
<1>1. ASSUME NEW t \in Threads, Boot(t)
      PROVE  Booting'
  <2>1. ASSUME NEW d \in Dirs, NEW tid \in Tids, NEW dim \in Dims, Open(t, d, tid, dim)
        PROVE  Booting'
    <3>1. CASE OpenExisting(t, d, tid, dim)
      BY <3>1 DEF OpenExisting, RInv, Booting
    <3>2. CASE OpenAdopt(t, d, tid, dim)
      BY <3>2 DEF OpenAdopt, MetaMissing, Alone, RInv, SafeInv, IInv, TypeOK, Booting
    <3>3. CASE OpenCreate(t, d, tid, dim)
      <4>1. dir'[d].meta = NoFile /\ dir'[d].graph = NoFile
        BY <3>3 DEF OpenCreate, MetaMissing, IndexExists, RInv, SafeInv, IInv, TypeOK, Tree
      <4> QED
        BY <3>3, <4>1 DEF OpenCreate, Alone, RInv, SafeInv, IInv, TypeOK, Booting
    <3> QED
      BY <2>1, <3>1, <3>2, <3>3 DEF Open
  <2>2. ASSUME CreateIndex(t) \/ SidecarTruncate(t) \/ SidecarFill(t)
        PROVE  Booting'
    <3>1. /\ dir \in [Dirs -> Tree] /\ req.dir \in Dirs /\ pc = [u \in Threads |-> pc[u]]
          /\ pc[t] \in {"create", "sidecar", "fill"}
          /\ \A u \in Threads : u # t => pc[u] = "idle"
      BY <2>2 DEF CreateIndex, SidecarTruncate, SidecarFill, RInv, SafeInv, IInv, TypeOK,
                  CallsConsistent, BootPc, CallPc, Request
    <3>2. CASE CreateIndex(t)
      <4>1. dir'[req.dir].meta = NoFile /\ req' = req
        BY <3>1, <3>2 DEF CreateIndex, RInv, Booting, Tree
      <4> QED
        BY <3>1, <3>2, <4>1 DEF CreateIndex, Booting
    <3>3. CASE SidecarTruncate(t)
      <4>1. dir'[req.dir].meta = Torn /\ req' = req
        BY <3>1, <3>3 DEF SidecarTruncate, Tree
      <4> QED
        BY <3>1, <3>3, <4>1 DEF SidecarTruncate, Booting
    <3>4. CASE SidecarFill(t)
      BY <3>1, <3>4 DEF SidecarFill, Booting
    <3> QED
      BY <2>2, <3>2, <3>3, <3>4
  <2> QED
    BY <1>1, <2>1, <2>2 DEF Boot, CreateNew
<1>2. ASSUME \A t \in Threads : pc'[t] \in {"create", "sidecar", "fill"} =>
                 pc[t] = pc'[t] /\ req' = req /\ dir' = dir
      PROVE  Booting'
  BY <1>2 DEF RInv, Booting
<1>3. ASSUME NEW t \in Threads, Mutate(t) \/ Persist(t) \/ Lifecycle(t) \/ EmitDone(t)
      PROVE  Booting'
  <2>1. \A u \in Threads : pc[u] \notin {"create", "sidecar", "fill"}
    <3>1. h # None \/ Alone \/ pc[t] \in CallPc \cup {"restore", "remove"}
      <4>1. CASE Mutate(t) \/ EmitDone(t)
        BY <4>1 DEF Mutate, InsertIndex, Delete, InsertSidecar, Consolidate, EmitDone,
                    CanLock, CanEnter, CallPc
      <4>2. CASE Persist(t)
        BY <4>2 DEF Persist, Flush, TruncateSidecar, FlushFill, FlushError,
                    CanLock, CanEnter, CallPc
      <4>3. CASE Lifecycle(t)
        BY <4>3 DEF Lifecycle, SnapshotElsewhere, Snapshot, TruncateSidecar, CanLock, CanEnter, RestoreFrom, CopyFile,
                    CopyError, RemoveFile, SnapshotDone, RestoreOpen, Destroy, DestroyDone, CallPc
      <4> QED
        BY <1>3, <4>1, <4>2, <4>3
    <3> QED
      BY <3>1 DEF RInv, SafeInv, IInv, CallsConsistent, CallPc, BootPc, Alone
  <2>2. \A u \in Threads : pc'[u] \in {"create", "sidecar", "fill"} => pc'[u] = pc[u]
    <3>1. pc = [u \in Threads |-> pc[u]]
      BY DEF RInv, SafeInv, IInv, TypeOK
    <3>2. CASE Mutate(t) \/ EmitDone(t)
      BY <3>1, <3>2 DEF Mutate, InsertIndex, Delete, InsertSidecar, Consolidate, EmitDone
    <3>3. CASE Persist(t)
      BY <3>1, <3>3 DEF Persist, Flush, TruncateSidecar, FlushFill, FlushError
    <3>4. CASE Lifecycle(t)
      BY <3>1, <3>4 DEF Lifecycle, SnapshotElsewhere, Snapshot, TruncateSidecar, RestoreFrom, CopyFile,
                  CopyError, RemoveFile, SnapshotDone, RestoreOpen, Destroy, DestroyDone
    <3> QED
      BY <1>3, <3>2, <3>3, <3>4
  <2> QED
    BY <1>2, <2>1, <2>2
<1>4. CASE \/ \E r \in Readers : OpenReadonly(r)
           \/ Close
           \/ Crash
           \/ UNCHANGED vars
  BY <1>2, <1>4 DEF OpenReadonly, ReadSidecar, ReadIndex, CloseView, Close, Crash, vars
<1> QED
  BY <1>1, <1>3, <1>4 DEF Next, SilentNext

LEMMA RInductive == Spec => []RInv
<1>1. Init => RInv
  BY InitSafe DEF Init, RInv, Booting
<1>2. RInv /\ [Next]_vars => RInv'
  BY StepSafe, StepBooting DEF RInv
<1> QED
  BY <1>1, <1>2, PTL DEF Spec

-----------------------------------------------------------------------------
\* The initial states map to the initial state.
LEMMA InitMaps == Init => Map!Init
<1> SUFFICES ASSUME Init PROVE Map!Init
  OBVIOUS
<1>1. OpenDir = None /\ Records = {}
  BY DEF Init, OpenDir, Records
<1>2. Disk = [d \in Dirs |-> Map!Absent]
  BY DEF Init, Disk, OnDisk, Readable, MetaMissing, Gone, Map!Absent
<1>3. Vectors = [d \in Dirs |-> [i \in Ids |-> 0]]
  BY DEF Init, Vectors, Index, IndexOpens, NoVecs, Gone
<1>4. Targets = {}
  BY DEF Init, Targets, Target
<1> QED
  BY <1>1, <1>2, <1>3, <1>4 DEF Map!Init

\* Every step maps to a step of the map.
LEMMA StepMaps ==
    ASSUME RInv, Next
    PROVE  Map!Step
<1>1. ASSUME NEW t \in Threads, Boot(t)
      PROVE  Map!Step
  BY <1>1, OpenExistingMaps, BeginMaps, CreateIndexMaps, SidecarTruncateMaps, SidecarFillMaps
     DEF Boot, CreateNew, Open
<1>2. ASSUME NEW t \in Threads, Mutate(t)
      PROVE  Map!Step
  BY <1>2, InsertIndexMaps, DeleteMaps, InsertSidecarMaps, ConsolidateMaps DEF Mutate
<1>3. ASSUME NEW t \in Threads, Persist(t) \/ EmitDone(t)
      PROVE  Map!Step
  BY <1>3, TruncateMaps, FlushFillMaps, CallMaps DEF Persist, Flush
<1>4. ASSUME NEW t \in Threads, Lifecycle(t)
      PROVE  Map!Step
  <2>1. CASE \E d \in Dirs : SnapshotElsewhere(t, d)
    BY <2>1, TruncateMaps DEF SnapshotElsewhere, Snapshot
  <2>2. CASE \E s, d \in Dirs : RestoreFrom(t, s, d)
    BY <2>2, CallMaps
  <2>3. CASE \E f \in Files : CopyFile(t, f) \/ CopyError(t, f) \/ RemoveFile(t, f)
    BY <2>3, CopyMaps, RemoveFileMaps
  <2>4. CASE SnapshotDone(t) \/ DestroyDone(t)
    BY <2>4, CallMaps
  <2>5. CASE RestoreOpen(t) \/ Destroy(t)
    BY <2>5, RestoreOpenMaps, CloseMaps
  <2> QED
    BY <1>4, <2>1, <2>2, <2>3, <2>4, <2>5 DEF Lifecycle
<1> QED
  BY <1>1, <1>2, <1>3, <1>4, ReaderMaps, CloseMaps, CrashMaps DEF Next, SilentNext

\* A tenant is a map with a volatile and a durable half, for any number of
\* directories, records, threads and readers: inserts are atomic, nothing but
\* a flush changes the metadata of an open tenant on disk, nothing but an
\* insert its vectors, and no create, adoption, consolidation, copy or crash
\* loses metadata or vectors of a directory it was not asked to overwrite
\* (tenant.rs:118-170, 243-261, 300-325, 446-473).
THEOREM StoreIsDurableMap == Spec => IsDurableMap
<1>1. RInv /\ Apart' /\ [Next]_vars => [Map!Next]_(Map!mapVars)
  <2> SUFFICES ASSUME RInv, Apart', [Next]_vars
               PROVE  [Map!Next]_(Map!mapVars)
    OBVIOUS
  <2>1. CASE Next
    <3>1. Map!Step
      BY <2>1, StepMaps
    <3> QED
      BY <3>1 DEF Map!Next, Apart
  <2>2. CASE UNCHANGED vars
    <3>1. UNCHANGED <<OpenDir, Records, Targets>>
      BY <2>2 DEF vars, OpenDir, Records, Targets, Target
    <3>2. UNCHANGED <<Disk, Vectors>>
      BY <2>2, DiskSame, VectorsSame DEF vars, Filling
    <3> QED
      BY <3>1, <3>2 DEF Map!mapVars
  <2> QED
    BY <2>1, <2>2
<1> QED
  BY <1>1, TargetsApart, InitMaps, RInductive, PTL DEF Spec, IsDurableMap, Map!Spec

-----------------------------------------------------------------------------
(***************************************************************************)
(* What the files of an index are to a sidecar: MetadataNeverAhead and     *)
(* SnapshotComplete.  Both hold while nobody disturbs a copy in progress;  *)
(* snapshot and restore_from take no lock for it and look at nothing but   *)
(* the target's meta.json (tenant.rs:344, 446-453), so these are duties of *)
(* the callers: Undisturbed, EndsClean and ReadersApart.                   *)
(***************************************************************************)

\* Every entry has a vector at least as new; or a vector as new, or none.
Covers(v, recs) == \A e \in recs : v[e.id] >= e.ver
CoversIfAny(v, recs) == \A e \in recs : v[e.id] = 0 \/ v[e.id] >= e.ver

\* The vectors of a directory that has them whole, with or without the file
\* that names their kind.
Whole(d)  == dir[d].graph \notin {NoFile, Torn} /\ dir[d].delta \notin {NoFile, Torn}
Stored(d) == Merged(dir[d].graph, dir[d].delta)

\* On disk, as soon as sidecar and vectors of a directory can both be read, but
\* for a directory that a call has begun to copy files into ...
DirCovered(d) == Readable(d) /\ Whole(d) => Covers(Stored(d), dir[d].meta.recs)

Underway(d) == \E t \in Threads : cp[t] # None /\ cp[t].dst = d /\ cp[t].todo # Files

DiskCovered == \A d \in Dirs : Underway(d) \/ DirCovered(d)

\* ... in the open handle ...
HandleCovered == h # None => Covers(Index(h.dir), h.side.recs)

\* ... and in a reader, between its two reads and after them.
CoveredView(v) ==
    /\ v.pc = "meta" =>
           /\ Below(v.side.recs)
           /\ IndexOpens(v.dir) => CoversIfAny(Index(v.dir), v.side.recs)
    /\ v.pc = "view" => CoversIfAny(v.vec, v.side.recs)
ReadersCovered == \A r \in Readers : CoveredView(ro[r])

\* Only one call copies, and what it has copied its target holds as the source
\* does: a snapshot the files of the open tenant, with the sidecar it flushed.
Copies ==
    \A t \in Threads : cp[t] # None =>
        /\ cp[t].src # cp[t].dst
        /\ \A u \in Threads : cp[u] # None => u = t
        /\ \A f \in Files \ cp[t].todo : dir[cp[t].src][f] # NoFile =>
               dir[cp[t].dst][f] = dir[cp[t].src][f]
        /\ pc[t] = "flush" => cp[t].todo = Files
        /\ pc[t] \in {"flush", "copy"} => cp[t].src = h.dir
        /\ pc[t] = "copy" => dir[h.dir].meta = h.side

\* The strengthening of MetadataNeverAhead, of what a copy is, and both.
Covered == DiskCovered /\ HandleCovered /\ ReadersCovered

KInv == RInv /\ Copies
CInv == KInv /\ Covered

-----------------------------------------------------------------------------
(* What a step may do to vectors and sidecars without losing coverage.     *)

\* The vectors of a directory are those of some directory's files.
LEMMA IndexType ==
    ASSUME TypeOK, NEW d \in Dirs
    PROVE  Index(d) \in Vecs
<1>1. CASE IndexOpens(d)
  BY <1>1, IndexFiles DEF TypeOK
<1>2. CASE ~IndexOpens(d)
  BY <1>2 DEF Index, NoVecs, Vecs
<1> QED
  BY <1>1, <1>2

\* The index of d opens as before, and each vector is kept or newer than every
\* sidecar.
KeepsIndex(d) ==
    /\ IndexOpens(d)
    /\ \A i \in Ids : Index(d)'[i] = Index(d)[i] \/ Index(d)'[i] >= nextVer

\* What keeps the vectors covers what was covered.
LEMMA CoversKept ==
    ASSUME NEW d \in Dirs, KeepsIndex(d), NEW recs \in SUBSET Entry, nextVer \in Nat,
           Below(recs), TypeOK, TypeOK'
    PROVE  /\ Covers(Index(d), recs) => Covers(Index(d)', recs)
           /\ CoversIfAny(Index(d), recs) => CoversIfAny(Index(d)', recs)
<1>0. Index(d)' \in Vecs
  <2>1. CASE IndexOpens(d)'
    <3>1. dir'[d].graph \in Graph /\ dir'[d].delta \in Vecs
      BY <2>1 DEF TypeOK, IndexOpens, Tree
    <3> QED
      BY <2>1, <3>1 DEF Index, Merged, Graph, Vecs
  <2>2. CASE ~IndexOpens(d)'
    BY <2>2 DEF Index, NoVecs, Vecs
  <2> QED
    BY <2>1, <2>2
<1>1. Index(d) \in Vecs
  BY IndexType
<1>2. \A e \in recs : /\ e.id \in Ids /\ e.ver \in Nat /\ e.ver < nextVer
                      /\ Index(d)[e.id] \in Nat /\ Index(d)'[e.id] \in Nat
                      /\ Index(d)'[e.id] = Index(d)[e.id] \/ Index(d)'[e.id] >= nextVer
  BY <1>0, <1>1 DEF Entry, Below, Vecs, KeepsIndex
<1> QED
  BY <1>2 DEF Covers, CoversIfAny

\* No file of d is touched.
SameDir(d) == dir'[d] = dir[d]

\* A directory whose vectors do not change, and whose sidecar at most is cut,
\* stays covered, but for the end of a copy.
LEMMA DirKept ==
    ASSUME NEW d \in Dirs, DirCovered(d),
           dir'[d].graph = dir[d].graph, dir'[d].delta = dir[d].delta,
           dir'[d].meta \in {dir[d].meta, NoFile, Torn}
    PROVE  DirCovered(d)'
BY DEF DirCovered, Readable, Whole, Stored

LEMMA DiskKept ==
    ASSUME DiskCovered, NEW d \in Dirs, SameDir(d), Underway(d) => Underway(d)'
    PROVE  Underway(d)' \/ DirCovered(d)'
BY DirKept DEF DiskCovered, SameDir

\* Where copies are as before, they are under way as before.
LEMMA UnderwayKept == ASSUME cp' = cp PROVE \A d \in Dirs : Underway(d)' <=> Underway(d)
BY DEF Underway

\* A directory that opens has the vectors it stores.
LEMMA Opened ==
    ASSUME NEW d \in Dirs
    PROVE  /\ IndexOpens(d) => Whole(d) /\ Index(d) = Stored(d)
           /\ IndexOpens(d)' => Whole(d)' /\ Index(d)' = Stored(d)'
BY DEF IndexOpens, Whole, Index, Stored

LEMMA OpenCovered ==
    ASSUME DiskCovered, NEW d \in Dirs, ~Underway(d), Readable(d), IndexOpens(d)
    PROVE  Covers(Index(d), dir[d].meta.recs)
BY Opened DEF DiskCovered, DirCovered

\* The index of d no longer opens, keeps its vectors, or starts without any: a
\* reader between its two reads of d stays covered.
KeepsOrEmpties(d) ==
    IndexOpens(d)' => KeepsIndex(d) \/ Index(d)' = NoVecs

\* Index files no step touches are such an index.
LEMMA SameKeeps ==
    ASSUME NEW d \in Dirs, dir'[d].kind = dir[d].kind,
           dir'[d].graph = dir[d].graph, dir'[d].delta = dir[d].delta
    PROVE  KeepsOrEmpties(d)
BY IndexSame DEF KeepsOrEmpties, KeepsIndex

\* Readers stay covered by a step that treats what they read that way.
LEMMA ReadersKept ==
    ASSUME CInv, TypeOK', ro' = ro, nextVer' >= nextVer,
           \A r \in Readers : ro[r].pc = "meta" => KeepsOrEmpties(ro[r].dir)
    PROVE  ReadersCovered'
<1> SUFFICES ASSUME NEW r \in Readers PROVE CoveredView(ro[r])'
  BY DEF ReadersCovered
<1>0. TypeOK /\ nextVer \in Nat /\ nextVer' \in Nat /\ ro[r] \in View /\ CoveredView(ro[r])
  BY DEF CInv, KInv, Covered, ReadersCovered, RInv, SafeInv, IInv, TypeOK
<1>1. CASE ro[r].pc = "meta"
  <2> PICK d \in Dirs : d = ro[r].dir
    BY <1>0, <1>1 DEF View
  <2> PICK recs \in SUBSET Entry : recs = ro[r].side.recs
    BY <1>0, <1>1 DEF View, Sidecar
  <2>1. Below(recs) /\ (IndexOpens(d) => CoversIfAny(Index(d), recs))
    BY <1>0, <1>1 DEF CoveredView
  <2>2. Below(recs)'
    BY <1>0, <2>1 DEF Below, Entry
  <2>3. ASSUME IndexOpens(d)' PROVE CoversIfAny(Index(d)', recs)
    <3>1. CASE KeepsIndex(d)
      BY <1>0, <2>1, <3>1, CoversKept DEF KeepsIndex
    <3>2. CASE Index(d)' = NoVecs
      BY <3>2 DEF CoversIfAny, NoVecs, Entry
    <3> QED
      BY <1>1, <2>3, <3>1, <3>2 DEF KeepsOrEmpties
  <2>4. ro'[r].dir = d /\ ro'[r].side.recs = recs /\ ro'[r].pc = "meta"
    BY <1>1
  <2> QED
    BY <2>2, <2>3, <2>4 DEF CoveredView
<1>2. CASE ro[r].pc # "meta"
  BY <1>0, <1>2 DEF CoveredView
<1> QED
  BY <1>1, <1>2

\* A step that leaves the copies in progress alone.
LEMMA CopiesKept ==
    ASSUME Copies, cp' = cp,
           \A t \in Threads : cp[t] # None =>
               /\ pc'[t] = pc[t]
               /\ SameDir(cp[t].src) /\ SameDir(cp[t].dst)
               /\ pc[t] \in {"flush", "copy"} => h'.dir = h.dir
               /\ pc[t] = "copy" => h' = h /\ SameDir(h.dir)
    PROVE  Copies'
BY DEF Copies, SameDir

\* No call copies files.
NoCopy == \A t \in Threads : cp[t] = None

\* Where a call that copies is.
LEMMA Copier ==
    ASSUME RInv, NEW t \in Threads, cp[t] # None
    PROVE  /\ pc[t] \in {"flush", "copy", "restore"}
           /\ cp[t] \in Copy /\ cp[t].src \in Dirs /\ cp[t].dst \in Dirs
           /\ pc[t] = "flush" => lock = t
           /\ pc[t] \in {"flush", "copy"} =>
                  h # None /\ h \in Handles /\ h.dir \in Dirs /\ cp[t].dst # h.dir
           /\ pc[t] = "restore" => h = None /\ \A u \in Threads : u # t => pc[u] = "idle"
BY DEF RInv, SafeInv, IInv, TypeOK, CallsConsistent, CallPc, BootPc, Copy, Handles

\* While the tenant is being opened, restored, destroyed or closed by a call
\* that does not copy, none does.
LEMMA AloneNoCopy ==
    ASSUME RInv, \/ Alone
                 \/ \E t \in Threads : pc[t] \in BootPc
    PROVE  NoCopy
BY DEF RInv, SafeInv, IInv, CallsConsistent, CallPc, BootPc, Alone, NoCopy

\* A step that at most cuts sidecars, closes the tenant and touches no index.
LEMMA QuietCovered ==
    ASSUME CInv, TypeOK', ro' = ro, nextVer' = nextVer, h' \in {h, None},
           \A d \in Dirs : Underway(d) => Underway(d)',
           \A d \in Dirs :
               /\ dir'[d].kind = dir[d].kind
               /\ dir'[d].graph = dir[d].graph
               /\ dir'[d].delta = dir[d].delta
               /\ dir'[d].meta \in {dir[d].meta, NoFile, Torn}
    PROVE  Covered'
<1>0. TypeOK /\ nextVer \in Nat
  BY DEF CInv, KInv, RInv, SafeInv, IInv, TypeOK
<1>1. \A d \in Dirs : (IndexOpens(d)' <=> IndexOpens(d)) /\ Index(d)' = Index(d)
  BY IndexSame
<1>2. DiskCovered'
  BY DirKept DEF CInv, Covered, DiskCovered
<1>3. HandleCovered'
  <2> SUFFICES ASSUME h' # None PROVE Covers(Index(h.dir)', h.side.recs)
    BY DEF HandleCovered
  <2>1. h # None /\ h.dir \in Dirs
    BY <1>0 DEF TypeOK, Handles
  <2> QED
    BY <1>1, <2>1 DEF CInv, KInv, Covered, HandleCovered
<1>4. ReadersCovered'
  <2>1. \A r \in Readers : ro[r].pc = "meta" => ro[r].dir \in Dirs
    BY <1>0 DEF TypeOK, View
  <2> QED
    BY <1>0, <2>1, SameKeeps, ReadersKept
<1> QED
  BY <1>2, <1>3, <1>4 DEF Covered

\* The handle keeps its records and the index of its directory.
LEMMA HandleKept ==
    ASSUME CInv, TypeOK', h # None, h' = h, KeepsIndex(h.dir)
    PROVE  HandleCovered'
<1>1. TypeOK /\ nextVer \in Nat /\ h \in Handles /\ h.dir \in Dirs /\ Below(h.side.recs)
      /\ Covers(Index(h.dir), h.side.recs)
  BY DEF CInv, KInv, Covered, HandleCovered, RInv, SafeInv, IInv, TypeOK, Versions, Handles
<1>2. h.side.recs \in SUBSET Entry
  BY <1>1 DEF Handles, Sidecar
<1> PICK d \in Dirs : d = h.dir
  BY <1>1
<1> PICK recs \in SUBSET Entry : recs = h.side.recs
  BY <1>2
<1>3. Covers(Index(d)', recs)
  BY <1>1, CoversKept
<1> QED
  BY <1>3 DEF HandleCovered

\* An open starts from what is on disk.
LEMMA OpenExistingCovered ==
    ASSUME CInv, RInv', NEW t \in Threads, NEW d \in Dirs, NEW tid \in Tids, NEW dim \in Dims,
           OpenExisting(t, d, tid, dim)
    PROVE  Covered'
<1>1. /\ TypeOK /\ TypeOK' /\ h = None /\ UNCHANGED <<dir, cp, ro, nextVer>>
      /\ h'.dir = d /\ h'.side = dir[d].meta /\ Readable(d) /\ IndexOpens(d)
  BY DEF CInv, KInv, RInv, SafeInv, IInv, OpenExisting, IndexOfDim, Handle
<1>2. \A s \in Dirs : (IndexOpens(s)' <=> IndexOpens(s)) /\ Index(s)' = Index(s)
  BY <1>1, IndexSame
<1>3. DiskCovered'
  BY <1>1, DiskKept, UnderwayKept DEF CInv, Covered, DiskCovered, SameDir
<1>4. HandleCovered'
  <2>1. ~Underway(d)
    BY AloneNoCopy DEF CInv, KInv, OpenExisting, NoCopy, Underway
  <2>2. Covers(Index(d), dir[d].meta.recs)
    BY <1>1, <2>1, OpenCovered DEF CInv, Covered
  <2> QED
    BY <1>1, <1>2, <2>2 DEF HandleCovered
<1>5. ReadersCovered'
  <2>1. \A r \in Readers : ro[r].pc = "meta" => ro[r].dir \in Dirs
    BY <1>1 DEF TypeOK, View
  <2> QED
    BY <1>1, <2>1, SameKeeps, ReadersKept DEF TypeOK
<1> QED
  BY <1>3, <1>4, <1>5 DEF Covered

\* A step with no open tenant that changes one directory d, which is covered
\* afterwards.
LEMMA ClosedCovered ==
    ASSUME CInv, TypeOK', ro' = ro, nextVer' = nextVer, cp' = cp, NEW d \in Dirs,
           \A s \in Dirs \ {d} : SameDir(s),
           DirCovered(d)',
           KeepsOrEmpties(d),
           h' # None => h'.side.recs = {}
    PROVE  Covered'
<1>0. TypeOK /\ nextVer \in Nat
  BY DEF CInv, KInv, RInv, SafeInv, IInv, TypeOK
<1>1. DiskCovered'
  BY DiskKept, UnderwayKept DEF CInv, Covered, DiskCovered
<1>2. HandleCovered'
  BY DEF HandleCovered, Covers
<1>3. ReadersCovered'
  <2>1. \A s \in Dirs : KeepsOrEmpties(s)
    BY SameKeeps DEF SameDir
  <2>2. \A r \in Readers : ro[r].pc = "meta" => ro[r].dir \in Dirs
    BY <1>0 DEF TypeOK, View
  <2> QED
    BY <1>0, <2>1, <2>2, ReadersKept
<1> QED
  BY <1>1, <1>2, <1>3 DEF Covered

\* A create writes tier.kind: the index does not open yet ...
LEMMA OpenCreateCovered ==
    ASSUME CInv, RInv', NEW t \in Threads, NEW d \in Dirs, NEW tid \in Tids, NEW dim \in Dims,
           OpenCreate(t, d, tid, dim)
    PROVE  Covered'
<1>1. /\ TypeOK /\ TypeOK' /\ h' = None /\ UNCHANGED <<cp, ro, nextVer>>
      /\ dir'[d].graph = NoFile
      /\ \A s \in Dirs \ {d} : SameDir(s)
  BY DEF CInv, KInv, RInv, SafeInv, IInv, OpenCreate, IndexExists, TypeOK, Tree, SameDir
<1>2. ~IndexOpens(d)' /\ DirCovered(d)'
  BY <1>1 DEF IndexOpens, Whole, DirCovered
<1> QED
  BY <1>1, <1>2, ClosedCovered DEF KeepsOrEmpties

\* ... then an empty index, beside no sidecar ...
LEMMA CreateIndexCovered ==
    ASSUME CInv, RInv', NEW t \in Threads, CreateIndex(t)
    PROVE  Covered'
<1>1. /\ TypeOK /\ TypeOK' /\ h' = None /\ UNCHANGED <<cp, ro, nextVer>> /\ req.dir \in Dirs
  BY DEF CInv, KInv, RInv, SafeInv, IInv, TypeOK, CallsConsistent, CreateIndex, BootPc, Request
<1> PICK d \in Dirs : d = req.dir
  BY <1>1
<1>2. /\ dir'[d].graph.vec = NoVecs /\ dir'[d].delta = NoVecs /\ dir'[d].meta = NoFile
      /\ \A s \in Dirs \ {d} : SameDir(s)
  BY <1>1 DEF CInv, KInv, RInv, Booting, CreateIndex, TypeOK, Tree, SameDir
<1>3. Index(d)' = NoVecs
  BY <1>2 DEF Index, Merged, NoVecs
<1> QED
  BY <1>1, <1>2, <1>3, ClosedCovered DEF KeepsOrEmpties, DirCovered, Readable

\* ... and a sidecar without records.
LEMMA SidecarFillCovered ==
    ASSUME CInv, RInv', NEW t \in Threads, SidecarFill(t)
    PROVE  Covered'
<1>1. /\ TypeOK /\ TypeOK' /\ UNCHANGED <<cp, ro, nextVer>> /\ req.dir \in Dirs
      /\ h'.side.recs = {}
  BY DEF CInv, KInv, RInv, SafeInv, IInv, TypeOK, CallsConsistent, SidecarFill, BootPc, Request,
         Handle, EmptySidecar
<1> PICK d \in Dirs : d = req.dir
  BY <1>1
<1>2. /\ dir'[d].meta = EmptySidecar(req.tid, req.dim)
      /\ dir'[d].kind = dir[d].kind
      /\ dir'[d].graph = dir[d].graph
      /\ dir'[d].delta = dir[d].delta
      /\ \A s \in Dirs \ {d} : SameDir(s)
  BY <1>1 DEF SidecarFill, TypeOK, Tree, SameDir
<1>3. KeepsOrEmpties(d)
  BY <1>2, SameKeeps
<1> QED
  BY <1>1, <1>2, <1>3, ClosedCovered DEF EmptySidecar, DirCovered, Covers

\* Without any one of its files a directory is not read.
LEMMA RemoveFileCovered ==
    ASSUME CInv, RInv', NEW t \in Threads, NEW f \in Files, RemoveFile(t, f)
    PROVE  Covered'
<1>1. /\ TypeOK /\ TypeOK' /\ h' = None /\ UNCHANGED <<cp, ro, nextVer>> /\ req.dir \in Dirs
  BY DEF CInv, KInv, RInv, SafeInv, IInv, TypeOK, CallsConsistent, RemoveFile, BootPc, Request
<1> PICK d \in Dirs : d = req.dir
  BY <1>1
<1>2. /\ \A s \in Dirs \ {d} : SameDir(s)
      /\ dir'[d] = [dir[d] EXCEPT ![f] = NoFile]
  BY <1>1 DEF RemoveFile, TypeOK, SameDir
<1>3. DirCovered(d)
  BY AloneNoCopy DEF CInv, KInv, Covered, DiskCovered, RemoveFile, BootPc, NoCopy, Underway
<1>4. CASE f = "meta"
  <2>1. /\ dir'[d].meta = NoFile
        /\ dir'[d].kind = dir[d].kind
        /\ dir'[d].graph = dir[d].graph
        /\ dir'[d].delta = dir[d].delta
    BY <1>1, <1>2, <1>4 DEF TypeOK, Tree
  <2> QED
    BY <1>1, <1>2, <1>3, <2>1, DirKept, SameKeeps, ClosedCovered
<1>5. CASE f # "meta"
  <2>1. f \in {"kind", "graph", "delta"}
    BY <1>5 DEF Files
  <2>2. /\ dir'[d].kind = NoFile \/ dir'[d].graph = NoFile \/ dir'[d].delta = NoFile
        /\ dir'[d].meta = dir[d].meta
        /\ dir'[d].graph \in {NoFile, dir[d].graph} /\ dir'[d].delta \in {NoFile, dir[d].delta}
    BY <1>1, <1>2, <2>1 DEF TypeOK, Tree
  <2>3. ~IndexOpens(d)'
    BY <2>2 DEF IndexOpens
  <2>4. DirCovered(d)'
    BY <1>3, <2>2, DirKept DEF DirCovered, Whole
  <2> QED
    BY <1>1, <1>2, <2>3, <2>4, ClosedCovered DEF KeepsOrEmpties
<1> QED
  BY <1>4, <1>5

\* A call that writes the index of the open tenant keeps or renews its vectors.
LEMMA IndexWritten ==
    ASSUME CInv, TypeOK', h # None, h' = h, ro' = ro, cp' = cp, nextVer' >= nextVer,
           KeepsIndex(h.dir), IndexOpens(h.dir)', dir'[h.dir].meta = dir[h.dir].meta,
           \A s \in Dirs \ {h.dir} : SameDir(s)
    PROVE  Covered'
<1>0. TypeOK /\ nextVer \in Nat /\ h \in Handles /\ h.dir \in Dirs
  BY DEF CInv, KInv, RInv, SafeInv, IInv, TypeOK, Handles
<1> PICK d \in Dirs : d = h.dir
  BY <1>0
<1>1. DiskCovered'
  <2> SUFFICES ASSUME NEW s \in Dirs
               PROVE  Underway(s)' \/ DirCovered(s)'
    BY DEF DiskCovered
  <2>1. CASE s = d
    <3> SUFFICES ASSUME Readable(d)' PROVE Covers(Index(d)', dir[d].meta.recs)
      BY <2>1, Opened DEF DirCovered
    <3>1. Readable(d) /\ IndexOpens(d) /\ ~Underway(d)
      BY <2>1, Copier DEF Readable, KeepsIndex, Underway, CInv, KInv, RInv, SafeInv, IInv, CallsConsistent
    <3>2. Covers(Index(d), dir[d].meta.recs) /\ Below(dir[d].meta.recs)
      BY <3>1, OpenCovered DEF CInv, KInv, Covered, RInv, SafeInv, Versions
    <3>3. dir[d].meta.recs \in SUBSET Entry
      BY <1>0, <3>1 DEF TypeOK, Tree, Readable, Sidecar
    <3> PICK recs \in SUBSET Entry : recs = dir[d].meta.recs
      BY <3>3
    <3>4. Covers(Index(d)', recs)
      BY <1>0, <3>2, CoversKept
    <3> QED
      BY <3>4
  <2>2. CASE s # d
    BY <2>2, DiskKept, UnderwayKept DEF CInv, Covered
  <2> QED
    BY <2>1, <2>2
<1>2. HandleCovered'
  BY HandleKept
<1>3. ReadersCovered'
  <2>1. \A s \in Dirs : KeepsOrEmpties(s)
    BY SameKeeps DEF SameDir, KeepsOrEmpties
  <2>2. \A r \in Readers : ro[r].pc = "meta" => ro[r].dir \in Dirs
    BY <1>0 DEF TypeOK, View
  <2> QED
    BY <2>1, <2>2, ReadersKept
<1> QED
  BY <1>1, <1>2, <1>3 DEF Covered

\* The files of the open tenant's index are there, and none of them is cut.
LEMMA OpenIndex ==
    ASSUME RInv, h # None
    PROVE  /\ TypeOK /\ h \in Handles /\ h.dir \in Dirs /\ h.side \in Sidecar
           /\ h.side.recs \in SUBSET Entry /\ IndexOpens(h.dir)
           /\ dir[h.dir].graph \in Graph /\ dir[h.dir].delta \in Vecs
           /\ Index(h.dir) \in Vecs
<1>1. TypeOK /\ h \in Handles /\ IndexOpens(h.dir)
  BY DEF RInv, SafeInv, IInv, TypeOK, HandleDim
<1>2. h.dir \in Dirs /\ h.side \in Sidecar /\ h.side.recs \in SUBSET Entry
  BY <1>1 DEF Handles, Sidecar
<1>3. /\ dir[h.dir].graph \in Graph /\ dir[h.dir].delta \in Vecs
      /\ Index(h.dir) \in Vecs
  BY <1>1, <1>2, IndexFiles DEF TypeOK
<1> QED
  BY <1>1, <1>2, <1>3

\* An insert renews one vector, under a version above every sidecar's.
LEMMA InsertIndexCovered ==
    ASSUME CInv, RInv', NEW t \in Threads, NEW i \in Ids, InsertIndex(t, i)
    PROVE  Covered'
<1>1. /\ TypeOK /\ TypeOK' /\ h # None /\ h' = h /\ UNCHANGED <<cp, ro>>
      /\ nextVer \in Nat /\ nextVer # 0 /\ nextVer' = nextVer + 1
  BY DEF CInv, KInv, RInv, SafeInv, IInv, TypeOK, Versions, InsertIndex, CanLock, CanEnter
<1>2. /\ h.dir \in Dirs /\ dir[h.dir].graph \in Graph /\ dir[h.dir].delta \in Vecs
      /\ IndexOpens(h.dir)
  BY <1>1, OpenIndex DEF CInv, KInv
<1> PICK d \in Dirs : d = h.dir
  BY <1>2
<1>3. /\ dir'[d].kind = dir[d].kind /\ dir'[d].graph = dir[d].graph
      /\ dir'[d].delta = [dir[d].delta EXCEPT ![i] = nextVer]
      /\ dir'[d].meta = dir[d].meta
      /\ \A s \in Dirs \ {d} : SameDir(s)
  BY <1>1, <1>2 DEF InsertIndex, PutVector, TypeOK, Tree, SameDir
<1>4. [dir[d].delta EXCEPT ![i] = nextVer] \in Vecs
  BY <1>1, <1>2 DEF Vecs
<1>5. IndexOpens(d)'
  BY <1>2, <1>3, <1>4, SentinelAssumption DEF IndexOpens
<1>6. /\ Index(d) = Merged(dir[d].graph, dir[d].delta)
      /\ Index(d)' = Merged(dir[d].graph, [dir[d].delta EXCEPT ![i] = nextVer])
  BY <1>2, <1>3, <1>5 DEF Index
<1>7. KeepsIndex(d)
  BY <1>1, <1>2, <1>6 DEF KeepsIndex, Merged, Vecs
<1> QED
  BY <1>1, <1>3, <1>5, <1>7, IndexWritten

\* Consolidation keeps every vector.
LEMMA ConsolidateCovered ==
    ASSUME CInv, RInv', NEW t \in Threads, Consolidate(t)
    PROVE  Covered'
<1>1. /\ TypeOK /\ TypeOK' /\ h # None /\ h' = h /\ UNCHANGED <<cp, ro, nextVer>>
      /\ nextVer \in Nat
  BY DEF CInv, KInv, RInv, SafeInv, IInv, TypeOK, Consolidate, CanLock, CanEnter
<1>2. /\ h.dir \in Dirs /\ dir[h.dir].graph \in Graph /\ Index(h.dir) \in Vecs
      /\ IndexOpens(h.dir)
  BY <1>1, OpenIndex DEF CInv, KInv
<1> PICK d \in Dirs : d = h.dir
  BY <1>2
<1>3. /\ dir'[d].kind = dir[d].kind /\ dir'[d].delta = NoVecs
      /\ dir'[d].graph = [dir[d].graph EXCEPT !.vec = Index(d)]
      /\ dir'[d].meta = dir[d].meta
      /\ \A s \in Dirs \ {d} : SameDir(s)
  BY <1>1, <1>2 DEF Consolidate, TypeOK, Tree, SameDir
<1>4. /\ dir'[d].graph \in Graph /\ dir'[d].graph.vec = Index(d)
      /\ NoVecs \in Vecs
  BY <1>2, <1>3 DEF Graph, NoVecs, Vecs
<1>5. IndexOpens(d)'
  BY <1>2, <1>3, <1>4, SentinelAssumption DEF IndexOpens
<1>6. Index(d)' = Merged(dir'[d].graph, NoVecs)
  BY <1>3, <1>5 DEF Index
<1>7. KeepsIndex(d)
  BY <1>2, <1>4, <1>6 DEF KeepsIndex, Merged, NoVecs, Vecs
<1> QED
  BY <1>1, <1>3, <1>5, <1>7, IndexWritten

\* A step that leaves every file alone, and whose handle stays covered.
LEMMA MemoryCovered ==
    ASSUME CInv, TypeOK', UNCHANGED <<dir, cp, ro, nextVer>>,
           h' # None => /\ h'.dir \in Dirs
                        /\ Covers(Index(h'.dir), h'.side.recs)
    PROVE  Covered'
<1>0. TypeOK /\ nextVer \in Nat
  BY DEF CInv, KInv, RInv, SafeInv, IInv, TypeOK
<1>1. \A d \in Dirs : (IndexOpens(d)' <=> IndexOpens(d)) /\ Index(d)' = Index(d)
  BY IndexSame
<1>2. DiskCovered'
  BY DiskKept, UnderwayKept DEF CInv, Covered, DiskCovered, SameDir
<1>3. HandleCovered'
  <2> SUFFICES ASSUME h' # None PROVE Covers(Index(h.dir)', h'.side.recs)
    BY DEF HandleCovered
  <2>1. Index(h.dir)' = Index(h'.dir)
    BY DEF Index, IndexOpens
  <2> QED
    BY <2>1
<1>4. ReadersCovered'
  <2>1. \A r \in Readers : ro[r].pc = "meta" => ro[r].dir \in Dirs
    BY <1>0 DEF TypeOK, View
  <2> QED
    BY <1>0, <2>1, SameKeeps, ReadersKept
<1> QED
  BY <1>2, <1>3, <1>4 DEF Covered

\* The entry of an insert has the version its vector already has.
LEMMA InsertSidecarCovered ==
    ASSUME CInv, RInv', NEW t \in Threads, InsertSidecar(t)
    PROVE  Covered'
<1>1. /\ TypeOK /\ TypeOK' /\ h # None /\ UNCHANGED <<dir, cp, ro, nextVer>> /\ ev[t] \in Event
      /\ pc[t] = "indexed"
  BY DEF CInv, KInv, RInv, SafeInv, IInv, TypeOK, CallsConsistent, CallPc, InsertSidecar
<1>2. h.dir \in Dirs /\ h \in Handles /\ Index(h.dir) \in Vecs
  BY <1>1, OpenIndex DEF CInv, KInv
<1>3. /\ h'.dir = h.dir
      /\ h'.side.recs = Upsert(h.side.recs, [id |-> ev[t].id, ver |-> ev[t].ver])
  BY <1>2 DEF InsertSidecar, Handles, Sidecar
<1>4. Index(h.dir)[ev[t].id] = ev[t].ver
  BY <1>1 DEF CInv, KInv, RInv, SafeInv, Session
<1>5. Index(h.dir)[ev[t].id] \in Nat
  BY <1>1, <1>2 DEF Vecs, Event
<1>6. Covers(Index(h.dir), h.side.recs)
  BY <1>1 DEF CInv, KInv, Covered, HandleCovered
<1>7. Covers(Index(h'.dir), h'.side.recs)
  BY <1>3, <1>4, <1>5, <1>6 DEF Covers, Upsert
<1> QED
  BY <1>1, <1>2, <1>3, <1>7, MemoryCovered

\* A delete only takes an entry away.
LEMMA DeleteCovered ==
    ASSUME CInv, RInv', NEW t \in Threads, NEW i \in Ids, Delete(t, i)
    PROVE  Covered'
<1>1. TypeOK /\ TypeOK' /\ h # None /\ UNCHANGED <<dir, cp, ro, nextVer>>
  BY DEF CInv, KInv, RInv, SafeInv, IInv, TypeOK, Delete, CanLock, CanEnter
<1>2. h.dir \in Dirs /\ h \in Handles
  BY <1>1, OpenIndex DEF CInv, KInv
<1>3. h'.dir = h.dir /\ h'.side.recs \in SUBSET h.side.recs
  BY <1>2 DEF Delete, Without, Handles, Sidecar
<1>4. Covers(Index(h'.dir), h'.side.recs)
  BY <1>1, <1>3 DEF CInv, KInv, Covered, HandleCovered, Covers
<1> QED
  BY <1>1, <1>2, <1>3, <1>4, MemoryCovered

\* A flush writes what the handle holds, which is covered.
LEMMA FlushFillCovered ==
    ASSUME CInv, RInv', NEW t \in Threads, FlushFill(t)
    PROVE  Covered'
<1>1. /\ TypeOK /\ TypeOK' /\ h # None /\ h' = h /\ UNCHANGED <<cp, ro, nextVer>>
      /\ nextVer \in Nat
  BY DEF CInv, KInv, RInv, SafeInv, IInv, TypeOK, CallsConsistent, CallPc, FlushFill
<1>2. h.dir \in Dirs /\ IndexOpens(h.dir)
  BY <1>1, OpenIndex DEF CInv, KInv
<1> PICK d \in Dirs : d = h.dir
  BY <1>2
<1>3. /\ dir'[d].meta = h.side
      /\ dir'[d].kind = dir[d].kind
      /\ dir'[d].graph = dir[d].graph
      /\ dir'[d].delta = dir[d].delta
      /\ \A s \in Dirs \ {d} : SameDir(s)
  BY <1>1 DEF FlushFill, TypeOK, Tree, SameDir
<1>4. Index(d)' = Index(d) /\ Covers(Index(d), h.side.recs)
  BY <1>1, <1>3, IndexSame DEF CInv, KInv, Covered, HandleCovered
<1>5. DiskCovered'
  <2>1. DirCovered(d)'
    BY <1>1, <1>2, <1>3, <1>4, IndexSame, Opened DEF DirCovered
  <2> QED
    BY <1>1, <1>3, <2>1, DiskKept, UnderwayKept DEF CInv, Covered, DiskCovered
<1>6. HandleCovered'
  BY <1>1, <1>4 DEF HandleCovered
<1>7. ReadersCovered'
  <2>1. \A s \in Dirs : KeepsOrEmpties(s)
    BY <1>3, SameKeeps DEF SameDir
  <2>2. \A r \in Readers : ro[r].pc = "meta" => ro[r].dir \in Dirs
    BY <1>1 DEF TypeOK, View
  <2> QED
    BY <1>1, <2>1, <2>2, ReadersKept
<1> QED
  BY <1>5, <1>6, <1>7 DEF Covered

\* A reader takes what is on disk, first the sidecar, then the index.
LEMMA ReaderCovered ==
    ASSUME CInv, RInv', ReadersApart', NEW r \in Readers, OpenReadonly(r)
    PROVE  Covered'
<1>1. /\ TypeOK /\ TypeOK' /\ UNCHANGED <<dir, h, cp, nextVer>>
      /\ \A s \in Readers : s # r => ro'[s] = ro[s]
      /\ ro[r] \in View
  BY DEF CInv, KInv, RInv, SafeInv, IInv, TypeOK, OpenReadonly, ReadSidecar, ReadIndex, CloseView
<1>2. DiskCovered' /\ HandleCovered'
  <2>1. DiskCovered'
    BY <1>1, DiskKept, UnderwayKept DEF CInv, Covered, DiskCovered, SameDir
  <2>2. HandleCovered'
    BY <1>1 DEF CInv, Covered, HandleCovered, Index, IndexOpens
  <2> QED
    BY <2>1, <2>2
<1>3. ASSUME NEW v, CoveredView(v)
      PROVE  CoveredView(v)'
  BY <1>1, <1>3 DEF CoveredView, Below, Index, IndexOpens
<1>4. CoveredView(ro'[r])
  <2>1. ASSUME NEW d \in Dirs, ReadSidecar(r, d)
        PROVE  CoveredView(ro'[r])
    <3>1. ro'[r] = [pc |-> "meta", dir |-> d, side |-> dir[d].meta] /\ Readable(d)
      BY <1>1, <2>1 DEF ReadSidecar, TypeOK
    <3>2. Below(dir[d].meta.recs)
      BY <3>1 DEF CInv, KInv, RInv, SafeInv, Versions
    <3>3. ~Underway(d)
      BY <1>1, <3>1 DEF ReadersApart, Underway
    <3>4. IndexOpens(d) => CoversIfAny(Index(d), dir[d].meta.recs)
      BY <3>1, <3>3, OpenCovered DEF CInv, Covered, Covers, CoversIfAny
    <3> QED
      BY <3>1, <3>2, <3>4 DEF CoveredView
  <2>2. CASE ReadIndex(r) /\ IndexOfDim(ro[r].dir, ro[r].side.dim)
    <3>1. /\ ro'[r] = [pc |-> "view", dir |-> ro[r].dir, side |-> ro[r].side,
                       vec |-> Index(ro[r].dir)]
          /\ IndexOpens(ro[r].dir) /\ ro[r].pc = "meta"
      BY <1>1, <2>2 DEF ReadIndex, TypeOK, IndexOfDim
    <3>2. CoversIfAny(Index(ro[r].dir), ro[r].side.recs)
      BY <3>1 DEF CInv, KInv, Covered, ReadersCovered, CoveredView
    <3> QED
      BY <3>1, <3>2 DEF CoveredView
  <2>3. CASE (ReadIndex(r) /\ ~IndexOfDim(ro[r].dir, ro[r].side.dim)) \/ CloseView(r)
    <3>1. ro'[r] = [pc |-> "idle"]
      BY <1>1, <2>3 DEF ReadIndex, CloseView, TypeOK
    <3> QED
      BY <3>1 DEF CoveredView
  <2> QED
    BY <2>1, <2>2, <2>3 DEF OpenReadonly
<1>5. ASSUME NEW s \in Readers PROVE CoveredView(ro[s])'
  <2>1. CoveredView(ro'[s])
    BY <1>1, <1>4 DEF CInv, KInv, Covered, ReadersCovered
  <2> PICK v : v = ro'[s]
    OBVIOUS
  <2>2. CoveredView(v)'
    BY <1>3, <2>1
  <2> QED
    BY <2>2
<1>6. ReadersCovered'
  BY <1>5 DEF ReadersCovered
<1> QED
  BY <1>2, <1>6 DEF Covered

\* One file of a directory is written, here for every file.
LEMMA OneFileOfAll ==
    ASSUME dir \in [Dirs -> Tree], NEW d \in Dirs, NEW f \in Files, NEW v,
           dir' = [dir EXCEPT ![d][f] = v]
    PROVE  /\ \A r \in Dirs \ {d} : dir'[r] = dir[r]
           /\ \A g \in Files : g # f => dir'[d][g] = dir[d][g]
<1>1. \A g \in Files : g \in DOMAIN dir[d]
  BY DEF Tree, Files
<1> QED
  BY <1>1

\* A directory that holds some files of a covered one, and else none or cut
\* ones, is covered.
LEMMA PartialCopy ==
    ASSUME NEW d \in Dirs, NEW s \in Dirs, DirCovered(s),
           \A g \in Files : dir'[d][g] \in {NoFile, Torn, dir[s][g]}
    PROVE  DirCovered(d)'
<1> SUFFICES ASSUME Readable(d)', Whole(d)'
             PROVE  Covers(Stored(d)', dir'[d].meta.recs)
  BY DEF DirCovered
<1>1. /\ dir'[d].meta = dir[s].meta /\ dir'[d].graph = dir[s].graph
      /\ dir'[d].delta = dir[s].delta
  BY DEF Readable, Whole, Files
<1> QED
  BY <1>1 DEF DirCovered, Readable, Whole, Stored

\* The files a call has copied, and the directories it works between.
LEMMA CopyState ==
    ASSUME KInv, NEW t \in Threads, cp[t] # None
    PROVE  /\ TypeOK /\ cp[t] \in Copy /\ cp[t].src \in Dirs /\ cp[t].dst \in Dirs
           /\ cp[t].src # cp[t].dst /\ cp[t].todo \in SUBSET Files
           /\ \A u \in Threads : cp[u] # None => u = t
           /\ \A d \in Dirs : Underway(d) => d = cp[t].dst /\ cp[t].todo # Files
BY DEF KInv, RInv, SafeInv, IInv, TypeOK, Copies, Copy, Underway

\* A step of a copy, if its target is covered at the end.
LEMMA TargetCovered ==
    ASSUME CInv, TypeOK', ReadersApart, NEW t \in Threads, cp[t] # None,
           ro' = ro, nextVer' = nextVer, h' \in {h, None},
           NEW d \in Dirs, d = cp[t].dst,
           \A r \in Dirs \ {d} : SameDir(r),
           Underway(d)' \/ DirCovered(d)'
    PROVE  Covered'
<1>0. TypeOK /\ nextVer \in Nat
  BY DEF CInv, KInv, RInv, SafeInv, IInv, TypeOK
<1>1. DiskCovered'
  <2> SUFFICES ASSUME NEW r \in Dirs, r # d
               PROVE  Underway(r)' \/ DirCovered(r)'
    BY DEF DiskCovered
  <2>1. ~Underway(r)
    BY CopyState DEF CInv
  <2> QED
    BY <2>1, DiskKept DEF CInv, Covered
<1>2. HandleCovered'
  <2>1. CASE h' = None
    BY <2>1 DEF HandleCovered
  <2>2. CASE h # None /\ h' = h
    <3>1. h.dir \in Dirs /\ h.dir # d /\ IndexOpens(h.dir)
      BY <2>2, Copier, OpenIndex DEF CInv, KInv
    <3> PICK r \in Dirs : r = h.dir
      BY <3>1
    <3>2. KeepsIndex(r)
      BY <3>1, IndexSame DEF SameDir, KeepsIndex
    <3> QED
      BY <2>2, <3>2, HandleKept
  <2> QED
    BY <2>1, <2>2
<1>3. ReadersCovered'
  <2>1. \A r \in Readers : ro[r].pc = "meta" => ro[r].dir \in Dirs \ {d}
    BY <1>0 DEF TypeOK, View, ReadersApart
  <2>2. \A r \in Dirs \ {d} : KeepsOrEmpties(r)
    BY SameKeeps DEF SameDir
  <2> QED
    BY <1>0, <2>1, <2>2, ReadersKept
<1> QED
  BY <1>1, <1>2, <1>3 DEF Covered

\* The target of a copy after one more file.
LEMMA OneMoreCopied ==
    ASSUME KInv, RInv', NEW t \in Threads, NEW f \in Files, CopyFile(t, f)
    PROVE  /\ \A r \in Dirs \ {cp[t].dst} : SameDir(r)
           /\ \A g \in Files \ cp'[t].todo : dir[cp[t].src][g] # NoFile =>
                  dir'[cp[t].dst][g] = dir[cp[t].src][g]
           /\ cp'[t].src = cp[t].src /\ cp'[t].dst = cp[t].dst
           /\ cp'[t] # None /\ cp'[t].todo # Files
<1>1. /\ TypeOK /\ cp[t] # None /\ cp[t] \in Copy /\ cp[t].src \in Dirs /\ cp[t].dst \in Dirs
      /\ f \in cp[t].todo /\ cp[t].src # cp[t].dst
  BY Copying, CopyState DEF KInv, RInv, SafeInv, IInv, CallsConsistent, CopyFile
<1> PICK d \in Dirs : d = cp[t].dst
  BY <1>1
<1> PICK s \in Dirs : s = cp[t].src
  BY <1>1
<1>2. \A g \in Files \ cp[t].todo : dir[s][g] # NoFile => dir[d][g] = dir[s][g]
  BY <1>1 DEF KInv, Copies
<1>3. /\ cp'[t].todo = cp[t].todo \ {f} /\ cp'[t].src = s /\ cp'[t].dst = d
      /\ cp'[t] # None
  <2>1. cp'[t] = [cp[t] EXCEPT !.todo = @ \ {f}]
    BY <1>1 DEF CopyFile, TypeOK
  <2>2. cp'[t] \in Copy
    BY <1>1, <2>1 DEF Copy
  <2> QED
    BY <1>1, <2>1, <2>2, SentinelAssumption DEF Copy
<1>4. /\ \A r \in Dirs \ {d} : SameDir(r)
      /\ \A g \in Files : g # f => dir'[d][g] = dir[d][g]
      /\ dir[s][f] # NoFile => dir'[d][f] = dir[s][f]
  <2>1. CASE dir[s][f] = NoFile
    BY <2>1 DEF CopyFile, SameDir
  <2>2. CASE dir[s][f] # NoFile
    <3> PICK v : v = dir[s][f]
      OBVIOUS
    <3>1. dir' = [dir EXCEPT ![d][f] = v]
      BY <1>1, <2>2 DEF CopyFile, Copied
    <3>2. dir \in [Dirs -> Tree]
      BY <1>1 DEF TypeOK
    <3>3. /\ \A r \in Dirs \ {d} : dir'[r] = dir[r]
          /\ \A g \in Files : g # f => dir'[d][g] = dir[d][g]
      BY <3>1, <3>2, OneFileOfAll
    <3>4. dir'[d][f] = v
      BY <3>1, <3>2 DEF Tree, Files
    <3> QED
      BY <3>3, <3>4 DEF SameDir
  <2> QED
    BY <2>1, <2>2
<1> QED
  BY <1>1, <1>2, <1>3, <1>4

\* So a copied file leaves every other directory covered.
LEMMA CopyFileCovered ==
    ASSUME CInv, RInv', ReadersApart, NEW t \in Threads, NEW f \in Files, CopyFile(t, f)
    PROVE  Covered'
<1>1. /\ TypeOK' /\ cp[t] # None /\ cp[t].dst \in Dirs
      /\ UNCHANGED <<ro, nextVer, h>>
  BY Copying DEF CInv, KInv, RInv, SafeInv, IInv, CallsConsistent, CopyFile
<1> PICK d \in Dirs : d = cp[t].dst
  BY <1>1
<1>2. /\ \A r \in Dirs \ {d} : SameDir(r)
      /\ Underway(d)'
  BY OneMoreCopied DEF CInv, Underway
<1> QED
  BY <1>1, <1>2, TargetCovered

\* A target is covered when its copy ends, clean, with at most one file cut
\* that the source had.
LEMMA EndCovered ==
    ASSUME CInv, EndsClean, NEW t \in Threads, cp[t] # None, cp'[t] = None,
           NEW d \in Dirs, d = cp[t].dst,
           \/ dir' = dir
           \/ \E u \in Threads, f \in Files : CutCopy(u, f)
    PROVE  /\ \A r \in Dirs \ {d} : SameDir(r)
           /\ DirCovered(d)'
<1>1. /\ TypeOK /\ cp[t].src \in Dirs /\ cp[t].dst \in Dirs /\ cp[t].src # cp[t].dst
      /\ \A u \in Threads : cp[u] # None => u = t
  BY CopyState DEF CInv
<1> PICK s \in Dirs : s = cp[t].src
  BY <1>1
<1>2. /\ \A r \in Dirs \ {d} : SameDir(r)
      /\ \A g \in Files : dir'[d][g] \in {dir[d][g], Torn}
      /\ dir'[d].graph = dir[d].graph \/ dir'[d].graph = Torn
      /\ dir'[d].delta = dir[d].delta \/ dir'[d].delta = Torn
      /\ dir'[d].meta = dir[d].meta \/ dir'[d].meta = Torn
  <2>1. CASE dir' = dir
    BY <2>1 DEF SameDir
  <2>2. CASE \E u \in Threads, f \in Files : CutCopy(u, f)
    <3>1. PICK f \in Files : CutCopy(t, f)
      BY <1>1, <2>2 DEF CutCopy
    <3> PICK v : v = Torn
      OBVIOUS
    <3>2. dir \in [Dirs -> Tree] /\ dir' = [dir EXCEPT ![d][f] = v]
      BY <1>1, <3>1 DEF CutCopy, TypeOK
    <3>3. /\ \A r \in Dirs \ {d} : dir'[r] = dir[r]
          /\ \A g \in Files : g # f => dir'[d][g] = dir[d][g]
      BY <3>2, OneFileOfAll
    <3>4. dir'[d][f] = v
      BY <3>2 DEF Tree, Files
    <3>5. \A g \in Files : dir'[d][g] \in {dir[d][g], v}
      BY <3>3, <3>4
    <3> QED
      BY <3>3, <3>5 DEF SameDir, Files
  <2> QED
    BY <2>1, <2>2
<1>3. CASE cp[t].todo = Files
  <2>1. ~Underway(d)
    BY <1>3, CopyState DEF CInv
  <2>2. DirCovered(d)
    BY <2>1 DEF CInv, Covered, DiskCovered
  <2> QED
    BY <1>2, <2>2, DirKept DEF DirCovered, Readable, Whole
<1>4. CASE cp[t].todo # Files
  <2>1. \A g \in Files : dir[d][g] \in {NoFile, dir[s][g]}
    BY <1>4 DEF EndsClean, CInv, KInv, Copies
  <2>2. ~Underway(s)
    BY <1>1, CopyState DEF CInv
  <2>3. DirCovered(s)
    BY <2>2 DEF CInv, Covered, DiskCovered
  <2>4. \A g \in Files : dir'[d][g] \in {NoFile, Torn, dir[s][g]}
    BY <1>2, <2>1
  <2> QED
    BY <1>2, <2>3, <2>4, PartialCopy
<1> QED
  BY <1>3, <1>4

\* So a call that ends with its copy leaves every directory covered ...
LEMMA EndedCovered ==
    ASSUME CInv, RInv', ReadersApart, EndsClean, NEW t \in Threads, cp[t] # None, cp'[t] = None,
           \/ dir' = dir
           \/ \E u \in Threads, f \in Files : CutCopy(u, f),
           UNCHANGED <<ro, nextVer>>, h' \in {h, None}
    PROVE  Covered'
<1>1. TypeOK' /\ cp[t].dst \in Dirs
  BY CopyState DEF CInv, RInv, SafeInv, IInv
<1> PICK d \in Dirs : d = cp[t].dst
  BY <1>1
<1>2. (\A r \in Dirs \ {d} : SameDir(r)) /\ DirCovered(d)'
  BY EndCovered
<1> QED
  BY <1>1, <1>2, TargetCovered

\* ... and what a restore opens is covered.
LEMMA RestoreOpenCovered ==
    ASSUME CInv, RInv', ReadersApart, EndsClean, NEW t \in Threads, RestoreOpen(t)
    PROVE  Covered'
<1>1. /\ TypeOK /\ TypeOK' /\ h = None /\ UNCHANGED <<dir, ro, nextVer>>
      /\ cp[t] # None /\ cp[t].dst \in Dirs /\ cp'[t] = None
  BY Copying DEF CInv, KInv, RInv, SafeInv, IInv, TypeOK, CallsConsistent, RestoreOpen
<1> PICK d \in Dirs : d = cp[t].dst
  BY <1>1
<1>2. DirCovered(d)'
  BY <1>1, EndCovered
<1>3. DiskCovered' /\ ReadersCovered'
  <2>1. \A r \in Dirs \ {d} : ~Underway(r)
    BY <1>1, CopyState DEF CInv
  <2>2. DiskCovered'
    BY <1>1, <1>2, <2>1, DiskKept DEF CInv, Covered, DiskCovered, SameDir
  <2>3. \A r \in Readers : ro[r].pc = "meta" => ro[r].dir \in Dirs
    BY <1>1 DEF TypeOK, View
  <2>4. ReadersCovered'
    BY <1>1, <2>3, SameKeeps, ReadersKept DEF TypeOK
  <2> QED
    BY <2>2, <2>4
<1>4. HandleCovered'
  <2>1. CASE Readable(d) /\ IndexOfDim(d, dir[d].meta.dim)
    <3>1. h'.dir = d /\ h'.side = dir[d].meta /\ IndexOpens(d)
      BY <2>1 DEF RestoreOpen, Handle, IndexOfDim
    <3>2. IndexOpens(d)' /\ Readable(d)' /\ dir'[d] = dir[d]
      BY <1>1, <2>1, <3>1 DEF IndexOpens, Readable
    <3>3. Covers(Index(d)', dir[d].meta.recs)
      BY <1>2, <3>2, Opened DEF DirCovered
    <3> QED
      BY <3>1, <3>3 DEF HandleCovered
  <2>2. CASE h' = None
    BY <2>2 DEF HandleCovered
  <2> QED
    BY <1>1, <2>1, <2>2 DEF RestoreOpen
<1> QED
  BY <1>3, <1>4 DEF Covered

-----------------------------------------------------------------------------
(* The copies in progress.                                                 *)

\* A call on the open tenant that touches at most its directory, and whose
\* thread does not copy, while no flush holds the lock.
LEMMA CallKeepsCopies ==
    ASSUME KInv, Undisturbed, h # None, h' # None, cp' = cp,
           \A t \in Threads : cp[t] # None => pc[t] # "flush" /\ pc'[t] = pc[t],
           \A d \in Dirs \ {h.dir} : SameDir(d)
    PROVE  Copies'
<1>1. ASSUME NEW t \in Threads, cp[t] # None
      PROVE  /\ pc'[t] = pc[t] /\ SameDir(cp[t].src) /\ SameDir(cp[t].dst)
             /\ pc[t] \in {"flush", "copy"} => h'.dir = h.dir
             /\ pc[t] = "copy" => h' = h /\ SameDir(h.dir)
  <2>1. pc[t] = "copy" /\ cp[t].dst \in Dirs \ {h.dir}
    BY <1>1, Copier DEF KInv
  <2>2. cp[t].src = h.dir
    BY <1>1, <2>1 DEF KInv, Copies
  <2>3. h' = h /\ SameDir(h.dir)
    BY <2>1 DEF Undisturbed, SameDir
  <2> QED
    BY <1>1, <2>1, <2>2, <2>3
<1> QED
  BY <1>1, CopiesKept DEF KInv

\* Inserts, deletes and consolidations leave the copies in progress alone.
LEMMA MutateCopies ==
    ASSUME KInv, RInv', Undisturbed, NEW t \in Threads, Mutate(t)
    PROVE  Copies'
<1>1. TypeOK /\ TypeOK' /\ h # None /\ h.dir \in Dirs /\ h \in Handles
  <2>1. h # None
    BY DEF Mutate, InsertIndex, Delete, InsertSidecar, Consolidate, CanLock, CanEnter,
           KInv, RInv, SafeInv, IInv, CallsConsistent, CallPc
  <2> QED
    BY <2>1 DEF KInv, RInv, SafeInv, IInv, TypeOK, Handles
<1>2. h' # None
  BY <1>1, SentinelAssumption DEF Mutate, InsertIndex, Delete, InsertSidecar, Consolidate,
           RInv, SafeInv, IInv, CallsConsistent, CallPc, TypeOK
<1>3. cp' = cp /\ \A d \in Dirs \ {h.dir} : SameDir(d)
  BY <1>1 DEF Mutate, InsertIndex, PutVector, Delete, InsertSidecar, Consolidate, SameDir, TypeOK
<1>4. pc[t] \in {"idle", "indexed"} /\ cp[t] = None
  BY DEF Mutate, InsertIndex, Delete, InsertSidecar, Consolidate, CanLock, CanEnter,
         KInv, RInv, SafeInv, IInv, CallsConsistent
<1>5. \A u \in Threads : u # t => pc[u] # "flush" /\ pc'[u] = pc[u]
  <2>1. \A u \in Threads : u # t => pc'[u] = pc[u]
    BY <1>1 DEF Mutate, InsertIndex, Delete, InsertSidecar, Consolidate, TypeOK
  <2>2. lock \in {None, t}
    BY DEF Mutate, InsertIndex, Delete, InsertSidecar, Consolidate, CanLock,
           KInv, RInv, SafeInv, IInv, CallsConsistent
  <2> QED
    BY <2>1, <2>2, SentinelAssumption DEF KInv, RInv, SafeInv, IInv, CallsConsistent
<1> QED
  BY <1>1, <1>2, <1>3, <1>4, <1>5, CallKeepsCopies

\* A flush that begins: no copy is under way, as the lock is free and a copy
\* would see its sidecar cut.
LEMMA TruncateAlone ==
    ASSUME KInv, RInv', Undisturbed, NEW t \in Threads, TruncateSidecar(t)
    PROVE  NoCopy
<1> SUFFICES ASSUME NEW u \in Threads, cp[u] # None PROVE FALSE
  BY DEF NoCopy
<1>1. h # None /\ h' = h /\ lock = None
  BY DEF TruncateSidecar, CanLock, CanEnter
<1>2. /\ TypeOK /\ h.dir \in Dirs /\ h.side \in Sidecar
  BY <1>1, OpenIndex DEF KInv
<1>3. pc[u] = "copy"
  BY <1>1, Copier, SentinelAssumption DEF KInv
<1>4. dir[h.dir].meta = h.side
  BY <1>3 DEF KInv, Copies
<1>5. dir'[h.dir].meta = Torn
  BY <1>2 DEF TruncateSidecar, TypeOK, Tree
<1>6. dir'[h.dir] = dir[h.dir]
  BY <1>3 DEF Undisturbed
<1> QED
  BY <1>2, <1>4, <1>5, <1>6, SentinelAssumption

\* A flush of its own copies nothing.
LEMMA FlushCopies ==
    ASSUME KInv, RInv', Undisturbed, NEW t \in Threads, Flush(t)
    PROVE  Copies'
<1>1. NoCopy
  BY TruncateAlone DEF Flush
<1>2. NoCopy'
  BY <1>1 DEF Flush, NoCopy
<1> QED
  BY <1>2 DEF NoCopy, Copies

\* A call that starts to copy is the only one.
LEMMA StartCopies ==
    ASSUME NoCopy, TypeOK, TypeOK', NEW t \in Threads, NEW s \in Dirs, NEW d \in Dirs, s # d,
           cp' = [cp EXCEPT ![t] = CopyOf(s, d)],
           pc'[t] # "copy", pc'[t] = "flush" => s = h'.dir
    PROVE  Copies'
<1>1. \A u \in Threads : u # t => cp'[u] = None
  BY DEF NoCopy, TypeOK
<1>2. cp'[t].src = s /\ cp'[t].dst = d /\ cp'[t].todo = Files
  BY DEF TypeOK, CopyOf
<1> QED
  BY <1>1, <1>2 DEF Copies

\* A snapshot starts with everything still to copy.
LEMMA SnapshotCopies ==
    ASSUME KInv, RInv', Undisturbed, NEW t \in Threads, NEW d \in Dirs,
           SnapshotElsewhere(t, d)
    PROVE  Copies'
<1>1. NoCopy /\ h # None /\ h' = h
  BY TruncateAlone DEF SnapshotElsewhere, Snapshot, TruncateSidecar, CanLock, CanEnter
<1>2. TypeOK /\ TypeOK' /\ h.dir \in Dirs
  BY <1>1, OpenIndex DEF KInv, RInv, SafeInv, IInv
<1> PICK s \in Dirs : s = h.dir
  BY <1>2
<1>3. s # d /\ pc'[t] = "flush"
  BY <1>2 DEF SnapshotElsewhere, Snapshot, TruncateSidecar, TypeOK
<1>4. cp' = [cp EXCEPT ![t] = CopyOf(s, d)]
  BY DEF SnapshotElsewhere, Snapshot
<1> QED
  BY <1>1, <1>2, <1>3, <1>4, StartCopies

\* So does a restore, from another directory: the target has no sidecar.
LEMMA RestoreFromCopies ==
    ASSUME KInv, RInv', NEW t \in Threads, NEW s \in Dirs, NEW d \in Dirs,
           RestoreFrom(t, s, d)
    PROVE  Copies'
<1>1. NoCopy /\ TypeOK /\ TypeOK' /\ dir' = dir
  BY AloneNoCopy DEF RestoreFrom, KInv, RInv, SafeInv, IInv
<1>2. s # d /\ pc'[t] = "restore"
  BY <1>1 DEF RestoreFrom, TypeOK
<1>3. cp' = [cp EXCEPT ![t] = CopyOf(s, d)]
  BY DEF RestoreFrom
<1> QED
  BY <1>1, <1>2, <1>3, StartCopies

\* The sidecar is complete: the snapshot goes on to copy it.
LEMMA FlushFillCopies ==
    ASSUME KInv, RInv', Undisturbed, NEW t \in Threads, FlushFill(t)
    PROVE  Copies'
<1>1. /\ TypeOK /\ TypeOK' /\ h # None /\ h' = h /\ cp' = cp /\ lock = t
      /\ h.dir \in Dirs /\ pc[t] = "flush"
  <2>1. h # None /\ lock = t
    BY DEF KInv, RInv, SafeInv, IInv, CallsConsistent, CallPc, FlushFill
  <2> QED
    BY <2>1, OpenIndex DEF KInv, RInv, SafeInv, IInv, FlushFill
<1> PICK d \in Dirs : d = h.dir
  BY <1>1
<1>2. /\ \A s \in Dirs \ {d} : SameDir(s)
      /\ dir'[d].meta = h.side
  BY <1>1 DEF FlushFill, TypeOK, Tree, SameDir
<1>3. \A u \in Threads : u # t => pc[u] # "flush" /\ pc'[u] = pc[u]
  BY <1>1 DEF KInv, RInv, SafeInv, IInv, CallsConsistent, FlushFill, TypeOK
<1>4. CASE cp[t] = None
  BY <1>1, <1>2, <1>3, <1>4, CallKeepsCopies
<1>5. CASE cp[t] # None
  <2>1. /\ cp[t].src = d /\ cp[t].dst \in Dirs \ {d} /\ cp[t].todo = Files
        /\ \A u \in Threads : cp[u] # None => u = t
    BY <1>1, <1>5, Copier DEF KInv, Copies
  <2>2. pc'[t] = "copy"
    BY <1>1, <1>5 DEF FlushFill, TypeOK
  <2> QED
    BY <1>1, <1>2, <2>1, <2>2 DEF Copies
<1> QED
  BY <1>4, <1>5

\* A file more is copied.
LEMMA CopyFileCopies ==
    ASSUME KInv, RInv', NEW t \in Threads, NEW f \in Files, CopyFile(t, f)
    PROVE  Copies'
<1>1. /\ TypeOK /\ cp[t] # None /\ cp[t].src \in Dirs /\ cp[t].dst \in Dirs
      /\ UNCHANGED <<pc, h>>
  BY Copying DEF KInv, RInv, SafeInv, IInv, CallsConsistent, CopyFile
<1> PICK d \in Dirs : d = cp[t].dst
  BY <1>1
<1> PICK s \in Dirs : s = cp[t].src
  BY <1>1
<1>2. /\ s # d /\ pc[t] # "flush"
      /\ pc[t] = "copy" => s = h.dir /\ dir[h.dir].meta = h.side
      /\ \A u \in Threads : cp[u] # None => u = t
  BY <1>1 DEF KInv, Copies, CopyFile
<1>3. /\ SameDir(s)
      /\ \A g \in Files \ cp'[t].todo : dir[s][g] # NoFile => dir'[d][g] = dir[s][g]
      /\ cp'[t].src = s /\ cp'[t].dst = d
  BY <1>2, OneMoreCopied
<1>4. \A u \in Threads : cp'[u] # None => u = t
  BY <1>1, <1>2 DEF CopyFile, TypeOK
<1>5. \A g \in Files \ cp'[t].todo : dir'[s][g] # NoFile => dir'[d][g] = dir'[s][g]
  BY <1>3 DEF SameDir
<1>6. pc'[t] = "copy" => s = h'.dir /\ dir'[h'.dir].meta = h'.side
  BY <1>1, <1>2, <1>3 DEF SameDir
<1>7. pc'[t] # "flush" /\ (pc'[t] \in {"flush", "copy"} => s = h'.dir)
  BY <1>1, <1>2
<1> QED
  BY <1>2, <1>3, <1>4, <1>5, <1>6, <1>7 DEF Copies

\* A call that ends, and with it the copy it was doing, if any.
LEMMA EndCopies ==
    ASSUME KInv, RInv', NEW t \in Threads, dir' = dir \/ cp[t] # None, h' = h,
           cp'[t] = None,
           \A u \in Threads : u # t => pc'[u] = pc[u] /\ cp'[u] = cp[u]
    PROVE  Copies'
<1>1. TypeOK /\ TypeOK'
  BY DEF KInv, RInv, SafeInv, IInv
<1>2. CASE cp[t] # None
  <2>1. \A u \in Threads : cp[u] # None => u = t
    BY <1>2 DEF KInv, Copies
  <2>2. NoCopy'
    BY <1>1, <1>2, <2>1 DEF NoCopy, TypeOK
  <2> QED
    BY <2>2 DEF NoCopy, Copies
<1>3. CASE cp[t] = None
  <2>1. cp' = cp /\ dir' = dir
    BY <1>1, <1>3 DEF TypeOK
  <2>2. \A u \in Threads : cp[u] # None => pc'[u] = pc[u]
    BY <1>3
  <2> QED
    BY <2>1, <2>2, CopiesKept DEF KInv, SameDir
<1> QED
  BY <1>2, <1>3

\* Steps of other calls: nothing is being copied, before or after.
LEMMA ClosedCopies ==
    ASSUME KInv, RInv', NEW t \in Threads,
           \/ Boot(t)
           \/ \E f \in Files : RemoveFile(t, f)
           \/ RestoreOpen(t) \/ Destroy(t) \/ DestroyDone(t)
           \/ Close \/ Crash
    PROVE  Copies'
<1>1. CASE \/ Boot(t)
           \/ \E f \in Files : RemoveFile(t, f)
           \/ Destroy(t) \/ DestroyDone(t) \/ Close
  <2>1. (Alone \/ \E u \in Threads : pc[u] \in BootPc) /\ cp' = cp
    <3>1. CASE Boot(t)
      BY <3>1 DEF Boot, Open, CreateNew, OpenExisting, OpenAdopt, OpenCreate, CreateIndex,
                  SidecarTruncate, SidecarFill, BootPc
    <3>2. CASE \E f \in Files : RemoveFile(t, f)
      BY <3>2 DEF RemoveFile, BootPc
    <3>3. CASE Destroy(t) \/ DestroyDone(t) \/ Close
      BY <3>3 DEF Destroy, DestroyDone, Close, BootPc
    <3> QED
      BY <1>1, <3>1, <3>2, <3>3
  <2>2. NoCopy
    BY <2>1, AloneNoCopy DEF KInv
  <2> QED
    BY <2>1, <2>2 DEF NoCopy, Copies
<1>2. CASE RestoreOpen(t)
  <2>1. /\ TypeOK /\ pc[t] = "restore" /\ cp' = [cp EXCEPT ![t] = None]
        /\ cp[t] # None
    BY <1>2 DEF RestoreOpen, KInv, RInv, SafeInv, IInv, CallsConsistent
  <2>2. \A u \in Threads : cp[u] # None => u = t
    BY <2>1 DEF KInv, Copies
  <2> QED
    BY <2>1, <2>2 DEF Copies, TypeOK
<1>3. CASE Crash
  BY <1>3 DEF Crash, Copies
<1> QED
  BY <1>1, <1>2, <1>3

\* The invariant of the copies is inductive while none is disturbed.
LEMMA StepKInv ==
    ASSUME KInv, [Next]_vars, [Undisturbed]_vars
    PROVE  KInv'
<1>0. RInv'
  BY StepSafe, StepBooting DEF KInv, RInv
<1>1. CASE UNCHANGED vars
  BY <1>0, <1>1 DEF vars, KInv, Copies
<1>2. ASSUME Next, Undisturbed
      PROVE  Copies'
  <2>1. ASSUME NEW t \in Threads, Boot(t)
        PROVE  Copies'
    BY <1>0, <2>1, ClosedCopies
  <2>2. ASSUME NEW t \in Threads, Mutate(t)
        PROVE  Copies'
    BY <1>0, <1>2, <2>2, MutateCopies
  <2>3. ASSUME NEW t \in Threads, Persist(t)
        PROVE  Copies'
    <3>1. CASE FlushError(t)
      <4>1. /\ dir' = dir /\ h' = h /\ cp'[t] = None
            /\ \A u \in Threads : u # t => pc'[u] = pc[u] /\ cp'[u] = cp[u]
        BY <3>1 DEF FlushError, KInv, RInv, SafeInv, IInv, TypeOK
      <4> QED
        BY <1>0, <4>1, EndCopies
    <3> QED
      BY <1>0, <1>2, <2>3, <3>1, FlushCopies, FlushFillCopies DEF Persist
  <2>4. ASSUME NEW t \in Threads, Lifecycle(t)
        PROVE  Copies'
    <3>1. CASE \E d \in Dirs : SnapshotElsewhere(t, d)
      BY <1>0, <1>2, <3>1, SnapshotCopies
    <3>2. CASE \E s, d \in Dirs : RestoreFrom(t, s, d)
      BY <1>0, <3>2, RestoreFromCopies
    <3>3. CASE \E f \in Files : CopyFile(t, f)
      BY <1>0, <3>3, CopyFileCopies
    <3>4. CASE \E f \in Files : CopyError(t, f)
      <4>1. /\ cp[t] # None /\ h' = h /\ cp'[t] = None
            /\ \A u \in Threads : u # t => pc'[u] = pc[u] /\ cp'[u] = cp[u]
        BY <3>4 DEF CopyError, CutCopy, KInv, RInv, SafeInv, IInv, TypeOK
      <4> QED
        BY <1>0, <4>1, EndCopies
    <3>5. CASE SnapshotDone(t)
      <4>1. /\ dir' = dir /\ h' = h /\ cp'[t] = None
            /\ \A u \in Threads : u # t => pc'[u] = pc[u] /\ cp'[u] = cp[u]
        BY <3>5 DEF SnapshotDone, KInv, RInv, SafeInv, IInv, TypeOK
      <4> QED
        BY <1>0, <4>1, EndCopies
    <3>6. CASE \/ \E f \in Files : RemoveFile(t, f)
               \/ RestoreOpen(t) \/ Destroy(t) \/ DestroyDone(t)
      BY <1>0, <3>6, ClosedCopies
    <3> QED
      BY <2>4, <3>1, <3>2, <3>3, <3>4, <3>5, <3>6 DEF Lifecycle
  <2>5. ASSUME NEW t \in Threads, EmitDone(t)
        PROVE  Copies'
    <3>1. /\ dir' = dir /\ h' = h /\ cp'[t] = None
          /\ \A u \in Threads : u # t => pc'[u] = pc[u] /\ cp'[u] = cp[u]
      BY <2>5 DEF EmitDone, KInv, RInv, SafeInv, IInv, TypeOK, CallsConsistent
    <3> QED
      BY <1>0, <3>1, EndCopies
  <2>6. CASE \E r \in Readers : OpenReadonly(r)
    BY <2>6 DEF OpenReadonly, ReadSidecar, ReadIndex, CloseView, KInv, Copies
  <2>7. CASE Close
    <3>1. NoCopy /\ cp' = cp
      BY <2>7, AloneNoCopy DEF Close, KInv
    <3> QED
      BY <3>1 DEF NoCopy, Copies
  <2>8. CASE Crash
    BY <2>8 DEF Crash, Copies
  <2> QED
    BY <1>2, <2>1, <2>2, <2>3, <2>4, <2>5, <2>6, <2>7, <2>8 DEF Next, SilentNext
<1> QED
  BY <1>0, <1>1, <1>2 DEF KInv

\* Coverage too, while copies end clean and no reader opens their targets.
LEMMA StepCInv ==
    ASSUME CInv, ReadersApart, ReadersApart', [Next]_vars, [Undisturbed]_vars, [EndsClean]_vars
    PROVE  CInv'
<1>0. KInv' /\ RInv' /\ TypeOK'
  BY StepKInv DEF CInv, KInv, RInv, SafeInv, IInv
<1>1. CASE UNCHANGED vars
  <2>1. Covered'
    BY <1>1 DEF vars, CInv, Covered, DiskCovered, DirCovered, Underway, HandleCovered,
                ReadersCovered, CoveredView, Readable, Below, Index, IndexOpens, Whole, Stored
  <2> QED
    BY <1>0, <2>1 DEF CInv
<1>2. ASSUME Next, EndsClean, Undisturbed
      PROVE  Covered'
  \* A step that at most cuts the sidecar of the open or opening tenant.
  <2>0. ASSUME \A d \in Dirs : Underway(d) => Underway(d)',
               \A d \in Dirs : /\ dir'[d].kind = dir[d].kind
                              /\ dir'[d].graph = dir[d].graph
                              /\ dir'[d].delta = dir[d].delta
                              /\ dir'[d].meta \in {dir[d].meta, NoFile, Torn},
               UNCHANGED <<ro, nextVer>>, h' \in {h, None}
        PROVE  Covered'
    BY <1>0, <2>0, QuietCovered
  <2>1. ASSUME NEW t \in Threads, Boot(t)
        PROVE  Covered'
    <3>1. ASSUME NEW d \in Dirs, NEW tid \in Tids, NEW dim \in Dims, Open(t, d, tid, dim)
          PROVE  Covered'
      <4>1. CASE OpenAdopt(t, d, tid, dim)
        BY <2>0, <4>1, UnderwayKept DEF OpenAdopt
      <4> QED
        BY <1>0, <3>1, <4>1, OpenExistingCovered, OpenCreateCovered DEF Open
    <3>2. CASE SidecarTruncate(t)
      <4>1. /\ \A d \in Dirs : /\ dir'[d].kind = dir[d].kind
                               /\ dir'[d].graph = dir[d].graph
                               /\ dir'[d].delta = dir[d].delta
                               /\ dir'[d].meta \in {dir[d].meta, NoFile, Torn}
            /\ UNCHANGED <<h, ro, nextVer, cp>>
        BY <3>2 DEF SidecarTruncate, CInv, KInv, RInv, SafeInv, IInv, TypeOK, Tree
      <4> QED
        BY <2>0, <4>1, UnderwayKept
    <3> QED
      BY <1>0, <2>1, <3>1, <3>2, CreateIndexCovered, SidecarFillCovered DEF Boot, CreateNew
  <2>2. ASSUME NEW t \in Threads, Mutate(t)
        PROVE  Covered'
    BY <1>0, <2>2, InsertIndexCovered, DeleteCovered, InsertSidecarCovered, ConsolidateCovered
       DEF Mutate
  <2>3. ASSUME NEW t \in Threads, TruncateSidecar(t)
        PROVE  Covered'
    <3>1. /\ \A d \in Dirs : /\ dir'[d].kind = dir[d].kind
                             /\ dir'[d].graph = dir[d].graph
                             /\ dir'[d].delta = dir[d].delta
                             /\ dir'[d].meta \in {dir[d].meta, NoFile, Torn}
          /\ UNCHANGED <<h, ro, nextVer>>
      BY <2>3 DEF TruncateSidecar, CInv, KInv, RInv, SafeInv, IInv, TypeOK, Tree
    <3>2. \A d \in Dirs : ~Underway(d)
      BY <1>0, <1>2, <2>3, TruncateAlone DEF CInv, NoCopy, Underway
    <3> QED
      BY <2>0, <3>1, <3>2
  <2>4. ASSUME dir' = dir, UNCHANGED <<ro, nextVer>>, h' \in {h, None},
               cp' = cp \/ NoCopy
        PROVE  Covered'
    <3>1. \A d \in Dirs : Underway(d) => Underway(d)'
      BY <2>4, UnderwayKept DEF NoCopy, Underway
    <3> QED
      BY <2>0, <2>4, <3>1
  <2>5. ASSUME NEW t \in Threads, Persist(t) \/ EmitDone(t)
        PROVE  Covered'
    <3>1. CASE EmitDone(t)
      BY <2>4, <3>1 DEF EmitDone
    <3>2. CASE FlushError(t)
      <4>1. /\ dir' = dir /\ UNCHANGED <<ro, nextVer>> /\ h' = h
            /\ cp' = [cp EXCEPT ![t] = None] /\ cp \in [Threads -> Copy \cup {None}]
        BY <3>2 DEF FlushError, CInv, KInv, RInv, SafeInv, IInv, TypeOK
      <4>2. CASE cp[t] = None
        BY <2>4, <4>1, <4>2
      <4>3. CASE cp[t] # None
        BY <1>0, <1>2, <4>1, <4>3, EndedCovered
      <4> QED
        BY <4>2, <4>3
    <3> QED
      BY <1>0, <2>3, <2>5, <3>1, <3>2, FlushFillCovered DEF Persist, Flush
  <2>6. ASSUME NEW t \in Threads, Lifecycle(t)
        PROVE  Covered'
    <3>1. CASE \E d \in Dirs : SnapshotElsewhere(t, d)
      BY <2>3, <3>1 DEF SnapshotElsewhere, Snapshot
    <3>2. CASE \/ \E s, d \in Dirs : RestoreFrom(t, s, d)
               \/ Destroy(t) \/ DestroyDone(t)
      BY <2>4, <3>2, AloneNoCopy DEF RestoreFrom, Destroy, DestroyDone, CInv, KInv
    <3>3. CASE SnapshotDone(t) \/ \E f \in Files : CopyError(t, f)
      <4>1. /\ cp[t] # None /\ cp'[t] = None /\ h' = h /\ UNCHANGED <<ro, nextVer>>
            /\ dir' = dir \/ \E f \in Files : CutCopy(t, f)
        BY <3>3, Copying DEF SnapshotDone, CopyError, CInv, KInv, RInv, SafeInv, IInv, TypeOK,
                             CallsConsistent
      <4> QED
        BY <1>0, <1>2, <4>1, EndedCovered
    <3> QED
      BY <1>0, <1>2, <2>6, <3>1, <3>2, <3>3, CopyFileCovered, RemoveFileCovered,
         RestoreOpenCovered DEF Lifecycle
  <2>7. CASE \E r \in Readers : OpenReadonly(r)
    BY <1>0, <2>7, ReaderCovered
  <2>8. CASE Close
    BY <2>4, <2>8 DEF Close
  <2>9. CASE Crash
    <3>1. /\ UNCHANGED <<ro, nextVer>> /\ h' = None
          /\ dir' = dir \/ \E t \in Threads, f \in Files : CutCopy(t, f)
      BY <2>9 DEF Crash
    <3>2. CASE NoCopy
      BY <2>4, <3>1, <3>2 DEF CutCopy, NoCopy
    <3>3. CASE ~NoCopy
      <4> PICK t \in Threads : cp[t] # None
        BY <3>3 DEF NoCopy
      <4>1. cp'[t] = None
        BY <2>9 DEF Crash
      <4> QED
        BY <1>0, <1>2, <3>1, <4>1, EndedCovered
    <3> QED
      BY <3>2, <3>3
  <2> QED
    BY <1>2, <2>1, <2>2, <2>5, <2>6, <2>7, <2>8, <2>9 DEF Next, SilentNext
<1> QED
  BY <1>0, <1>1, <1>2 DEF CInv

\* Both hold at the start.
LEMMA InitCInv == Init => CInv
<1> SUFFICES ASSUME Init PROVE CInv
  OBVIOUS
<1>1. RInv
  BY InitSafe DEF Init, RInv, Booting
<1>2. Copies
  BY DEF Init, Copies
<1>3. Covered
  BY DEF Init, Covered, DiskCovered, DirCovered, HandleCovered, ReadersCovered, CoveredView,
         Readable, Gone
<1> QED
  BY <1>1, <1>2, <1>3 DEF CInv, KInv

-----------------------------------------------------------------------------
(* The theorems, and two cases in which callers cannot fail their duties,  *)
(* or all but one of them.                                                 *)

\* With one directory nothing is ever copied; with one thread and no readers
\* nobody is there to disturb a copy.
Uncopied == \A d, e \in Dirs : d = e
Single   == (\A t, u \in Threads : t = u) /\ Readers = {}

LEMMA NothingCopied ==
    ASSUME Uncopied, KInv
    PROVE  NoCopy /\ [EndsClean]_vars
<1>1. NoCopy
  BY Copier DEF Uncopied, KInv, Copies, NoCopy
<1> QED
  BY <1>1 DEF NoCopy, EndsClean

\* Then every step meets the duties.
LEMMA DutiesMet ==
    ASSUME Uncopied \/ Single, KInv, [Next]_vars
    PROVE  [Undisturbed]_vars /\ ReadersApart
<1>1. CASE Uncopied
  <2>1. NoCopy
    BY <1>1, NothingCopied
  <2>2. \A t \in Threads : pc[t] # "copy"
    BY <2>1 DEF NoCopy, KInv, RInv, SafeInv, IInv, CallsConsistent
  <2> QED
    BY <2>1, <2>2 DEF NoCopy, Undisturbed, ReadersApart
<1>2. CASE Single
  <2>1. ReadersApart
    BY <1>2 DEF Single, ReadersApart
  <2>2. ASSUME NEW t \in Threads, pc[t] = "copy", Next
        PROVE  dir'[h.dir] = dir[h.dir] /\ h' \in {h, None}
    <3>1. /\ h # None /\ ~Alone /\ TypeOK /\ cp[t] # None
          /\ cp[t].dst \in Dirs /\ h.dir \in Dirs \ {cp[t].dst}
      BY <2>2, Copying, CopyTarget DEF KInv, RInv, SafeInv, IInv, CallsConsistent, CallPc, Alone
    <3>2. CASE \E f \in Files : CopyFile(t, f) \/ CopyError(t, f)
      <4>1. PICK f \in Files : CopyFile(t, f) \/ CopyError(t, f)
        BY <3>2
      <4>2. PICK d \in Dirs \ {h.dir} : d = cp[t].dst
        BY <3>1
      <4>3. h' = h /\ (dir' = dir \/ \E v : dir' = [dir EXCEPT ![d][f] = v])
        <5>1. CASE CopyFile(t, f)
          BY <4>2, <5>1 DEF CopyFile
        <5>2. CASE CopyError(t, f)
          BY <4>2, <5>2 DEF CopyError, CutCopy
        <5> QED
          BY <4>1, <5>1, <5>2
      <4>4. h.dir \in DOMAIN dir /\ h.dir # d
        BY <3>1, <4>2 DEF TypeOK
      <4>5. ASSUME NEW v, dir' = [dir EXCEPT ![d][f] = v], NEW e \in DOMAIN dir, e # d
            PROVE  dir'[e] = dir[e]
        BY <4>5
      <4> QED
        BY <4>3, <4>4, <4>5
    <3>3. CASE SnapshotDone(t)
      BY <3>3 DEF SnapshotDone
    <3>4. CASE Crash
      <4>1. h' = None /\ (dir' = dir \/ \E f \in Files : CutCopy(t, f))
        BY <1>2, <3>4 DEF Crash, Single
      <4>2. PICK d \in Dirs \ {h.dir} : d = cp[t].dst
        BY <3>1
      <4>3. h.dir \in DOMAIN dir
        BY <3>1 DEF TypeOK
      <4>4. ASSUME NEW f \in Files, CutCopy(t, f)
            PROVE  dir'[h.dir] = dir[h.dir]
        <5>1. dir' = [dir EXCEPT ![d][f] = Torn]
          BY <4>2, <4>4 DEF CutCopy
        <5>2. ASSUME NEW e \in DOMAIN dir, e # d
              PROVE  dir'[e] = dir[e]
          BY <5>1, <5>2
        <5> QED
          BY <4>2, <4>3, <5>2
      <4> QED
        BY <4>1, <4>4
    <3>5. \A u \in Threads : u = t
      BY <1>2 DEF Single
    <3>6. ~Boot(t) /\ ~Mutate(t) /\ ~Persist(t) /\ ~EmitDone(t) /\ ~Close
      BY <2>2, <3>1 DEF Boot, Open, CreateNew, OpenExisting, OpenAdopt, OpenCreate, CreateIndex,
                  SidecarTruncate, SidecarFill, Mutate, InsertIndex, Delete, InsertSidecar,
                  Consolidate, Persist, Flush, TruncateSidecar, FlushFill, FlushError, EmitDone,
                  CanLock, CanEnter, Close
    <3>7. CASE Lifecycle(t)
      BY <2>2, <3>1, <3>2, <3>3, <3>7
         DEF Lifecycle, SnapshotElsewhere, Snapshot, TruncateSidecar, CanLock, CanEnter, RestoreFrom, RemoveFile,
             RestoreOpen, Destroy, DestroyDone
    <3> QED
      BY <1>2, <2>2, <3>4, <3>5, <3>6, <3>7 DEF Next, SilentNext, Single
  <2> QED
    BY <2>1, <2>2 DEF Undisturbed
<1> QED
  BY <1>1, <1>2

\* What is covered is not ahead.
LEMMA CoveredNotAhead == CInv => MetadataNeverAhead
BY DEF CInv, Covered, HandleCovered, ReadersCovered, CoveredView, Covers, CoversIfAny,
       MetadataNeverAhead

LEMMA NobodyDisturbs ==
    Uncopied \/ Single => (Spec => []KInv /\ [][Undisturbed]_vars /\ []ReadersApart)
<1> SUFFICES ASSUME Uncopied \/ Single
             PROVE  Spec => []KInv /\ [][Undisturbed]_vars /\ []ReadersApart
  OBVIOUS
<1>1. KInv /\ [Next]_vars => [Undisturbed]_vars /\ KInv'
  BY StepKInv, DutiesMet
<1>2. KInv => ReadersApart
  <2>1. CASE Uncopied
    BY <2>1, NothingCopied DEF NoCopy, ReadersApart
  <2>2. CASE Single
    BY <2>2 DEF Single, ReadersApart
  <2> QED
    BY <2>1, <2>2
<1>3. Init => KInv
  BY InitCInv DEF CInv
<1> QED
  BY <1>1, <1>2, <1>3, PTL DEF Spec

\* insert writes the vector first and durably, the metadata after it
\* (tenant.rs:244-260), so neither the open handle nor a reader ever holds an
\* entry whose vector is older: whatever crashes, fails, is flushed,
\* consolidated, snapshotted, restored or destroyed, for any number of
\* directories, threads and readers, on three premises, all duties of callers
\* (tenant.rs:344, 446-453 see to none of them): no call writes the tenant
\* while a snapshot copies it, no copy ends with older files of its target
\* beside new ones, and no reader opens a target during the copy.
THEOREM VectorsFirst ==
    Spec /\ [][Undisturbed]_vars /\ [][EndsClean]_vars /\ []ReadersApart => []MetadataNeverAhead
<1>1. CInv /\ ReadersApart /\ ReadersApart' /\ [Next]_vars /\ [Undisturbed]_vars /\ [EndsClean]_vars
          => CInv'
  BY StepCInv
<1> QED
  BY <1>1, InitCInv, CoveredNotAhead, PTL DEF Spec

\* Without a premise on what callers do for a tenant that is never copied, as
\* there is one directory, however many threads and readers it has.
THEOREM VectorsFirstUncopied ==
    Uncopied => (Spec => []MetadataNeverAhead)
<1> SUFFICES ASSUME Uncopied PROVE Spec => []MetadataNeverAhead
  OBVIOUS
<1>1. Spec => []KInv /\ [][Undisturbed]_vars /\ []ReadersApart
  BY NobodyDisturbs
<1>2. KInv => [EndsClean]_vars
  BY NothingCopied
<1> QED
  BY <1>1, <1>2, VectorsFirst, PTL

\* On one premise for a process of one thread, without readers: that no copy
\* ends with older files of its target beside new ones.
THEOREM VectorsFirstAlone ==
    Single => (Spec /\ [][EndsClean]_vars => []MetadataNeverAhead)
<1> SUFFICES ASSUME Single PROVE Spec /\ [][EndsClean]_vars => []MetadataNeverAhead
  OBVIOUS
<1>1. Spec => [][Undisturbed]_vars /\ []ReadersApart
  BY NobodyDisturbs, PTL
<1> QED
  BY <1>1, VectorsFirst, PTL

\* What the last step of a snapshot finds.
LEMMA CopyIsWhole ==
    ASSUME KInv, NEW t \in Threads, SnapshotDone(t)
    PROVE  dir[cp[t].dst] = dir[h.dir] /\ dir[cp[t].dst].meta = h.side
<1>1. /\ TypeOK /\ cp[t] # None /\ cp[t].src \in Dirs /\ cp[t].dst \in Dirs
      /\ pc[t] = "copy" /\ cp[t].todo = {}
  BY Copying DEF SnapshotDone, KInv, RInv, SafeInv, IInv, CallsConsistent
<1> PICK d \in Dirs : d = cp[t].dst
  BY <1>1
<1> PICK s \in Dirs : s = cp[t].src
  BY <1>1
<1>2. /\ s = h.dir /\ dir[s].meta = h.side
      /\ \A f \in Files : dir[s][f] # NoFile => dir[d][f] = dir[s][f]
  BY <1>1 DEF KInv, Copies
<1>3. dir[d] \in Tree /\ dir[s] \in Tree
  BY <1>1 DEF TypeOK
<1>h. IndexOpens(s) /\ h.side \in Sidecar
  BY <1>1, <1>2, OpenIndex DEF KInv, RInv, SafeInv, IInv, CallsConsistent, CallPc
<1>4. /\ dir[d].meta = dir[s].meta /\ dir[d].kind = dir[s].kind
      /\ dir[d].graph = dir[s].graph /\ dir[d].delta = dir[s].delta
  BY <1>2, <1>h, SentinelAssumption DEF Files, IndexOpens
<1>5. dir[d] = dir[s]
  BY <1>3, <1>4 DEF Tree
<1> QED
  BY <1>2, <1>5

\* A snapshot that returns left in its target every file of the tenant, with
\* the sidecar of exactly the records the handle holds (tenant.rs:446-453),
\* whatever the target held before, on the premise that no call wrote the
\* tenant while its files were copied.
THEOREM SnapshotIsComplete ==
    Spec /\ [][Undisturbed]_vars => SnapshotComplete
<1> DEFINE A == \A t \in Threads : SnapshotDone(t) =>
                    /\ dir[cp[t].dst] = dir[h.dir]
                    /\ dir[cp[t].dst].meta = h.side
<1>1. KInv /\ [Next]_vars /\ [Undisturbed]_vars => KInv'
  BY StepKInv
<1>2. Init => KInv
  BY InitCInv DEF CInv
<1>3. KInv => [A]_vars
  BY CopyIsWhole
<1>4. SnapshotComplete <=> [][A]_vars
  BY DEF SnapshotComplete
<1> HIDE DEF A
<1> QED
  BY <1>1, <1>2, <1>3, <1>4, PTL DEF Spec

\* With one thread no call can: a snapshot, also a second one into the
\* directory a failed or crashed one left behind, is complete if it returns.
THEOREM SnapshotIsCompleteAlone ==
    Single => (Spec => SnapshotComplete)
<1> SUFFICES ASSUME Single PROVE Spec => SnapshotComplete
  OBVIOUS
<1>1. Spec => [][Undisturbed]_vars
  BY NobodyDisturbs, PTL
<1> QED
  BY <1>1, SnapshotIsComplete, PTL
=============================================================================
