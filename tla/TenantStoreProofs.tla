-------------------------- MODULE TenantStoreProofs --------------------------
(***************************************************************************)
(* Safety of TenantStore for any directories, records, threads and readers *)
(* in two layers: where the calls are and what the open handle holds       *)
(* (IInv), then what became of the data (SafeInv).                         *)
(***************************************************************************)
EXTENDS TenantStore, TLAPS

\* A create in progress has written tier.kind, and never anything it must keep.
Creating == \A t \in Threads : pc[t] = "create" => dir[req.dir].kind # NoFile

IInv == TypeOK /\ CallsConsistent /\ HandleDim /\ Creating

-----------------------------------------------------------------------------
(* The ways a step writes a file keep the file tree well formed.           *)

\* Writing one whole file of a directory.
LEMMA TreeUpdate ==
    ASSUME dir \in [Dirs -> Tree], NEW d \in Dirs
    PROVE  /\ \A v \in Sidecar \cup {NoFile, Torn} : [dir EXCEPT ![d].meta = v] \in [Dirs -> Tree]
           /\ \A v \in {NoFile, Torn, Present} : [dir EXCEPT ![d].kind = v] \in [Dirs -> Tree]
           /\ \A v \in Graph \cup {NoFile, Torn} : [dir EXCEPT ![d].graph = v] \in [Dirs -> Tree]
           /\ \A v \in Vecs \cup {NoFile, Torn} : [dir EXCEPT ![d].delta = v] \in [Dirs -> Tree]
BY DEF Tree

\* Writing one vector in the delta file, in place.
LEMMA VectorUpdate ==
    ASSUME dir \in [Dirs -> Tree], NEW d \in Dirs, NEW i \in Ids, NEW n \in Nat,
           dir[d].delta \in Vecs
    PROVE  [dir EXCEPT ![d].delta[i] = n] \in [Dirs -> Tree]
<1>1. [dir[d].delta EXCEPT ![i] = n] \in Vecs
  BY DEF Vecs
<1>2. [dir EXCEPT ![d].delta[i] = n] = [dir EXCEPT ![d].delta = [dir[d].delta EXCEPT ![i] = n]]
  OBVIOUS
<1> QED
  BY <1>1, <1>2, TreeUpdate

\* A file may be replaced by another tree's, cut short or removed.
LEMMA FileOfTree ==
    ASSUME NEW r \in Tree, NEW q \in Tree, NEW f \in Files
    PROVE  /\ [r EXCEPT ![f] = q[f]] \in Tree
           /\ [r EXCEPT ![f] = Torn] \in Tree
           /\ [r EXCEPT ![f] = NoFile] \in Tree
<1>1. CASE f = "meta"
  BY <1>1 DEF Tree
<1>2. CASE f = "kind"
  BY <1>2 DEF Tree
<1>3. CASE f = "graph"
  BY <1>3 DEF Tree
<1>4. CASE f = "delta"
  BY <1>4 DEF Tree
<1> QED
  BY <1>1, <1>2, <1>3, <1>4 DEF Files

\* The same in a directory: a file copied from another one.
LEMMA FileCopy ==
    ASSUME dir \in [Dirs -> Tree], NEW s \in Dirs, NEW d \in Dirs, NEW f \in Files
    PROVE  [dir EXCEPT ![d][f] = Copied(s, d, f)] \in [Dirs -> Tree]
BY FileOfTree DEF Copied

\* A file cut short or removed.
LEMMA FileCut ==
    ASSUME dir \in [Dirs -> Tree], NEW d \in Dirs, NEW f \in Files
    PROVE  /\ [dir EXCEPT ![d][f] = Torn] \in [Dirs -> Tree]
           /\ [dir EXCEPT ![d][f] = NoFile] \in [Dirs -> Tree]
BY FileOfTree

\* Replacing the entries of the sidecar in memory.
LEMMA SidecarUpdate ==
    ASSUME h \in Handles, NEW recs \in SUBSET Entry
    PROVE  [h EXCEPT !.side.recs = recs] \in Handles
BY DEF Handles, Sidecar

\* The files of an index that opens, and the vectors it then serves.
LEMMA IndexFiles ==
    ASSUME dir \in [Dirs -> Tree], NEW d \in Dirs, IndexOpens(d)
    PROVE  dir[d].graph \in Graph /\ dir[d].delta \in Vecs /\ Index(d) \in Vecs
<1>1. dir[d].graph \in Graph /\ dir[d].delta \in Vecs
  BY DEF IndexOpens, Tree
<1> QED
  BY <1>1 DEF Index, Merged, Graph, Vecs

-----------------------------------------------------------------------------
(* The invariant holds initially, and one lemma per action.                *)

\* The invariant holds at the start.
LEMMA InitIInv == Init => IInv
<1> SUFFICES ASSUME Init PROVE IInv
  OBVIOUS
<1>1. TypeOK
  BY DEF Init, TypeOK, Tree, Gone, View
<1>2. CallsConsistent
  BY SentinelAssumption DEF Init, CallsConsistent, BootPc, CallPc
<1>3. HandleDim /\ Creating
  BY DEF Init, HandleDim, Creating
<1> QED
  BY <1>1, <1>2, <1>3 DEF IInv

LEMMA OpenExistingIInv ==
    ASSUME IInv, NEW t \in Threads, NEW d \in Dirs, NEW tid \in Tids, NEW dim \in Dims, OpenExisting(t, d, tid, dim)
    PROVE  IInv'
<1>1. TypeOK'
  BY TreeUpdate DEF IInv, OpenExisting, IndexOfDim, Readable, Handle, Handle, Handles, Readable, Tree, TypeOK, BootPc, CallPc
<1>2. CallsConsistent'
  BY SentinelAssumption DEF IInv, OpenExisting, IndexOfDim, Readable, Handle, TypeOK, CallsConsistent, BootPc, CallPc, Alone
<1>3. HandleDim'
  BY DEF IInv, OpenExisting, IndexOfDim, Readable, Handle, TypeOK, CallsConsistent, BootPc, CallPc, Alone, HandleDim, IndexOpens
<1>4. Creating'
  BY SentinelAssumption DEF IInv, OpenExisting, IndexOfDim, Readable, Handle, TypeOK, CallsConsistent, BootPc, CallPc, Alone, Creating
<1> QED
  BY <1>1, <1>2, <1>3, <1>4 DEF IInv

LEMMA OpenAdoptIInv ==
    ASSUME IInv, NEW t \in Threads, NEW d \in Dirs, NEW tid \in Tids, NEW dim \in Dims, OpenAdopt(t, d, tid, dim)
    PROVE  IInv'
<1>1. TypeOK'
  BY TreeUpdate DEF IInv, OpenAdopt, IndexOfDim, MetaMissing, Request, TypeOK, BootPc, CallPc
<1>2. CallsConsistent'
  BY SentinelAssumption DEF IInv, OpenAdopt, IndexOfDim, MetaMissing, Request, TypeOK, CallsConsistent, BootPc, CallPc, Alone
<1>3. HandleDim'
  BY DEF IInv, OpenAdopt, IndexOfDim, MetaMissing, Request, TypeOK, CallsConsistent, BootPc, CallPc, Alone, HandleDim, IndexOpens
<1>4. Creating'
  BY SentinelAssumption DEF IInv, OpenAdopt, IndexOfDim, MetaMissing, Request, TypeOK, CallsConsistent, BootPc, CallPc, Alone, Creating
<1> QED
  BY <1>1, <1>2, <1>3, <1>4 DEF IInv

LEMMA OpenCreateIInv ==
    ASSUME IInv, NEW t \in Threads, NEW d \in Dirs, NEW tid \in Tids, NEW dim \in Dims, OpenCreate(t, d, tid, dim)
    PROVE  IInv'
<1>1. TypeOK'
  BY TreeUpdate DEF IInv, OpenCreate, MetaMissing, Request, TypeOK, BootPc, CallPc
<1>2. CallsConsistent'
  BY SentinelAssumption DEF IInv, OpenCreate, MetaMissing, Request, TypeOK, CallsConsistent, BootPc, CallPc, Alone
<1>3. HandleDim'
  BY DEF IInv, OpenCreate, MetaMissing, Request, TypeOK, CallsConsistent, BootPc, CallPc, Alone, HandleDim, IndexOpens
<1>4. Creating'
  <2>1. Alone /\ req'.dir = d /\ dir'[d].kind = Present
    BY DEF IInv, OpenCreate, TypeOK, Tree
  <2>2. \A u \in Threads : pc'[u] = "create" => u = t
    BY <2>1 DEF OpenCreate, IInv, TypeOK, Alone
  <2> QED
    BY <2>1, <2>2, SentinelAssumption DEF Creating
<1> QED
  BY <1>1, <1>2, <1>3, <1>4 DEF IInv

LEMMA CreateIndexIInv ==
    ASSUME IInv, NEW t \in Threads, CreateIndex(t)
    PROVE  IInv'
<1>1. TypeOK'
  <2>1. req \in Request /\ h = None
    BY DEF IInv, CreateIndex, TypeOK, CallsConsistent, BootPc
  <2>2. NoVecs \in Vecs /\ [dim |-> req.dim, vec |-> NoVecs] \in Graph
    BY <2>1 DEF NoVecs, Vecs, Graph, Request
  <2> DEFINE dir1 == [dir EXCEPT ![req.dir].graph = [dim |-> req.dim, vec |-> NoVecs]]
  <2>3. dir1 \in [Dirs -> Tree]
    BY <2>1, <2>2 DEF IInv, TypeOK, Tree, Request
  <2> HIDE DEF dir1
  <2>4. [dir1 EXCEPT ![req.dir].delta = NoVecs] \in [Dirs -> Tree]
    BY <2>1, <2>2, <2>3 DEF Tree, Request
  <2>5. dir' = [dir1 EXCEPT ![req.dir].delta = NoVecs]
    BY DEF CreateIndex, dir1
  <2> QED
    BY <2>4, <2>5 DEF IInv, CreateIndex, TypeOK, BootPc, CallPc
<1>2. CallsConsistent'
  BY SentinelAssumption DEF IInv, CreateIndex, TypeOK, CallsConsistent, BootPc, CallPc, Alone
<1>3. HandleDim'
  <2>1. req \in Request /\ req' = req /\ h = None /\ h' = None
    BY DEF IInv, CreateIndex, TypeOK, CallsConsistent, BootPc
  <2>2. NoVecs \in Vecs /\ [dim |-> req.dim, vec |-> NoVecs] \in Graph
    BY <2>1 DEF NoVecs, Vecs, Graph, Request
  <2>3. /\ dir'[req.dir].graph = [dim |-> req.dim, vec |-> NoVecs]
        /\ dir'[req.dir].delta = NoVecs
        /\ dir'[req.dir].kind # NoFile
    BY <2>1 DEF IInv, CreateIndex, TypeOK, Tree, Request, Creating
  <2>4. /\ dir'[req.dir].graph \notin {NoFile, Torn}
        /\ dir'[req.dir].delta \notin {NoFile, Torn}
        /\ dir'[req.dir].graph.dim = req.dim
    BY <2>2, <2>3, SentinelAssumption
  <2> QED
    BY <2>1, <2>3, <2>4 DEF HandleDim, IndexOpens
<1>4. Creating'
  BY SentinelAssumption DEF IInv, CreateIndex, TypeOK, CallsConsistent, BootPc, CallPc, Alone, Creating
<1> QED
  BY <1>1, <1>2, <1>3, <1>4 DEF IInv

LEMMA SidecarTruncateIInv ==
    ASSUME IInv, NEW t \in Threads, SidecarTruncate(t)
    PROVE  IInv'
<1>1. TypeOK'
  BY TreeUpdate DEF IInv, SidecarTruncate, Request, TypeOK, BootPc, CallPc
<1>2. CallsConsistent'
  BY SentinelAssumption DEF IInv, SidecarTruncate, TypeOK, CallsConsistent, BootPc, CallPc, Alone
<1>3. HandleDim'
  BY DEF IInv, SidecarTruncate, TypeOK, CallsConsistent, BootPc, CallPc, Alone, HandleDim, IndexOpens
<1>4. Creating'
  BY SentinelAssumption DEF IInv, SidecarTruncate, TypeOK, CallsConsistent, BootPc, CallPc, Alone, Creating
<1> QED
  BY <1>1, <1>2, <1>3, <1>4 DEF IInv

LEMMA SidecarFillIInv ==
    ASSUME IInv, NEW t \in Threads, SidecarFill(t)
    PROVE  IInv'
<1>1. TypeOK'
  <2>1. req \in Request
    BY DEF IInv, SidecarFill, TypeOK, CallsConsistent, BootPc
  <2>2. EmptySidecar(req.tid, req.dim) \in Sidecar
    BY <2>1 DEF EmptySidecar, Sidecar, Request
  <2>3. dir' \in [Dirs -> Tree]
    BY <2>1, <2>2, TreeUpdate DEF IInv, SidecarFill, TypeOK, Request
  <2>4. h' \in Handles
    BY <2>1, <2>2 DEF IInv, SidecarFill, Handle, Handles, TypeOK, Request
  <2> QED
    BY <2>3, <2>4 DEF IInv, SidecarFill, TypeOK, BootPc, CallPc
<1>2. CallsConsistent'
  BY SentinelAssumption DEF IInv, SidecarFill, EmptySidecar, Handle, TypeOK, CallsConsistent, BootPc, CallPc, Alone
<1>3. HandleDim'
  BY DEF IInv, SidecarFill, EmptySidecar, Handle, TypeOK, CallsConsistent, BootPc, CallPc, Alone, HandleDim, IndexOpens
<1>4. Creating'
  BY SentinelAssumption DEF IInv, SidecarFill, EmptySidecar, Handle, TypeOK, CallsConsistent, BootPc, CallPc, Alone, Creating
<1> QED
  BY <1>1, <1>2, <1>3, <1>4 DEF IInv

LEMMA InsertIndexIInv ==
    ASSUME IInv, NEW t \in Threads, NEW i \in Ids, InsertIndex(t, i)
    PROVE  IInv'
<1>1. TypeOK'
  <2>1. h \in Handles /\ h.dir \in Dirs /\ dir[h.dir].delta \in Vecs
    BY IndexFiles DEF IInv, InsertIndex, CanLock, CanEnter, TypeOK, HandleDim, Handles
  <2>2. dir' \in [Dirs -> Tree]
    BY <2>1, VectorUpdate DEF IInv, InsertIndex, PutVector, TypeOK
  <2> QED
    BY <2>2 DEF IInv, InsertIndex, TypeOK, BootPc, CallPc, Event
<1>2. CallsConsistent'
  BY SentinelAssumption DEF IInv, InsertIndex, CanLock, CanEnter, PutVector, Event, TypeOK, CallsConsistent, BootPc, CallPc, Alone
<1>3. HandleDim'
  <2>1. h \in Handles /\ h.dir \in Dirs /\ h # None /\ dir[h.dir].delta \in Vecs
    BY IndexFiles DEF IInv, InsertIndex, CanLock, CanEnter, TypeOK, HandleDim, Handles
  <2>2. /\ dir'[h.dir].delta \in Vecs
        /\ dir'[h.dir].graph = dir[h.dir].graph
        /\ dir'[h.dir].kind = dir[h.dir].kind
    BY <2>1 DEF IInv, InsertIndex, PutVector, TypeOK, Vecs, Tree
  <2>3. dir'[h.dir].delta \notin {NoFile, Torn}
    BY <2>2, SentinelAssumption
  <2>4. h' = h /\ \A u \in Threads : pc'[u] \notin {"sidecar", "fill"}
    BY <2>1 DEF IInv, InsertIndex, TypeOK, CallsConsistent, BootPc
  <2> QED
    BY <2>1, <2>2, <2>3, <2>4 DEF IInv, HandleDim, IndexOpens
<1>4. Creating'
  BY SentinelAssumption DEF IInv, InsertIndex, CanLock, CanEnter, PutVector, Event, TypeOK, CallsConsistent, BootPc, CallPc, Alone, Creating
<1> QED
  BY <1>1, <1>2, <1>3, <1>4 DEF IInv

LEMMA DeleteIInv ==
    ASSUME IInv, NEW t \in Threads, NEW i \in Ids, Delete(t, i)
    PROVE  IInv'
<1>1. TypeOK'
  <2>1. h \in Handles /\ h.side \in Sidecar /\ h.side.recs \in SUBSET Entry
    BY DEF IInv, Delete, CanLock, CanEnter, TypeOK, Handles, Sidecar
  <2>2. h' \in Handles
    BY <2>1, SidecarUpdate DEF Delete, Without
  <2>3. ev' \in [Threads -> Event \cup {None}]
    BY <2>1 DEF IInv, Delete, TypeOK, Event, Entry
  <2> QED
    BY <2>2, <2>3 DEF IInv, Delete, TypeOK, BootPc, CallPc
<1>2. CallsConsistent'
  BY SentinelAssumption DEF IInv, Delete, CanLock, CanEnter, Without, Event, Entry, Sidecar, Handles, TypeOK, CallsConsistent, BootPc, CallPc, Alone
<1>3. HandleDim'
  BY DEF IInv, Delete, CanLock, CanEnter, Without, Event, Entry, Sidecar, Handles, TypeOK, CallsConsistent, BootPc, CallPc, Alone, HandleDim, IndexOpens
<1>4. Creating'
  BY SentinelAssumption DEF IInv, Delete, CanLock, CanEnter, Without, Event, Entry, Sidecar, Handles, TypeOK, CallsConsistent, BootPc, CallPc, Alone, Creating
<1> QED
  BY <1>1, <1>2, <1>3, <1>4 DEF IInv

LEMMA InsertSidecarIInv ==
    ASSUME IInv, NEW t \in Threads, InsertSidecar(t)
    PROVE  IInv'
<1>1. TypeOK'
  <2>1. h \in Handles /\ h.side.recs \in SUBSET Entry /\ ev[t] \in Event
    BY DEF IInv, InsertSidecar, TypeOK, CallsConsistent, CallPc, Handles, Sidecar
  <2>2. Upsert(h.side.recs, [id |-> ev[t].id, ver |-> ev[t].ver]) \in SUBSET Entry
    BY <2>1 DEF Upsert, Entry, Event
  <2>3. h' \in Handles
    BY <2>1, <2>2, SidecarUpdate DEF InsertSidecar
  <2> QED
    BY <2>3 DEF IInv, InsertSidecar, TypeOK, BootPc, CallPc
<1>2. CallsConsistent'
  BY SentinelAssumption DEF IInv, InsertSidecar, Upsert, Entry, Sidecar, Handles, Event, TypeOK, CallsConsistent, BootPc, CallPc, Alone
<1>3. HandleDim'
  BY DEF IInv, InsertSidecar, Upsert, Entry, Sidecar, Handles, Event, TypeOK, CallsConsistent, BootPc, CallPc, Alone, HandleDim, IndexOpens
<1>4. Creating'
  BY SentinelAssumption DEF IInv, InsertSidecar, Upsert, Entry, Sidecar, Handles, Event, TypeOK, CallsConsistent, BootPc, CallPc, Alone, Creating
<1> QED
  BY <1>1, <1>2, <1>3, <1>4 DEF IInv

LEMMA ConsolidateIInv ==
    ASSUME IInv, NEW t \in Threads, Consolidate(t)
    PROVE  IInv'
<1>1. TypeOK'
  <2>1. h.dir \in Dirs /\ IndexOpens(h.dir)
    BY DEF IInv, Consolidate, CanLock, CanEnter, TypeOK, HandleDim, Handles
  <2>2. dir[h.dir].graph \in Graph /\ Index(h.dir) \in Vecs /\ NoVecs \in Vecs
    BY <2>1, IndexFiles DEF IInv, TypeOK, NoVecs, Vecs
  <2> DEFINE dir1 == [dir EXCEPT ![h.dir].graph.vec = Index(h.dir)]
  <2>3. dir1 \in [Dirs -> Tree]
    <3>1. [dir[h.dir].graph EXCEPT !.vec = Index(h.dir)] \in Graph
      BY <2>2 DEF Graph
    <3>2. dir1 = [dir EXCEPT ![h.dir].graph = [dir[h.dir].graph EXCEPT !.vec = Index(h.dir)]]
      OBVIOUS
    <3> QED
      BY <2>1, <3>1, <3>2, TreeUpdate DEF IInv, TypeOK
  <2>4. [dir1 EXCEPT ![h.dir].delta = NoVecs] \in [Dirs -> Tree]
    BY <2>1, <2>2, <2>3 DEF Tree
  <2>5. dir' = [dir1 EXCEPT ![h.dir].delta = NoVecs]
    BY DEF Consolidate
  <2> QED
    BY <2>4, <2>5 DEF IInv, Consolidate, TypeOK, BootPc, CallPc
<1>2. CallsConsistent'
  BY SentinelAssumption DEF IInv, Consolidate, CanLock, CanEnter, TypeOK, CallsConsistent, BootPc, CallPc, Alone
<1>3. HandleDim'
  <2>1. h # None /\ h.dir \in Dirs /\ IndexOpens(h.dir)
    BY DEF IInv, Consolidate, CanLock, CanEnter, TypeOK, HandleDim, Handles
  <2>2. dir[h.dir].graph \in Graph /\ Index(h.dir) \in Vecs /\ NoVecs \in Vecs
    BY <2>1, IndexFiles DEF IInv, TypeOK, NoVecs, Vecs
  <2>3. /\ dir'[h.dir].graph = [dir[h.dir].graph EXCEPT !.vec = Index(h.dir)]
        /\ dir'[h.dir].delta = NoVecs
        /\ dir'[h.dir].kind = dir[h.dir].kind
    BY <2>1 DEF IInv, Consolidate, TypeOK, Tree
  <2>4. /\ dir'[h.dir].graph \in Graph
        /\ dir'[h.dir].graph.dim = dir[h.dir].graph.dim
    BY <2>2, <2>3 DEF Graph
  <2>5. dir'[h.dir].graph \notin {NoFile, Torn} /\ dir'[h.dir].delta \notin {NoFile, Torn}
    BY <2>2, <2>3, <2>4, SentinelAssumption
  <2>6. h' = h /\ \A u \in Threads : pc'[u] \notin {"sidecar", "fill"}
    BY <2>1 DEF IInv, Consolidate, TypeOK, CallsConsistent, BootPc
  <2> QED
    BY <2>1, <2>3, <2>4, <2>5, <2>6 DEF IInv, HandleDim, IndexOpens
<1>4. Creating'
  BY SentinelAssumption DEF IInv, Consolidate, CanLock, CanEnter, TypeOK, CallsConsistent, BootPc, CallPc, Alone, Creating
<1> QED
  BY <1>1, <1>2, <1>3, <1>4 DEF IInv

LEMMA FlushIInv ==
    ASSUME IInv, NEW t \in Threads, Flush(t)
    PROVE  IInv'
<1>1. TypeOK'
  BY TreeUpdate DEF IInv, Flush, TruncateSidecar, CanLock, CanEnter, Handles, TypeOK, BootPc, CallPc
<1>2. CallsConsistent'
  BY SentinelAssumption DEF IInv, Flush, TruncateSidecar, CanLock, CanEnter, TypeOK, CallsConsistent, BootPc, CallPc, Alone
<1>3. HandleDim'
  BY DEF IInv, Flush, TruncateSidecar, CanLock, CanEnter, TypeOK, CallsConsistent, BootPc, CallPc, Alone, HandleDim, IndexOpens
<1>4. Creating'
  BY SentinelAssumption DEF IInv, Flush, TruncateSidecar, CanLock, CanEnter, TypeOK, CallsConsistent, BootPc, CallPc, Alone, Creating
<1> QED
  BY <1>1, <1>2, <1>3, <1>4 DEF IInv

LEMMA FlushFillIInv ==
    ASSUME IInv, NEW t \in Threads, FlushFill(t)
    PROVE  IInv'
<1>1. TypeOK'
  BY TreeUpdate DEF IInv, FlushFill, Handles, Sidecar, CallsConsistent, TypeOK, BootPc, CallPc
<1>2. CallsConsistent'
  BY SentinelAssumption DEF IInv, FlushFill, TypeOK, CallsConsistent, BootPc, CallPc, Alone
<1>3. HandleDim'
  BY DEF IInv, FlushFill, TypeOK, CallsConsistent, BootPc, CallPc, Alone, HandleDim, IndexOpens
<1>4. Creating'
  BY SentinelAssumption DEF IInv, FlushFill, TypeOK, CallsConsistent, BootPc, CallPc, Alone, Creating
<1> QED
  BY <1>1, <1>2, <1>3, <1>4 DEF IInv

LEMMA FlushErrorIInv ==
    ASSUME IInv, NEW t \in Threads, FlushError(t)
    PROVE  IInv'
<1>1. TypeOK'
  BY TreeUpdate DEF IInv, FlushError, TypeOK, BootPc, CallPc
<1>2. CallsConsistent'
  BY SentinelAssumption DEF IInv, FlushError, TypeOK, CallsConsistent, BootPc, CallPc, Alone
<1>3. HandleDim'
  BY DEF IInv, FlushError, TypeOK, CallsConsistent, BootPc, CallPc, Alone, HandleDim, IndexOpens
<1>4. Creating'
  BY SentinelAssumption DEF IInv, FlushError, TypeOK, CallsConsistent, BootPc, CallPc, Alone, Creating
<1> QED
  BY <1>1, <1>2, <1>3, <1>4 DEF IInv

LEMMA SnapshotIInv ==
    ASSUME IInv, NEW t \in Threads, NEW d \in Dirs, SnapshotElsewhere(t, d)
    PROVE  IInv'
<1>1. TypeOK'
  BY TreeUpdate DEF IInv, SnapshotElsewhere, Snapshot, TruncateSidecar, CopyOf, Copy, CanLock, CanEnter, Handles, TypeOK, BootPc, CallPc
<1>2. CallsConsistent'
  BY SentinelAssumption DEF IInv, SnapshotElsewhere, Snapshot, TruncateSidecar, CopyOf, Copy, CanLock, CanEnter, TypeOK, CallsConsistent, BootPc, CallPc, Alone
<1>3. HandleDim'
  BY DEF IInv, SnapshotElsewhere, Snapshot, TruncateSidecar, CopyOf, Copy, CanLock, CanEnter, TypeOK, CallsConsistent, BootPc, CallPc, Alone, HandleDim, IndexOpens
<1>4. Creating'
  BY SentinelAssumption DEF IInv, SnapshotElsewhere, Snapshot, TruncateSidecar, CopyOf, Copy, CanLock, CanEnter, TypeOK, CallsConsistent, BootPc, CallPc, Alone, Creating
<1> QED
  BY <1>1, <1>2, <1>3, <1>4 DEF IInv

LEMMA RestoreFromIInv ==
    ASSUME IInv, NEW t \in Threads, NEW s \in Dirs, NEW d \in Dirs, RestoreFrom(t, s, d)
    PROVE  IInv'
<1>1. TypeOK'
  BY TreeUpdate DEF IInv, RestoreFrom, CopyOf, Copy, TypeOK, BootPc, CallPc
<1>2. CallsConsistent'
  BY SentinelAssumption DEF IInv, RestoreFrom, CopyOf, Copy, TypeOK, CallsConsistent, BootPc, CallPc, Alone
<1>3. HandleDim'
  BY DEF IInv, RestoreFrom, CopyOf, Copy, TypeOK, CallsConsistent, BootPc, CallPc, Alone, HandleDim, IndexOpens
<1>4. Creating'
  BY SentinelAssumption DEF IInv, RestoreFrom, CopyOf, Copy, TypeOK, CallsConsistent, BootPc, CallPc, Alone, Creating
<1> QED
  BY <1>1, <1>2, <1>3, <1>4 DEF IInv

LEMMA CopyFileIInv ==
    ASSUME IInv, NEW t \in Threads, NEW f \in Files, CopyFile(t, f)
    PROVE  IInv'
<1>1. TypeOK'
  <2>1. cp[t] \in Copy
    BY DEF IInv, CopyFile, Copied, TypeOK, CallsConsistent
  <2>2. dir' \in [Dirs -> Tree]
    BY <2>1, FileCopy DEF IInv, CopyFile, Copied, TypeOK, Copy
  <2> QED
    BY <2>1, <2>2 DEF IInv, CopyFile, Copied, TypeOK, BootPc, CallPc, Copy
<1>2. CallsConsistent'
  BY SentinelAssumption DEF IInv, CopyFile, Copied, Copy, TypeOK, CallsConsistent, BootPc, CallPc, Alone
<1>3. HandleDim'
  <2>1. h' = h /\ req' = req /\ pc' = pc /\ pc[t] \in {"copy", "restore"} /\ cp[t] \in Copy
    BY DEF IInv, CopyFile, Copied, TypeOK, CallsConsistent
  <2>2. h # None => h.dir # cp[t].dst
    BY <2>1 DEF IInv, CallsConsistent, CallPc
  <2>3. \A d \in Dirs : d # cp[t].dst => dir'[d] = dir[d]
    BY <2>1 DEF IInv, TypeOK, CopyFile, Copied, Copy
  <2>4. \A u \in Threads : pc[u] \notin BootPc
    BY <2>1 DEF IInv, CallsConsistent, BootPc
  <2> QED
    BY <2>1, <2>2, <2>3, <2>4 DEF IInv, TypeOK, HandleDim, IndexOpens, Handles, BootPc
<1>4. Creating'
  BY SentinelAssumption DEF IInv, CopyFile, Copied, Copy, TypeOK, CallsConsistent, BootPc, CallPc, Alone, Creating
<1> QED
  BY <1>1, <1>2, <1>3, <1>4 DEF IInv

LEMMA CopyErrorIInv ==
    ASSUME IInv, NEW t \in Threads, NEW f \in Files, CopyError(t, f)
    PROVE  IInv'
<1>1. TypeOK'
  <2>1. cp[t] \in Copy
    BY DEF IInv, CopyError, TypeOK, CallsConsistent
  <2>2. dir' \in [Dirs -> Tree]
    BY <2>1, FileCut DEF IInv, CopyError, CutCopy, TypeOK, Copy
  <2> QED
    BY <2>1, <2>2 DEF IInv, CopyError, TypeOK, BootPc, CallPc
<1>2. CallsConsistent'
  BY SentinelAssumption DEF IInv, CopyError, CutCopy, Copy, TypeOK, CallsConsistent, BootPc, CallPc, Alone
<1>3. HandleDim'
  BY DEF IInv, CopyError, CutCopy, Copy, TypeOK, CallsConsistent, BootPc, CallPc, Alone, HandleDim, IndexOpens
<1>4. Creating'
  BY SentinelAssumption DEF IInv, CopyError, CutCopy, Copy, TypeOK, CallsConsistent, BootPc, CallPc, Alone, Creating
<1> QED
  BY <1>1, <1>2, <1>3, <1>4 DEF IInv

LEMMA RemoveFileIInv ==
    ASSUME IInv, NEW t \in Threads, NEW f \in Files, RemoveFile(t, f)
    PROVE  IInv'
<1>1. TypeOK'
  <2>1. req \in Request
    BY DEF IInv, RemoveFile, TypeOK, CallsConsistent, BootPc
  <2>2. dir' \in [Dirs -> Tree]
    BY <2>1, FileCut DEF IInv, RemoveFile, TypeOK, Request
  <2> QED
    BY <2>2 DEF IInv, RemoveFile, TypeOK, BootPc, CallPc
<1>2. CallsConsistent'
  BY SentinelAssumption DEF IInv, RemoveFile, TypeOK, CallsConsistent, BootPc, CallPc, Alone
<1>3. HandleDim'
  BY DEF IInv, RemoveFile, TypeOK, CallsConsistent, BootPc, CallPc, Alone, HandleDim, IndexOpens
<1>4. Creating'
  BY SentinelAssumption DEF IInv, RemoveFile, TypeOK, CallsConsistent, BootPc, CallPc, Alone, Creating
<1> QED
  BY <1>1, <1>2, <1>3, <1>4 DEF IInv

LEMMA SnapshotDoneIInv ==
    ASSUME IInv, NEW t \in Threads, SnapshotDone(t)
    PROVE  IInv'
<1>1. TypeOK'
  BY TreeUpdate DEF IInv, SnapshotDone, Readable, CallsConsistent, Copy, Tree, Sidecar, TypeOK, BootPc, CallPc
<1>2. CallsConsistent'
  BY SentinelAssumption DEF IInv, SnapshotDone, TypeOK, CallsConsistent, BootPc, CallPc, Alone
<1>3. HandleDim'
  BY DEF IInv, SnapshotDone, TypeOK, CallsConsistent, BootPc, CallPc, Alone, HandleDim, IndexOpens
<1>4. Creating'
  BY SentinelAssumption DEF IInv, SnapshotDone, TypeOK, CallsConsistent, BootPc, CallPc, Alone, Creating
<1> QED
  BY <1>1, <1>2, <1>3, <1>4 DEF IInv

LEMMA RestoreOpenIInv ==
    ASSUME IInv, NEW t \in Threads, RestoreOpen(t)
    PROVE  IInv'
<1>1. TypeOK'
  <2>1. cp[t] \in Copy /\ dir[cp[t].dst].meta \in Sidecar \cup {NoFile, Torn}
    BY DEF IInv, RestoreOpen, TypeOK, CallsConsistent, Copy, Tree
  <2>2. CASE Readable(cp[t].dst) /\ IndexOfDim(cp[t].dst, dir[cp[t].dst].meta.dim)
    <3>1. dir[cp[t].dst].meta \in Sidecar
      BY <2>1, <2>2 DEF Readable
    <3>2. h' \in Handles
      BY <2>1, <2>2, <3>1 DEF IInv, TypeOK, RestoreOpen, Handle, Handles, Sidecar, Copy
    <3>3. saved' \in [Dirs -> SUBSET Entry]
      BY <2>1, <2>2, <3>1 DEF IInv, TypeOK, RestoreOpen, Sidecar, Copy
    <3> QED
      BY <3>2, <3>3 DEF IInv, RestoreOpen, TypeOK, BootPc, CallPc
  <2>3. CASE ~(Readable(cp[t].dst) /\ IndexOfDim(cp[t].dst, dir[cp[t].dst].meta.dim))
    BY <2>3 DEF IInv, RestoreOpen, TypeOK, BootPc, CallPc
  <2> QED
    BY <2>2, <2>3
<1>2. CallsConsistent'
  BY SentinelAssumption DEF IInv, RestoreOpen, Readable, IndexOfDim, Handle, TypeOK, CallsConsistent, BootPc, CallPc, Alone
<1>3. HandleDim'
  BY DEF IInv, RestoreOpen, Readable, IndexOfDim, Handle, TypeOK, CallsConsistent, BootPc, CallPc, Alone, HandleDim, IndexOpens
<1>4. Creating'
  BY SentinelAssumption DEF IInv, RestoreOpen, Readable, IndexOfDim, Handle, TypeOK, CallsConsistent, BootPc, CallPc, Alone, Creating
<1> QED
  BY <1>1, <1>2, <1>3, <1>4 DEF IInv

LEMMA DestroyIInv ==
    ASSUME IInv, NEW t \in Threads, Destroy(t)
    PROVE  IInv'
<1>1. TypeOK'
  BY TreeUpdate DEF IInv, Destroy, Request, Handles, Sidecar, TypeOK, BootPc, CallPc
<1>2. CallsConsistent'
  BY SentinelAssumption DEF IInv, Destroy, Request, Handles, Sidecar, TypeOK, CallsConsistent, BootPc, CallPc, Alone
<1>3. HandleDim'
  BY DEF IInv, Destroy, Request, Handles, Sidecar, TypeOK, CallsConsistent, BootPc, CallPc, Alone, HandleDim, IndexOpens
<1>4. Creating'
  BY SentinelAssumption DEF IInv, Destroy, Request, Handles, Sidecar, TypeOK, CallsConsistent, BootPc, CallPc, Alone, Creating
<1> QED
  BY <1>1, <1>2, <1>3, <1>4 DEF IInv

LEMMA DestroyDoneIInv ==
    ASSUME IInv, NEW t \in Threads, DestroyDone(t)
    PROVE  IInv'
<1>1. TypeOK'
  BY TreeUpdate DEF IInv, DestroyDone, TypeOK, BootPc, CallPc
<1>2. CallsConsistent'
  BY SentinelAssumption DEF IInv, DestroyDone, TypeOK, CallsConsistent, BootPc, CallPc, Alone
<1>3. HandleDim'
  BY DEF IInv, DestroyDone, TypeOK, CallsConsistent, BootPc, CallPc, Alone, HandleDim, IndexOpens
<1>4. Creating'
  BY SentinelAssumption DEF IInv, DestroyDone, TypeOK, CallsConsistent, BootPc, CallPc, Alone, Creating
<1> QED
  BY <1>1, <1>2, <1>3, <1>4 DEF IInv

LEMMA EmitDoneIInv ==
    ASSUME IInv, NEW t \in Threads, EmitDone(t)
    PROVE  IInv'
<1>1. TypeOK'
  BY TreeUpdate DEF IInv, EmitDone, TypeOK, BootPc, CallPc
<1>2. CallsConsistent'
  BY SentinelAssumption DEF IInv, EmitDone, TypeOK, CallsConsistent, BootPc, CallPc, Alone
<1>3. HandleDim'
  BY DEF IInv, EmitDone, TypeOK, CallsConsistent, BootPc, CallPc, Alone, HandleDim, IndexOpens
<1>4. Creating'
  BY SentinelAssumption DEF IInv, EmitDone, TypeOK, CallsConsistent, BootPc, CallPc, Alone, Creating
<1> QED
  BY <1>1, <1>2, <1>3, <1>4 DEF IInv

LEMMA CloseIInv ==
    ASSUME IInv, Close
    PROVE  IInv'
<1>1. TypeOK'
  BY DEF IInv, Close, TypeOK
<1>2. CallsConsistent'
  BY SentinelAssumption DEF IInv, Close, TypeOK, CallsConsistent, BootPc, CallPc, Alone
<1>3. HandleDim' /\ Creating'
  BY DEF IInv, Close, TypeOK, CallsConsistent, BootPc, CallPc, Alone, HandleDim, Creating, IndexOpens
<1> QED
  BY <1>1, <1>2, <1>3 DEF IInv

LEMMA CrashIInv ==
    ASSUME IInv, Crash
    PROVE  IInv'
<1>1. TypeOK'
  <2>1. dir' \in [Dirs -> Tree]
    <3>1. CASE UNCHANGED dir
      BY <3>1 DEF IInv, TypeOK
    <3>2. ASSUME NEW t \in Threads, NEW f \in Files,
                 pc[t] \in {"copy", "restore"}, CutCopy(t, f)
          PROVE  dir' \in [Dirs -> Tree]
      <4>1. cp[t] \in Copy
        BY <3>2 DEF IInv, TypeOK, CallsConsistent
      <4> QED
        BY <3>2, <4>1, FileCut DEF IInv, CutCopy, TypeOK, Copy
    <3> QED
      BY <3>1, <3>2 DEF Crash
  <2> QED
    BY <2>1 DEF IInv, Crash, TypeOK
<1>2. CallsConsistent'
  BY SentinelAssumption DEF IInv, Crash, CutCopy, TypeOK, CallsConsistent, BootPc, CallPc, Alone
<1>3. HandleDim' /\ Creating'
  BY DEF IInv, Crash, CutCopy, TypeOK, CallsConsistent, BootPc, CallPc, Alone, HandleDim, Creating, IndexOpens
<1> QED
  BY <1>1, <1>2, <1>3 DEF IInv

\* The three steps of a reader process touch nothing but the reader's view.
LEMMA OpenReadonlyIInv ==
    ASSUME IInv, NEW r \in Readers, OpenReadonly(r)
    PROVE  IInv'
<1>1. UNCHANGED <<dir, h, lock, pc, ev, cp, req, nextVer, saved>>
  BY DEF OpenReadonly, ReadSidecar, ReadIndex, CloseView
<1>2. ro' \in [Readers -> View]
  <2>1. CASE \E d \in Dirs : ReadSidecar(r, d)
    BY <2>1 DEF IInv, TypeOK, ReadSidecar, Readable, Tree, View
  <2>2. CASE ReadIndex(r)
    <3> DEFINE d == ro[r].dir
    <3>1. d \in Dirs /\ ro[r].side \in Sidecar
      BY <2>2 DEF IInv, TypeOK, ReadIndex, View
    <3>2. IndexOfDim(d, ro[r].side.dim) => Index(d) \in Vecs
      BY <3>1, IndexFiles DEF IInv, TypeOK, IndexOfDim
    <3>3. (IF IndexOfDim(d, ro[r].side.dim)
           THEN [pc |-> "view", dir |-> d, side |-> ro[r].side, vec |-> Index(d)]
           ELSE [pc |-> "idle"]) \in View
      BY <3>1, <3>2 DEF View
    <3> QED
      BY <2>2, <3>3 DEF IInv, TypeOK, ReadIndex
  <2>3. CASE CloseView(r)
    BY <2>3 DEF IInv, TypeOK, CloseView, View
  <2> QED
    BY <2>1, <2>2, <2>3 DEF OpenReadonly
<1> QED
  BY <1>1, <1>2 DEF IInv, TypeOK, CallsConsistent, HandleDim, Creating, IndexOpens

-----------------------------------------------------------------------------

\* A step of any thread keeps the invariant.
LEMMA ThreadStepIInv ==
    ASSUME IInv, NEW t \in Threads,
           Boot(t) \/ Mutate(t) \/ Persist(t) \/ Lifecycle(t) \/ EmitDone(t)
    PROVE  IInv'
<1>1. CASE Boot(t)
  BY <1>1, OpenExistingIInv, OpenAdoptIInv, OpenCreateIInv, CreateIndexIInv,
     SidecarTruncateIInv, SidecarFillIInv DEF Boot, Open, CreateNew
<1>2. CASE Mutate(t)
  BY <1>2, InsertIndexIInv, DeleteIInv, InsertSidecarIInv, ConsolidateIInv DEF Mutate
<1>3. CASE Persist(t)
  BY <1>3, FlushIInv, FlushFillIInv, FlushErrorIInv DEF Persist
<1>4. CASE Lifecycle(t)
  BY <1>4, SnapshotIInv, RestoreFromIInv, CopyFileIInv, CopyErrorIInv, RemoveFileIInv,
     SnapshotDoneIInv, RestoreOpenIInv, DestroyIInv, DestroyDoneIInv DEF Lifecycle
<1>5. CASE EmitDone(t)
  BY <1>5, EmitDoneIInv
<1> QED
  BY <1>1, <1>2, <1>3, <1>4, <1>5

\* The invariant is inductive.
LEMMA StepIInv == IInv /\ [Next]_vars => IInv'
<1> SUFFICES ASSUME IInv, [Next]_vars PROVE IInv'
  OBVIOUS
<1>1. CASE Next
  BY <1>1, ThreadStepIInv, OpenReadonlyIInv, CloseIInv, CrashIInv DEF Next, SilentNext
<1>2. CASE UNCHANGED vars
  BY <1>2 DEF vars, IInv, TypeOK, CallsConsistent, HandleDim, Creating, IndexOpens
<1> QED
  BY <1>1, <1>2

\* The invariant holds in every reachable state.
LEMMA Inductive == Spec => []IInv
BY InitIInv, StepIInv, PTL DEF Spec

\* Types of the file tree, the handle, the calls in progress and the views of
\* the readers (tenant.rs:85-100), whatever crashes and failures cut short.
THEOREM TypeCorrect == Spec => []TypeOK
<1>1. IInv => TypeOK
  BY DEF IInv
<1> QED
  BY <1>1, Inductive, PTL

\* The locking discipline of the calls on one handle (tenant.rs:243-261,
\* 300-308, 446-460), for any number of threads.
THEOREM CallsAreConsistent == Spec => []CallsConsistent
<1>1. IInv => CallsConsistent
  BY DEF IInv
<1> QED
  BY <1>1, Inductive, PTL

\* A handle is never open on an index of another dimension or on a damaged
\* one (tenant.rs:135-168), whatever happened to the directory before.
THEOREM HandleMatchesIndex == Spec => []HandleDim
<1>1. IInv => HandleDim
  BY DEF IInv
<1> QED
  BY <1>1, Inductive, PTL
-----------------------------------------------------------------------------
(***************************************************************************)
(* The second layer, for every value of the constants again: an id         *)
(* has one entry in every sidecar, a flushed sidecar stays what the flush  *)
(* wrote or is cut, and records inserted through the open handle keep the  *)
(* vector of their own insert while the lock is free.                      *)
(*                                                                         *)
(* None of the three is inductive alone.  Each lemma shows that one action *)
(* preserves their strengthening; IInv says where the calls are and that   *)
(* the index of the handle opens.                                          *)
(***************************************************************************)

Below(recs) == \A e \in recs : e.ver < nextVer

\* A call that is creating or destroying a tenant works on a directory in
\* which nothing counts as flushed.
Flushed ==
    /\ FlushedOrTorn
    /\ \A t \in Threads : pc[t] \in BootPc => saved[req.dir] = {}

\* No sidecar holds a version that insert has not given out yet: what an open
\* reads is older than everything inserted through the new handle.
Versions ==
    /\ nextVer > 0
    /\ h # None => Below(h.side.recs)
    /\ \A d \in Dirs : Readable(d) => Below(dir[d].meta.recs)

\* NoTearWithinSession without its guard: a record of this session has its own
\* vector, or an insert of its id is between its two writes.
Session ==
    /\ \A t \in Threads : pc[t] = "indexed" =>
           ev[t].ver = Index(h.dir)[ev[t].id] /\ ev[t].ver < nextVer
    /\ h # None => \A e \in h.side.recs : e.ver >= h.since =>
           \/ Index(h.dir)[e.id] = e.ver
           \/ \E t \in Threads : pc[t] = "indexed" /\ ev[t].id = e.id

\* A step that leaves the open handle, its index and the inserts in progress
\* alone keeps Session.
LEMMA SessionKept ==
    ASSUME CallsConsistent, Session, UNCHANGED <<h, ev, nextVer>>,
           \A u \in Threads : pc'[u] = "indexed" <=> pc[u] = "indexed",
           h # None => /\ dir'[h.dir].kind = dir[h.dir].kind
                       /\ dir'[h.dir].graph = dir[h.dir].graph
                       /\ dir'[h.dir].delta = dir[h.dir].delta
    PROVE  Session'
<1>1. \A u \in Threads : pc[u] = "indexed" => h # None
  BY DEF CallsConsistent, CallPc
<1>2. h # None => Index(h.dir)' = Index(h.dir)
  BY DEF Index, IndexOpens
<1> QED
  BY <1>1, <1>2 DEF Session

\* A step that gives a directory no sidecar but one that was in some directory
\* keeps what is said of all sidecars.
LEMMA SidecarsKept ==
    ASSUME OneEntryPerId, Versions, UNCHANGED <<h, ro, nextVer>>,
           \A d \in Dirs : dir'[d].meta \in {NoFile, Torn} \/
               \E s \in Dirs : dir'[d].meta = dir[s].meta
    PROVE  OneEntryPerId' /\ Versions'
<1>1. \A d \in Dirs : Readable(d)' => \E s \in Dirs : Readable(s) /\ dir'[d].meta = dir[s].meta
  BY DEF Readable
<1>2. OneEntryPerId'
  BY <1>1 DEF OneEntryPerId, Unique
<1>3. Versions'
  BY <1>1 DEF Versions, Below
<1> QED
  BY <1>2, <1>3

\* Where a call that copies writes, and where it does not.
LEMMA CopyTarget ==
    ASSUME TypeOK, CallsConsistent, NEW t \in Threads, pc[t] \in {"copy", "restore"}
    PROVE  /\ cp[t] \in Copy /\ cp[t].src \in Dirs /\ cp[t].dst \in Dirs
           /\ h # None => h \in Handles /\ h.dir \in Dirs /\ h.dir # cp[t].dst
BY DEF TypeOK, CallsConsistent, CallPc, BootPc, Copy, Handles

\* One lemma per action: each keeps the four parts, given the types.
LEMMA OpenExistingSafe ==
    ASSUME IInv, IInv', OneEntryPerId, Flushed, Versions, Session, NEW t \in Threads, NEW d \in Dirs, NEW tid \in Tids, NEW dim \in Dims, OpenExisting(t, d, tid, dim)
    PROVE  OneEntryPerId' /\ Flushed' /\ Versions' /\ Session'
<1> USE DEF IInv, TypeOK, OpenExisting, IndexOfDim, Readable, Handle, MetaMissing
<1>1. OneEntryPerId'
  BY SentinelAssumption DEF OneEntryPerId, Unique, Readable, CallsConsistent, BootPc, CallPc, Handles, Request, Copy
<1>2. Flushed'
  BY SentinelAssumption DEF Flushed, FlushedOrTorn, Readable, CallsConsistent, BootPc, CallPc, Alone, Handles, Request, Copy
<1>3. Versions'
  BY SentinelAssumption DEF Versions, Below, Readable, CallsConsistent, BootPc, CallPc, Handles, Request, Copy, Sidecar, Entry, Event
<1>4. Session'
  <2>1. dir[d].meta \in Sidecar
    BY DEF Tree
  <2>2. \A e \in dir[d].meta.recs : e.ver \in Nat /\ e.ver < nextVer
    BY <2>1 DEF Versions, Below, Sidecar, Entry
  <2>3. \A u \in Threads : pc'[u] # "indexed"
    BY DEF CallsConsistent, BootPc, Alone
  <2> QED
    BY <2>2, <2>3 DEF Session, CallsConsistent
<1> QED
  BY <1>1, <1>2, <1>3, <1>4

LEMMA OpenAdoptSafe ==
    ASSUME IInv, IInv', OneEntryPerId, Flushed, Versions, Session, NEW t \in Threads, NEW d \in Dirs, NEW tid \in Tids, NEW dim \in Dims, OpenAdopt(t, d, tid, dim)
    PROVE  OneEntryPerId' /\ Flushed' /\ Versions' /\ Session'
<1> USE DEF IInv, TypeOK, OpenAdopt, IndexOfDim, MetaMissing
<1>1. OneEntryPerId'
  BY SentinelAssumption DEF OneEntryPerId, Unique, Readable, CallsConsistent, BootPc, CallPc, Handles, Request, Copy
<1>2. Flushed'
  BY SentinelAssumption DEF Flushed, FlushedOrTorn, Readable, CallsConsistent, BootPc, CallPc, Alone, Handles, Request, Copy
<1>3. Versions'
  BY SentinelAssumption DEF Versions, Below, Readable, CallsConsistent, BootPc, CallPc, Handles, Request, Copy, Sidecar, Entry, Event
<1>4. Session'
  BY DEF Session, Index, IndexOpens, CallsConsistent, BootPc, CallPc, Alone, Handles, Copy
<1> QED
  BY <1>1, <1>2, <1>3, <1>4

LEMMA OpenCreateSafe ==
    ASSUME IInv, IInv', OneEntryPerId, Flushed, Versions, Session, NEW t \in Threads, NEW d \in Dirs, NEW tid \in Tids, NEW dim \in Dims, OpenCreate(t, d, tid, dim)
    PROVE  OneEntryPerId' /\ Flushed' /\ Versions' /\ Session'
<1> USE DEF IInv, TypeOK, OpenCreate, MetaMissing
<1>1. OneEntryPerId'
  BY SentinelAssumption DEF OneEntryPerId, Unique, Readable, CallsConsistent, BootPc, CallPc, Handles, Request, Copy
<1>2. Flushed'
  BY SentinelAssumption DEF Flushed, FlushedOrTorn, Readable, CallsConsistent, BootPc, CallPc, Alone, Handles, Request, Copy
<1>3. Versions'
  BY SentinelAssumption DEF Versions, Below, Readable, CallsConsistent, BootPc, CallPc, Handles, Request, Copy, Sidecar, Entry, Event
<1>4. Session'
  BY DEF Session, Index, IndexOpens, CallsConsistent, BootPc, CallPc, Alone, Handles, Copy
<1> QED
  BY <1>1, <1>2, <1>3, <1>4

LEMMA CreateIndexSafe ==
    ASSUME IInv, IInv', OneEntryPerId, Flushed, Versions, Session, NEW t \in Threads, CreateIndex(t)
    PROVE  OneEntryPerId' /\ Flushed' /\ Versions' /\ Session'
<1> USE DEF IInv, TypeOK, CreateIndex
<1>1. OneEntryPerId'
  BY SentinelAssumption DEF OneEntryPerId, Unique, Readable, CallsConsistent, BootPc, CallPc, Handles, Request, Copy
<1>2. Flushed'
  BY SentinelAssumption DEF Flushed, FlushedOrTorn, Readable, CallsConsistent, BootPc, CallPc, Alone, Handles, Request, Copy
<1>3. Versions'
  BY SentinelAssumption DEF Versions, Below, Readable, CallsConsistent, BootPc, CallPc, Handles, Request, Copy, Sidecar, Entry, Event
<1>4. Session'
  BY DEF Session, Index, IndexOpens, CallsConsistent, BootPc, CallPc, Alone, Handles, Copy
<1> QED
  BY <1>1, <1>2, <1>3, <1>4

LEMMA SidecarTruncateSafe ==
    ASSUME IInv, IInv', OneEntryPerId, Flushed, Versions, Session, NEW t \in Threads, SidecarTruncate(t)
    PROVE  OneEntryPerId' /\ Flushed' /\ Versions' /\ Session'
<1> USE DEF IInv, TypeOK, SidecarTruncate
<1>1. OneEntryPerId'
  BY SentinelAssumption DEF OneEntryPerId, Unique, Readable, CallsConsistent, BootPc, CallPc, Handles, Request, Copy
<1>2. Flushed'
  BY SentinelAssumption DEF Flushed, FlushedOrTorn, Readable, CallsConsistent, BootPc, CallPc, Alone, Handles, Request, Copy
<1>3. Versions'
  BY SentinelAssumption DEF Versions, Below, Readable, CallsConsistent, BootPc, CallPc, Handles, Request, Copy, Sidecar, Entry, Event
<1>4. Session'
  BY DEF Session, Index, IndexOpens, CallsConsistent, BootPc, CallPc, Alone, Handles, Copy
<1> QED
  BY <1>1, <1>2, <1>3, <1>4

LEMMA SidecarFillSafe ==
    ASSUME IInv, IInv', OneEntryPerId, Flushed, Versions, Session, NEW t \in Threads, SidecarFill(t)
    PROVE  OneEntryPerId' /\ Flushed' /\ Versions' /\ Session'
<1> USE DEF IInv, TypeOK, SidecarFill, EmptySidecar, Handle
<1>1. OneEntryPerId'
  BY SentinelAssumption DEF OneEntryPerId, Unique, Readable, CallsConsistent, BootPc, CallPc, Handles, Request, Copy
<1>2. Flushed'
  BY SentinelAssumption DEF Flushed, FlushedOrTorn, Readable, CallsConsistent, BootPc, CallPc, Alone, Handles, Request, Copy
<1>3. Versions'
  BY SentinelAssumption DEF Versions, Below, Readable, CallsConsistent, BootPc, CallPc, Handles, Request, Copy, Sidecar, Entry, Event
<1>4. Session'
  BY DEF Session, Index, IndexOpens, CallsConsistent, BootPc, CallPc, Alone, Handles, Copy
<1> QED
  BY <1>1, <1>2, <1>3, <1>4

LEMMA InsertIndexSafe ==
    ASSUME IInv, IInv', OneEntryPerId, Flushed, Versions, Session, NEW t \in Threads, NEW i \in Ids, InsertIndex(t, i)
    PROVE  OneEntryPerId' /\ Flushed' /\ Versions' /\ Session'
<1> USE DEF IInv, TypeOK, InsertIndex, CanLock, CanEnter, PutVector
<1>1. OneEntryPerId'
  BY SentinelAssumption DEF OneEntryPerId, Unique, Readable, CallsConsistent, BootPc, CallPc, Handles, Request, Copy
<1>2. Flushed'
  BY SentinelAssumption DEF Flushed, FlushedOrTorn, Readable, CallsConsistent, BootPc, CallPc, Alone, Handles, Request, Copy
<1>3. Versions'
  <2>1. nextVer \in Nat /\ nextVer' = nextVer + 1 /\ h' = h
    OBVIOUS
  <2>2. \A e \in Entry : e.ver < nextVer => e.ver < nextVer'
    BY <2>1 DEF Entry
  <2>3. h \in Handles /\ h.side.recs \subseteq Entry
    BY DEF Handles, Sidecar
  <2>4. \A d \in Dirs : dir'[d].meta = dir[d].meta
    BY <2>3 DEF Handles, Tree
  <2>5. \A d \in Dirs : Readable(d) => dir[d].meta.recs \subseteq Entry
    BY DEF Readable, Tree, Sidecar
  <2> QED
    BY <2>1, <2>2, <2>3, <2>4, <2>5 DEF Versions, Below, Readable
<1>4. Session'
  <2>1. h \in Handles /\ h.dir \in Dirs /\ h' = h /\ IndexOpens(h.dir)
    BY DEF Handles, HandleDim
  <2>2. /\ dir'[h.dir].graph = dir[h.dir].graph /\ dir'[h.dir].kind = dir[h.dir].kind
        /\ dir'[h.dir].delta = [dir[h.dir].delta EXCEPT ![i] = nextVer]
        /\ dir[h.dir].delta \in Vecs
    BY <2>1, IndexFiles DEF Tree
  <2>3. IndexOpens(h.dir)'
    BY <2>1 DEF HandleDim
  <2>4. Index(h.dir)'[i] = nextVer /\ \A j \in Ids \ {i} : Index(h.dir)'[j] = Index(h.dir)[j]
    BY <2>1, <2>2, <2>3 DEF Index, Merged, Vecs, Versions
  <2>5. \A u \in Threads : pc[u] # "indexed"
    BY SentinelAssumption DEF CallsConsistent
  <2>6. \A u \in Threads : pc'[u] = "indexed" => u = t /\ ev'[u].ver = nextVer /\ ev'[u].id = i
    BY <2>5
  <2>7. pc'[t] = "indexed" /\ nextVer < nextVer'
    OBVIOUS
  <2>8. \A e \in h.side.recs : e.id \in Ids
    BY <2>1 DEF Handles, Sidecar, Entry
  <2> QED
    BY <2>1, <2>4, <2>5, <2>6, <2>7, <2>8 DEF Session
<1> QED
  BY <1>1, <1>2, <1>3, <1>4

LEMMA DeleteSafe ==
    ASSUME IInv, IInv', OneEntryPerId, Flushed, Versions, Session, NEW t \in Threads, NEW i \in Ids, Delete(t, i)
    PROVE  OneEntryPerId' /\ Flushed' /\ Versions' /\ Session'
<1> USE DEF IInv, TypeOK, Delete, CanLock, CanEnter, Without
<1>1. OneEntryPerId'
  <2>1. h'.side.recs \subseteq h.side.recs
    BY DEF Handles, Sidecar
  <2> QED
    BY <2>1 DEF OneEntryPerId, Unique, Readable
<1>2. Flushed'
  BY SentinelAssumption DEF Flushed, FlushedOrTorn, Readable, CallsConsistent, BootPc, CallPc, Alone, Handles, Request, Copy
<1>3. Versions'
  BY SentinelAssumption DEF Versions, Below, Readable, CallsConsistent, BootPc, CallPc, Handles, Request, Copy, Sidecar, Entry, Event
<1>4. Session'
  <2>1. h'.side.recs \subseteq h.side.recs /\ h'.dir = h.dir /\ h'.since = h.since
    BY DEF Handles, Sidecar
  <2>2. Index(h.dir)' = Index(h.dir)
    BY <2>1 DEF Index, IndexOpens
  <2>3. \A u \in Threads : pc[u] # "indexed" /\ pc'[u] # "indexed"
    BY SentinelAssumption DEF CallsConsistent
  <2> QED
    BY <2>1, <2>2, <2>3 DEF Session
<1> QED
  BY <1>1, <1>2, <1>3, <1>4

LEMMA InsertSidecarSafe ==
    ASSUME IInv, IInv', OneEntryPerId, Flushed, Versions, Session, NEW t \in Threads, InsertSidecar(t)
    PROVE  OneEntryPerId' /\ Flushed' /\ Versions' /\ Session'
<1> USE DEF IInv, TypeOK, InsertSidecar, Upsert
<1> DEFINE new == [id |-> ev[t].id, ver |-> ev[t].ver]
<1>0. /\ h \in Handles /\ h # None /\ ev[t] \in Event
      /\ h'.side.recs = {r \in h.side.recs : r.id # new.id} \cup {new}
      /\ h'.dir = h.dir /\ h'.since = h.since
  BY DEF CallsConsistent, CallPc, Handles, Sidecar
<1>1. OneEntryPerId'
  BY <1>0 DEF OneEntryPerId, Unique, Readable
<1>2. Flushed'
  BY SentinelAssumption DEF Flushed, FlushedOrTorn, Readable, CallsConsistent, BootPc, CallPc, Alone, Handles, Request, Copy
<1>3. Versions'
  BY <1>0 DEF Versions, Below, Session, Readable
<1>4. Session'
  <2>1. Index(h.dir)' = Index(h.dir)
    BY <1>0 DEF Index, IndexOpens
  <2>2. \A u \in Threads : pc[u] = "indexed" => u = t
    BY DEF CallsConsistent
  <2>3. \A u \in Threads : pc'[u] # "indexed"
    BY <2>2
  <2>4. Index(h.dir)[new.id] = new.ver
    BY DEF Session
  <2>5. \A e \in h'.side.recs : e.ver >= h.since => Index(h.dir)[e.id] = e.ver
    BY <1>0, <2>2, <2>4 DEF Session
  <2> QED
    BY <1>0, <2>1, <2>3, <2>5 DEF Session
<1> QED
  BY <1>1, <1>2, <1>3, <1>4

LEMMA ConsolidateSafe ==
    ASSUME IInv, IInv', OneEntryPerId, Flushed, Versions, Session, NEW t \in Threads, Consolidate(t)
    PROVE  OneEntryPerId' /\ Flushed' /\ Versions' /\ Session'
<1> USE DEF IInv, TypeOK, Consolidate, CanLock, CanEnter
<1>1. OneEntryPerId' /\ Versions'
  <2>1. \A d \in Dirs : dir'[d].meta = dir[d].meta
    BY DEF Tree, Handles
  <2> QED
    BY <2>1, SidecarsKept
<1>2. Flushed'
  BY SentinelAssumption DEF Flushed, FlushedOrTorn, Readable, CallsConsistent, BootPc, CallPc, Alone, Handles, Request, Copy
<1>4. Session'
  <2>1. h \in Handles /\ h.dir \in Dirs /\ h' = h /\ IndexOpens(h.dir)
    BY DEF Handles, HandleDim
  <2>2. dir[h.dir].graph \in Graph /\ Index(h.dir) \in Vecs
    BY <2>1, IndexFiles
  <2>3. /\ dir'[h.dir].graph = [dir[h.dir].graph EXCEPT !.vec = Index(h.dir)]
        /\ dir'[h.dir].delta = NoVecs
    BY <2>1 DEF Tree
  <2>4. IndexOpens(h.dir)'
    BY <2>1 DEF HandleDim
  <2>5. \A j \in Ids : Index(h.dir)'[j] = Index(h.dir)[j]
    <3>1. Index(h.dir)' = Merged(dir'[h.dir].graph, dir'[h.dir].delta)
      BY <2>1, <2>4 DEF Index
    <3>2. dir'[h.dir].graph.vec = Index(h.dir)
      BY <2>2, <2>3 DEF Graph
    <3>3. \A j \in Ids : dir'[h.dir].delta[j] = 0
      BY <2>3 DEF NoVecs
    <3> QED
      BY <3>1, <3>2, <3>3 DEF Merged
  <2>6. /\ \A e \in h.side.recs : e.id \in Ids
        /\ \A u \in Threads : pc[u] # "indexed"
    BY <2>1, SentinelAssumption DEF Handles, Sidecar, Entry, CallsConsistent
  <2> QED
    BY <2>1, <2>5, <2>6 DEF Session
<1> QED
  BY <1>1, <1>2, <1>4

LEMMA FlushSafe ==
    ASSUME IInv, IInv', OneEntryPerId, Flushed, Versions, Session, NEW t \in Threads, Flush(t)
    PROVE  OneEntryPerId' /\ Flushed' /\ Versions' /\ Session'
<1> USE DEF IInv, TypeOK, Flush, TruncateSidecar, CanLock, CanEnter
<1>1. OneEntryPerId'
  BY SentinelAssumption DEF OneEntryPerId, Unique, Readable, CallsConsistent, BootPc, CallPc, Handles, Request, Copy
<1>2. Flushed'
  BY SentinelAssumption DEF Flushed, FlushedOrTorn, Readable, CallsConsistent, BootPc, CallPc, Alone, Handles, Request, Copy
<1>3. Versions'
  BY SentinelAssumption DEF Versions, Below, Readable, CallsConsistent, BootPc, CallPc, Handles, Request, Copy, Sidecar, Entry, Event
<1>4. Session'
  BY DEF Session, Index, IndexOpens, CallsConsistent, BootPc, CallPc, Alone, Handles, Copy
<1> QED
  BY <1>1, <1>2, <1>3, <1>4

LEMMA FlushFillSafe ==
    ASSUME IInv, IInv', OneEntryPerId, Flushed, Versions, Session, NEW t \in Threads, FlushFill(t)
    PROVE  OneEntryPerId' /\ Flushed' /\ Versions' /\ Session'
<1> USE DEF IInv, TypeOK, FlushFill
<1>1. OneEntryPerId'
  BY SentinelAssumption DEF OneEntryPerId, Unique, Readable, CallsConsistent, BootPc, CallPc, Handles, Request, Copy
<1>2. Flushed'
  BY SentinelAssumption DEF Flushed, FlushedOrTorn, Readable, CallsConsistent, BootPc, CallPc, Alone, Handles, Request, Copy
<1>3. Versions'
  BY SentinelAssumption DEF Versions, Below, Readable, CallsConsistent, BootPc, CallPc, Handles, Request, Copy, Sidecar, Entry, Event
<1>4. Session'
  BY DEF Session, Index, IndexOpens, CallsConsistent, BootPc, CallPc, Alone, Handles, Copy
<1> QED
  BY <1>1, <1>2, <1>3, <1>4

LEMMA FlushErrorSafe ==
    ASSUME IInv, IInv', OneEntryPerId, Flushed, Versions, Session, NEW t \in Threads, FlushError(t)
    PROVE  OneEntryPerId' /\ Flushed' /\ Versions' /\ Session'
<1> USE DEF IInv, TypeOK, FlushError
<1>1. OneEntryPerId'
  BY SentinelAssumption DEF OneEntryPerId, Unique, Readable, CallsConsistent, BootPc, CallPc, Handles, Request, Copy
<1>2. Flushed'
  BY SentinelAssumption DEF Flushed, FlushedOrTorn, Readable, CallsConsistent, BootPc, CallPc, Alone, Handles, Request, Copy
<1>3. Versions'
  BY SentinelAssumption DEF Versions, Below, Readable, CallsConsistent, BootPc, CallPc, Handles, Request, Copy, Sidecar, Entry, Event
<1>4. Session'
  BY DEF Session, Index, IndexOpens, CallsConsistent, BootPc, CallPc, Alone, Handles, Copy
<1> QED
  BY <1>1, <1>2, <1>3, <1>4

LEMMA SnapshotSafe ==
    ASSUME IInv, IInv', OneEntryPerId, Flushed, Versions, Session, NEW t \in Threads, NEW d \in Dirs, SnapshotElsewhere(t, d)
    PROVE  OneEntryPerId' /\ Flushed' /\ Versions' /\ Session'
<1> USE DEF IInv, TypeOK, SnapshotElsewhere, Snapshot, TruncateSidecar, CopyOf, CanLock, CanEnter
<1>1. OneEntryPerId'
  BY SentinelAssumption DEF OneEntryPerId, Unique, Readable, CallsConsistent, BootPc, CallPc, Handles, Request, Copy
<1>2. Flushed'
  BY SentinelAssumption DEF Flushed, FlushedOrTorn, Readable, CallsConsistent, BootPc, CallPc, Alone, Handles, Request, Copy
<1>3. Versions'
  BY SentinelAssumption DEF Versions, Below, Readable, CallsConsistent, BootPc, CallPc, Handles, Request, Copy, Sidecar, Entry, Event
<1>4. Session'
  <2>1. h \in Handles /\ h.dir \in Dirs
    BY DEF Handles
  <2>2. \A u \in Threads : pc'[u] = "indexed" <=> pc[u] = "indexed"
    OBVIOUS
  <2> QED
    BY <2>1, <2>2, SessionKept DEF Tree
<1> QED
  BY <1>1, <1>2, <1>3, <1>4

LEMMA RestoreFromSafe ==
    ASSUME IInv, IInv', OneEntryPerId, Flushed, Versions, Session, NEW t \in Threads, NEW s \in Dirs, NEW d \in Dirs, RestoreFrom(t, s, d)
    PROVE  OneEntryPerId' /\ Flushed' /\ Versions' /\ Session'
<1> USE DEF IInv, TypeOK, RestoreFrom, CopyOf
<1>1. OneEntryPerId'
  BY SentinelAssumption DEF OneEntryPerId, Unique, Readable, CallsConsistent, BootPc, CallPc, Handles, Request, Copy
<1>2. Flushed'
  BY SentinelAssumption DEF Flushed, FlushedOrTorn, Readable, CallsConsistent, BootPc, CallPc, Alone, Handles, Request, Copy
<1>3. Versions'
  BY SentinelAssumption DEF Versions, Below, Readable, CallsConsistent, BootPc, CallPc, Handles, Request, Copy, Sidecar, Entry, Event
<1>4. Session'
  BY DEF Session, Index, IndexOpens, CallsConsistent, BootPc, CallPc, Alone, Handles, Copy
<1> QED
  BY <1>1, <1>2, <1>3, <1>4

LEMMA CopyFileSafe ==
    ASSUME IInv, IInv', OneEntryPerId, Flushed, Versions, Session, NEW t \in Threads, NEW f \in Files, CopyFile(t, f)
    PROVE  OneEntryPerId' /\ Flushed' /\ Versions' /\ Session'
<1> USE DEF IInv, TypeOK, CopyFile, Copied
<1>1. /\ cp[t] \in Copy /\ cp[t].src \in Dirs /\ cp[t].dst \in Dirs
      /\ h # None => h \in Handles /\ h.dir \in Dirs /\ h.dir # cp[t].dst
  BY CopyTarget
<1>2. /\ \A d \in Dirs : d # cp[t].dst => dir'[d] = dir[d] /\ saved'[d] = saved[d]
      /\ saved'[cp[t].dst] = {}
  BY <1>1
<1>3. \A d \in Dirs : dir'[d].meta = Torn \/ \E s \in Dirs : dir'[d].meta = dir[s].meta
  <2>1. CASE f = "meta"
    BY <1>1, <1>2, <2>1
  <2>2. CASE f # "meta"
    BY <1>1, <1>2, <2>2 DEF Tree, Files
  <2> QED
    BY <2>1, <2>2
<1>4. OneEntryPerId' /\ Versions'
  BY <1>3, SidecarsKept
<1>5. Flushed'
  BY <1>1, <1>2 DEF Flushed, FlushedOrTorn, Readable, CallsConsistent, BootPc
<1>6. Session'
  BY <1>1, <1>2, SessionKept
<1> QED
  BY <1>4, <1>5, <1>6

LEMMA CopyErrorSafe ==
    ASSUME IInv, IInv', OneEntryPerId, Flushed, Versions, Session, NEW t \in Threads, NEW f \in Files, CopyError(t, f)
    PROVE  OneEntryPerId' /\ Flushed' /\ Versions' /\ Session'
<1> USE DEF IInv, TypeOK, CopyError, CutCopy
<1>1. /\ cp[t] \in Copy /\ cp[t].src \in Dirs /\ cp[t].dst \in Dirs
      /\ h # None => h \in Handles /\ h.dir \in Dirs /\ h.dir # cp[t].dst
  BY CopyTarget
<1>2. /\ \A d \in Dirs : d # cp[t].dst => dir'[d] = dir[d] /\ saved'[d] = saved[d]
      /\ saved'[cp[t].dst] = {}
  BY <1>1
<1>3. \A d \in Dirs : dir'[d].meta = Torn \/ \E s \in Dirs : dir'[d].meta = dir[s].meta
  <2>1. CASE f = "meta"
    BY <1>1, <1>2, <2>1
  <2>2. CASE f # "meta"
    BY <1>1, <1>2, <2>2 DEF Tree, Files
  <2> QED
    BY <2>1, <2>2
<1>4. OneEntryPerId' /\ Versions'
  BY <1>3, SidecarsKept
<1>5. Flushed'
  BY <1>1, <1>2 DEF Flushed, FlushedOrTorn, Readable, CallsConsistent, BootPc
<1>6. Session'
  BY <1>1, <1>2, SessionKept
<1> QED
  BY <1>4, <1>5, <1>6

LEMMA RemoveFileSafe ==
    ASSUME IInv, IInv', OneEntryPerId, Flushed, Versions, Session, NEW t \in Threads, NEW f \in Files, RemoveFile(t, f)
    PROVE  OneEntryPerId' /\ Flushed' /\ Versions' /\ Session'
<1> USE DEF IInv, TypeOK, RemoveFile
<1>1. OneEntryPerId'
  BY SentinelAssumption DEF OneEntryPerId, Unique, Readable, CallsConsistent, BootPc, CallPc, Handles, Request, Copy
<1>2. Flushed'
  BY SentinelAssumption DEF Flushed, FlushedOrTorn, Readable, CallsConsistent, BootPc, CallPc, Alone, Handles, Request, Copy
<1>3. Versions'
  BY SentinelAssumption DEF Versions, Below, Readable, CallsConsistent, BootPc, CallPc, Handles, Request, Copy, Sidecar, Entry, Event
<1>4. Session'
  BY DEF Session, Index, IndexOpens, CallsConsistent, BootPc, CallPc, Alone, Handles, Copy
<1> QED
  BY <1>1, <1>2, <1>3, <1>4

LEMMA SnapshotDoneSafe ==
    ASSUME IInv, IInv', OneEntryPerId, Flushed, Versions, Session, NEW t \in Threads, SnapshotDone(t)
    PROVE  OneEntryPerId' /\ Flushed' /\ Versions' /\ Session'
<1> USE DEF IInv, TypeOK, SnapshotDone
<1>1. OneEntryPerId'
  BY SentinelAssumption DEF OneEntryPerId, Unique, Readable, CallsConsistent, BootPc, CallPc, Handles, Request, Copy
<1>2. Flushed'
  BY SentinelAssumption DEF Flushed, FlushedOrTorn, Readable, CallsConsistent, BootPc, CallPc, Alone, Handles, Request, Copy
<1>3. Versions'
  BY SentinelAssumption DEF Versions, Below, Readable, CallsConsistent, BootPc, CallPc, Handles, Request, Copy, Sidecar, Entry, Event
<1>4. Session'
  BY SessionKept
<1> QED
  BY <1>1, <1>2, <1>3, <1>4

LEMMA RestoreOpenSafe ==
    ASSUME IInv, IInv', OneEntryPerId, Flushed, Versions, Session, NEW t \in Threads, RestoreOpen(t)
    PROVE  OneEntryPerId' /\ Flushed' /\ Versions' /\ Session'
<1> USE DEF IInv, TypeOK, RestoreOpen, IndexOfDim, Handle
<1>1. OneEntryPerId'
  BY SentinelAssumption DEF OneEntryPerId, Unique, Readable, CallsConsistent, BootPc, CallPc, Handles, Request, Copy
<1>2. Flushed'
  BY SentinelAssumption DEF Flushed, FlushedOrTorn, Readable, CallsConsistent, BootPc, CallPc, Alone, Handles, Request, Copy
<1>3. Versions'
  BY SentinelAssumption DEF Versions, Below, Readable, CallsConsistent, BootPc, CallPc, Handles, Request, Copy, Sidecar, Entry, Event
<1>4. Session'
  <2>1. \A u \in Threads : pc'[u] # "indexed"
    BY DEF CallsConsistent, BootPc
  <2>2. CASE UNCHANGED h
    BY <2>1, <2>2 DEF Session, CallsConsistent
  <2>3. CASE Readable(cp[t].dst) /\ IndexOfDim(cp[t].dst, dir[cp[t].dst].meta.dim)
    <3> DEFINE d == cp[t].dst
    <3>1. d \in Dirs /\ dir[d].meta \in Sidecar
      BY <2>3 DEF Readable, CallsConsistent, Copy, Tree
    <3>2. \A e \in dir[d].meta.recs : e.ver \in Nat /\ e.ver < nextVer
      BY <2>3, <3>1 DEF Versions, Below, Sidecar, Entry
    <3>3. h'.side = dir[d].meta /\ h'.since = nextVer
      BY <2>3
    <3> QED
      BY <2>1, <3>2, <3>3 DEF Session
  <2> QED
    BY <2>2, <2>3
<1> QED
  BY <1>1, <1>2, <1>3, <1>4

LEMMA DestroySafe ==
    ASSUME IInv, IInv', OneEntryPerId, Flushed, Versions, Session, NEW t \in Threads, Destroy(t)
    PROVE  OneEntryPerId' /\ Flushed' /\ Versions' /\ Session'
<1> USE DEF IInv, TypeOK, Destroy
<1>1. OneEntryPerId'
  BY SentinelAssumption DEF OneEntryPerId, Unique, Readable, CallsConsistent, BootPc, CallPc, Handles, Request, Copy
<1>2. Flushed'
  BY SentinelAssumption DEF Flushed, FlushedOrTorn, Readable, CallsConsistent, BootPc, CallPc, Alone, Handles, Request, Copy
<1>3. Versions'
  BY SentinelAssumption DEF Versions, Below, Readable, CallsConsistent, BootPc, CallPc, Handles, Request, Copy, Sidecar, Entry, Event
<1>4. Session'
  BY DEF Session, Index, IndexOpens, CallsConsistent, BootPc, CallPc, Alone, Handles, Copy
<1> QED
  BY <1>1, <1>2, <1>3, <1>4

LEMMA DestroyDoneSafe ==
    ASSUME IInv, IInv', OneEntryPerId, Flushed, Versions, Session, NEW t \in Threads, DestroyDone(t)
    PROVE  OneEntryPerId' /\ Flushed' /\ Versions' /\ Session'
<1> USE DEF IInv, TypeOK, DestroyDone
<1>1. OneEntryPerId'
  BY SentinelAssumption DEF OneEntryPerId, Unique, Readable, CallsConsistent, BootPc, CallPc, Handles, Request, Copy
<1>2. Flushed'
  BY SentinelAssumption DEF Flushed, FlushedOrTorn, Readable, CallsConsistent, BootPc, CallPc, Alone, Handles, Request, Copy
<1>3. Versions'
  BY SentinelAssumption DEF Versions, Below, Readable, CallsConsistent, BootPc, CallPc, Handles, Request, Copy, Sidecar, Entry, Event
<1>4. Session'
  BY DEF Session, Index, IndexOpens, CallsConsistent, BootPc, CallPc, Alone, Handles, Copy
<1> QED
  BY <1>1, <1>2, <1>3, <1>4

LEMMA EmitDoneSafe ==
    ASSUME IInv, IInv', OneEntryPerId, Flushed, Versions, Session, NEW t \in Threads, EmitDone(t)
    PROVE  OneEntryPerId' /\ Flushed' /\ Versions' /\ Session'
<1> USE DEF IInv, TypeOK, EmitDone
<1>1. OneEntryPerId'
  BY SentinelAssumption DEF OneEntryPerId, Unique, Readable, CallsConsistent, BootPc, CallPc, Handles, Request, Copy
<1>2. Flushed'
  BY SentinelAssumption DEF Flushed, FlushedOrTorn, Readable, CallsConsistent, BootPc, CallPc, Alone, Handles, Request, Copy
<1>3. Versions'
  BY SentinelAssumption DEF Versions, Below, Readable, CallsConsistent, BootPc, CallPc, Handles, Request, Copy, Sidecar, Entry, Event
<1>4. Session'
  BY DEF Session, Index, IndexOpens, CallsConsistent, BootPc, CallPc, Alone, Handles, Copy
<1> QED
  BY <1>1, <1>2, <1>3, <1>4

LEMMA CloseSafe ==
    ASSUME IInv, IInv', OneEntryPerId, Flushed, Versions, Session, Close
    PROVE  OneEntryPerId' /\ Flushed' /\ Versions' /\ Session'
<1> USE DEF IInv, TypeOK, Close
<1>1. OneEntryPerId'
  BY SentinelAssumption DEF OneEntryPerId, Unique, Readable, CallsConsistent, BootPc, CallPc, Handles, Request, Copy
<1>2. Flushed'
  BY SentinelAssumption DEF Flushed, FlushedOrTorn, Readable, CallsConsistent, BootPc, CallPc, Alone, Handles, Request, Copy
<1>3. Versions'
  BY SentinelAssumption DEF Versions, Below, Readable, CallsConsistent, BootPc, CallPc, Handles, Request, Copy, Sidecar, Entry, Event
<1>4. Session'
  BY DEF Session, Index, IndexOpens, CallsConsistent, BootPc, CallPc, Alone, Handles, Copy
<1> QED
  BY <1>1, <1>2, <1>3, <1>4

LEMMA CrashSafe ==
    ASSUME IInv, IInv', OneEntryPerId, Flushed, Versions, Session, Crash
    PROVE  OneEntryPerId' /\ Flushed' /\ Versions' /\ Session'
<1> USE DEF IInv, TypeOK, Crash, CutCopy
<1>0. /\ \A d \in Dirs : dir'[d].meta = dir[d].meta \/ dir'[d].meta = Torn
      /\ UNCHANGED <<ro, nextVer, saved>> /\ h' = None
      /\ \A u \in Threads : pc'[u] = "idle"
  <2>1. ASSUME NEW t \in Threads, NEW f \in Files,
               pc[t] \in {"copy", "restore"}, CutCopy(t, f)
        PROVE  \A d \in Dirs : dir'[d].meta = dir[d].meta \/ dir'[d].meta = Torn
    <3>1. cp[t] \in Copy /\ cp[t].dst \in Dirs
      BY <2>1 DEF CallsConsistent, Copy
    <3>2. CASE f = "meta"
      BY <2>1, <3>1, <3>2 DEF Tree
    <3>3. CASE f # "meta"
      <4>1. \A r \in Tree : [r EXCEPT ![f] = Torn].meta = r.meta
        BY <3>3 DEF Tree, Files
      <4> QED
        BY <2>1, <3>1, <4>1
    <3> QED
      BY <3>2, <3>3
  <2> QED
    BY <2>1
<1>1. OneEntryPerId'
  BY <1>0 DEF OneEntryPerId, Unique, Readable
<1>2. Flushed'
  BY <1>0 DEF Flushed, FlushedOrTorn, Readable, BootPc
<1>3. Versions'
  BY <1>0 DEF Versions, Below, Readable
<1>4. Session'
  BY DEF Session, Index, IndexOpens, CallsConsistent, BootPc, CallPc, Alone, Handles, Copy
<1> QED
  BY <1>1, <1>2, <1>3, <1>4

LEMMA OpenReadonlySafe ==
    ASSUME IInv, IInv', OneEntryPerId, Flushed, Versions, Session, NEW r \in Readers, OpenReadonly(r)
    PROVE  OneEntryPerId' /\ Flushed' /\ Versions' /\ Session'
<1> USE DEF IInv, TypeOK, OpenReadonly, ReadSidecar, ReadIndex, CloseView
<1>1. OneEntryPerId'
  BY SentinelAssumption DEF OneEntryPerId, Unique, Readable, CallsConsistent, BootPc, CallPc, Handles, Request, Copy
<1>2. Flushed'
  BY SentinelAssumption DEF Flushed, FlushedOrTorn, Readable, CallsConsistent, BootPc, CallPc, Alone, Handles, Request, Copy
<1>3. Versions'
  BY SentinelAssumption DEF Versions, Below, Readable, CallsConsistent, BootPc, CallPc, Handles, Request, Copy, Sidecar, Entry, Event
<1>4. Session'
  BY SessionKept
<1> QED
  BY <1>1, <1>2, <1>3, <1>4

-----------------------------------------------------------------------------
(* The invariant, its base case and its step.                              *)

SafeInv == IInv /\ OneEntryPerId /\ Flushed /\ Versions /\ Session

\* The invariant holds at the start.
LEMMA InitSafe == Init => SafeInv
<1> SUFFICES ASSUME Init PROVE SafeInv
  OBVIOUS
<1>1. IInv
  BY InitIInv
<1>2. OneEntryPerId
  BY DEF Init, OneEntryPerId, Readable, Gone
<1>3. Flushed
  BY DEF Init, Flushed, FlushedOrTorn, BootPc
<1>4. Versions /\ Session
  BY DEF Init, Versions, Session, Readable, Gone
<1> QED
  BY <1>1, <1>2, <1>3, <1>4 DEF SafeInv

LEMMA BootSafe ==
    ASSUME SafeInv, IInv', NEW t \in Threads, Boot(t)
    PROVE  SafeInv'
<1>1. ASSUME NEW d \in Dirs, NEW tid \in Tids, NEW dim \in Dims, Open(t, d, tid, dim)
      PROVE  SafeInv'
  BY <1>1, OpenExistingSafe, OpenAdoptSafe, OpenCreateSafe DEF SafeInv, Open
<1>2. CASE CreateIndex(t)
  BY <1>2, CreateIndexSafe DEF SafeInv
<1>3. CASE SidecarTruncate(t)
  BY <1>3, SidecarTruncateSafe DEF SafeInv
<1>4. CASE SidecarFill(t)
  BY <1>4, SidecarFillSafe DEF SafeInv
<1> QED
  BY <1>1, <1>2, <1>3, <1>4 DEF Boot, CreateNew

LEMMA MutateSafe ==
    ASSUME SafeInv, IInv', NEW t \in Threads, Mutate(t)
    PROVE  SafeInv'
<1>1. CASE \E i \in Ids : InsertIndex(t, i) \/ Delete(t, i)
  BY <1>1, InsertIndexSafe, DeleteSafe DEF SafeInv
<1>2. CASE InsertSidecar(t)
  BY <1>2, InsertSidecarSafe DEF SafeInv
<1>3. CASE Consolidate(t)
  BY <1>3, ConsolidateSafe DEF SafeInv
<1> QED
  BY <1>1, <1>2, <1>3 DEF Mutate

LEMMA PersistSafe ==
    ASSUME SafeInv, IInv', NEW t \in Threads, Persist(t)
    PROVE  SafeInv'
BY FlushSafe, FlushFillSafe, FlushErrorSafe DEF SafeInv, Persist

LEMMA LifecycleSafe ==
    ASSUME SafeInv, IInv', NEW t \in Threads, Lifecycle(t)
    PROVE  SafeInv'
<1>1. CASE \E d \in Dirs : SnapshotElsewhere(t, d)
  BY <1>1, SnapshotSafe DEF SafeInv
<1>2. CASE \E s, d \in Dirs : RestoreFrom(t, s, d)
  BY <1>2, RestoreFromSafe DEF SafeInv
<1>3. CASE \E f \in Files : CopyFile(t, f) \/ CopyError(t, f) \/ RemoveFile(t, f)
  BY <1>3, CopyFileSafe, CopyErrorSafe, RemoveFileSafe DEF SafeInv
<1>4. CASE SnapshotDone(t) \/ RestoreOpen(t)
  BY <1>4, SnapshotDoneSafe, RestoreOpenSafe DEF SafeInv
<1>5. CASE Destroy(t) \/ DestroyDone(t)
  BY <1>5, DestroySafe, DestroyDoneSafe DEF SafeInv
<1> QED
  BY <1>1, <1>2, <1>3, <1>4, <1>5 DEF Lifecycle

\* The invariant is inductive.
LEMMA StepSafe == SafeInv /\ [Next]_vars => SafeInv'
<1> SUFFICES ASSUME SafeInv, [Next]_vars PROVE SafeInv'
  OBVIOUS
<1>0. IInv'
  BY StepIInv DEF SafeInv
<1>1. CASE \E t \in Threads : Boot(t) \/ Mutate(t) \/ Persist(t) \/ Lifecycle(t)
  BY <1>0, <1>1, BootSafe, MutateSafe, PersistSafe, LifecycleSafe
<1>2. CASE \E t \in Threads : EmitDone(t)
  BY <1>0, <1>2, EmitDoneSafe DEF SafeInv
<1>3. CASE \E r \in Readers : OpenReadonly(r)
  BY <1>0, <1>3, OpenReadonlySafe DEF SafeInv
<1>4. CASE Close
  BY <1>0, <1>4, CloseSafe DEF SafeInv
<1>5. CASE Crash
  BY <1>0, <1>5, CrashSafe DEF SafeInv
<1>6. CASE UNCHANGED vars
  <2>1. OneEntryPerId' /\ Flushed'
    BY <1>6 DEF vars, SafeInv, OneEntryPerId, Unique, Readable, Flushed, FlushedOrTorn
  <2>2. Versions' /\ Session'
    BY <1>6 DEF vars, SafeInv, Versions, Below, Readable, Session, Index, IndexOpens
  <2> QED
    BY <1>0, <2>1, <2>2 DEF SafeInv
<1> QED
  BY <1>1, <1>2, <1>3, <1>4, <1>5, <1>6 DEF Next, SilentNext

\* The invariant holds in every reachable state.
LEMMA SafeInductive == Spec => []SafeInv
BY InitSafe, StepSafe, PTL DEF Spec

-----------------------------------------------------------------------------
\* No sidecar lists an id twice, on disk, in the handle or in a reader: the
\* replace-or-push of insert (tenant.rs:251-260), for every number of ids,
\* threads, readers and directories.
THEOREM OneEntry == Spec => []OneEntryPerId
<1>1. SafeInv => OneEntryPerId
  BY DEF SafeInv
<1> QED
  BY <1>1, SafeInductive, PTL

\* What a returned flush, snapshot or restore wrote is what the sidecar of the
\* directory holds until a later write of that sidecar is cut: no open takes
\* the create or adopt path over flushed records (tenant.rs:124-129, 300-308).
THEOREM FlushedStaysUnlessTorn == Spec => []FlushedOrTorn
<1>1. SafeInv => FlushedOrTorn
  BY DEF SafeInv, Flushed
<1> QED
  BY <1>1, SafeInductive, PTL

\* Whenever the inner lock is free, every record inserted through the open
\* handle carries the vector of the insert that wrote its metadata, however
\* many threads insert, delete and consolidate (tenant.rs:243-261).
THEOREM InsertsAreAtomic == Spec => []NoTearWithinSession
<1>1. SafeInv => NoTearWithinSession
  <2> SUFFICES ASSUME SafeInv, h # None, lock = None,
                      NEW e \in h.side.recs, e.ver >= h.since
               PROVE  Index(h.dir)[e.id] = e.ver
    BY DEF NoTearWithinSession
  <2>1. \A t \in Threads : pc[t] # "indexed"
    BY SentinelAssumption DEF SafeInv, IInv, CallsConsistent
  <2> QED
    BY <2>1 DEF SafeInv, Session
<1> QED
  BY <1>1, SafeInductive, PTL
=============================================================================
