---------------------------- MODULE TenantStore ----------------------------
(***************************************************************************)
(* The storage half of skeg_rigging_skeg::Tenant: tenant directories on    *)
(* disk, one owner process with a pool of threads sharing one read-write   *)
(* handle, and reader processes that open a directory read-only.           *)
(*                                                                         *)
(* A tenant directory holds a JSON sidecar (meta.json, written only by     *)
(* flush and by a creating open) and the files of a DiskVamanaIndex.  The  *)
(* data of one insert is abstracted to a version number: the vector goes   *)
(* to the engine's delta log under that version, the metadata (shareable   *)
(* flag, tags, payload) to the in-memory sidecar under the same version.   *)
(* A record whose two halves carry different versions is a torn record.    *)
(***************************************************************************)
EXTENDS Naturals, FiniteSets

CONSTANTS
    Dirs,       \* paths a tenant, a snapshot or a restored tenant may live at
    Ids,        \* record ids
    Tids,       \* tenant ids
    Dims,       \* embedding dimensions
    Threads,    \* threads of the owner process
    Readers,    \* reader processes
    NoFile,     \* content of a file that does not exist
    Torn,       \* content of a file that exists but was cut while written
    None,       \* no handle, no lock holder, no argument
    MaxVer      \* bound: number of inserts in a behaviour

Files == {"meta", "kind", "graph", "delta"}

Entry   == [id : Ids, ver : Nat \ {0}]                 \* RecordEntry
Sidecar == [tid : Tids, dim : Dims, recs : SUBSET Entry]  \* MetadataSidecar
Vecs    == [Ids -> Nat]                                \* 0: no vector
Graph   == [dim : Dims, vec : Vecs]
NoVecs  == [i \in Ids |-> 0]

\* The events of the code carry the record id only: ver is a tag by which the
\* model tells the calls apart, and nothing a receiver does depends on it.
Event == [kind : {"RecordInserted", "RecordDeleted"}, id : Ids, ver : Nat \ {0}]
Copy  == [src : Dirs, dst : Dirs, todo : SUBSET Files]

Handles == [dir : Dirs, tid : Tids, side : Sidecar, since : Nat]   \* Tenant
Request == [dir : Dirs, tid : Tids, dim : Dims]    \* arguments of an open

Present == "present"
Gone    == [meta |-> NoFile, kind |-> NoFile, graph |-> NoFile, delta |-> NoFile]

ASSUME SentinelAssumption ==
    /\ NoFile # Torn
    /\ {NoFile, Torn} \cap (Sidecar \cup Graph \cup Vecs \cup {Present}) = {}
    /\ None \notin Dirs
    /\ None \notin Threads \cup Event \cup Copy \cup Handles \cup Request

ASSUME BoundAssumption == MaxVer \in Nat

VARIABLES
    dir,      \* the file tree: dir[d][f] is the content of file f of directory d
    h,        \* the owner's read-write handle (Tenant), None when not open
    lock,     \* holder of the mutex around Inner
    pc,       \* where each thread is inside its current call
    ev,       \* the event an insert or delete of a thread has yet to emit
    cp,       \* the directory copy a thread is performing
    req,      \* the arguments of the open, or the target of the destroy, in progress
    ro,       \* read-only handles, one per reader process
    nextVer,  \* version of the next insert
    saved     \* history: records whose metadata a returned call made durable

vars == <<dir, h, lock, pc, ev, cp, req, ro, nextVer, saved>>

-----------------------------------------------------------------------------
(* Files and lookups.                                                      *)

Readable(d) == dir[d].meta \notin {NoFile, Torn}

MetaUnusable(d) == ~Readable(d)      \* mutant: a sidecar that fails to parse
MetaMissing(d)  == dir[d].meta = NoFile

IndexIgnored(d) == FALSE             \* mutant: create over an existing index
IndexExists(d)  == dir[d].kind # NoFile \/ dir[d].graph # NoFile

\* DiskVamanaIndex::open succeeds: the index files are all there and whole.
IndexOpens(d) ==
    /\ dir[d].kind # NoFile
    /\ dir[d].graph \notin {NoFile, Torn}
    /\ dir[d].delta \notin {NoFile, Torn}

IndexAnyDim(d, dim) == IndexOpens(d) \* mutant: dimension of the index unchecked
IndexOfDim(d, dim)  == IndexOpens(d) /\ dir[d].graph.dim = dim

\* DiskVamanaIndex::get over main graph and delta log; the log is newer.
Merged(g, l) == [i \in Ids |-> IF l[i] # 0 THEN l[i] ELSE g.vec[i]]
Index(d)     == IF IndexOpens(d) THEN Merged(dir[d].graph, dir[d].delta) ELSE NoVecs

EmptySidecar(tid, dim) == [tid |-> tid, dim |-> dim, recs |-> {}]

\* Replace the entry of the id in place, or push a new one.
Push(recs, e)    == recs \cup {e}    \* mutant: pushed without looking
Upsert(recs, e)  == {r \in recs : r.id # e.id} \cup {e}
Blank(recs, i)   ==                  \* mutant: a blank entry is left in its place
    {r \in recs : r.id # i} \cup {[id |-> i, ver |-> 0]}
Without(recs, i) == {r \in recs : r.id # i}

Alone == \A t \in Threads : pc[t] = "idle"

\* A thread of the open tenant enters a call and takes the inner lock.
CanEnter(t) == h # None /\ pc[t] = "idle"    \* mutant: the lock is not taken
CanLock(t)  == CanEnter(t) /\ lock = None

\* DiskVamanaIndex::insert appends to the delta log; over cut files it fails.
TryPutVector(i) ==                   \* mutant: an error of the index is ignored
    \/ UNCHANGED dir
    \/ dir' = [dir EXCEPT ![h.dir].delta[i] = nextVer]
PutVector(i) ==
    /\ IndexOpens(h.dir)
    /\ dir' = [dir EXCEPT ![h.dir].delta[i] = nextVer]

Handle(d, tid, side) == [dir |-> d, tid |-> tid, side |-> side, since |-> nextVer]

-----------------------------------------------------------------------------
Init ==
    /\ dir = [d \in Dirs |-> Gone]
    /\ h = None
    /\ lock = None
    /\ pc = [t \in Threads |-> "idle"]
    /\ ev = [t \in Threads |-> None]
    /\ cp = [t \in Threads |-> None]
    /\ req = None
    /\ ro = [r \in Readers |-> [pc |-> "idle"]]
    /\ nextVer = 1
    /\ saved = [d \in Dirs |-> {}]

-----------------------------------------------------------------------------
(* Tenant::open.  A call that fails changes nothing and is no step; one    *)
(* that fails half-way leaves what Crash leaves when no handle is open.    *)

\* meta.json exists: read it, open the index, check both dimensions.  The
\* handle takes the id it was asked for, the sidecar keeps the id on disk.
OpenExisting(t, d, tid, dim) ==
    /\ h = None /\ Alone
    /\ Readable(d) /\ dir[d].meta.dim = dim
    /\ IndexOfDim(d, dim)
    /\ h' = Handle(d, tid, dir[d].meta)
    /\ UNCHANGED <<dir, lock, pc, ev, cp, req, ro, nextVer, saved>>

\* No meta.json but an index: keep the index, start from an empty sidecar.
OpenAdopt(t, d, tid, dim) ==
    /\ h = None /\ Alone
    /\ MetaMissing(d) /\ IndexExists(d)
    /\ IndexOfDim(d, dim)
    /\ req' = [dir |-> d, tid |-> tid, dim |-> dim]
    /\ pc' = [pc EXCEPT ![t] = "sidecar"]
    /\ UNCHANGED <<dir, h, lock, ev, cp, ro, nextVer, saved>>

\* Neither: create_empty writes tier.kind first ...
OpenCreate(t, d, tid, dim) ==
    /\ h = None /\ Alone
    /\ MetaMissing(d) /\ ~IndexExists(d)
    /\ dir' = [dir EXCEPT ![d].kind = Present]
    /\ req' = [dir |-> d, tid |-> tid, dim |-> dim]
    /\ pc' = [pc EXCEPT ![t] = "create"]
    /\ UNCHANGED <<h, lock, ev, cp, ro, nextVer, saved>>

\* ... and CURRENT last: from here the empty index is complete.
CreateIndex(t) ==
    /\ pc[t] = "create"
    /\ dir' = [dir EXCEPT ![req.dir].graph = [dim |-> req.dim, vec |-> NoVecs],
                          ![req.dir].delta = NoVecs]
    /\ pc' = [pc EXCEPT ![t] = "sidecar"]
    /\ UNCHANGED <<h, lock, ev, cp, req, ro, nextVer, saved>>

\* MetadataSidecar::write_to_path is fs::write: truncate, then fill.
SidecarTruncate(t) ==
    /\ pc[t] = "sidecar"
    /\ dir' = [dir EXCEPT ![req.dir].meta = Torn]
    /\ pc' = [pc EXCEPT ![t] = "fill"]
    /\ UNCHANGED <<h, lock, ev, cp, req, ro, nextVer, saved>>

SidecarFill(t) ==
    /\ pc[t] = "fill"
    /\ LET side == EmptySidecar(req.tid, req.dim)
       IN /\ dir' = [dir EXCEPT ![req.dir].meta = side]
          /\ h' = Handle(req.dir, req.tid, side)
    /\ pc' = [pc EXCEPT ![t] = "idle"]
    /\ req' = None
    /\ UNCHANGED <<lock, ev, cp, ro, nextVer, saved>>

Open(t, d, tid, dim) ==
    \/ OpenExisting(t, d, tid, dim)
    \/ OpenAdopt(t, d, tid, dim)
    \/ OpenCreate(t, d, tid, dim)

\* Tenant::create_new: refuse a directory that has a sidecar, else open.
CreateNew(t, d, tid, dim) ==
    /\ MetaMissing(d)
    /\ Open(t, d, tid, dim)

-----------------------------------------------------------------------------
(* Calls on the open handle.                                               *)

\* Tenant::insert, under the inner lock: first the vector into the delta log ...
InsertIndex(t, i) ==
    /\ CanLock(t)
    /\ nextVer <= MaxVer
    /\ PutVector(i)
    /\ ev' = [ev EXCEPT ![t] = [kind |-> "RecordInserted", id |-> i, ver |-> nextVer]]
    /\ lock' = t
    /\ pc' = [pc EXCEPT ![t] = "indexed"]
    /\ nextVer' = nextVer + 1
    /\ UNCHANGED <<h, cp, req, ro, saved>>

InsertQuiet(t) ==                    \* mutant: an overwrite is not announced
    /\ pc[t] = "indexed"
    /\ h' = [h EXCEPT !.side.recs =
                Upsert(@, [id |-> ev[t].id, ver |-> ev[t].ver])]
    /\ lock' = None
    /\ pc' = [pc EXCEPT ![t] =
                 IF \E r \in h.side.recs : r.id = ev[t].id THEN "idle" ELSE "emit"]
    /\ UNCHANGED <<dir, ev, cp, req, ro, nextVer, saved>>

\* ... then the metadata into the in-memory sidecar; the lock is dropped.
InsertSidecar(t) ==
    /\ pc[t] = "indexed"
    /\ h' = [h EXCEPT !.side.recs =
                Upsert(@, [id |-> ev[t].id, ver |-> ev[t].ver])]
    /\ lock' = None
    /\ pc' = [pc EXCEPT ![t] = "emit"]
    /\ UNCHANGED <<dir, ev, cp, req, ro, nextVer, saved>>

\* Tenant::delete of a present id.  The vector stays in the index; deleting
\* a missing id changes nothing.
Delete(t, i) ==
    /\ CanLock(t)
    /\ \E e \in h.side.recs :
          /\ e.id = i
          /\ ev' = [ev EXCEPT ![t] = [kind |-> "RecordDeleted", id |-> i, ver |-> e.ver]]
    /\ h' = [h EXCEPT !.side.recs = Without(@, i)]
    /\ pc' = [pc EXCEPT ![t] = "emit"]
    /\ UNCHANGED <<dir, lock, cp, req, ro, nextVer, saved>>

\* The call returns once its event is out (TenantEvents says to whom).
EmitDone(t) ==
    /\ pc[t] = "emit"
    /\ pc' = [pc EXCEPT ![t] = "idle"]
    /\ ev' = [ev EXCEPT ![t] = None]
    /\ UNCHANGED <<dir, h, lock, cp, req, ro, nextVer, saved>>

\* Tenant::flush holds the inner lock while fs::write truncates and fills.
TruncateSidecar(t) ==
    /\ CanLock(t)
    /\ dir' = [dir EXCEPT ![h.dir].meta = Torn]
    /\ lock' = t
    /\ pc' = [pc EXCEPT ![t] = "flush"]
    /\ UNCHANGED <<h, ev, req, ro, nextVer, saved>>

Flush(t) == TruncateSidecar(t) /\ UNCHANGED cp

\* The write completes: flush returns, or snapshot goes on to copy.
FlushFill(t) ==
    /\ pc[t] = "flush"
    /\ dir' = [dir EXCEPT ![h.dir].meta = h.side]
    /\ saved' = [saved EXCEPT ![h.dir] = h.side.recs]
    /\ lock' = None
    /\ pc' = [pc EXCEPT ![t] = IF cp[t] = None THEN "idle" ELSE "copy"]
    /\ UNCHANGED <<h, ev, cp, req, ro, nextVer>>

\* The write fails (disk full): the call returns the error, the file stays cut.
FlushError(t) ==
    /\ pc[t] = "flush"
    /\ lock' = None
    /\ pc' = [pc EXCEPT ![t] = "idle"]
    /\ cp' = [cp EXCEPT ![t] = None]
    /\ UNCHANGED <<dir, h, ev, req, ro, nextVer, saved>>

\* Tenant::consolidate: merge the delta log into the main graph.
Consolidate(t) ==
    /\ CanLock(t)
    /\ IndexOpens(h.dir)
    /\ dir' = [dir EXCEPT ![h.dir].graph.vec = Index(h.dir),
                          ![h.dir].delta = NoVecs]
    /\ UNCHANGED <<h, lock, pc, ev, cp, req, ro, nextVer, saved>>

-----------------------------------------------------------------------------
(* TenantLifecycle::snapshot, Tenant::restore_from, TenantLifecycle::destroy *)

CopyOf(src, dst) == [src |-> src, dst |-> dst, todo |-> Files]

SnapshotUnflushed(t, dst) ==         \* mutant: the flush is forgotten
    /\ CanLock(t)
    /\ cp' = [cp EXCEPT ![t] = CopyOf(h.dir, dst)]
    /\ pc' = [pc EXCEPT ![t] = "copy"]
    /\ UNCHANGED <<dir, h, lock, ev, req, ro, nextVer, saved>>

\* Flush under the lock, then copy the directory without it.
Snapshot(t, dst) ==
    /\ TruncateSidecar(t)
    /\ cp' = [cp EXCEPT ![t] = CopyOf(h.dir, dst)]

\* A static function; here it runs while no handle is open, as open does.
RestoreFrom(t, src, dst) ==
    /\ h = None /\ Alone
    /\ dir[dst].meta = NoFile
    /\ dir[src].meta # NoFile
    /\ cp' = [cp EXCEPT ![t] = CopyOf(src, dst)]
    /\ pc' = [pc EXCEPT ![t] = "restore"]
    /\ UNCHANGED <<dir, h, lock, ev, req, ro, nextVer, saved>>

\* The file being copied is left cut.
CutCopy(t, f) ==
    /\ cp[t] # None /\ f \in cp[t].todo
    /\ dir[cp[t].src][f] # NoFile
    /\ dir' = [dir EXCEPT ![cp[t].dst][f] = Torn]

\* fs::copy truncates the target first: a file copied onto itself is cut.
Copied(src, dst, f) == IF src = dst THEN Torn ELSE dir[src][f]

\* copy_dir_contents: file by file, in the order read_dir happens to yield.
\* A file the source does not have is not listed and leaves the target alone.
CopyFile(t, f) ==
    /\ pc[t] \in {"copy", "restore"}
    /\ f \in cp[t].todo
    /\ dir' = IF dir[cp[t].src][f] = NoFile THEN dir
              ELSE [dir EXCEPT ![cp[t].dst][f] = Copied(cp[t].src, cp[t].dst, f)]
    /\ saved' = [saved EXCEPT ![cp[t].dst] = {}]
    /\ cp' = [cp EXCEPT ![t].todo = @ \ {f}]
    /\ UNCHANGED <<h, lock, pc, ev, req, ro, nextVer>>

\* fs::copy fails: the call returns the error, what was copied stays.
CopyError(t, f) ==
    /\ pc[t] \in {"copy", "restore"}
    /\ CutCopy(t, f)
    /\ saved' = [saved EXCEPT ![cp[t].dst] = {}]
    /\ pc' = [pc EXCEPT ![t] = "idle"]
    /\ cp' = [cp EXCEPT ![t] = None]
    /\ UNCHANGED <<h, lock, ev, req, ro, nextVer>>

SnapshotDone(t) ==
    /\ pc[t] = "copy" /\ cp[t].todo = {}
    /\ saved' = [saved EXCEPT ![cp[t].dst] =
                    IF Readable(cp[t].dst) THEN dir[cp[t].dst].meta.recs ELSE {}]
    /\ pc' = [pc EXCEPT ![t] = "idle"]
    /\ cp' = [cp EXCEPT ![t] = None]
    /\ UNCHANGED <<dir, h, lock, ev, req, ro, nextVer>>

\* Everything is copied: open with the id and dimension of the copied sidecar.
RestoreOpen(t) ==
    /\ pc[t] = "restore" /\ cp[t].todo = {}
    /\ LET d == cp[t].dst
       IN IF Readable(d) /\ IndexOfDim(d, dir[d].meta.dim)
          THEN /\ h' = Handle(d, dir[d].meta.tid, dir[d].meta)
               /\ saved' = [saved EXCEPT ![d] = dir[d].meta.recs]
          ELSE UNCHANGED <<h, saved>>
    /\ pc' = [pc EXCEPT ![t] = "idle"]
    /\ cp' = [cp EXCEPT ![t] = None]
    /\ UNCHANGED <<dir, lock, ev, req, ro, nextVer>>

\* destroy consumes the handle, so no other thread is inside a call.
Destroy(t) ==
    /\ h # None /\ Alone
    /\ h' = None
    /\ req' = [dir |-> h.dir, tid |-> h.tid, dim |-> h.side.dim]
    /\ saved' = [saved EXCEPT ![h.dir] = {}]
    /\ pc' = [pc EXCEPT ![t] = "remove"]
    /\ UNCHANGED <<dir, lock, ev, cp, ro, nextVer>>

\* remove_dir_all, file by file in any order.
RemoveFile(t, f) ==
    /\ pc[t] = "remove"
    /\ dir[req.dir][f] # NoFile
    /\ dir' = [dir EXCEPT ![req.dir][f] = NoFile]
    /\ UNCHANGED <<h, lock, pc, ev, cp, req, ro, nextVer, saved>>

DestroyDone(t) ==
    /\ pc[t] = "remove" /\ dir[req.dir] = Gone
    /\ pc' = [pc EXCEPT ![t] = "idle"]
    /\ req' = None
    /\ UNCHANGED <<dir, h, lock, ev, cp, ro, nextVer, saved>>

\* The handle is dropped (or closed): nothing is flushed on the way out.
Close ==
    /\ h # None /\ Alone
    /\ h' = None
    /\ UNCHANGED <<dir, lock, pc, ev, cp, req, ro, nextVer, saved>>

\* The owner process dies.  A file being copied may be left cut.
Crash ==
    /\ h # None \/ ~Alone
    /\ \/ UNCHANGED dir
       \/ \E t \in Threads, f \in Files :
             pc[t] \in {"copy", "restore"} /\ CutCopy(t, f)
    /\ h' = None
    /\ lock' = None
    /\ pc' = [t \in Threads |-> "idle"]
    /\ ev' = [t \in Threads |-> None]
    /\ cp' = [t \in Threads |-> None]
    /\ req' = None
    /\ UNCHANGED <<ro, nextVer, saved>>

-----------------------------------------------------------------------------
(* Tenant::open_readonly_at in another process: sidecar first, index next. *)

ReadSidecar(r, d) ==
    /\ ro[r].pc = "idle"
    /\ Readable(d)
    /\ ro' = [ro EXCEPT ![r] = [pc |-> "meta", dir |-> d, side |-> dir[d].meta]]
    /\ UNCHANGED <<dir, h, lock, pc, ev, cp, req, nextVer, saved>>

ReadIndex(r) ==
    /\ ro[r].pc = "meta"
    /\ LET d == ro[r].dir
       IN ro' = [ro EXCEPT ![r] =
                    IF IndexOfDim(d, @.side.dim)
                    THEN [pc |-> "view", dir |-> d, side |-> @.side, vec |-> Index(d)]
                    ELSE [pc |-> "idle"]]
    /\ UNCHANGED <<dir, h, lock, pc, ev, cp, req, nextVer, saved>>

CloseView(r) ==
    /\ ro[r].pc = "view"
    /\ ro' = [ro EXCEPT ![r] = [pc |-> "idle"]]
    /\ UNCHANGED <<dir, h, lock, pc, ev, cp, req, nextVer, saved>>

OpenReadonly(r) ==
    \/ \E d \in Dirs : ReadSidecar(r, d)
    \/ ReadIndex(r)
    \/ CloseView(r)

-----------------------------------------------------------------------------
Boot(t) ==
    \/ \E d \in Dirs, tid \in Tids, dim \in Dims :
          Open(t, d, tid, dim) \/ CreateNew(t, d, tid, dim)
    \/ CreateIndex(t)
    \/ SidecarTruncate(t)
    \/ SidecarFill(t)

Mutate(t) ==
    \/ \E i \in Ids : InsertIndex(t, i) \/ Delete(t, i)
    \/ InsertSidecar(t)
    \/ Consolidate(t)

Persist(t) ==
    \/ Flush(t)
    \/ FlushFill(t)
    \/ FlushError(t)

\* Into any other directory, empty or not.  One into the tenant's own, which
\* snapshot does not refuse (tenant.rs:447), is left out of Next.
SnapshotElsewhere(t, dst) ==
    /\ h # None /\ dst # h.dir
    /\ Snapshot(t, dst)

Lifecycle(t) ==
    \/ \E d \in Dirs : SnapshotElsewhere(t, d)
    \/ \E s, d \in Dirs : RestoreFrom(t, s, d)
    \/ \E f \in Files : CopyFile(t, f) \/ CopyError(t, f) \/ RemoveFile(t, f)
    \/ SnapshotDone(t)
    \/ RestoreOpen(t)
    \/ Destroy(t)
    \/ DestroyDone(t)

\* Every step but the emission of an event, which TenantEvents refines, and
\* the crash, which also takes the event streams of the process with it.
SilentNext ==
    \/ \E t \in Threads : Boot(t) \/ Mutate(t) \/ Persist(t) \/ Lifecycle(t)
    \/ \E r \in Readers : OpenReadonly(r)
    \/ Close

Next ==
    \/ SilentNext
    \/ Crash
    \/ \E t \in Threads : EmitDone(t)

Spec == Init /\ [][Next]_vars

-----------------------------------------------------------------------------
(* Duties of callers.  snapshot and restore_from copy without a lock, into *)
(* whatever the target holds, and nothing in the code sees to these.       *)

\* While a snapshot copies files, no other call writes the tenant's directory
\* or its records.
Undisturbed ==
    \A t \in Threads : pc[t] = "copy" => dir'[h.dir] = dir[h.dir] /\ h' \in {h, None}

\* A copy that ends, well or not, leaves no older file of its target beside a
\* file it has copied.  One into an empty directory never does.
EndsClean ==
    \A t \in Threads : cp[t] # None /\ cp'[t] = None =>
        \/ cp[t].todo = Files
        \/ \A f \in Files : f \in cp[t].todo \/ dir[cp[t].src][f] = NoFile =>
               dir[cp[t].dst][f] = NoFile

\* No directory is copied onto between the two reads of open_readonly_at.
ReadersApart ==
    \A r \in Readers, t \in Threads :
        ro[r].pc = "meta" /\ cp[t] # None => ro[r].dir # cp[t].dst

-----------------------------------------------------------------------------
(* Type invariant.                                                         *)

BootPc == {"create", "sidecar", "fill", "remove"}
CallPc == {"indexed", "emit", "flush", "copy"}

Tree    == [meta  : Sidecar \cup {NoFile, Torn},
            kind  : {NoFile, Torn, Present},
            graph : Graph \cup {NoFile, Torn},
            delta : Vecs \cup {NoFile, Torn}]
View    == [pc : {"idle"}]
           \cup [pc : {"meta"}, dir : Dirs, side : Sidecar]
           \cup [pc : {"view"}, dir : Dirs, side : Sidecar, vec : Vecs]

\* Every variable has its type.
TypeOK ==
    /\ dir \in [Dirs -> Tree]
    /\ h \in Handles \cup {None}
    /\ lock \in Threads \cup {None}
    /\ pc \in [Threads -> {"idle", "restore"} \cup BootPc \cup CallPc]
    /\ ev \in [Threads -> Event \cup {None}]
    /\ cp \in [Threads -> Copy \cup {None}]
    /\ req \in Request \cup {None}
    /\ ro \in [Readers -> View]
    /\ nextVer \in Nat \ {0}
    /\ saved \in [Dirs -> SUBSET Entry]

-----------------------------------------------------------------------------
(* Safety.                                                                 *)

\* A directory whose files a call in progress is copying over or removing.
Target(d) ==
    \/ \E t \in Threads : cp[t] # None /\ cp[t].dst = d
    \/ \E t \in Threads : pc[t] = "remove" /\ req.dir = d

\* Where a call is and what it holds: the inner lock is held exactly while an
\* insert or a flush is between its two writes (tenant.rs:243-261, 304-306),
\* and no call overlaps the opening, restoring or destroying of the tenant,
\* or is copying a directory onto the open one.
CallsConsistent ==
    \A t \in Threads :
        /\ pc[t] \in {"indexed", "flush"} <=> lock = t
        /\ pc[t] \in BootPc \cup {"restore"} =>
               h = None /\ \A u \in Threads : u # t => pc[u] = "idle"
        /\ pc[t] \in BootPc => req # None
        /\ pc[t] \in CallPc => h # None
        /\ pc[t] = "indexed" => ev[t] # None
        /\ pc[t] \in {"copy", "restore"} => cp[t] # None
        /\ pc[t] \notin {"flush", "copy", "restore"} => cp[t] = None
        /\ pc[t] \in CallPc /\ cp[t] # None => cp[t].dst # h.dir

\* No sidecar, on disk, in memory or held by a reader, lists an id twice:
\* insert replaces the entry of an id it finds (tenant.rs:251-260), and
\* record_count and get rely on it.
Unique(recs)  == \A e, f \in recs : e.id = f.id => e = f
OneEntryPerId ==
    /\ h # None => Unique(h.side.recs)
    /\ \A d \in Dirs : Readable(d) => Unique(dir[d].meta.recs)
    /\ \A r \in Readers : ro[r].pc # "idle" => Unique(ro[r].side.recs)

\* insert writes index and sidecar under one lock (tenant.rs:243-261), so
\* whenever the lock is free, every record inserted through this handle has
\* its own vector: concurrent inserts of one id never mix their halves.
NoTearWithinSession ==
    h # None /\ lock = None =>
        \A e \in h.side.recs : e.ver >= h.since => Index(h.dir)[e.id] = e.ver

\* The vector is written first and is durable at once, the metadata follows
\* (tenant.rs:244-260), so metadata never gets ahead of its vector, neither in
\* a handle nor in a reader whose tenant was not destroyed under it (then it
\* sees no vector at all).  So it is without copies, and with copies whose
\* callers meet the duties above; CountedIsVisible is what goes wrong where
\* they do not.
MetadataNeverAhead ==
    /\ h # None => \A e \in h.side.recs : Index(h.dir)[e.id] >= e.ver
    /\ \A r \in Readers : ro[r].pc = "view" =>
           \A e \in ro[r].side.recs : ro[r].vec[e.id] = 0 \/ ro[r].vec[e.id] >= e.ver

\* open checks the dimension of the index on both paths that find one
\* (tenant.rs:143-149, 153-158): sidecar and index of a handle agree, and no
\* sidecar is written beside an index it does not describe.
HandleDim ==
    /\ h # None => IndexOpens(h.dir) /\ h.side.dim = dir[h.dir].graph.dim
    /\ \A t \in Threads : pc[t] \in {"sidecar", "fill"} =>
           IndexOpens(req.dir) /\ req.dim = dir[req.dir].graph.dim

\* What the last completed flush (snapshot, restore) put in a directory is
\* what its sidecar holds, unless a later write of the sidecar was cut: no
\* open ever takes the create or adopt path over flushed records
\* (tenant.rs:124-129).
FlushedOrTorn ==
    \A d \in Dirs : saved[d] # {} /\ dir[d].meta # Torn =>
        Readable(d) /\ dir[d].meta.recs = saved[d]

\* A snapshot that returns left a copy of the tenant with every record the
\* handle holds (tenant.rs:446-453), also over the files of an older snapshot
\* or of a copy that was cut, when no other thread writes meanwhile.
SnapshotComplete ==
    [][\A t \in Threads : SnapshotDone(t) =>
           /\ dir[cp[t].dst] = dir[h.dir]
           /\ dir[cp[t].dst].meta = h.side]_vars

-----------------------------------------------------------------------------
(* Refinement.                                                             *)

\* The records of the handle, an insert counted from its first write on: no
\* other thread sees them before the lock is free.
Records ==
    IF h = None THEN {}
    ELSE IF lock # None /\ pc[lock] = "indexed"
    THEN Upsert(h.side.recs, [id |-> ev[lock].id, ver |-> ev[lock].ver])
    ELSE h.side.recs

\* The records in the sidecar file; a create counts from its last write on.
Filling(d) == \E t \in Threads : pc[t] = "fill" /\ req.dir = d

OnDisk(d) ==
    IF Readable(d) THEN [is |-> "whole", recs |-> dir[d].meta.recs]
    ELSE IF MetaMissing(d) \/ Filling(d)
    THEN [is |-> "absent", recs |-> {}]
    ELSE [is |-> "lost", recs |-> {}]

OpenDir == IF h = None THEN None ELSE h.dir
Disk    == [d \in Dirs |-> OnDisk(d)]
Vectors == [d \in Dirs |-> Index(d)]
Targets == {d \in Dirs : Target(d)}

Map == INSTANCE DurableMap WITH
        Vers    <- 1 .. MaxVer,
        open    <- OpenDir,
        vol     <- Records,
        dur     <- Disk,
        vec     <- Vectors,
        targets <- Targets

\* However many files, locks and steps it takes, a tenant is a map with a
\* volatile and a durable half (write.rs:36-63, tenant.rs:9-18): inserts are
\* atomic, nothing but a flush changes the metadata of an open tenant on disk,
\* nothing but an insert its vectors, an open starts from what the last flush
\* of that directory left, and creation, adoption (tenant.rs:124-129, 159-166),
\* consolidation and crashes lose neither metadata nor vectors.
IsDurableMap == Map!Spec

-----------------------------------------------------------------------------
(* What the documentation says and the code does not do.                   *)

\* "callers must invoke flush to guarantee the records are persisted"
\* (write.rs:41-42): records a returned flush wrote can be read back later.
DurableFlush ==
    \A d \in Dirs : saved[d] # {} /\ Alone =>
        Readable(d) /\ saved[d] \subseteq dir[d].meta.recs

\* "readers see either the pre-rename or post-rename snapshot, never a
\* partial state" (readonly.rs:14-15): the metadata and the vector a reader
\* holds for a record come from one insert.
ReaderNeverPartial ==
    \A r \in Readers : ro[r].pc = "view" =>
        \A e \in ro[r].side.recs : ro[r].vec[e.id] = e.ver

\* "Number of records visible to a fresh query right now" (accounting.rs:38):
\* every record a handle counts has a vector a search can find.
CountedIsVisible ==
    h # None /\ lock = None => \A e \in h.side.recs : Index(h.dir)[e.id] # 0
=============================================================================
