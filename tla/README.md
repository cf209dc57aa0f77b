# Verification of skeg-rigging

TLA+ models, TLC runs and TLAPS proofs for the crates of this repository:
`skeg-rigging` (the trait surface, events, quotas, an in-memory mock),
`skeg-rigging-skeg` (the concrete `Tenant` over skeg-vector's
`DiskVamanaIndex`) and `skeg-rigging-ingest` (walk, chunk, embed, insert).

Every definition is translated from the Rust source; `PROJECT.json` gives for
each one the lines it stands for. Paths below are relative to `src/crates/`.

## 1. The system

### Components

| component | source | state | operations |
|---|---|---|---|
| Tenant storage and lifecycle | `skeg-rigging-skeg/src/tenant.rs`, `meta_sidecar.rs` | a directory (`meta.json` plus the files of the index); in memory `Inner { index, sidecar }` behind one mutex; `tenant_id`, `read_only` | `open` (existing / adopt / create), `create_new`, `open_readonly_at`, `insert`, `delete`, `flush`, `consolidate`, `snapshot`, `restore_from`, `destroy`, `close`/drop |
| Filtered query | `tenant.rs` 523-576, `skeg-rigging/src/filter.rs` | none of its own; reads `Inner` under the mutex | `query_filtered` |
| Events | `tenant.rs` 290-296, 397-403, `skeg-rigging/src/events.rs` | the vector of senders behind a second mutex; one unbounded mpsc channel and a filter per stream | `subscribe`, `emit`, `recv`, `try_recv`, `recv_timeout`, drop of a stream |
| Quota and accounting (`MockTenant`) | `skeg-rigging/src/accounting.rs`, implemented by `mock.rs` | a vector of records, the quota, the senders | `insert` with the quota check, `delete`, `set_quota`, `subscribe`, `emit`, `query_filtered`, drop |
| Ingest | `skeg-rigging-ingest/src/lib.rs` | `IngestStats.next_id`; in `watch_tree` the map `last_seen` and `next_id` | `ingest_tree`, `ingest_file`, `collect_files`, `watch_tree` |
| Chunking | `skeg-rigging-ingest/src/chunk.rs` | loop variables | `paragraphs`, `line_windows` |
| Embedding | `skeg-rigging-ingest/src/embed.rs` | none | `StubEmbed` (hash), `OllamaEmbed` (HTTP) |
| Async bridge | `skeg-rigging/src/asyncs.rs` | an `Arc` of the sync value, shared by every bridge and every task of the blocking pool | `query_filtered_async` and the other forwards, cancellation, `close_async`, drop |
| Types and traits | `ids.rs`, `error.rs`, `lifecycle.rs`, `readonly.rs`, `write.rs`, `iter.rs` | none | declarations, and the promises their docs make |
| `DiskVamanaIndex` | external crate skeg-vector | `tier.kind`, `CURRENT`, graph, delta log | `create_empty`, `open`, `insert`, `get`, `search`, `consolidate` |

### How they interact

* `insert` writes the vector to the engine (durable at once, delta log), then
  the metadata to the in-memory sidecar, both under the inner mutex; it drops
  the mutex and only then emits. `delete` touches the sidecar only: the vector
  stays in the index as a *ghost* that queries must skip.
* `flush` serialises the sidecar and overwrites `meta.json` in place, under the
  inner mutex. `snapshot` is `flush` followed by a recursive copy without any
  lock, into whatever the target directory holds. Nothing else persists metadata.
* `open` decides from what it finds: `meta.json` (existing), an index without it
  (adopt: start from an empty sidecar), neither (create). Every crash leaves a
  directory this decision has to cope with.
* `emit` walks the senders under the subscribers' mutex; `Vec::retain` removes a
  sender whose receiver is gone. Filtering happens on the receiving side.
* A read-only view is opened by another process from the same files while the
  owner keeps writing: sidecar first, index next.
* The async bridge clones the `Arc` of a tenant into a task of tokio's blocking
  pool and awaits it. A dropped future does not stop its task, which goes on
  using the tenant, its lock included, after the caller has left and even after
  `close_async`.
* Ingest drives `TenantWrite::insert` once per chunk and flushes at the end;
  `watch_tree` does so per file, driven by file-system events, and flushes after
  each. The caller carries `next_id` from one call to the next.

### What is hard here

Two stores (index and sidecar) with different durability and no transaction;
an in-place overwrite; copies and removals of a directory that can be cut at
any file; two mutexes and an emission outside the first; readers with no
coordination at all; an oversample fixed before deleted records are dropped;
async calls whose tasks outlive them, run on a pool with a bound, and call back
with caller code under a lock that is not reentrant; a quota checked only on some paths;
files that change while they are walked, and a debounce that drops events.
`PROJECT.json` lists each hazard at its line with the properties that cover it,
or why none does yet.

What makes each component correct:

* storage: metadata never refers to a vector older than itself, as long as callers
  copy with care; records of one
  session never mix the halves of two inserts; an id has one entry; no open
  builds over an index or drops a flushed sidecar; a handle's index and sidecar
  agree on the dimension; a snapshot holds everything the handle holds;
* query: only accepted live records, nearest first, none passed over, not more
  than asked;
* events: each subscriber sees each event once, in the order of emission;
  a consumer that looks up what it is told of keeps up with the records, in
  whatever order two writers emit; dead senders are pruned; receivers do not hang;
* chunking: every non-blank line is in a chunk, line ranges lie in the file and
  in its order, paragraphs are separated by blank lines, every call returns;
* ingest and watch: a run that returns Ok has every collected line in a flushed
  record; ids leave no gap and reported records are never overwritten; a change
  of a watched file is eventually ingested;
* mock and quota: above a cap a tenant only shrinks, except by the overwrites the
  code lets through; the events reproduce the records; a receive with a deadline
  returns;
* async bridge: a query through it is as right as one without it, under the lock
  for as long as it runs; the tenant is dropped exactly with its last user; every
  call ends.

## 2. Modules

| module | models | extends / used by |
|---|---|---|
| `TenantStore` | directories on disk, the owner process (threads sharing one handle), reader processes, crashes | core |
| `DurableMap` | what a tenant promises: a map with a volatile and a durable half, atomic inserts and deletes | refined by `TenantStore` (`IsDurableMap`) |
| `EventStream` | `EventFilter` and the receiving half of `events.rs`: filter, channel, the three receive calls, the deadline | extended by both producers of events |
| `TenantEvents` | `subscribe` / `emit` of `Tenant`, composed with the store and the streams | extends `TenantStore`, `EventStream` |
| `Broadcast` | what `subscribe` promises: atomic publication to every current subscriber | refined by `TenantEvents` (`BroadcastSpec`) |
| `MockTenant` | `mock.rs`: records under a quota, with consumers on other threads | extends `EventStream` |
| `TenantQuery` | the loop of `query_filtered`; `MockHits`, the same query as the mock computes it | extended by `AsyncBridge` |
| `AsyncBridge` | `asyncs.rs`: futures, the blocking pool, the shared `Arc`, the tenant's lock, writers beside it | extends `TenantQuery` |
| `Chunker` | `paragraphs` and `line_windows`, one step per line or window | extended by `Ingest` |
| `Ingest` | `ingest_tree`, `ingest_file`, `watch_tree`, the directory and its editors | extends `Chunker` |
| `Selection` | `Selected(q, S)`: what `Vec::retain` leaves and `filter` yields | extended by `TenantEvents`, `TenantQuery`, `MockTenant` |
| `MC*` | model values, symmetry sets and small instances | one per model |
| `TenantStoreProofs` | the two layers of the store's invariant and its safety theorems | extends `TenantStore`, `TLAPS` |
| `TenantStoreRefinement` | the store implements `DurableMap`; under the duties of copiers metadata is never ahead of its vector and snapshots are complete | extends `TenantStoreProofs` |
| `SelectionProofs` | induction, folds, and what `Selected` returns | extends `Selection`, `TLAPS` |
| `TenantEventsProofs` | theorems of the event surface and its refinement of `Broadcast` | extends `TenantEvents`, `TenantStoreRefinement`, `SelectionProofs` |
| `TenantQueryProofs` | theorems of the query loop, alone and through the bridge | extends `AsyncBridge`, `SelectionProofs` |
| `MockTenantProofs` | theorems of the mock: types, quota, replicas | extends `MockTenant`, `SelectionProofs` |
| `ChunkerProofs` | loop invariants and theorems of the chunker | extends `Chunker`, `TLAPS` |
| `IngestProofs` | invariant and theorems of the pipeline | extends `Ingest`, `ChunkerProofs` |

### TenantStore

`dir[d]` is the content of four files of directory `d`: `meta` (`meta.json`),
`kind` (`tier.kind`, the first file a create writes), `graph` (`CURRENT` and the
graph and vector files it names, complete last) and `delta` (`delta.log`). A file
is absent (`NoFile`), cut while being written (`Torn`) or whole.

The data of an insert (embedding, flag, tags, payload) is abstracted to a
*version*: `InsertIndex` writes the version into the delta log, `InsertSidecar`
writes the same version into the in-memory sidecar. A record is torn when the
two differ. 0 means no vector.

`h` is the owner's handle: directory, the id `open` was called with, the
in-memory sidecar, and (history) the first version of this session. `lock` is
the inner mutex, `pc`, `ev`, `cp` say where each thread is inside its call and
what it still has to emit or copy, `req` holds the arguments of an open in
progress. `ro` holds the read-only view of each reader process. `saved` is a
history variable: what a flush, snapshot or restore that *returned* put on disk.

| action(s) | code |
|---|---|
| `OpenExisting`, `OpenAdopt`, `OpenCreate` + `CreateIndex`, `SidecarTruncate` + `SidecarFill` | the three branches of `open` and `write_to_path` (`fs::write` = truncate, then fill) |
| `CreateNew` | `create_new` |
| `InsertIndex`, `InsertSidecar`, `EmitDone` | `insert`: engine, sidecar + unlock, event |
| `Delete`, `EmitDone` | `delete` of a present id; of an absent one it is no step |
| `Flush` / `FlushFill` / `FlushError` | `flush`: truncate, fill, or the write fails and the error is returned |
| `Consolidate` | `consolidate` (atomic in the engine) |
| `Snapshot`, `FlushFill`, `CopyFile`, `CopyError`, `SnapshotDone` | `snapshot`: flush, then `copy_dir_contents` in directory order, without the lock |
| `RestoreFrom`, `CopyFile`, `CopyError`, `RestoreOpen` | `restore_from` |
| `Destroy`, `RemoveFile`, `DestroyDone` | `destroy`: the handle is dropped, then `remove_dir_all` in any order |
| `Close` | dropping the handle: nothing is flushed |
| `ReadSidecar`, `ReadIndex`, `CloseView` | `open_readonly_at` in another process, and its drop |
| `Crash` | the owner dies anywhere; a file being copied may be left cut |

Calls that return an error without changing anything are no step. The `ver` of an
event tells the calls apart for the history variables and the broadcast; the events
of the code carry the record id (and the flag) only, and no property lets a receiver
order events by it.

`snapshot` and `restore_from` copy without a lock into whatever the target holds:
`snapshot` takes any directory that exists (tenant.rs:447), `restore_from` any without a
`meta.json` (344), and so do `Snapshot` and `RestoreFrom`. `Spec` has the snapshots into
any directory but the tenant's own (`SnapshotElsewhere`); the code does not refuse that
one either. Three *duties*, which nothing in the code sees to, say when copies go well:

* `Undisturbed`: while a snapshot copies, nobody writes the tenant's files or records;
* `EndsClean`: a copy that ends, fails or is cut leaves no older file of its target
  beside one it has copied (a snapshot that returns never does, nor a copy into an empty
  directory);
* `ReadersApart`: no directory is copied onto between the two reads of a reader.

`IsDurableMap` maps this to `DurableMap`: `Records` is the map of the open tenant
(an insert counts from its first write on, since nobody sees the tenant before
the lock is free), `Disk` the metadata of each directory (whole, absent, or lost
because it was cut), `Vectors` what its index would return, `Targets` the
directories being copied over or removed, the only ones of whose content
`DurableMap` promises little.

### EventStream and TenantEvents

`chan`, `filter`, `call` and `late` are a stream's channel, filter, the receive
call its consumer is in, and whether the deadline of that call has passed.
`Begin` enters a call; `SkipEvent` and `TakeEvent` are one turn of its loop (drop
a filtered event, return an accepted one); `GiveUp` is every exit without an
event (`Empty`, `Timeout`, `Disconnected`), each only from an empty channel.
`Deadline` may come at any time during a `recv_timeout`. `DropStream` drops the
receiver.

`subs` is the vector of senders, `em` the emission holding the subscribers'
mutex (its thread, position, and the receivers that were gone when it began).
`EmitStart`, `EmitSend`, `EmitEnd` are the walk of `retain`; they replace the
store's one-step `EmitDone`. `Store` is any other step of `TenantStore`; dropping
the tenant drops the senders. `Die` is the crash, which takes the streams with
it. `got`, `owed` and `seen` are history: `seen` is the records as a consumer knows them
that has read them all once (`ReadAll`, under the inner mutex as `iter_vectors` does) and
looks an id up when an event about it arrives (`LookedUp`).

`BroadcastSpec` maps a subscriber's queue to its channel followed by the event
that is under way to it, so that an emission is published the moment it takes
the mutex.

### MockTenant

`insert` and `delete` take `&mut self`, so each is one step with its emission
(`Emit`, which also drops the senders whose receiver is gone); consumers run between them. A record is its id, its flag and
its estimated size; `Allowed` is the quota check of a growing insert. `entitled` is
the usage no refusal can take back: what the tenant held when a stricter quota
was set, and what overwrites added since; deletes lower it. `replica` is the copy of
the records a consumer keeps by applying the events it receives.

### TenantQuery

A query sees the index as a sequence of its vectors by falling similarity, each
a *ghost* (no sidecar entry), *rejected* by the filter or *accepted*; a hit is a
position. `Candidates` is `max(4 * top_k, 64)` with both numbers as constants.
`MockHits` is the mock's `query_filtered`: filter, sort, truncate.

### AsyncBridge

A call of `query_filtered_async` has a `future` (none, awaits, resolved, panicked,
cancelled) and a `task` in the pool (queued, locking, looping, stuck, over,
failed); `via` is the bridge the future borrows, `strong` the count of the `Arc`,
`lock` the task that holds the inner mutex while it runs `TenantQuery`'s loop.

| action(s) | code |
|---|---|
| `Call` | the first poll: clone the `Arc`, `spawn_blocking` |
| `Start`, `Mismatch` | a thread of the pool takes the task; a wrong dimension is refused without the lock |
| `Lock`, `Loop`, `Finish`, `SearchError` | the locked part of `query_filtered`; the guard and the `Arc` are dropped on return |
| `Unwind`, `Reenter` | the filter panics (the guard unlocks, `expect` in the future panics) or calls the tenant whose lock its task holds |
| `Resolve`, `Cancel` | the future yields the task's result, or is dropped while the task goes on |
| `Close` | `close_async` or a drop: lets go of the `Arc`, once no future borrows the bridge |
| `Write` | an insert or delete on `SyncToAsync::inner`, under the same lock |

### Chunker and Ingest

A line is blank or not; a chunk is its range of lines. `pos`, `start`, `buf` and
`out` are the loop variables of `paragraphs`; `line_windows` uses `pos` and `out`.
`BlankLine`, `TextLine`, `EndOfText` are the branches of the first loop and its
end, `Window` and `PastTheEnd` the body and the condition of the second.

A record of `Ingest` is the file it came from, the number of the save that was
read (for its payload) and its range of lines (its `src:` tag). `recs` is what
the writer holds, `disk` what its last flush persisted. `known` is the `next_id`
the caller learned from `progress`, the result or `on_batch`, and hands to the
next call, as `IngestStats::next_id` asks. `took`, `ingested` and `result` are
history.

| action(s) | code |
|---|---|
| `TreeStart`, `NextFile`, `TreeProgress`, `TreeDone` | `ingest_tree`: `collect_files`, the loop over the sorted files, `progress`, the flush (which may fail) |
| `ReadFile` / `ReadFails`, `Split`, `Insert` / `InsertFails` | `ingest_file`, shared by both callers; an error ends `ingest_tree` without a flush, and `watch_tree` goes on with its old `next_id` |
| `WatchStart`, `TakeEvent`, `SkipEvent`, `BatchDone` | the event loop of `watch_tree`: `is_file` and the debounce, `last_seen` set before the read, the flush whose result is ignored, `on_batch` |
| `Expire` | 800 ms have passed since a path was last taken |
| `Save` | an editor saves, cuts or removes a file at any time; a save sends one or two events |

`DirectInit` starts a program that only calls the public `chunk`, with any mode.

## 3. What the runs check

| run | instance | shows |
|---|---|---|
| `store_threads` | 1 directory, 2 ids, 2 threads, 1 reader, 3 inserts | `TypeOK`, `CallsConsistent`, `NoTearWithinSession`, `OneEntryPerId`, `MetadataNeverAhead`, `IsDurableMap` under concurrency, crashes and a reader (388k states) |
| `store_lifecycle` | 2 directories, 1 id, 2 dimensions, 1 thread, 2 inserts | `HandleDim`, `FlushedOrTorn`, `SnapshotComplete`, `IsDurableMap` across snapshots and restores into empty and used directories, destroys, failed writes and crashes (2.0M states) |
| `events_writers` | sessions of 2 writers, 2 streams, 2 inserts of one id | `EveryEventOnce`, `DeadPruned`, and `BroadcastSpec`: the emission refines the atomic broadcast |
| `events_session` | sessions of 2 writers, 1 stream, any filter, every receive call, 2 inserts of one id, fairness | `EventsTypeOK`; `CacheFollows` although emissions overtake each other; `ChangeDelivered`, `CallsReturn` |
| `mock` | 2 ids, sizes and caps 1 and 2, one stream, `recv_timeout` | `TypeOK`, `UsageWithinQuota` under every order of inserts, overwrites, deletes and quotas; `ReplicaFollows`; `TimedOutUnlessBusy` |
| `bridge_query` | 2 calls, 2 bridges, pools of 1 and 2 threads, rankings up to 3 with at most one ghost, top_k 0 and 2, factor 2, floor 1 | `HitsSound`, `NoneSkipped`, `HitsBounded`, `AgreesWithMock`, `BridgeTypeOK`, `DroppedWithLast`, `OnlyCancelledOutlive`, `CallsEnd` (440k states) |
| `ingest_tree` | direct calls of `chunk`: every text up to 6 lines, every window and step up to 3; pipeline: a prose and a source file, 2 runs, a watch, 2 saves | `ChunksInOrder`, `ChunksCover`, `ParagraphsSeparate`, `TreeCovers`, `IdsDense`, `ReportedKept`, `Returns` while files change and reads, inserts and flushes fail |

`IsDurableMap` is the strongest statement about the store: every interleaving of
its writes, failures and crashes is one of a map whose inserts and deletes are
atomic and whose metadata on disk changes only by a flush, a create or a copy
that was asked for. `CacheFollows` is the strongest about the events: two writers may
emit in the opposite order of their inserts and deletes (the inner mutex is free
before `emit`), and since an event carries nothing to put them right, a consumer that
*replays* events may keep a record the tenant has deleted. What holds is that every
change is followed by an event about its id: one that *looks the id up* when the event
arrives ends with the tenant's records. `AgreesWithMock` compares
the two implementations of `query_filtered`: as long as the candidate list has
room for the whole index, ghosts included, and `top_k` is not 0, a query of `Tenant`
returns the hits that the mock, which tests run against, would return.

Five runs refute what a doc or comment says; each is a finding in `PROJECT.json`:

| run | refuted | what happens |
|---|---|---|
| `flush_crash` | `DurableFlush` (write.rs:41-42) | flush, insert, flush again and fail or die after the truncate: `meta.json` does not parse, the first flush is lost with it |
| `reader_snapshot` | `ReaderNeverPartial` (readonly.rs:13-15) | a reader pairs the metadata of one insert with the vector of another |
| `unlocked_snapshot` | `CountedIsVisible` (accounting.rs:38) | a consolidate during the copy: graph copied before it, delta log after it; or a crash after `meta.json` was copied over an older index: either opens and counts records without a vector |
| `query_ghosts` | `OversampleEnough` (tenant.rs:538-539) | 64 deleted vectors nearer than the live ones: the query returns nothing |
| `watch_live` | `KeptLive` (ingest lib.rs:16-17, 259-260) | the watch reads a file in the middle of a write and fails; the write is completed within 800 ms, its events are debounced, the content is never ingested |

Read with them: `FlushedOrTorn` says the first failure is the *only* way a
flushed sidecar is lost, and it is loud (the open fails); `MetadataNeverAhead`
says the mixture a reader or a reopened tenant sees is newer vector with older
metadata, never the reverse, *where nothing was copied or the copies met the duties*.
Where they did not the reverse happens, in two ways that `unlocked_snapshot` reaches in the
same number of steps: another thread disturbs the copy, or a crash cuts it in a used
directory (of an older snapshot, say, or of a cut create) and leaves new metadata beside an
old index that opens. With `Threads <- OneThread` only the second is left. The theorems of
section 4 show that no other way leads there.

Divergences met while modelling that no run is spent on: `query_filtered` with
`top_k = 0` returns one hit (tenant.rs:570, against filter.rs:70), which
`HitsBounded` spells out; `snapshot` into the tenant's own directory copies every file
onto itself, which truncates it, and returns `Ok` (tenant.rs:447-452, against
lifecycle.rs:86-87, by which the target can be restored from); `restore_from` promises
"a fresh directory" (tenant.rs:340-341) and takes one with leftovers as long as it has no
`meta.json`, with which the copied files mix if the copy is cut; `open` with
another tenant id than the sidecar's
succeeds and the handle reports the argument (tenant.rs:172, against
tenant.rs:210); an overwrite in the mock may pass the byte cap (mock.rs:112,
against accounting.rs:53-54; mock.rs:93-94 allows it); `on_batch` gets the
statistics of one file (ingest lib.rs:255-258), where its doc says cumulative
(203-204);
`iter_vectors` collects all vectors (tenant.rs:502) where iter.rs:10-12 forbids
buffers proportional to the record count; `destroy` ignores `read_only`;
`recv_timeout` reads the channel before it looks at the clock, so under endless
traffic its filter rejects it outlives its timeout (events.rs:198-207, against
194-197), which `TimedOutUnlessBusy` spells out; `close_async` returns while a
cancelled call still uses the tenant, as `OnlyCancelledOutlive` says.

### Bounds, and why they are enough

* `MaxVer` (inserts in a behaviour) is the only bound on the length of a
  behaviour's data: two versions tear a record, the third of `store_threads`
  lets a second session tear one that survived the first.
* One read-write handle (`h`) in the whole process: opens and restores run while none
  is open and no other thread is inside a call. This is stricter than
  meta_sidecar.rs:9-12, which allows one per directory; it leaves out a restore or an
  open of another directory beside an open tenant, so in the model no copy of a
  restore races a writer of its source (a snapshot's does).
  Threads beyond two repeat the second: the lock admits one, the other waits.
* Targets of snapshots and restores may hold anything; a snapshot into the tenant's own
  directory is left out of `Next`: it ruins the tenant, and no property says anything of it. Of a used target the model has the four files, which a copy
  overwrites one for one, and not the engine's own segments that the source no longer
  has and the copy leaves behind.
* `Dims` has two values in `store_lifecycle`, so opens with a wrong dimension occur.
* Each stream of `TenantEvents` is subscribed once; a second stream plays the
  later subscriber. Its runs start with a tenant just created and leave out the
  lifecycle calls: `TenantStore`'s own runs check those, and the theorems about
  events hold for the whole of `EventsNext`.
* `mock`: caps 1 and 2 are reached by one and by two records, by bytes and by
  count, and a quota can be set below the usage; `ChanMax` bounds a channel at 2.
* `bridge_query` uses factor 2 and floor 1, and top_k 0 and 2 (`AgreesWithMock` leaves 0 out,
  `HitsBounded` says one hit for it), so that the candidate
  list is shorter than the ranking, equal to it and longer; one ghost is enough to
  be passed over, and the theorems cover rankings of any length.
  `query_ghosts` uses the code's 4 and 64. With two calls a pool of one thread has
  a queue; with two bridges one can be closed under the other.
* `ingest_tree`: texts of six lines and windows of three give paragraphs and
  windows that begin, end and overlap in every way; window 3 and step 2 stand
  for the code's 40 and 30. Two saves let a file change before and after it is
  read, and let a watch take two events of one file; a second run continues
  after a failed one. The chunker's theorems cover all sizes.
* Symmetry is used where only safety is checked.
* Deadlock is off where the system may stop: a create cut after `tier.kind`
  leaves a directory that no open accepts (`index_exists` holds, the engine's
  open fails), and inserts run out at `MaxVer`; a query stops when it returns, a
  watch when nobody saves.

### External assumptions

skeg-vector is not in the repository. Assumed of it: `create_empty` writes
`tier.kind` first and `CURRENT` last (tenant.rs:108-110); an insert that returned
is durable (tenant.rs:121-123) and a crash inside it leaves it there or not;
`open` fails on an incomplete or cut index; `consolidate` is atomic; `search`
returns the nearest vectors, at most as many as asked. mpsc channels are FIFO and
`send` fails exactly when the receiver is gone. `notify` sends at least one create
or modify event for every save, in order, and none of these kinds for a removal.

### Fairness

`FairSession` gives weak fairness to the emission of each thread (a thread inside
`emit` never waits for anything but the subscribers' mutex, whose holder only
walks a finite vector) and to a consumer that keeps calling a receive function.
Nothing makes a caller insert, flush or open: no liveness is claimed of them.
`ChangeDelivered` and `CallsReturn` need no more. `MockTenant!Spec` is fair to a
consumer inside a call and to the clock: `TimedOutUnlessBusy` holds unless the
tenant changes for ever. `AsyncBridge!BridgeSpec` assumes only that while some
task of the pool can go on, one does, and while some future was woken, one is
polled: `CallsEnd` needs no fairness among tasks, since each of them ends; a
filter that calls back is excluded by its premise. `Ingest!Spec` gives weak fairness
to the thread that runs `chunk`, `ingest_tree` or `watch_tree` (`Work`), which waits
for nothing but I/O that returns; editors and the clock need none.

## 4. What is proved

TLAPS proves for every value of the constants, from the two named assumptions of
`TenantStore` (the sentinels differ from real contents; the bounds are what they
should be) and those of `EventStream`, `TenantEvents`, `MockTenant`, `TenantQuery`,
`AsyncBridge`, `Chunker` and `Ingest` (filters are sets of kinds, rankings and texts are sequences,
there are finitely many bridges and calls, modes are chunk modes, sentinels differ). The last
five theorems of the store have premises besides, named in the table and spelled out below:

| theorem | property |
|---|---|
| `TenantStoreProofs!TypeCorrect` | `TypeOK` |
| `TenantStoreProofs!CallsAreConsistent` | `CallsConsistent` |
| `TenantStoreProofs!HandleMatchesIndex` | `HandleDim` |
| `TenantStoreProofs!OneEntry` | `OneEntryPerId` |
| `TenantStoreProofs!FlushedStaysUnlessTorn` | `FlushedOrTorn` |
| `TenantStoreProofs!InsertsAreAtomic` | `NoTearWithinSession` |
| `TenantStoreRefinement!StoreIsDurableMap` | `IsDurableMap` |
| `TenantStoreRefinement!VectorsFirst` | `MetadataNeverAhead`, if `[][Undisturbed]`, `[][EndsClean]` and `[]ReadersApart` |
| `TenantStoreRefinement!VectorsFirstUncopied` | `MetadataNeverAhead`, with one directory |
| `TenantStoreRefinement!VectorsFirstAlone` | `MetadataNeverAhead`, with one thread and no reader, if `[][EndsClean]` |
| `TenantStoreRefinement!SnapshotIsComplete` | `SnapshotComplete`, if `[][Undisturbed]` |
| `TenantStoreRefinement!SnapshotIsCompleteAlone` | `SnapshotComplete`, with one thread and no reader |
| `TenantEventsProofs!EventsTypeCorrect`, `DeadArePruned` | `EventsTypeOK`, `DeadPruned` |
| `TenantEventsProofs!EventsAreBroadcast` | `BroadcastSpec` |
| `TenantEventsProofs!LookupsSuffice` | `CacheFollows` |
| `TenantEventsProofs!EventsArriveOnce` | `EveryEventOnce` |
| `MockTenantProofs!MockTypeCorrect`, `QuotaIsKept`, `ReplicasFollow` | `TypeOK`, `UsageWithinQuota`, `ReplicaFollows` |
| `TenantQueryProofs!SameHitsAsMock`, `AsyncSameHitsAsMock` | `AgreesWithMock` (every `top_k` but 0), alone and through the bridge |
| `TenantQueryProofs!BridgeTypeCorrect`, `DropsWithLast`, `CancelledOutlive` | `BridgeTypeOK`, `DroppedWithLast`, `OnlyCancelledOutlive` |
| `TenantQueryProofs!AsyncSound`, `AsyncExhaustive`, `AsyncBounded` | the three query properties, through the bridge |
| `TenantQueryProofs!TypeCorrect`, `Sound`, `Exhaustive`, `Bounded` | `TypeOK`, `HitsSound`, `NoneSkipped`, `HitsBounded` |
| `ChunkerProofs!NoLineLost`, `RangesInOrder`, `SplitOnBlankLines`, `ChunkTypeCorrect` | `ChunksCover`, `ChunksInOrder`, `ParagraphsSeparate`, `ChunkTypeOK` |
| `IngestProofs!IngestTypeCorrect`, `IdsAreDense`, `ReportedRecordsStay`, `NothingIsMissing` | `IngestTypeOK`, `IdsDense`, `ReportedKept`, `TreeCovers` |
| `IngestProofs!ChunksAreRight` | the three chunk properties, inside the pipeline |

**Store, first layer.** `IInv` is `TypeOK`, `CallsConsistent`, `HandleDim` and
`Creating`, which says that a create in progress has already written `tier.kind`,
so that the index it completes opens.
They need each other: the type of a step that writes through `h` or `req` comes
from `CallsConsistent`; `HandleDim` survives `CopyFile` and `RemoveFile` because
`CallsConsistent` keeps them away from the open directory. One lemma per
action, one step per conjunct the action can disturb.

**Store, second layer.** `SafeInv` adds `OneEntryPerId`, `Flushed`, `Versions` and
`Session`. `FlushedOrTorn` alone is not inductive: an adoption in progress would
write an empty sidecar over a flushed one, so `Flushed` adds that nothing counts
as flushed in a directory under creation or removal. `NoTearWithinSession`
speaks only of states with a free lock; `Session` also describes the state
between the two writes of an insert (the id in flight is excused, and its event
carries the vector's version), and `Versions` says every sidecar is older than
`nextVer`, so that what an open reads never counts as written in this session.

**Store, refinement.** `RInv` is `SafeInv` and `Booting`: a create or an adoption that
has not written the sidecar yet finds none, so that what it writes is a creation
of the map and never an overwrite. One lemma per action names the step of
`DurableMap` it is: `InsertIndex` is the map's insert and `InsertSidecar` a stutter,
`SidecarTruncate` the loss that `SidecarFill` turns into a creation, `Consolidate` a
stutter because `Index` merges graph and log in the same way. `TargetsApart` keeps
copies and removals away from the open directory.

**Store, what the index holds.** `MetadataNeverAhead` is not true of every program
that uses the crate: a copy that another thread writes
under, or one that is cut in a used directory, can pair the sidecar of one moment with
the index of an earlier one. The theorems name what callers must do for it, the three
duties of section 2, as formulas over the behaviour (`[][Undisturbed]_vars` and so on)
and not as assumptions on constants. `DutiesMet` proves that two of them hold by
themselves, `Undisturbed` and `ReadersApart`, when there is only one directory
(`Uncopied`: any number of threads and readers, the instance of `store_threads`) and when
there is one thread and no reader (`Single`, the instance of `store_lifecycle`). With one
directory `EndsClean` holds too (`NothingCopied`), hence `VectorsFirstUncopied`. With one
thread it remains a premise of `VectorsFirstAlone`: without it a snapshot cut in a used
directory is a counterexample. `SnapshotComplete` never needs `EndsClean`, since a copy that returns
has overwritten every file.

Two invariants carry this. `KInv` is `RInv` and `Copies`, which says file by file what a
copy in progress has: that only one call copies, that each file it is done with is the
source's, and that a snapshot copies the sidecar it has just flushed. `SnapshotComplete`
follows from it at the step that ends the copy. `CInv` adds `Covered`: a vector at least as
new as the entry of every sidecar that can be read next to an index. The handle alone
is not inductive, since an open takes what the disk holds; the disk is not, since a
copy is read by a later restore or open; and a reader is covered from its first read on,
though its vector may also have gone with its directory. A target in the middle of
a copy is excused, as nobody opens it there; `EndsClean` is what brings it back under
`Covered` when the copy ends, and `ReadersApart` keeps readers from it meanwhile.

**Events.** `EInv` is `IInv` and the types with what an emission relies on: a call
that is to emit has its event (`Announced`), the emission in progress is one
(`Emitting`), a stream is registered once, by `subscribe` (`Registered`), what is not
live holds nothing (`Streams`), and behind the walk there is no sender that was dead
when it began (`Walked`), although `RemoveAt` shifts the rest under it (`Removed`).
For the broadcast, `EmitStart` publishes; `EmitSend` moves the event from
`InFlight` to the channel, which needs `Registered`, or removes a sender that
nobody listens to; the rest stutters. That the published versions are in the range
of the broadcast (`Numbered`) is proved of the *map*, through
`StoreIsDurableMap`'s step, and not action by action of the store.
`AInv` is `CacheFollows` with its parts named: for a stream whose consumer follows
(`Follower`), each id is `InStep`, which means that the consumer agrees with the handle, or
an event about the id is on its way to it (`Coming`: in the channel or in flight), or a
thread is about to emit one (`Unsent`). The step that changes a record makes its own event
`Unsent` (`ChangeFollows`); the start of the emission turns `Unsent` into `Coming` for every
stream that listens, which needs `Registered`; a receive takes an event away and looks its
id up, after which the two agree. `Attended` (nobody is subscribed to a closed tenant)
is what makes it survive an open, which replaces all records at once.
`EveryEventOnce` is the conjunct `Balanced` of `OInv`: what a stream received, and of
what waits in its channel or is under way to it what its filter accepts, is what it
is owed. An emission adds to both sides at its start, `EmitSend` moves the event, a
receive drops what the filter rejects from one side of an equation that does not
count it; `SelectedConcat` is what makes the pieces add up.

**Mock.** `MockInv` is the types, the two properties and `Connected`: a live stream of an
open tenant is among its senders, and no event waits for one that is not live, so that
an `Emit` reaches every replica. The two properties are sums and replays over
sequences of any length: `StoredRecords` and `WithoutRecords` say what an insert or a
delete does to the bytes, the count and the flags (which needs that ids are distinct,
`DistinctSelected`), `ReplayAppend` and `ReplayFirst` what an event added behind or taken
from the front does to the replay.

**Selection.** The sums, replays and selections of the models are `FoldLeft`s. The
library's definition is a `CHOOSE` of a recursive function over sets of positions:
`FoldExists` and `FoldUnique` show that there is one and only one, `IterateAppend` and
`IterateFirst` unfold it at either end, and the `Selected...` lemmas follow. The induction
they need is not the library's theorem, whose parameter is an operator, but a
lemma about a *set* that contains 0 and every successor, proved from the least
element of its complement (`WFMin`). `Selected` stands where one would write
`SelectSeq`, which the tools compute by themselves and nothing can be proved of.

**Bridge.** The invariant counts: `strong` is the number of open bridges plus the
unfinished tasks, so it reaches 0 exactly with the last; a pending future borrows
an open bridge; and the loop variables are fresh while no task is in the loop, so
that the query's own invariant starts anew with every task. Writers are kept out of the
loop by the lock.

**Query.** The invariant says that hits are accepted candidates already passed,
in order (`Ordered`), that every accepted candidate passed is a hit (`Complete`),
and that the loop stops only when full or at the end (`Room`). `Filtered` says in addition
that the hits so far are the selection of the accepted among the candidates passed,
in their order; at the end of a list that holds the whole ranking, or at `top_k` hits,
this is the mock's filter, sort and truncate. `SelectedShorter` bounds it.

**Chunker.** `ParagraphLoop`: the lines before `pos` are chunked or, the last `buf`
of them, buffered, and a chunk before the buffer is separated from it by a blank
line. `WindowLoop`: no chunk starts after `pos`, and with a step not wider than the
window all lines up to `pos` are covered.

**Ingest.** `IngestInv` is the types, the chunker's invariant, `Place` (where the
thread is, and that the chunker's locals are fresh before a file is read) and
`Numbers` (no gaps below the next id, which is never behind what was reported):
a record can only be written at or above `known`. `TreeInv` adds what
`TreeCovers` needs in the middle of a run: the files behind it are in the writer
below `id` (`Behind`), and so are the chunks of the current one before `next`
(`Current`); `ChunksCover` closes the gap from chunks to lines.

Only model-checked:

* Liveness under fairness, which is out of the prover's reach: `ChangeDelivered`,
  `CallsReturn`, `TimedOutUnlessBusy`, `CallsEnd`, `Returns`.
* The violations: a theorem about every value of the constants cannot refute, the
  five traces do.

Every invariant and every safety property of the passing runs is the subject of a
theorem; those that speak of copies carry the duties above where they are
false without them.

## 5. Not modelled

* `iter_vectors`, `stats`, `sum_dir_bytes`, `record_count`: they only read.
* Embedding backends (floating point, HTTP), benches, identifiers and errors.
* Snapshot and destroy called on a handle opened read-only; several read-write handles
  on one directory, which meta_sidecar.rs:9-12 rules out, and several on different
  directories in one process, which it does not.
* Engine segments left behind in a used target of a copy, and the memory of unbounded
  channels.
* Filters of `Tenant::query_filtered` that call the tenant from a thread of their
  own; `Reenter` is the call from the filter's own thread.
* Of the bridge: `open_readonly_async`, a placeholder that always fails, and the
  shutdown of the runtime, which drops queued tasks. `iter_vectors_async`,
  `record_count_async` and `embedding_dim_async` take the path of `Call` around a
  call without a filter.
* Of the mock: `iter_vectors` and the getters, which only read.
* In `Ingest`: the vectors and the crash of the process (`TenantStore`), the
  extension and exclude filters (`Paths` is what passes them), the options no
  later step reads, and the clock: `Expire` may come at any time.

## 6. Plan

1. *Done*: the storage core with two layers of safety theorems; `DurableMap` and its
   refinement; the event surface, its refinement of `Broadcast` and its theorems; the
   query loop, the mock and the async bridge; the chunker and the pipeline; theorems
   for every safety property the runs check.
2. A `snapshot` and a `destroy` of read-only handles beside the owner; a handle per
   directory, so that a restore can run beside an open tenant.
3. `DurableMap` as the writer `Ingest` assumes: a crash between the inserts of a
   file and its flush, with the ids the caller then continues from.
4. Proofs for what these two add; a refinement of an atomic query (the hits as a
   function of the ranking) for the bridge.
