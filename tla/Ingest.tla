------------------------------- MODULE Ingest -------------------------------
(***************************************************************************)
(* skeg_rigging_ingest: ingest_tree and watch_tree (src/lib.rs) over the   *)
(* chunker, a writer (TenantWrite) and a directory that others edit.       *)
(*                                                                         *)
(* A record stands for one chunk: the file, the save of the file it was    *)
(* read from, and the range of lines in its src: tag.  Vectors are left    *)
(* out: what a crash does to the two halves of a record is TenantStore's.  *)
(***************************************************************************)
EXTENDS Chunker

CONSTANTS
    Paths,      \* files under the root that accepts() lets through, in order
    ModeOf,     \* ChunkMode::for_ext of each
    Contents,   \* what an editor may save
    Absent,     \* there is no such file
    Unreadable, \* not a whole UTF-8 file: cut in the middle of a write
    None,
    MaxRuns,    \* bound: calls of ingest_tree
    MaxSaves    \* bound: changes made by editors

ASSUME IngestAssumption ==
    /\ Paths \subseteq Nat /\ None \notin Nat
    /\ ModeOf \in [Paths -> Modes]
    /\ Absent \in Contents /\ Contents \subseteq Texts \cup {Absent, Unreadable}
    /\ {Absent, Unreadable, None} \cap Texts = {} /\ <<>> \in Texts
    /\ MaxRuns \in Nat /\ MaxSaves \in Nat

VARIABLES
    file,       \* content of each path
    save,       \* number of the last change of each path
    saves,      \* changes so far
    run,        \* the call in progress: "tree", "watch" or "none", or else
                \* "chunk" and "returned" for a program that only calls chunk
    runs,       \* calls of ingest_tree so far
    todo,       \* ingest_tree: collected files not ingested yet
    events,     \* watch_tree: paths of the create and modify events received
    recent,     \* watch_tree: paths whose last_seen is within the debounce
    nextId,     \* watch_tree: next_id
    at,         \* the path ingest_file is called for
    reading,    \* ingest_file has not read it yet
    next,       \* ingest_file: the chunk to insert
    id,         \* stats.next_id
    recs,       \* the records of the writer, by id
    disk,       \* the records of its last flush
    known,      \* history: the next_id last reported to the caller
    took,       \* history: what each file ingest_tree collected held when read
    ingested,   \* history: the save each path was last ingested from
    result      \* history: what the last ingest_tree returned

dirVars    == <<file, save, saves>>
treeVars   == <<runs, todo, result>>
watchVars  == <<events, recent, nextId>>
fileVars   == <<at, reading, next>>
writerVars == <<id, recs, disk>>
histVars   == <<known, took, ingested>>
ingestVars == <<dirVars, run, treeVars, watchVars, fileVars, writerVars, histVars, chunkVars>>

-----------------------------------------------------------------------------
IdleInit ==
    /\ file \in [Paths -> Contents]
    /\ run = "none"
    /\ mode \in {ModeOf[p] : p \in Paths}
    /\ text = <<>> /\ pos = 0 /\ start = 1 /\ buf = 0 /\ out = <<>> /\ chunking = FALSE

\* chunk is public: a program may use it on its own, with any mode.
DirectInit ==
    /\ file = [p \in Paths |-> Absent]
    /\ run = "chunk"
    /\ ChunkInit

Init ==
    /\ IdleInit \/ DirectInit
    /\ save = [p \in Paths |-> 0] /\ saves = 0
    /\ runs = 0 /\ todo = {} /\ result = "none"
    /\ events = <<>> /\ recent = {} /\ nextId = 0
    /\ at = None /\ reading = FALSE /\ next = 1
    /\ id = 0 /\ recs = [i \in {} |-> None] /\ disk = recs
    /\ known = 0 /\ took = [p \in {} |-> None] /\ ingested = save

-----------------------------------------------------------------------------
(* The directory.                                                          *)

\* An editor saves, cuts or removes a file.  A save emits one or more create
\* and modify events; a removal emits none of these kinds.
Save(p, c) ==
    /\ run \notin {"chunk", "returned"} /\ saves < MaxSaves
    /\ c # file[p]
    /\ file' = [file EXCEPT ![p] = c]
    /\ saves' = saves + 1
    /\ save' = [save EXCEPT ![p] = saves']
    /\ IF run = "watch" /\ c # Absent
       THEN \E n \in 1 .. 2 : events' = events \o [k \in 1 .. n |-> p]
       ELSE UNCHANGED events
    /\ UNCHANGED <<run, treeVars, recent, nextId, fileVars, writerVars, histVars, chunkVars>>

-----------------------------------------------------------------------------
(* ingest_file, shared by both callers.                                    *)

Idle     == at = None
Reading  == at # None /\ reading
Splitting == chunking
Writing  == at # None /\ ~reading /\ ~chunking

Enter(p) == at' = p /\ reading' = TRUE /\ UNCHANGED next
Leave    == /\ at' = None /\ reading' = FALSE /\ next' = 1
            /\ text' = <<>> /\ pos' = 0 /\ start' = 1 /\ buf' = 0 /\ out' = <<>>
            /\ chunking' = FALSE /\ UNCHANGED mode

\* An error ends ingest_tree, without a flush; watch_tree goes on with the
\* next event, and with the next_id it had before the file.
FailedId(i)  == i + 1                         \* mutant: the failed id is skipped
KeptId(i)    == i

FileFails ==
    /\ Leave
    /\ IF run = "tree" THEN run' = "none" /\ todo' = {} /\ result' = "err"
                       ELSE UNCHANGED <<run, todo, result>>
    /\ nextId' = KeptId(nextId)
    /\ UNCHANGED <<dirVars, runs, events, recent, writerVars, histVars>>

ReadFile ==
    /\ Reading /\ file[at] \in Texts
    /\ Begin(file[at], ModeOf[at])
    /\ reading' = FALSE /\ next' = 1
    /\ took' = [p \in DOMAIN took |-> IF p = at THEN file[at] ELSE took[p]]
    /\ ingested' = [ingested EXCEPT ![at] = save[at]]
    /\ UNCHANGED <<dirVars, run, treeVars, watchVars, at, writerVars, known>>

ReadFails ==
    /\ Reading /\ file[at] \notin Texts
    /\ FileFails

Split ==
    /\ Splitting /\ ChunkNext
    /\ IF run = "chunk" /\ ~chunking' THEN run' = "returned" ELSE UNCHANGED run
    /\ UNCHANGED <<dirVars, treeVars, watchVars, fileVars, writerVars, histVars>>

Record(c) == [path |-> at, save |-> ingested[at], lo |-> c.lo, hi |-> c.hi]

SkipOne(n)   == n + 2                         \* mutant: every other chunk
NextChunk(n) == n + 1

Insert ==
    /\ Writing /\ next <= Len(out)
    /\ recs' = [i \in DOMAIN recs \cup {id} |->
                   IF i = id THEN Record(out[next]) ELSE recs[i]]
    /\ id' = id + 1
    /\ next' = NextChunk(next)
    /\ UNCHANGED <<dirVars, run, treeVars, watchVars, at, reading, disk, histVars, chunkVars>>

\* The embedder or the writer returns an error for this chunk.
InsertFails ==
    /\ Writing /\ next <= Len(out)
    /\ FileFails

AllInserted == Writing /\ next > Len(out)

-----------------------------------------------------------------------------
(* ingest_tree                                                             *)

\* Called with the next_id last reported; collect_files walks and sorts.
TreeStart ==
    /\ run = "none" /\ runs < MaxRuns
    /\ run' = "tree"
    /\ runs' = runs + 1
    /\ todo' = {p \in Paths : file[p] # Absent}
    /\ took' = [p \in todo' |-> None]
    /\ result' = "none"
    /\ id' = known
    /\ UNCHANGED <<dirVars, watchVars, fileVars, recs, disk, known, ingested, chunkVars>>

NextFile(p) ==
    /\ run = "tree" /\ Idle
    /\ p \in todo /\ \A q \in todo : p <= q
    /\ Enter(p)
    /\ todo' = todo \ {p}
    /\ UNCHANGED <<dirVars, run, runs, result, watchVars, writerVars, histVars, chunkVars>>

\* progress(&stats)
TreeProgress ==
    /\ run = "tree" /\ AllInserted
    /\ Leave
    /\ known' = id
    /\ UNCHANGED <<dirVars, run, treeVars, watchVars, writerVars, took, ingested>>

NoFlush(r) == disk                            \* mutant: Ok without a flush
Flushed(r) == r

TreeDone ==
    /\ run = "tree" /\ Idle /\ todo = {}
    /\ run' = "none"
    /\ \/ disk' = Flushed(recs) /\ result' = "ok" /\ known' = id
       \/ result' = "err" /\ UNCHANGED <<disk, known>>
    /\ UNCHANGED <<dirVars, runs, todo, watchVars, fileVars, id, recs, took, ingested, chunkVars>>

-----------------------------------------------------------------------------
(* watch_tree                                                              *)

WatchStart ==
    /\ run = "none"
    /\ run' = "watch"
    /\ nextId' = known
    /\ ingested' = save
    /\ result' = "none"
    /\ UNCHANGED <<dirVars, runs, todo, events, recent, fileVars, writerVars, known, took, chunkVars>>

Event(p) == run = "watch" /\ Idle /\ events # <<>> /\ Head(events) = p

\* path.is_file() is false, or the path was seen less than 800 ms ago.
SkipEvent(p) ==
    /\ Event(p)
    /\ file[p] = Absent \/ p \in recent
    /\ events' = Tail(events)
    /\ UNCHANGED <<dirVars, run, treeVars, recent, nextId, fileVars, writerVars, histVars, chunkVars>>

TakeEvent(p) ==
    /\ Event(p)
    /\ file[p] # Absent /\ p \notin recent
    /\ events' = Tail(events)
    /\ recent' = recent \cup {p}
    /\ id' = nextId
    /\ Enter(p)
    /\ UNCHANGED <<dirVars, run, treeVars, nextId, recs, disk, histVars, chunkVars>>

\* 800 ms have passed.
Expire(p) ==
    /\ p \in recent
    /\ recent' = recent \ {p}
    /\ UNCHANGED <<dirVars, run, treeVars, events, nextId, fileVars, writerVars, histVars, chunkVars>>

Stuck(i)    == nextId                         \* mutant: next_id is not advanced
Advance(i)  == i

\* The result of the flush is ignored; on_batch(&stats).
BatchDone ==
    /\ run = "watch" /\ AllInserted
    /\ disk' \in {Flushed(recs), disk}
    /\ nextId' = Advance(id)
    /\ known' = id
    /\ Leave
    /\ UNCHANGED <<dirVars, run, treeVars, events, recent, id, recs, took, ingested>>

-----------------------------------------------------------------------------
IngestFile == ReadFile \/ ReadFails \/ Split \/ Insert \/ InsertFails

Work ==
    \/ IngestFile
    \/ TreeProgress \/ TreeDone \/ BatchDone
    \/ \E p \in Paths : NextFile(p) \/ SkipEvent(p) \/ TakeEvent(p)

Next ==
    \/ Work
    \/ TreeStart \/ WatchStart
    \/ \E p \in Paths : Expire(p) \/ \E c \in Contents : Save(p, c)

\* The thread that called chunk, ingest_tree or watch_tree goes on.
Spec == Init /\ [][Next]_ingestVars /\ WF_ingestVars(Work)

-----------------------------------------------------------------------------
RecordType == [path : Paths, save : Nat, lo : Nat, hi : Nat]

\* Every variable has its type; ids are handed out from the one last reported.
IngestTypeOK ==
    /\ ChunkTypeOK
    /\ file \in [Paths -> Contents] /\ save \in [Paths -> Nat] /\ saves \in Nat
    /\ run \in {"none", "tree", "watch", "chunk", "returned"} /\ runs \in Nat
    /\ todo \subseteq Paths /\ result \in {"none", "ok", "err"}
    /\ events \in Seq(Paths) /\ recent \subseteq Paths /\ nextId \in Nat
    /\ at \in Paths \cup {None} /\ reading \in BOOLEAN /\ next \in 1 .. Len(out) + 1
    /\ id \in Nat /\ known \in Nat
    /\ recs \in [DOMAIN recs -> RecordType] /\ disk \in [DOMAIN disk -> RecordType]
    /\ DOMAIN recs \subseteq Nat /\ DOMAIN disk \subseteq Nat
    /\ DOMAIN took \subseteq Paths /\ took \in [DOMAIN took -> Texts \cup {None}]
    /\ ingested \in [Paths -> Nat]

\* ingest_tree returned Ok: every line with text of every file it collected
\* is in a flushed record that names the file and the lines it stands in,
\* whatever was saved, cut or removed meanwhile (lib.rs:14, 94-107).
TreeCovers ==
    result = "ok" =>
        \A p \in DOMAIN took :
            /\ took[p] # None
            /\ (ModeOf[p].kind = "Lines" => ModeOf[p].step <= ModeOf[p].win) =>
               \A l \in 1 .. Len(took[p]) : took[p][l] = "text" =>
                   \E i \in DOMAIN disk : /\ disk[i].path = p /\ disk[i].save = ingested[p]
                                          /\ disk[i].lo <= l /\ l <= disk[i].hi

\* "ids increase by one per chunk" (lib.rs:41): every id below the reported
\* next_id has a record, also when files failed in the middle before.
IdsDense == \A i \in 0 .. known - 1 : i \in DOMAIN recs

\* A record whose file was reported as ingested is never overwritten by a
\* later file, run or watch that goes on from the reported next_id
\* (lib.rs:72-73): "a re-edited file appends fresh records" (lib.rs:205).
ReportedKept ==
    [][\A i \in DOMAIN recs : i < known => i \in DOMAIN recs' /\ recs'[i] = recs[i]]_ingestVars

\* chunk returns for every mode, also with a window or a step of 0, and
\* ingest_tree returns although editors are at work (chunk.rs:46-50, 94-110).
Returns == run \in {"chunk", "tree"} ~> run \in {"returned", "none"}

\* "watch_tree keeps a directory live: files created or modified after start
\* are re-ingested as they change" (lib.rs:16-17): once every event is
\* handled, what a readable file holds is what it was last ingested from.
KeptLive ==
    run = "watch" /\ Idle /\ events = <<>> =>
        \A p \in Paths : file[p] \in Texts => ingested[p] = save[p]
=============================================================================
