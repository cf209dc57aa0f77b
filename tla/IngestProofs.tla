---------------------------- MODULE IngestProofs ----------------------------
(* Record ids and chunks of the ingest pipeline, for every set of files,   *)
(* every content, chunk mode and number of runs and saves.                 *)
EXTENDS Ingest, ChunkerProofs

\* IngestTypeOK without the chunker's part, one operator per group of variables.
DirType   == file \in [Paths -> Contents] /\ save \in [Paths -> Nat] /\ saves \in Nat
RunType   == run \in {"none", "tree", "watch", "chunk", "returned"}
TreeType  == runs \in Nat /\ todo \subseteq Paths /\ result \in {"none", "ok", "err"}
WatchType == events \in Seq(Paths) /\ recent \subseteq Paths /\ nextId \in Nat
FileType  == at \in Paths \cup {None} /\ reading \in BOOLEAN /\ next \in 1 .. Len(out) + 1
RecsType  == recs \in [DOMAIN recs -> RecordType] /\ DOMAIN recs \subseteq Nat
DiskType  == disk \in [DOMAIN disk -> RecordType] /\ DOMAIN disk \subseteq Nat
WriterType == id \in Nat /\ RecsType /\ DiskType
TookType  == DOMAIN took \subseteq Paths /\ took \in [DOMAIN took -> Texts \cup {None}]
HistType  == known \in Nat /\ TookType /\ ingested \in [Paths -> Nat]

\* Where the thread is: ingest_file is called by ingest_tree and watch_tree
\* only, and the chunker's locals are fresh until the file is read.
Place ==
    /\ at # None => run \in {"tree", "watch"}
    /\ reading => at # None
    /\ run \in {"none", "tree", "watch"} /\ (at = None \/ reading) =>
          ~chunking /\ text = <<>> /\ out = <<>>
    /\ at = None \/ reading \/ chunking => next = 1

\* Ids are handed out without gaps, and no caller is ahead of its report:
\* what is not reported yet starts at known.
Numbers ==
    /\ IdsDense
    /\ run = "watch" => nextId = known
    /\ run = "tree" \/ at # None =>
          known <= id /\ \A i \in 0 .. id - 1 : i \in DOMAIN recs

IngestInv ==
    /\ ChunkInv
    /\ DirType /\ RunType /\ TreeType /\ WatchType /\ FileType /\ WriterType /\ HistType
    /\ Place /\ Numbers

\* What ReportedKept says of one step.
Keeps == \A i \in DOMAIN recs : i < known => i \in DOMAIN recs' /\ recs'[i] = recs[i]

\* The parts of the invariant make up the type invariant.
LEMMA InvTypes == IngestInv => IngestTypeOK
BY Zenon
   DEF IngestInv, ChunkInv, DirType, RunType, TreeType, WatchType, FileType, RecsType,
       DiskType, WriterType, TookType, HistType, IngestTypeOK

\* A step that leaves the chunker alone keeps its invariant.
LEMMA SameChunk == ChunkInv /\ UNCHANGED chunkVars => ChunkInv'
BY ChunkStep

\* Variables that a step leaves alone keep their types.
LEMMA SameDir == DirType /\ UNCHANGED dirVars => DirType'
BY DEF DirType, dirVars
LEMMA SameTree == TreeType /\ UNCHANGED treeVars => TreeType'
BY DEF TreeType, treeVars
LEMMA SameWatch == WatchType /\ UNCHANGED watchVars => WatchType'
BY DEF WatchType, watchVars
LEMMA SameFile == FileType /\ UNCHANGED <<fileVars, chunkVars>> => FileType'
BY DEF FileType, fileVars, chunkVars
LEMMA SameWriter == WriterType /\ UNCHANGED writerVars => WriterType'
BY DEF WriterType, RecsType, DiskType, writerVars
LEMMA SameHist == HistType /\ UNCHANGED histVars => HistType'
BY DEF HistType, TookType, histVars

\* Leaving a file keeps the parts of the invariant that watch the loops.
LEMMA LeaveInv ==
    ASSUME IngestInv, Leave
    PROVE  ChunkInv' /\ FileType'
<1>1. Len(out') = 0 /\ out' \in Seq(Chunk) /\ Len(text') = 0 /\ mode' \in Modes
  BY DEF Leave, IngestInv, ChunkInv, ChunkTypeOK
<1>2. ChunkTypeOK'
  BY <1>1, IngestAssumption DEF Leave, ChunkTypeOK
<1>3. ParagraphLoop' /\ WindowLoop'
  BY DEF Leave, ParagraphLoop, WindowLoop
<1>4. ChunksInOrder' /\ ChunksCover' /\ ParagraphsSeparate'
  BY <1>1 DEF ChunksInOrder, ChunksCover, ParagraphsSeparate
<1>5. FileType'
  <2>1. next' \in 1 .. Len(out') + 1
    BY <1>1 DEF Leave
  <2> QED
    BY <2>1 DEF Leave, FileType
<1> QED
  BY <1>2, <1>3, <1>4, <1>5 DEF ChunkInv

\* A path is not None: entering a file is seen in at.
LEMMA PathIsSome == \A p \in Paths : p # None
BY IngestAssumption

\* A sequence of events that is not empty has a head and a tail.
LEMMA SomeEvents ==
    ASSUME NEW p \in Paths, NEW n \in 1 .. 2, events \in Seq(Paths)
    PROVE  events \o [k \in 1 .. n |-> p] \in Seq(Paths)
<1>1. [k \in 1 .. n |-> p] \in Seq(Paths)
  OBVIOUS
<1> QED
  BY <1>1

-----------------------------------------------------------------------------
(* One lemma per action.                                                   *)

\* An editor's save keeps the invariant.
LEMMA SaveStep ==
    ASSUME IngestInv, NEW p \in Paths, NEW c \in Contents, Save(p, c)
    PROVE  IngestInv' /\ Keeps
<1> USE DEF IngestInv
<1>1. ChunkInv'
  BY SameChunk DEF Save
<1>2. TreeType' /\ WriterType' /\ HistType'
  BY SameTree, SameWriter, SameHist DEF Save
<1>3. DirType'
  BY DEF Save, DirType
<1>4. WatchType'
  <2>1. events' \in Seq(Paths)
    BY SomeEvents DEF Save, WatchType
  <2> QED
    BY <2>1 DEF Save, WatchType
<1>5. FileType'
  BY DEF Save, FileType, fileVars, chunkVars
<1>6. RunType'
  BY DEF Save, RunType, treeVars
<1>7. Place'
  BY PathIsSome DEF Save, Place, treeVars, fileVars, writerVars, histVars, chunkVars
<1>8. Numbers'
  BY PathIsSome
     DEF Save, Place, Numbers, IdsDense, WriterType, WatchType, HistType, treeVars,
         fileVars, writerVars, histVars, chunkVars
<1>9. Keeps
  BY DEF Save, Keeps, writerVars
<1> QED
  BY <1>1, <1>2, <1>3, <1>4, <1>5, <1>6, <1>7, <1>8, <1>9

\* The call of ingest_tree keeps the invariant.
LEMMA TreeStartStep ==
    ASSUME IngestInv, TreeStart
    PROVE  IngestInv' /\ Keeps
<1> USE DEF IngestInv
<1>1. ChunkInv'
  BY SameChunk DEF TreeStart
<1>2. DirType' /\ WatchType'
  BY SameDir, SameWatch DEF TreeStart
<1>3. TreeType'
  BY DEF TreeStart, TreeType
<1>4. FileType'
  BY DEF TreeStart, FileType, fileVars, chunkVars
<1>5. WriterType'
  BY DEF TreeStart, WriterType, RecsType, DiskType, HistType
<1>6. HistType'
  <2>1. todo' \subseteq Paths /\ took' = [p \in todo' |-> None]
    BY DEF TreeStart
  <2>2. TookType'
    BY <2>1 DEF TookType
  <2> QED
    BY <2>2 DEF TreeStart, HistType
<1>7. RunType'
  BY DEF TreeStart, RunType
<1>8. Place'
  BY PathIsSome DEF TreeStart, Place, dirVars, watchVars, fileVars, chunkVars
<1>9. Numbers'
  BY PathIsSome
     DEF TreeStart, Place, Numbers, IdsDense, WriterType, WatchType, HistType, dirVars,
         watchVars, fileVars, chunkVars
<1>10. Keeps
  BY DEF TreeStart, Keeps
<1> QED
  BY <1>1, <1>2, <1>3, <1>4, <1>5, <1>6, <1>7, <1>8, <1>9, <1>10

\* Taking the next collected file keeps the invariant.
LEMMA NextFileStep ==
    ASSUME IngestInv, NEW p \in Paths, NextFile(p)
    PROVE  IngestInv' /\ Keeps
<1> USE DEF IngestInv
<1>1. ChunkInv'
  BY SameChunk DEF NextFile
<1>2. DirType' /\ WatchType' /\ WriterType' /\ HistType'
  BY SameDir, SameWatch, SameWriter, SameHist DEF NextFile
<1>3. TreeType'
  BY DEF NextFile, TreeType
<1>4. FileType'
  BY DEF NextFile, Enter, FileType, chunkVars
<1>5. RunType'
  BY DEF NextFile, Enter, Idle, RunType
<1>6. Place'
  BY PathIsSome
     DEF NextFile, Enter, Idle, Place, dirVars, watchVars, writerVars, histVars,
         chunkVars
<1>7. Numbers'
  BY PathIsSome
     DEF NextFile, Enter, Idle, Place, Numbers, IdsDense, WriterType, WatchType,
         HistType, dirVars, watchVars, writerVars, histVars, chunkVars
<1>8. Keeps
  BY DEF NextFile, Enter, Idle, Keeps, writerVars
<1> QED
  BY <1>1, <1>2, <1>3, <1>4, <1>5, <1>6, <1>7, <1>8

\* The end of a file in ingest_tree keeps the invariant.
LEMMA TreeProgressStep ==
    ASSUME IngestInv, TreeProgress
    PROVE  IngestInv' /\ Keeps
<1> USE DEF IngestInv
<1>1. ChunkInv'
  BY LeaveInv DEF TreeProgress
<1>2. DirType' /\ TreeType' /\ WatchType' /\ WriterType'
  BY SameDir, SameTree, SameWatch, SameWriter DEF TreeProgress
<1>3. FileType'
  BY LeaveInv DEF TreeProgress
<1>4. HistType'
  BY DEF TreeProgress, HistType, TookType, WriterType, writerVars
<1>5. RunType'
  BY DEF TreeProgress, AllInserted, Writing, Leave, RunType, treeVars
<1>6. Place'
  BY PathIsSome
     DEF TreeProgress, AllInserted, Writing, Leave, Place, dirVars, treeVars,
         watchVars, writerVars
<1>7. Numbers'
  BY PathIsSome
     DEF TreeProgress, AllInserted, Writing, Leave, Place, Numbers, IdsDense,
         WriterType, WatchType, HistType, dirVars, treeVars, watchVars, writerVars
<1>8. Keeps
  BY DEF TreeProgress, AllInserted, Writing, Leave, Keeps, writerVars
<1> QED
  BY <1>1, <1>2, <1>3, <1>4, <1>5, <1>6, <1>7, <1>8

\* The flush and the return of ingest_tree keep the invariant.
LEMMA TreeDoneStep ==
    ASSUME IngestInv, TreeDone
    PROVE  IngestInv' /\ Keeps
<1> USE DEF IngestInv
<1>1. ChunkInv'
  BY SameChunk DEF TreeDone
<1>2. DirType' /\ WatchType'
  BY SameDir, SameWatch DEF TreeDone
<1>3. TreeType'
  BY DEF TreeDone, TreeType
<1>4. FileType'
  BY DEF TreeDone, FileType, fileVars, chunkVars
<1>5. WriterType'
  <2>1. disk' = recs \/ disk' = disk
    BY DEF TreeDone, Flushed
  <2>2. DiskType'
    BY <2>1 DEF DiskType, WriterType, RecsType
  <2> QED
    BY <2>2 DEF TreeDone, WriterType, RecsType
<1>6. HistType'
  BY DEF TreeDone, HistType, TookType, WriterType
<1>7. RunType'
  BY DEF TreeDone, Idle, Flushed, RunType
<1>8. Place'
  BY PathIsSome
     DEF TreeDone, Idle, Flushed, Place, dirVars, watchVars, fileVars, chunkVars
<1>9. Numbers'
  BY PathIsSome
     DEF TreeDone, Idle, Flushed, Place, Numbers, IdsDense, WriterType, WatchType,
         HistType, dirVars, watchVars, fileVars, chunkVars
<1>10. Keeps
  BY DEF TreeDone, Idle, Flushed, Keeps
<1> QED
  BY <1>1, <1>2, <1>3, <1>4, <1>5, <1>6, <1>7, <1>8, <1>9, <1>10

\* The call of watch_tree keeps the invariant.
LEMMA WatchStartStep ==
    ASSUME IngestInv, WatchStart
    PROVE  IngestInv' /\ Keeps
<1> USE DEF IngestInv
<1>1. ChunkInv'
  BY SameChunk DEF WatchStart
<1>2. DirType' /\ WriterType'
  BY SameDir, SameWriter DEF WatchStart
<1>3. TreeType'
  BY DEF WatchStart, TreeType
<1>4. WatchType'
  BY DEF WatchStart, WatchType, HistType
<1>5. FileType'
  BY DEF WatchStart, FileType, fileVars, chunkVars
<1>6. HistType'
  BY DEF WatchStart, HistType, TookType, DirType
<1>7. RunType'
  BY DEF WatchStart, RunType
<1>8. Place'
  BY PathIsSome DEF WatchStart, Place, dirVars, fileVars, writerVars, chunkVars
<1>9. Numbers'
  BY PathIsSome
     DEF WatchStart, Place, Numbers, IdsDense, WriterType, WatchType, HistType,
         dirVars, fileVars, writerVars, chunkVars
<1>10. Keeps
  BY DEF WatchStart, Keeps, writerVars
<1> QED
  BY <1>1, <1>2, <1>3, <1>4, <1>5, <1>6, <1>7, <1>8, <1>9, <1>10

\* An event that the debounce or the filter drops keeps the invariant.
LEMMA SkipEventStep ==
    ASSUME IngestInv, NEW p \in Paths, SkipEvent(p)
    PROVE  IngestInv' /\ Keeps
<1> USE DEF IngestInv
<1>1. ChunkInv'
  BY SameChunk DEF SkipEvent
<1>2. DirType' /\ TreeType' /\ WriterType' /\ HistType'
  BY SameDir, SameTree, SameWriter, SameHist DEF SkipEvent
<1>3. WatchType'
  BY DEF SkipEvent, Event, WatchType
<1>4. FileType'
  BY DEF SkipEvent, FileType, fileVars, chunkVars
<1>5. RunType'
  BY DEF SkipEvent, Event, Idle, RunType, treeVars
<1>6. Place'
  BY PathIsSome
     DEF SkipEvent, Event, Idle, Place, dirVars, treeVars, fileVars, writerVars,
         histVars, chunkVars
<1>7. Numbers'
  BY PathIsSome
     DEF SkipEvent, Event, Idle, Place, Numbers, IdsDense, WriterType, WatchType,
         HistType, dirVars, treeVars, fileVars, writerVars, histVars, chunkVars
<1>8. Keeps
  BY DEF SkipEvent, Event, Idle, Keeps, writerVars
<1> QED
  BY <1>1, <1>2, <1>3, <1>4, <1>5, <1>6, <1>7, <1>8

\* An event that is taken up keeps the invariant.
LEMMA TakeEventStep ==
    ASSUME IngestInv, NEW p \in Paths, TakeEvent(p)
    PROVE  IngestInv' /\ Keeps
<1> USE DEF IngestInv
<1>1. ChunkInv'
  BY SameChunk DEF TakeEvent
<1>2. DirType' /\ TreeType' /\ HistType'
  BY SameDir, SameTree, SameHist DEF TakeEvent
<1>3. WatchType'
  BY DEF TakeEvent, Event, WatchType
<1>4. FileType'
  BY DEF TakeEvent, Enter, FileType, chunkVars
<1>5. WriterType'
  BY DEF TakeEvent, WriterType, RecsType, DiskType, WatchType
<1>6. RunType'
  BY DEF TakeEvent, Event, Idle, Enter, RunType, treeVars
<1>7. Place'
  BY PathIsSome
     DEF TakeEvent, Event, Idle, Enter, Place, dirVars, treeVars, histVars, chunkVars
<1>8. Numbers'
  BY PathIsSome
     DEF TakeEvent, Event, Idle, Enter, Place, Numbers, IdsDense, WriterType,
         WatchType, HistType, dirVars, treeVars, histVars, chunkVars
<1>9. Keeps
  BY DEF TakeEvent, Event, Idle, Enter, Keeps
<1> QED
  BY <1>1, <1>2, <1>3, <1>4, <1>5, <1>6, <1>7, <1>8, <1>9

\* The end of a debounce interval keeps the invariant.
LEMMA ExpireStep ==
    ASSUME IngestInv, NEW p \in Paths, Expire(p)
    PROVE  IngestInv' /\ Keeps
<1> USE DEF IngestInv
<1>1. ChunkInv'
  BY SameChunk DEF Expire
<1>2. DirType' /\ TreeType' /\ WriterType' /\ HistType'
  BY SameDir, SameTree, SameWriter, SameHist DEF Expire
<1>3. WatchType'
  BY DEF Expire, WatchType
<1>4. FileType'
  BY DEF Expire, FileType, fileVars, chunkVars
<1>5. RunType'
  BY DEF Expire, RunType, treeVars
<1>6. Place'
  BY PathIsSome
     DEF Expire, Place, dirVars, treeVars, fileVars, writerVars, histVars, chunkVars
<1>7. Numbers'
  BY PathIsSome
     DEF Expire, Place, Numbers, IdsDense, WriterType, WatchType, HistType, dirVars,
         treeVars, fileVars, writerVars, histVars, chunkVars
<1>8. Keeps
  BY DEF Expire, Keeps, writerVars
<1> QED
  BY <1>1, <1>2, <1>3, <1>4, <1>5, <1>6, <1>7, <1>8

\* The flush after a watched file keeps the invariant.
LEMMA BatchDoneStep ==
    ASSUME IngestInv, BatchDone
    PROVE  IngestInv' /\ Keeps
<1> USE DEF IngestInv
<1>1. ChunkInv'
  BY LeaveInv DEF BatchDone
<1>2. DirType' /\ TreeType'
  BY SameDir, SameTree DEF BatchDone
<1>3. FileType'
  BY LeaveInv DEF BatchDone
<1>4. WatchType'
  BY DEF BatchDone, Advance, WatchType, WriterType
<1>5. WriterType'
  <2>1. disk' = recs \/ disk' = disk
    BY DEF BatchDone, Flushed
  <2>2. DiskType'
    BY <2>1 DEF DiskType, WriterType, RecsType
  <2> QED
    BY <2>2 DEF BatchDone, WriterType, RecsType
<1>6. HistType'
  BY DEF BatchDone, HistType, TookType, WriterType
<1>7. RunType'
  BY DEF BatchDone, AllInserted, Writing, Leave, Flushed, Advance, RunType, treeVars
<1>8. Place'
  BY PathIsSome
     DEF BatchDone, AllInserted, Writing, Leave, Flushed, Advance, Place, dirVars,
         treeVars
<1>9. Numbers'
  BY PathIsSome
     DEF BatchDone, AllInserted, Writing, Leave, Flushed, Advance, Place, Numbers,
         IdsDense, WriterType, WatchType, HistType, dirVars, treeVars
<1>10. Keeps
  BY DEF BatchDone, AllInserted, Writing, Leave, Flushed, Advance, Keeps
<1> QED
  BY <1>1, <1>2, <1>3, <1>4, <1>5, <1>6, <1>7, <1>8, <1>9, <1>10

\* ReadFails and InsertFails.
LEMMA FileFailsStep ==
    ASSUME IngestInv, FileFails, at # None
    PROVE  IngestInv' /\ Keeps
<1> USE DEF IngestInv
<1>1. ChunkInv'
  BY LeaveInv DEF FileFails
<1>2. DirType' /\ WriterType' /\ HistType'
  BY SameDir, SameWriter, SameHist DEF FileFails
<1>3. FileType'
  BY LeaveInv DEF FileFails
<1>4. TreeType'
  BY DEF FileFails, TreeType
<1>5. WatchType'
  BY DEF FileFails, KeptId, WatchType
<1>6. RunType'
  BY DEF FileFails, KeptId, Leave, RunType
<1>7. Place'
  BY PathIsSome DEF FileFails, KeptId, Leave, Place, dirVars, writerVars, histVars
<1>8. Numbers'
  BY PathIsSome
     DEF FileFails, KeptId, Leave, Place, Numbers, IdsDense, WriterType, WatchType,
         HistType, dirVars, writerVars, histVars
<1>9. Keeps
  BY DEF FileFails, KeptId, Leave, Keeps, writerVars
<1> QED
  BY <1>1, <1>2, <1>3, <1>4, <1>5, <1>6, <1>7, <1>8, <1>9

\* Reading a file, which starts its chunker, keeps the invariant.
LEMMA ReadFileStep ==
    ASSUME IngestInv, ReadFile
    PROVE  IngestInv' /\ Keeps
<1> USE DEF IngestInv
<1>1. ChunkInv'
  <2>1. file[at] \in Texts /\ ModeOf[at] \in Modes
    BY IngestAssumption DEF ReadFile, Reading, FileType
  <2> QED
    BY <2>1, BeginInv DEF ReadFile
<1>2. DirType' /\ TreeType' /\ WatchType' /\ WriterType'
  BY SameDir, SameTree, SameWatch, SameWriter DEF ReadFile
<1>3. FileType'
  <2>1. Len(out') = 0
    BY DEF ReadFile, Begin
  <2>2. next' \in 1 .. Len(out') + 1
    BY <2>1 DEF ReadFile
  <2> QED
    BY <2>2 DEF ReadFile, FileType
<1>4. HistType'
  <2>1. TookType'
    BY DEF ReadFile, HistType, TookType
  <2>2. ingested' \in [Paths -> Nat]
    BY DEF ReadFile, Reading, HistType, DirType, FileType
  <2> QED
    BY <2>1, <2>2 DEF ReadFile, HistType
<1>5. RunType'
  BY DEF ReadFile, Reading, Begin, RunType, treeVars
<1>6. Place'
  BY PathIsSome
     DEF ReadFile, Reading, Begin, Place, dirVars, treeVars, watchVars, writerVars
<1>7. Numbers'
  BY PathIsSome
     DEF ReadFile, Reading, Begin, Place, Numbers, IdsDense, WriterType, WatchType,
         HistType, dirVars, treeVars, watchVars, writerVars
<1>8. Keeps
  BY DEF ReadFile, Reading, Begin, Keeps, writerVars
<1> QED
  BY <1>1, <1>2, <1>3, <1>4, <1>5, <1>6, <1>7, <1>8

\* A step of the chunker keeps the invariant.
LEMMA SplitStep ==
    ASSUME IngestInv, Split
    PROVE  IngestInv' /\ Keeps
<1> USE DEF IngestInv
<1>1. ChunkInv'
  BY ChunkStep DEF Split
<1>2. DirType' /\ TreeType' /\ WatchType' /\ WriterType' /\ HistType'
  BY SameDir, SameTree, SameWatch, SameWriter, SameHist DEF Split
<1>3. FileType'
  <2>1. next = 1 /\ next' = 1
    BY DEF Split, Splitting, Place, fileVars
  <2>2. Len(out') \in Nat
    BY <1>1 DEF ChunkInv, ChunkTypeOK
  <2>3. next' \in 1 .. Len(out') + 1
    BY <2>1, <2>2
  <2> QED
    BY <2>3 DEF Split, FileType, fileVars
<1>4. RunType'
  BY DEF Split, Splitting, RunType, treeVars
<1>5. Place'
  <2>1. chunking /\ UNCHANGED <<at, reading, next>>
    BY DEF Split, Splitting, fileVars
  <2>2. run \in {"none", "tree", "watch"} => at # None /\ ~reading
    BY <2>1 DEF Place
  <2>3. run' = run \/ (run = "chunk" /\ run' = "returned")
    BY DEF Split
  <2> QED
    BY <2>1, <2>2, <2>3 DEF Place
<1>6. Numbers'
  BY PathIsSome
     DEF Split, Splitting, Place, Numbers, IdsDense, WriterType, WatchType, HistType,
         dirVars, treeVars, watchVars, fileVars, writerVars, histVars
<1>7. Keeps
  BY DEF Split, Splitting, Keeps, writerVars
<1> QED
  BY <1>1, <1>2, <1>3, <1>4, <1>5, <1>6, <1>7

\* The insert of a chunk under the next id keeps the invariant.
LEMMA InsertStep ==
    ASSUME IngestInv, Insert
    PROVE  IngestInv' /\ Keeps
<1> USE DEF IngestInv
<1>1. ChunkInv'
  BY SameChunk DEF Insert
<1>2. DirType' /\ TreeType' /\ WatchType' /\ HistType'
  BY SameDir, SameTree, SameWatch, SameHist DEF Insert
<1>3. FileType'
  <2>1. next' = next + 1 /\ out' = out /\ Len(out) \in Nat /\ next \in 1 .. Len(out)
    BY OutType DEF Insert, NextChunk, FileType, chunkVars, ChunkInv, ChunkTypeOK
  <2>2. next' \in 1 .. Len(out') + 1
    BY <2>1
  <2> QED
    BY <2>2 DEF Insert, FileType
<1>4. WriterType'
  <2>1. out[next] \in Chunk
    BY DEF Insert, FileType, ChunkInv, ChunkTypeOK
  <2>2. Record(out[next]) \in RecordType
    BY <2>1 DEF Insert, Writing, Record, RecordType, Chunk, FileType, HistType
  <2>3. RecsType'
    BY <2>2 DEF Insert, RecsType, WriterType
  <2> QED
    BY <2>3 DEF Insert, WriterType, DiskType
<1>5. RunType'
  BY DEF Insert, Writing, NextChunk, RunType, treeVars
<1>6. Place'
  BY PathIsSome
     DEF Insert, Writing, NextChunk, Place, dirVars, treeVars, watchVars, histVars,
         chunkVars
<1>7. Numbers'
  <2>1. at # None /\ at' = at /\ known' = known /\ nextId' = nextId /\ run' = run
    BY DEF Insert, Writing, watchVars, histVars
  <2>2. id' = id + 1 /\ DOMAIN recs' = DOMAIN recs \cup {id}
    BY DEF Insert
  <2>3. id \in Nat /\ known \in Nat /\ known <= id
    BY <2>1 DEF WriterType, HistType, Numbers
  <2> QED
    BY <2>1, <2>2, <2>3 DEF Numbers, IdsDense
<1>8. Keeps
  <2>1. id \in Nat /\ known \in Nat /\ known <= id
    BY DEF Insert, Writing, WriterType, HistType, Numbers
  <2>2. ASSUME NEW i \in DOMAIN recs, i < known PROVE i # id
    BY <2>1, <2>2 DEF WriterType, RecsType
  <2> QED
    BY <2>2 DEF Insert, Keeps
<1> QED
  BY <1>1, <1>2, <1>3, <1>4, <1>5, <1>6, <1>7, <1>8

-----------------------------------------------------------------------------
\* The invariant holds at the start.
LEMMA InitIngest == Init => IngestInv
<1> SUFFICES ASSUME Init PROVE IngestInv
  OBVIOUS
<1>1. ChunkInv
  <2>1. CASE DirectInit
    BY <2>1, InitInv DEF DirectInit
  <2>2. CASE IdleInit
    <3>1. Len(out) = 0 /\ out \in Seq(Chunk) /\ Len(text) = 0 /\ mode \in Modes
      BY <2>2, IngestAssumption DEF IdleInit
    <3>2. ChunkTypeOK
      BY <2>2, <3>1, IngestAssumption DEF IdleInit, ChunkTypeOK
    <3>3. ParagraphLoop /\ WindowLoop
      BY <2>2 DEF IdleInit, ParagraphLoop, WindowLoop
    <3>4. ChunksInOrder /\ ChunksCover /\ ParagraphsSeparate
      BY <3>1 DEF ChunksInOrder, ChunksCover, ParagraphsSeparate
    <3> QED
      BY <3>2, <3>3, <3>4 DEF ChunkInv
  <2> QED
    BY <2>1, <2>2 DEF Init
<1>2. DirType
  BY IngestAssumption DEF Init, IdleInit, DirectInit, DirType
<1>3. RunType /\ TreeType /\ WatchType
  BY DEF Init, IdleInit, DirectInit, RunType, TreeType, WatchType
<1>4. FileType
  <2>1. Len(out) = 0
    BY DEF Init, IdleInit, DirectInit, ChunkInit
  <2>2. next \in 1 .. Len(out) + 1
    BY <2>1 DEF Init
  <2> QED
    BY <2>2 DEF Init, FileType
<1>5. WriterType
  BY DEF Init, WriterType, RecsType, DiskType
<1>6. HistType
  BY DEF Init, HistType, TookType
<1>7. Place
  BY DEF Init, IdleInit, DirectInit, Place
<1>8. Numbers
  BY DEF Init, IdleInit, DirectInit, Numbers, IdsDense
<1> QED
  BY <1>1, <1>2, <1>3, <1>4, <1>5, <1>6, <1>7, <1>8 DEF IngestInv

\* The invariant is inductive, and no step overwrites a reported record.
LEMMA IngestStep == IngestInv /\ [Next]_ingestVars => IngestInv' /\ Keeps
<1> SUFFICES ASSUME IngestInv, [Next]_ingestVars PROVE IngestInv' /\ Keeps
  OBVIOUS
<1>1. CASE ReadFile
  BY <1>1, ReadFileStep
<1>2. CASE ReadFails \/ InsertFails
  BY <1>2, FileFailsStep DEF ReadFails, Reading, InsertFails, Writing
<1>3. CASE Split
  BY <1>3, SplitStep
<1>4. CASE Insert
  BY <1>4, InsertStep
<1>5. CASE TreeProgress
  BY <1>5, TreeProgressStep
<1>6. CASE TreeDone
  BY <1>6, TreeDoneStep
<1>7. CASE BatchDone
  BY <1>7, BatchDoneStep
<1>8. CASE TreeStart
  BY <1>8, TreeStartStep
<1>9. CASE WatchStart
  BY <1>9, WatchStartStep
<1>10. CASE \E p \in Paths : NextFile(p)
  BY <1>10, NextFileStep
<1>11. CASE \E p \in Paths : SkipEvent(p)
  BY <1>11, SkipEventStep
<1>12. CASE \E p \in Paths : TakeEvent(p)
  BY <1>12, TakeEventStep
<1>13. CASE \E p \in Paths : Expire(p)
  BY <1>13, ExpireStep
<1>14. CASE \E p \in Paths, c \in Contents : Save(p, c)
  BY <1>14, SaveStep
<1>15. CASE UNCHANGED ingestVars
  <2> USE DEF IngestInv
  <2>1. ChunkInv'
    BY <1>15, SameChunk DEF ingestVars
  <2>2. DirType' /\ TreeType' /\ WatchType' /\ FileType' /\ WriterType' /\ HistType'
    BY <1>15, SameDir, SameTree, SameWatch, SameFile, SameWriter, SameHist DEF ingestVars
  <2>3. RunType'
    BY <1>15 DEF ingestVars, RunType
  <2>4. Place' /\ Numbers' /\ Keeps
    BY <1>15
       DEF ingestVars, dirVars, treeVars, watchVars, fileVars, writerVars, histVars,
           chunkVars, Place, Numbers, IdsDense, Keeps
  <2> QED
    BY <2>1, <2>2, <2>3, <2>4
<1> QED
  BY <1>1, <1>2, <1>3, <1>4, <1>5, <1>6, <1>7, <1>8, <1>9, <1>10, <1>11, <1>12, <1>13, <1>14, <1>15
     DEF Next, Work, IngestFile

\* The invariant of the pipeline holds in every reachable state.
THEOREM IngestInvariant == Spec => []IngestInv
<1>1. IngestInv /\ [Next]_ingestVars => IngestInv'
  BY IngestStep
<1> QED
  BY <1>1, InitIngest, PTL DEF Spec

\* Every variable of the pipeline has its type, for every set of files.
THEOREM IngestTypeCorrect == Spec => []IngestTypeOK
BY IngestInvariant, InvTypes, PTL

\* The files an ingest run splits are split without losing a line, in order
\* and at blank lines, whatever editors do meanwhile.
THEOREM ChunksAreRight == Spec => [](ChunksInOrder /\ ChunksCover /\ ParagraphsSeparate)
<1>1. IngestInv => ChunksInOrder /\ ChunksCover /\ ParagraphsSeparate
  BY DEF IngestInv, ChunkInv
<1> QED
  BY <1>1, IngestInvariant, PTL

\* The ids below a reported next_id are all in use.
THEOREM IdsAreDense == Spec => []IdsDense
<1>1. IngestInv => IdsDense
  BY DEF IngestInv, Numbers
<1> QED
  BY <1>1, IngestInvariant, PTL

\* No record below a reported next_id is ever overwritten.
THEOREM ReportedRecordsStay == Spec => ReportedKept
<1>1. IngestInv /\ [Next]_ingestVars => [Keeps]_ingestVars
  BY IngestStep
<1>2. Spec => [][Keeps]_ingestVars
  BY <1>1, IngestInvariant, PTL DEF Spec
<1> QED
  BY <1>2 DEF ReportedKept, Keeps

-----------------------------------------------------------------------------
(* ingest_tree returned Ok: nothing is missing.                            *)

\* Every line with text of what was read from p is in one of the records R
\* with an id below n.
LinesIn(R, n, p) ==
    (ModeOf[p].kind = "Lines" => ModeOf[p].step <= ModeOf[p].win) =>
        \A l \in 1 .. Len(took[p]) : took[p][l] = "text" =>
            \E i \in DOMAIN R : /\ i < n
                                /\ R[i].path = p /\ R[i].save = ingested[p]
                                /\ R[i].lo <= l /\ l <= R[i].hi

\* While ingest_tree runs, the files behind it are in the writer, and so are
\* the chunks of the current one before next.
Behind == \A p \in DOMAIN took : p \notin todo /\ p # at => took[p] # None /\ LinesIn(recs, id, p)
Current ==
    at # None =>
        /\ at \in DOMAIN took /\ at \notin todo
        /\ ~reading => /\ took[at] = text /\ mode = ModeOf[at]
                       /\ \A j \in 1 .. next - 1 :
                             \E i \in DOMAIN recs : i < id /\ recs[i] = Record(out[j])
Running  == run = "tree" => todo \subseteq DOMAIN took /\ Behind /\ Current
Returned == result = "ok" => run = "none" /\ at = None /\ TreeCovers

TreeInv == IngestInv /\ Running /\ Returned

\* What Running and Returned read of the state.
seen == <<run, result, todo, at, reading, next, id, recs, disk, took, ingested, text, mode, out>>

\* What a tree run has covered depends on these variables only.
LEMMA SameSeen == Running /\ Returned /\ UNCHANGED seen => Running' /\ Returned'
BY DEF seen, Running, Returned, Behind, Current, LinesIn, Record, TreeCovers

\* Lines of a file all of whose chunks are in the writer.
LEMMA FileInWriter ==
    ASSUME TreeInv, run = "tree", AllInserted
    PROVE  took[at] # None /\ LinesIn(recs, id, at)
<1>1. /\ took[at] = text /\ mode = ModeOf[at] /\ ~chunking
      /\ \A j \in 1 .. next - 1 : \E i \in DOMAIN recs : i < id /\ recs[i] = Record(out[j])
  BY DEF TreeInv, Running, Current, AllInserted, Writing
<1>2. Len(out) \in Nat /\ next = Len(out) + 1
  BY OutType DEF TreeInv, IngestInv, FileType, ChunkInv, ChunkTypeOK, AllInserted
<1>3. text \in Texts /\ mode \in Modes /\ ChunksCover
  BY DEF TreeInv, IngestInv, ChunkInv, ChunkTypeOK
<1>4. took[at] # None
  BY <1>1, <1>3, IngestAssumption
<1>5. ASSUME ModeOf[at].kind = "Lines" => ModeOf[at].step <= ModeOf[at].win,
             NEW l \in 1 .. Len(text), text[l] = "text"
      PROVE  \E i \in DOMAIN recs : /\ i < id
                                    /\ recs[i].path = at /\ recs[i].save = ingested[at]
                                    /\ recs[i].lo <= l /\ l <= recs[i].hi
  <2>1. mode.kind = "Lines" => Step <= Win
    <3>1. mode.kind = "Lines" => mode.step \in Nat /\ mode.win \in Nat
      BY <1>3, ChunkAssumption DEF ChunkMode
    <3> QED
      BY <1>1, <1>5, <3>1 DEF Step, Win, AtLeastOne
  <2>2. PICK j \in 1 .. Len(out) : out[j].lo <= l /\ l <= out[j].hi
    BY <1>1, <1>3, <1>5, <2>1 DEF ChunksCover
  <2>3. PICK i \in DOMAIN recs : i < id /\ recs[i] = Record(out[j])
    BY <1>1, <1>2
  <2>4. recs[i].path = at /\ recs[i].save = ingested[at]
        /\ recs[i].lo = out[j].lo /\ recs[i].hi = out[j].hi
    BY <2>3 DEF Record
  <2> QED
    BY <2>2, <2>3, <2>4
<1> QED
  BY <1>1, <1>4, <1>5 DEF LinesIn

\* What a tree run has covered so far, and at its end, is inductive.
LEMMA TreeStep == TreeInv /\ [Next]_ingestVars => Running' /\ Returned'
<1> SUFFICES ASSUME TreeInv, [Next]_ingestVars PROVE Running' /\ Returned'
  OBVIOUS
<1> USE DEF TreeInv
<1>1. CASE ReadFile
  <2>1. at \in Paths /\ at' = at /\ reading' = FALSE /\ next' = 1 /\ result # "ok" /\ result' = result
    BY <1>1 DEF ReadFile, Reading, treeVars, Returned, IngestInv, Place, FileType
  <2>2. Running'
    <3>1. SUFFICES ASSUME run = "tree" PROVE (todo \subseteq DOMAIN took /\ Behind /\ Current)'
      BY <1>1 DEF ReadFile, Running
    <3>2. /\ at \in DOMAIN took /\ at \notin todo /\ todo' = todo
          /\ recs' = recs /\ id' = id /\ DOMAIN took' = DOMAIN took
          /\ took'[at] = file[at] /\ text' = file[at] /\ mode' = ModeOf[at]
          /\ \A p \in DOMAIN took : p # at => took'[p] = took[p]
      BY <1>1, <2>1, <3>1 DEF ReadFile, Reading, Begin, Running, Current, treeVars, writerVars
    <3>3. \A p \in DOMAIN took : p # at => ingested'[p] = ingested[p]
      BY <1>1 DEF ReadFile, IngestInv, HistType, TookType
    <3>4. Behind'
      BY <2>1, <3>1, <3>2, <3>3 DEF Running, Behind, LinesIn
    <3>5. Current'
      BY <2>1, <3>2 DEF Current
    <3> QED
      BY <3>1, <3>2, <3>4, <3>5 DEF Running
  <2>3. Returned'
    BY <2>1 DEF Returned
  <2> QED
    BY <2>2, <2>3
<1>2. CASE ReadFails \/ InsertFails
  <2>1. FileFails /\ run \in {"tree", "watch"}
    BY <1>2 DEF ReadFails, InsertFails, Reading, Writing, IngestInv, Place
  <2> QED
    BY <2>1 DEF FileFails, Running, Returned
<1>3. CASE Split
  <2>1. text' = text /\ mode' = mode
    BY <1>3 DEF Split, ChunkNext, BlankLine, TextLine, EndOfText, Window, PastTheEnd
  <2>2. /\ next = 1 /\ UNCHANGED <<result, todo, at, reading, next, id, recs, disk, took, ingested>>
        /\ run' = run \/ (run' = "returned" /\ run = "chunk")
    BY <1>3 DEF Split, Splitting, treeVars, fileVars, writerVars, histVars, IngestInv, Place
  <2>3. Running'
    BY <2>1, <2>2 DEF Running, Behind, Current, LinesIn
  <2>4. Returned'
    BY <2>2 DEF Returned, TreeCovers
  <2> QED
    BY <2>3, <2>4
<1>4. CASE Insert
  <2>1. /\ at # None /\ ~reading /\ ~chunking /\ next \in Nat /\ next >= 1 /\ id \in Nat
        /\ UNCHANGED <<run, result, todo, at, reading, took, ingested, text, mode, out>>
        /\ id' = id + 1 /\ next' = next + 1
        /\ DOMAIN recs' = DOMAIN recs \cup {id} /\ recs'[id] = Record(out[next])
        /\ \A i \in DOMAIN recs : i # id => recs'[i] = recs[i]
        /\ DOMAIN recs \subseteq Nat
    BY <1>4 DEF Insert, Writing, NextChunk, treeVars, histVars, chunkVars, IngestInv, FileType,
                WriterType, RecsType
  <2>2. \A i \in DOMAIN recs : i < id => i \in DOMAIN recs' /\ i < id' /\ recs'[i] = recs[i]
    BY <2>1
  <2>3. Running'
    <3>1. SUFFICES ASSUME run = "tree" PROVE (todo \subseteq DOMAIN took /\ Behind /\ Current)'
      BY <2>1 DEF Running
    <3>2. Behind'
      BY <2>1, <2>2, <3>1 DEF Running, Behind, LinesIn
    <3>3. ASSUME NEW j \in 1 .. next' - 1
          PROVE  \E i \in DOMAIN recs' : i < id' /\ recs'[i] = Record(out[j])
      <4>1. CASE j = next
        BY <2>1, <4>1
      <4>2. CASE j \in 1 .. next - 1
        BY <2>1, <2>2, <3>1, <4>2 DEF Running, Current
      <4> QED
        BY <2>1, <4>1, <4>2
    <3>4. Current'
      BY <2>1, <3>1, <3>3 DEF Running, Current, Record
    <3> QED
      BY <2>1, <3>1, <3>2, <3>4 DEF Running
  <2>4. Returned'
    BY <2>1 DEF Returned, IngestInv, Place
  <2> QED
    BY <2>3, <2>4
<1>5. CASE TreeProgress
  <2>1. /\ run = "tree" /\ at' = None /\ AllInserted
        /\ UNCHANGED <<run, result, todo, id, recs, took, ingested>>
    BY <1>5 DEF TreeProgress, Leave, treeVars, writerVars
  <2>2. took[at] # None /\ LinesIn(recs, id, at)
    BY <2>1, FileInWriter
  <2>3. \A p \in DOMAIN took : p \notin todo => took[p] # None /\ LinesIn(recs, id, p)
    BY <2>1, <2>2 DEF Running, Behind
  <2>4. Running'
    BY <2>1, <2>3 DEF Running, Behind, Current, LinesIn
  <2>5. Returned'
    BY <2>1 DEF Returned
  <2> QED
    BY <2>4, <2>5
<1>6. CASE TreeDone
  <2>1. Running'
    BY <1>6 DEF TreeDone, Running
  <2>2. CASE result' = "ok"
    <3>1. /\ run = "tree" /\ at = None /\ todo = {} /\ run' = "none" /\ disk' = recs
          /\ took' = took /\ ingested' = ingested /\ at' = at
      BY <1>6, <2>2 DEF TreeDone, Idle, Flushed, fileVars
    <3>2. \A p \in DOMAIN took : took[p] # None /\ LinesIn(recs, id, p)
      <4>1. \A p \in DOMAIN took : p # at
        BY <3>1, PathIsSome DEF IngestInv, HistType, TookType
      <4> QED
        BY <3>1, <4>1 DEF Running, Behind
    <3> QED
      BY <2>1, <2>2, <3>1, <3>2 DEF Returned, TreeCovers, LinesIn
  <2>3. CASE result' # "ok"
    BY <2>1, <2>3 DEF Returned
  <2> QED
    BY <2>2, <2>3
<1>7. CASE BatchDone
  BY <1>7 DEF BatchDone, Running, Returned, treeVars
<1>8. CASE TreeStart
  <2>1. /\ run' = "tree" /\ result' = "none" /\ DOMAIN took' = todo' /\ at' = at /\ at = None
    BY <1>8 DEF TreeStart, fileVars, IngestInv, Place
  <2> QED
    BY <2>1 DEF Running, Behind, Current, Returned, TreeStart
<1>9. CASE WatchStart
  BY <1>9 DEF WatchStart, Running, Returned
<1>10. CASE \E p \in Paths : NextFile(p)
  <2>1. PICK p \in Paths : NextFile(p)
    BY <1>10
  <2>2. /\ run = "tree" /\ at = None /\ p \in todo /\ todo' = todo \ {p} /\ at' = p /\ reading' = TRUE
        /\ UNCHANGED <<run, result, id, recs, took, ingested>>
    BY <2>1 DEF NextFile, Enter, Idle, writerVars, histVars
  <2>3. p \in DOMAIN took
    BY <2>2 DEF Running
  <2>4. \A q \in DOMAIN took : q # at
    BY <2>2, PathIsSome DEF IngestInv, HistType, TookType
  <2>5. Running'
    BY <2>2, <2>3, <2>4 DEF Running, Behind, Current, LinesIn
  <2>6. Returned'
    BY <2>2 DEF Returned
  <2> QED
    BY <2>5, <2>6
<1>11. CASE \E p \in Paths : SkipEvent(p)
  BY <1>11 DEF SkipEvent, Event, Running, Returned, treeVars
<1>12. CASE \E p \in Paths : TakeEvent(p)
  BY <1>12 DEF TakeEvent, Event, Running, Returned, treeVars
<1>13. CASE \E p \in Paths : Expire(p)
  BY <1>13, SameSeen DEF Expire, seen, treeVars, fileVars, writerVars, histVars, chunkVars
<1>14. CASE \E p \in Paths, c \in Contents : Save(p, c)
  BY <1>14, SameSeen DEF Save, seen, treeVars, fileVars, writerVars, histVars, chunkVars
<1>15. CASE UNCHANGED ingestVars
  BY <1>15, SameSeen DEF ingestVars, seen, treeVars, fileVars, writerVars, histVars, chunkVars
<1> QED
  BY <1>1, <1>2, <1>3, <1>4, <1>5, <1>6, <1>7, <1>8, <1>9, <1>10, <1>11, <1>12, <1>13, <1>14, <1>15
     DEF Next, Work, IngestFile

\* A running ingest_tree has covered the files it has left behind.
THEOREM TreeInvariant == Spec => []TreeInv
<1>1. Init => TreeInv
  <2>1. Init => Running /\ Returned
    BY DEF Init, IdleInit, DirectInit, Running, Returned
  <2> QED
    BY <2>1, InitIngest DEF TreeInv
<1>2. TreeInv /\ [Next]_ingestVars => TreeInv'
  BY IngestStep, TreeStep DEF TreeInv
<1> QED
  BY <1>1, <1>2, PTL DEF Spec

\* When ingest_tree returns Ok, every line with text of every file it
\* collected is in a flushed record.
THEOREM NothingIsMissing == Spec => []TreeCovers
<1>1. TreeInv => TreeCovers
  BY DEF TreeInv, Returned, TreeCovers
<1> QED
  BY <1>1, TreeInvariant, PTL
=============================================================================
