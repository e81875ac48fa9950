---------------------------- MODULE Transcripts ----------------------------
(***************************************************************************)
(* One transcript file on disk, the watcher of its directory                *)
(* (internal/watcher/watcher.go) and the batch adapters that process it    *)
(* (internal/ingest/batch.go): the watcher's own, and those of `imprint    *)
(* ingest-dir` or of a second serve process.  An attempt reads the file,   *)
(* compares its hash with ingested_files, replaces the transcript's chunk  *)
(* rows one by one, extracts every chunk and only then records the file.   *)
(* Each step may fail and ends the attempt, and a process may end between  *)
(* any two.  Files of a directory are processed one after the other and do *)
(* not share rows, so one path is enough.  What an attempt then does with  *)
(* cooldown_messages and with realtime facts is in CoolPipeline and        *)
(* FactStore.                                                              *)
(***************************************************************************)
EXTENDS Integers, FiniteSets

CONSTANTS
  Adapters,     \* callers of ProcessDir
  Watcher,      \* the one of them that the watcher calls
  Contents,     \* what the file may contain
  Chunks,       \* Contents -> number of chunks chunkText makes of it
  None,         \* no file, no row
  MaxWrites,    \* bound: writes of the file
  MaxAttempts   \* bound: attempts to process it

ASSUME TranscriptsAssumption ==
  /\ Watcher \in Adapters
  /\ Chunks \in [Contents -> Nat \ {0}]
  /\ None \notin Contents
  /\ MaxWrites \in Nat /\ MaxAttempts \in Nat

VARIABLES
  (* the directory *)
  disk,         \* the file's content
  (* the watcher *)
  up,           \* its process runs
  events,       \* file events it has not read
  timer,        \* the debounce timer runs
  (* the database *)
  ingested,     \* ingested_files.content_hash
  transcript,   \* the transcripts row exists
  rows,         \* transcript_chunks: <<attempt, content, chunk>>
  fts,          \* transcript_chunks_fts
  (* an attempt *)
  pc,
  cur,          \* the content it read
  nr,           \* its number
  at,           \* the chunk in hand
  (* history *)
  writes, attempts,
  extracted,    \* chunks that Engine.Ingest handled: <<content, chunk>>
  disturbed,    \* attempts on the chunk rows overlapped or broke off since one began alone
  unseen        \* the file changed while the watcher ran, and it did not look since

watcherVars == <<up, events, timer>>
dbVars == <<ingested, transcript, rows, fts>>
attemptVars == <<pc, cur, nr, at>>
historyVars == <<writes, attempts, extracted, disturbed, unseen>>
vars == <<disk, watcherVars, dbVars, attemptVars, historyVars>>

ChunksOf(c) == {<<c, k>> : k \in 1..Chunks[c]}
\* Attempts that replace the transcript's chunk rows.
Touching == {a \in Adapters : pc[a] \in {"create", "delete", "row", "ingest", "record"}}

-----------------------------------------------------------------------------
Init ==
  /\ disk = None
  /\ up = TRUE /\ events = FALSE /\ timer = FALSE
  /\ ingested = None /\ transcript = FALSE /\ rows = {} /\ fts = {}
  /\ pc = [a \in Adapters |-> "idle"]
  /\ cur = [a \in Adapters |-> None]
  /\ nr = [a \in Adapters |-> 0]
  /\ at = [a \in Adapters |-> 0]
  /\ writes = 0 /\ attempts = 0 /\ extracted = {}
  /\ disturbed = FALSE /\ unseen = FALSE

\* A hook exports the transcript again, or appends to it.
WriteFile ==
  /\ writes < MaxWrites
  /\ \E c \in Contents : disk' = c /\ c # disk
  /\ writes' = writes + 1
  /\ events' = up /\ unseen' = up
  /\ UNCHANGED <<up, timer, dbVars, attemptVars, attempts, extracted, disturbed>>

-----------------------------------------------------------------------------
(* Watcher.Run: one goroutine, blocked while it processes the directory.   *)

\* Defect: a running timer is stopped and no other is started.
FileEventStopsTimer ==
  /\ up /\ events /\ pc[Watcher] = "idle"
  /\ events' = FALSE /\ timer' = ~timer
  /\ UNCHANGED <<disk, up, dbVars, attemptVars, historyVars>>
FileEvent ==
  /\ up /\ events /\ pc[Watcher] = "idle"
  /\ events' = FALSE /\ timer' = TRUE
  /\ UNCHANGED <<disk, up, dbVars, attemptVars, historyVars>>

\* processFile reads the file; an attempt that finds nothing new ends.
Read(a) ==
  /\ pc[a] = "idle" /\ attempts < MaxAttempts /\ disk # None
  /\ pc' = [pc EXCEPT ![a] = "check"]
  /\ cur' = [cur EXCEPT ![a] = disk]
  /\ nr' = [nr EXCEPT ![a] = attempts + 1]
  /\ attempts' = attempts + 1

\* The timer fires: w.process looks at the directory.
TimerFires ==
  /\ up /\ timer /\ pc[Watcher] = "idle"
  /\ timer' = FALSE
  /\ \/ Read(Watcher) /\ unseen' = FALSE
     \/ unseen' = FALSE /\ UNCHANGED <<pc, cur, nr, attempts>>   \* ReadDir or ReadFile fails
  /\ UNCHANGED <<disk, up, events, dbVars, at, writes, extracted, disturbed>>

\* `imprint ingest-dir`, or another process.
IngestDir(a) ==
  /\ a # Watcher
  /\ Read(a)
  /\ UNCHANGED <<disk, watcherVars, dbVars, at, writes, extracted, disturbed, unseen>>

-----------------------------------------------------------------------------
(* BatchAdapter.processFile                                                *)

Ended(a) ==
  /\ pc' = [pc EXCEPT ![a] = "idle"]
  /\ cur' = [cur EXCEPT ![a] = None]
  /\ nr' = [nr EXCEPT ![a] = 0]
  /\ at' = [at EXCEPT ![a] = 0]

GoTo(a, step) == pc' = [pc EXCEPT ![a] = step] /\ UNCHANGED <<cur, nr, at>>

\* GetIngestedFile: the same hash was ingested before, the file is skipped.
SkipIngested(a) ==
  /\ pc[a] = "check" /\ ingested = cur[a]
  /\ Ended(a)
  /\ UNCHANGED <<disk, watcherVars, dbVars, historyVars>>

\* GetTranscriptByPath.
CheckTranscript(a) ==
  /\ pc[a] = "check" /\ ingested # cur[a]
  /\ GoTo(a, IF transcript THEN "delete" ELSE "create")
  /\ disturbed' = (Touching # {})
  /\ UNCHANGED <<disk, watcherVars, dbVars, writes, attempts, extracted, unseen>>

FirstRow(a) ==
  /\ pc' = [pc EXCEPT ![a] = "row"]
  /\ at' = [at EXCEPT ![a] = 1]
  /\ UNCHANGED <<cur, nr>>

\* transcripts.file_path is UNIQUE: the second of two attempts fails here.
CreateTranscript(a) ==
  /\ pc[a] = "create"
  /\ IF transcript THEN Ended(a) /\ disturbed' = TRUE
                   ELSE FirstRow(a) /\ UNCHANGED disturbed
  /\ transcript' = TRUE
  /\ UNCHANGED <<disk, watcherVars, ingested, rows, fts, writes, attempts, extracted, unseen>>

\* Defect: the rows of the last attempt stay.
DeleteNoChunks(a) ==
  /\ pc[a] = "delete"
  /\ FirstRow(a)
  /\ UNCHANGED <<disk, watcherVars, ingested, transcript, rows, fts, historyVars>>
\* The rows of transcript_chunks_fts stay.
DeleteTranscriptChunks(a) ==
  /\ pc[a] = "delete"
  /\ rows' = {}
  /\ FirstRow(a)
  /\ UNCHANGED <<disk, watcherVars, ingested, transcript, fts, historyVars>>

CreateTranscriptChunk(a) ==
  LET row == <<nr[a], cur[a], at[a]>> IN
  /\ pc[a] = "row"
  /\ rows' = rows \cup {row} /\ fts' = fts \cup {row}
  /\ GoTo(a, "ingest")
  /\ UNCHANGED <<disk, watcherVars, ingested, transcript, historyVars>>

\* Defect: a chunk whose extraction fails is passed over.
IngestChunkOrPassOver(a) == extracted' \in {extracted, extracted \cup {<<cur[a], at[a]>>}}
IngestChunk(a) == extracted' = extracted \cup {<<cur[a], at[a]>>}

\* Engine.Ingest of the chunk in hand; the next chunk, or the record.
Ingest(a) ==
  /\ pc[a] = "ingest"
  /\ IngestChunk(a)
  /\ IF at[a] < Chunks[cur[a]]
     THEN /\ pc' = [pc EXCEPT ![a] = "row"]
          /\ at' = [at EXCEPT ![a] = @ + 1]
          /\ UNCHANGED <<cur, nr>>
     ELSE GoTo(a, "record")
  /\ UNCHANGED <<disk, watcherVars, dbVars, writes, attempts, disturbed, unseen>>

UpsertIngestedFile(a) ==
  /\ pc[a] = "record"
  /\ ingested' = cur[a]
  /\ Ended(a)
  /\ UNCHANGED <<disk, watcherVars, transcript, rows, fts, historyVars>>

\* A statement, the extraction or the process fails; nothing was recorded, and
\* the file is not tried again before its next event.
AttemptFails(a) ==
  /\ pc[a] # "idle"
  /\ Ended(a)
  /\ disturbed' = (disturbed \/ a \in Touching)
  /\ UNCHANGED <<disk, watcherVars, dbVars, writes, attempts, extracted, unseen>>

\* The watcher's process ends; its events and its timer are gone, and the next
\* one waits for new events.
WatcherStops ==
  /\ up /\ up' = FALSE
  /\ events' = FALSE /\ timer' = FALSE /\ unseen' = FALSE
  /\ Ended(Watcher)
  /\ disturbed' = (disturbed \/ Watcher \in Touching)
  /\ UNCHANGED <<disk, dbVars, writes, attempts, extracted>>

WatcherStarts ==
  /\ ~up /\ up' = TRUE
  /\ UNCHANGED <<disk, events, timer, dbVars, attemptVars, historyVars>>

-----------------------------------------------------------------------------
AttemptStep(a) ==
  \/ SkipIngested(a) \/ CheckTranscript(a) \/ CreateTranscript(a)
  \/ DeleteTranscriptChunks(a) \/ CreateTranscriptChunk(a)
  \/ Ingest(a) \/ UpsertIngestedFile(a) \/ AttemptFails(a)

Next ==
  \/ WriteFile \/ FileEvent \/ TimerFires \/ WatcherStops \/ WatcherStarts
  \/ \E a \in Adapters : IngestDir(a) \/ AttemptStep(a)

\* The watcher's goroutine goes on: it reads its events, the timer fires, and
\* every step of an attempt returns, with or without an error.
Fairness ==
  WF_vars(FileEvent) /\ WF_vars(TimerFires) /\ WF_vars(AttemptStep(Watcher))

Spec == Init /\ [][Next]_vars /\ Fairness

-----------------------------------------------------------------------------
\* Shapes; an attempt has read something and works on one of its chunks; chunk
\* rows have their text in the full-text table and belong to a transcript.
TypeOK ==
  /\ disk \in Contents \cup {None} /\ ingested \in Contents \cup {None}
  /\ pc \in [Adapters -> {"idle", "check", "create", "delete", "row", "ingest", "record"}]
  /\ \A a \in Adapters :
       IF pc[a] = "idle" THEN cur[a] = None /\ at[a] = 0
       ELSE cur[a] \in Contents /\ at[a] \in 0..Chunks[cur[a]]
  /\ \A a, b \in Adapters : a # b /\ nr[a] = nr[b] => nr[a] = 0
  /\ rows \subseteq fts
  /\ rows # {} => transcript

\* The hash in ingested_files makes later attempts skip the file, so every chunk
\* of that content has been extracted, however many attempts failed or ran at
\* the same time.
RecordedIsExtracted == ingested # None => ChunksOf(ingested) \subseteq extracted

\* Once no attempt is under way the transcript's chunk rows are those of the
\* recorded content, each once, unless attempts overlapped or broke off after
\* they had begun to replace the rows: nothing else leaves a search with chunks
\* of another content, twice the same chunk or none.
RowsMatchRecord ==
  ingested # None /\ Touching = {} /\ ~disturbed =>
    /\ {<<r[2], r[3]>> : r \in rows} = ChunksOf(ingested)
    /\ Cardinality(rows) = Chunks[ingested]

\* A file that changes while the watcher runs is looked at, unless the watcher's
\* process ends first: an event that comes during the debounce time or while the
\* directory is being processed is not lost.
ChangesAreSeen == unseen ~> ~unseen
=============================================================================
