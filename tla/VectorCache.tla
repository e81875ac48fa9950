---------------------------- MODULE VectorCache ----------------------------
(***************************************************************************)
(* The vector index and its cache file (internal/vecindex/vecindex.go)     *)
(* beside the embeddings in SQLite.  Every imprint process (serve, watch,  *)
(* ingest-dir, embed-backfill, query, ...) loads the one file into its own *)
(* memory, or rebuilds the index when it cannot read it, changes only its  *)
(* own copy and, unless it is killed, saves that copy when it closes the   *)
(* store, even if it has only searched.  A save writes the file's .tmp     *)
(* name, which all processes share, and renames it.                        *)
(***************************************************************************)
EXTENDS Integers, FiniteSets

CONSTANTS
  Procs,        \* imprint processes
  Writers,      \* those that open the store with vectorAccessWriteRequired
  Rows,         \* rows of facts, transcript_chunks, hot and cooldown messages
  Absent,       \* no row yet, no key
  Deleted,      \* no row any more
  Torn,         \* what loadFromCompound rejects
  None,         \* no file
  MaxVersion    \* bound: times a row is embedded

ASSUME ProcsAssumption == IsFiniteSet(Procs) /\ Writers \subseteq Procs
ASSUME NamesAssumption ==
  /\ {Absent, Deleted, None} \cap Nat = {} /\ Absent # Deleted
  /\ \A keys \in [Rows -> {Absent} \cup 0..MaxVersion] : keys # Torn
ASSUME BoundsAssumption == MaxVersion \in Nat

VARIABLES
  row,          \* the version of its embedding, 0 for none yet
  (* the directory: inodes that the two names and open files refer to *)
  file, tmp,
  content,      \* keys with their vectors' versions, or Torn
  (* a process *)
  pc,
  why,          \* what it saves for: "open", "reload" or "close"
  index,        \* its copy: key -> version
  collected,    \* embeddings read for a rebuild
  hand,         \* rows updated whose key is not added yet: <<row, version>>
  fd,           \* the inode it writes
  (* history *)
  changed,      \* rows a process embedded or repaired since it last saved
  late,         \* rows whose embedding or key came after a rebuild read them
  lost,         \* rows that something took from a copy, or never brought there
  overlapped    \* two saves were under way at one time

dirVars == <<file, tmp, content>>
historyVars == <<changed, late, lost, overlapped>>
vars == <<row, dirVars, pc, why, index, collected, hand, fd, historyVars>>

Empty == [r \in Rows |-> Absent]
Inodes == 1..(Cardinality(Procs) + 2)
Embedded == {r \in Rows : row[r] \notin {Absent, Deleted, 0}}
Up == {p \in Procs : pc[p] # "down"}
Alone(p) == Up \subseteq {p}
Saving == {p \in Procs : pc[p] \in {"write", "rename"}}
Readable == file # None /\ content[file] # Torn
\* OpenVectorIndex has no index to hand out yet.
Rebuilds(p) == why[p] = "open" /\ pc[p] \in {"collect", "reset"}
InHand(p) == {x[1] : x \in hand[p]}
\* Among these keys is the row's, with the row's vector, now or after AddKey.
Finds(p, keys, r) ==
  \/ <<r, row[r]>> \in hand[p]
  \/ keys[r] = row[r] /\ r \notin InHand(p)
\* The store is open; its index is not locked by a save.
Serving(p) == pc[p] = "run" \/ why[p] = "reload"
Ready(p) == Serving(p) /\ pc[p] \notin {"write", "rename"}
WriteSafe(p) == p \in Writers

-----------------------------------------------------------------------------
Init ==
  /\ row = [r \in Rows |-> Absent]
  /\ file = None /\ tmp = None /\ content = [i \in Inodes |-> Torn]
  /\ pc = [p \in Procs |-> "down"] /\ why = [p \in Procs |-> "open"]
  /\ index = [p \in Procs |-> Empty] /\ collected = [p \in Procs |-> Empty]
  /\ hand = [p \in Procs |-> {}] /\ fd = [p \in Procs |-> None]
  /\ changed = [p \in Procs |-> {}] /\ late = [p \in Procs |-> {}]
  /\ lost = {} /\ overlapped = FALSE

-----------------------------------------------------------------------------
(* Rows and keys.                                                          *)

\* A row without embedding is stored, by any process; its embedding may fail.
CreateRow(r) ==
  /\ row[r] = Absent
  /\ row' = [row EXCEPT ![r] = 0]
  /\ UNCHANGED <<dirVars, pc, why, index, collected, hand, fd, historyVars>>

\* UpdateFactEmbedding and its like: the statement.  No other process hears of it.
UpdateRow(p, r) ==
  /\ WriteSafe(p) /\ Serving(p) /\ r \notin InHand(p)
  /\ row[r] \notin {Absent, Deleted} /\ row[r] < MaxVersion
  /\ row' = [row EXCEPT ![r] = @ + 1]
  /\ hand' = [hand EXCEPT ![p] = @ \cup {<<r, row'[r]>>}]
  /\ changed' = [changed EXCEPT ![p] = @ \cup {r}]
  /\ late' = [q \in Procs |-> IF q # p /\ pc[q] = "reset" THEN late[q] \cup {r} ELSE late[q]]
  /\ lost' = IF Alone(p) THEN lost \ {r} ELSE lost \cup {r}
  /\ UNCHANGED <<dirVars, pc, why, index, collected, fd, overlapped>>

\* Backfill lists rows and embeds one after the other: one may be gone by then.
\* Nothing is updated, and the key is added all the same.
BackfillGone(p, r) ==
  /\ WriteSafe(p) /\ Serving(p) /\ row[r] = Deleted /\ r \notin InHand(p)
  /\ hand' = [hand EXCEPT ![p] = @ \cup {<<r, 0>>}]
  /\ UNCHANGED <<row, dirVars, pc, why, index, collected, fd, historyVars>>

\* Defect: a key that is there keeps its vector.
AddIfMissing(keys, r, v) == IF keys[r] = Absent THEN [keys EXCEPT ![r] = v] ELSE keys
\* USearchIndex.Add: the old vector of the key is removed first.
Add(keys, r, v) == [keys EXCEPT ![r] = v]

AddKey(p, r, v) ==
  /\ <<r, v>> \in hand[p] /\ Ready(p)
  /\ hand' = [hand EXCEPT ![p] = @ \ {<<r, v>>}]
  /\ late' = IF pc[p] = "reset" /\ collected[p][r] # v
             THEN [late EXCEPT ![p] = @ \cup {r}] ELSE late
  /\ \/ index' = [index EXCEPT ![p] = Add(@, r, v)] /\ UNCHANGED lost
     \/ index' = [index EXCEPT ![p][r] = Absent] /\ lost' = lost \cup {r}   \* Reserve or Add fails
  /\ UNCHANGED <<row, dirVars, pc, why, collected, fd, changed, overlapped>>

\* DeleteFactsBySourcePattern and DeleteTranscriptChunks remove the keys in their
\* own process; DeleteExpiredFacts does not.
DeleteRow(r) ==
  /\ row[r] \notin {Absent, Deleted}
  /\ row' = [row EXCEPT ![r] = Deleted]
  /\ \/ UNCHANGED index
     \/ \E p \in Up : Ready(p) /\ index' = [index EXCEPT ![p][r] = Absent]
  /\ UNCHANGED <<dirVars, pc, why, collected, hand, fd, historyVars>>

-----------------------------------------------------------------------------
(* OpenVectorIndex, ReloadVectorIndex                                       *)

Goto(p, step, reason) == pc' = [pc EXCEPT ![p] = step] /\ why' = [why EXCEPT ![p] = reason]

\* A readable file is taken as it is, without a look at the database: what other
\* processes have not saved yet is not in it.
Open(p) ==
  /\ pc[p] = "down"
  /\ lost' = lost \cup UNION {changed[q] : q \in Up}
  /\ IF Readable
     THEN /\ index' = [index EXCEPT ![p] = content[file]]
          /\ Goto(p, "run", "close")
     ELSE UNCHANGED index /\ Goto(p, "collect", "open")
  /\ UNCHANGED <<row, dirVars, collected, hand, fd, changed, late, overlapped>>

\* POST /admin/reset has emptied the tables, or will have.
Reload(p) ==
  /\ pc[p] = "run"
  /\ Goto(p, "collect", "reload")
  /\ UNCHANGED <<row, dirVars, index, collected, hand, fd, historyVars>>

\* A table after the other, no row together with another: late are from here on
\* the rows embedded by others, and keys in hand that others have outdated.
CollectEmbeddingsForVectorIndex(p) ==
  /\ pc[p] = "collect"
  /\ collected' = [collected EXCEPT ![p] = [r \in Rows |-> IF r \in Embedded THEN row[r] ELSE Absent]]
  /\ late' = [late EXCEPT ![p] = {r \in InHand(p) : <<r, row[r]>> \notin hand[p]}]
  /\ pc' = [pc EXCEPT ![p] = "reset"]
  /\ UNCHANGED <<row, dirVars, why, index, hand, fd, changed, lost, overlapped>>

\* Clear and importEmbeddingsLocked: a key added since the embeddings were
\* collected is dropped.  What only this process had not lost is whole again.
ResetFromEmbeddings(p) ==
  /\ pc[p] = "reset"
  /\ index' = [index EXCEPT ![p] = collected[p]]
  /\ collected' = [collected EXCEPT ![p] = Empty]
  /\ pc' = [pc EXCEPT ![p] = "save"]
  /\ changed' = [changed EXCEPT ![p] = @ \cup lost]
  /\ lost' = (IF Alone(p) THEN {} ELSE lost) \cup late[p]
  /\ late' = [late EXCEPT ![p] = {}]
  /\ UNCHANGED <<row, dirVars, why, hand, fd, overlapped>>

\* The process ends: its copy, and what it had not added, is gone.
Gone(p) ==
  /\ pc' = [pc EXCEPT ![p] = "down"] /\ why' = [why EXCEPT ![p] = "open"]
  /\ index' = [index EXCEPT ![p] = Empty]
  /\ collected' = [collected EXCEPT ![p] = Empty]
  /\ hand' = [hand EXCEPT ![p] = {}]
  /\ fd' = [fd EXCEPT ![p] = None]
  /\ changed' = [changed EXCEPT ![p] = {}] /\ late' = [late EXCEPT ![p] = {}]
\* Without a save, what it changed is in no copy any more.
GoneUnsaved(p) == Gone(p) /\ lost' = lost \cup changed[p]

\* A query, Clear or the import fails: a process that opens ends, and one that
\* reloads logs it and goes on, unsaved, with the keys it has then: those it had,
\* or as many as were imported after the Clear.
RebuildFails(p) ==
  /\ pc[p] \in {"collect", "reset"}
  /\ IF why[p] = "open" THEN GoneUnsaved(p)
     ELSE /\ Goto(p, "run", "close")
          /\ \/ UNCHANGED <<index, lost>>
             \/ /\ pc[p] = "reset"
                /\ \E imported \in SUBSET Rows :
                     /\ index' = [index EXCEPT ![p] =
                          [r \in Rows |-> IF r \in imported THEN collected[p][r] ELSE Absent]]
                     /\ lost' = lost \cup late[p] \cup (Rows \ imported)
          /\ collected' = [collected EXCEPT ![p] = Empty]
          /\ late' = [late EXCEPT ![p] = {}]
          /\ UNCHANGED <<hand, fd, changed>>
  /\ UNCHANGED <<row, dirVars, overlapped>>

-----------------------------------------------------------------------------
(* saveCompoundUnlocked: os.WriteFile of the .tmp name, then os.Rename.    *)

Close(p) ==
  /\ pc[p] = "run" /\ hand[p] = {}
  /\ Goto(p, "save", "close")
  /\ UNCHANGED <<row, dirVars, index, collected, hand, fd, historyVars>>

\* O_CREATE | O_TRUNC: the inode of another save if that has the name now.
Target == IF tmp # None THEN tmp
          ELSE CHOOSE i \in Inodes : i # file /\ \A p \in Procs : fd[p] # i

\* Defect: no second name.
OpenFileItself(p) ==
  LET i == IF file # None THEN file ELSE Target IN
  /\ fd' = [fd EXCEPT ![p] = i]
  /\ content' = [content EXCEPT ![i] = Torn]
  /\ file' = i /\ UNCHANGED tmp
OpenTmp(p) ==
  /\ fd' = [fd EXCEPT ![p] = Target]
  /\ content' = [content EXCEPT ![Target] = Torn]
  /\ tmp' = Target /\ UNCHANGED file

BeginSave(p) ==
  /\ pc[p] = "save"
  /\ OpenTmp(p)
  /\ pc' = [pc EXCEPT ![p] = "write"]
  /\ overlapped' = (overlapped \/ Saving # {})
  /\ UNCHANGED <<row, why, index, collected, hand, changed, late, lost>>

\* Over what another save has written since, a rest of it may stay.
WriteTmp(p) ==
  /\ pc[p] = "write"
  /\ \E c \in IF content[fd[p]] = Torn THEN {index[p]} ELSE {index[p], Torn} :
       content' = [content EXCEPT ![fd[p]] = c]
  /\ fd' = [fd EXCEPT ![p] = None]
  /\ pc' = [pc EXCEPT ![p] = "rename"]
  /\ UNCHANGED <<row, file, tmp, why, index, collected, hand, historyVars>>

\* The name is gone when another save has renamed it.
Rename(p) ==
  /\ pc[p] = "rename" /\ tmp # None
  /\ file' = tmp /\ tmp' = None
  /\ content' = [i \in Inodes |-> IF i = tmp \/ \E q \in Procs : fd[q] = i
                                  THEN content[i] ELSE Torn]
  /\ IF why[p] = "close" THEN Gone(p)
     ELSE /\ Goto(p, "run", "close")
          /\ changed' = [changed EXCEPT ![p] = InHand(p)]
          /\ UNCHANGED <<index, collected, hand, fd, late>>
  /\ UNCHANGED <<row, lost, overlapped>>

\* OpenVectorIndex fails with it and the process exits; others go on.
SaveFails(p) ==
  /\ pc[p] \in {"write", "rename"}
  /\ IF why[p] = "reload"
     THEN /\ Goto(p, "run", "close")
          /\ fd' = [fd EXCEPT ![p] = None]
          /\ UNCHANGED <<index, collected, hand, changed, late, lost>>
     ELSE GoneUnsaved(p)
  /\ UNCHANGED <<row, dirVars, overlapped>>

\* os.Exit in the signal handler, or a kill.
Exit(p) ==
  /\ pc[p] # "down"
  /\ GoneUnsaved(p)
  /\ UNCHANGED <<row, dirVars, overlapped>>

-----------------------------------------------------------------------------
ProcStep(p) ==
  \/ Open(p) \/ Reload(p) \/ CollectEmbeddingsForVectorIndex(p) \/ ResetFromEmbeddings(p)
  \/ RebuildFails(p) \/ Close(p) \/ BeginSave(p) \/ WriteTmp(p) \/ Rename(p) \/ SaveFails(p) \/ Exit(p)
  \/ \E r \in Rows : UpdateRow(p, r) \/ BackfillGone(p, r) \/ \E v \in 0..MaxVersion : AddKey(p, r, v)

Next ==
  \/ \E p \in Procs : ProcStep(p)
  \/ \E r \in Rows : CreateRow(r) \/ DeleteRow(r)

Spec == Init /\ [][Next]_vars

-----------------------------------------------------------------------------
\* Shapes; no key has a vector that the database has not; the file is not written
\* under its own name; a process that is down holds nothing.
TypeOK ==
  /\ row \in [Rows -> {Absent, Deleted} \cup 0..MaxVersion]
  /\ {file, tmp} \subseteq Inodes \cup {None}
  /\ file = tmp => file = None
  /\ \A i \in Inodes : content[i] = Torn \/ content[i] \in [Rows -> {Absent} \cup 0..MaxVersion]
  /\ \A p \in Procs, r \in Embedded : index[p][r] \in {Absent} \cup 0..row[r]
  /\ pc \in [Procs -> {"down", "collect", "reset", "save", "write", "rename", "run"}]
  /\ \A p \in Procs \ Up : index[p] = Empty /\ hand[p] = {} /\ fd[p] = None
  /\ \A p \in Procs : fd[p] # None <=> pc[p] = "write"

\* Only this loses a row that has an embedding: an update while a second process
\* is up, a failing Add, a second process that opens an unsaved file, a kill or a
\* failure before a save, and a rebuild that read the row too early or broke off.
\* A rebuild by a process alone, or a new embedding, repairs it.  A row not lost is
\* found by every process, and the file has it or the process that is to save it.
FoundUnlessLost ==
  \A r \in Embedded \ lost :
    /\ \A p \in Up : Rebuilds(p) \/ Finds(p, index[p], r)
    /\ Readable => \/ content[file][r] = row[r]
                   \/ \E p \in Up : r \in changed[p]

\* A process killed in the middle of a save leaves the old file: what stands
\* under the file's name can be read, unless two saves overlapped.
TornOnlyByOverlap == file # None /\ content[file] = Torn => overlapped

\* "ReloadVectorIndex rebuilds the in-memory ANN index from SQLite"
\* (db/sqlite.go:218): what a process finds before, it finds after.  Not so if its
\* key was added after the embeddings were collected.
ReloadKeepsFound ==
  [][\A p \in Procs : pc[p] = "reset" /\ pc'[p] = "save" =>
       \A r \in Embedded : Finds(p, index[p], r) => Finds(p, index[p], r)']_vars
=============================================================================
