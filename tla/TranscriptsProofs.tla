------------------------- MODULE TranscriptsProofs -------------------------
(***************************************************************************)
(* Proofs about Transcripts, for any adapters, contents and bounds.        *)
(***************************************************************************)
EXTENDS Transcripts, FiniteSetTheorems, TLAPS

-----------------------------------------------------------------------------
(* Type correctness.                                                       *)

\* What the type invariant needs to be inductive: attempts are numbered in their
\* order, and whoever gets as far as the chunk rows found or made a transcript.
TypeInv ==
  /\ TypeOK
  /\ attempts \in Nat
  /\ cur \in [Adapters -> Contents \cup {None}]
  /\ nr \in [Adapters -> Nat] /\ \A a \in Adapters : nr[a] <= attempts
  /\ at \in [Adapters -> Nat]
  /\ \A a \in Adapters :
       /\ pc[a] \in {"delete", "row", "ingest", "record"} => transcript
       /\ pc[a] \in {"row", "ingest", "record"} => at[a] > 0

\* An attempt that ends keeps the invariant, whatever it leaves in the tables.
LEMMA EndedType ==
  ASSUME TypeInv, NEW a \in Adapters, Ended(a),
         disk' \in Contents \cup {None}, ingested' \in Contents \cup {None},
         transcript => transcript', UNCHANGED <<rows, fts, attempts>>
  PROVE  TypeInv'
  BY DEF TypeInv, TypeOK, Ended

\* Every step keeps the invariant.
LEMMA TypeStep == TypeInv /\ [Next]_vars => TypeInv'
<1> SUFFICES ASSUME TypeInv, [Next]_vars PROVE TypeInv'
    OBVIOUS
<1> USE TranscriptsAssumption DEF dbVars, attemptVars, historyVars
<1>1. CASE WriteFile
  BY <1>1 DEF WriteFile, TypeInv, TypeOK
<1>2. CASE FileEvent \/ WatcherStarts \/ UNCHANGED vars
  BY <1>2 DEF FileEvent, WatcherStarts, vars, TypeInv, TypeOK
<1>3. ASSUME NEW a \in Adapters, Read(a), UNCHANGED <<disk, dbVars, at>> PROVE TypeInv'
  <2>1. attempts' \in Nat /\ cur' \in [Adapters -> Contents \cup {None}]
        /\ nr' \in [Adapters -> Nat] /\ \A b \in Adapters : nr'[b] <= attempts'
    BY <1>3 DEF Read, TypeInv, TypeOK
  <2>2. \A b, c \in Adapters : b # c /\ nr'[b] = nr'[c] => nr'[b] = 0
    BY <1>3 DEF Read, TypeInv, TypeOK
  <2> QED
    BY <1>3, <2>1, <2>2 DEF Read, TypeInv, TypeOK
<1>4. CASE TimerFires
  <2>1. CASE Read(Watcher)
    BY <1>3, <1>4, <2>1 DEF TimerFires
  <2>2. CASE UNCHANGED <<pc, cur, nr, attempts>>
    BY <1>4, <2>2 DEF TimerFires, TypeInv, TypeOK
  <2> QED
    BY <1>4, <2>1, <2>2 DEF TimerFires
<1>5. CASE WatcherStops
  BY <1>5, EndedType DEF WatcherStops, TypeInv, TypeOK
<1>6. ASSUME NEW a \in Adapters, IngestDir(a) PROVE TypeInv'
  BY <1>3, <1>6 DEF IngestDir
<1>7. ASSUME NEW a \in Adapters, AttemptStep(a) PROVE TypeInv'
  <2>1. CASE SkipIngested(a) \/ AttemptFails(a)
    BY <2>1, EndedType DEF SkipIngested, AttemptFails, TypeInv, TypeOK
  <2>2. CASE CheckTranscript(a)
    BY <2>2 DEF CheckTranscript, GoTo, TypeInv, TypeOK
  <2>3. CASE CreateTranscript(a)
    <3>1. CASE transcript
      BY <2>3, <3>1, EndedType DEF CreateTranscript, TypeInv, TypeOK
    <3>2. CASE ~transcript
      BY <2>3, <3>2 DEF CreateTranscript, FirstRow, TypeInv, TypeOK
    <3> QED
      BY <3>1, <3>2
  <2>4. CASE DeleteTranscriptChunks(a)
    BY <2>4 DEF DeleteTranscriptChunks, FirstRow, TypeInv, TypeOK
  <2>5. CASE CreateTranscriptChunk(a)
    BY <2>5 DEF CreateTranscriptChunk, GoTo, TypeInv, TypeOK
  <2>6. CASE Ingest(a)
    <3>1. cur[a] \in Contents /\ at[a] \in 0..Chunks[cur[a]] /\ Chunks[cur[a]] \in Nat
      BY <2>6 DEF Ingest, TypeInv, TypeOK
    <3>2. CASE at[a] < Chunks[cur[a]]
      <4>1. at[a] + 1 \in 0..Chunks[cur[a]]
        BY <3>1, <3>2
      <4> QED
        BY <2>6, <3>1, <3>2, <4>1 DEF Ingest, TypeInv, TypeOK
    <3>3. CASE ~(at[a] < Chunks[cur[a]])
      BY <2>6, <3>3 DEF Ingest, GoTo, TypeInv, TypeOK
    <3> QED
      BY <3>2, <3>3
  <2>7. CASE UpsertIngestedFile(a)
    <3>1. cur[a] \in Contents
      BY <2>7 DEF UpsertIngestedFile, TypeInv, TypeOK
    <3> QED
      BY <2>7, <3>1, EndedType DEF UpsertIngestedFile, TypeInv, TypeOK
  <2> QED
    BY <1>7, <2>1, <2>2, <2>3, <2>4, <2>5, <2>6, <2>7 DEF AttemptStep
<1> QED
  BY <1>1, <1>2, <1>4, <1>5, <1>6, <1>7 DEF Next

\* The stronger invariant holds throughout.
LEMMA TypeInvHolds == Spec => []TypeInv
<1>1. Init => TypeInv
  BY TranscriptsAssumption DEF Init, TypeInv, TypeOK
<1> QED
  BY <1>1, TypeStep, PTL DEF Spec

\* The type invariant holds for any adapters and contents: attempts have different
\* numbers, chunk rows have their text indexed and belong to a transcript.
THEOREM TypeCorrect == Spec => []TypeOK
<1>1. TypeInv => TypeOK
  BY DEF TypeInv
<1> QED
  BY <1>1, TypeInvHolds, PTL

-----------------------------------------------------------------------------
(* A recorded content is extracted.                                        *)

\* The chunks that the attempt has put behind it.
Passed(a) == IF pc[a] = "record" THEN Chunks[cur[a]] ELSE at[a] - 1

\* What an attempt put behind it is extracted, and so is what is recorded.
ExtractedInv ==
  /\ RecordedIsExtracted
  /\ \A a \in Adapters : pc[a] \in {"row", "ingest", "record"} =>
       \A k \in 1..Passed(a) : <<cur[a], k>> \in extracted

\* Every step keeps it.
LEMMA ExtractedStep == TypeInv /\ ExtractedInv /\ [Next]_vars => ExtractedInv'
<1> SUFFICES ASSUME TypeInv, ExtractedInv, [Next]_vars PROVE ExtractedInv'
    OBVIOUS
<1> USE TranscriptsAssumption DEF dbVars, attemptVars, historyVars, Passed
<1>1. ASSUME NEW a \in Adapters, Read(a), UNCHANGED <<ingested, extracted, at>>
      PROVE  ExtractedInv'
  BY <1>1 DEF Read, ExtractedInv, RecordedIsExtracted, ChunksOf, TypeInv, TypeOK
<1>2. ASSUME NEW a \in Adapters, Ended(a), UNCHANGED <<ingested, extracted>>
      PROVE  ExtractedInv'
  BY <1>2 DEF Ended, ExtractedInv, RecordedIsExtracted, ChunksOf, TypeInv, TypeOK
<1>3. CASE WriteFile \/ FileEvent \/ WatcherStarts \/ UNCHANGED vars
  BY <1>3 DEF WriteFile, FileEvent, WatcherStarts, vars,
              ExtractedInv, RecordedIsExtracted, ChunksOf
<1>4. CASE TimerFires
  <2>1. CASE Read(Watcher)
    BY <1>1, <1>4, <2>1 DEF TimerFires
  <2>2. CASE UNCHANGED <<pc, cur, nr, attempts>>
    BY <1>4, <2>2 DEF TimerFires, ExtractedInv, RecordedIsExtracted, ChunksOf
  <2> QED
    BY <1>4, <2>1, <2>2 DEF TimerFires
<1>5. CASE WatcherStops
  BY <1>2, <1>5 DEF WatcherStops
<1>6. ASSUME NEW a \in Adapters, IngestDir(a) PROVE ExtractedInv'
  BY <1>1, <1>6 DEF IngestDir
<1>7. ASSUME NEW a \in Adapters, AttemptStep(a) PROVE ExtractedInv'
  <2>1. CASE SkipIngested(a) \/ AttemptFails(a)
    BY <1>2, <2>1 DEF SkipIngested, AttemptFails
  <2>2. CASE CheckTranscript(a) \/ CreateTranscriptChunk(a)
    BY <2>2 DEF CheckTranscript, CreateTranscriptChunk, GoTo, TypeInv, TypeOK,
                ExtractedInv, RecordedIsExtracted, ChunksOf
  <2>3. CASE CreateTranscript(a) /\ transcript
    BY <1>2, <2>3 DEF CreateTranscript
  <2>4. CASE (CreateTranscript(a) /\ ~transcript) \/ DeleteTranscriptChunks(a)
    BY <2>4 DEF CreateTranscript, DeleteTranscriptChunks, FirstRow, TypeInv, TypeOK,
                ExtractedInv, RecordedIsExtracted, ChunksOf
  <2>5. CASE Ingest(a)
    <3>1. pc[a] = "ingest" /\ cur' = cur /\ ingested' = ingested
          /\ extracted' = extracted \cup {<<cur[a], at[a]>>}
      BY <2>5 DEF Ingest, IngestChunk, GoTo
    <3>2. at[a] \in Nat /\ at[a] <= Chunks[cur[a]] /\ Chunks[cur[a]] \in Nat
      BY <3>1 DEF TypeInv, TypeOK
    <3>3. \A k \in 1..at[a] : <<cur[a], k>> \in extracted'
      BY <3>1, <3>2 DEF ExtractedInv
    <3>4. CASE at[a] < Chunks[cur[a]]
      <4>1. pc' = [pc EXCEPT ![a] = "row"] /\ at' = [at EXCEPT ![a] = @ + 1]
        BY <2>5, <3>4 DEF Ingest
      <4> QED
        BY <3>1, <3>2, <3>3, <4>1
        DEF ExtractedInv, RecordedIsExtracted, ChunksOf, TypeInv, TypeOK
    <3>5. CASE ~(at[a] < Chunks[cur[a]])
      <4>1. pc' = [pc EXCEPT ![a] = "record"] /\ at' = at
        BY <2>5, <3>5 DEF Ingest, GoTo
      <4> QED
        BY <3>1, <3>2, <3>3, <3>5, <4>1
        DEF ExtractedInv, RecordedIsExtracted, ChunksOf, TypeInv, TypeOK
    <3> QED
      BY <3>4, <3>5
  <2>6. CASE UpsertIngestedFile(a)
    <3>1. ChunksOf(cur[a]) \subseteq extracted
      BY <2>6 DEF UpsertIngestedFile, ExtractedInv, ChunksOf
    <3> QED
      BY <2>6, <3>1 DEF UpsertIngestedFile, Ended, ExtractedInv, RecordedIsExtracted,
                        ChunksOf, TypeInv, TypeOK
  <2> QED
    BY <1>7, <2>1, <2>2, <2>3, <2>4, <2>5, <2>6 DEF AttemptStep
<1> QED
  BY <1>3, <1>4, <1>5, <1>6, <1>7 DEF Next

\* A file that later attempts will skip was extracted whole, however many
\* attempts failed, overlapped or broke off (batch.go, processFile).
THEOREM RecordedExtracted == Spec => []RecordedIsExtracted
<1>1. Init => ExtractedInv
  BY DEF Init, ExtractedInv, RecordedIsExtracted
<1>2. ExtractedInv => RecordedIsExtracted
  BY DEF ExtractedInv
<1> QED
  BY <1>1, <1>2, ExtractedStep, TypeInvHolds, PTL DEF Spec

-----------------------------------------------------------------------------
(* The chunk rows are those of the recorded content.                       *)

\* The rows that attempt n stores for the first k chunks of c.
RowsOf(n, c, k) == {<<n, c, j>> : j \in 1..k}

\* There are as many of them as chunks.
LEMMA RowCount ==
  ASSUME NEW n, NEW c, NEW k \in Nat
  PROVE  Cardinality(RowsOf(n, c, k)) = k
<1> DEFINE f == [j \in 1..k |-> <<n, c, j>>]
<1>1. f \in Bijection(1..k, RowsOf(n, c, k))
  BY DEF RowsOf, Bijection, Injection, Surjection, IsInjective
<1>2. IsFiniteSet(1..k) /\ Cardinality(1..k) = k
  BY FS_Interval
<1>3. ExistsBijection(1..k, RowsOf(n, c, k))
  BY <1>1 DEF ExistsBijection
<1> QED
  BY <1>2, <1>3, FS_Bijection

\* The rows in the table while one attempt replaces them: none before its first
\* chunk, then those of the chunks it passed, with the one in hand once stored.
Replaced(a) ==
  CASE pc[a] = "create" -> ~transcript
    [] pc[a] = "delete" -> TRUE
    [] pc[a] = "row"    -> rows = RowsOf(nr[a], cur[a], at[a] - 1)
    [] pc[a] = "ingest" -> rows = RowsOf(nr[a], cur[a], at[a])
    [] pc[a] = "record" -> rows = RowsOf(nr[a], cur[a], Chunks[cur[a]])

\* Unless attempts overlapped or broke off, at most one replaces the rows and
\* they are its own, or none does and they are those of the recorded content.
RowsInv ==
  ~disturbed =>
    /\ \A a, b \in Touching : a = b
    /\ \A a \in Touching : Replaced(a)
    /\ Touching = {} /\ ingested # None =>
         \E n \in Nat : rows = RowsOf(n, ingested, Chunks[ingested])

\* A step of an attempt that does not touch the rows, or that no other touches.
LEMMA RowsAside ==
  ASSUME TypeInv, RowsInv, NEW a \in Adapters, a \notin Touching, a \notin Touching',
         \A b \in Adapters \ {a} :
           pc'[b] = pc[b] /\ nr'[b] = nr[b] /\ cur'[b] = cur[b] /\ at'[b] = at[b],
         UNCHANGED dbVars, ~disturbed
  PROVE  RowsInv'
<1>1. Touching' = Touching
  BY DEF Touching
<1>2. \A b \in Touching : b # a /\ (Replaced(b) => Replaced(b)')
  BY DEF Touching, Replaced, dbVars
<1> QED
  BY <1>1, <1>2 DEF RowsInv, dbVars

\* Every step keeps the invariant.
LEMMA RowsStep == TypeInv /\ RowsInv /\ [Next]_vars => RowsInv'
<1> SUFFICES ASSUME TypeInv, RowsInv, [Next]_vars, ~disturbed' PROVE RowsInv'
    BY DEF RowsInv
<1> USE TranscriptsAssumption DEF historyVars
<1>0. ASSUME UNCHANGED <<dbVars, attemptVars, disturbed>> PROVE RowsInv'
  <2>1. Touching' = Touching /\ \A a \in Touching : Replaced(a)' = Replaced(a)
    BY <1>0 DEF Touching, Replaced, dbVars, attemptVars
  <2> QED
    BY <1>0, <2>1 DEF RowsInv, dbVars
<1>1. ASSUME NEW a \in Adapters, Read(a), UNCHANGED <<dbVars, at, disturbed>> PROVE RowsInv'
  BY <1>1, RowsAside DEF Read, Touching, TypeInv, TypeOK
<1>2. ASSUME NEW a \in Adapters, Ended(a), UNCHANGED dbVars, disturbed \/ a \in Touching => disturbed'
      PROVE  RowsInv'
  <2>1. ~disturbed /\ a \notin Touching /\ a \notin Touching'
    BY <1>2 DEF Ended, Touching, TypeInv, TypeOK
  <2>2. \A b \in Adapters \ {a} :
          pc'[b] = pc[b] /\ nr'[b] = nr[b] /\ cur'[b] = cur[b] /\ at'[b] = at[b]
    BY <1>2 DEF Ended, TypeInv, TypeOK
  <2> QED
    BY <1>2, <2>1, <2>2, RowsAside
<1>3. CASE WriteFile \/ FileEvent \/ WatcherStarts \/ UNCHANGED vars
  BY <1>0, <1>3 DEF WriteFile, FileEvent, WatcherStarts, vars
<1>4. CASE TimerFires
  <2>1. CASE Read(Watcher)
    BY <1>1, <1>4, <2>1 DEF TimerFires
  <2>2. CASE UNCHANGED <<pc, cur, nr, attempts>>
    BY <1>0, <1>4, <2>2 DEF TimerFires, attemptVars
  <2> QED
    BY <1>4, <2>1, <2>2 DEF TimerFires
<1>5. CASE WatcherStops
  BY <1>2, <1>5 DEF WatcherStops
<1>6. ASSUME NEW a \in Adapters, IngestDir(a) PROVE RowsInv'
  BY <1>1, <1>6 DEF IngestDir
<1>7. ASSUME NEW a \in Adapters, AttemptStep(a) PROVE RowsInv'
  <2>1. CASE SkipIngested(a)
    BY <1>2, <2>1 DEF SkipIngested, Touching
  <2>2. CASE AttemptFails(a)
    BY <1>2, <2>2 DEF AttemptFails
  <2>3. CASE CheckTranscript(a)
    <3>1. Touching = {} /\ Touching' = {a}
      BY <2>3 DEF CheckTranscript, GoTo, Touching, TypeInv, TypeOK
    <3>2. Replaced(a)'
      BY <2>3 DEF CheckTranscript, GoTo, Replaced, dbVars, TypeInv, TypeOK
    <3> QED
      BY <3>1, <3>2 DEF RowsInv
  \* From here on the attempt is the only one that touches the rows.
  <2>4. ASSUME a \in Touching, ~disturbed, a \in Touching',
               \A b \in Adapters \ {a} : pc'[b] = pc[b], Replaced(a)'
        PROVE  RowsInv'
    <3>1. Touching' = {a}
      BY <2>4 DEF RowsInv, Touching
    <3> QED
      BY <2>4, <3>1 DEF RowsInv
  <2>5. CASE CreateTranscript(a)
    <3>1. ~transcript /\ ~disturbed /\ rows = {}
      BY <2>5 DEF CreateTranscript, TypeInv, TypeOK
    <3>2. RowsOf(nr[a], cur[a], 0) = {}
      BY DEF RowsOf
    <3> QED
      BY <2>4, <2>5, <3>1, <3>2 DEF CreateTranscript, FirstRow, Touching, Replaced, TypeInv, TypeOK
  <2>6. CASE DeleteTranscriptChunks(a)
    <3>1. RowsOf(nr[a], cur[a], 0) = {}
      BY DEF RowsOf
    <3> QED
      BY <2>4, <2>6, <3>1 DEF DeleteTranscriptChunks, FirstRow, Touching, Replaced, TypeInv, TypeOK
  <2>7. CASE CreateTranscriptChunk(a)
    <3>1. rows = RowsOf(nr[a], cur[a], at[a] - 1) /\ at[a] \in Nat
      BY <2>7 DEF CreateTranscriptChunk, RowsInv, Touching, Replaced, TypeInv, TypeOK
    <3>2. at[a] > 0
      BY <2>7 DEF CreateTranscriptChunk, TypeInv
    <3>3. rows' = RowsOf(nr[a], cur[a], at[a])
      BY <2>7, <3>1, <3>2 DEF CreateTranscriptChunk, RowsOf
    <3> QED
      BY <2>4, <2>7, <3>3 DEF CreateTranscriptChunk, GoTo, Touching, Replaced, TypeInv, TypeOK
  <2>8. CASE Ingest(a)
    <3>1. rows = RowsOf(nr[a], cur[a], at[a]) /\ at[a] \in Nat /\ at[a] <= Chunks[cur[a]]
          /\ Chunks[cur[a]] \in Nat
      <4>1. a \in Touching /\ ~disturbed /\ pc[a] = "ingest"
        BY <2>8 DEF Ingest, Touching
      <4>2. Replaced(a)
        BY <4>1 DEF RowsInv
      <4> QED
        BY <4>1, <4>2 DEF Replaced, TypeInv, TypeOK
    <3>2. CASE at[a] < Chunks[cur[a]]
      <4>1. Replaced(a)' /\ a \in Touching /\ a \in Touching' /\ ~disturbed
        BY <2>8, <3>1, <3>2 DEF Ingest, Touching, Replaced, dbVars, TypeInv, TypeOK
      <4> QED
        BY <2>4, <2>8, <3>2, <4>1 DEF Ingest, TypeInv, TypeOK
    <3>3. CASE ~(at[a] < Chunks[cur[a]])
      <4>1. at[a] = Chunks[cur[a]]
        BY <3>1, <3>3
      <4>2. Replaced(a)' /\ a \in Touching /\ a \in Touching' /\ ~disturbed
        BY <2>8, <3>1, <3>3, <4>1 DEF Ingest, GoTo, Touching, Replaced, dbVars, TypeInv, TypeOK
      <4> QED
        BY <2>4, <2>8, <3>3, <4>2 DEF Ingest, GoTo, TypeInv, TypeOK
    <3> QED
      BY <3>2, <3>3
  <2>9. CASE UpsertIngestedFile(a)
    <3>1. Touching = {a} /\ rows = RowsOf(nr[a], cur[a], Chunks[cur[a]])
      <4>1. a \in Touching /\ ~disturbed /\ pc[a] = "record"
        BY <2>9 DEF UpsertIngestedFile, Touching
      <4>2. Replaced(a) /\ Touching = {a}
        BY <4>1 DEF RowsInv, Touching
      <4> QED
        BY <4>1, <4>2 DEF Replaced
    <3>2. Touching' = {}
      BY <2>9, <3>1 DEF UpsertIngestedFile, Ended, Touching, TypeInv, TypeOK
    <3>3. nr[a] \in Nat /\ rows' = rows /\ ingested' = cur[a]
      BY <2>9 DEF UpsertIngestedFile, TypeInv
    <3> QED
      BY <3>1, <3>2, <3>3 DEF RowsInv
  <2> QED
    BY <1>7, <2>1, <2>2, <2>3, <2>5, <2>6, <2>7, <2>8, <2>9 DEF AttemptStep
<1> QED
  BY <1>3, <1>4, <1>5, <1>6, <1>7 DEF Next

\* Once no attempt is under way, a search finds the chunks of the recorded content
\* and each of them once, unless attempts overlapped or broke off (batch.go,
\* processFile; the rows are replaced without a transaction).
THEOREM RowsOfTheRecord == Spec => []RowsMatchRecord
<1>1. Init => RowsInv
  BY DEF Init, RowsInv, Touching
<1>2. TypeInv /\ RowsInv => RowsMatchRecord
  <2> SUFFICES ASSUME TypeInv, RowsInv, ingested # None, Touching = {}, ~disturbed
               PROVE  /\ {<<r[2], r[3]>> : r \in rows} = ChunksOf(ingested)
                      /\ Cardinality(rows) = Chunks[ingested]
      BY DEF RowsMatchRecord
  <2>1. PICK n \in Nat : rows = RowsOf(n, ingested, Chunks[ingested])
    BY DEF RowsInv
  <2>2. Chunks[ingested] \in Nat
    BY TranscriptsAssumption DEF TypeInv, TypeOK
  <2>3. Cardinality(rows) = Chunks[ingested]
    BY <2>1, <2>2, RowCount
  <2>4. {<<r[2], r[3]>> : r \in rows} = ChunksOf(ingested)
    <3>1. \A r \in rows : \E k \in 1..Chunks[ingested] : r = <<n, ingested, k>>
      BY <2>1 DEF RowsOf
    <3>2. \A k \in 1..Chunks[ingested] : <<n, ingested, k>> \in rows
      BY <2>1 DEF RowsOf
    <3>3. \A r \in rows : <<r[2], r[3]>> \in ChunksOf(ingested)
      BY <3>1 DEF ChunksOf
    <3>4. \A x \in ChunksOf(ingested) : \E r \in rows : x = <<r[2], r[3]>>
      <4> SUFFICES ASSUME NEW k \in 1..Chunks[ingested]
                   PROVE  \E r \in rows : <<ingested, k>> = <<r[2], r[3]>>
          BY DEF ChunksOf
      <4>1. <<n, ingested, k>> \in rows
        BY <3>2
      <4> QED
        BY <4>1
    <3> QED
      BY <3>3, <3>4
  <2> QED
    BY <2>3, <2>4
<1> QED
  BY <1>1, <1>2, RowsStep, TypeInvHolds, PTL DEF Spec

=============================================================================
