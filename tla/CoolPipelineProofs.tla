------------------------ MODULE CoolPipelineProofs ------------------------
(***************************************************************************)
(* Proofs about CoolPipeline, for every set of messages, sessions and      *)
(* workers and every threshold.  The safety properties follow from one     *)
(* inductive invariant, IInv; so does, with AbandonedIsClosed, that the    *)
(* workers implement the queue of clusters.                                *)
(***************************************************************************)
EXTENDS CoolPipeline, TLAPS

\* Only rows have a cluster, and its id was issued.
IssuedOnly ==
  \A m \in Messages :
    cluster[m] # None => m \in cool /\ cluster[m] \in 1..lastCluster

\* A segment to be written holds messages of one session.
PlanWithinSession ==
  \A w \in Workers : \A S \in plan[w] :
    \E s \in Sessions : \A m \in S : SessionOf[m] = s

\* What a worker is about to process was issued, and its text is complete.
WorkerHoldsCluster ==
  \A w \in Workers :
    /\ ready[w] \subseteq 1..lastCluster
    /\ wpc[w] \in {"claim", "ingest", "rollback"} =>
         held[w] \in 1..lastCluster /\ text[w] = Rows(held[w])

\* An extracted cluster stays processed and nobody claims it again.
ExtractedIsClosed ==
  /\ extracted \subseteq 1..lastCluster
  /\ \A c \in extracted :
       /\ Rows(c) \subseteq processed
       /\ \A w \in Workers : Holds(w) => held[w] # c

IInv ==
  /\ IssuedOnly
  /\ PlanWithinSession
  /\ WorkerHoldsCluster
  /\ ClusterWithinSession
  /\ ClaimExclusive
  /\ ExtractedIsClosed
  /\ ExtractedAtMostOnce
  /\ UnlinkedProcessedWasExtracted

\* What a step may do to the rows: they are never deleted, and a row that had no
\* cluster may get a new one.
RowStep ==
  /\ cool \subseteq cool'
  /\ lastCluster' \in {lastCluster, lastCluster + 1}
  /\ \A m \in Messages : cluster'[m] # cluster[m] =>
       /\ m \in cool /\ cluster[m] = None
       /\ cluster'[m] = lastCluster + 1 /\ lastCluster' = lastCluster + 1

-----------------------------------------------------------------------------
(* Type correctness.                                                       *)

\* The segments of a set of messages are sets of those messages (HybridUnion).
LEMMA SegmentsOfRows ==
  ASSUME NEW S \in SUBSET Messages
  PROVE  HybridUnion(S) \subseteq SUBSET SUBSET S
BY DEF HybridUnion

\* Initially the type invariant holds.
LEMMA TypeInit == Init => TypeOK
BY ConfigAssumption, MessagesAssumption DEF Init, TypeOK, Idle

\* The steps of the cool worker preserve the type invariant.
LEMMA TypeWorker ==
  ASSUME TypeOK, NEW w \in Workers,
         WorkerStep(w) \/ StatementFails(w) \/ Crash(w)
  PROVE  TypeOK'
<1> USE ConfigAssumption, MessagesAssumption
<1> USE DEF TypeOK, rowVars, workerVars, batchVars, historyVars
<1>1. CASE BeginTick(w)
  BY <1>1 DEF BeginTick, ListSessionsWithUnclusteredCooldown
<1>2. CASE Segment(w)
  <2>1. PICK s \in todo[w] :
          /\ todo' = [todo EXCEPT ![w] = @ \ {s}]
          /\ \E P \in HybridUnion(ListCooldownUnclustered(s)) :
               plan' = [plan EXCEPT ![w] = P]
    BY <1>2 DEF Segment
  <2>2. ListCooldownUnclustered(s) \in SUBSET Messages
    BY DEF ListCooldownUnclustered
  <2>3. plan' \in [Workers -> SUBSET SUBSET Messages]
    BY <2>1, <2>2, SegmentsOfRows
  <2>4. todo' \in [Workers -> SUBSET Sessions]
    BY <2>1
  <2> QED BY <1>2, <2>3, <2>4 DEF Segment
<1>3. CASE Assign(w)
  <2>1. PICK S \in plan[w] :
          /\ plan' = [plan EXCEPT ![w] = @ \ {S}]
          /\ AssignCooldownCluster(lastCluster + 1, S)
    BY <1>3 DEF Assign
  <2>2. cluster' \in [Messages -> Nat \cup {None}]
    BY <2>1 DEF AssignCooldownCluster
  <2>3. lastCluster' \in Nat
    BY <1>3 DEF Assign
  <2> QED BY <1>3, <2>1, <2>2, <2>3 DEF Assign
<1>4. CASE ListReady(w)
  <2>1. ListClustersReadyForExtraction \subseteq Nat
    BY DEF ListClustersReadyForExtraction, ClusterIds
  <2> QED BY <1>4, <2>1 DEF ListReady
<1>5. CASE LoadCluster(w)
  <2>1. PICK c \in ready[w] :
          /\ ready' = [ready EXCEPT ![w] = @ \ {c}]
          /\ held' = [held EXCEPT ![w] = c]
          /\ text' = [text EXCEPT ![w] = Rows(c)]
    BY <1>5 DEF LoadCluster
  <2>2. Rows(c) \subseteq Messages
    BY DEF Rows
  <2> QED BY <1>5, <2>1, <2>2 DEF LoadCluster
<1>6. CASE SkipClaimed(w)
  BY <1>6 DEF SkipClaimed, NextCluster
<1>7. CASE ClaimCluster(w)
  BY <1>7 DEF ClaimCluster, Rows
<1>8. CASE IngestSucceeds(w)
  <2>1. held[w] \in Nat
    BY <1>8 DEF IngestSucceeds
  <2> QED BY <1>8, <2>1 DEF IngestSucceeds, NextCluster
<1>9. CASE IngestFails(w)
  BY <1>9 DEF IngestFails
<1>10. CASE Rollback(w)
  BY <1>10 DEF Rollback, ClearClusterProcessed, NextCluster
<1>11. CASE StatementFails(w) /\ ~RollbackFails(w)
  <2>1. CASE ListSessionsFails(w)
    BY <2>1 DEF ListSessionsFails
  <2>2. CASE SegmentFails(w)
    BY <2>2 DEF SegmentFails
  <2>3. CASE AssignFails(w)
    BY <2>3 DEF AssignFails
  <2>4. CASE ListReadyFails(w)
    BY <2>4 DEF ListReadyFails
  <2>5. CASE LoadFails(w)
    BY <2>5 DEF LoadFails, NextCluster
  <2>6. CASE ClaimFails(w)
    BY <2>6 DEF ClaimFails, NextCluster
  <2> QED
    BY <1>11, <2>1, <2>2, <2>3, <2>4, <2>5, <2>6 DEF StatementFails
<1>13. CASE RollbackFails(w)
  <2>1. held[w] \in Nat
    BY <1>13 DEF RollbackFails
  <2> QED BY <1>13, <2>1 DEF RollbackFails, NextCluster
<1>14. CASE Crash(w)
  <2>1. abandoned' \subseteq Nat
    <3>1. wpc[w] \in {"ingest", "rollback"} => held[w] \in Nat
      OBVIOUS
    <3> QED BY <1>14, <3>1 DEF Crash
  <2>2. /\ wpc' \in [Workers -> {"idle", "segment", "load", "claim", "ingest", "rollback"}]
        /\ \A v \in Workers :
             wpc'[v] \in {"claim", "ingest", "rollback"} => held'[v] # None
    BY <1>14 DEF Crash
  <2> QED BY <1>14, <2>1, <2>2 DEF Crash
<1> QED
  BY <1>1, <1>2, <1>3, <1>4, <1>5, <1>6, <1>7, <1>8, <1>9, <1>10, <1>11,
     <1>13, <1>14
  DEF WorkerStep, StatementFails

\* The steps of the batch adapter preserve the type invariant.
LEMMA TypeBatch ==
  ASSUME TypeOK, BatchStep
  PROVE  TypeOK'
<1> USE ConfigAssumption, MessagesAssumption
<1> USE DEF TypeOK, rowVars, workerVars, batchVars, historyVars
<1>1. ASSUME NEW s \in Transcribed, BeginFile(s)
      PROVE  TypeOK'
  BY <1>1 DEF BeginFile
<1>2. CASE IngestFile
  <2>1. PICK f \in BOOLEAN :
          /\ ingested' = [ingested EXCEPT ![batch.session] =
                            [covers |-> batch.covers, facts |-> f]]
          /\ batch' = [batch EXCEPT !.pc = "link", !.covers = {}, !.facts = f]
    BY <1>2 DEF IngestFile
  <2> QED BY <1>2, <2>1 DEF IngestFile
<1>3. CASE IngestFileFails
  BY <1>3 DEF IngestFileFails, Idle
<1>4. CASE LinkCooldown
  <2>1. SessionUnprocessed(batch.session) \subseteq cool
    BY DEF SessionUnprocessed, Unprocessed
  <2> QED BY <1>4, <2>1 DEF LinkCooldown, Idle
<1>5. CASE MarkCooldown
  <2>1. Markable(batch.session) \subseteq cool
    BY DEF Markable, SessionUnprocessed, Unprocessed
  <2> QED BY <1>5, <2>1 DEF MarkCooldown, Idle
<1>6. CASE LinkingFails
  BY <1>6 DEF LinkingFails, Idle
<1> QED
  BY <1>1, <1>2, <1>3, <1>4, <1>5, <1>6 DEF BatchStep

\* Every step preserves the type invariant.
LEMMA TypeStep ==
  ASSUME TypeOK, [Next]_vars
  PROVE  TypeOK'
<1> USE ConfigAssumption, MessagesAssumption
<1>1. CASE Tick
  BY <1>1 DEF Tick, TypeOK, rowVars, workerVars, batchVars, historyVars
<1>2. CASE MoveHotToCooldown
  BY <1>2 DEF MoveHotToCooldown, TypeOK, workerVars, batchVars, historyVars
<1>3. ASSUME NEW s \in Transcribed, WriteTranscript(s)
      PROVE  TypeOK'
  BY <1>3 DEF WriteTranscript, TypeOK, rowVars, workerVars, historyVars
<1>4. CASE UNCHANGED vars
  BY <1>4 DEF vars, TypeOK, rowVars, workerVars, batchVars, historyVars
<1> QED
  BY <1>1, <1>2, <1>3, <1>4, TypeWorker, TypeBatch DEF Next

\* The variables of the rows, the workers and the batch adapter keep their types
\* through every interleaving, crash and failure.
THEOREM TypeCorrect == Spec => []TypeOK
<1>1. TypeOK /\ [Next]_vars => TypeOK'
  BY TypeStep
<1> QED BY TypeInit, <1>1, PTL DEF Spec

-----------------------------------------------------------------------------
(* What a step does to the rows.                                           *)

\* Rows are never deleted and a cluster id is written once, to rows without one,
\* and it is a fresh id (AssignCooldownCluster, MoveHotToCooldown).
LEMMA RowsStep ==
  ASSUME TypeOK, IssuedOnly, [Next]_vars
  PROVE  RowStep
<1> USE ConfigAssumption DEF RowStep, TypeOK
<1>1. CASE UNCHANGED rowVars
  BY <1>1 DEF rowVars
<1>2. ASSUME NEW w \in Workers, Assign(w)
      PROVE  RowStep
  <2>1. PICK S \in plan[w] : AssignCooldownCluster(lastCluster + 1, S)
    BY <1>2 DEF Assign
  <2>2. ASSUME NEW m \in Messages, cluster'[m] # cluster[m]
        PROVE  /\ m \in cool /\ cluster[m] = None
               /\ cluster'[m] = lastCluster + 1
    BY <2>1, <2>2 DEF AssignCooldownCluster
  <2>3. lastCluster' \in {lastCluster, lastCluster + 1}
    BY <1>2 DEF Assign
  <2>4. cluster' # cluster => lastCluster' = lastCluster + 1
    BY <1>2 DEF Assign
  <2> QED BY <1>2, <2>2, <2>3, <2>4 DEF Assign
<1>3. CASE MoveHotToCooldown
  BY <1>3 DEF MoveHotToCooldown
<1>4. ASSUME NEW w \in Workers, ClaimCluster(w) \/ Rollback(w)
      PROVE  RowStep
  BY <1>4 DEF ClaimCluster, Rollback
<1>5. CASE LinkCooldown \/ MarkCooldown
  BY <1>5 DEF LinkCooldown, MarkCooldown
<1>6. ASSUME NEW w \in Workers, StatementFails(w) \/ Crash(w)
      PROVE  UNCHANGED rowVars
  BY <1>6 DEF StatementFails, ListSessionsFails, SegmentFails, AssignFails,
              ListReadyFails, LoadFails, ClaimFails, RollbackFails, Crash
<1>7. ASSUME NEW w \in Workers, WorkerStep(w),
             ~Assign(w), ~ClaimCluster(w), ~Rollback(w)
      PROVE  UNCHANGED rowVars
  BY <1>7 DEF WorkerStep, BeginTick, Segment, ListReady, LoadCluster, SkipClaimed,
              IngestSucceeds, IngestFails
<1>8. ASSUME BatchStep, ~LinkCooldown, ~MarkCooldown
      PROVE  UNCHANGED rowVars
  BY <1>8 DEF BatchStep, BeginFile, IngestFile, IngestFileFails, LinkingFails
<1>9. Tick \/ (\E s \in Transcribed : WriteTranscript(s)) \/ UNCHANGED vars
        => UNCHANGED rowVars
  BY DEF Tick, WriteTranscript, vars
<1> QED
  BY <1>1, <1>2, <1>3, <1>4, <1>5, <1>6, <1>7, <1>8, <1>9 DEF Next

\* The rows of an issued cluster do not change (ListClusterMessages returns the
\* same rows whenever it is called).
LEMMA IssuedRowsStable ==
  ASSUME TypeOK, TypeOK', IssuedOnly, RowStep, NEW c \in 1..lastCluster
  PROVE  Rows(c)' = Rows(c)
<1> USE ConfigAssumption
<1>1. c # None /\ cool \subseteq cool' /\ cool \subseteq Messages
  BY DEF TypeOK, RowStep
<1>2. ASSUME NEW m \in cool, cluster[m] = c
      PROVE  cluster'[m] = c
  BY <1>1, <1>2 DEF RowStep
<1>3. ASSUME NEW m \in cool', cluster'[m] = c, m \in Messages
      PROVE  m \in cool /\ cluster[m] = c
  <2>1. cluster'[m] = cluster[m]
    BY <1>3 DEF RowStep, TypeOK
  <2> QED BY <1>1, <1>3, <2>1 DEF IssuedOnly
<1>4. cool' \subseteq Messages
  BY DEF TypeOK
<1> QED BY <1>1, <1>2, <1>3, <1>4 DEF Rows

\* Ids stay issued.
LEMMA IssuedStep ==
  ASSUME TypeOK, IssuedOnly, RowStep
  PROVE  IssuedOnly' /\ 1..lastCluster \subseteq 1..lastCluster'
BY ConfigAssumption DEF TypeOK, IssuedOnly, RowStep

\* A segment of one session stays a segment of one session, so a cluster is.
LEMMA WithinSessionStep ==
  ASSUME TypeOK, IssuedOnly, PlanWithinSession, ClusterWithinSession, [Next]_vars
  PROVE  PlanWithinSession' /\ ClusterWithinSession'
<1> USE ConfigAssumption, MessagesAssumption
<1>0. RowStep
  BY RowsStep
<1>1. PlanWithinSession'
  <2>1. ASSUME NEW w \in Workers, Segment(w)
        PROVE  PlanWithinSession'
    <3>1. PICK s \in Sessions :
            \E P \in HybridUnion(ListCooldownUnclustered(s)) :
              plan' = [plan EXCEPT ![w] = P]
      BY <2>1 DEF Segment, TypeOK
    <3>2. \A P \in HybridUnion(ListCooldownUnclustered(s)) : \A S \in P :
            \A m \in S : SessionOf[m] = s
      <4>1. ListCooldownUnclustered(s) \in SUBSET Messages
        BY DEF ListCooldownUnclustered, TypeOK
      <4> QED BY <4>1, SegmentsOfRows DEF ListCooldownUnclustered
    <3> QED BY <3>1, <3>2 DEF PlanWithinSession, TypeOK
  <2>2. ASSUME NEW w \in Workers, plan' = [plan EXCEPT ![w] = {}]
        PROVE  PlanWithinSession'
    BY <2>2 DEF PlanWithinSession, TypeOK
  <2>3. ASSUME NEW w \in Workers, NEW S, plan' = [plan EXCEPT ![w] = @ \ {S}]
        PROVE  PlanWithinSession'
    BY <2>3 DEF PlanWithinSession, TypeOK
  <2>4. CASE UNCHANGED plan
    BY <2>4 DEF PlanWithinSession
  <2>5. ASSUME NEW w \in Workers, WorkerStep(w), ~Segment(w), ~Assign(w)
        PROVE  UNCHANGED plan
    BY <2>5 DEF WorkerStep, BeginTick, ListReady, LoadCluster, SkipClaimed,
                ClaimCluster, IngestSucceeds, IngestFails, Rollback
  <2>6. ASSUME NEW w \in Workers, StatementFails(w), ~AssignFails(w)
        PROVE  UNCHANGED plan
    BY <2>6 DEF StatementFails, ListSessionsFails, SegmentFails, ListReadyFails,
                LoadFails, ClaimFails, RollbackFails
  <2>7. ASSUME NEW w \in Workers, AssignFails(w) \/ Crash(w)
        PROVE  plan' = [plan EXCEPT ![w] = {}]
    BY <2>7 DEF AssignFails, Crash
  <2>8. BatchStep => UNCHANGED plan
    BY DEF BatchStep, BeginFile, IngestFile, IngestFileFails, LinkCooldown,
           MarkCooldown, LinkingFails, workerVars
  <2>9. \/ Tick \/ MoveHotToCooldown \/ UNCHANGED vars
        \/ \E s \in Transcribed : WriteTranscript(s)
        => UNCHANGED plan
    BY DEF Tick, MoveHotToCooldown, WriteTranscript, vars, workerVars
  <2>10. ASSUME NEW w \in Workers, Assign(w)
         PROVE  PlanWithinSession'
    BY <2>10, <2>3 DEF Assign
  <2> QED
    BY <2>1, <2>2, <2>4, <2>5, <2>6, <2>7, <2>8, <2>9, <2>10 DEF Next
<1>2. ClusterWithinSession'
  <2>1. ASSUME NEW w \in Workers, Assign(w)
        PROVE  ClusterWithinSession'
    <3>1. PICK S \in plan[w] : AssignCooldownCluster(lastCluster + 1, S)
      BY <2>1 DEF Assign
    <3>2. PICK s \in Sessions : \A m \in S : SessionOf[m] = s
      BY DEF PlanWithinSession
    <3>3. \A m \in cool :
            cluster'[m] = IF m \in S /\ cluster[m] = None
                            THEN lastCluster + 1 ELSE cluster[m]
      BY <3>1 DEF AssignCooldownCluster, TypeOK
    <3>4. \A m \in cool : cluster[m] # lastCluster + 1
      BY DEF IssuedOnly, TypeOK
    <3> QED BY <2>1, <3>2, <3>3, <3>4 DEF ClusterWithinSession, Assign
  <2>2. CASE UNCHANGED cluster
    <3>1. ASSUME NEW m \in cool', cluster'[m] # None
          PROVE  m \in cool /\ cluster[m] = cluster'[m]
      BY <2>2, <3>1, TypeStep DEF IssuedOnly, TypeOK
    <3> QED BY <3>1 DEF ClusterWithinSession
  <2>3. (\A w \in Workers : ~Assign(w)) => UNCHANGED cluster
    BY DEF Next, WorkerStep, BeginTick, Segment, ListReady, LoadCluster, SkipClaimed,
           ClaimCluster, IngestSucceeds, IngestFails, Rollback, StatementFails,
           ListSessionsFails, SegmentFails, AssignFails, ListReadyFails, LoadFails,
           ClaimFails, RollbackFails, Crash, BatchStep, BeginFile, IngestFile,
           IngestFileFails, LinkCooldown, MarkCooldown, LinkingFails, Tick,
           MoveHotToCooldown, WriteTranscript, vars, rowVars
  <2> QED BY <2>1, <2>2, <2>3
<1> QED BY <1>1, <1>2

-----------------------------------------------------------------------------
(* What a step does to the workers.                                        *)

\* A worker that is past loading works on an issued cluster with all its rows.
LEMMA WorkerHoldsStep ==
  ASSUME TypeOK, IssuedOnly, WorkerHoldsCluster, [Next]_vars
  PROVE  WorkerHoldsCluster'
<1> USE ConfigAssumption
<1> DEFINE Past(pc) == pc \in {"claim", "ingest", "rollback"}
           Good(v) == /\ ready'[v] \subseteq 1..lastCluster
                      /\ Past(wpc'[v]) => /\ held'[v] \in 1..lastCluster
                                          /\ text'[v] = Rows(held'[v])
<1>1. ASSUME \A v \in Workers : Good(v)
      PROVE  WorkerHoldsCluster'
  <2>1. TypeOK' /\ RowStep
    BY TypeStep, RowsStep
  <2>2. 1..lastCluster \subseteq 1..lastCluster'
    BY <2>1, IssuedStep
  <2>3. \A c \in 1..lastCluster : Rows(c)' = Rows(c)
    BY <2>1, IssuedRowsStable
  <2> QED BY <1>1, <2>2, <2>3 DEF WorkerHoldsCluster, Rows
<1>2. CASE UNCHANGED <<wpc, ready, held, text>>
  BY <1>1, <1>2 DEF WorkerHoldsCluster
<1>3. ASSUME NEW w \in Workers, WorkerStep(w)
      PROVE  \A v \in Workers : Good(v)
  <2> SUFFICES ASSUME NEW v \in Workers PROVE Good(v)
    OBVIOUS
  <2> USE DEF WorkerHoldsCluster, TypeOK
  <2>1. CASE BeginTick(w) \/ Segment(w) \/ Assign(w)
    BY <2>1 DEF BeginTick, Segment, Assign
  <2>2. CASE ListReady(w)
    <3>1. ListClustersReadyForExtraction \subseteq 1..lastCluster
      BY DEF ListClustersReadyForExtraction, ClusterIds, IssuedOnly
    <3> QED BY <2>2, <3>1 DEF ListReady
  <2>3. CASE LoadCluster(w)
    <3>1. PICK c \in ready[w] :
            /\ ready' = [ready EXCEPT ![w] = @ \ {c}]
            /\ held' = [held EXCEPT ![w] = c]
            /\ text' = [text EXCEPT ![w] = Rows(c)]
      BY <2>3 DEF LoadCluster
    <3>2. c \in 1..lastCluster
      BY <3>1
    <3>3. wpc' = [wpc EXCEPT ![w] = "claim"]
      BY <2>3 DEF LoadCluster
    <3> QED BY <3>1, <3>2, <3>3
  <2>4. CASE SkipClaimed(w) \/ IngestSucceeds(w) \/ Rollback(w)
    <3>1. /\ NextCluster(w, ready[w]) /\ UNCHANGED ready
      BY <2>4 DEF SkipClaimed, IngestSucceeds, Rollback
    <3> QED BY <3>1 DEF NextCluster
  <2>5. CASE ClaimCluster(w)
    BY <2>5 DEF ClaimCluster
  <2>6. CASE IngestFails(w)
    BY <2>6 DEF IngestFails
  <2> QED BY <1>3, <2>1, <2>2, <2>3, <2>4, <2>5, <2>6 DEF WorkerStep
<1>4. ASSUME NEW w \in Workers, StatementFails(w)
      PROVE  \A v \in Workers : Good(v)
  <2> SUFFICES ASSUME NEW v \in Workers PROVE Good(v)
    OBVIOUS
  <2> USE DEF WorkerHoldsCluster, TypeOK
  <2>1. CASE ListSessionsFails(w) \/ ListReadyFails(w)
    BY <2>1 DEF ListSessionsFails, ListReadyFails
  <2>2. CASE SegmentFails(w) \/ AssignFails(w)
    BY <2>2 DEF SegmentFails, AssignFails
  <2>3. CASE LoadFails(w)
    BY <2>3 DEF LoadFails, NextCluster
  <2>4. CASE ClaimFails(w) \/ RollbackFails(w)
    BY <2>4 DEF ClaimFails, RollbackFails, NextCluster
  <2> QED BY <1>4, <2>1, <2>2, <2>3, <2>4 DEF StatementFails
<1>5. ASSUME NEW w \in Workers, Crash(w)
      PROVE  \A v \in Workers : Good(v)
  BY <1>5 DEF WorkerHoldsCluster, TypeOK, Crash
<1>6. BatchStep => UNCHANGED <<wpc, ready, held, text>>
  BY DEF BatchStep, BeginFile, IngestFile, IngestFileFails, LinkCooldown,
         MarkCooldown, LinkingFails, workerVars
<1>7. \/ Tick \/ MoveHotToCooldown \/ UNCHANGED vars
      \/ \E s \in Transcribed : WriteTranscript(s)
      => UNCHANGED <<wpc, ready, held, text>>
  BY DEF Tick, MoveHotToCooldown, WriteTranscript, vars, workerVars
<1> QED BY <1>1, <1>2, <1>3, <1>4, <1>5, <1>6, <1>7 DEF Next

\* Steps that neither claim, extract nor roll back: what is processed stays so,
\* newly processed rows are linked, nobody becomes a holder, and one who stops
\* holding a cluster leaves it abandoned.
QuietStep ==
  /\ processed \subseteq processed' /\ linked \subseteq linked'
  /\ processed' \ processed \subseteq linked'
  /\ UNCHANGED <<extracted, reextracted, workerDone>>
  /\ abandoned \subseteq abandoned'
  /\ \A v \in Workers : Holds(v)' =>
       Holds(v) /\ held'[v] = held[v] /\ text'[v] = text[v]
  /\ \A v \in Workers : Holds(v) => Holds(v)' \/ held[v] \in abandoned'

ClaimInv ==
  /\ ClaimExclusive
  /\ ExtractedIsClosed
  /\ ExtractedAtMostOnce
  /\ UnlinkedProcessedWasExtracted

\* Every step but a claim, an extraction and a rollback is a quiet step.
LEMMA OthersAreQuiet ==
  ASSUME TypeOK, [Next]_vars,
         \A w \in Workers : ~ClaimCluster(w) /\ ~IngestSucceeds(w) /\ ~Rollback(w)
  PROVE  QuietStep
<1> USE DEF Holds, QuietStep
<1>1. ASSUME NEW w \in Workers, WorkerStep(w)
      PROVE  QuietStep
  <2> USE DEF TypeOK, historyVars
  <2>1. CASE BeginTick(w)
    BY <2>1 DEF BeginTick, rowVars
  <2>2. CASE Segment(w)
    BY <2>2 DEF Segment, rowVars
  <2>3. CASE Assign(w)
    BY <2>3 DEF Assign
  <2>4. CASE ListReady(w)
    BY <2>4 DEF ListReady, rowVars
  <2>5. CASE LoadCluster(w)
    BY <2>5 DEF LoadCluster, rowVars
  <2>6. CASE SkipClaimed(w)
    BY <2>6 DEF SkipClaimed, NextCluster, rowVars
  <2>7. CASE IngestFails(w)
    BY <2>7 DEF IngestFails, rowVars
  <2> QED BY <1>1, <2>1, <2>2, <2>3, <2>4, <2>5, <2>6, <2>7 DEF WorkerStep
<1>2. ASSUME NEW w \in Workers, StatementFails(w)
      PROVE  QuietStep
  <2> USE DEF TypeOK, historyVars, rowVars
  <2>1. CASE ListSessionsFails(w)
    BY <2>1 DEF ListSessionsFails
  <2>2. CASE SegmentFails(w)
    BY <2>2 DEF SegmentFails
  <2>3. CASE AssignFails(w)
    BY <2>3 DEF AssignFails
  <2>4. CASE ListReadyFails(w)
    BY <2>4 DEF ListReadyFails
  <2>5. CASE LoadFails(w)
    BY <2>5 DEF LoadFails, NextCluster
  <2>6. CASE ClaimFails(w)
    BY <2>6 DEF ClaimFails, NextCluster
  <2>7. CASE RollbackFails(w)
    BY <2>7 DEF RollbackFails, NextCluster
  <2> QED BY <1>2, <2>1, <2>2, <2>3, <2>4, <2>5, <2>6, <2>7 DEF StatementFails
<1>3. ASSUME NEW w \in Workers, Crash(w)
      PROVE  QuietStep
  BY <1>3 DEF Crash, TypeOK, rowVars
<1>4. CASE LinkCooldown
  BY <1>4 DEF LinkCooldown, workerVars, historyVars
<1>5. CASE MarkCooldown
  BY <1>5 DEF MarkCooldown, Markable, workerVars
<1>6. CASE BatchStep /\ ~LinkCooldown /\ ~MarkCooldown
  BY <1>6 DEF BatchStep, BeginFile, IngestFile, IngestFileFails, LinkingFails,
              rowVars, workerVars, historyVars
<1>7. CASE \/ Tick \/ MoveHotToCooldown \/ UNCHANGED vars
           \/ \E s \in Transcribed : WriteTranscript(s)
  BY <1>7 DEF Tick, MoveHotToCooldown, WriteTranscript, vars, rowVars, workerVars,
              historyVars
<1> QED BY <1>1, <1>2, <1>3, <1>4, <1>5, <1>6, <1>7 DEF Next

\* The next-state rows of cluster c.
RowsNext(c) == {m \in cool' : cluster'[m] = c}

\* The rows of every cluster that is held or extracted stay what they are.
LEMMA HeldRowsStable ==
  ASSUME TypeOK, IInv, [Next]_vars
  PROVE  /\ \A c \in 1..lastCluster : RowsNext(c) = Rows(c)
         /\ \A w \in Workers : Holds(w) =>
              held[w] \in 1..lastCluster /\ text[w] = Rows(held[w])
         /\ extracted \subseteq 1..lastCluster
         /\ 1..lastCluster \subseteq 1..lastCluster'
<1>1. TypeOK' /\ RowStep
  BY TypeStep, RowsStep DEF IInv
<1>2. \A c \in 1..lastCluster : Rows(c)' = Rows(c)
  BY <1>1, IssuedRowsStable DEF IInv
<1>3. \A c \in 1..lastCluster : RowsNext(c) = Rows(c)
  BY <1>2 DEF RowsNext, Rows
<1>4. 1..lastCluster \subseteq 1..lastCluster'
  BY <1>1, IssuedStep DEF IInv
<1> QED
  BY <1>3, <1>4 DEF IInv, ExtractedIsClosed, WorkerHoldsCluster, Holds

\* A quiet step keeps the claims exclusive and what is extracted closed.
LEMMA QuietPreserves ==
  ASSUME TypeOK, IInv, [Next]_vars, QuietStep
  PROVE  ClaimInv'
<1> USE ConfigAssumption
<1>1. TypeOK' /\ RowStep
  BY TypeStep, RowsStep DEF IInv
<1>2. ClaimExclusive'
  <2> SUFFICES ASSUME NEW w \in Workers, Holds(w)'
               PROVE  /\ RowsNext(held'[w]) \subseteq processed'
                      /\ \A v \in Workers \ {w} : Holds(v)' => held'[v] # held'[w]
    BY DEF ClaimExclusive, Rows, RowsNext
  <2>1. Holds(w) /\ held'[w] = held[w]
    BY DEF QuietStep
  <2>2. RowsNext(held'[w]) = Rows(held[w])
    BY <2>1, HeldRowsStable
  <2>3. Rows(held[w]) \subseteq processed'
    BY <2>1 DEF IInv, ClaimExclusive, QuietStep
  <2>4. ASSUME NEW v \in Workers \ {w}, Holds(v)'
        PROVE  held'[v] # held'[w]
    BY <2>1, <2>4 DEF QuietStep, IInv, ClaimExclusive
  <2> QED BY <2>2, <2>3, <2>4
<1>3. ExtractedIsClosed'
  <2>1. extracted' \subseteq 1..lastCluster'
    BY HeldRowsStable DEF QuietStep
  <2>2. ASSUME NEW c \in extracted
        PROVE  /\ RowsNext(c) \subseteq processed'
               /\ \A w \in Workers : Holds(w)' => held'[w] # c
    BY <2>2, HeldRowsStable DEF QuietStep, IInv, ExtractedIsClosed
  <2> QED BY <2>1, <2>2 DEF ExtractedIsClosed, Rows, RowsNext, QuietStep
<1>4. ExtractedAtMostOnce'
  BY DEF IInv, ExtractedAtMostOnce, QuietStep
<1>5. UnlinkedProcessedWasExtracted'
  <2> SUFFICES ASSUME NEW m \in processed' \ linked', m \notin workerDone',
                      cluster'[m] \notin abandoned'
               PROVE  \E w \in Workers :
                        Holds(w)' /\ held'[w] = cluster'[m] /\ m \in text'[w]
    BY DEF UnlinkedProcessedWasExtracted
  <2>1. m \in processed \ linked /\ m \in Messages /\ m \notin workerDone
    BY <1>1 DEF QuietStep, TypeOK
  <2>2. cluster[m] # None => cluster'[m] = cluster[m]
    BY <1>1, <2>1 DEF RowStep
  <2>3. None \notin abandoned /\ \A w \in Workers : Holds(w) => held[w] # None
    <3>1. \A w \in Workers : Holds(w) => held[w] \in 1..lastCluster
      BY HeldRowsStable
    <3>2. None \notin Nat /\ abandoned \subseteq Nat /\ lastCluster \in Nat
      BY DEF TypeOK
    <3>3. None \notin 1..lastCluster
      BY <3>2
    <3> QED BY <3>1, <3>2, <3>3
  <2>4. CASE cluster[m] = None
    BY <2>1, <2>3, <2>4 DEF IInv, UnlinkedProcessedWasExtracted
  <2>5. CASE cluster[m] # None
    <3>1. cluster[m] \notin abandoned /\ cluster[m] \notin abandoned'
      BY <2>2, <2>5 DEF QuietStep
    <3>2. PICK w \in Workers : Holds(w) /\ held[w] = cluster[m] /\ m \in text[w]
      BY <2>1, <3>1 DEF IInv, UnlinkedProcessedWasExtracted
    <3>3. Holds(w)'
      BY <3>1, <3>2 DEF QuietStep
    <3> QED BY <2>2, <2>5, <3>2, <3>3 DEF QuietStep
  <2> QED BY <2>4, <2>5
<1> QED BY <1>2, <1>3, <1>4, <1>5 DEF ClaimInv

\* A claim takes a cluster that nobody holds and nobody extracted, because it
\* found an unprocessed row (ClaimCluster).
LEMMA ClaimPreserves ==
  ASSUME TypeOK, IInv, [Next]_vars, NEW w \in Workers, ClaimCluster(w)
  PROVE  ClaimInv'
<1> DEFINE h == held[w]
<1>0. /\ wpc[w] = "claim" /\ wpc' = [wpc EXCEPT ![w] = "ingest"]
      /\ processed' = processed \cup Rows(h)
      /\ UNCHANGED <<cool, cluster, linked, lastCluster, held, text>>
      /\ UNCHANGED <<extracted, reextracted, workerDone, abandoned>>
  BY DEF ClaimCluster, historyVars
<1>1. h \in 1..lastCluster /\ text[w] = Rows(h)
  BY <1>0 DEF IInv, WorkerHoldsCluster
<1>2. PICK r \in Rows(h) : r \notin processed
  BY DEF ClaimCluster, Claimable, Unprocessed
<1>3. \A v \in Workers : Holds(v) => held[v] # h
  BY <1>2 DEF IInv, ClaimExclusive
<1>4. h \notin extracted
  BY <1>2 DEF IInv, ExtractedIsClosed
<1>5. \A v \in Workers : Holds(v)' <=> Holds(v) \/ v = w
  BY <1>0 DEF Holds, TypeOK
<1>6. ClaimExclusive'
  BY <1>0, <1>3, <1>5 DEF IInv, ClaimExclusive, Rows
<1>7. ExtractedIsClosed'
  BY <1>0, <1>4, <1>5 DEF IInv, ExtractedIsClosed, Rows
<1>8. UnlinkedProcessedWasExtracted'
  <2>1. ASSUME NEW m \in Rows(h)
        PROVE  Holds(w)' /\ held'[w] = cluster'[m] /\ m \in text'[w]
    BY <1>0, <1>1, <1>5 DEF Rows
  <2> QED BY <1>0, <1>5, <2>1 DEF IInv, UnlinkedProcessedWasExtracted
<1> QED
  BY <1>0, <1>6, <1>7, <1>8 DEF ClaimInv, IInv, ExtractedAtMostOnce

\* An extraction closes a cluster that was not extracted before (IngestSucceeds).
LEMMA IngestPreserves ==
  ASSUME TypeOK, IInv, [Next]_vars, NEW w \in Workers, IngestSucceeds(w)
  PROVE  ClaimInv'
<1> DEFINE h == held[w]
<1>0. /\ wpc[w] = "ingest" /\ wpc'[w] \in {"idle", "load"}
      /\ \A v \in Workers \ {w} :
           wpc'[v] = wpc[v] /\ held'[v] = held[v] /\ text'[v] = text[v]
      /\ extracted' = extracted \cup {h}
      /\ reextracted' = reextracted \cup ({h} \cap extracted)
      /\ workerDone' = workerDone \cup text[w]
      /\ UNCHANGED <<cool, cluster, linked, processed, lastCluster, abandoned>>
  BY DEF IngestSucceeds, NextCluster, rowVars, TypeOK
<1>1. Holds(w) /\ h \in 1..lastCluster
  BY <1>0, HeldRowsStable DEF Holds
<1>2. h \notin extracted /\ Rows(h) \subseteq processed
  BY <1>1 DEF IInv, ExtractedIsClosed, ClaimExclusive
<1>3. \A v \in Workers : Holds(v)' <=> Holds(v) /\ v # w
  BY <1>0 DEF Holds
<1>4. \A v \in Workers \ {w} : Holds(v) => held[v] # h
  BY <1>1 DEF IInv, ClaimExclusive
<1>5. ClaimExclusive'
  BY <1>0, <1>3 DEF IInv, ClaimExclusive, Rows
<1>6. ExtractedIsClosed'
  BY <1>0, <1>1, <1>2, <1>3, <1>4 DEF IInv, ExtractedIsClosed, Rows
<1>7. UnlinkedProcessedWasExtracted'
  BY <1>0, <1>3 DEF IInv, UnlinkedProcessedWasExtracted
<1> QED
  BY <1>0, <1>2, <1>5, <1>6, <1>7 DEF ClaimInv, IInv, ExtractedAtMostOnce

\* A rollback un-marks the rows of the cluster its worker alone holds (Rollback).
LEMMA RollbackPreserves ==
  ASSUME TypeOK, IInv, [Next]_vars, NEW w \in Workers, Rollback(w)
  PROVE  ClaimInv'
<1> DEFINE h == held[w]
<1>0. /\ wpc[w] = "rollback" /\ wpc'[w] \in {"idle", "load"}
      /\ \A v \in Workers \ {w} :
           wpc'[v] = wpc[v] /\ held'[v] = held[v] /\ text'[v] = text[v]
      /\ processed' = processed \ Rows(h)
      /\ UNCHANGED <<cool, cluster, linked, lastCluster>>
      /\ UNCHANGED <<extracted, reextracted, workerDone, abandoned>>
  BY DEF Rollback, ClearClusterProcessed, NextCluster, historyVars, TypeOK
<1>1. Holds(w)
  BY <1>0 DEF Holds
<1>2. h \notin extracted
  BY <1>1 DEF IInv, ExtractedIsClosed
<1>3. \A v \in Workers : Holds(v)' <=> Holds(v) /\ v # w
  BY <1>0 DEF Holds
<1>4. \A v \in Workers \ {w} : Holds(v) => held[v] # h
  BY <1>1 DEF IInv, ClaimExclusive
<1>5. \A c : c # h => Rows(c) \cap Rows(h) = {}
  BY DEF Rows
<1>6. ClaimExclusive'
  BY <1>0, <1>3, <1>4, <1>5 DEF IInv, ClaimExclusive, Rows
<1>7. ExtractedIsClosed'
  BY <1>0, <1>2, <1>3, <1>5 DEF IInv, ExtractedIsClosed, Rows
<1>8. UnlinkedProcessedWasExtracted'
  <2>1. \A m \in processed' : m \in cool /\ cluster[m] # h
    BY <1>0 DEF Rows, TypeOK
  <2> QED BY <1>0, <1>3, <2>1 DEF IInv, UnlinkedProcessedWasExtracted
<1> QED
  BY <1>0, <1>6, <1>7, <1>8 DEF ClaimInv, IInv, ExtractedAtMostOnce

-----------------------------------------------------------------------------
(* The inductive invariant and the theorems.                               *)

\* Initially no row, claim or extraction exists.
LEMMA InvInit == Init => IInv
BY ConfigAssumption
DEF Init, IInv, IssuedOnly, PlanWithinSession, WorkerHoldsCluster, ClusterWithinSession,
    ClaimExclusive, ExtractedIsClosed, ExtractedAtMostOnce,
    UnlinkedProcessedWasExtracted, Holds

\* Every step preserves the invariant.
LEMMA InvStep ==
  ASSUME TypeOK, IInv, [Next]_vars
  PROVE  IInv'
<1>1. RowStep /\ IssuedOnly'
  BY RowsStep, IssuedStep DEF IInv
<1>2. PlanWithinSession' /\ ClusterWithinSession'
  BY WithinSessionStep DEF IInv
<1>3. WorkerHoldsCluster'
  BY WorkerHoldsStep DEF IInv
<1>4. ClaimInv'
  BY OthersAreQuiet, QuietPreserves, ClaimPreserves, IngestPreserves,
     RollbackPreserves
<1> QED BY <1>1, <1>2, <1>3, <1>4 DEF IInv, ClaimInv

\* The invariant is inductive together with the types.
LEMMA InvariantHolds == Spec => [](TypeOK /\ IInv)
<1>1. Init => TypeOK /\ IInv
  BY TypeInit, InvInit
<1>2. TypeOK /\ IInv /\ [Next]_vars => TypeOK' /\ IInv'
  BY TypeStep, InvStep
<1> QED BY <1>1, <1>2, PTL DEF Spec

\* A cluster never mixes sessions, whatever the interleaving of workers.
THEOREM WithinSession == Spec => []ClusterWithinSession
<1>1. IInv => ClusterWithinSession
  BY DEF IInv
<1> QED BY InvariantHolds, <1>1, PTL

\* A claimed cluster has one holder and is wholly marked, for any number of
\* serve processes on one database.
THEOREM ExclusiveClaims == Spec => []ClaimExclusive
<1>1. IInv => ClaimExclusive
  BY DEF IInv
<1> QED BY InvariantHolds, <1>1, PTL

\* No retry, second worker, crash or batch marking extracts a cluster again.
THEOREM AtMostOnceExtraction == Spec => []ExtractedAtMostOnce
<1>1. IInv => ExtractedAtMostOnce
  BY DEF IInv
<1> QED BY InvariantHolds, <1>1, PTL

\* A processed row of no transcript was extracted, is being extracted, or lost
\* its worker: nothing else marks it.
THEOREM ProcessedIsAccountedFor == Spec => []UnlinkedProcessedWasExtracted
<1>1. IInv => UnlinkedProcessedWasExtracted
  BY DEF IInv
<1> QED BY InvariantHolds, <1>1, PTL

\* A cluster is never changed after it was written.
THEOREM MembershipFixed == Spec => ClusterMembershipFixed
<1>1. TypeOK /\ IInv /\ [Next]_vars =>
        [\A m \in Messages :
           cluster'[m] # cluster[m] =>
             cluster[m] = None /\ cluster'[m] \notin ClusterIds]_vars
  <2> SUFFICES ASSUME TypeOK, IInv, [Next]_vars, NEW m \in Messages,
                      cluster'[m] # cluster[m]
               PROVE  cluster[m] = None /\ cluster'[m] \notin ClusterIds
    OBVIOUS
  <2>1. cluster[m] = None /\ cluster'[m] = lastCluster + 1
    BY RowsStep DEF IInv, RowStep
  <2>2. ClusterIds \subseteq 1..lastCluster
    BY DEF ClusterIds, IInv, IssuedOnly, TypeOK
  <2>3. lastCluster + 1 \notin 1..lastCluster
    BY DEF TypeOK
  <2> QED BY <2>1, <2>2, <2>3
<1> QED BY InvariantHolds, <1>1, PTL DEF Spec, ClusterMembershipFixed

-----------------------------------------------------------------------------
(* The queue of clusters that the workers implement.                       *)

\* An abandoned cluster stays processed and nobody claims it again.
AbandonedIsClosed ==
  /\ abandoned \subseteq 1..lastCluster
  /\ \A c \in abandoned :
       /\ Rows(c) \subseteq processed
       /\ \A w \in Workers : Holds(w) => held[w] # c

\* The ways of a step of the workers with claims: a claim, an extraction or a
\* rollback of what is held, the loss of it, or none of them.
Claims(w) ==
  /\ ~Holds(w) /\ Holds(w)' /\ held'[w] = held[w] /\ Claimable(held[w])
  /\ processed' = processed \cup Rows(held[w])
  /\ UNCHANGED <<lastCluster, extracted, abandoned>>
LetsGo(w) ==
  /\ Holds(w) /\ ~Holds(w)'
  /\ UNCHANGED lastCluster
  /\ \/ extracted' = extracted \cup {held[w]} /\ UNCHANGED <<processed, abandoned>>
     \/ processed' = processed \ Rows(held[w]) /\ UNCHANGED <<extracted, abandoned>>
     \/ abandoned' = abandoned \cup {held[w]} /\ UNCHANGED <<processed, extracted>>
Others(w) == \A v \in Workers \ {w} : Holds(v)' = Holds(v) /\ held'[v] = held[v]
NoClaim ==
  /\ processed \subseteq processed' /\ UNCHANGED <<extracted, abandoned>>
  /\ lastCluster' \in {lastCluster, lastCluster + 1}
  /\ \A v \in Workers : Holds(v)' = Holds(v) /\ (Holds(v) => held'[v] = held[v])

LEMMA WorkerClaims ==
  ASSUME TypeOK, NEW w \in Workers, WorkerStep(w) \/ StatementFails(w) \/ Crash(w)
  PROVE  (Others(w) /\ (Claims(w) \/ LetsGo(w))) \/ NoClaim
<1> USE DEF TypeOK, Holds, historyVars, rowVars
<1>1. CASE ClaimCluster(w)
  BY <1>1 DEF ClaimCluster, Others, Claims
<1>2. CASE IngestSucceeds(w)
  BY <1>2 DEF IngestSucceeds, NextCluster, Others, LetsGo
<1>3. CASE Rollback(w)
  BY <1>3 DEF Rollback, ClearClusterProcessed, NextCluster, Others, LetsGo
<1>4. CASE RollbackFails(w)
  BY <1>4 DEF RollbackFails, NextCluster, Others, LetsGo
<1>5. CASE Crash(w)
  BY <1>5 DEF Crash, Others, LetsGo, NoClaim
<1>6. CASE BeginTick(w) \/ Segment(w) \/ Assign(w) \/ ListReady(w)
  BY <1>6 DEF BeginTick, Segment, Assign, ListReady, NoClaim
<1>7. CASE LoadCluster(w) \/ SkipClaimed(w) \/ IngestFails(w)
  BY <1>7 DEF LoadCluster, SkipClaimed, IngestFails, NextCluster, NoClaim
<1>8. CASE ListSessionsFails(w) \/ SegmentFails(w) \/ AssignFails(w) \/ ListReadyFails(w)
  BY <1>8 DEF ListSessionsFails, SegmentFails, AssignFails, ListReadyFails, NoClaim
<1>9. CASE LoadFails(w) \/ ClaimFails(w)
  BY <1>9 DEF LoadFails, ClaimFails, NextCluster, NoClaim
<1> QED
  BY <1>1, <1>2, <1>3, <1>4, <1>5, <1>6, <1>7, <1>8, <1>9 DEF WorkerStep, StatementFails

LEMMA StepClaims ==
  ASSUME TypeOK, [Next]_vars
  PROVE  (\E w \in Workers : Others(w) /\ (Claims(w) \/ LetsGo(w))) \/ NoClaim
<1>1. CASE \E w \in Workers : WorkerStep(w) \/ StatementFails(w) \/ Crash(w)
  BY <1>1, WorkerClaims
<1>2. CASE BatchStep
  BY <1>2 DEF BatchStep, BeginFile, IngestFile, IngestFileFails, LinkCooldown, MarkCooldown,
              LinkingFails, rowVars, workerVars, historyVars, NoClaim, Holds
<1>3. CASE \/ Tick \/ MoveHotToCooldown \/ UNCHANGED vars
           \/ \E s \in Transcribed : WriteTranscript(s)
  BY <1>3 DEF Tick, MoveHotToCooldown, WriteTranscript, vars, rowVars, workerVars, historyVars,
              NoClaim, Holds
<1> QED
  BY <1>1, <1>2, <1>3 DEF Next

LEMMA AbandonedStep ==
  ASSUME TypeOK, IInv, AbandonedIsClosed, [Next]_vars
  PROVE  AbandonedIsClosed'
<1>1. /\ \A c \in 1..lastCluster : RowsNext(c) = Rows(c)
      /\ \A w \in Workers : Holds(w) => held[w] \in 1..lastCluster
      /\ 1..lastCluster \subseteq 1..lastCluster'
  BY HeldRowsStable
<1>2. \A w \in Workers : Holds(w) => Rows(held[w]) \subseteq processed
  BY DEF IInv, ClaimExclusive
<1>3. ASSUME NEW w \in Workers, Others(w), Claims(w) PROVE AbandonedIsClosed'
  <2>1. held[w] \notin abandoned
    BY <1>3 DEF Claims, Claimable, Unprocessed, AbandonedIsClosed
  <2>2. \A c \in abandoned : RowsNext(c) \subseteq processed'
    BY <1>1, <1>3 DEF Claims, AbandonedIsClosed
  <2> QED
    BY <1>1, <1>3, <2>1, <2>2 DEF Claims, Others, AbandonedIsClosed, Rows, RowsNext
<1>4. ASSUME NEW w \in Workers, Others(w), LetsGo(w) PROVE AbandonedIsClosed'
  <2>1. \A v \in Workers : Holds(v)' => v # w /\ Holds(v) /\ held'[v] = held[v]
    BY <1>4 DEF LetsGo, Others
  <2>2. \A v \in Workers : Holds(v)' => held[v] # held[w]
    BY <1>4, <2>1 DEF LetsGo, IInv, ClaimExclusive
  <2>3. abandoned' \subseteq abandoned \cup {held[w]} /\ abandoned' \subseteq 1..lastCluster
    BY <1>1, <1>4 DEF LetsGo, AbandonedIsClosed
  <2>4. ASSUME NEW c \in abandoned' PROVE RowsNext(c) \subseteq processed'
    <3>1. RowsNext(c) = Rows(c)
      BY <1>1, <2>3
    <3>2. CASE processed' = processed \ Rows(held[w]) /\ UNCHANGED abandoned
      <4>1. c # held[w] /\ Rows(c) \subseteq processed
        BY <1>4, <3>2 DEF LetsGo, AbandonedIsClosed
      <4> QED
        BY <3>1, <3>2, <4>1 DEF Rows
    <3>3. CASE UNCHANGED processed
      BY <1>2, <1>4, <2>3, <3>1, <3>3 DEF LetsGo, AbandonedIsClosed
    <3> QED
      BY <1>4, <3>2, <3>3 DEF LetsGo
  <2> QED
    BY <1>1, <2>1, <2>2, <2>3, <2>4 DEF AbandonedIsClosed, Rows, RowsNext
<1>5. CASE NoClaim
  <2>1. \A c \in abandoned : RowsNext(c) \subseteq processed'
    BY <1>1, <1>5 DEF NoClaim, AbandonedIsClosed
  <2> QED
    BY <1>1, <1>5, <2>1 DEF NoClaim, AbandonedIsClosed, Rows, RowsNext
<1> QED
  BY <1>3, <1>4, <1>5, StepClaims

LEMMA AbandonedHolds == Spec => []AbandonedIsClosed
<1>1. Init => AbandonedIsClosed
  BY DEF Init, AbandonedIsClosed
<1> QED
  BY <1>1, AbandonedStep, InvariantHolds, PTL DEF Spec

\* A worker that holds nothing has taken nothing.
LEMMA TakenSteps ==
  ASSUME TypeOK, [Next]_vars
  PROVE  /\ Taken \in [Workers -> Nat \cup {None}]
         /\ \A w \in Workers : Holds(w) <=> Taken[w] # None
         /\ \A w \in Workers : Others(w) =>
              Taken' = [Taken EXCEPT ![w] = IF Holds(w)' THEN held'[w] ELSE None]
         /\ (\A v \in Workers : Holds(v)' = Holds(v) /\ (Holds(v) => held'[v] = held[v]))
              => Taken' = Taken
<1>1. Taken \in [Workers -> Nat \cup {None}]
  BY DEF Taken, TypeOK
<1>2. \A w \in Workers : Holds(w) <=> Taken[w] # None
  BY DEF Taken, TypeOK, Holds
<1>3. ASSUME NEW w \in Workers, Others(w)
      PROVE  Taken' = [Taken EXCEPT ![w] = IF Holds(w)' THEN held'[w] ELSE None]
  BY <1>3 DEF Taken, Others
<1>4. ASSUME \A v \in Workers : Holds(v)' = Holds(v) /\ (Holds(v) => held'[v] = held[v])
      PROVE  Taken' = Taken
  BY <1>4 DEF Taken
<1> QED
  BY <1>1, <1>2, <1>3, <1>4

\* The cool workers implement the abstract queue: each step claims, finishes, gives
\* back or loses one cluster, writes a new one, or is none of the queue's business.
THEOREM QueueImplemented == Spec => ImplementsQueue
<1>1. Init => Queue!Init
  BY DEF Init, Queue!Init, Taken, Holds
<1>2. ASSUME TypeOK, IInv, AbandonedIsClosed, [Next]_vars
      PROVE  [Queue!Next]_(Queue!vars)
  <2>1. ASSUME NEW w \in Workers, Others(w), Claims(w) PROVE Queue!Take(w)
    <3>1. Taken[w] = None /\ Taken' = [Taken EXCEPT ![w] = held[w]]
      BY <1>2, <2>1, TakenSteps DEF Claims
    <3>2. PICK r \in Rows(held[w]) : r \notin processed
      BY <2>1 DEF Claims, Claimable, Unprocessed
    <3>3. held[w] \notin extracted \cup abandoned
      BY <1>2, <3>2 DEF IInv, ExtractedIsClosed, AbandonedIsClosed
    <3>4. \A v \in Workers : Taken[v] # held[w]
      <4>1. held[w] # None
        BY <1>2, <2>1, TypeStep DEF Claims, Holds, TypeOK
      <4>2. \A v \in Workers : Holds(v) => held[v] # held[w]
        BY <1>2, <3>2 DEF IInv, ClaimExclusive
      <4> QED
        BY <4>1, <4>2 DEF Taken
    <3>5. held[w] \in 1..lastCluster
      <4>1. held[w] # None
        BY <1>2, <2>1, TypeStep DEF Claims, Holds, TypeOK
      <4>2. cluster[r] = held[w] /\ r \in Messages
        BY <1>2, <3>2 DEF Rows, TypeOK
      <4> QED
        BY <1>2, <4>1, <4>2 DEF IInv, IssuedOnly
    <3>6. held[w] \in Queue!Waiting
      BY <3>3, <3>4, <3>5 DEF Queue!Waiting
    <3> QED
      BY <2>1, <3>1, <3>6 DEF Claims, Queue!Take
  <2>2. ASSUME NEW w \in Workers, Others(w), LetsGo(w)
        PROVE  Queue!Finish(w) \/ Queue!GiveBack(w) \/ Queue!Lose(w)
    <3>1. Taken[w] = held[w] /\ Taken[w] # None /\ Taken' = [Taken EXCEPT ![w] = None]
      BY <1>2, <2>2, TakenSteps DEF LetsGo, Taken
    <3> QED
      BY <2>2, <3>1 DEF LetsGo, Queue!LetGo, Queue!Finish, Queue!GiveBack, Queue!Lose
  <2>3. CASE NoClaim
    <3>1. Taken' = Taken
      BY <1>2, <2>3, TakenSteps DEF NoClaim
    <3> QED
      BY <2>3, <3>1 DEF NoClaim, Queue!Next, Queue!Issue, Queue!vars
  <2> QED
    BY <1>2, <2>1, <2>2, <2>3, StepClaims DEF Queue!Next
<1> QED
  BY <1>1, <1>2, InvariantHolds, AbandonedHolds, PTL DEF Spec, Queue!Spec, ImplementsQueue
=============================================================================
