--------------------------- MODULE CoolPipeline ---------------------------
(***************************************************************************)
(* The cool phase: cooldown rows are clustered per session, clusters that  *)
(* are large or silent are claimed and handed to Engine.Ingest by the cool *)
(* worker (internal/cooldown/worker.go), while the batch adapter           *)
(* (internal/ingest/batch.go) extracts whole session transcripts, links    *)
(* the cooldown rows of the session to the file and marks them processed.  *)
(* Every statement or transaction on cooldown_messages (internal/db/       *)
(* sqlite.go) is one atomic step; everything else interleaves.  A worker   *)
(* is the cool goroutine of one `imprint serve` process; two processes may *)
(* serve the same database.                                                *)
(***************************************************************************)
EXTENDS Integers, FiniteSets

CONSTANTS
  Messages,        \* message ids (ULIDs)
  Sessions,        \* non-empty platform_session_id values
  NoSession,       \* platform_session_id IS NULL or blank
  SessionOf,       \* the session of each message
  Stamp,           \* the timestamp of each message
  Transcribed,     \* sessions exported to the watched directory
  Workers,         \* serve processes with [cool] enabled
  None,            \* no cluster, no file
  TreeK,           \* segment.Params.TreeK
  MaxClusterSize,  \* [cool] max_cluster_size
  SilenceHours,    \* [cool] silence_hours
  MaxClock,        \* bound: the last instant of a behaviour
  MaxCrashes       \* bound: process deaths in a behaviour

ASSUME MessagesAssumption ==
  /\ IsFiniteSet(Messages)
  /\ NoSession \notin Sessions /\ Transcribed \subseteq Sessions
  /\ SessionOf \in [Messages -> Sessions \cup {NoSession}]
  /\ Stamp \in [Messages -> Nat]
ASSUME ConfigAssumption ==
  /\ TreeK \in Nat /\ MaxClusterSize \in Nat /\ SilenceHours \in Nat
  /\ MaxClock \in Nat /\ MaxCrashes \in Nat
  /\ None \notin Nat

VARIABLES
  clock,
  (* cooldown_messages *)
  cool,          \* ids of the rows
  cluster,       \* cluster_id, None for NULL
  linked,        \* rows with transcript_file set
  processed,     \* rows with processed_at set
  lastCluster,   \* the newest cluster id issued (ids are ULIDs: never reused)
  (* the cool workers *)
  wpc, todo, plan, ready, held, text,
  (* the batch adapter and the files it reads *)
  transcript, ingested, batch,
  (* history *)
  extracted,     \* clusters that Engine.Ingest stored the facts of
  reextracted,   \* those it stored the facts of again
  workerDone,    \* messages whose text was in such a cluster
  batchMarked,   \* rows marked processed by the batch adapter
  abandoned,     \* clusters whose claim outlived the worker's processCluster
  crashes

rowVars == <<cool, cluster, linked, processed, lastCluster>>
workerVars == <<wpc, todo, plan, ready, held, text>>
batchVars == <<transcript, ingested, batch>>
historyVars == <<extracted, reextracted, workerDone, batchMarked, abandoned, crashes>>
vars == <<clock, rowVars, workerVars, batchVars, historyVars>>

Idle == [pc |-> "idle", session |-> NoSession, covers |-> {}, facts |-> FALSE]

-----------------------------------------------------------------------------
(* Queries on cooldown_messages.                                           *)

Rows(c) == {m \in cool : cluster[m] = c}
Unprocessed(S) == S \ processed
ClusterIds == {cluster[m] : m \in cool} \ {None}

\* Defect: the session filter is missing.
UnclusteredOfAnySession(s) == {m \in cool : cluster[m] = None}
ListCooldownUnclustered(s) ==
  {m \in cool : SessionOf[m] = s /\ cluster[m] = None}

ListSessionsWithUnclusteredCooldown ==
  {s \in Sessions : ListCooldownUnclustered(s) # {}}

\* A size trigger counts the unprocessed rows only.
SizeReady(c) ==
  /\ MaxClusterSize > 0
  /\ Cardinality(Unprocessed(Rows(c))) >= MaxClusterSize

\* Silent for SilenceHours, and another cluster of the session moved on.
SilenceReady(c) ==
  /\ SilenceHours > 0
  /\ Unprocessed(Rows(c)) # {}
  /\ \A m \in Unprocessed(Rows(c)) : Stamp[m] + SilenceHours < clock
  /\ \E o \in cool :
       /\ cluster[o] \notin {None, c}
       /\ \A m \in Unprocessed(Rows(c)) :
            SessionOf[o] = SessionOf[m] /\ Stamp[o] > Stamp[m]

ListClustersReadyForExtraction ==
  {c \in ClusterIds : SizeReady(c) \/ SilenceReady(c)}

(* Hybrid Union on the rows S of one session, oldest first: boundaries cut *)
(* S into contiguous segments; with at most TreeK rows every row is a      *)
(* segment of its own (treeSeg), above that the cuts depend on the data.   *)
Precedes(A, B) == \A a \in A, b \in B : Stamp[a] <= Stamp[b]
\* Defect: the last segment is not written.
HybridUnionDropsOne(S) == {{{m} : m \in S \ {n}} : n \in S}
HybridUnion(S) ==
  IF Cardinality(S) <= TreeK
    THEN {{{m} : m \in S}}
    ELSE {P \in SUBSET (SUBSET S \ {{}}) :
            /\ UNION P = S
            /\ \A A, B \in P :
                 A # B => A \cap B = {} /\ (Precedes(A, B) \/ Precedes(B, A))}

-----------------------------------------------------------------------------
Init ==
  /\ clock = 0
  /\ cool = {} /\ linked = {} /\ processed = {} /\ lastCluster = 0
  /\ cluster = [m \in Messages |-> None]
  /\ wpc = [w \in Workers |-> "idle"]
  /\ todo = [w \in Workers |-> {}]
  /\ plan = [w \in Workers |-> {}]
  /\ ready = [w \in Workers |-> {}]
  /\ held = [w \in Workers |-> None]
  /\ text = [w \in Workers |-> {}]
  /\ transcript = [s \in Sessions |-> {}]
  /\ ingested = [s \in Sessions |-> [covers |-> {}, facts |-> FALSE]]
  /\ batch = Idle
  /\ extracted = {} /\ reextracted = {}
  /\ workerDone = {} /\ batchMarked = {}
  /\ abandoned = {} /\ crashes = 0

Tick ==
  /\ clock < MaxClock
  /\ clock' = clock + 1
  /\ UNCHANGED <<rowVars, workerVars, batchVars, historyVars>>

(* The hot TTL goroutine moves an oldest-first batch of expired messages:  *)
(* new rows have no cluster, no transcript and are unprocessed.            *)
MoveHotToCooldown ==
  /\ \E B \in SUBSET (Messages \ cool) :
       /\ B # {}
       /\ \A m \in B : Stamp[m] < clock
       /\ \A m \in (Messages \ cool) \ B : Precedes(B, {m})
       /\ cool' = cool \cup B
  /\ UNCHANGED <<clock, cluster, linked, processed, lastCluster, workerVars,
                 batchVars, historyVars>>

-----------------------------------------------------------------------------
(* The cool worker.  tick: segment each session with unclustered rows,     *)
(* then list the triggered clusters, then process them one by one.         *)

BeginTick(w) ==
  /\ wpc[w] = "idle"
  /\ wpc' = [wpc EXCEPT ![w] = "segment"]
  /\ todo' = [todo EXCEPT ![w] = ListSessionsWithUnclusteredCooldown]
  /\ UNCHANGED <<clock, rowVars, plan, ready, held, text, batchVars, historyVars>>

\* ClusterUnclustered: load the session's unclustered rows and segment them.
Segment(w) ==
  /\ wpc[w] = "segment" /\ plan[w] = {}
  /\ \E s \in todo[w] :
       /\ todo' = [todo EXCEPT ![w] = @ \ {s}]
       /\ \E P \in HybridUnion(ListCooldownUnclustered(s)) :
            plan' = [plan EXCEPT ![w] = P]
  /\ UNCHANGED <<clock, rowVars, wpc, ready, held, text, batchVars, historyVars>>

\* UPDATE ... SET cluster_id = ? WHERE cluster_id IS NULL AND id IN (...)
\* Defect: no IS NULL condition.
AssignCooldownClusterUnguarded(c, S) ==
  cluster' = [m \in Messages |-> IF m \in S \cap cool THEN c ELSE cluster[m]]
AssignCooldownCluster(c, S) ==
  cluster' = [m \in Messages |->
                IF m \in S \cap cool /\ cluster[m] = None THEN c ELSE cluster[m]]

\* One AssignCooldownCluster transaction; segments come in map order.
Assign(w) ==
  /\ wpc[w] = "segment"
  /\ \E S \in plan[w] :
       /\ plan' = [plan EXCEPT ![w] = @ \ {S}]
       /\ AssignCooldownCluster(lastCluster + 1, S)
       /\ lastCluster' = IF cluster' = cluster THEN lastCluster ELSE lastCluster + 1
  /\ UNCHANGED <<clock, cool, linked, processed, wpc, todo, ready, held, text,
                 batchVars, historyVars>>

\* A failed assignment leaves the session's other segments for a later tick.
AssignFails(w) ==
  /\ wpc[w] = "segment" /\ plan[w] # {}
  /\ plan' = [plan EXCEPT ![w] = {}]
  /\ UNCHANGED <<clock, rowVars, wpc, todo, ready, held, text, batchVars, historyVars>>

ListReady(w) ==
  /\ wpc[w] = "segment" /\ plan[w] = {} /\ todo[w] = {}
  /\ ready' = [ready EXCEPT ![w] = ListClustersReadyForExtraction]
  /\ wpc' = [wpc EXCEPT ![w] = IF ready'[w] = {} THEN "idle" ELSE "load"]
  /\ UNCHANGED <<clock, rowVars, todo, plan, held, text, batchVars, historyVars>>

\* processCluster, first statement: ListClusterMessages (processed rows too).
LoadCluster(w) ==
  /\ wpc[w] = "load"
  /\ \E c \in ready[w] :
       /\ ready' = [ready EXCEPT ![w] = @ \ {c}]
       /\ held' = [held EXCEPT ![w] = c]
       /\ text' = [text EXCEPT ![w] = Rows(c)]
  /\ wpc' = [wpc EXCEPT ![w] = "claim"]
  /\ UNCHANGED <<clock, rowVars, todo, plan, batchVars, historyVars>>

\* The cluster is finished with: the next one of the tick, or the end of it.
NextCluster(w, rest) ==
  /\ wpc' = [wpc EXCEPT ![w] = IF rest = {} THEN "idle" ELSE "load"]
  /\ held' = [held EXCEPT ![w] = None]
  /\ text' = [text EXCEPT ![w] = {}]

\* Defect: a claim that took nothing is rolled back.
SkipClaimedRollsBack(w) ==
  /\ wpc[w] = "claim" /\ Unprocessed(Rows(held[w])) = {}
  /\ processed' = processed \ Rows(held[w])
  /\ NextCluster(w, ready[w])
  /\ UNCHANGED <<clock, cool, cluster, linked, lastCluster, todo, plan, ready,
                 batchVars, historyVars>>
\* MarkClusterProcessed is the claim; no row affected means another has it.
SkipClaimed(w) ==
  /\ wpc[w] = "claim" /\ Unprocessed(Rows(held[w])) = {}
  /\ NextCluster(w, ready[w])
  /\ UNCHANGED <<clock, rowVars, todo, plan, ready, batchVars, historyVars>>

\* Defect: the affected count is not looked at.
ClaimableUnguarded(c) == TRUE
Claimable(c) == Unprocessed(Rows(c)) # {}
\* Defect: the claim only looks, as when rows are marked after the extraction.
ClaimWithoutMark(w) ==
  /\ wpc[w] = "claim" /\ Claimable(held[w])
  /\ wpc' = [wpc EXCEPT ![w] = "ingest"]
  /\ UNCHANGED <<clock, rowVars, todo, plan, ready, held, text, batchVars, historyVars>>
ClaimCluster(w) ==
  /\ wpc[w] = "claim" /\ Claimable(held[w])
  /\ processed' = processed \cup Rows(held[w])
  /\ wpc' = [wpc EXCEPT ![w] = "ingest"]
  /\ UNCHANGED <<clock, cool, cluster, linked, lastCluster, todo, plan, ready,
                 held, text, batchVars, historyVars>>

IngestSucceeds(w) ==
  /\ wpc[w] = "ingest"
  /\ extracted' = extracted \cup {held[w]}
  /\ reextracted' = reextracted \cup ({held[w]} \cap extracted)
  /\ workerDone' = workerDone \cup text[w]
  /\ NextCluster(w, ready[w])
  /\ UNCHANGED <<clock, rowVars, todo, plan, ready, batchVars, batchMarked,
                 abandoned, crashes>>

\* Engine.Ingest returns an error only when the LLM extraction fails.
IngestFails(w) ==
  /\ wpc[w] = "ingest"
  /\ wpc' = [wpc EXCEPT ![w] = "rollback"]
  /\ UNCHANGED <<clock, rowVars, todo, plan, ready, held, text, batchVars, historyVars>>

\* Defect: no rollback.
ClearNothing(c) == UNCHANGED processed
\* UPDATE ... SET processed_at = NULL WHERE cluster_id = ?
ClearClusterProcessed(c) == processed' = processed \ Rows(c)

Rollback(w) ==
  /\ wpc[w] = "rollback"
  /\ ClearClusterProcessed(held[w])
  /\ NextCluster(w, ready[w])
  /\ UNCHANGED <<clock, cool, cluster, linked, lastCluster, todo, plan, ready,
                 batchVars, historyVars>>

\* The rollback statement fails: logged, and the claim stays.
RollbackFails(w) ==
  /\ wpc[w] = "rollback"
  /\ abandoned' = abandoned \cup {held[w]}
  /\ NextCluster(w, ready[w])
  /\ UNCHANGED <<clock, rowVars, todo, plan, ready, batchVars, extracted, reextracted,
                 workerDone, batchMarked, crashes>>

(* A statement of the worker fails: logged, and the worker goes on with    *)
(* what does not depend on it.                                             *)
ListSessionsFails(w) ==
  /\ wpc[w] = "idle"
  /\ wpc' = [wpc EXCEPT ![w] = "segment"]
  /\ UNCHANGED <<clock, rowVars, todo, plan, ready, held, text, batchVars, historyVars>>

SegmentFails(w) ==
  /\ wpc[w] = "segment" /\ plan[w] = {}
  /\ \E s \in todo[w] : todo' = [todo EXCEPT ![w] = @ \ {s}]
  /\ UNCHANGED <<clock, rowVars, wpc, plan, ready, held, text, batchVars, historyVars>>

ListReadyFails(w) ==
  /\ wpc[w] = "segment" /\ plan[w] = {} /\ todo[w] = {}
  /\ wpc' = [wpc EXCEPT ![w] = "idle"]
  /\ UNCHANGED <<clock, rowVars, todo, plan, ready, held, text, batchVars, historyVars>>

LoadFails(w) ==
  /\ wpc[w] = "load"
  /\ \E c \in ready[w] :
       /\ ready' = [ready EXCEPT ![w] = @ \ {c}]
       /\ NextCluster(w, ready[w] \ {c})
  /\ UNCHANGED <<clock, rowVars, todo, plan, batchVars, historyVars>>

ClaimFails(w) ==
  /\ wpc[w] = "claim"
  /\ NextCluster(w, ready[w])
  /\ UNCHANGED <<clock, rowVars, todo, plan, ready, batchVars, historyVars>>

StatementFails(w) ==
  \/ ListSessionsFails(w) \/ SegmentFails(w) \/ AssignFails(w)
  \/ ListReadyFails(w) \/ LoadFails(w) \/ ClaimFails(w) \/ RollbackFails(w)

\* The process dies; the database keeps what was committed.
Crash(w) ==
  /\ wpc[w] # "idle" /\ crashes < MaxCrashes
  /\ crashes' = crashes + 1
  /\ abandoned' = IF wpc[w] \in {"ingest", "rollback"}
                    THEN abandoned \cup {held[w]} ELSE abandoned
  /\ wpc' = [wpc EXCEPT ![w] = "idle"]
  /\ todo' = [todo EXCEPT ![w] = {}]
  /\ plan' = [plan EXCEPT ![w] = {}]
  /\ ready' = [ready EXCEPT ![w] = {}]
  /\ held' = [held EXCEPT ![w] = None]
  /\ text' = [text EXCEPT ![w] = {}]
  /\ UNCHANGED <<clock, rowVars, batchVars, extracted, reextracted, workerDone,
                 batchMarked>>

-----------------------------------------------------------------------------
(* The batch adapter, one transcript file per session.                     *)

\* Outside the program: a session is exported with all its messages so far.
WriteTranscript(s) ==
  /\ transcript' = [transcript EXCEPT ![s] =
                      {m \in Messages : SessionOf[m] = s /\ Stamp[m] <= clock}]
  /\ transcript' # transcript
  /\ UNCHANGED <<clock, rowVars, workerVars, ingested, batch, historyVars>>

\* processFile: an unchanged file is not extracted again, only linked.
BeginFile(s) ==
  /\ batch.pc = "idle" /\ transcript[s] # {}
  /\ batch' = IF ingested[s].covers = transcript[s]
                THEN [pc |-> "link", session |-> s, covers |-> {},
                      facts |-> ingested[s].facts]
                ELSE [pc |-> "ingest", session |-> s, covers |-> transcript[s],
                      facts |-> FALSE]
  /\ UNCHANGED <<clock, rowVars, workerVars, transcript, ingested, historyVars>>

IngestFile ==
  /\ batch.pc = "ingest"
  /\ \E f \in BOOLEAN :
       /\ ingested' = [ingested EXCEPT ![batch.session] =
                         [covers |-> batch.covers, facts |-> f]]
       /\ batch' = [batch EXCEPT !.pc = "link", !.covers = {}, !.facts = f]
  /\ UNCHANGED <<clock, rowVars, workerVars, transcript, historyVars>>

\* A chunk fails: the file is not recorded and is extracted again later.
IngestFileFails ==
  /\ batch.pc = "ingest"
  /\ batch' = Idle
  /\ UNCHANGED <<clock, rowVars, workerVars, transcript, ingested, historyVars>>

\* LinkCooldownToTranscript: every unprocessed row of the session.
SessionUnprocessed(s) == {m \in Unprocessed(cool) : SessionOf[m] = s}
LinkCooldown ==
  /\ batch.pc = "link"
  /\ LET S == SessionUnprocessed(batch.session) IN
       /\ linked' = linked \cup S
       /\ batch' = IF S # {} /\ batch.facts THEN [batch EXCEPT !.pc = "mark"] ELSE Idle
  /\ UNCHANGED <<clock, cool, cluster, processed, lastCluster, workerVars,
                 transcript, ingested, historyVars>>

\* Defect: no transcript_file IS NOT NULL condition.
MarkableUnlinked(s) == SessionUnprocessed(s)
\* MarkCooldownProcessedBySession: the linked ones among them.
Markable(s) == SessionUnprocessed(s) \cap linked
MarkCooldown ==
  /\ batch.pc = "mark"
  /\ LET S == Markable(batch.session) IN
       /\ processed' = processed \cup S
       /\ batchMarked' = batchMarked \cup S
  /\ batch' = Idle
  /\ UNCHANGED <<clock, cool, cluster, linked, lastCluster, workerVars, transcript,
                 ingested, extracted, reextracted, workerDone, abandoned, crashes>>

\* Linking or marking fails, or the process dies there: logged and dropped.
LinkingFails ==
  /\ batch.pc \in {"link", "mark"}
  /\ batch' = Idle
  /\ UNCHANGED <<clock, rowVars, workerVars, transcript, ingested, historyVars>>

-----------------------------------------------------------------------------
WorkerStep(w) ==
  \/ BeginTick(w) \/ Segment(w) \/ Assign(w) \/ ListReady(w) \/ LoadCluster(w)
  \/ SkipClaimed(w) \/ ClaimCluster(w) \/ IngestSucceeds(w) \/ IngestFails(w)
  \/ Rollback(w)

BatchStep ==
  \/ \E s \in Transcribed : BeginFile(s)
  \/ IngestFile \/ IngestFileFails \/ LinkCooldown \/ MarkCooldown \/ LinkingFails

Next ==
  \/ Tick
  \/ MoveHotToCooldown
  \/ \E w \in Workers :
       WorkerStep(w) \/ StatementFails(w) \/ Crash(w)
  \/ \E s \in Transcribed : WriteTranscript(s)
  \/ BatchStep

Spec == Init /\ [][Next]_vars

-----------------------------------------------------------------------------
(* Fairness: the ticker keeps firing and every call of the worker returns; *)
(* a statement that keeps being tried succeeds in the end, and so does the *)
(* LLM on some retry of an extraction that is retried forever.             *)
Fairness ==
  \A w \in Workers :
    /\ WF_vars(WorkerStep(w))
    /\ SF_vars(BeginTick(w)) /\ SF_vars(Segment(w)) /\ SF_vars(Assign(w))
    /\ SF_vars(ListReady(w)) /\ SF_vars(LoadCluster(w)) /\ SF_vars(ClaimCluster(w))
    /\ SF_vars(IngestSucceeds(w))
FairSpec == Spec /\ Fairness

-----------------------------------------------------------------------------
TypeOK ==
  /\ clock \in Nat
  /\ cool \subseteq Messages
  /\ cluster \in [Messages -> Nat \cup {None}]
  /\ linked \subseteq cool /\ processed \subseteq cool
  /\ lastCluster \in Nat
  /\ wpc \in [Workers -> {"idle", "segment", "load", "claim", "ingest", "rollback"}]
  /\ todo \in [Workers -> SUBSET Sessions]
  /\ plan \in [Workers -> SUBSET SUBSET Messages]
  /\ ready \in [Workers -> SUBSET Nat]
  /\ held \in [Workers -> Nat \cup {None}]
  /\ \A w \in Workers : wpc[w] \in {"claim", "ingest", "rollback"} => held[w] # None
  /\ text \in [Workers -> SUBSET Messages]
  /\ transcript \in [Sessions -> SUBSET Messages]
  /\ ingested \in [Sessions -> [covers : SUBSET Messages, facts : BOOLEAN]]
  /\ batch \in [pc : {"idle", "ingest", "link", "mark"},
                session : Sessions \cup {NoSession},
                covers : SUBSET Messages, facts : BOOLEAN]
  /\ batch.pc # "idle" => batch.session \in Sessions
  /\ extracted \subseteq Nat /\ reextracted \subseteq Nat
  /\ workerDone \subseteq Messages /\ batchMarked \subseteq Messages
  /\ abandoned \subseteq Nat /\ crashes \in Nat

Holds(w) == wpc[w] \in {"ingest", "rollback"}

\* Rows of one cluster belong to one session (ClusterUnclustered loads one
\* session's rows), whatever moves, marks and second workers interleave.
ClusterWithinSession ==
  \A m, n \in cool :
    cluster[m] # None /\ cluster[m] = cluster[n] => SessionOf[m] = SessionOf[n]

\* A cluster is what it was when it was written: a clustered row never changes
\* cluster and no row joins an existing cluster, although two workers segment
\* the same rows and assign one cluster at a time.
ClusterMembershipFixed ==
  [][\A m \in Messages :
       cluster'[m] # cluster[m] => cluster[m] = None /\ cluster'[m] \notin ClusterIds]_vars

\* Between a successful claim and the end of processCluster the worker holds the
\* cluster alone, with every row of it marked processed.
ClaimExclusive ==
  \A w \in Workers : Holds(w) =>
    /\ Rows(held[w]) \subseteq processed
    /\ \A v \in Workers \ {w} : Holds(v) => held[v] # held[w]

\* Engine.Ingest stores the facts of a cluster at most once: retries, a second
\* worker with the same list of ready clusters, crashes and concurrent batch
\* marking never extract it again.
ExtractedAtMostOnce == reextracted = {}

\* A row of no transcript is processed only because its text was extracted, is
\* being extracted, or its cluster was abandoned by a crash or a failed rollback.
UnlinkedProcessedWasExtracted ==
  \A m \in processed \ linked :
    \/ m \in workerDone
    \/ cluster[m] \in abandoned
    \/ \E w \in Workers : Holds(w) /\ held[w] = cluster[m] /\ m \in text[w]

\* Every row with a session eventually belongs to a cluster, although segments
\* are written one by one and a failed write drops the rest of the plan.
RowEventuallyClustered ==
  \A m \in Messages :
    (m \in cool /\ SessionOf[m] \in Sessions) ~> (cluster[m] # None)

\* A cluster that met a trigger is eventually extracted or abandoned, unless the
\* batch adapter marks rows of it: the rest may then stay below max_cluster_size
\* and never be extracted.
ReadyClusterHandled ==
  \A c \in 1..Cardinality(Messages) :
    (c \in ListClustersReadyForExtraction)
      ~> (c \in extracted \cup abandoned \/ Rows(c) \cap batchMarked # {})

\* The promise to the workers.
Taken == [w \in Workers |-> IF Holds(w) THEN held[w] ELSE None]
Queue == INSTANCE ClusterQueue WITH
           issued <- lastCluster, taken <- Taken, done <- extracted, lost <- abandoned
\* Listing, claiming by marking rows, extracting and rolling back implement the
\* abstract queue: lists of ready clusters may be stale, the batch adapter marks
\* rows, too, and the rollback clears marks, but a cluster that was extracted or
\* whose worker was lost is never taken again, and none is taken by two.
ImplementsQueue == Queue!Spec

\* As documented, a cluster is marked processed when its extraction succeeded
\* and a failed one is retried: a processed row that no worker is busy with was
\* extracted, unless a transcript took it over.
MarkedOnlyOnSuccess ==
  \A m \in processed \ linked :
    m \in workerDone \/ \E w \in Workers : Holds(w) /\ held[w] = cluster[m]

\* As documented, marking linked rows prevents their extraction by the worker.
BatchMarkPreventsExtraction == batchMarked \cap workerDone = {}

=============================================================================
