------------------------------ MODULE HotTier ------------------------------
(***************************************************************************)
(* The hot phase of one `imprint serve` process: POST /ingest?hot handlers *)
(* store raw messages (internal/api/api.go handleHotIngest), the TTL       *)
(* goroutine moves expired ones to cooldown (db.MoveHotToCooldown), and    *)
(* queries search both tiers by text and by vector with concurrent layers  *)
(* (internal/query/query.go retrieve).  The tables and their FTS shadows   *)
(* change in SQLite transactions; the in-memory vector index changes after *)
(* the commit, one key at a time, and its file is read only at startup.    *)
(***************************************************************************)
EXTENDS Integers, FiniteSets

CONSTANTS
  Messages,     \* POST /ingest requests of the hot phase
  Long,         \* those with at least embed_min_chars characters
  TTL,          \* [hot] ttl_minutes
  BatchSize,    \* [hot] batch_size
  Missing,      \* no message; no usable cache file
  MaxClock,     \* bound: the last instant of a behaviour
  MaxStops,     \* bound: process ends in a behaviour
  MaxQueries    \* bound: queries in a behaviour

ASSUME MessagesAssumption ==
  IsFiniteSet(Messages) /\ Long \subseteq Messages /\ Missing \notin Messages
ASSUME ConfigAssumption ==
  /\ TTL \in Nat /\ BatchSize \in Nat \ {0}
  /\ MaxClock \in Nat /\ MaxStops \in Nat /\ MaxQueries \in Nat

VARIABLES
  clock,
  up, stops,
  (* the handlers *)
  pc, stamp, emb,
  (* hot_messages, cooldown_messages and their FTS tables, as message ids *)
  hot, cool, hotFts, coolFts,
  (* the vector index in memory, <<tier, id>> keys, and its file *)
  index, cache,
  (* the TTL goroutine after its commit: rows to re-prefix, the row in hand *)
  pending, carrying,
  (* the query: layers not yet read, vector hits not yet looked up, result *)
  queries, layers, hits, found,
  (* history *)
  asked,        \* messages stored when the query began
  indexed,      \* those of them whose current key was in the index
  moved,        \* those of them moved since
  answered,     \* layers of the query that were read without an error
  outOfSync     \* messages whose key was lost to an error or a stale file

tierVars == <<hot, cool, hotFts, coolFts>>
moverVars == <<pending, carrying>>
queryVars == <<queries, layers, hits, found, asked, indexed, moved, answered>>
vars == <<clock, up, stops, pc, stamp, emb, tierVars, index, cache, moverVars,
          queryVars, outOfSync>>

TextLayers == {"hotText", "coolText"}
VecLayers == {"hotVec", "coolVec"}
Running == layers # {} \/ \E l \in VecLayers : hits[l] # {}
Stored == hot \cup cool

-----------------------------------------------------------------------------
Key(m) == <<IF m \in hot THEN "hot" ELSE "cool", m>>
\* CollectEmbeddingsForVectorIndex
EmbeddingKeys == {Key(m) : m \in {n \in Stored : emb[n]}}

Expired == {m \in hot : stamp[m] + TTL < clock}
\* Defect: rows without an embedding are passed over.
EmbeddedBatches(S) == {B \in SUBSET {m \in S : emb[m]} : Cardinality(B) <= BatchSize}
\* ORDER BY timestamp LIMIT batch_size, in some order of equal timestamps.
Batches(S) ==
  {B \in SUBSET S :
     /\ Cardinality(B) =
          IF Cardinality(S) < BatchSize THEN Cardinality(S) ELSE BatchSize
     /\ \A a \in B, b \in S \ B : stamp[a] <= stamp[b]}

Table(l) == IF l \in {"hotText", "hotVec"} THEN hot ELSE cool
TextLayer(m) == IF m \in hot THEN "hotText" ELSE "coolText"
VecLayer(m) == IF m \in hot THEN "hotVec" ELSE "coolVec"

-----------------------------------------------------------------------------
Init ==
  /\ clock = 0 /\ up = TRUE /\ stops = 0
  /\ pc = [m \in Messages |-> "none"]
  /\ stamp = [m \in Messages |-> 0]
  /\ emb = [m \in Messages |-> FALSE]
  /\ hot = {} /\ cool = {} /\ hotFts = {} /\ coolFts = {}
  /\ index = {} /\ cache = {}
  /\ pending = {} /\ carrying = Missing
  /\ queries = 0 /\ layers = {} /\ hits = [l \in VecLayers |-> {}] /\ found = {}
  /\ asked = {} /\ indexed = {} /\ moved = {} /\ answered = {}
  /\ outOfSync = {}

Tick ==
  /\ clock < MaxClock
  /\ clock' = clock + 1
  /\ UNCHANGED <<up, stops, pc, stamp, emb, tierVars, index, cache, moverVars,
                 queryVars, outOfSync>>

-----------------------------------------------------------------------------
(* handleHotIngest: stamp, embed if long enough, insert, index.            *)

Receive(m) ==
  /\ up /\ pc[m] = "none"
  /\ stamp' = [stamp EXCEPT ![m] = clock]
  /\ pc' = [pc EXCEPT ![m] = IF m \in Long THEN "embed" ELSE "insert"]
  /\ UNCHANGED <<clock, up, stops, emb, tierVars, index, cache, moverVars,
                 queryVars, outOfSync>>

\* The provider answers, or fails and the message goes without an embedding.
Embed(m) ==
  /\ pc[m] = "embed"
  /\ \E ok \in BOOLEAN : emb' = [emb EXCEPT ![m] = ok]
  /\ pc' = [pc EXCEPT ![m] = "insert"]
  /\ UNCHANGED <<clock, up, stops, stamp, tierVars, index, cache, moverVars,
                 queryVars, outOfSync>>

\* The transaction of InsertHotMessage.
Insert(m) ==
  /\ pc[m] = "insert"
  /\ hot' = hot \cup {m} /\ hotFts' = hotFts \cup {m}
  /\ pc' = [pc EXCEPT ![m] = IF emb[m] THEN "index" ELSE "done"]
  /\ UNCHANGED <<clock, up, stops, stamp, emb, cool, coolFts, index, cache,
                 moverVars, queryVars, outOfSync>>

InsertFails(m) ==
  /\ pc[m] = "insert"
  /\ pc' = [pc EXCEPT ![m] = "failed"]
  /\ UNCHANGED <<clock, up, stops, stamp, emb, tierVars, index, cache, moverVars,
                 queryVars, outOfSync>>

\* vecIndex.Add after the commit; its error is dropped.
IndexAdd(m) ==
  /\ pc[m] = "index"
  /\ \/ index' = index \cup {<<"hot", m>>} /\ UNCHANGED outOfSync
     \/ outOfSync' = outOfSync \cup {m} /\ UNCHANGED index
  /\ pc' = [pc EXCEPT ![m] = "done"]
  /\ UNCHANGED <<clock, up, stops, stamp, emb, tierVars, cache, moverVars, queryVars>>

-----------------------------------------------------------------------------
(* The TTL goroutine.                                                      *)

\* Defect: the DELETE has no LIMIT.
DeletedUnlimited(B) == Expired
\* DELETE FROM hot_messages selects again.  What it reads the transaction has not
\* changed, and equal timestamps come in the order of the index: the same batch.
Deleted(B) == B
\* Defect: the FTS rows are not copied.
FtsCopiedNone(B) == {}
\* INSERT INTO cooldown_messages_fts: so does this, joined with the FTS rows there are.
FtsCopied(B) == B \cap hotFts

\* WHERE moved_from_hot = ? AND has_embedding = 1
ToReprefix(B) == {m \in B : emb[m]}

\* The transaction of MoveHotToCooldown, then the list of rows to re-prefix.
MoveHotToCooldown ==
  /\ up /\ pending = {} /\ carrying = Missing
  /\ \E B \in Batches(Expired) :
       /\ B # {}
       /\ cool' = cool \cup B
       /\ coolFts' = coolFts \cup FtsCopied(B)
       /\ hotFts' = hotFts \ Deleted(B)
       /\ hot' = hot \ Deleted(B)
       /\ pending' = ToReprefix(B)
       /\ moved' = moved \cup (B \cap asked)
  /\ UNCHANGED <<clock, up, stops, pc, stamp, emb, index, cache, carrying, queries,
                 layers, hits, found, asked, indexed, answered, outOfSync>>

\* vecIndex.Remove("hot:" + id)
ReprefixRemove ==
  /\ carrying = Missing
  /\ \E m \in pending :
       /\ pending' = pending \ {m}
       /\ carrying' = m
       /\ index' = index \ {<<"hot", m>>}
  /\ UNCHANGED <<clock, up, stops, pc, stamp, emb, tierVars, cache, queryVars, outOfSync>>

\* Defect: the key keeps its prefix.
CoolKeyUnchanged(m) == <<"hot", m>>
CoolKey(m) == <<"cool", m>>
\* vecIndex.Add("cool:" + id, vec)
ReprefixAdd ==
  /\ carrying # Missing
  /\ index' = index \cup {CoolKey(carrying)}
  /\ carrying' = Missing
  /\ UNCHANGED <<clock, up, stops, pc, stamp, emb, tierVars, cache, pending,
                 queryVars, outOfSync>>

\* The select, a scan or an Add fails: the rest of the batch is given up.
ReprefixFails ==
  /\ pending # {} \/ carrying # Missing
  /\ outOfSync' = outOfSync \cup pending \cup ({carrying} \cap Messages)
  /\ pending' = {} /\ carrying' = Missing
  /\ UNCHANGED <<clock, up, stops, pc, stamp, emb, tierVars, index, cache, queryVars>>

-----------------------------------------------------------------------------
(* The process ends and starts again.                                      *)

NoQuery ==
  /\ layers' = {} /\ hits' = [l \in VecLayers |-> {}] /\ found' = {}
  /\ asked' = {} /\ indexed' = {} /\ moved' = {} /\ answered' = {}

\* SIGTERM or a crash: the signal handler calls os.Exit, so that neither runs
\* the deferred store.Close, which would save the index.  (index then is what the
\* memory of the process last held; nothing reads it before Start replaces it.)
Stop ==
  /\ up /\ stops < MaxStops
  /\ up' = FALSE /\ stops' = stops + 1
  /\ pc' = [m \in Messages |-> CASE pc[m] = "index" -> "done"
                                 [] pc[m] \in {"embed", "insert"} -> "failed"
                                 [] OTHER -> pc[m]]
  /\ pending' = {} /\ carrying' = Missing
  /\ NoQuery
  /\ UNCHANGED <<clock, stamp, emb, tierVars, index, cache, queries, outOfSync>>

\* OpenVectorIndex: the file, whatever the database holds; else a rebuild.
Loaded == IF cache = Missing THEN EmbeddingKeys ELSE cache
Start ==
  /\ ~up
  /\ up' = TRUE
  /\ index' = Loaded /\ cache' = Loaded
  /\ outOfSync' = IF cache = Missing THEN {}
                    ELSE {m \in Stored : emb[m] /\ Key(m) \notin cache}
  /\ UNCHANGED <<clock, stops, pc, stamp, emb, tierVars, moverVars, queryVars>>

\* The file is deleted or unreadable.
LoseCache ==
  /\ ~up /\ cache # Missing
  /\ cache' = Missing
  /\ UNCHANGED <<clock, up, stops, pc, stamp, emb, tierVars, index, moverVars,
                 queryVars, outOfSync>>

-----------------------------------------------------------------------------
(* A query.                                                                *)

\* Without an embedding of the question only the text layers run.
BeginQuery ==
  /\ up /\ ~Running /\ queries < MaxQueries
  /\ queries' = queries + 1
  /\ \E withVectors \in BOOLEAN :
       layers' = TextLayers \cup (IF withVectors THEN VecLayers ELSE {})
  /\ asked' = Stored
  /\ indexed' = {m \in Stored : Key(m) \in index}
  /\ hits' = [l \in VecLayers |-> {}]
  /\ found' = {} /\ moved' = {} /\ answered' = {}
  /\ UNCHANGED <<clock, up, stops, pc, stamp, emb, tierVars, index, cache, moverVars,
                 outOfSync>>

\* Defect: the layer searches the other tier's FTS table.
FtsOfOther(l) == IF l = "hotText" THEN coolFts ELSE hotFts
Fts(l) == IF l = "hotText" THEN hotFts ELSE coolFts
\* SearchHotByText, SearchCooldownByText: one statement joins FTS and rows.
SearchText(l) ==
  /\ l \in layers
  /\ layers' = layers \ {l}
  /\ found' = found \cup (Fts(l) \cap Table(l))
  /\ answered' = answered \cup {l}
  /\ UNCHANGED <<clock, up, stops, pc, stamp, emb, tierVars, index, cache, moverVars,
                 queries, hits, asked, indexed, moved, outOfSync>>

\* SearchHotByVector, SearchCooldownByVector: the index is searched, then
\* each hit is looked up; a hit without a row is skipped.
Prefix(l) == IF l = "hotVec" THEN "hot" ELSE "cool"
SearchVector(l) ==
  /\ l \in layers
  /\ layers' = layers \ {l}
  /\ hits' = [hits EXCEPT ![l] = {m \in Messages : <<Prefix(l), m>> \in index}]
  /\ answered' = answered \cup {l}
  /\ UNCHANGED <<clock, up, stops, pc, stamp, emb, tierVars, index, cache, moverVars,
                 queries, found, asked, indexed, moved, outOfSync>>

LookUpHit(l) ==
  /\ \E m \in hits[l] :
       /\ hits' = [hits EXCEPT ![l] = @ \ {m}]
       /\ found' = found \cup ({m} \cap Table(l))
  /\ UNCHANGED <<clock, up, stops, pc, stamp, emb, tierVars, index, cache, moverVars,
                 queries, layers, asked, indexed, moved, answered, outOfSync>>

\* An error of a layer is logged and the query goes on without it.
LayerFails(l) ==
  /\ l \in layers \/ (l \in VecLayers /\ hits[l] # {})
  /\ layers' = layers \ {l}
  /\ hits' = [k \in VecLayers |-> IF k = l THEN {} ELSE hits[k]]
  /\ answered' = answered \ {l}
  /\ UNCHANGED <<clock, up, stops, pc, stamp, emb, tierVars, index, cache, moverVars,
                 queries, found, asked, indexed, moved, outOfSync>>

-----------------------------------------------------------------------------
Handler(m) ==
  Receive(m) \/ Embed(m) \/ Insert(m) \/ InsertFails(m) \/ IndexAdd(m)

Mover == MoveHotToCooldown \/ ReprefixRemove \/ ReprefixAdd \/ ReprefixFails

Query ==
  \/ BeginQuery
  \/ \E l \in TextLayers : SearchText(l)
  \/ \E l \in VecLayers : SearchVector(l) \/ LookUpHit(l)
  \/ \E l \in TextLayers \cup VecLayers : LayerFails(l)

Next ==
  \/ Tick
  \/ \E m \in Messages : Handler(m)
  \/ Mover
  \/ Stop \/ Start \/ LoseCache
  \/ Query

Spec == Init /\ [][Next]_vars

-----------------------------------------------------------------------------
(* Fairness: the TTL goroutine keeps ticking and its calls return; an      *)
(* operator's restarts and the clock are under no obligation.              *)
FairSpec == Spec /\ WF_vars(Mover)

-----------------------------------------------------------------------------
TypeOK ==
  /\ clock \in Nat /\ stops \in Nat /\ queries \in Nat /\ up \in BOOLEAN
  /\ pc \in [Messages -> {"none", "embed", "insert", "index", "done", "failed"}]
  /\ stamp \in [Messages -> Nat] /\ emb \in [Messages -> BOOLEAN]
  /\ hot \subseteq Messages /\ cool \subseteq Messages
  /\ hotFts \subseteq Messages /\ coolFts \subseteq Messages
  /\ index \subseteq {"hot", "cool"} \X Messages
  /\ cache = Missing \/ cache \subseteq {"hot", "cool"} \X Messages
  /\ pending \subseteq cool /\ carrying \in cool \cup {Missing}
  /\ layers \subseteq TextLayers \cup VecLayers
  /\ answered \subseteq TextLayers \cup VecLayers
  /\ hits \in [VecLayers -> SUBSET Messages]
  /\ found \subseteq Messages /\ asked \subseteq Messages
  /\ indexed \subseteq Messages /\ moved \subseteq Messages
  /\ outOfSync \subseteq Messages

\* A message is in one tier, and each FTS table holds exactly the messages of
\* its tier: the statements of a move agree on the batch (MoveHotToCooldown).
TiersAgree == hot \cap cool = {} /\ hotFts = hot /\ coolFts = cool

\* Outside the windows between a commit and its index update, and but for the
\* keys an error or a stale file lost, every stored embedding is searchable
\* under the prefix of the message's tier, whatever inserts, moves and
\* re-prefixing interleave.
IndexComplete ==
  up => \A m \in Stored :
    emb[m] => \/ Key(m) \in index
              \/ pc[m] = "index" \/ m \in pending \cup {carrying} \/ m \in outOfSync

\* A query finds what was stored when it began, unless the message moved while
\* the query ran: by text if the text layer of its tier answered, and also by
\* vector if its key was indexed and that layer answered.
QueryComplete ==
  \A m \in asked \ moved :
    \/ m \in found
    \/ /\ TextLayer(m) \notin answered
       /\ \/ m \notin indexed \/ VecLayer(m) \notin answered
          \/ m \in hits[VecLayer(m)]

\* Once the TTL has passed a message goes to cooldown, unless the process ends.
ExpiredMoves == \A m \in Messages : (up /\ m \in Expired) ~> (m \in cool \/ ~up)

\* The promise to the clients.
tier == [m \in Messages |->
           IF m \in hot THEN "hot" ELSE IF m \in cool THEN "cool" ELSE "none"]
Store == INSTANCE MessageStore WITH Messages <- Messages, tier <- tier
\* The tables, transactions and restarts implement the abstract message store:
\* a message is accepted once, moves once from hot to cooldown, and is not lost.
ImplementsStore == Store!Spec

\* As documented, messages never disappear from query results: a finished query
\* both of whose text layers answered found everything stored when it began.
QueryFindsEveryMessage ==
  ~Running /\ TextLayers \subseteq answered => asked \subseteq found

\* As documented, a shutdown saves the index and a startup loads it: a restart
\* loses no key.
RestartKeepsVectors == [][~up /\ up' => index \subseteq index']_vars

=============================================================================
