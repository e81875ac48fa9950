----------------------------- MODULE Retrieval -----------------------------
(***************************************************************************)
(* Questions and context requests against a store that changes meanwhile:  *)
(* internal/query/query.go searches with concurrent layers, merges and     *)
(* reranks what they found and asks the LLM; internal/context/builder.go   *)
(* reads four layers in sequence and lists them.  A layer first gets keys  *)
(* from an index (the vector index or an FTS table) and then reads the     *)
(* rows one at a time, so a row may change, move or vanish in between.     *)
(***************************************************************************)
EXTENDS Integers, FiniteSets, SequencesExt

CONSTANTS
  Facts, Messages, Chunks,
  Old,          \* facts stored before the last recent_hours
  Preferences,  \* facts of type preference
  VectorOrder,  \* keys <<table, id>>, the closest to the question first
  TextOrder,    \* keys <<table, id>>, the best BM25 score first
  LimitOf,      \* layer -> its LIMIT
  Words,        \* the words of the question that name an entity
  Ends,         \* fact -> the entities its extraction relates
  Seeded,       \* relationships of the eval corpus, stored with a source fact
  NoFact,
  Strategies,   \* merge strategies: "rrf", "set-union"
  TopNs,        \* [rerank] top_n
  MaxClock,     \* bound: the last instant of a behaviour
  MaxWrites,    \* bound: changes of the store in a behaviour
  MaxLayers     \* bound: layers that answer; the others fail or are skipped

SearchLayers == {"factVec", "factText", "hotVec", "hotText", "coolVec", "coolText",
                 "chunkVec", "chunkText"}
QueryLayers == SearchLayers \cup {"graph"}
ContextOrder == <<"factVec", "factText", "preferences", "recent">>
Layers == QueryLayers \cup ToSet(ContextOrder)
Never == MaxClock + 1
AllKeys == ({"fact"} \X Facts) \cup ({"hot", "cool"} \X Messages) \cup ({"chunk"} \X Chunks)

ASSUME StoreAssumption ==
  /\ IsFiniteSet(Facts) /\ IsFiniteSet(Messages) /\ IsFiniteSet(Chunks)
  /\ Old \subseteq Facts /\ Preferences \subseteq Facts /\ NoFact \notin Facts
  /\ IsFiniteSet(Seeded) /\ \A r \in Seeded : r.source \in Old
ASSUME QuestionAssumption ==
  /\ VectorOrder \in Seq(AllKeys) /\ TextOrder \in Seq(AllKeys)
  /\ IsInjective(VectorOrder) /\ IsInjective(TextOrder) /\ Words \in Seq(ToSet(Words))
  /\ LimitOf \in [Layers -> Nat] /\ MaxClock \in Nat /\ MaxWrites \in Nat
  /\ TopNs \subseteq Nat /\ Strategies \subseteq {"rrf", "set-union"}

VARIABLES
  clock, writes,
  (* the store: fact rows and their valid_until, facts whose FTS row and     *)
  (* vector key exist, the tier of a message and of its key, chunk rows      *)
  rows, until, known, tier, vkey, chunkRows, rels,
  (* the request: its kind, the layers that answer, those not yet searched,  *)
  (* words not yet looked up, keys whose rows are not yet read, rows read     *)
  phase, kind, asked, open, words, hits, got,
  (* its result *)
  merged, mergedAt, prompt,
  (* fact_citations, by fact; the request's row of query_log is stored *)
  citations, logged,
  (* history: facts expired ever since the request began, and the facts *)
  (* whose relationships were stored by then *)
  expiredAll, relatedBefore

storeVars == <<rows, until, known, tier, vkey, chunkRows, rels>>
layerVars == <<open, words, hits, got>>
requestVars == <<phase, kind, asked, layerVars>>
resultVars == <<merged, mergedAt, prompt, citations, logged>>
requestHistory == <<expiredAll, relatedBefore>>
retrievalVars == <<clock, writes, storeVars, requestVars, resultVars, requestHistory>>

NoPrompt == [facts |-> <<>>, fresh |-> <<>>, chunks |-> {}, other |-> <<>>]
-----------------------------------------------------------------------------
\* What stands at some places of a list.
Kept(s, places) ==
  LET out[n \in 0..Len(s)] ==
        IF n = 0 THEN <<>>
        ELSE IF n \in places THEN Append(out[n - 1], s[n]) ELSE out[n - 1]
  IN out[Len(s)]
\* Every element where it comes first (the "seen" maps of the code).
FirstAt(s, places) == Kept(s, {i \in places : \A j \in places : j < i => s[j] # s[i]})
Distinct(s) == FirstAt(s, DOMAIN s)
KeysIn(S, s) == Kept(s, {i \in DOMAIN s : s[i] \in S})

TableOf(l) ==
  CASE l \in {"factVec", "factText", "graph", "preferences", "recent"} -> "fact"
    [] l \in {"hotVec", "hotText"} -> "hot"
    [] l \in {"coolVec", "coolText"} -> "cool"
    [] OTHER -> "chunk"
IsVector(l) == l \in {"factVec", "hotVec", "coolVec", "chunkVec"}

\* The vector index holds the keys of all tables, an FTS table those of its own;
\* keys of deleted rows stay.
Indexed(key, place) ==
  CASE key[1] = "fact" -> key[2] \in known
    [] key[1] = "chunk" -> TRUE
    [] OTHER -> place[key[2]] = key[1]
HasRow(key) ==
  CASE key[1] = "fact" -> key[2] \in rows
    [] key[1] = "chunk" -> key[2] \in chunkRows
    [] OTHER -> tier[key[2]] = key[1]
Copy(key) ==
  [key |-> key, until |-> IF key[1] = "fact" THEN until[key[2]] ELSE Never]
IsExpired(u) == u < clock

RetrievalInit ==
  /\ clock = 0 /\ writes = 0
  /\ rows = Old /\ known = Old /\ until = [f \in Facts |-> Never]
  /\ tier = [m \in Messages |-> "hot"] /\ vkey = tier
  /\ chunkRows = Chunks /\ rels = Seeded
  /\ phase = "idle" /\ kind = "query"
  /\ asked = {} /\ open = {} /\ words = <<>>
  /\ hits = [l \in Layers |-> <<>>] /\ got = [l \in Layers |-> <<>>]
  /\ merged = <<>> /\ mergedAt = 0 /\ prompt = NoPrompt
  /\ citations = {} /\ logged = FALSE /\ expiredAll = {} /\ relatedBefore = {}

Tick ==
  /\ clock < MaxClock /\ clock' = clock + 1
  /\ UNCHANGED <<writes, storeVars, requestVars, resultVars, requestHistory>>

-----------------------------------------------------------------------------
(* Writers of the store. *)
Writes ==
  /\ writes < MaxWrites /\ writes' = writes + 1
  /\ UNCHANGED <<clock, requestVars, resultVars>>

\* CreateFact and UpdateFactEmbedding of an ingest; the LLM gave valid_until.
StoreFact(f, u) ==
  /\ f \notin known /\ until' = [until EXCEPT ![f] = u]
  /\ rows' = rows \cup {f} /\ known' = known \cup {f}
  /\ Writes /\ UNCHANGED <<tier, vkey, chunkRows, rels, requestHistory>>

\* The relationship that the same extraction returned: it has no source fact.
StoreRelationship(f) ==
  /\ f \in known \ Old /\ \A r \in rels : r.id # f
  /\ rels' = rels \cup {[id |-> f, ends |-> Ends[f], source |-> NoFact]}
  /\ Writes /\ UNCHANGED <<rows, until, known, tier, vkey, chunkRows, requestHistory>>

SetValidUntil(f, u) ==
  /\ f \in rows /\ until[f] # u
  /\ until' = [until EXCEPT ![f] = u]
  /\ expiredAll' = IF IsExpired(u) THEN expiredAll ELSE expiredAll \ {f}
  /\ Writes /\ UNCHANGED <<rows, known, tier, vkey, chunkRows, rels, relatedBefore>>

\* One DELETE, refused as a whole if a relationship refers to one of the facts.
DeleteExpiredFacts ==
  LET gone == {f \in rows : IsExpired(until[f])}
  IN /\ gone # {} /\ \A r \in rels : r.source \notin gone
     /\ rows' = rows \ gone
     /\ Writes /\ UNCHANGED <<until, known, tier, vkey, chunkRows, rels, requestHistory>>

MoveHotToCooldown(m) ==
  /\ tier[m] = "hot" /\ tier' = [tier EXCEPT ![m] = "cool"]
  /\ Writes /\ UNCHANGED <<rows, until, known, vkey, chunkRows, rels, requestHistory>>

\* Defect: the key is renamed without waiting for the commit.
ReprefixEarly(m) ==
  /\ vkey[m] = "hot" /\ vkey' = [vkey EXCEPT ![m] = "cool"]
  /\ UNCHANGED <<clock, writes, rows, until, known, tier, chunkRows, rels,
                 requestVars, resultVars, requestHistory>>
\* After the commit; not bounded, it follows a move.
Reprefix(m) ==
  /\ vkey[m] # tier[m] /\ vkey' = [vkey EXCEPT ![m] = tier[m]]
  /\ UNCHANGED <<clock, writes, rows, until, known, tier, chunkRows, rels,
                 requestVars, resultVars, requestHistory>>

DeleteTranscriptChunks ==
  /\ chunkRows # {} /\ chunkRows' = {}
  /\ Writes /\ UNCHANGED <<rows, until, known, tier, vkey, rels, requestHistory>>

-----------------------------------------------------------------------------
(* The layers. *)
Running == phase = "search"
Finished(l) == l \notin open /\ hits[l] = <<>> /\ (l # "graph" \/ words = <<>>)
AllFinished == \A l \in asked : Finished(l)
\* Layers of a query run concurrently, those of a context request in order.
MayRun(l) ==
  /\ Running /\ l \in asked
  /\ kind = "context" =>
       \A i, j \in DOMAIN ContextOrder :
         ContextOrder[j] = l /\ i < j /\ ContextOrder[i] \in asked
           => Finished(ContextOrder[i])

Reads == UNCHANGED <<clock, writes, storeVars, phase, kind, asked,
                     resultVars, requestHistory>>

Begin(k) ==
  /\ phase = "idle" /\ asked = {}
  /\ kind' = k /\ phase' = "search"
  /\ \E A \in SUBSET (IF k = "query" THEN QueryLayers ELSE ToSet(ContextOrder)) :
       /\ Cardinality(A) \in 1..MaxLayers
       /\ asked' = A /\ open' = A \ {"graph"}
       /\ words' = IF "graph" \in A THEN Distinct(Words) ELSE <<>>
  /\ expiredAll' = {f \in rows : IsExpired(until[f])}
  /\ relatedBefore' = {r.id : r \in rels} \cap Facts
  /\ UNCHANGED <<clock, writes, storeVars, hits, got, resultVars>>

First(n, s) == SubSeq(s, 1, IF Len(s) < n THEN Len(s) ELSE n)
OfTable(t) == {key \in AllKeys : key[1] = t}
\* SearchWithPrefix filters the nearest 3k keys, at most 100, of the whole index.
Oversampled(k) == IF 3 * k > 100 THEN 100 ELSE 3 * k
NearestKeys(l) ==
  KeysIn(OfTable(TableOf(l)), First(Oversampled(LimitOf[l]),
    KeysIn({key \in AllKeys : Indexed(key, vkey)}, VectorOrder)))
MatchingKeys(l) == KeysIn({key \in OfTable(TableOf(l)) : Indexed(key, tier)}, TextOrder)
\* The limit is applied to keys, before rows that are gone are left out.
FirstKeys(l) ==
  First(LimitOf[l], IF IsVector(l) THEN NearestKeys(l) ELSE MatchingKeys(l))

Search(l) ==
  /\ l \in open \cap SearchLayers /\ MayRun(l)
  /\ open' = open \ {l} /\ hits' = [hits EXCEPT ![l] = FirstKeys(l)]
  /\ Reads /\ UNCHANGED <<words, got>>

ReadRow(l) ==
  /\ hits[l] # <<>> /\ MayRun(l)
  /\ hits' = [hits EXCEPT ![l] = Tail(@)]
  /\ got' = IF HasRow(Head(hits[l]))
            THEN [got EXCEPT ![l] = Append(@, Copy(Head(hits[l])))] ELSE got
  /\ Reads /\ UNCHANGED <<open, words>>

\* GetEntityGraph of depth 1 from the entity that the next word names.
OneHop(e) ==
  LET near == {e} \cup UNION {r.ends : r \in {s \in rels : e \in s.ends}}
  IN {r \in rels : r.ends \subseteq near}

\* One source fact per relationship: a fact may come several times.
SourceFacts(e) ==
  {[i \in DOMAIN s |-> <<"fact", s[i].source>>] :
     s \in SetToSeqs({r \in OneHop(e) : r.source # NoFact})}

retrieveByGraph ==
  /\ words # <<>> /\ hits["graph"] = <<>> /\ MayRun("graph")
  /\ \E s \in SourceFacts(Head(words)) : hits' = [hits EXCEPT !["graph"] = s]
  /\ words' = Tail(words)
  /\ Reads /\ UNCHANGED <<open, got>>

\* ListFacts, newest first: facts stored meanwhile, then the old ones.
Newest(S) ==
  {s \in SetToSeqs(S) : \A i, j \in DOMAIN s : s[i] \in Old /\ s[j] \notin Old => j < i}
ListFacts(l) ==
  /\ l \in open \cap {"preferences", "recent"} /\ MayRun(l)
  /\ \E s \in Newest(IF l = "recent" THEN rows \ Old ELSE rows \cap Preferences) :
       got' = [got EXCEPT ![l] =
                 First(LimitOf[l], [i \in DOMAIN s |-> Copy(<<"fact", s[i]>>)])]
  /\ open' = open \ {l}
  /\ Reads /\ UNCHANGED <<words, hits>>

-----------------------------------------------------------------------------
(* Merging what the layers found. *)
MergeOrder == <<"factVec", "factText", "graph", "hotVec", "hotText", "coolVec", "coolText">>
FoundIn(order) ==
  LET found[n \in 0..Len(order)] == IF n = 0 THEN <<>> ELSE found[n - 1] \o got[order[n]]
  IN found[Len(order)]
Found == FoundIn(MergeOrder)
KeysOf(s) == [i \in DOMAIN s |-> s[i].key]

\* 1 / (60 + rank), scaled so that the ranks of an instance divide it.
Scale == 61 * 62 * 63 * 64
Points(rank) == Scale \div (60 + rank)
Positions(l, key) == {i \in DOMAIN got[l] : got[l][i].key = key}
\* Defect: a layer's points replace those of the layers before it.
LastPoints(key) ==
  LET l == MergeOrder[CHOOSE i \in DOMAIN MergeOrder :
             /\ Positions(MergeOrder[i], key) # {}
             /\ \A j \in DOMAIN MergeOrder : Positions(MergeOrder[j], key) # {} => j <= i]
  IN Points(CHOOSE p \in Positions(l, key) : \A q \in Positions(l, key) : q <= p)
Total(s) ==
  LET sum[n \in 0..Len(s)] == IF n = 0 THEN 0 ELSE sum[n - 1] + s[n] IN sum[Len(s)]
LayerScore(l, key) ==
  Total([i \in DOMAIN got[l] |-> IF got[l][i].key = key THEN Points(i) ELSE 0])
Score(key) == Total([i \in DOMAIN MergeOrder |-> LayerScore(MergeOrder[i], key)])

\* The last copy of a fact stands for it, also when it is checked for expiry.
LastCopy(key) ==
  LET s == Found
  IN s[CHOOSE i \in DOMAIN s : s[i].key = key /\ \A j \in DOMAIN s : s[j].key = key => j <= i]
Lasting == {key \in ToSet(KeysOf(Found)) : ~IsExpired(LastCopy(key).until)}
\* Equal scores keep the order of the map, which is any.
MergeAndRank ==
  {s \in SetToSeqs(Lasting) : \A i, j \in DOMAIN s : i < j => Score(s[i]) >= Score(s[j])}
MergeSetUnion ==
  LET s == Found IN FirstAt(KeysOf(s), {i \in DOMAIN s : ~IsExpired(s[i].until)})
MergeRanked(strategy) == IF strategy = "rrf" THEN MergeAndRank ELSE {MergeSetUnion}

Merge ==
  /\ Running /\ kind = "query" /\ AllFinished
  /\ \E strategy \in Strategies : merged' \in MergeRanked(strategy)
  /\ mergedAt' = clock /\ phase' = "rank"
  /\ UNCHANGED <<clock, writes, storeVars, kind, asked, layerVars,
                 prompt, citations, logged, requestHistory>>

\* The facts with an embedding come first: no query loads the embedding of a fact.
CosineReranked(head) == {head}
\* The service lists some facts of the head by their index; the others follow.
GenericReranked(head) ==
  {Distinct(listed \o head) : listed \in SetToAllKPermutations(ToSet(head))}
IsFact(key) == key[1] = "fact"
AllFacts(s) == \A i \in DOMAIN s : IsFact(s[i])
Reranked(topN) ==
  LET n == IF topN \in 1..Len(merged) THEN topN ELSE Len(merged)
      head == SubSeq(merged, 1, n)
      tail == SubSeq(merged, n + 1, Len(merged))
    IN IF AllFacts(head)
     THEN {h \o tail : h \in CosineReranked(head) \cup GenericReranked(head)}
     ELSE {merged}

Ids(s) == [i \in DOMAIN s |-> s[i][2]]
FactKeys(ranked) == KeysIn({"fact"} \X Facts, ranked)
\* collectFreshMessagesSorted: a message found in both tiers is shown once.
\* Defect: rows are told apart by their prefix and id.
FreshByKey(ranked) == Ids(Kept(ranked, {i \in DOMAIN ranked : ~IsFact(ranked[i])}))
FreshMessages(ranked) == FirstAt(Ids(ranked), {i \in DOMAIN ranked : ~IsFact(ranked[i])})

\* The chunks whose transcript could be read; without a ranked item they are lost.
ChunkContexts(ranked) ==
  LET chunks == Distinct(KeysOf(FoundIn(<<"chunkVec", "chunkText">>)))
  IN IF ranked = <<>> THEN {{}} ELSE SUBSET ToSet(First(5, chunks))

RerankAndBuildPrompt ==
  /\ phase = "rank" /\ phase' = "send"
  /\ \E topN \in TopNs : \E ranked \in Reranked(topN) :
       \E chunks \in ChunkContexts(ranked) :
       prompt' = [facts |-> FactKeys(ranked), fresh |-> FreshMessages(ranked),
                  chunks |-> chunks, other |-> <<>>]
  /\ UNCHANGED <<clock, writes, storeVars, kind, asked, layerVars,
                 merged, mergedAt, citations, logged, requestHistory>>

\* Retrieve, for the evaluation: the ranked facts, without the messages.
Retrieve ==
  /\ phase = "rank" /\ phase' = "done" /\ kind' = "retrieve"
  /\ \E topN \in TopNs : \E ranked \in Reranked(topN) :
       prompt' = [NoPrompt EXCEPT !.facts = FactKeys(ranked)]
  /\ UNCHANGED <<clock, writes, storeVars, asked, layerVars, merged, mergedAt,
                 citations, logged, requestHistory>>

\* The LLM may cite what it likes: there is no foreign key, and a citation of a
\* deleted or invented fact is stored as well.  A failed or unreadable answer and a
\* failed insert store none.
persistCitations ==
  \E stored \in SUBSET Facts : citations' = citations \cup stored
\* An insert that fails is only logged.
writeQueryLog == logged' \in BOOLEAN
Answer ==
  /\ phase = "send" /\ phase' = "done"
  /\ persistCitations /\ writeQueryLog
  /\ UNCHANGED <<clock, writes, storeVars, kind, asked, layerVars,
                 merged, mergedAt, prompt, requestHistory>>

\* formatContext; preferences are not compared with the relevant facts, the recent
\* facts are (dedupAgainst).
FormatContext ==
  /\ Running /\ kind = "context" /\ AllFinished /\ phase' = "done" /\ writeQueryLog
  /\ prompt' = [NoPrompt EXCEPT
                  !.facts = Distinct(KeysOf(FoundIn(<<"factVec", "factText", "recent">>))),
                  !.other = KeysOf(got["preferences"])]
  /\ UNCHANGED <<clock, writes, storeVars, kind, asked, layerVars,
                 merged, mergedAt, citations, requestHistory>>

-----------------------------------------------------------------------------
StoreChanges ==
  \/ \E f \in Facts : StoreRelationship(f)
  \/ \E f \in Facts, u \in 0..Never : StoreFact(f, u) \/ SetValidUntil(f, u)
  \/ DeleteExpiredFacts \/ DeleteTranscriptChunks
  \/ \E m \in Messages : MoveHotToCooldown(m) \/ Reprefix(m)
LayerStep ==
  \/ \E l \in Layers : Search(l) \/ ReadRow(l) \/ ListFacts(l)
  \/ retrieveByGraph
RequestStep ==
  \/ \E k \in {"query", "context"} : Begin(k)
  \/ Merge \/ RerankAndBuildPrompt \/ Retrieve \/ Answer \/ FormatContext
RetrievalNext == Tick \/ StoreChanges \/ LayerStep \/ RequestStep
RetrievalSpec == RetrievalInit /\ [][RetrievalNext]_retrievalVars

-----------------------------------------------------------------------------
(* The values of the variables: code of query.go, builder.go and sqlite.go. *)
RetrievalTypeOK ==
  /\ clock \in 0..MaxClock /\ writes \in 0..MaxWrites /\ mergedAt \in 0..MaxClock
  /\ rows \subseteq known /\ known \subseteq Facts /\ until \in [Facts -> 0..Never]
  /\ tier \in [Messages -> {"hot", "cool"}] /\ vkey \in [Messages -> {"hot", "cool"}]
  /\ \A m \in Messages : vkey[m] = "cool" => tier[m] = "cool"
  /\ chunkRows \subseteq Chunks /\ expiredAll \subseteq Facts
  /\ phase \in {"idle", "search", "rank", "send", "done"}
  /\ asked \subseteq Layers /\ open \subseteq asked
  /\ \A l \in Layers :
       /\ hits[l] \in Seq({k \in AllKeys : k[1] = TableOf(l)})
       /\ \A i \in DOMAIN got[l] : got[l][i].key \in AllKeys /\ got[l][i].until \in 0..Never
       /\ l \notin asked => hits[l] = <<>> /\ got[l] = <<>>
  /\ citations \subseteq Facts /\ logged \in BOOLEAN /\ kind \in {"query", "retrieve", "context"}

Occurrences(x, s) == Cardinality({i \in DOMAIN s : s[i] = x})
FoundKeys(l) == ToSet(KeysOf(got[l]))
Answered == phase \in {"send", "done"} /\ kind = "query"
Expiring(key) ==
  \E i \in DOMAIN Found : Found[i].key = key /\ Found[i].until < mergedAt

(* What a layer found reaches the prompt once: a fact that no layer read as *)
(* expired, but none that had expired before the question came and whose    *)
(* expiry nobody put off; and a message, even if it moved between two       *)
(* layers and was found in both tiers.  A context request lists every fact  *)
(* it read, the relevant and recent ones once.                              *)
FindsReachPrompt ==
  /\ Answered => \A l \in ToSet(MergeOrder) : \A key \in FoundKeys(l) :
       IF IsFact(key)
       THEN /\ Occurrences(key, prompt.facts) <= 1
            /\ (~Expiring(key) => Occurrences(key, prompt.facts) = 1)
            /\ key[2] \notin expiredAll \/ Occurrences(key, prompt.facts) = 0
       ELSE Occurrences(key[2], prompt.fresh) = 1
  /\ phase = "done" /\ kind = "context" =>
       \A l \in {"factVec", "factText", "recent"} : \A key \in FoundKeys(l) :
         Occurrences(key, prompt.facts) = 1

FirstPosition(l, key) == CHOOSE p \in Positions(l, key) : \A q \in Positions(l, key) : p <= q
\* a comes first in every layer that found b, and some layer found b.
Leads(a, b) ==
  /\ \E l \in ToSet(MergeOrder) : b \in FoundKeys(l)
  /\ \A l \in ToSet(MergeOrder) : b \in FoundKeys(l) =>
       a \in FoundKeys(l) /\ FirstPosition(l, a) < FirstPosition(l, b)
IndexIn(s, x) == CHOOSE i \in DOMAIN s : s[i] = x
Repeats(l) == \E i, j \in DOMAIN got[l] : i < j /\ got[l][i].key = got[l][j].key

(* The points of the code, 1 / (60 + rank), always fall with the rank; whole *)
(* points tell ranks up to this one apart.                                  *)
MaxRank == 3000
(* The merge respects the layers: an item that is ahead of another in every *)
(* layer that found the other is ranked ahead of it, with either strategy,  *)
(* unless the graph layer found a fact twice, a copy was expired, or a      *)
(* layer found more than MaxRank items.                                    *)
MergeRespectsLayers ==
  /\ phase \in {"rank", "send"} /\ ~Repeats("graph")
  /\ \A l \in ToSet(MergeOrder) : Len(got[l]) <= MaxRank
  =>
    \A a, b \in ToSet(merged) :
      Leads(a, b) /\ ~Expiring(a) => IndexIn(merged, a) < IndexIn(merged, b)

(* spec/ARCHITECTURE.md:179: the graph layer looks up the entities that the *)
(* question names, follows one hop and collects source facts.  So it should *)
(* find the fact that was extracted with a relationship of such an entity.  *)
GraphFindsSources ==
  Running /\ "graph" \in asked /\ Finished("graph") =>
    \A f \in relatedBefore : f \in rows /\ Ends[f] \cap ToSet(Words) # {}
      => <<"fact", f>> \in FoundKeys("graph")
=============================================================================
