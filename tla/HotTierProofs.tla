-------------------------- MODULE HotTierProofs --------------------------
(***************************************************************************)
(* Proofs about HotTier, for every set of messages, TTL and batch size:    *)
(* types, the agreement of the tiers, completeness of the vector index and *)
(* of queries, and the refinement of MessageStore.                         *)
(***************************************************************************)
EXTENDS HotTier, TLAPS

\* A request whose insert did not commit stored nothing.
NotInserted == {"none", "embed", "insert", "failed"}
StoredWereInserted == \A m \in Stored : pc[m] \notin NotInserted

\* What is still to be re-prefixed is in cooldown.
IndexCovered ==
  up => /\ \A m \in hot :
             emb[m] => <<"hot", m>> \in index \/ pc[m] = "index" \/ m \in outOfSync
        /\ \A m \in cool :
             emb[m] => <<"cool", m>> \in index \/ m \in pending \cup {carrying}
                       \/ m \in outOfSync

\* A stopped process has no request past its insert and nothing to re-prefix.
DownIsQuiet ==
  ~up => /\ \A m \in Messages : pc[m] \in {"none", "failed", "done"}
         /\ asked = {}

\* What the query is responsible for.
QueryTracks ==
  /\ asked \subseteq Stored /\ indexed \subseteq asked
  /\ \A m \in asked \ moved : TextLayer(m) \in answered => m \in found
  /\ \A m \in indexed \ moved :
       /\ Key(m) \in index
       /\ VecLayer(m) \in answered => m \in found \/ m \in hits[VecLayer(m)]

IInv == TiersAgree /\ StoredWereInserted /\ IndexCovered /\ DownIsQuiet /\ QueryTracks

-----------------------------------------------------------------------------
\* Initially the type invariant holds.
LEMMA TypeInit == Init => TypeOK
BY ConfigAssumption, MessagesAssumption DEF Init, TypeOK, TextLayers, VecLayers

\* Every step preserves the type invariant.
LEMMA TypeStep ==
  ASSUME TypeOK, [Next]_vars
  PROVE  TypeOK'
<1> USE ConfigAssumption, MessagesAssumption
<1> USE DEF TypeOK, tierVars, moverVars, queryVars
<1>1. CASE Tick
  BY <1>1 DEF Tick
<1>2. ASSUME NEW m \in Messages, Handler(m)
      PROVE  TypeOK'
  <2>1. CASE Receive(m)
    BY <2>1 DEF Receive
  <2>2. CASE Embed(m)
    BY <2>2 DEF Embed
  <2>3. CASE Insert(m)
    BY <2>3 DEF Insert
  <2>4. CASE InsertFails(m)
    BY <2>4 DEF InsertFails
  <2>5. CASE IndexAdd(m)
    BY <2>5 DEF IndexAdd
  <2> QED BY <1>2, <2>1, <2>2, <2>3, <2>4, <2>5 DEF Handler
<1>3. CASE MoveHotToCooldown
  <2>1. PICK B \in SUBSET Expired :
          /\ cool' = cool \cup B
          /\ coolFts' = coolFts \cup FtsCopied(B)
          /\ hotFts' = hotFts \ Deleted(B)
          /\ hot' = hot \ Deleted(B)
          /\ pending' = ToReprefix(B)
          /\ moved' = moved \cup (B \cap asked)
    BY <1>3 DEF MoveHotToCooldown, Batches
  <2>2. B \subseteq Messages
    BY DEF Expired
  <2> QED BY <1>3, <2>1, <2>2 DEF MoveHotToCooldown, FtsCopied, Deleted, ToReprefix
<1>4. CASE ReprefixRemove
  <2>1. PICK m \in pending :
          /\ pending' = pending \ {m}
          /\ carrying' = m
          /\ index' = index \ {<<"hot", m>>}
    BY <1>4 DEF ReprefixRemove
  <2> QED BY <1>4, <2>1 DEF ReprefixRemove
<1>5. CASE ReprefixAdd
  BY <1>5 DEF ReprefixAdd, CoolKey
<1>6. CASE ReprefixFails
  BY <1>6 DEF ReprefixFails
<1>7. CASE Stop
  <2>1. pc' \in [Messages -> {"none", "embed", "insert", "index", "done", "failed"}]
    BY <1>7 DEF Stop
  <2>2. hits' \in [VecLayers -> SUBSET Messages]
    BY <1>7 DEF Stop, NoQuery
  <2>3. stops' = stops + 1 /\ up' = FALSE
    BY <1>7, Zenon DEF Stop
  <2>4. stops' \in Nat /\ up' \in BOOLEAN
    <3>1. stops' \in Nat
      BY <2>3
    <3>2. up' \in BOOLEAN
      BY <2>3, Zenon
    <3> QED BY <3>1, <3>2, Zenon
  <2>5. /\ pending' = {} /\ carrying' = Missing /\ layers' = {} /\ found' = {}
        /\ asked' = {} /\ indexed' = {} /\ moved' = {} /\ answered' = {}
        /\ UNCHANGED <<clock, stamp, emb, hot, cool, hotFts, coolFts, index, cache,
                       queries, outOfSync>>
    BY <1>7 DEF Stop, NoQuery
  <2> QED BY <2>1, <2>2, <2>4, <2>5
<1>8. CASE Start
  <2>1. EmbeddingKeys \subseteq {"hot", "cool"} \X Messages
    BY DEF EmbeddingKeys, Key, Stored
  <2>2. Loaded \subseteq {"hot", "cool"} \X Messages
    BY <2>1 DEF Loaded
  <2>3. outOfSync' \subseteq Messages
    BY <1>8 DEF Start, Stored
  <2> QED BY <1>8, <2>2, <2>3 DEF Start
<1>9. CASE LoseCache
  BY <1>9 DEF LoseCache
<1>10. CASE Query
  <2>1. CASE BeginQuery
    BY <2>1 DEF BeginQuery, Stored
  <2>2. ASSUME NEW l \in TextLayers, SearchText(l)
        PROVE  TypeOK'
    BY <2>2 DEF SearchText, Fts, Table
  <2>3. ASSUME NEW l \in VecLayers, SearchVector(l)
        PROVE  TypeOK'
    BY <2>3 DEF SearchVector
  <2>4. ASSUME NEW l \in VecLayers, LookUpHit(l)
        PROVE  TypeOK'
    BY <2>4 DEF LookUpHit
  <2>5. ASSUME NEW l \in TextLayers \cup VecLayers, LayerFails(l)
        PROVE  TypeOK'
    BY <2>5 DEF LayerFails
  <2> QED BY <1>10, <2>1, <2>2, <2>3, <2>4, <2>5 DEF Query
<1>11. CASE UNCHANGED vars
  BY <1>11 DEF vars
<1> QED
  BY <1>1, <1>2, <1>3, <1>4, <1>5, <1>6, <1>7, <1>8, <1>9, <1>10, <1>11 DEF Next, Mover

\* The tables, the index, the goroutines and the query keep their types, and
\* what is to be re-prefixed is in cooldown.
THEOREM TypeCorrect == Spec => []TypeOK
<1>1. TypeOK /\ [Next]_vars => TypeOK'
  BY TypeStep
<1> QED BY TypeInit, <1>1, PTL DEF Spec

-----------------------------------------------------------------------------
(* The invariant.                                                          *)

\* Initially the tiers, the index and the query are empty.
LEMMA InvInit == Init => IInv
BY ConfigAssumption, MessagesAssumption
DEF Init, IInv, TiersAgree, StoredWereInserted, IndexCovered, DownIsQuiet, QueryTracks,
    Stored

\* Steps that touch neither the rows, the index nor the query.
LEMMA QuietPreserves ==
  ASSUME TypeOK, IInv,
         UNCHANGED <<up, emb, tierVars, index, moverVars, queryVars, outOfSync>>,
         \A m \in Messages : pc'[m] = pc[m] \/ (m \notin Stored /\ up)
  PROVE  IInv'
BY DEF IInv, TiersAgree, StoredWereInserted, IndexCovered, DownIsQuiet, QueryTracks,
       Stored, TypeOK, Key, TextLayer, VecLayer, tierVars, moverVars, queryVars

\* A handler's steps keep the invariant; the late index update of a message
\* that was moved meanwhile leaves a superfluous key, never a missing one.
LEMMA HandlerPreserves ==
  ASSUME TypeOK, IInv, NEW m \in Messages, Handler(m)
  PROVE  IInv'
<1>0. up
  <2>1. pc[m] \in {"embed", "insert", "index"} => up
    BY DEF IInv, DownIsQuiet
  <2> QED BY <2>1 DEF Handler, Receive, Embed, Insert, InsertFails, IndexAdd
<1>1. CASE Receive(m)
  <2>1. m \notin Stored
    BY <1>1 DEF Receive, IInv, StoredWereInserted, NotInserted
  <2> QED BY <1>0, <1>1, <2>1, QuietPreserves DEF Receive, TypeOK
<1>2. CASE Embed(m)
  <2>1. m \notin Stored
    BY <1>2 DEF Embed, IInv, StoredWereInserted, NotInserted
  <2>2. \A n \in Messages \ {m} : emb'[n] = emb[n] /\ pc'[n] = pc[n]
    BY <1>2 DEF Embed, TypeOK
  <2> QED BY <1>0, <1>2, <2>1, <2>2
      DEF Embed, IInv, TiersAgree, StoredWereInserted, IndexCovered, DownIsQuiet,
          QueryTracks, Stored, TypeOK, Key, TextLayer, VecLayer, tierVars, moverVars,
          queryVars
<1>3. CASE InsertFails(m)
  <2>1. m \notin Stored
    BY <1>3 DEF InsertFails, IInv, StoredWereInserted, NotInserted
  <2> QED BY <1>0, <1>3, <2>1, QuietPreserves DEF InsertFails, TypeOK
<1>4. CASE Insert(m)
  <2>1. m \notin Stored
    BY <1>4 DEF Insert, IInv, StoredWereInserted, NotInserted
  <2>2. /\ hot' = hot \cup {m} /\ hotFts' = hotFts \cup {m}
        /\ pc' = [pc EXCEPT ![m] = IF emb[m] THEN "index" ELSE "done"]
        /\ UNCHANGED <<up, emb, cool, coolFts, index, pending, carrying>>
        /\ UNCHANGED <<hits, found, asked, indexed, moved, answered, outOfSync>>
    BY <1>4 DEF Insert, moverVars, queryVars
  <2>3. TiersAgree'
    BY <2>1, <2>2 DEF IInv, TiersAgree, Stored
  <2>4. StoredWereInserted'
    BY <2>2 DEF IInv, StoredWereInserted, Stored, NotInserted, TypeOK
  <2>5. IndexCovered'
    BY <2>2 DEF IInv, IndexCovered, TypeOK
  <2>6. QueryTracks'
    <3>1. m \notin asked /\ m \notin indexed
      BY <2>1 DEF IInv, QueryTracks
    <3> QED BY <2>2, <3>1
        DEF IInv, QueryTracks, Stored, Key, TextLayer, VecLayer
  <2> QED BY <1>0, <2>2, <2>3, <2>4, <2>5, <2>6 DEF IInv, DownIsQuiet
<1>5. CASE IndexAdd(m)
  <2>1. /\ pc[m] = "index" /\ pc' = [pc EXCEPT ![m] = "done"]
        /\ index \subseteq index' /\ outOfSync \subseteq outOfSync'
        /\ <<"hot", m>> \in index' \/ m \in outOfSync'
        /\ UNCHANGED <<up, emb, hot, cool, hotFts, coolFts, pending, carrying>>
        /\ UNCHANGED <<hits, found, asked, indexed, moved, answered>>
    BY <1>5 DEF IndexAdd, tierVars, moverVars, queryVars
  <2>2. StoredWereInserted'
    BY <2>1 DEF IInv, StoredWereInserted, Stored, NotInserted, TypeOK
  <2>3. IndexCovered'
    BY <2>1 DEF IInv, IndexCovered, TypeOK
  <2>4. QueryTracks'
    BY <2>1 DEF IInv, QueryTracks, Stored, Key, TextLayer, VecLayer
  <2> QED BY <1>0, <2>1, <2>2, <2>3, <2>4 DEF IInv, DownIsQuiet, TiersAgree
<1> QED BY <1>1, <1>2, <1>3, <1>4, <1>5 DEF Handler

\* What one move does.
LEMMA MoveEffect ==
  ASSUME TypeOK, TiersAgree, MoveHotToCooldown
  PROVE  \E B \in SUBSET hot :
           /\ hot' = hot \ B /\ cool' = cool \cup B
           /\ hotFts' = hotFts \ B /\ coolFts' = coolFts \cup B
           /\ pending' = {m \in B : emb[m]} /\ moved' = moved \cup (B \cap asked)
           /\ UNCHANGED <<up, pc, emb, index, carrying>>
           /\ UNCHANGED <<hits, found, asked, indexed, answered, outOfSync>>
           /\ pending = {} /\ carrying = Missing
<1>1. PICK B \in Batches(Expired) :
        /\ cool' = cool \cup B
        /\ coolFts' = coolFts \cup FtsCopied(B)
        /\ hotFts' = hotFts \ Deleted(B)
        /\ hot' = hot \ Deleted(B)
        /\ pending' = ToReprefix(B)
        /\ moved' = moved \cup (B \cap asked)
  BY DEF MoveHotToCooldown
<1>2. B \in SUBSET hot
  BY <1>1 DEF Batches, Expired
<1>3. /\ UNCHANGED <<up, pc, emb, index, carrying>>
      /\ UNCHANGED <<hits, found, asked, indexed, answered, outOfSync>>
      /\ pending = {} /\ carrying = Missing
  BY DEF MoveHotToCooldown
<1>4. FtsCopied(B) = B
  BY <1>2 DEF FtsCopied, TiersAgree
<1> QED BY <1>1, <1>2, <1>3, <1>4 DEF Deleted, ToReprefix

\* The move and the re-prefixing keep the invariant: a key is removed only for a
\* message that has left hot and is in hand until its new key is added.
LEMMA MoverPreserves ==
  ASSUME TypeOK, IInv, Mover
  PROVE  IInv'
<1> USE MessagesAssumption
<1>1. CASE MoveHotToCooldown
  <2>1. PICK B \in SUBSET hot :
           /\ hot' = hot \ B /\ cool' = cool \cup B
           /\ hotFts' = hotFts \ B /\ coolFts' = coolFts \cup B
           /\ pending' = {m \in B : emb[m]} /\ moved' = moved \cup (B \cap asked)
           /\ UNCHANGED <<up, pc, emb, index, carrying>>
           /\ UNCHANGED <<hits, found, asked, indexed, answered, outOfSync>>
           /\ pending = {} /\ carrying = Missing
    BY <1>1, MoveEffect DEF IInv
  <2>2. Stored' = Stored /\ B \subseteq Messages
    BY <2>1 DEF Stored, TypeOK
  <2>3. TiersAgree'
    BY <2>1 DEF IInv, TiersAgree
  <2>4. StoredWereInserted'
    BY <2>1, <2>2 DEF IInv, StoredWereInserted
  <2>5. IndexCovered'
    <3>1. \A m \in hot' : m \in hot
      BY <2>1
    <3>2. \A m \in cool' : m \in cool \/ (m \in B /\ (emb[m] => m \in pending'))
      BY <2>1
    <3>3. \A m \in cool : m \notin pending \cup {carrying}
      BY <2>1 DEF TypeOK
    <3> QED BY <2>1, <3>1, <3>2, <3>3 DEF IInv, IndexCovered
  <2>6. QueryTracks'
    <3>1. asked' \subseteq Stored' /\ indexed' \subseteq asked'
      BY <2>1, <2>2 DEF IInv, QueryTracks
    <3>2. ASSUME NEW m \in asked' \ moved'
          PROVE  /\ m \in asked \ moved /\ m \notin B
                 /\ TextLayer(m)' = TextLayer(m) /\ VecLayer(m)' = VecLayer(m)
                 /\ Key(m)' = Key(m)
      BY <2>1, <3>2 DEF TextLayer, VecLayer, Key
    <3> QED BY <2>1, <3>1, <3>2 DEF IInv, QueryTracks
  <2> QED BY <2>1, <2>3, <2>4, <2>5, <2>6 DEF IInv, DownIsQuiet
<1>2. CASE ReprefixRemove
  <2>1. PICK m \in pending :
          /\ pending' = pending \ {m} /\ carrying' = m /\ carrying = Missing
          /\ index' = index \ {<<"hot", m>>}
          /\ UNCHANGED <<up, pc, emb, hot, cool, hotFts, coolFts, outOfSync>>
          /\ UNCHANGED <<hits, found, asked, indexed, moved, answered>>
    BY <1>2 DEF ReprefixRemove, tierVars, queryVars
  <2>2. m \in cool /\ m \notin hot
    BY <2>1 DEF TypeOK, IInv, TiersAgree
  <2>3. IndexCovered'
    BY <2>1, <2>2 DEF IInv, IndexCovered, TypeOK
  <2>4. QueryTracks'
    <3>1. \A n : Key(n) # <<"hot", m>>
      BY <2>2 DEF Key
    <3> QED BY <2>1, <3>1 DEF IInv, QueryTracks, Stored, Key, TextLayer, VecLayer
  <2> QED BY <2>1, <2>3, <2>4
      DEF IInv, TiersAgree, StoredWereInserted, Stored, DownIsQuiet
<1>3. CASE ReprefixAdd
  <2>1. /\ carrying # Missing /\ carrying' = Missing
        /\ index' = index \cup {<<"cool", carrying>>}
        /\ UNCHANGED <<up, pc, emb, hot, cool, hotFts, coolFts, outOfSync, pending>>
        /\ UNCHANGED <<hits, found, asked, indexed, moved, answered>>
    BY <1>3 DEF ReprefixAdd, CoolKey, tierVars, queryVars
  <2>2. IndexCovered'
    BY <2>1 DEF IInv, IndexCovered
  <2>3. QueryTracks'
    BY <2>1 DEF IInv, QueryTracks, Stored, Key, TextLayer, VecLayer
  <2> QED BY <2>1, <2>2, <2>3
      DEF IInv, TiersAgree, StoredWereInserted, Stored, DownIsQuiet
<1>4. CASE ReprefixFails
  <2>1. /\ pending' = {} /\ carrying' = Missing
        /\ outOfSync' = outOfSync \cup pending \cup ({carrying} \cap Messages)
        /\ UNCHANGED <<up, pc, emb, hot, cool, hotFts, coolFts, index>>
        /\ UNCHANGED <<hits, found, asked, indexed, moved, answered>>
    BY <1>4 DEF ReprefixFails, tierVars, queryVars
  <2>2. IndexCovered'
    BY <2>1 DEF IInv, IndexCovered, TypeOK
  <2>3. QueryTracks'
    BY <2>1 DEF IInv, QueryTracks, Stored, Key, TextLayer, VecLayer
  <2> QED BY <2>1, <2>2, <2>3
      DEF IInv, TiersAgree, StoredWereInserted, Stored, DownIsQuiet
<1> QED BY <1>1, <1>2, <1>3, <1>4 DEF Mover

\* An end and a new start keep the invariant: what the loaded file lacks is out
\* of sync, and a rebuild lacks nothing.
LEMMA RestartPreserves ==
  ASSUME TypeOK, IInv, Stop \/ Start \/ LoseCache
  PROVE  IInv'
<1>1. CASE Stop
  <2>1. /\ up' = FALSE
        /\ \A m \in Messages :
             pc'[m] = CASE pc[m] = "index" -> "done"
                        [] pc[m] \in {"embed", "insert"} -> "failed"
                        [] OTHER -> pc[m]
        /\ UNCHANGED <<hot, cool, hotFts, coolFts>>
        /\ asked' = {} /\ indexed' = {}
    BY <1>1 DEF Stop, NoQuery, tierVars
  <2>2. StoredWereInserted'
    BY <2>1 DEF IInv, StoredWereInserted, NotInserted, Stored, TypeOK
  <2>3. DownIsQuiet'
    <3>1. ASSUME NEW m \in Messages
          PROVE  pc'[m] \in {"none", "failed", "done"}
      BY <2>1 DEF TypeOK
    <3> QED BY <2>1, <3>1 DEF DownIsQuiet
  <2>4. QueryTracks'
    BY <2>1 DEF QueryTracks
  <2> QED BY <2>1, <2>2, <2>3, <2>4 DEF IInv, TiersAgree, IndexCovered
<1>2. CASE Start
  <2>1. /\ ~up /\ up' = TRUE /\ index' = Loaded
        /\ outOfSync' = IF cache = Missing THEN {}
                          ELSE {m \in Stored : emb[m] /\ Key(m) \notin cache}
        /\ UNCHANGED <<pc, emb, hot, cool, hotFts, coolFts, pending, carrying>>
        /\ UNCHANGED <<hits, found, asked, indexed, moved, answered>>
    BY <1>2 DEF Start, tierVars, moverVars, queryVars
  <2>2. asked = {} /\ indexed = {}
    BY <2>1 DEF IInv, DownIsQuiet, QueryTracks
  <2>3. \A m \in Stored : emb[m] => Key(m) \in index' \/ m \in outOfSync'
    BY <2>1 DEF Loaded, EmbeddingKeys
  <2>4. IndexCovered'
    BY <2>1, <2>3 DEF IndexCovered, Key, Stored, IInv, TiersAgree
  <2>5. QueryTracks'
    BY <2>1, <2>2 DEF QueryTracks
  <2> QED BY <2>1, <2>4, <2>5
      DEF IInv, TiersAgree, StoredWereInserted, Stored, DownIsQuiet
<1>3. CASE LoseCache
  BY <1>3, QuietPreserves DEF LoseCache
<1> QED BY <1>1, <1>2, <1>3

\* The layers of a query keep the invariant, in any order and with failures.
LEMMA QueryPreserves ==
  ASSUME TypeOK, IInv, Query
  PROVE  IInv'
<1>1. /\ UNCHANGED <<up, pc, emb, hot, cool, hotFts, coolFts, index, pending,
                    carrying, outOfSync>>
  BY DEF Query, BeginQuery, SearchText, SearchVector, LookUpHit, LayerFails, tierVars,
         moverVars
<1>2. TiersAgree' /\ StoredWereInserted' /\ IndexCovered'
  BY <1>1 DEF IInv, TiersAgree, StoredWereInserted, Stored, IndexCovered
<1>3. CASE BeginQuery
  <2>1. /\ up /\ asked' = Stored /\ indexed' = {m \in Stored : Key(m) \in index}
        /\ answered' = {}
    BY <1>3 DEF BeginQuery
  <2>2. QueryTracks'
    BY <1>1, <2>1 DEF QueryTracks, Stored, Key
  <2> QED BY <1>1, <1>2, <2>1, <2>2 DEF IInv, DownIsQuiet
<1>4. ASSUME NEW l \in TextLayers, SearchText(l)
      PROVE  IInv'
  <2>1. /\ found' = found \cup (Fts(l) \cap Table(l)) /\ answered' = answered \cup {l}
        /\ UNCHANGED <<hits, asked, indexed, moved>>
    BY <1>4 DEF SearchText
  <2>2. ASSUME NEW m \in Stored, TextLayer(m) = l
        PROVE  m \in found'
    BY <2>1, <2>2 DEF Stored, TextLayer, Fts, Table, IInv, TiersAgree
  <2>3. \A m : VecLayer(m) # l
    BY DEF VecLayer, TextLayers
  <2>4. QueryTracks'
    BY <1>1, <2>1, <2>2, <2>3 DEF IInv, QueryTracks, Stored, Key, TextLayer, VecLayer
  <2> QED BY <1>1, <1>2, <2>1, <2>4 DEF IInv, DownIsQuiet
<1>5. ASSUME NEW l \in VecLayers, SearchVector(l)
      PROVE  IInv'
  <2>1. /\ hits' = [hits EXCEPT ![l] = {m \in Messages : <<Prefix(l), m>> \in index}]
        /\ answered' = answered \cup {l}
        /\ UNCHANGED <<found, asked, indexed, moved>>
    BY <1>5 DEF SearchVector
  <2>2. ASSUME NEW m \in Stored, VecLayer(m) = l, Key(m) \in index
        PROVE  m \in hits'[l]
    BY <2>1, <2>2 DEF Stored, VecLayer, Key, Prefix, TypeOK
  <2>3. \A m : TextLayer(m) # l
    BY DEF TextLayer, VecLayers
  <2>4. \A m : VecLayer(m) # l => hits'[VecLayer(m)] = hits[VecLayer(m)]
    BY <2>1 DEF TypeOK, VecLayer, VecLayers
  <2>5. QueryTracks'
    <3>1. \A m : TextLayer(m)' = TextLayer(m) /\ VecLayer(m)' = VecLayer(m)
                 /\ Key(m)' = Key(m)
      BY <1>1 DEF TextLayer, VecLayer, Key
    <3>2. \A m \in indexed \ moved :
            Key(m) \in index /\ m \in Stored
      BY DEF IInv, QueryTracks
    <3>3. \A m \in indexed \ moved :
            VecLayer(m) \in answered' => m \in found \/ m \in hits'[VecLayer(m)]
      BY <2>1, <2>2, <2>4, <3>2 DEF IInv, QueryTracks
    <3>4. \A m \in asked \ moved : TextLayer(m) \in answered' => m \in found
      BY <2>1, <2>3 DEF IInv, QueryTracks
    <3>5. Stored' = Stored
      BY <1>1 DEF Stored
    <3> QED BY <1>1, <2>1, <3>1, <3>2, <3>3, <3>4, <3>5 DEF IInv, QueryTracks
  <2> QED BY <1>1, <1>2, <2>1, <2>5 DEF IInv, DownIsQuiet
<1>6. ASSUME NEW l \in VecLayers, LookUpHit(l)
      PROVE  IInv'
  <2>1. PICK h \in hits[l] : /\ hits' = [hits EXCEPT ![l] = @ \ {h}]
                             /\ found' = found \cup ({h} \cap Table(l))
    BY <1>6 DEF LookUpHit
  <2>2. UNCHANGED <<asked, indexed, moved, answered>>
    BY <1>6 DEF LookUpHit
  <2>3. ASSUME NEW m \in Stored, m \in hits[VecLayer(m)]
        PROVE  m \in found' \/ m \in hits'[VecLayer(m)]
    BY <2>1, <2>3 DEF Stored, VecLayer, Table, TypeOK, VecLayers
  <2>4. QueryTracks'
    BY <1>1, <2>1, <2>2, <2>3 DEF IInv, QueryTracks, Stored, Key, TextLayer, VecLayer
  <2> QED BY <1>1, <1>2, <2>2, <2>4 DEF IInv, DownIsQuiet
<1>7. ASSUME NEW l \in TextLayers \cup VecLayers, LayerFails(l)
      PROVE  IInv'
  <2>1. /\ hits' = [k \in VecLayers |-> IF k = l THEN {} ELSE hits[k]]
        /\ answered' = answered \ {l}
        /\ UNCHANGED <<found, asked, indexed, moved>>
    BY <1>7 DEF LayerFails
  <2>2. \A m : VecLayer(m) # l => hits'[VecLayer(m)] = hits[VecLayer(m)]
    BY <2>1 DEF VecLayer, VecLayers
  <2>3. QueryTracks'
    BY <1>1, <2>1, <2>2 DEF IInv, QueryTracks, Stored, Key, TextLayer, VecLayer
  <2> QED BY <1>1, <1>2, <2>1, <2>3 DEF IInv, DownIsQuiet
<1> QED BY <1>3, <1>4, <1>5, <1>6, <1>7 DEF Query

\* Every step preserves the invariant.
LEMMA InvStep ==
  ASSUME TypeOK, IInv, [Next]_vars
  PROVE  IInv'
<1>1. CASE Tick
  BY <1>1, QuietPreserves DEF Tick
<1>2. CASE UNCHANGED vars
  BY <1>2, QuietPreserves DEF vars
<1> QED
  BY <1>1, <1>2, HandlerPreserves, MoverPreserves, RestartPreserves, QueryPreserves
  DEF Next

\* The invariant holds in every state, together with the types.
LEMMA InvariantHolds == Spec => [](TypeOK /\ IInv)
<1>1. Init => TypeOK /\ IInv
  BY TypeInit, InvInit
<1>2. TypeOK /\ IInv /\ [Next]_vars => TypeOK' /\ IInv'
  BY TypeStep, InvStep
<1> QED BY <1>1, <1>2, PTL DEF Spec

-----------------------------------------------------------------------------
\* A message is in one tier and both FTS tables follow, through every batch.
THEOREM TiersAlwaysAgree == Spec => []TiersAgree
<1>1. IInv => TiersAgree
  BY DEF IInv
<1> QED BY InvariantHolds, <1>1, PTL

\* Every stored embedding is searchable under its tier's prefix, but for the
\* windows after a commit and for what errors and stale files lost.
THEOREM IndexAlwaysComplete == Spec => []IndexComplete
<1>1. IInv => IndexComplete
  BY DEF IInv, TiersAgree, IndexCovered, IndexComplete, Stored, Key
<1> QED BY InvariantHolds, <1>1, PTL

\* A query misses a stored message only if it moved while the query ran or the
\* layers that would have found it failed.
THEOREM QueriesComplete == Spec => []QueryComplete
<1>1. TypeOK /\ IInv => QueryComplete
  BY DEF IInv, QueryTracks, QueryComplete
<1> QED BY InvariantHolds, <1>1, PTL

\* The hot phase implements the abstract message store.
THEOREM StoreImplemented == Spec => ImplementsStore
<1>1. Init => Store!Init
  BY DEF Init, Store!Init, tier
<1>2. ASSUME TypeOK, IInv, [Next]_vars
      PROVE  [Store!Next]_tier
  <2>1. ASSUME UNCHANGED <<hot, cool>>
        PROVE  UNCHANGED tier
    BY <2>1 DEF tier
  <2>2. ASSUME NEW m \in Messages, Insert(m)
        PROVE  Store!Accept(m)
    <3>1. m \notin Stored
      BY <1>2, <2>2 DEF Insert, IInv, StoredWereInserted, NotInserted
    <3>2. hot' = hot \cup {m} /\ cool' = cool
      BY <2>2 DEF Insert
    <3> QED BY <3>1, <3>2 DEF Store!Accept, tier, Stored
  <2>3. CASE MoveHotToCooldown
    <3>1. PICK B \in SUBSET hot : hot' = hot \ B /\ cool' = cool \cup B
      BY <1>2, <2>3, MoveEffect DEF IInv
    <3>2. Store!Cool(B)
      BY <1>2, <3>1 DEF Store!Cool, tier, TypeOK
    <3>3. B \in SUBSET Messages
      BY <1>2, <3>1 DEF TypeOK
    <3> QED BY <3>2, <3>3 DEF Store!Next
  <2>4. ASSUME NEW m \in Messages, Handler(m), ~Insert(m)
        PROVE  UNCHANGED <<hot, cool>>
    BY <2>4 DEF Handler, Receive, Embed, InsertFails, IndexAdd, tierVars
  <2>5. ReprefixRemove \/ ReprefixAdd \/ ReprefixFails \/ Stop \/ Start \/ LoseCache
          \/ Tick \/ UNCHANGED vars => UNCHANGED <<hot, cool>>
    BY DEF ReprefixRemove, ReprefixAdd, ReprefixFails, Stop, Start, LoseCache, Tick,
           vars, tierVars
  <2>6. Query => UNCHANGED <<hot, cool>>
    BY DEF Query, BeginQuery, SearchText, SearchVector, LookUpHit, LayerFails, tierVars
  <2> QED
    BY <1>2, <2>1, <2>2, <2>3, <2>4, <2>5, <2>6 DEF Next, Mover, Store!Next
<1> QED BY InvariantHolds, <1>1, <1>2, PTL DEF Spec, Store!Spec, ImplementsStore
=============================================================================
