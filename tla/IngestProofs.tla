--------------------------- MODULE IngestProofs ----------------------------
(***************************************************************************)
(* Proofs about the two halves of Engine.Ingest: FactStore, which holds    *)
(* the facts that an ingest stores, and EntityGraph, which holds the       *)
(* entities and relationships.  They share no state.                       *)
(*                                                                         *)
(* FactStore's safety properties follow from one inductive invariant,      *)
(* IInv, for every number of calls, facts and client edits and with or     *)
(* without dedup merge; EntityGraph's from GraphInv, for every set of      *)
(* names, whatever spellings an extraction returns, and every number of    *)
(* ingests, deduplications, resets and readers at a time.                  *)
(***************************************************************************)
EXTENDS FactStore, EntityGraph, FiniteSetTheorems, WellFoundedInduction, TLAPS

-----------------------------------------------------------------------------
(* Facts: type correctness of FactStore.                                   *)

\* Initially the type invariant holds.
LEMMA TypeInit == Init => TypeOK
<1> SUFFICES ASSUME Init PROVE TypeOK
  OBVIOUS
<1> USE IngestsAssumption
<1>1. PICK c \in [facts -> Confidences] :
        conf = [f \in Rows |-> IF f \in facts THEN c[f] ELSE None]
  BY DEF Init
<1>2. /\ conf \in [Rows -> Confidences \cup {None}]
      /\ \A f \in 1..last : conf[f] \in Confidences
  BY <1>1 DEF Init, Rows
<1>3. supBy \in [Rows -> 1..last \cup {None}]
  BY DEF Init
<1> QED BY <1>2, <1>3 DEF Init, TypeOK, NoFact, HandRow, HandOld

\* What the next fact starts with.
LEMMA NextFactTypes ==
  ASSUME TypeOK, NEW i \in Ingests, left[i] > 0, NextFact(i)
  PROVE  /\ pc' \in [Ingests -> HandRow \cup HandOld \cup
                        {"fact", "search", "create", "apply"}]
         /\ left' \in [Ingests -> Nat]
         /\ new' \in [Ingests -> [row : 1..last \cup {None},
                                  conf : Confidences \cup {None}]]
         /\ old' \in [Ingests -> [row : 1..last \cup {None},
                                  conf : Confidences \cup {None}]]
         /\ vec' \in [Ingests -> BOOLEAN]
         /\ candidates' \in [Ingests -> SUBSET (1..last)]
         /\ \A j \in Ingests :
              /\ pc'[j] \in HandRow => new'[j].row \in 1..last
              /\ pc'[j] \in HandOld => old'[j].row \in 1..last
              /\ old'[j] # NoFact => old'[j].row # None
              /\ pc'[j] \in {"classify", "search", "create", "mergeCreate"} =>
                   new'[j].conf \in Confidences
              /\ pc'[j] \notin {"fact", "apply", "applyRetire"} => left'[j] > 0
<1> USE DEF TypeOK, NextFact, NoFact
<1>1. left' \in [Ingests -> Nat]
  OBVIOUS
<1>2. \A j \in Ingests \ {i} : /\ pc'[j] = pc[j] /\ new'[j] = new[j] /\ old'[j] = old[j]
                               /\ left'[j] = left[j]
  OBVIOUS
<1>3. pc'[i] = "fact" /\ "fact" \notin HandRow \cup HandOld
  BY DEF HandRow, HandOld
<1> QED BY <1>1, <1>2, <1>3

\* The types of the calls allow for a new row.
LEMMA TypesGrow ==
  ASSUME TypeOK, last < MaxRows, last' = last + 1
  PROVE  /\ last' \in 1..MaxRows /\ last' \in 1..last' /\ last' \notin 1..last
         /\ 1..last \subseteq 1..last'
         /\ supBy \in [Rows -> 1..last' \cup {None}]
         /\ mine \in [Ingests -> SUBSET (1..last')]
         /\ new \in [Ingests -> [row : 1..last' \cup {None}, conf : Confidences \cup {None}]]
         /\ old \in [Ingests -> [row : 1..last' \cup {None}, conf : Confidences \cup {None}]]
         /\ candidates \in [Ingests -> SUBSET (1..last')]
         /\ groups \in [Ingests -> SUBSET ((1..last') \X (1..last'))]
         /\ decisions \in [Ingests -> SUBSET ((1..last') \X (1..last'))]
<1> USE IngestsAssumption DEF TypeOK
<1>1. 1..last \subseteq 1..last'
  OBVIOUS
<1>2. last' \in 1..MaxRows /\ last' \in 1..last' /\ last' \notin 1..last
  OBVIOUS
<1>3. supBy \in [Rows -> 1..last' \cup {None}]
  BY <1>1
<1>4. mine \in [Ingests -> SUBSET (1..last')]
  BY <1>1
<1>5. candidates \in [Ingests -> SUBSET (1..last')]
  BY <1>1
<1>6. (1..last) \X (1..last) \subseteq (1..last') \X (1..last')
  BY <1>1
<1>7. /\ groups \in [Ingests -> SUBSET ((1..last') \X (1..last'))]
      /\ decisions \in [Ingests -> SUBSET ((1..last') \X (1..last'))]
  BY <1>6
<1>8. [row : 1..last \cup {None}, conf : Confidences \cup {None}]
        \subseteq [row : 1..last' \cup {None}, conf : Confidences \cup {None}]
  BY <1>1
<1>9. /\ new \in [Ingests -> [row : 1..last' \cup {None}, conf : Confidences \cup {None}]]
      /\ old \in [Ingests -> [row : 1..last' \cup {None}, conf : Confidences \cup {None}]]
  BY <1>8
<1> QED BY <1>1, <1>2, <1>3, <1>4, <1>5, <1>7, <1>9

\* The steps of an ingest call preserve the type invariant.
LEMMA TypeIngest ==
  ASSUME TypeOK, NEW i \in Ingests, IngestStep(i)
  PROVE  TypeOK'
<1> USE IngestsAssumption
<1>1. CASE NoDuplicate(i)
  <2>1. PICK c \in Confidences, v \in BOOLEAN :
          /\ new' = [new EXCEPT ![i] = [row |-> None, conf |-> c]]
          /\ vec' = [vec EXCEPT ![i] = v]
          /\ pc' = [pc EXCEPT ![i] = IF v THEN "search" ELSE "create"]
    BY <1>1 DEF NoDuplicate
  <2>2. pc'[i] \in {"search", "create"}
    BY <2>1 DEF TypeOK
  <2> QED
    BY <1>1, <2>1, <2>2 DEF NoDuplicate, TypeOK, rowVars, historyVars, MoreFacts, HandRow, HandOld
<1>2. CASE FindDuplicate(i)
  <2>1. PICK c \in Confidences, o \in Searchable :
          /\ new' = [new EXCEPT ![i] = [row |-> None, conf |-> c]]
          /\ old' = [old EXCEPT ![i] = [row |-> o, conf |-> conf[o]]]
    BY <1>2 DEF FindDuplicate
  <2>2. o \in 1..last /\ conf[o] \in Confidences
    BY DEF TypeOK, Searchable, Active
  <2> QED
    BY <1>2, <2>1, <2>2 DEF FindDuplicate, TypeOK, rowVars, historyVars, MoreFacts, HandRow, HandOld
<1>3. CASE ClassifySkip(i)
  <2>1. left[i] > 0
    BY <1>3 DEF ClassifySkip, TypeOK
  <2> QED BY <1>3, <2>1, NextFactTypes DEF ClassifySkip, TypeOK, rowVars, historyVars
<1>4. CASE ClassifySupersede(i) \/ ClassifyMerge(i)
  BY <1>4 DEF ClassifySupersede, ClassifyMerge, TypeOK, rowVars, handVars, historyVars,
     HandRow, HandOld
<1>5. CASE SearchCandidates(i)
  <2>1. Searchable \subseteq 1..last
    BY DEF TypeOK, Searchable, Active
  <2> QED
    BY <1>5, <2>1 DEF SearchCandidates, TypeOK, rowVars, historyVars, HandRow, HandOld
<1>6. CASE Create(i) \/ CreateMerged(i)
  <2>1. StoreRow(i)
    BY <1>6 DEF Create, CreateMerged
  <2>2. last < MaxRows /\ last' = last + 1
    BY <2>1 DEF StoreRow
  <2>3. new[i].conf \in Confidences /\ left[i] > 0
    BY <1>6 DEF TypeOK, Create, CreateMerged
  <2>4. /\ facts' \subseteq 1..last' /\ index' \subseteq 1..last'
        /\ merged' \subseteq 1..last' /\ patched' \subseteq 1..last'
        /\ replaced' \subseteq 1..last'
    BY <1>6, <2>1, <2>2, TypesGrow DEF Create, CreateMerged, StoreRow, TypeOK, historyVars
  <2>5. /\ conf' \in [Rows -> Confidences \cup {None}]
        /\ \A f \in 1..last' : conf'[f] \in Confidences
    BY <2>1, <2>2, <2>3, TypesGrow DEF StoreRow, TypeOK, Rows
  <2>6. mine' \in [Ingests -> SUBSET (1..last')]
    BY <2>1, <2>2, TypesGrow DEF StoreRow
  <2>7. /\ supBy' \in [Rows -> 1..last' \cup {None}]
        /\ groups' \in [Ingests -> SUBSET ((1..last') \X (1..last'))]
        /\ decisions' \in [Ingests -> SUBSET ((1..last') \X (1..last'))]
        /\ edits' \in Nat
    BY <1>6, <2>2, TypesGrow DEF Create, CreateMerged, TypeOK, historyVars
  <2>8. CASE new' = [new EXCEPT ![i].row = last'] /\ UNCHANGED <<left, vec, old, candidates>>
    <3>1. new' \in [Ingests -> [row : 1..last' \cup {None}, conf : Confidences \cup {None}]]
      BY <2>2, <2>8, TypesGrow
    <3>2. /\ new'[i].row = last'
          /\ \A j \in Ingests \ {i} : new'[j] = new[j]
      BY <2>8 DEF TypeOK
    <3>3. CASE Create(i)
      <4>1. pc' = [pc EXCEPT ![i] = "embed"]
        BY <2>8, <3>3, <3>2, <2>3 DEF Create, NextFact, TypeOK
      <4> QED
        BY <2>1, <2>2, <2>3, <2>4, <2>5, <2>6, <2>7, <2>8, <3>1, <3>2, <4>1, TypesGrow
        DEF TypeOK, HandRow, HandOld, StoreRow
    <3>4. CASE CreateMerged(i)
      <4>1. pc[i] = "mergeCreate" /\ pc' = [pc EXCEPT ![i] = "mergeEmbed"]
        BY <3>4 DEF CreateMerged
      <4> QED
        BY <2>1, <2>2, <2>3, <2>4, <2>5, <2>6, <2>7, <2>8, <3>1, <3>2, <4>1, TypesGrow
        DEF TypeOK, HandRow, HandOld, StoreRow
    <3> QED BY <1>6, <3>3, <3>4
  <2>9. CASE NextFact(i)
    <3>1. /\ new' \in [Ingests -> [row : 1..last' \cup {None}, conf : Confidences \cup {None}]]
          /\ old' \in [Ingests -> [row : 1..last' \cup {None}, conf : Confidences \cup {None}]]
          /\ candidates' \in [Ingests -> SUBSET (1..last')]
      BY <2>2, <2>9, TypesGrow DEF NextFact, NoFact
    <3> QED
      BY <2>1, <2>2, <2>3, <2>4, <2>5, <2>6, <2>7, <2>9, <3>1, NextFactTypes, TypesGrow
      DEF TypeOK
  <2> QED BY <1>6, <2>8, <2>9 DEF Create, CreateMerged
<1>7. CASE CreateFails(i)
  <2>1. left[i] > 0
    BY <1>7 DEF CreateFails, TypeOK
  <2> QED BY <1>7, <2>1, NextFactTypes DEF CreateFails, TypeOK, rowVars, historyVars
<1>8. CASE Embed(i) \/ EmbedMerged(i)
  <2>1. left[i] > 0 /\ new[i].row \in 1..last
    BY <1>8 DEF Embed, EmbedMerged, TypeOK, HandRow
  <2>2. index' \subseteq 1..last
    <3>1. index' = index \/ index' = index \cup {new[i].row}
      BY <1>8 DEF Embed, EmbedMerged, SetKey
    <3> QED BY <2>1, <3>1 DEF TypeOK
  <2>3. CASE NextFact(i) /\ AddGroup(i, candidates[i])
    <3>1. groups' \in [Ingests -> SUBSET ((1..last) \X (1..last))]
      BY <2>1, <2>3 DEF AddGroup, TypeOK
    <3> QED
      BY <1>8, <2>1, <2>2, <2>3, <3>1, NextFactTypes
      DEF Embed, EmbedMerged, TypeOK, historyVars
  <2>4. CASE /\ pc' = [pc EXCEPT ![i] = "check"] \/ pc' = [pc EXCEPT ![i] = "mergeRetire"]
             /\ UNCHANGED <<left, handVars, groups>>
             /\ old[i].row \in 1..last
    <3>1. pc'[i] \in {"check", "mergeRetire"} /\ \A j \in Ingests \ {i} : pc'[j] = pc[j]
      BY <2>4 DEF TypeOK
    <3> QED
      BY <1>8, <2>1, <2>2, <2>4, <3>1
      DEF Embed, EmbedMerged, TypeOK, historyVars, handVars, HandRow, HandOld
  <2> QED BY <1>8, <2>3, <2>4 DEF Embed, EmbedMerged, TypeOK, HandOld
<1>9. CASE CheckDuplicate(i)
  <2>1. left[i] > 0 /\ new[i].row \in 1..last
    BY <1>9 DEF CheckDuplicate, TypeOK, HandRow
  <2>2. CASE NextFact(i) /\ AddGroup(i, candidates[i])
    <3>1. groups' \in [Ingests -> SUBSET ((1..last) \X (1..last))]
      BY <2>1, <2>2 DEF AddGroup, TypeOK
    <3> QED
      BY <1>9, <2>1, <2>2, <3>1, NextFactTypes
      DEF CheckDuplicate, TypeOK, rowVars, historyVars
  <2>3. CASE pc' = [pc EXCEPT ![i] = "retire"] /\ UNCHANGED <<left, handVars, groups>>
    BY <1>9, <2>1, <2>3
    DEF CheckDuplicate, TypeOK, rowVars, historyVars, handVars, HandRow, HandOld
  <2> QED BY <1>9, <2>2, <2>3 DEF CheckDuplicate
<1>10. CASE RetireDuplicate(i) \/ SearchMerged(i)
  <2>1. left[i] > 0 /\ new[i].row \in 1..last /\ NextFact(i)
    BY <1>10 DEF RetireDuplicate, SearchMerged, TypeOK, HandRow
  <2>2. groups' \in [Ingests -> SUBSET ((1..last) \X (1..last))]
    <3>1. PICK S \in SUBSET (1..last) : AddGroup(i, S)
      <4>1. candidates[i] \subseteq 1..last /\ Searchable \ mine[i] \subseteq 1..last
        BY DEF TypeOK, Searchable, Active
      <4> QED BY <1>10, <4>1 DEF RetireDuplicate, SearchMerged
    <3>2. {new[i].row} \X S \subseteq (1..last) \X (1..last)
      BY <2>1
    <3> QED BY <3>1, <3>2 DEF AddGroup, TypeOK
  <2>3. supBy' \in [Rows -> 1..last \cup {None}]
    BY <1>10, <2>1 DEF RetireDuplicate, SearchMerged, Retire, TypeOK, rowVars
  <2> QED
    BY <1>10, <2>1, <2>2, <2>3, NextFactTypes
    DEF RetireDuplicate, SearchMerged, TypeOK, rowVars, historyVars
<1>11. CASE RetireMerged(i)
  <2>1. supBy' \in [Rows -> 1..last \cup {None}]
    BY <1>11 DEF RetireMerged, Retire, TypeOK, HandRow
  <2> QED
    BY <1>11, <2>1 DEF RetireMerged, TypeOK, handVars, historyVars, HandRow, HandOld
<1>12. CASE Review(i)
  BY <1>12 DEF Review, TypeOK, rowVars, handVars, historyVars, HandRow, HandOld
<1>13. CASE CheckDecision(i)
  <2>1. PICK d \in decisions[i] :
          /\ decisions' = [decisions EXCEPT ![i] = @ \ {d}]
          /\ IF MayRetire(d[1], d[2])
               THEN /\ new' = [new EXCEPT ![i] = [row |-> d[1], conf |-> conf[d[1]]]]
                    /\ old' = [old EXCEPT ![i] = [row |-> d[2], conf |-> conf[d[2]]]]
                    /\ pc' = [pc EXCEPT ![i] = "applyRetire"]
               ELSE UNCHANGED <<new, old, pc>>
    BY <1>13 DEF CheckDecision
  <2>2. /\ d[1] \in 1..last /\ d[2] \in 1..last
        /\ conf[d[1]] \in Confidences /\ conf[d[2]] \in Confidences
    BY DEF TypeOK
  <2>3. decisions' \in [Ingests -> SUBSET ((1..last) \X (1..last))]
    BY <2>1 DEF TypeOK
  <2>4. CASE MayRetire(d[1], d[2])
    <3>1. /\ new' \in [Ingests -> [row : 1..last \cup {None}, conf : Confidences \cup {None}]]
          /\ old' \in [Ingests -> [row : 1..last \cup {None}, conf : Confidences \cup {None}]]
      <4>1. {[row |-> d[1], conf |-> conf[d[1]]], [row |-> d[2], conf |-> conf[d[2]]]}
              \subseteq [row : 1..last \cup {None}, conf : Confidences \cup {None}]
        BY <2>2
      <4>2. /\ new' = [new EXCEPT ![i] = [row |-> d[1], conf |-> conf[d[1]]]]
            /\ old' = [old EXCEPT ![i] = [row |-> d[2], conf |-> conf[d[2]]]]
        BY <2>1, <2>4
      <4>3. /\ new \in [Ingests -> [row : 1..last \cup {None}, conf : Confidences \cup {None}]]
            /\ old \in [Ingests -> [row : 1..last \cup {None}, conf : Confidences \cup {None}]]
        BY DEF TypeOK
      <4> QED BY <4>1, <4>2, <4>3
    <3>2. /\ pc' = [pc EXCEPT ![i] = "applyRetire"]
          /\ new'[i].row = d[1] /\ old'[i].row = d[2]
          /\ \A j \in Ingests \ {i} : new'[j] = new[j] /\ old'[j] = old[j]
      BY <2>1, <2>4 DEF TypeOK
    <3>3. old'[i] # NoFact /\ old'[i].row # None
      BY <2>2, <3>2, IngestsAssumption DEF NoFact
    <3>4. \A j \in Ingests :
            /\ pc'[j] \in HandRow => new'[j].row \in 1..last
            /\ pc'[j] \in HandOld => old'[j].row \in 1..last
            /\ old'[j] # NoFact => old'[j].row # None
            /\ pc'[j] \in {"classify", "search", "create", "mergeCreate"} =>
                 new'[j].conf \in Confidences
      BY <2>2, <3>2, <3>3 DEF TypeOK
    <3> QED
      BY <1>13, <2>3, <3>1, <3>2, <3>4
      DEF CheckDecision, TypeOK, rowVars, historyVars, HandRow, HandOld
  <2>5. CASE ~MayRetire(d[1], d[2])
    BY <1>13, <2>1, <2>3, <2>5 DEF CheckDecision, TypeOK, rowVars, historyVars
  <2> QED BY <2>4, <2>5
<1>14. CASE RetireContradicted(i)
  <2>1. supBy' \in [Rows -> 1..last \cup {None}]
    BY <1>14 DEF RetireContradicted, Retire, TypeOK, HandRow
  <2>2. /\ new' \in [Ingests -> [row : 1..last \cup {None}, conf : Confidences \cup {None}]]
        /\ old' \in [Ingests -> [row : 1..last \cup {None}, conf : Confidences \cup {None}]]
    BY <1>14 DEF RetireContradicted, TypeOK, NoFact
  <2> QED
    BY <1>14, <2>1, <2>2 DEF RetireContradicted, TypeOK, historyVars, HandRow, HandOld
<1> QED
  BY <1>1, <1>2, <1>3, <1>4, <1>5, <1>6, <1>7, <1>8, <1>9, <1>10, <1>11, <1>12,
     <1>13, <1>14
  DEF IngestStep

\* The steps of a client preserve the type invariant.
LEMMA TypeClient ==
  ASSUME TypeOK, ClientStep
  PROVE  TypeOK'
<1> USE IngestsAssumption
<1>1. CASE \E f \in facts : Supersede(f)
  <2>1. PICK f \in facts : Supersede(f)
    BY <1>1
  <2>2. last < MaxRows /\ last' = last + 1 /\ f \in 1..last
    BY <2>1 DEF Supersede, TypeOK
  <2>3. /\ conf' \in [Rows -> Confidences \cup {None}]
        /\ \A g \in 1..last' : conf'[g] \in Confidences
    BY <2>1, <2>2, TypesGrow DEF Supersede, TypeOK, Rows
  <2>4. supBy' \in [Rows -> 1..last' \cup {None}]
    BY <2>1, <2>2, TypesGrow DEF Supersede
  <2>5. /\ facts' \subseteq 1..last' /\ index' \subseteq 1..last'
        /\ merged' \subseteq 1..last' /\ patched' \subseteq 1..last'
        /\ replaced' \subseteq 1..last'
    BY <2>1, <2>2, TypesGrow DEF Supersede, TypeOK
  <2> QED
    BY <2>1, <2>2, <2>3, <2>4, <2>5, TypesGrow
    DEF Supersede, Edit, TypeOK, callVars, handVars
<1>2. CASE \E f \in facts : Patch(f)
  <2>1. PICK f \in facts : Patch(f)
    BY <1>2
  <2>2. /\ conf' \in [Rows -> Confidences \cup {None}]
        /\ \A g \in 1..last : conf'[g] \in Confidences
    <3>1. PICK c \in Confidences : conf' = [conf EXCEPT ![f] = c]
      BY <2>1 DEF Patch
    <3>2. conf' \in [Rows -> Confidences \cup {None}]
      BY <3>1 DEF TypeOK
    <3>3. ASSUME NEW g \in 1..last PROVE conf'[g] \in Confidences
      <4>1. g \in Rows /\ conf[g] \in Confidences
        BY DEF TypeOK, Rows
      <4> QED BY <3>1, <4>1 DEF TypeOK
    <3> QED BY <3>2, <3>3
  <2> QED BY <2>1, <2>2 DEF Patch, Edit, TypeOK, callVars, handVars
<1>3. CASE \E D \in SUBSET facts : Delete(D)
  BY <1>3 DEF Delete, Edit, TypeOK, callVars, handVars
<1>4. CASE \E I \in SUBSET Ingests : ReplaceRealtime(I)
  <2>1. replaced' \subseteq 1..last
    BY <1>4 DEF ReplaceRealtime, Active, TypeOK
  <2> QED BY <1>4, <2>1 DEF ReplaceRealtime, Edit, TypeOK, callVars, handVars
<1> QED BY <1>1, <1>2, <1>3, <1>4 DEF ClientStep

\* Every step preserves the type invariant.
LEMMA TypeStep == TypeOK /\ [Next]_vars => TypeOK'
<1>1. ASSUME TypeOK, UNCHANGED vars PROVE TypeOK'
  BY <1>1 DEF TypeOK, vars, rowVars, callVars, handVars, historyVars
<1> QED BY <1>1, TypeIngest, TypeClient DEF Next

\* The rows and the calls keep their types through every interleaving, edit and
\* deletion, and a call never works on a fact that was not stored.
THEOREM TypeCorrect == Spec => []TypeOK
<1> QED BY TypeInit, TypeStep, PTL DEF Spec

-----------------------------------------------------------------------------
(* The inductive invariant.                                                *)

\* Whether n may supersede o: it is newer, or it was merged from a near-duplicate.
MaySupersede(n, o) == n > o \/ n \in merged

\* What a call wants to retire, it may: candidates are searched before the row
\* is stored, and only a merged fact's afterwards.
PairsOrdered ==
  \A i \in Ingests :
    /\ \A p \in groups[i] \cup decisions[i] : MaySupersede(p[1], p[2])
    /\ pc[i] \in {"embed", "check", "retire"} =>
         \A o \in candidates[i] : MaySupersede(new[i].row, o)
    /\ pc[i] \in {"embed", "check", "retire", "applyRetire"} /\ old[i] # NoFact =>
         MaySupersede(new[i].row, old[i].row)
    /\ pc[i] \in {"mergeEmbed", "mergeRetire", "mergeSearch"} => new[i].row \in merged

\* What a call is about to retire passed the guard, with the confidences that
\* were read; a client may have changed them since.
CallGuarded(i) ==
  /\ pc[i] \in {"classify", "mergeCreate"} /\ old[i].row \notin patched =>
       conf[old[i].row] = old[i].conf
  /\ pc[i] = "mergeCreate" => ConfidenceAllowsSupersede(new[i].conf, old[i].conf)
  /\ pc[i] \in {"mergeEmbed", "mergeRetire", "retire", "applyRetire"}
       /\ {new[i].row, old[i].row} \cap patched = {} =>
         ConfidenceAllowsSupersede(conf[new[i].row], conf[old[i].row])
PairsGuarded == \A i \in Ingests : CallGuarded(i)

\* Without dedup merge nothing is merged.
MergesConfigured ==
  ~MergeOnDedup =>
    /\ merged = {}
    /\ \A i \in Ingests :
         pc[i] \notin {"mergeCreate", "mergeEmbed", "mergeRetire", "mergeSearch"}

\* Nothing is known of a row before it is stored.
RowsFresh == \A f \in Rows : f > last => supBy[f] = None

IInv ==
  /\ PairsOrdered /\ PairsGuarded /\ MergesConfigured /\ RowsFresh
  /\ NewerUnlessMerged /\ ChainsKept /\ GuardRespected

\* Initially the invariant holds: no row is superseded and no call has begun.
LEMMA InvInit == Init => IInv
BY IngestsAssumption
DEF Init, IInv, PairsOrdered, PairsGuarded, CallGuarded, MergesConfigured, RowsFresh,
    NewerUnlessMerged, ChainsKept, GuardRespected, NoFact, Rows

\* A step that leaves the rows alone.
RowsQuiet == UNCHANGED <<last, facts, conf, supBy, merged, patched>>

\* A step that leaves the rows alone keeps what is said of them.
LEMMA QuietRows ==
  ASSUME IInv, RowsQuiet
  PROVE  RowsFresh' /\ NewerUnlessMerged' /\ ChainsKept' /\ GuardRespected'
BY DEF IInv, RowsQuiet, RowsFresh, NewerUnlessMerged, ChainsKept, GuardRespected

\* A call that does not move keeps its guard unless a client patches a fact.
LEMMA GuardKept ==
  ASSUME TypeOK, IInv, NEW j \in Ingests,
         pc'[j] = pc[j], new'[j] = new[j], old'[j] = old[j],
         patched \subseteq patched',
         \A f \in 1..last : f \notin patched' => conf'[f] = conf[f]
  PROVE  CallGuarded(j)'
<1>1. CallGuarded(j)
  BY DEF IInv, PairsGuarded
<1>2. /\ pc[j] \in HandRow => new[j].row \in 1..last
      /\ pc[j] \in HandOld => old[j].row \in 1..last
  BY DEF TypeOK
<1> QED BY <1>1, <1>2 DEF CallGuarded, HandRow, HandOld

\* The choice of what to do with an extracted fact, and the searches.
LEMMA ChoicePreserves ==
  ASSUME TypeOK, IInv, NEW i \in Ingests,
         \/ NoDuplicate(i) \/ FindDuplicate(i) \/ ClassifySkip(i)
         \/ ClassifySupersede(i) \/ ClassifyMerge(i) \/ SearchCandidates(i)
         \/ CreateFails(i)
  PROVE  IInv'
<1>1. RowsQuiet /\ UNCHANGED <<groups, decisions>>
  BY DEF NoDuplicate, FindDuplicate, ClassifySkip, ClassifySupersede, ClassifyMerge,
     SearchCandidates, CreateFails, RowsQuiet, rowVars, historyVars
<1>2. \A j \in Ingests \ {i} :
        /\ pc'[j] = pc[j] /\ new'[j] = new[j] /\ old'[j] = old[j]
        /\ candidates'[j] = candidates[j]
  BY DEF TypeOK, NoDuplicate, FindDuplicate, ClassifySkip, ClassifySupersede, ClassifyMerge,
     SearchCandidates, CreateFails, NextFact, handVars
<1>3. pc'[i] \in {"fact", "search", "create", "classify", "mergeCreate"}
  BY DEF TypeOK, NoDuplicate, FindDuplicate, ClassifySkip, ClassifySupersede, ClassifyMerge,
     SearchCandidates, CreateFails, NextFact
<1>4. PairsOrdered'
  BY <1>1, <1>2, <1>3 DEF IInv, PairsOrdered, MaySupersede, RowsQuiet
<1>5. /\ pc'[i] \in {"classify", "mergeCreate"} /\ old'[i].row \notin patched =>
           conf[old'[i].row] = old'[i].conf
      /\ pc'[i] = "mergeCreate" => ConfidenceAllowsSupersede(new'[i].conf, old'[i].conf)
  <2>1. CASE FindDuplicate(i)
    BY <2>1 DEF FindDuplicate, TypeOK
  <2>2. CASE ClassifyMerge(i)
    BY <2>2 DEF ClassifyMerge, IInv, PairsGuarded, CallGuarded, handVars
  <2>3. CASE ~FindDuplicate(i) /\ ~ClassifyMerge(i)
    <3>1. pc'[i] \in {"fact", "search", "create"}
      BY <2>3 DEF TypeOK, NoDuplicate, ClassifySkip, ClassifySupersede,
         SearchCandidates, CreateFails, NextFact
    <3> QED BY <3>1
  <2> QED BY <2>1, <2>2, <2>3
<1>6. PairsGuarded'
  BY <1>1, <1>2, <1>3, <1>5 DEF IInv, PairsGuarded, CallGuarded, RowsQuiet
<1>7. ~MergeOnDedup => pc'[i] # "mergeCreate"
  BY DEF TypeOK, NoDuplicate, FindDuplicate, ClassifySkip, ClassifySupersede, ClassifyMerge,
     SearchCandidates, CreateFails, NextFact
<1>8. MergesConfigured'
  BY <1>1, <1>2, <1>3, <1>7 DEF IInv, MergesConfigured, RowsQuiet
<1> QED BY <1>1, <1>4, <1>6, <1>8, QuietRows DEF IInv

\* A new row, with the confidence of an extracted fact.
LEMMA GrowRows ==
  ASSUME TypeOK, IInv, NEW i \in Ingests, StoreRow(i),
         supBy' = supBy, merged \subseteq merged', patched' = patched
  PROVE  /\ last' = last + 1 /\ last' \in 1..MaxRows
         /\ \A f \in 1..last : conf'[f] = conf[f] /\ f # last' /\ last' > f
         /\ conf'[last'] = new[i].conf /\ last' \notin patched
         /\ RowsFresh' /\ NewerUnlessMerged' /\ ChainsKept' /\ GuardRespected'
<1> USE IngestsAssumption
<1>1. last < MaxRows /\ last' = last + 1 /\ facts' = facts \cup {last'}
  BY DEF StoreRow
<1>2. last' \in 1..MaxRows /\ last' \in Rows
  BY <1>1 DEF TypeOK, Rows
<1>3. /\ \A f \in 1..last : conf'[f] = conf[f] /\ f # last' /\ last' > f
      /\ conf'[last'] = new[i].conf
  BY <1>1, <1>2 DEF StoreRow, TypeOK, Rows
<1>4. last' \notin patched
  BY <1>1 DEF TypeOK
<1>5. supBy[last'] = None
  BY <1>1, <1>2 DEF IInv, RowsFresh, TypeOK
<1>6. RowsFresh'
  BY <1>1 DEF IInv, RowsFresh, TypeOK, Rows
<1>7. NewerUnlessMerged'
  BY <1>1, <1>5 DEF IInv, NewerUnlessMerged
<1>8. ChainsKept'
  BY <1>1, <1>5 DEF IInv, ChainsKept
<1>9. GuardRespected'
  <2> SUFFICES ASSUME NEW f \in facts', supBy[f] # None, {f, supBy[f]} \cap patched = {}
               PROVE  ~(conf'[supBy[f]] = "low" /\ conf'[f] = "high")
    BY DEF GuardRespected
  <2>1. f \in facts
    BY <1>1, <1>5
  <2>2. f \in 1..last /\ f \in Rows
    BY <2>1 DEF TypeOK, Rows
  <2>3. supBy[f] \in 1..last
    BY <2>2 DEF TypeOK
  <2> QED BY <1>3, <2>1, <2>2, <2>3 DEF IInv, GuardRespected
<1> QED BY <1>1, <1>2, <1>3, <1>4, <1>6, <1>7, <1>8, <1>9

\* Storing a fact: its row is newer than every candidate.
LEMMA CreatePreserves ==
  ASSUME TypeOK, IInv, NEW i \in Ingests, Create(i) \/ CreateMerged(i)
  PROVE  IInv'
<1> USE IngestsAssumption
<1>1. StoreRow(i) /\ supBy' = supBy /\ merged \subseteq merged' /\ patched' = patched
  BY DEF Create, CreateMerged, historyVars
<1>2. UNCHANGED <<groups, decisions>>
  BY DEF Create, CreateMerged
<1>3. \A j \in Ingests \ {i} :
        /\ pc'[j] = pc[j] /\ new'[j] = new[j] /\ old'[j] = old[j]
        /\ candidates'[j] = candidates[j]
  BY DEF TypeOK, Create, CreateMerged, NextFact
<1>4. \A j \in Ingests \ {i} : CallGuarded(j)'
  BY <1>1, <1>3, GrowRows, GuardKept
<1>5. CASE pc'[i] = "fact"
  <2>1. PairsOrdered'
    BY <1>1, <1>2, <1>3, <1>5 DEF IInv, PairsOrdered, MaySupersede
  <2>2. PairsGuarded'
    BY <1>4, <1>5 DEF PairsGuarded, CallGuarded
  <2>3. MergesConfigured'
    BY <1>3, <1>5 DEF IInv, MergesConfigured, Create, CreateMerged, historyVars, TypeOK
  <2> QED BY <1>1, <2>1, <2>2, <2>3, GrowRows DEF IInv
<1>6. CASE pc[i] = "create" /\ pc'[i] = "embed"
  <2>1. /\ new'[i].row = last' /\ UNCHANGED <<old, candidates, merged>>
    BY <1>6 DEF Create, CreateMerged, NextFact, TypeOK, historyVars
  <2>2. /\ \A o \in candidates[i] : last' > o
        /\ old[i] # NoFact => last' > old[i].row
    BY <1>1, GrowRows DEF TypeOK
  <2>3. PairsOrdered'
    BY <1>1, <1>2, <1>3, <1>6, <2>1, <2>2 DEF IInv, PairsOrdered, MaySupersede
  <2>4. PairsGuarded'
    BY <1>4, <1>6 DEF PairsGuarded, CallGuarded
  <2>5. MergesConfigured'
    BY <1>3, <1>6, <2>1 DEF IInv, MergesConfigured
  <2> QED BY <1>1, <2>3, <2>4, <2>5, GrowRows DEF IInv
<1>7. CASE pc[i] = "mergeCreate" /\ pc'[i] = "mergeEmbed"
  <2>1. /\ new'[i].row = last' /\ UNCHANGED <<old, candidates>>
        /\ merged' = merged \cup {last'}
    BY <1>7 DEF Create, CreateMerged, TypeOK
  <2>2. PairsOrdered'
    BY <1>1, <1>2, <1>3, <1>7, <2>1 DEF IInv, PairsOrdered, MaySupersede
  <2>3. PairsGuarded'
    <3>1. old[i].row \notin patched =>
            ConfidenceAllowsSupersede(conf'[last'], conf'[old[i].row])
      BY <1>1, <1>7, GrowRows DEF IInv, PairsGuarded, CallGuarded, TypeOK, HandOld
    <3>2. last' \notin patched
      BY <1>1, GrowRows
    <3> QED
      BY <1>1, <1>4, <1>7, <2>1, <3>1, <3>2 DEF PairsGuarded, CallGuarded
  <2>4. MergesConfigured'
    BY <1>7 DEF IInv, MergesConfigured
  <2> QED BY <1>1, <2>2, <2>3, <2>4, GrowRows DEF IInv
<1> QED BY <1>5, <1>6, <1>7 DEF Create, CreateMerged, NextFact, TypeOK

\* One fact retires another, unless it was retired already.
LEMMA RetireRows ==
  ASSUME TypeOK, IInv, NEW n \in 1..last, NEW o \in 1..last, Retire(n, o),
         UNCHANGED <<last, facts, conf, merged, patched>>,
         MaySupersede(n, o),
         {n, o} \cap patched = {} => ConfidenceAllowsSupersede(conf[n], conf[o])
  PROVE  RowsFresh' /\ NewerUnlessMerged' /\ ChainsKept' /\ GuardRespected'
<1>1. \/ supBy' = supBy
      \/ o \in facts /\ n \in facts /\ supBy' = [supBy EXCEPT ![o] = n]
  BY DEF Retire, Retirable
<1>2. CASE supBy' = supBy
  BY <1>2 DEF IInv, RowsFresh, NewerUnlessMerged, ChainsKept, GuardRespected
<1>3. CASE o \in facts /\ n \in facts /\ supBy' = [supBy EXCEPT ![o] = n]
  <2>1. /\ supBy'[o] = n
        /\ \A f \in Rows : f # o => supBy'[f] = supBy[f]
        /\ facts \subseteq Rows /\ o \in Rows
    BY <1>3, IngestsAssumption DEF TypeOK, Rows
  <2>2. RowsFresh'
    BY <2>1, ~(o > last) DEF IInv, RowsFresh, TypeOK
  <2>3. NewerUnlessMerged'
    BY <2>1 DEF IInv, NewerUnlessMerged, MaySupersede
  <2>4. ChainsKept'
    BY <1>3, <2>1 DEF IInv, ChainsKept
  <2>5. GuardRespected'
    BY <2>1 DEF IInv, GuardRespected, ConfidenceAllowsSupersede
  <2> QED BY <2>2, <2>3, <2>4, <2>5
<1> QED BY <1>1, <1>2, <1>3

\* What a call adds to its groups is ordered.
LEMMA GroupAdded ==
  ASSUME TypeOK, PairsOrdered, NEW i \in Ingests, NEW S, AddGroup(i, S),
         \A o \in S : MaySupersede(new[i].row, o), merged' = merged
  PROVE  /\ \A p \in groups'[i] : MaySupersede(p[1], p[2])'
         /\ \A j \in Ingests \ {i} : groups'[j] = groups[j]
<1>1. /\ groups'[i] = groups[i] \cup ({new[i].row} \X S)
      /\ \A j \in Ingests \ {i} : groups'[j] = groups[j]
  BY DEF AddGroup, TypeOK
<1>2. \A p \in groups[i] : MaySupersede(p[1], p[2])
  BY DEF PairsOrdered
<1>3. \A p \in {new[i].row} \X S : MaySupersede(p[1], p[2])
  OBVIOUS
<1> QED BY <1>1, <1>2, <1>3 DEF MaySupersede

\* The steps that end with a fact that was stored: its pairs are put aside.
LEMMA FactDonePreserves ==
  ASSUME TypeOK, IInv, NEW i \in Ingests, NextFact(i), NEW S, AddGroup(i, S),
         \A o \in S : MaySupersede(new[i].row, o),
         UNCHANGED <<last, facts, conf, merged, patched, decisions>>,
         RowsFresh', NewerUnlessMerged', ChainsKept', GuardRespected'
  PROVE  IInv'
<1>1. /\ pc'[i] = "fact"
      /\ \A j \in Ingests \ {i} :
           /\ pc'[j] = pc[j] /\ new'[j] = new[j] /\ old'[j] = old[j]
           /\ candidates'[j] = candidates[j]
  BY DEF NextFact, TypeOK
<1>2. PairsOrdered'
  BY <1>1, GroupAdded DEF IInv, PairsOrdered, MaySupersede
<1>3. PairsGuarded'
  BY <1>1, GuardKept DEF PairsGuarded, CallGuarded
<1>4. MergesConfigured'
  BY <1>1 DEF IInv, MergesConfigured
<1> QED BY <1>2, <1>3, <1>4 DEF IInv

\* The steps between two statements about the fact in hand.
LEMMA ProceedPreserves ==
  ASSUME TypeOK, IInv, NEW i \in Ingests, NEW l, pc' = [pc EXCEPT ![i] = l],
         UNCHANGED <<last, facts, conf, merged, patched, new, old, candidates, groups,
                     decisions>>,
         RowsFresh', NewerUnlessMerged', ChainsKept', GuardRespected',
         \/ pc[i] = "embed" /\ l = "check"
         \/ /\ pc[i] = "check" /\ l = "retire" /\ old[i] # NoFact
            /\ ConfidenceAllowsSupersede(conf[new[i].row], conf[old[i].row])
         \/ pc[i] = "mergeEmbed" /\ l = "mergeRetire"
         \/ pc[i] = "mergeRetire" /\ l = "mergeSearch"
  PROVE  IInv'
<1>1. pc'[i] = l /\ \A j \in Ingests \ {i} : pc'[j] = pc[j]
  BY DEF TypeOK
<1>2. PairsOrdered'
  BY <1>1 DEF IInv, PairsOrdered, MaySupersede
<1>3. CallGuarded(i)'
  BY <1>1 DEF IInv, PairsGuarded, CallGuarded
<1>4. PairsGuarded'
  BY <1>1, <1>3, GuardKept DEF PairsGuarded
<1>5. MergesConfigured'
  BY <1>1 DEF IInv, MergesConfigured
<1> QED BY <1>2, <1>4, <1>5 DEF IInv

\* Indexing the stored fact, and retiring what it replaces.
LEMMA FactPreserves ==
  ASSUME TypeOK, IInv, NEW i \in Ingests,
         \/ Embed(i) \/ EmbedMerged(i) \/ CheckDuplicate(i)
         \/ RetireDuplicate(i) \/ RetireMerged(i) \/ SearchMerged(i)
  PROVE  IInv'
<1>1. CASE Embed(i) \/ EmbedMerged(i) \/ CheckDuplicate(i)
  <2>1. RowsQuiet /\ decisions' = decisions
    BY <1>1 DEF Embed, EmbedMerged, CheckDuplicate, RowsQuiet, rowVars, historyVars
  <2>2. CASE NextFact(i) /\ AddGroup(i, candidates[i]) /\ pc[i] \in {"embed", "check"}
    <3>1. \A o \in candidates[i] : MaySupersede(new[i].row, o)
      BY <2>2 DEF IInv, PairsOrdered
    <3> QED BY <2>1, <2>2, <3>1, QuietRows, FactDonePreserves DEF RowsQuiet
  <2>3. CASE Embed(i) /\ pc' = [pc EXCEPT ![i] = "check"] /\ UNCHANGED <<handVars, groups>>
    BY <2>1, <2>3, QuietRows, ProceedPreserves DEF Embed, RowsQuiet, handVars
  <2>4. CASE EmbedMerged(i)
    BY <2>1, <2>4, QuietRows, ProceedPreserves DEF EmbedMerged, RowsQuiet, handVars
  <2>5. CASE /\ CheckDuplicate(i) /\ pc' = [pc EXCEPT ![i] = "retire"]
             /\ MayRetire(new[i].row, old[i].row) /\ UNCHANGED <<handVars, groups>>
    <3>1. pc[i] = "check" /\ old[i] # NoFact
      BY <2>5, IngestsAssumption DEF CheckDuplicate, TypeOK, HandOld, NoFact
    <3>2. ConfidenceAllowsSupersede(conf[new[i].row], conf[old[i].row])
      BY <2>5 DEF MayRetire
    <3> QED BY <2>1, <2>5, <3>1, <3>2, QuietRows, ProceedPreserves DEF RowsQuiet, handVars
  <2> QED
    BY <1>1, <2>2, <2>3, <2>4, <2>5 DEF Embed, CheckDuplicate
<1>2. CASE RetireDuplicate(i) \/ RetireMerged(i)
  <2>1. /\ pc[i] \in {"retire", "mergeRetire"}
        /\ new[i].row \in 1..last /\ old[i].row \in 1..last /\ old[i] # NoFact
    BY <1>2, IngestsAssumption
    DEF RetireDuplicate, RetireMerged, TypeOK, HandRow, HandOld, NoFact
  <2>2. MaySupersede(new[i].row, old[i].row)
    BY <2>1 DEF IInv, PairsOrdered, MaySupersede
  <2>3. {new[i].row, old[i].row} \cap patched = {} =>
          ConfidenceAllowsSupersede(conf[new[i].row], conf[old[i].row])
    BY <2>1 DEF IInv, PairsGuarded, CallGuarded
  <2>4. UNCHANGED <<last, facts, conf, merged, patched, decisions>>
    BY <1>2 DEF RetireDuplicate, RetireMerged, historyVars
  <2>5. Retire(new[i].row, old[i].row)
    BY <1>2 DEF RetireDuplicate, RetireMerged
  <2>6. RowsFresh' /\ NewerUnlessMerged' /\ ChainsKept' /\ GuardRespected'
    BY <2>1, <2>2, <2>3, <2>4, <2>5, RetireRows
  <2>7. CASE RetireDuplicate(i)
    <3>1. \A o \in candidates[i] : MaySupersede(new[i].row, o)
      BY <2>7 DEF RetireDuplicate, IInv, PairsOrdered
    <3> QED BY <2>4, <2>6, <2>7, <3>1, FactDonePreserves DEF RetireDuplicate
  <2>8. CASE RetireMerged(i)
    BY <2>4, <2>6, <2>8, ProceedPreserves DEF RetireMerged, handVars
  <2> QED BY <1>2, <2>7, <2>8
<1>3. CASE SearchMerged(i)
  <2>1. RowsQuiet /\ decisions' = decisions
    BY <1>3 DEF SearchMerged, RowsQuiet, rowVars, historyVars
  <2>2. \A o \in Searchable \ mine[i] : MaySupersede(new[i].row, o)
    BY <1>3 DEF SearchMerged, IInv, PairsOrdered, MaySupersede
  <2> QED
    BY <1>3, <2>1, <2>2, QuietRows, FactDonePreserves DEF SearchMerged, RowsQuiet
<1> QED BY <1>1, <1>2, <1>3

\* The contradiction review and what it decided.
LEMMA ReviewPreserves ==
  ASSUME TypeOK, IInv, NEW i \in Ingests,
         Review(i) \/ CheckDecision(i) \/ RetireContradicted(i)
  PROVE  IInv'
<1>1. CASE Review(i)
  <2>1. PICK D \in SUBSET groups[i] : decisions' = [decisions EXCEPT ![i] = D]
    BY <1>1 DEF Review
  <2>2. RowsQuiet /\ UNCHANGED <<new, old, candidates, groups>>
    BY <1>1 DEF Review, RowsQuiet, rowVars, handVars, historyVars
  <2>3. /\ pc'[i] = "apply" /\ decisions'[i] = D
        /\ \A j \in Ingests \ {i} : pc'[j] = pc[j] /\ decisions'[j] = decisions[j]
    BY <1>1, <2>1 DEF Review, TypeOK
  <2>4. PairsOrdered'
    BY <2>1, <2>2, <2>3 DEF IInv, PairsOrdered, MaySupersede, RowsQuiet
  <2>5. PairsGuarded'
    BY <2>2, <2>3, GuardKept DEF PairsGuarded, CallGuarded, RowsQuiet
  <2>6. MergesConfigured'
    BY <2>2, <2>3 DEF IInv, MergesConfigured, RowsQuiet
  <2> QED BY <2>2, <2>4, <2>5, <2>6, QuietRows DEF IInv
<1>2. CASE CheckDecision(i)
  <2>1. PICK d \in decisions[i] :
          /\ decisions' = [decisions EXCEPT ![i] = @ \ {d}]
          /\ IF MayRetire(d[1], d[2])
               THEN /\ new' = [new EXCEPT ![i] = [row |-> d[1], conf |-> conf[d[1]]]]
                    /\ old' = [old EXCEPT ![i] = [row |-> d[2], conf |-> conf[d[2]]]]
                    /\ pc' = [pc EXCEPT ![i] = "applyRetire"]
               ELSE UNCHANGED <<new, old, pc>>
    BY <1>2 DEF CheckDecision
  <2>2. RowsQuiet /\ UNCHANGED <<candidates, groups>>
    BY <1>2 DEF CheckDecision, RowsQuiet, rowVars, historyVars
  <2>3. \A j \in Ingests : decisions'[j] \subseteq decisions[j]
    BY <2>1 DEF TypeOK
  <2>4. MaySupersede(d[1], d[2])
    BY DEF IInv, PairsOrdered
  <2>5. CASE MayRetire(d[1], d[2])
    <3>1. /\ pc'[i] = "applyRetire" /\ new'[i].row = d[1] /\ old'[i].row = d[2]
          /\ \A j \in Ingests \ {i} :
               pc'[j] = pc[j] /\ new'[j] = new[j] /\ old'[j] = old[j]
      BY <2>1, <2>5 DEF TypeOK
    <3>2. PairsOrdered'
      BY <2>2, <2>3, <2>4, <3>1 DEF IInv, PairsOrdered, MaySupersede, RowsQuiet
    <3>3. ConfidenceAllowsSupersede(conf[d[1]], conf[d[2]])
      BY <2>5 DEF MayRetire
    <3>4. PairsGuarded'
      BY <2>2, <3>1, <3>3, GuardKept DEF PairsGuarded, CallGuarded, RowsQuiet
    <3>5. MergesConfigured'
      BY <2>2, <3>1 DEF IInv, MergesConfigured, RowsQuiet
    <3> QED BY <2>2, <3>2, <3>4, <3>5, QuietRows DEF IInv
  <2>6. CASE ~MayRetire(d[1], d[2])
    <3>1. UNCHANGED <<new, old, pc>>
      BY <2>1, <2>6
    <3>2. PairsOrdered'
      BY <2>2, <2>3, <3>1 DEF IInv, PairsOrdered, MaySupersede, RowsQuiet
    <3>3. PairsGuarded' /\ MergesConfigured'
      BY <2>2, <3>1 DEF IInv, PairsGuarded, CallGuarded, MergesConfigured, RowsQuiet
    <3> QED BY <2>2, <3>2, <3>3, QuietRows DEF IInv
  <2> QED BY <2>5, <2>6
<1>3. CASE RetireContradicted(i)
  <2>1. /\ pc[i] = "applyRetire" /\ new[i].row \in 1..last
        /\ old[i].row \in 1..last /\ old[i] # NoFact
    BY <1>3, IngestsAssumption DEF RetireContradicted, TypeOK, HandRow, HandOld, NoFact
  <2>2. MaySupersede(new[i].row, old[i].row)
    BY <2>1 DEF IInv, PairsOrdered
  <2>3. {new[i].row, old[i].row} \cap patched = {} =>
          ConfidenceAllowsSupersede(conf[new[i].row], conf[old[i].row])
    BY <2>1 DEF IInv, PairsGuarded, CallGuarded
  <2>4. UNCHANGED <<last, facts, conf, merged, patched, candidates, groups, decisions>>
    BY <1>3 DEF RetireContradicted, historyVars
  <2>5. RowsFresh' /\ NewerUnlessMerged' /\ ChainsKept' /\ GuardRespected'
    BY <1>3, <2>1, <2>2, <2>3, <2>4, RetireRows DEF RetireContradicted
  <2>6. /\ pc'[i] = "apply"
        /\ \A j \in Ingests \ {i} :
             pc'[j] = pc[j] /\ new'[j] = new[j] /\ old'[j] = old[j]
    BY <1>3 DEF RetireContradicted, TypeOK
  <2>7. PairsOrdered'
    BY <2>4, <2>6 DEF IInv, PairsOrdered, MaySupersede
  <2>8. PairsGuarded'
    BY <2>4, <2>6, GuardKept DEF PairsGuarded, CallGuarded
  <2>9. MergesConfigured'
    BY <2>4, <2>6 DEF IInv, MergesConfigured
  <2> QED BY <2>5, <2>7, <2>8, <2>9 DEF IInv
<1> QED BY <1>1, <1>2, <1>3

\* A client's replacement, patch or deletion, and a collection of expired facts.
LEMMA ClientPreserves ==
  ASSUME TypeOK, IInv, ClientStep
  PROVE  IInv'
<1> USE IngestsAssumption
<1>1. UNCHANGED callVars /\ merged' = merged /\ patched \subseteq patched'
  BY DEF ClientStep, Supersede, Patch, Delete, ReplaceRealtime
<1>2. \A f \in 1..last : f \notin patched' => conf'[f] = conf[f]
  <2>1. ASSUME NEW g \in facts, Supersede(g) PROVE \A f \in 1..last : conf'[f] = conf[f]
    BY <2>1 DEF Supersede, TypeOK, Rows
  <2>2. ASSUME NEW g \in facts, Patch(g)
        PROVE  \A f \in 1..last : f \notin patched' => conf'[f] = conf[f]
    BY <2>2 DEF Patch, TypeOK, Rows
  <2> QED BY <2>1, <2>2 DEF ClientStep, Delete, ReplaceRealtime
<1>3. PairsOrdered'
  BY <1>1 DEF IInv, PairsOrdered, MaySupersede, callVars, handVars
<1>4. PairsGuarded'
  BY <1>1, <1>2, GuardKept DEF PairsGuarded, callVars, handVars
<1>5. MergesConfigured'
  BY <1>1 DEF IInv, MergesConfigured, callVars
<1>6. ASSUME NEW f \in facts, Supersede(f)
      PROVE  RowsFresh' /\ NewerUnlessMerged' /\ ChainsKept' /\ GuardRespected'
  <2>1. /\ last < MaxRows /\ last' = last + 1 /\ facts' = facts \cup {last'}
        /\ supBy' = [supBy EXCEPT ![f] = last'] /\ patched' = patched
        /\ f \in 1..last /\ last' \in Rows /\ last' \notin facts /\ last' \notin patched
    BY <1>6 DEF Supersede, TypeOK, Rows
  <2>2. /\ supBy'[f] = last' /\ supBy'[last'] = None
        /\ \A g \in Rows : g # f => supBy'[g] = supBy[g]
    BY <2>1 DEF IInv, RowsFresh, TypeOK, Rows
  <2>3. conf'[last'] = conf'[f]
    BY <1>6, <2>1 DEF Supersede, TypeOK, Rows
  <2>4. facts \subseteq Rows /\ facts \subseteq 1..last
    BY DEF TypeOK, Rows
  <2>5. RowsFresh'
    BY <2>1, <2>2 DEF IInv, RowsFresh, TypeOK
  <2>6. NewerUnlessMerged'
    <3>1. last' > f
      BY <2>1 DEF TypeOK
    <3>2. \A g \in facts \ {f} : supBy'[g] = supBy[g]
      BY <2>2, <2>4
    <3> QED BY <1>1, <2>1, <2>2, <3>1, <3>2 DEF IInv, NewerUnlessMerged
  <2>7. ChainsKept'
    BY <2>1, <2>2, <2>4 DEF IInv, ChainsKept
  <2>8. GuardRespected'
    <3> SUFFICES ASSUME NEW g \in facts', supBy'[g] # None, {g, supBy'[g]} \cap patched = {}
                 PROVE  ~(conf'[supBy'[g]] = "low" /\ conf'[g] = "high")
      BY <2>1 DEF GuardRespected
    <3>1. CASE g = f
      BY <2>2, <2>3, <3>1
    <3>2. CASE g # f
      <4>1. g \in facts /\ supBy'[g] = supBy[g] /\ supBy[g] \in 1..last /\ g \in 1..last
        BY <2>1, <2>2, <2>4, <3>2 DEF TypeOK
      <4>2. conf'[g] = conf[g] /\ conf'[supBy[g]] = conf[supBy[g]]
        BY <1>2, <2>1, <4>1
      <4> QED BY <4>1, <4>2 DEF IInv, GuardRespected
    <3> QED BY <3>1, <3>2
  <2> QED BY <2>5, <2>6, <2>7, <2>8
<1>7. ASSUME NEW f \in facts, Patch(f)
      PROVE  RowsFresh' /\ NewerUnlessMerged' /\ ChainsKept' /\ GuardRespected'
  <2>1. UNCHANGED <<last, facts, supBy>>
    BY <1>7 DEF Patch
  <2>2. RowsFresh' /\ NewerUnlessMerged' /\ ChainsKept'
    BY <1>1, <2>1 DEF IInv, RowsFresh, NewerUnlessMerged, ChainsKept
  <2>3. \A g \in facts : supBy[g] # None => g \in 1..last /\ supBy[g] \in 1..last
    BY DEF TypeOK, Rows
  <2>4. GuardRespected'
    BY <1>1, <1>2, <2>1, <2>3 DEF IInv, GuardRespected
  <2> QED BY <2>2, <2>4
<1>8. ASSUME NEW D \in SUBSET facts, Delete(D)
      PROVE  RowsFresh' /\ NewerUnlessMerged' /\ ChainsKept' /\ GuardRespected'
  BY <1>1, <1>8
  DEF Delete, Unreferenced, IInv, RowsFresh, NewerUnlessMerged, ChainsKept, GuardRespected
<1>9. ASSUME NEW I \in SUBSET Ingests, ReplaceRealtime(I)
      PROVE  RowsFresh' /\ NewerUnlessMerged' /\ ChainsKept' /\ GuardRespected'
  BY <1>9, QuietRows DEF ReplaceRealtime, RowsQuiet
<1> QED BY <1>3, <1>4, <1>5, <1>6, <1>7, <1>8, <1>9 DEF ClientStep, IInv

\* Every step preserves the invariant.
LEMMA InvStep == TypeOK /\ IInv /\ [Next]_vars => IInv'
<1>1. ASSUME TypeOK, IInv, UNCHANGED vars PROVE IInv'
  BY <1>1
  DEF vars, rowVars, callVars, handVars, historyVars, IInv, PairsOrdered, PairsGuarded,
      CallGuarded, MaySupersede, MergesConfigured, RowsFresh, NewerUnlessMerged, ChainsKept,
      GuardRespected
<1>2. ASSUME TypeOK, IInv, NEW i \in Ingests, IngestStep(i) PROVE IInv'
  BY <1>2, ChoicePreserves, CreatePreserves, FactPreserves, ReviewPreserves DEF IngestStep
<1> QED BY <1>1, <1>2, ClientPreserves DEF Next

\* The invariant holds in every state.
LEMMA InvariantHolds == Spec => []IInv
<1> QED BY TypeCorrect, InvInit, InvStep, PTL DEF Spec

-----------------------------------------------------------------------------
(* What the invariant says of the program.                                 *)

\* However calls overlap, a fact that was not merged supersedes older ones only.
THEOREM NewerSupersedes == Spec => []NewerUnlessMerged
<1>1. IInv => NewerUnlessMerged
  BY DEF IInv
<1> QED BY <1>1, InvariantHolds, PTL

\* What replaced a stored fact is stored.
THEOREM ChainsNotBroken == Spec => []ChainsKept
<1>1. IInv => ChainsKept
  BY DEF IInv
<1> QED BY <1>1, InvariantHolds, PTL

\* A low-confidence fact does not retire a high-confidence one, whatever is read
\* before and written after other calls' statements.
THEOREM GuardHolds == Spec => []GuardRespected
<1>1. IInv => GuardRespected
  BY DEF IInv
<1> QED BY <1>1, InvariantHolds, PTL

\* A retirement is overwritten by a client's replacement only.
THEOREM RetirementsFinal == Spec => RetirementFinal
<1> USE DEF TypeOK
<1>1. ASSUME TypeOK, [Next]_vars
      PROVE  [\A f \in facts :
                supBy[f] # None /\ supBy'[f] # supBy[f] => supBy'[f] = last + 1]_vars
  <2>1. ASSUME NEW n, NEW o, Retire(n, o)
        PROVE  \A f \in facts : supBy[f] # None => supBy'[f] = supBy[f]
    BY <2>1 DEF Retire, Retirable
  <2>2. ASSUME NEW i \in Ingests, IngestStep(i)
        PROVE  \A f \in facts : supBy[f] # None => supBy'[f] = supBy[f]
    BY <2>1, <2>2
    DEF IngestStep, NoDuplicate, FindDuplicate, ClassifySkip, ClassifySupersede,
        ClassifyMerge, SearchCandidates, Create, CreateFails, Embed, CheckDuplicate,
        RetireDuplicate, CreateMerged, EmbedMerged, RetireMerged, SearchMerged, Review,
        CheckDecision, RetireContradicted, rowVars
  <2>3. ASSUME NEW g \in facts, Supersede(g)
        PROVE  \A f \in facts : supBy'[f] # supBy[f] => supBy'[f] = last + 1
    BY <2>3 DEF Supersede
  <2>4. ASSUME ClientStep, \A f \in facts : ~Supersede(f) PROVE supBy' = supBy
    BY <2>4 DEF ClientStep, Patch, Delete, ReplaceRealtime
  <2> QED BY <1>1, <2>2, <2>3, <2>4 DEF Next, ClientStep, vars, rowVars
<1> QED BY <1>1, TypeCorrect, PTL DEF Spec, RetirementFinal

\* With the default configuration, in which near-duplicates are not merged, no
\* facts supersede each other in a cycle: a chain ends in an active fact.
THEOREM NoCycles == ASSUME ~MergeOnDedup PROVE Spec => []KnowledgeKept
<1>1. ASSUME TypeOK, IInv PROVE KnowledgeKept
  <2> SUFFICES ASSUME NEW S \in SUBSET facts, S # {}
               PROVE  \E f \in S : supBy[f] \notin S
    BY DEF KnowledgeKept
  <2>1. last \in Nat /\ \A f \in S : f \in Nat /\ f <= last
    BY <1>1, IngestsAssumption DEF TypeOK
  <2> DEFINE Ages == {last - f : f \in S}
  <2>2. Ages \in SUBSET Nat /\ Ages # {}
    <3>1. \A f \in S : last - f \in Nat
      BY <2>1
    <3> QED BY <3>1
  <2>3. PICK a \in Ages : \A b \in Ages : <<b, a>> \notin OpToRel(<, Nat)
    BY <2>2, NatLessThanWellFounded, WFMin
  <2>4. PICK f \in S : a = last - f
    OBVIOUS
  <2>5. \A g \in S : ~(g > f)
    <3>1. ASSUME NEW g \in S PROVE ~(last - g < last - f)
      BY <2>2, <2>3, <2>4 DEF OpToRel
    <3> QED BY <2>1, <3>1
  <2>6. merged = {}
    BY <1>1 DEF IInv, MergesConfigured
  <2>7. supBy[f] # None => supBy[f] > f
    BY <1>1, <2>6 DEF IInv, NewerUnlessMerged
  <2>8. None \notin S
    BY <2>1, IngestsAssumption
  <2> QED BY <2>5, <2>7, <2>8
<1> QED BY <1>1, TypeCorrect, InvariantHolds, PTL

-----------------------------------------------------------------------------
(* Entities and relationships: the invariants of EntityGraph.              *)

IdValues == (Nat \ {0}) \X Names \X (Nat \ {0})

\* An id that was given out: its call, if it still runs, is past the name.
Issued(id) ==
  /\ id \in IdValues /\ id[1] <= ingests
  /\ \A c \in Calls : num[c] = id[1] => id[3] > Len(todo[c])

\* Every two entities have an order.
Ordered(T) == \A i, j \in T : i # j => Before(i, j) \/ Before(j, i)

\* The calls: running ones have numbers of their own.
CallInv ==
  /\ ingests \in 0..MaxIngests
  /\ cpc \in [Calls -> {"idle", "lookup", "create", "alias"}]
  /\ num \in [Calls -> 0..ingests]
  /\ todo \in [Calls -> Seq(Names)]
  /\ wanted \in [Calls -> SUBSET (Names \X Names)]
  /\ \A c \in Calls : cpc[c] = "idle" <=> num[c] = 0
  /\ \A b, c \in Calls : num[b] = num[c] /\ num[c] # 0 => b = c
  /\ \A c \in Calls : cpc[c] = "create" => todo[c] # <<>>
  /\ nameToID = [c \in Calls |-> nameToID[c]] /\ seen = [c \in Calls |-> seen[c]]
  /\ \A c \in Calls : \A n \in DOMAIN nameToID[c] :
       n \in Names /\ Fold(nameToID[c][n]) = Folded[n]
  /\ \A c \in Calls : cpc[c] = "alias" => seen[c][2] \subseteq 1..ingests

\* The tables.
TableInv ==
  /\ tables \subseteq AllTables
  /\ "entities" \notin tables => entities = <<>>
  /\ entities = [id \in Ids |-> entities[id]] /\ IsFiniteSet(Ids)
  /\ \A id \in Ids : Issued(id) /\ entities[id] \subseteq 1..ingests
  /\ Ordered(Ids)
  /\ rels \subseteq [id : Nat \X (Names \X Names), from : Ids, to : Ids]

\* What a deduplication has listed was stored under one name, oldest first.
DedupInv ==
  /\ dpc \in [Dedupers -> {"idle", "group", "from", "to", "delete"}]
  /\ doubled \in [Dedupers -> SUBSET Range(Folded)]
  /\ olds \in [Dedupers -> SUBSET IdValues]
  /\ keep \in [Dedupers -> IdValues \cup {Nothing}]
  /\ \A d \in Dedupers :
       /\ dpc[d] \in {"from", "to", "delete"} <=> olds[d] # {}
       /\ keep[d] # Nothing <=> olds[d] # {}
       /\ IsFiniteSet(olds[d]) /\ Ordered(olds[d])
       /\ \A o \in olds[d] :
            Issued(o) /\ Issued(keep[d]) /\ Fold(o) = Fold(keep[d]) /\ Before(keep[d], o)

\* While an entity to be removed is there, so is the one to be kept, or another
\* that a second deduplication keeps instead.
KeptInv ==
  \A d \in Dedupers : \A o \in olds[d] \cap Ids :
    \E k \in Ids : Fold(k) = Fold(keep[d]) /\ (k = keep[d] \/ Before(k, keep[d]))

\* Ingests that ran at one time have raced; a call that creates an entity has
\* raced with all that have created one of its name; and while a deduplication
\* runs alone, it has all doubled names before it.
RacedInv ==
  /\ OneEntityPerName
  /\ \A c \in Running : \A n \in num[c] + 1..ingests : {n, num[c]} \in raced
  /\ \A c \in Calls : cpc[c] = "create" =>
       \A id \in Ids : Fold(id) = Folded[Head(todo[c])] => {id[1], num[c]} \in raced
  /\ \A d \in alone \cap Dedupers :
       /\ Running = {} /\ rpc = "idle"
       /\ dpc[d] # "idle" /\ \A e \in Dedupers \ {d} : dpc[e] = "idle"
       /\ \A i, j \in Ids : i # j /\ Fold(i) = Fold(j) =>
            Fold(i) \in doubled[d] \/ {i, j} \subseteq olds[d] \cup {keep[d]}

\* What a reader has read is still so, while the tables did not change.
AskInv ==
  ask # Nothing =>
    /\ ask \in [step : {"entities", "rels"}, from : IdValues, depth : Nat,
                ids : SUBSET IdValues]
               \cup [step : {"trail"}, from : IdValues, to : IdValues, depth : 0..MaxPath]
    /\ ~changed /\ ask.step \in {"entities", "rels"} => ask.from \in Ids
    /\ ~changed /\ ask.step = "rels" => ask.ids = Reachable(ask.from, ask.depth)
    /\ ~changed /\ ask.step = "trail" =>
         /\ ask.to \in Reachable(ask.from, ask.depth)
         /\ \A n \in 0..ask.depth - 1 : ask.to \notin Reachable(ask.from, n)

-----------------------------------------------------------------------------
(* The oldest of several entities.                                         *)

\* ORDER BY created_at has a first row: the one with the fewest before it.
LEMMA OldestIsFirst ==
  ASSUME NEW T, T \subseteq IdValues, IsFiniteSet(T), T # {}, Ordered(T)
  PROVE  Oldest(T) \in T /\ \A i \in T \ {Oldest(T)} : Before(Oldest(T), i)
<1> DEFINE Below(i) == {j \in T : Before(j, i)}
           Counts == {Cardinality(Below(i)) : i \in T}
<1>1. \A i \in T : IsFiniteSet(Below(i)) /\ Cardinality(Below(i)) \in Nat
  BY FS_Subset, FS_CardinalityType
<1>2. PICK n \in Counts : \A m \in Counts : ~ (<<m, n>> \in OpToRel(<, Nat))
  <2>1. Counts \subseteq Nat /\ Counts # {}
    BY <1>1
  <2> QED
    BY <2>1, WFMin, NatLessThanWellFounded
<1>3. PICK o \in T : n = Cardinality(Below(o))
  OBVIOUS
<1>4. ASSUME NEW i \in T \ {o} PROVE Before(o, i)
  <2> SUFFICES ASSUME Before(i, o) PROVE FALSE
    BY <1>4 DEF Ordered
  <2>1. Below(i) \subseteq Below(o) /\ i \in Below(o) /\ i \notin Below(i)
    BY <1>4 DEF Before, IdValues
  <2>2. Cardinality(Below(i)) < Cardinality(Below(o))
    <3> HIDE DEF Below
    <3>1. /\ Cardinality(Below(i)) <= Cardinality(Below(o))
          /\ Cardinality(Below(o)) = Cardinality(Below(i)) => Below(o) = Below(i)
      BY <1>1, <2>1, FS_Subset
    <3> QED
      BY <1>1, <2>1, <3>1, <1>4
  <2> QED
    BY <1>1, <1>2, <1>3, <2>2 DEF OpToRel
<1>5. \E x \in T : \A i \in T \ {x} : Before(x, i)
  BY <1>4
<1> QED
  BY <1>5 DEF Oldest

-----------------------------------------------------------------------------
(* Ids that were given out.                                                *)

LEMMA OutsideCalls ==
  (\E d \in Dedupers : DedupStep(d)) \/ ResetStep \/ ReadStep \/ UNCHANGED graphVars
    => UNCHANGED ingestVars
BY DEF DedupStep, ResetStep, ReadStep, FindDuplicates, ListGroup, RepointFrom,
  RepointTo, DeleteEntity, DedupDone, DedupFails, DedupEnds, DropRelationships,
  DropEntities, ResetEnds, Open, AskGraph, ReadEntities, ReadRelationships, AskPath,
  ReconstructPath, AskFails, graphVars

\* An id stays given out, and a new entity gets another one.
LEMMA IssuedStays ==
  ASSUME CallInv, [GraphNext]_graphVars, NEW id, Issued(id)
  PROVE  Issued(id)'
<1> USE DEF CallInv, Issued, IdValues, ingestVars
<1>1. ASSUME NEW c \in Calls, BeginIngest(c) PROVE Issued(id)'
  BY <1>1 DEF BeginIngest
<1>2. ASSUME NEW c \in Calls, NameDone(c), todo[c] # <<>>, UNCHANGED <<num, ingests>>
      PROVE  Issued(id)'
  <2>1. Len(todo'[c]) < Len(todo[c])
    BY <1>2 DEF NameDone
  <2> QED
    BY <1>2, <2>1 DEF NameDone
<1>3. ASSUME NEW c \in Calls, EndIngest(c) PROVE Issued(id)'
  BY <1>3 DEF EndIngest
<1>4. CASE UNCHANGED <<num, todo, ingests>>
  BY <1>4
<1>5. ASSUME NEW c \in Calls, EntityStep(c)
      PROVE  Issued(id)'
  <2>1. CASE Lookup(c)
    BY <1>2, <1>4, <2>1 DEF Lookup
  <2>2. CASE CreateEntity(c)
    BY <1>2, <2>2 DEF CreateEntity
  <2>3. CASE LookupFails(c) \/ UpdateEntityAliases(c) \/ CreateRelationship(c)
    BY <1>4, <2>3 DEF LookupFails, UpdateEntityAliases, CreateRelationship
  <2> QED
    BY <1>1, <1>3, <1>5, <2>1, <2>2, <2>3 DEF EntityStep
<1> QED
  BY <1>4, <1>5, OutsideCalls DEF GraphNext

\* The ingests are counted.
LEMMA IngestsGrow ==
  ASSUME CallInv, [GraphNext]_graphVars PROVE 1..ingests \subseteq 1..ingests'
<1>1. ingests' = ingests \/ ingests' = ingests + 1
  BY OutsideCalls DEF GraphNext, EntityStep, BeginIngest, Lookup, LookupFails, UpdateEntityAliases,
    CreateEntity, CreateRelationship, EndIngest, ingestVars
<1> QED
  BY <1>1 DEF CallInv

LEMMA NewId ==
  ASSUME CallInv, NEW c \in Calls, cpc[c] = "create",
         NEW id, id = <<num[c], Head(todo[c]), Len(todo[c])>>
  PROVE  /\ id \in IdValues /\ id[1] = num[c] /\ id[2] = Head(todo[c]) /\ id[3] = Len(todo[c])
         /\ id[1] <= ingests /\ ~Issued(id)
         /\ todo' = [todo EXCEPT ![c] = Tail(@)] /\ UNCHANGED <<num, ingests>> => Issued(id)'
<1>1. num[c] \in Nat \ {0} /\ num[c] <= ingests /\ Len(todo[c]) \in Nat \ {0} /\ Head(todo[c]) \in Names
  BY DEF CallInv
<1>2. Len(Tail(todo[c])) < Len(todo[c])
  BY DEF CallInv
<1>3. id \in IdValues
  BY <1>1 DEF IdValues
<1>4. ~Issued(id)
  BY DEF Issued
<1>5. ASSUME todo' = [todo EXCEPT ![c] = Tail(@)], UNCHANGED <<num, ingests>>
      PROVE  Issued(id)'
  BY <1>1, <1>2, <1>3, <1>5 DEF CallInv, Issued
<1> QED
  BY <1>1, <1>3, <1>4, <1>5

-----------------------------------------------------------------------------
(* The calls.                                                              *)

LEMMA CallStep == CallInv /\ TableInv /\ [GraphNext]_graphVars => CallInv'
<1> SUFFICES ASSUME CallInv, TableInv, [GraphNext]_graphVars PROVE CallInv'
  OBVIOUS
<1> USE NamesAssumption, LimitsAssumption DEF CallInv, ingestVars
<1>1. ASSUME NEW c \in Calls, BeginIngest(c) PROVE CallInv'
  BY <1>1 DEF BeginIngest, Fold
<1>2. ASSUME NEW c \in Calls, Lookup(c) PROVE CallInv'
  <2>1. Head(todo[c]) \in Names /\ Tail(todo[c]) \in Seq(Names)
    BY <1>2 DEF Lookup
  <2>2. CASE GetEntityByName(Head(todo[c])) = {}
    <3>1. /\ cpc' = [cpc EXCEPT ![c] = "create"] /\ todo[c] # <<>> /\ cpc[c] = "lookup"
          /\ UNCHANGED <<num, todo, wanted, nameToID, seen, ingests>>
      BY <1>2, <2>2 DEF Lookup
    <3> QED
      BY <3>1 DEF Fold
  <2>3. ASSUME NEW id \in GetEntityByName(Head(todo[c])),
               nameToID' = [nameToID EXCEPT ![c] = Put(@, Head(todo[c]), id)], NameDone(c),
               IF num[c] \in entities[id] THEN UNCHANGED <<cpc, seen>>
               ELSE /\ cpc' = [cpc EXCEPT ![c] = "alias"]
                    /\ seen' = [seen EXCEPT ![c] = <<id, entities[id]>>]
        PROVE  CallInv'
    <3>1. entities[id] \subseteq 1..ingests
      BY <2>3 DEF TableInv, GetEntityByName
    <3>2. \A n \in DOMAIN nameToID'[c] : n \in Names /\ Fold(nameToID'[c][n]) = Folded[n]
      BY <2>1, <2>3 DEF GetEntityByName, Fold, Put
    <3>3. UNCHANGED <<num, wanted, ingests>>
      BY <1>2 DEF Lookup
    <3>4. cpc[c] = "lookup"
      BY <1>2 DEF Lookup
    <3>5. /\ nameToID' = [b \in Calls |-> nameToID'[b]]
          /\ \A b \in Calls \ {c} : nameToID'[b] = nameToID[b]
      BY <2>3
    <3>6. \A b \in Calls : \A n \in DOMAIN nameToID'[b] : n \in Names /\ Fold(nameToID'[b][n]) = Folded[n]
      <4>1. ASSUME NEW b \in Calls \ {c}, NEW n \in DOMAIN nameToID'[b]
            PROVE  n \in Names /\ Fold(nameToID'[b][n]) = Folded[n]
        BY <3>5, <4>1 DEF Fold
      <4> QED
        BY <3>2, <4>1
    <3>7. todo' = [todo EXCEPT ![c] = Tail(@)]
      BY <2>3 DEF NameDone
    <3>8. CASE cpc' = [cpc EXCEPT ![c] = "alias"] /\ seen' = [seen EXCEPT ![c] = <<id, entities[id]>>]
      BY <2>1, <3>1, <3>3, <3>4, <3>5, <3>6, <3>7, <3>8 DEF Fold
    <3>9. CASE UNCHANGED <<cpc, seen>>
      BY <2>1, <3>3, <3>4, <3>5, <3>6, <3>7, <3>9 DEF Fold
    <3> QED
      BY <2>3, <3>8, <3>9
  <2> QED
    BY <1>2, <2>2, <2>3 DEF Lookup
<1>3. ASSUME NEW c \in Calls, LookupFails(c) PROVE CallInv'
  BY <1>3 DEF LookupFails, Fold
<1>4. ASSUME NEW c \in Calls, UpdateEntityAliases(c) PROVE CallInv'
  BY <1>4 DEF UpdateEntityAliases, Fold
<1>5. ASSUME NEW c \in Calls, CreateEntity(c) PROVE CallInv'
  <2>1. Head(todo[c]) \in Names /\ Tail(todo[c]) \in Seq(Names)
    BY <1>5 DEF CreateEntity
  <2>2. nameToID' = [b \in Calls |-> nameToID'[b]]
    BY <1>5 DEF CreateEntity
  <2>3. ASSUME NEW b \in Calls, NEW n \in DOMAIN nameToID'[b]
        PROVE  n \in Names /\ Fold(nameToID'[b][n]) = Folded[n]
    <3>1. CASE UNCHANGED nameToID
      BY <2>3, <3>1 DEF Fold
    <3>2. ASSUME NEW id, id[2] = Head(todo[c]), 
                 nameToID' = [nameToID EXCEPT ![c] = Put(@, Head(todo[c]), id)]
          PROVE  n \in Names /\ Fold(nameToID'[b][n]) = Folded[n]
      <4>1. CASE b = c
        BY <2>1, <2>3, <3>2, <4>1 DEF Fold, Put
      <4>2. CASE b # c
        BY <2>3, <3>2, <4>2 DEF Fold
      <4> QED
        BY <4>1, <4>2
    <3>3. \/ UNCHANGED nameToID
          \/ nameToID' = [nameToID EXCEPT ![c] =
               Put(@, Head(todo[c]), <<num[c], Head(todo[c]), Len(todo[c])>>)]
      BY <1>5 DEF CreateEntity
    <3>4. CASE ~UNCHANGED nameToID
      <4>1. PICK id : /\ id[2] = Head(todo[c])
                      /\ nameToID' = [nameToID EXCEPT ![c] = Put(@, Head(todo[c]), id)]
        BY <3>3, <3>4
      <4> QED
        BY <3>2, <4>1
    <3> QED
      BY <3>1, <3>4
  <2>4. UNCHANGED <<num, wanted, seen, ingests>> /\ cpc' = [cpc EXCEPT ![c] = "lookup"]
        /\ todo' = [todo EXCEPT ![c] = Tail(@)] /\ cpc[c] = "create"
    BY <1>5 DEF CreateEntity, NameDone
  <2> QED
    BY <2>1, <2>2, <2>3, <2>4 DEF Fold
<1>6. ASSUME NEW c \in Calls, CreateRelationship(c) PROVE CallInv'
  BY <1>6 DEF CreateRelationship, Fold
<1>7. ASSUME NEW c \in Calls, EndIngest(c) PROVE CallInv'
  <2>1. DOMAIN nameToID'[c] = {} /\ \A b \in Calls \ {c} : nameToID'[b] = nameToID[b]
    BY <1>7 DEF EndIngest
  <2>2. nameToID' = [b \in Calls |-> nameToID'[b]]
    BY <1>7 DEF EndIngest
  <2> QED
    BY <1>7, <2>1, <2>2 DEF EndIngest, Fold
<1>8. CASE UNCHANGED ingestVars
  BY <1>8 DEF Fold
<1> QED
  BY <1>1, <1>2, <1>3, <1>4, <1>5, <1>6, <1>7, <1>8, OutsideCalls DEF GraphNext, EntityStep

-----------------------------------------------------------------------------
(* The tables.                                                             *)

\* Steps that leave the tables' rows alone.
LEMMA RowsStay ==
  ASSUME CallInv, TableInv, [GraphNext]_graphVars, UNCHANGED <<entities, rels>>,
         tables' \subseteq AllTables, "entities" \in tables => "entities" \in tables' \/ entities = <<>>
  PROVE  TableInv'
<1>1. \A id : Issued(id) => Issued(id)'
  BY IssuedStays
<1>2. 1..ingests \subseteq 1..ingests'
  BY IngestsGrow
<1> QED
  BY <1>1, <1>2 DEF TableInv, Ordered, Ids

LEMMA TableStep == CallInv /\ TableInv /\ DedupInv /\ [GraphNext]_graphVars => TableInv'
<1> SUFFICES ASSUME CallInv, TableInv, DedupInv, [GraphNext]_graphVars PROVE TableInv'
  OBVIOUS
<1> USE DEF AllTables, dbVars, Ids
<1>1. \A id : Issued(id) => Issued(id)'
  BY IssuedStays
<1>2. 1..ingests \subseteq 1..ingests'
  BY IngestsGrow
<1>3. CASE UNCHANGED dbVars
  BY <1>3, RowsStay DEF TableInv
<1>4. ASSUME NEW c \in Calls, UpdateEntityAliases(c) PROVE TableInv'
  <2>1. CASE UNCHANGED entities
    BY <1>4, <2>1, RowsStay DEF UpdateEntityAliases, TableInv
  <2>2. CASE /\ "entities" \in tables /\ seen[c][1] \in Ids
             /\ entities' = [entities EXCEPT ![seen[c][1]] = mergeEntityAliasLists(c)]
    <3>1. num[c] \in 1..ingests /\ seen[c][2] \subseteq 1..ingests
      BY <1>4 DEF UpdateEntityAliases, CallInv
    <3>2. /\ Ids' = Ids /\ entities' = [id \in Ids |-> entities'[id]]
          /\ \A id \in Ids : entities'[id] \subseteq 1..ingests
      BY <2>2, <3>1 DEF TableInv, mergeEntityAliasLists
    <3>3. UNCHANGED <<tables, rels>>
      BY <1>4 DEF UpdateEntityAliases
    <3> QED
      BY <1>1, <1>2, <2>2, <3>2, <3>3 DEF TableInv, Ordered
  <2> QED
    BY <1>4, <2>1, <2>2 DEF UpdateEntityAliases
<1>5. ASSUME NEW c \in Calls, CreateEntity(c) PROVE TableInv'
  <2>1. CASE UNCHANGED entities
    BY <1>5, <2>1, RowsStay DEF CreateEntity, TableInv
  <2>2. ASSUME NEW id, id = <<num[c], Head(todo[c]), Len(todo[c])>>, "entities" \in tables,
               entities' = Put(entities, id, {num[c]})
        PROVE  TableInv'
    <3>1. /\ cpc[c] = "create" /\ UNCHANGED <<tables, rels, num, ingests>>
          /\ todo' = [todo EXCEPT ![c] = Tail(@)]
      BY <1>5 DEF CreateEntity, NameDone
    <3>2. /\ id \in IdValues /\ id[1] = num[c] /\ id[3] = Len(todo[c]) /\ id[1] <= ingests
          /\ ~Issued(id) /\ Issued(id)'
      BY <2>2, <3>1, NewId
    <3>3. /\ Ids' = Ids \cup {id} /\ entities' = [i \in Ids \cup {id} |-> entities'[i]]
          /\ entities'[id] = {num[c]} /\ \A i \in Ids : entities'[i] = entities[i]
      BY <2>2, <3>2 DEF Put, TableInv
    <3>4. IsFiniteSet(Ids \cup {id})
      BY FS_AddElement DEF TableInv
    <3>5. \A i \in Ids : Before(i, id) \/ Before(id, i)
      BY <3>2 DEF TableInv, Issued, IdValues, Before, CallInv
    <3>6. num[c] \in 1..ingests
      BY <3>2 DEF IdValues
    <3>7. \A i \in Ids' : Issued(i)' /\ entities'[i] \subseteq 1..ingests'
      BY <1>1, <1>2, <3>1, <3>2, <3>3, <3>6 DEF TableInv
    <3>8. Ordered(Ids)'
      BY <3>3, <3>5 DEF TableInv, Ordered
    <3>9. rels' \subseteq [id : Nat \X (Names \X Names), from : Ids', to : Ids']
      BY <3>1, <3>3 DEF TableInv
    <3> QED
      BY <2>2, <3>1, <3>3, <3>4, <3>7, <3>8, <3>9 DEF TableInv
  <2> QED
    BY <1>5, <2>1, <2>2 DEF CreateEntity
<1>6. ASSUME NEW c \in Calls, CreateRelationship(c) PROVE TableInv'
  <2>1. UNCHANGED <<tables, entities>>
    BY <1>6 DEF CreateRelationship
  <2>2. rels' \subseteq [id : Nat \X (Names \X Names), from : Ids, to : Ids]
    BY <1>6 DEF CreateRelationship, Creatable, CallInv, TableInv
  <2> QED
    BY <1>1, <1>2, <2>1, <2>2 DEF TableInv, Ordered
<1>7. ASSUME NEW d \in Dedupers, RepointFrom(d) \/ RepointTo(d) PROVE TableInv'
  <2>1. UNCHANGED <<tables, entities>>
    BY <1>7 DEF RepointFrom, RepointTo
  <2>2. rels' \subseteq [id : Nat \X (Names \X Names), from : Ids, to : Ids]
    BY <1>7 DEF RepointFrom, RepointTo, TableInv
  <2> QED
    BY <1>1, <1>2, <2>1, <2>2 DEF TableInv, Ordered
<1>8. ASSUME NEW d \in Dedupers, DeleteEntity(d) PROVE TableInv'
  <2>1. /\ Ids' = Ids \ {Old(d)} /\ entities' = [id \in Ids \ {Old(d)} |-> entities[id]]
        /\ UNCHANGED <<tables, rels>> /\ "entities" \in tables
        /\ \A r \in rels : r.from # Old(d) /\ r.to # Old(d)
    BY <1>8 DEF DeleteEntity, Refers
  <2>2. IsFiniteSet(Ids')
    BY <2>1, FS_Subset DEF TableInv
  <2>3. rels' \subseteq [id : Nat \X (Names \X Names), from : Ids', to : Ids']
    BY <2>1 DEF TableInv
  <2> QED
    BY <1>1, <1>2, <2>1, <2>2, <2>3 DEF TableInv, Ordered
<1>9. CASE ResetStep
  <2>1. CASE DropRelationships
    BY <1>1, <1>2, <2>1 DEF DropRelationships, TableInv, Ordered
  <2>2. CASE DropEntities
    <3>1. Ids' = {} /\ entities' = <<>>
      BY <2>2 DEF DropEntities
    <3> QED
      BY <2>2, <3>1, FS_EmptySet DEF DropEntities, TableInv, Ordered
  <2>3. CASE ResetEnds \/ Open
    BY <2>3, RowsStay DEF ResetEnds, Open, TableInv
  <2> QED
    BY <1>9, <2>1, <2>2, <2>3 DEF ResetStep
<1>10. ASSUME NEW c \in Calls, BeginIngest(c) \/ Lookup(c) \/ LookupFails(c) \/ EndIngest(c)
       PROVE  TableInv'
  BY <1>3, <1>10 DEF BeginIngest, Lookup, LookupFails, EndIngest
<1>11. ASSUME NEW d \in Dedupers, FindDuplicates(d) \/ ListGroup(d) \/ DedupDone(d) \/ DedupFails(d)
       PROVE  TableInv'
  BY <1>3, <1>11 DEF FindDuplicates, ListGroup, DedupDone, DedupFails, DedupEnds
<1>12. CASE ReadStep \/ UNCHANGED graphVars
  BY <1>3, <1>12 DEF ReadStep, AskGraph, ReadEntities, ReadRelationships, AskPath,
    ReconstructPath, AskFails, graphVars
<1> QED
  BY <1>4, <1>5, <1>6, <1>7, <1>8, <1>9, <1>10, <1>11, <1>12 DEF GraphNext, EntityStep, DedupStep

-----------------------------------------------------------------------------
(* The deduplications.                                                     *)

LEMMA OldIsListed ==
  ASSUME DedupInv, NEW d \in Dedupers, olds[d] # {} PROVE Old(d) \in olds[d]
BY OldestIsFirst DEF DedupInv, Old

\* What the listing of a group finds.
LEMMA Listed ==
  ASSUME CallInv, TableInv, NEW f, ~(Cardinality(Group(f)) < 2)
  PROVE  /\ Oldest(Group(f)) \in Group(f) /\ RemoveIDs(Group(f)) = Group(f) \ {Oldest(Group(f))}
         /\ RemoveIDs(Group(f)) # {} /\ IsFiniteSet(RemoveIDs(Group(f)))
         /\ \A o \in RemoveIDs(Group(f)) : Before(Oldest(Group(f)), o)
<1>1. IsFiniteSet(Group(f)) /\ Group(f) \subseteq IdValues /\ Ordered(Group(f))
  BY FS_Subset DEF TableInv, Group, Issued, Ordered
<1>2. Group(f) # {} /\ \A i : Group(f) # {i}
  <2>1. Cardinality({}) < 2
    BY FS_EmptySet
  <2>2. \A i : Cardinality({i}) = 1
    BY FS_Singleton, Zenon
  <2>3. Group(f) # {}
    BY <2>1
  <2>4. ASSUME NEW i, Group(f) = {i} PROVE FALSE
    <3>1. Cardinality(Group(f)) = 1
      BY <2>2, <2>4
    <3> QED
      BY <3>1
  <2> QED
    BY <2>3, <2>4
<1>3. Oldest(Group(f)) \in Group(f) /\ \A i \in Group(f) \ {Oldest(Group(f))} : Before(Oldest(Group(f)), i)
  BY <1>1, <1>2, OldestIsFirst
<1>4. RemoveIDs(Group(f)) \in SUBSET Group(f)
  BY DEF RemoveIDs
<1>5. IsFiniteSet(RemoveIDs(Group(f)))
  BY <1>1, <1>4, FS_Subset
<1> QED
  BY <1>2, <1>3, <1>5 DEF RemoveIDs

LEMMA DedupInvStep == CallInv /\ TableInv /\ DedupInv /\ [GraphNext]_graphVars => DedupInv'
<1> SUFFICES ASSUME CallInv, TableInv, DedupInv, [GraphNext]_graphVars PROVE DedupInv'
  OBVIOUS
<1> USE NamesAssumption DEF dedupVars
<1>1. \A id : Issued(id) => Issued(id)'
  BY IssuedStays
<1>2. CASE UNCHANGED dedupVars
  BY <1>1, <1>2 DEF DedupInv, Ordered, Fold
<1>3. ASSUME NEW d \in Dedupers, FindDuplicates(d) PROVE DedupInv'
  <2>1. /\ doubled' \in [Dedupers -> SUBSET Range(Folded)] /\ UNCHANGED <<keep, olds>>
        /\ dpc' = [dpc EXCEPT ![d] = "group"] /\ dpc[d] = "idle"
    BY <1>3 DEF FindDuplicates, DedupInv
  <2> QED
    BY <1>1, <2>1 DEF DedupInv, Ordered, Fold
<1>4. ASSUME NEW d \in Dedupers, ListGroup(d) PROVE DedupInv'
  <2>1. PICK f \in doubled[d] :
           /\ doubled' = [doubled EXCEPT ![d] = @ \ {f}]
           /\ IF Cardinality(Group(f)) < 2 THEN UNCHANGED <<dpc, keep, olds>>
              ELSE /\ olds' = [olds EXCEPT ![d] = RemoveIDs(Group(f))]
                   /\ keep' = [keep EXCEPT ![d] = Oldest(Group(f))]
                   /\ dpc' = [dpc EXCEPT ![d] = "from"]
    BY <1>4 DEF ListGroup
  <2>2. doubled' \in [Dedupers -> SUBSET Range(Folded)]
    BY <2>1 DEF DedupInv
  <2>3. CASE Cardinality(Group(f)) < 2
    BY <1>1, <2>1, <2>2, <2>3 DEF DedupInv, Ordered, Fold
  <2>4. CASE ~(Cardinality(Group(f)) < 2)
    <3> DEFINE k == Oldest(Group(f))
               R == RemoveIDs(Group(f))
    <3>1. /\ k \in Group(f) /\ R = Group(f) \ {k} /\ R # {} /\ IsFiniteSet(R)
          /\ \A o \in R : Before(k, o)
      BY <2>4, Listed
    <3>2. \A i \in Group(f) : i \in IdValues /\ Issued(i)' /\ Fold(i) = f
      BY <1>1 DEF Group, TableInv, Issued
    <3>3. Ordered(R)
      BY <3>1 DEF Ordered, Group, TableInv
    <3>4. k # Nothing
      BY <3>1, <3>2 DEF IdValues
    <3> HIDE DEF k, R
    <3>5. /\ olds' = [olds EXCEPT ![d] = R] /\ keep' = [keep EXCEPT ![d] = k]
          /\ dpc' = [dpc EXCEPT ![d] = "from"]
      BY <2>1, <2>4 DEF k, R
    <3>6. ASSUME NEW e \in Dedupers
          PROVE /\ dpc'[e] \in {"from", "to", "delete"} <=> olds'[e] # {}
                /\ keep'[e] # Nothing <=> olds'[e] # {}
                /\ IsFiniteSet(olds'[e]) /\ Ordered(olds'[e])
                /\ \A o \in olds'[e] : /\ Issued(o)' /\ Issued(keep[e])'
                                       /\ Fold(o) = Fold(keep'[e]) /\ Before(keep'[e], o)
      BY <1>1, <3>1, <3>2, <3>3, <3>4, <3>5 DEF DedupInv
    <3>7. /\ olds' \in [Dedupers -> SUBSET IdValues] /\ keep' \in [Dedupers -> IdValues \cup {Nothing}]
          /\ dpc' \in [Dedupers -> {"idle", "group", "from", "to", "delete"}]
      BY <3>1, <3>2, <3>5 DEF DedupInv
    <3> QED
      BY <2>2, <3>6, <3>7 DEF DedupInv, Ordered, Fold
  <2> QED
    BY <2>3, <2>4
<1>5. ASSUME NEW d \in Dedupers, RepointFrom(d) \/ RepointTo(d) PROVE DedupInv'
  <2>1. /\ UNCHANGED <<doubled, keep, olds>> /\ dpc[d] \in {"from", "to"}
        /\ dpc' \in {[dpc EXCEPT ![d] = "to"], [dpc EXCEPT ![d] = "delete"]}
    BY <1>5 DEF RepointFrom, RepointTo
  <2> QED
    BY <1>1, <2>1 DEF DedupInv, Ordered, Fold
<1>6. ASSUME NEW d \in Dedupers, DeleteEntity(d) PROVE DedupInv'
  <2>1. /\ olds' = [olds EXCEPT ![d] = @ \ {Old(d)}] /\ UNCHANGED doubled
        /\ dpc' = [dpc EXCEPT ![d] = IF olds'[d] = {} THEN "group" ELSE "from"]
        /\ keep' = [keep EXCEPT ![d] = IF olds'[d] = {} THEN Nothing ELSE @]
        /\ dpc[d] = "delete"
    BY <1>6 DEF DeleteEntity
  <2>2. /\ olds'[d] \subseteq olds[d] /\ \A e \in Dedupers \ {d} : olds'[e] = olds[e]
        /\ \A e \in Dedupers : IsFiniteSet(olds'[e])
    BY <2>1, FS_RemoveElement DEF DedupInv
  <2>3. ASSUME NEW e \in Dedupers
        PROVE /\ dpc'[e] \in {"from", "to", "delete"} <=> olds'[e] # {}
              /\ keep'[e] # Nothing <=> olds'[e] # {}
              /\ IsFiniteSet(olds'[e]) /\ Ordered(olds'[e])
              /\ \A o \in olds'[e] : /\ Issued(o)' /\ Issued(keep[e])'
                                     /\ Fold(o) = Fold(keep'[e]) /\ Before(keep'[e], o)
    BY <1>1, <2>1, <2>2 DEF DedupInv, Ordered
  <2>4. /\ olds' \in [Dedupers -> SUBSET IdValues] /\ keep' \in [Dedupers -> IdValues \cup {Nothing}]
        /\ dpc' \in [Dedupers -> {"idle", "group", "from", "to", "delete"}]
    BY <2>1 DEF DedupInv
  <2> QED
    <3>1. doubled' \in [Dedupers -> SUBSET Range(Folded)]
      BY <2>1 DEF DedupInv
    <3> QED
      BY <2>3, <2>4, <3>1 DEF DedupInv, Ordered, Fold
<1>7. ASSUME NEW d \in Dedupers, DedupEnds(d) PROVE DedupInv'
  <2>1. \A e \in Dedupers \ {d} : /\ dpc'[e] = dpc[e] /\ keep'[e] = keep[e] /\ olds'[e] = olds[e]
    BY <1>7 DEF DedupEnds, DedupInv
  <2>2. dpc'[d] = "idle" /\ keep'[d] = Nothing /\ olds'[d] = {}
    BY <1>7 DEF DedupEnds, DedupInv
  <2> QED
    BY <1>1, <1>7, <2>1, <2>2, FS_EmptySet DEF DedupEnds, DedupInv, Ordered, Fold
<1>8. ASSUME NEW c \in Calls, EntityStep(c) PROVE DedupInv'
  BY <1>2, <1>8 DEF EntityStep, BeginIngest, Lookup, LookupFails, UpdateEntityAliases,
    CreateEntity, CreateRelationship, EndIngest
<1>9. CASE ResetStep \/ ReadStep \/ UNCHANGED graphVars
  BY <1>2, <1>9 DEF ResetStep, DropRelationships, DropEntities, ResetEnds, Open,
    ReadStep, AskGraph, ReadEntities, ReadRelationships, AskPath, ReconstructPath, AskFails, graphVars
<1> QED
  BY <1>3, <1>4, <1>5, <1>6, <1>7, <1>8, <1>9 DEF GraphNext, DedupStep, DedupDone, DedupFails

-----------------------------------------------------------------------------
(* What is removed has something to replace it.                            *)

LEMMA BeforeIsTransitive ==
  \A i, j, k \in IdValues : Before(i, j) /\ Before(j, k) => Before(i, k) /\ i # k
BY DEF Before, IdValues

LEMMA KeptStep == CallInv /\ TableInv /\ DedupInv /\ KeptInv /\ [GraphNext]_graphVars => KeptInv'
<1> SUFFICES ASSUME CallInv, TableInv, DedupInv, KeptInv, [GraphNext]_graphVars PROVE KeptInv'
  OBVIOUS
<1> USE DEF dedupVars, dbVars
<1>1. CASE UNCHANGED <<Ids, olds, keep>>
  BY <1>1 DEF KeptInv, Fold
<1>2. ASSUME NEW c \in Calls, EntityStep(c) PROVE KeptInv'
  <2>1. CASE UpdateEntityAliases(c)
    BY <1>1, <2>1 DEF UpdateEntityAliases, Ids
  <2>2. CASE CreateEntity(c)
    <3>1. CASE UNCHANGED entities
      BY <1>1, <2>2, <3>1 DEF CreateEntity, Ids
    <3>2. ASSUME NEW id, id = <<num[c], Head(todo[c]), Len(todo[c])>>,
                 entities' = Put(entities, id, {num[c]})
          PROVE  KeptInv'
      <4>1. ~Issued(id) /\ Ids' = Ids \cup {id} /\ UNCHANGED <<olds, keep>>
        BY <2>2, <3>2, NewId DEF CreateEntity, Put, Ids
      <4> QED
        BY <4>1 DEF KeptInv, DedupInv, Fold
    <3> QED
      BY <2>2, <3>1, <3>2 DEF CreateEntity
  <2>3. CASE BeginIngest(c) \/ Lookup(c) \/ LookupFails(c) \/ CreateRelationship(c) \/ EndIngest(c)
    BY <1>1, <2>3 DEF BeginIngest, Lookup, LookupFails, CreateRelationship, EndIngest, Ids
  <2> QED
    BY <1>2, <2>1, <2>2, <2>3 DEF EntityStep
<1>3. ASSUME NEW d \in Dedupers, ListGroup(d) PROVE KeptInv'
  <2>1. PICK f \in doubled[d] :
           IF Cardinality(Group(f)) < 2 THEN UNCHANGED <<dpc, keep, olds>>
           ELSE /\ olds' = [olds EXCEPT ![d] = RemoveIDs(Group(f))]
                /\ keep' = [keep EXCEPT ![d] = Oldest(Group(f))]
    BY <1>3 DEF ListGroup
  <2>2. Ids' = Ids
    BY <1>3 DEF ListGroup, Ids
  <2>3. CASE Cardinality(Group(f)) < 2
    BY <1>1, <2>1, <2>2, <2>3
  <2>4. CASE ~(Cardinality(Group(f)) < 2)
    <3>1. Oldest(Group(f)) \in Ids
      BY <2>4, Listed DEF Group
    <3> QED
      BY <2>1, <2>2, <2>4, <3>1 DEF KeptInv, DedupInv, Fold
  <2> QED
    BY <2>3, <2>4
<1>4. ASSUME NEW d \in Dedupers, DeleteEntity(d) PROVE KeptInv'
  <2> DEFINE gone == Old(d)
  <2>1. /\ Ids' = Ids \ {gone} /\ \A e \in Dedupers : olds'[e] \subseteq olds[e]
        /\ \A e \in Dedupers : olds'[e] # {} => keep'[e] = keep[e]
    BY <1>4 DEF DeleteEntity, DedupInv, Ids
  <2>2. gone \in olds[d]
    BY <1>4, OldIsListed DEF DeleteEntity, DedupInv
  <2> HIDE DEF gone
  <2> SUFFICES ASSUME NEW e \in Dedupers, NEW o \in olds'[e] \cap Ids'
               PROVE  \E k \in Ids' : Fold(k) = Fold(keep[e]) /\ (k = keep[e] \/ Before(k, keep[e]))
    BY <2>1 DEF KeptInv, Fold
  <2>3. PICK k \in Ids : Fold(k) = Fold(keep[e]) /\ (k = keep[e] \/ Before(k, keep[e]))
    BY <2>1 DEF KeptInv
  <2>4. CASE k # gone
    BY <2>1, <2>3, <2>4
  <2>5. CASE k = gone
    <3>1. PICK j \in Ids : Fold(j) = Fold(keep[d]) /\ (j = keep[d] \/ Before(j, keep[d]))
      BY <2>2, <2>5 DEF KeptInv
    <3>2. /\ {j, k, keep[d], keep[e]} \subseteq IdValues
          /\ Before(keep[d], k) /\ Fold(k) = Fold(keep[d])
      BY <2>1, <2>2, <2>5 DEF DedupInv, TableInv, Issued
    <3>3. Before(j, k) /\ j # k
      BY <3>1, <3>2, BeforeIsTransitive DEF Before, IdValues
    <3>4. Before(j, keep[e])
      BY <2>3, <3>2, <3>3, BeforeIsTransitive
    <3> QED
      BY <2>1, <2>3, <2>5, <3>1, <3>2, <3>3, <3>4
  <2> QED
    BY <2>4, <2>5
<1>5. ASSUME NEW d \in Dedupers, DedupEnds(d) PROVE KeptInv'
  <2>1. /\ Ids' = Ids /\ olds'[d] = {}
        /\ \A e \in Dedupers \ {d} : olds'[e] = olds[e] /\ keep'[e] = keep[e]
    BY <1>5 DEF DedupEnds, DedupInv, Ids
  <2> QED
    BY <2>1 DEF KeptInv, Fold
<1>6. ASSUME NEW d \in Dedupers, FindDuplicates(d) \/ RepointFrom(d) \/ RepointTo(d)
      PROVE  KeptInv'
  BY <1>1, <1>6 DEF FindDuplicates, RepointFrom, RepointTo, Ids
<1>7. CASE ResetStep
  <2>1. CASE DropEntities
    <3>1. Ids' = {}
      BY <2>1 DEF DropEntities, Ids
    <3> QED
      BY <3>1 DEF KeptInv
  <2> QED
    BY <1>1, <1>7, <2>1 DEF ResetStep, DropRelationships, ResetEnds, Open, Ids
<1>8. CASE ReadStep \/ UNCHANGED graphVars
  BY <1>1, <1>8 DEF ReadStep, AskGraph, ReadEntities, ReadRelationships, AskPath,
    ReconstructPath, AskFails, graphVars, Ids
<1> QED
  BY <1>2, <1>3, <1>4, <1>5, <1>6, <1>7, <1>8 DEF GraphNext, DedupStep, DedupDone, DedupFails

-----------------------------------------------------------------------------
(* Doubled names.                                                          *)

\* The parts of the invariant in the next state, from what a step of a call says.
LEMMA RacedByCalls ==
  ASSUME CallInv, RacedInv, NEW c \in Calls, cpc[c] # "idle", EntityStep(c), raced \subseteq raced',
         \A i, j \in Ids' : Fold(i) = Fold(j) /\ i # j => {i[1], j[1]} \in raced',
         \A b \in Calls : cpc'[b] = "create" =>
           \A id \in Ids' : Fold(id) = Folded[Head(todo'[b])] => {id[1], num'[b]} \in raced',
         UNCHANGED <<ingests, alone>>, \A b \in Calls : num'[b] \in {num[b], 0}
  PROVE  RacedInv'
<1>1. alone \cap Dedupers = {}
  BY DEF RacedInv, Running
<1>2. ASSUME NEW b \in Running', NEW n \in num'[b] + 1..ingests'
      PROVE  {n, num'[b]} \in raced'
  <2>1. num'[b] = num[b] /\ b \in Running
    BY DEF Running, CallInv, EntityStep, BeginIngest, Lookup, LookupFails,
      UpdateEntityAliases, CreateEntity, CreateRelationship, EndIngest
  <2> QED
    BY <2>1 DEF RacedInv
<1>3. OneEntityPerName'
  BY DEF OneEntityPerName, Fold
<1> QED
  BY <1>1, <1>2, <1>3 DEF RacedInv, Fold

LEMMA PairHasTwo == \A i, j : i # j => Cardinality({i, j}) = 2
<1> SUFFICES ASSUME NEW i, NEW j, i # j PROVE Cardinality({i, j}) = 2
  OBVIOUS
<1>1. IsFiniteSet({i}) /\ Cardinality({i}) = 1 /\ j \notin {i} /\ {i, j} = {i} \cup {j}
  BY FS_Singleton
<1>2. Cardinality({i} \cup {j}) = Cardinality({i}) + 1
  BY <1>1, FS_AddElement
<1> QED
  BY <1>1, <1>2

LEMMA RacedStep ==
  CallInv /\ TableInv /\ DedupInv /\ RacedInv /\ [GraphNext]_graphVars => RacedInv'
<1> SUFFICES ASSUME CallInv, TableInv, DedupInv, RacedInv, [GraphNext]_graphVars PROVE RacedInv'
  OBVIOUS
<1>1. ASSUME NEW c \in Calls, BeginIngest(c) PROVE RacedInv'
  <2>1. /\ ingests' = ingests + 1 /\ num' = [num EXCEPT ![c] = ingests + 1] /\ cpc[c] = "idle"
        /\ cpc' = [cpc EXCEPT ![c] = "lookup"] /\ UNCHANGED entities
        /\ raced' = raced \cup {{ingests + 1, num[b]} : b \in Running} /\ alone' = {}
        /\ \A b \in Calls \ {c} : todo'[b] = todo[b]
    BY <1>1 DEF BeginIngest, dbVars, CallInv
  <2>2. ASSUME NEW b \in Running', NEW n \in num'[b] + 1..ingests'
        PROVE  {n, num'[b]} \in raced'
    <3>1. b # c /\ b \in Running /\ num'[b] = num[b]
      BY <2>1 DEF Running, CallInv
    <3>2. n = ingests + 1 \/ n \in num[b] + 1..ingests
      BY <2>1, <3>1 DEF CallInv
    <3> QED
      BY <2>1, <3>1, <3>2 DEF RacedInv
  <2>3. OneEntityPerName'
    BY <2>1 DEF RacedInv, OneEntityPerName, Fold, Ids
  <2>4. ASSUME NEW b \in Calls, cpc'[b] = "create", NEW id \in Ids', Fold(id) = Folded[Head(todo'[b])]
        PROVE  {id[1], num'[b]} \in raced'
    BY <2>1, <2>4 DEF RacedInv, CallInv, Ids
  <2> QED
    BY <2>1, <2>2, <2>3, <2>4 DEF RacedInv, Fold
<1>2. ASSUME NEW c \in Calls, Lookup(c) PROVE RacedInv'
  <2>1. /\ cpc[c] = "lookup" /\ UNCHANGED <<entities, num, ingests, raced, alone>>
        /\ \A b \in Calls \ {c} : cpc'[b] = cpc[b] /\ todo'[b] = todo[b]
    BY <1>2 DEF Lookup, NameDone, dbVars, CallInv
  <2>2. cpc'[c] = "create" => todo'[c] = todo[c] /\ GetEntityByName(Head(todo[c])) = {}
    BY <1>2 DEF Lookup, CallInv
  <2>3. ASSUME NEW b \in Calls, cpc'[b] = "create", NEW id \in Ids', Fold(id) = Folded[Head(todo'[b])]
        PROVE  {id[1], num'[b]} \in raced'
    BY <2>1, <2>2, <2>3 DEF RacedInv, GetEntityByName, Ids
  <2> QED
    BY <1>2, <2>1, <2>3, RacedByCalls DEF EntityStep, RacedInv, OneEntityPerName, Ids
<1>3. ASSUME NEW c \in Calls, LookupFails(c) PROVE RacedInv'
  <2>1. /\ cpc[c] = "lookup" /\ UNCHANGED <<entities, num, todo, ingests, alone>>
        /\ raced' = raced \cup {{num[c], n} : n \in 1..num[c]}
        /\ \A b \in Calls \ {c} : cpc'[b] = cpc[b]
    BY <1>3 DEF LookupFails, dbVars, CallInv
  <2>2. ASSUME NEW b \in Calls, cpc'[b] = "create", NEW id \in Ids', Fold(id) = Folded[Head(todo'[b])]
        PROVE  {id[1], num'[b]} \in raced'
    <3>1. CASE b # c
      BY <2>1, <2>2, <3>1 DEF RacedInv, Ids
    <3>2. CASE b = c
      <4>1. id[1] \in 1..ingests /\ num[c] \in 1..ingests /\ c \in Running
        BY <2>1 DEF TableInv, Issued, IdValues, CallInv, Running, Ids
      <4>2. id[1] \in 1..num[c] \/ id[1] \in num[c] + 1..ingests
        BY <4>1
      <4> QED
        BY <2>1, <3>2, <4>1, <4>2 DEF RacedInv
    <3> QED
      BY <3>1, <3>2
  <2> QED
    BY <1>3, <2>1, <2>2, RacedByCalls DEF EntityStep, RacedInv, OneEntityPerName, Ids
<1>4. ASSUME NEW c \in Calls, UpdateEntityAliases(c) \/ CreateRelationship(c) PROVE RacedInv'
  <2>1. /\ cpc[c] \in {"alias", "lookup"} /\ Ids' = Ids /\ UNCHANGED <<num, todo, ingests, raced, alone>>
        /\ cpc'[c] = "lookup" /\ \A b \in Calls \ {c} : cpc'[b] = cpc[b]
    BY <1>4 DEF UpdateEntityAliases, CreateRelationship, Ids, CallInv
  <2> QED
    BY <1>4, <2>1, RacedByCalls DEF EntityStep, RacedInv, OneEntityPerName
<1>5. ASSUME NEW c \in Calls, CreateEntity(c) PROVE RacedInv'
  <2>1. /\ cpc[c] = "create" /\ UNCHANGED <<num, ingests, raced, alone>>
        /\ cpc'[c] = "lookup" /\ \A b \in Calls \ {c} : cpc'[b] = cpc[b] /\ todo'[b] = todo[b]
    BY <1>5 DEF CreateEntity, NameDone, CallInv
  <2>2. CASE UNCHANGED entities
    BY <1>5, <2>1, <2>2, RacedByCalls DEF EntityStep, RacedInv, OneEntityPerName, Ids
  <2>3. ASSUME NEW id, id = <<num[c], Head(todo[c]), Len(todo[c])>>,
               entities' = Put(entities, id, {num[c]})
        PROVE  RacedInv'
    <3>1. Ids' = Ids \cup {id} /\ id[1] = num[c] /\ Fold(id) = Folded[Head(todo[c])]
      BY <2>1, <2>3, NewId DEF Put, Ids, Fold
    <3>2. ASSUME NEW i \in Ids, Fold(i) = Fold(id)
          PROVE  {i[1], id[1]} \in raced
      BY <2>1, <3>1, <3>2 DEF RacedInv
    <3>3. ASSUME NEW i, NEW j, i \in Ids', j \in Ids', Fold(i) = Fold(j), i # j
          PROVE  {i[1], j[1]} \in raced
      <4>1. CASE i \in Ids /\ j \in Ids
        BY <3>3, <4>1 DEF RacedInv, OneEntityPerName
      <4>2. CASE i = id
        BY <3>1, <3>2, <3>3, <4>2
      <4>3. CASE j = id
        BY <3>1, <3>2, <3>3, <4>3
      <4> QED
        BY <3>1, <3>3, <4>1, <4>2, <4>3
    <3>4. ASSUME NEW b \in Calls, cpc'[b] = "create", NEW i \in Ids', Fold(i) = Folded[Head(todo'[b])]
          PROVE  {i[1], num'[b]} \in raced'
      <4>1. b # c /\ cpc[b] = "create" /\ todo'[b] = todo[b]
        BY <2>1, <3>4
      <4>2. CASE i \in Ids
        BY <2>1, <3>4, <4>1, <4>2 DEF RacedInv
      <4>3. CASE i = id
        <5>1. /\ b \in Running /\ c \in Running /\ num[b] # num[c]
              /\ num[b] \in 1..ingests /\ num[c] \in 1..ingests
          BY <2>1, <4>1 DEF CallInv, Running
        <5>2. num[b] \in num[c] + 1..ingests \/ num[c] \in num[b] + 1..ingests
          BY <5>1
        <5>3. {num[b], num[c]} \in raced
          BY <5>1, <5>2 DEF RacedInv
        <5> QED
          BY <2>1, <3>1, <4>3, <5>3
      <4> QED
        BY <3>1, <4>2, <4>3
    <3> QED
      BY <1>5, <2>1, <3>3, <3>4, RacedByCalls DEF EntityStep
  <2> QED
    BY <1>5, <2>2, <2>3 DEF CreateEntity
<1>6. ASSUME NEW c \in Calls, EndIngest(c) PROVE RacedInv'
  <2>1. /\ cpc[c] = "lookup" /\ UNCHANGED <<entities, todo, ingests, raced, alone>>
        /\ cpc'[c] = "idle" /\ \A b \in Calls \ {c} : cpc'[b] = cpc[b] /\ num'[b] = num[b]
        /\ num'[c] = 0
    BY <1>6 DEF EndIngest, dbVars, CallInv
  <2> QED
    BY <1>6, <2>1, RacedByCalls DEF EntityStep, RacedInv, OneEntityPerName, Ids
<1>7. ASSUME UNCHANGED ingestVars, UNCHANGED raced, Ids' \subseteq Ids,
             \A d \in alone' \cap Dedupers :
               /\ Running = {} /\ rpc' = "idle"
               /\ dpc'[d] # "idle" /\ \A e \in Dedupers \ {d} : dpc'[e] = "idle"
               /\ \A i, j \in Ids' : i # j /\ Fold(i) = Fold(j) =>
                    Fold(i) \in doubled'[d] \/ {i, j} \subseteq olds'[d] \cup {keep'[d]}
      PROVE  RacedInv'
  <2>1. Running' = Running /\ UNCHANGED <<cpc, num, todo, ingests>>
    BY <1>7 DEF ingestVars, Running
  <2> QED
    BY <1>7, <2>1 DEF RacedInv, OneEntityPerName, Fold
<1>8. ASSUME NEW d \in Dedupers, FindDuplicates(d) PROVE RacedInv'
  <2>1. /\ UNCHANGED <<ingestVars, raced, entities, rpc>>
        /\ doubled' = [doubled EXCEPT ![d] = {f \in Range(Folded) : Cardinality(Group(f)) > 1}]
        /\ dpc' = [dpc EXCEPT ![d] = "group"]
        /\ alone' = IF Running = {} /\ rpc = "idle" /\ \A e \in Dedupers : dpc[e] = "idle"
                    THEN {d} ELSE {}
    BY <1>8 DEF FindDuplicates, dbVars
  <2>2. ASSUME NEW i \in Ids, NEW j \in Ids, i # j, Fold(i) = Fold(j)
        PROVE  Fold(i) \in doubled'[d]
    <3>1. Fold(i) \in Range(Folded)
      BY NamesAssumption DEF TableInv, Issued, IdValues, Fold, Range
    <3>2. IsFiniteSet(Group(Fold(i))) /\ {i, j} \in SUBSET Group(Fold(i))
      BY <2>2, FS_Subset DEF TableInv, Group
    <3>3. Cardinality({i, j}) = 2
      BY <2>2, PairHasTwo
    <3>4. Cardinality(Group(Fold(i))) >= 2
      BY <3>2, <3>3, FS_Subset, FS_CardinalityType
    <3> QED
      BY <2>1, <3>1, <3>2, <3>4, FS_CardinalityType DEF DedupInv
  <2>3. dpc'[d] = "group" /\ \A e \in Dedupers \ {d} : dpc'[e] = dpc[e]
    BY <2>1 DEF DedupInv
  <2> QED
    BY <1>7, <2>1, <2>2, <2>3 DEF Ids
<1>9. ASSUME NEW d \in Dedupers, ListGroup(d) PROVE RacedInv'
  <2>1. PICK f \in doubled[d] :
           /\ doubled' = [doubled EXCEPT ![d] = @ \ {f}]
           /\ IF Cardinality(Group(f)) < 2 THEN UNCHANGED <<dpc, keep, olds>>
              ELSE /\ olds' = [olds EXCEPT ![d] = RemoveIDs(Group(f))]
                   /\ keep' = [keep EXCEPT ![d] = Oldest(Group(f))]
                   /\ dpc' = [dpc EXCEPT ![d] = "from"]
    BY <1>9 DEF ListGroup
  <2>2. UNCHANGED <<entities, ingestVars, raced, alone, rpc>> /\ dpc[d] = "group"
    BY <1>9 DEF ListGroup, dbVars
  <2> SUFFICES ASSUME NEW e \in alone \cap Dedupers
               PROVE /\ Running = {} /\ rpc = "idle"
                     /\ dpc'[e] # "idle" /\ \A b \in Dedupers \ {e} : dpc'[b] = "idle"
                     /\ \A i, j \in Ids : i # j /\ Fold(i) = Fold(j) =>
                          Fold(i) \in doubled'[e] \/ {i, j} \subseteq olds'[e] \cup {keep'[e]}
    BY <1>7, <2>2 DEF Ids
  <2>3. e = d /\ Running = {} /\ rpc = "idle"
    BY <2>2 DEF RacedInv
  <2>4. dpc'[d] \in {"group", "from"} /\ \A b \in Dedupers \ {d} : dpc'[b] = dpc[b]
    BY <2>1, <2>2 DEF DedupInv
  <2>5. ASSUME NEW i \in Ids, NEW j \in Ids, i # j, Fold(i) = Fold(j)
        PROVE  Fold(i) \in doubled'[d] \/ {i, j} \subseteq olds'[d] \cup {keep'[d]}
    <3>1. olds[d] = {} /\ keep[d] = Nothing
      BY <2>2 DEF DedupInv
    <3>2. Fold(i) \in doubled[d]
      BY <2>3, <2>5, <3>1 DEF RacedInv
    <3>3. CASE Fold(i) # f
      BY <2>1, <3>2, <3>3 DEF DedupInv
    <3>4. CASE Fold(i) = f
      <4>1. IsFiniteSet(Group(f)) /\ {i, j} \in SUBSET Group(f)
        BY <2>5, <3>4, FS_Subset DEF TableInv, Group
      <4>2. Cardinality({i, j}) = 2
        BY <2>5, PairHasTwo
      <4>3. ~(Cardinality(Group(f)) < 2)
        BY <4>1, <4>2, FS_Subset, FS_CardinalityType
      <4>4. Group(f) = RemoveIDs(Group(f)) \cup {Oldest(Group(f))}
        BY <4>3, Listed
      <4>5. olds'[d] = RemoveIDs(Group(f)) /\ keep'[d] = Oldest(Group(f))
        BY <2>1, <4>3 DEF DedupInv
      <4> QED
        BY <4>1, <4>4, <4>5
    <3> QED
      BY <3>3, <3>4
  <2> QED
    BY <2>3, <2>4, <2>5 DEF RacedInv
<1>10. ASSUME NEW d \in Dedupers, RepointFrom(d) \/ RepointTo(d) PROVE RacedInv'
  <2>1. /\ UNCHANGED <<entities, ingestVars, raced, alone, rpc, doubled, keep, olds>>
        /\ dpc[d] # "idle" /\ dpc'[d] # "idle" /\ \A e \in Dedupers \ {d} : dpc'[e] = dpc[e]
    BY <1>10 DEF RepointFrom, RepointTo, DedupInv
  <2> QED
    BY <1>7, <2>1 DEF Ids, RacedInv
<1>11. ASSUME NEW d \in Dedupers, DeleteEntity(d) PROVE RacedInv'
  <2> DEFINE gone == Old(d)
  <2>1. /\ UNCHANGED <<ingestVars, raced, alone, rpc, doubled>> /\ Ids' = Ids \ {gone}
        /\ dpc[d] = "delete" /\ dpc'[d] # "idle" /\ \A e \in Dedupers \ {d} : dpc'[e] = dpc[e]
        /\ olds'[d] = olds[d] \ {gone}
        /\ keep'[d] = IF olds'[d] = {} THEN Nothing ELSE keep[d]
    BY <1>11 DEF DeleteEntity, DedupInv, Ids
  <2> HIDE DEF gone
  <2>2. ASSUME NEW e \in alone \cap Dedupers
        PROVE  e = d /\ Running = {} /\ rpc = "idle" /\ \A b \in Dedupers \ {e} : dpc[b] = "idle"
    BY <2>1 DEF RacedInv
  <2>3. ASSUME d \in alone, NEW i \in Ids', NEW j \in Ids', i # j, Fold(i) = Fold(j)
        PROVE  Fold(i) \in doubled'[d] \/ {i, j} \subseteq olds'[d] \cup {keep'[d]}
    BY <2>1, <2>3 DEF RacedInv
  <2> QED
    BY <1>7, <2>1, <2>2, <2>3
<1>12. ASSUME NEW d \in Dedupers, DedupDone(d) PROVE RacedInv'
  <2>1. /\ UNCHANGED <<entities, ingestVars, rpc>> /\ alone' = {}
        /\ dpc[d] = "group" /\ doubled[d] = {} /\ raced' = IF d \in alone THEN {} ELSE raced
    BY <1>12 DEF DedupDone, DedupEnds, dbVars
  <2>2. CASE d \notin alone
    BY <1>7, <2>1, <2>2 DEF Ids
  <2>3. CASE d \in alone
    <3>1. Running = {} /\ UNCHANGED Running /\ Ids' = Ids
      BY <2>1, <2>3 DEF RacedInv, Running, ingestVars, Ids
    <3>2. olds[d] = {} /\ keep[d] = Nothing
      BY <2>1 DEF DedupInv
    <3>3. \A i, j \in Ids : Fold(i) = Fold(j) => i = j
      BY <2>1, <2>3, <3>2 DEF RacedInv
    <3> QED
      BY <2>1, <3>1, <3>3 DEF RacedInv, OneEntityPerName, Fold, Running
  <2> QED
    BY <2>2, <2>3
<1>13. ASSUME NEW d \in Dedupers, DedupFails(d) PROVE RacedInv'
  <2>1. UNCHANGED <<entities, ingestVars, raced>> /\ alone' = {}
    BY <1>13 DEF DedupFails, DedupEnds, dbVars
  <2> QED
    BY <1>7, <2>1 DEF Ids
<1>14. CASE ResetStep
  <2>1. /\ UNCHANGED <<ingestVars, raced, dedupVars>> /\ Ids' \subseteq Ids
        /\ alone' = {} \/ (alone' = alone /\ rpc # "idle") \/ (alone' = alone /\ rpc' = rpc)
    BY <1>14 DEF ResetStep, DropRelationships, DropEntities, ResetEnds, Open, dbVars, Ids
  <2>2. ASSUME NEW d \in alone' \cap Dedupers PROVE d \in alone /\ rpc' = rpc
    BY <2>1 DEF RacedInv
  <2> QED
    BY <1>7, <2>1, <2>2 DEF dedupVars, RacedInv
<1>15. CASE ReadStep \/ UNCHANGED graphVars
  <2>1. UNCHANGED <<ingestVars, raced, dedupVars, entities, alone, rpc>>
    BY <1>15 DEF ReadStep, AskGraph, ReadEntities, ReadRelationships, AskPath,
      ReconstructPath, AskFails, graphVars, dbVars
  <2> QED
    BY <1>7, <2>1 DEF dedupVars, RacedInv, Ids
<1> QED
  BY <1>1, <1>2, <1>3, <1>4, <1>5, <1>6, <1>8, <1>9, <1>10, <1>11, <1>12, <1>13, <1>14, <1>15
  DEF GraphNext, EntityStep, DedupStep

-----------------------------------------------------------------------------
(* Repeated steps.                                                         *)

\* A set of numbers has a least one.
LEMMA LeastNumber ==
  ASSUME NEW T \in SUBSET Nat, T # {}
  PROVE  \E n \in T : \A m \in T : n <= m
<1>1. PICK n \in T : \A m \in T : ~ (<<m, n>> \in OpToRel(<, Nat))
  BY WFMin, NatLessThanWellFounded
<1>2. ASSUME NEW m \in T, m < n PROVE FALSE
  BY <1>1, <1>2 DEF OpToRel
<1> QED
  BY <1>2

\* The values of V from v on, step by step.
CanRepeat(V, v, step, d) ==
  \E f \in [0..d -> V] : f[0] = v /\ \A n \in 1..d : f[n] = step[f[n - 1]]

\* A step can be repeated any number of times.
LEMMA Repeated ==
  ASSUME NEW V, NEW v \in V, NEW step \in [V -> V], NEW m \in Nat
  PROVE  CanRepeat(V, v, step, m)
<1> DEFINE Can(d) == CanRepeat(V, v, step, d)
           T == {d \in Nat : ~Can(d)}
<1>1. Can(0)
  <2> DEFINE f == [n \in 0..0 |-> v]
  <2>1. f \in [0..0 -> V] /\ f[0] = v
    OBVIOUS
  <2>2. \A n \in 1..0 : f[n] = step[f[n - 1]]
    OBVIOUS
  <2> HIDE DEF f
  <2> QED
    BY <2>1, <2>2 DEF CanRepeat
<1>2. ASSUME NEW d \in Nat, Can(d) PROVE Can(d + 1)
  <2>1. PICK f \in [0..d -> V] : f[0] = v /\ \A n \in 1..d : f[n] = step[f[n - 1]]
    BY <1>2 DEF CanRepeat
  <2> DEFINE g == [n \in 0..(d + 1) |-> IF n <= d THEN f[n] ELSE step[f[d]]]
  <2>2. step[f[d]] \in V /\ \A n \in 0..d : f[n] \in V
    BY <2>1
  <2>3. g[0] = v
    BY <2>1
  <2>4. g \in [0..(d + 1) -> V]
    BY <2>2
  <2>5. ASSUME NEW n \in 1..(d + 1) PROVE g[n] = step[g[n - 1]]
    BY <2>1
  <2> HIDE DEF g
  <2> QED
    BY <2>3, <2>4, <2>5 DEF CanRepeat
<1> HIDE DEF Can
<1> SUFFICES ASSUME T # {} PROVE FALSE
  BY DEF Can
<1>3. PICK d \in T : \A n \in T : d <= n
  BY LeastNumber
<1>4. d # 0 /\ d - 1 \in Nat /\ d - 1 \notin T
  BY <1>1, <1>3
<1>5. Can((d - 1) + 1)
  BY <1>2, <1>4
<1> QED
  BY <1>4, <1>5

-----------------------------------------------------------------------------
(* The traversal of WITH RECURSIVE reachable.                              *)

\* The entities that relationships refer to.
Ends == {r.from : r \in rels} \cup {r.to : r \in rels}
\* One step further than ids.
Beyond(ids) == ids \cup UNION {Neighbours(id) : id \in ids}

\* The table that the recursive query fills.
Filled(f, center, d) ==
  f = [n \in 0..d |-> IF n = 0 THEN {center}
                      ELSE f[n - 1] \cup UNION {Neighbours(id) : id \in f[n - 1]}]

\* There is such a table: what it holds are the center and ends of relationships.
LEMMA Fills ==
  ASSUME NEW center, NEW d \in Nat
  PROVE  \E f : Filled(f, center, d)
<1> DEFINE V == SUBSET ({center} \cup Ends)
           step == [ids \in V |-> Beyond(ids)]
           v == {center}
<1>1. step \in [V -> V] /\ v \in V
  BY DEF Beyond, Neighbours, Ends
<1>2. \A ids \in V : step[ids] = Beyond(ids)
  OBVIOUS
<1> HIDE DEF V, step, v
<1>b. CanRepeat(V, v, step, d)
  BY <1>1, Repeated
<1>3. PICK f \in [0..d -> V] : f[0] = v /\ \A n \in 1..d : f[n] = step[f[n - 1]]
  BY <1>b DEF CanRepeat
<1>4. \A n \in 1..d : f[n] = Beyond(f[n - 1])
  BY <1>2, <1>3
<1>5. f = [n \in 0..d |-> f[n]]
  BY <1>3
<1>6. \A n \in 0..d : f[n] = IF n = 0 THEN {center}
        ELSE f[n - 1] \cup UNION {Neighbours(id) : id \in f[n - 1]}
  BY <1>3, <1>4 DEF Beyond, v
<1> QED
  BY <1>5, <1>6, Zenon DEF Filled

\* Reachable reads its last line.
LEMMA ReachableFills ==
  ASSUME NEW center, NEW d \in Nat
  PROVE  \E f : Filled(f, center, d) /\ Reachable(center, d) = f[d]
<1> DEFINE f == CHOOSE g : Filled(g, center, d)
<1>1. Filled(f, center, d)
  BY Fills
<1>2. Reachable(center, d) = f[d]
  BY DEF Reachable, Filled
<1> QED
  BY <1>1, <1>2

\* Line by line.
LEMMA FilledSteps ==
  ASSUME NEW center, NEW d \in Nat, NEW f, Filled(f, center, d)
  PROVE  f[0] = {center} /\ \A n \in 1..d : f[n] = Beyond(f[n - 1])
BY DEF Filled, Beyond

\* The depth only says where it ends.
LEMMA FilledAgree ==
  ASSUME NEW center, NEW d \in Nat, NEW e \in Nat, NEW f, NEW g,
         Filled(f, center, d), Filled(g, center, e), d <= e
  PROVE  f[d] = g[d]
<1> DEFINE T == {n \in 0..d : f[n] # g[n]}
<1>1. /\ f[0] = {center} /\ \A n \in 1..d : f[n] = Beyond(f[n - 1])
      /\ g[0] = {center} /\ \A n \in 1..e : g[n] = Beyond(g[n - 1])
  BY FilledSteps
<1> SUFFICES ASSUME T # {} PROVE FALSE
  OBVIOUS
<1>a. T \in SUBSET Nat
  OBVIOUS
<1>b. \E n \in T : \A k \in T : n <= k
  <2> HIDE DEF T
  <2> QED
    BY <1>a, LeastNumber
<1>2. PICK n \in T : \A k \in T : n <= k
  BY <1>b
<1>3. n # 0
  BY <1>1
<1>4. n - 1 \in 0..d /\ n - 1 \notin T
  BY <1>2, <1>3
<1>5. f[n] = Beyond(f[n - 1]) /\ g[n] = Beyond(g[n - 1]) /\ f[n - 1] = g[n - 1]
  BY <1>1, <1>3, <1>4
<1> QED
  BY <1>5

\* The traversal, one step deeper.
LEMMA ReachableGrows ==
  ASSUME NEW center
  PROVE  /\ Reachable(center, 0) = {center}
         /\ \A d \in Nat : Reachable(center, d + 1) = Beyond(Reachable(center, d))
<1>1. Reachable(center, 0) = {center}
  <2>1. PICK f : Filled(f, center, 0) /\ Reachable(center, 0) = f[0]
    BY ReachableFills
  <2> QED
    BY <2>1, FilledSteps
<1>2. ASSUME NEW d \in Nat PROVE Reachable(center, d + 1) = Beyond(Reachable(center, d))
  <2>1. PICK f : Filled(f, center, d) /\ Reachable(center, d) = f[d]
    BY ReachableFills
  <2>2. PICK g : Filled(g, center, d + 1) /\ Reachable(center, d + 1) = g[d + 1]
    BY ReachableFills
  <2>3. f[d] = g[d]
    BY <2>1, <2>2, FilledAgree
  <2>b. d + 1 \in Nat /\ Filled(g, center, d + 1)
    BY <2>2
  <2>4. g[d + 1] = Beyond(g[d])
    BY <2>b DEF Filled, Beyond
  <2> QED
    BY <2>1, <2>2, <2>3, <2>4
<1> QED
  BY <1>1, <1>2

\* A deeper traversal reaches no less.
LEMMA ReachableMonotone ==
  ASSUME NEW center, NEW m \in Nat, NEW n \in Nat, m <= n
  PROVE  Reachable(center, m) \subseteq Reachable(center, n)
<1> DEFINE T == {k \in Nat : m <= k /\ ~(Reachable(center, m) \subseteq Reachable(center, k))}
<1> SUFFICES ASSUME T # {} PROVE FALSE
  OBVIOUS
<1>1. PICK k \in T : \A j \in T : k <= j
  BY LeastNumber
<1>2. k - 1 \in Nat /\ m <= k - 1
  BY <1>1
<1>3. Reachable(center, m) \subseteq Reachable(center, k - 1)
  BY <1>1, <1>2
<1>4. Reachable(center, (k - 1) + 1) = Beyond(Reachable(center, k - 1))
  BY <1>2, ReachableGrows
<1> QED
  BY <1>1, <1>3, <1>4 DEF Beyond

\* From a stored entity it reaches stored entities only.
LEMMA ReachableStored ==
  ASSUME Ends \subseteq Ids, NEW center \in Ids, NEW d \in Nat
  PROVE  Reachable(center, d) \subseteq Ids
<1> DEFINE T == {k \in Nat : ~(Reachable(center, k) \subseteq Ids)}
<1> SUFFICES ASSUME T # {} PROVE FALSE
  OBVIOUS
<1>1. PICK k \in T : \A j \in T : k <= j
  BY LeastNumber
<1>2. k # 0
  BY ReachableGrows
<1>3. k - 1 \in Nat /\ Reachable(center, k - 1) \subseteq Ids
  BY <1>1, <1>2
<1>4. Reachable(center, (k - 1) + 1) = Beyond(Reachable(center, k - 1))
  BY <1>3, ReachableGrows
<1>5. Beyond(Reachable(center, k - 1)) \subseteq Reachable(center, k - 1) \cup Ends
  BY DEF Beyond, Neighbours, Ends
<1> QED
  BY <1>1, <1>3, <1>4, <1>5

\* No part of what is reachable is cut off from the rest.
LEMMA ReachableConnected ==
  ASSUME NEW center, NEW d \in Nat, NEW S \in SUBSET Reachable(center, d),
         center \in S, S # Reachable(center, d)
  PROVE  \E r \in RelationshipsWithin(Reachable(center, d)) :
         \E k \in S, id \in Reachable(center, d) \ S : Refers(r, k) /\ Refers(r, id)
<1> DEFINE T == {n \in 0..d : ~(Reachable(center, n) \subseteq S)}
<1>1. T # {}
  OBVIOUS
<1>a. T \in SUBSET Nat
  OBVIOUS
<1>b. \E n \in T : \A k \in T : n <= k
  <2> HIDE DEF T
  <2> QED
    BY <1>1, <1>a, LeastNumber
<1>2. PICK n \in T : \A j \in T : n <= j
  BY <1>b
<1>3. n # 0
  BY ReachableGrows
<1>4. n - 1 \in Nat /\ Reachable(center, n - 1) \subseteq S
  BY <1>2, <1>3
<1>5. Reachable(center, (n - 1) + 1) = Beyond(Reachable(center, n - 1))
  BY <1>4, ReachableGrows
<1>6. PICK id \in Reachable(center, n) : id \notin S
  OBVIOUS
<1>7. PICK k \in Reachable(center, n - 1) : id \in Neighbours(k)
  BY <1>4, <1>5, <1>6 DEF Beyond
<1>8. PICK r \in rels : {r.from, r.to} = {k, id}
  BY <1>7 DEF Neighbours
<1>9. id \in Reachable(center, d) /\ k \in S
  BY <1>4, ReachableMonotone
<1> QED
  BY <1>6, <1>8, <1>9 DEF RelationshipsWithin, Refers
-----------------------------------------------------------------------------
(* The paths that the recursive query of FindPath builds.                  *)

\* Every path, one entity longer.
Extended(ps) == UNION {{Append(p, id) : id \in Neighbours(Last(p)) \ Range(p)} : p \in ps}

\* The table of paths, by their lengths.
FilledPaths(f, from, d) ==
  f = [n \in 0..d |-> IF n = 0 THEN {<<from>>}
                      ELSE UNION {{Append(p, id) : id \in Neighbours(Last(p)) \ Range(p)} :
                                    p \in f[n - 1]}]

\* There is such a table, and Paths reads all of it.
LEMMA PathsFill ==
  ASSUME NEW from, NEW d \in Nat
  PROVE  \E f : FilledPaths(f, from, d) /\ Paths(from, d) = UNION {f[n] : n \in 0..d}
<1> DEFINE V == SUBSET Seq({from} \cup Ends)
           step == [ps \in V |-> Extended(ps)]
           v == {<<from>>}
<1>1. step \in [V -> V]
  <2> SUFFICES ASSUME NEW ps \in V PROVE Extended(ps) \in V
    OBVIOUS
  <2> SUFFICES ASSUME NEW p \in ps, NEW id \in Neighbours(Last(p))
               PROVE  Append(p, id) \in Seq({from} \cup Ends)
    BY DEF Extended
  <2>1. id \in Ends /\ p \in Seq({from} \cup Ends)
    BY DEF Neighbours, Ends
  <2> QED
    BY <2>1
<1>2. v \in V
  OBVIOUS
<1>3. \A ps \in V : step[ps] = Extended(ps)
  OBVIOUS
<1> HIDE DEF V, step, v
<1>4. CanRepeat(V, v, step, d)
  BY <1>1, <1>2, Repeated
<1>5. PICK f \in [0..d -> V] : f[0] = v /\ \A n \in 1..d : f[n] = step[f[n - 1]]
  BY <1>4 DEF CanRepeat
<1>6. \A n \in 1..d : f[n] = Extended(f[n - 1])
  BY <1>3, <1>5
<1>7. f = [n \in 0..d |-> f[n]]
  BY <1>5
<1>8. \A n \in 0..d : f[n] = IF n = 0 THEN {<<from>>}
        ELSE UNION {{Append(p, id) : id \in Neighbours(Last(p)) \ Range(p)} : p \in f[n - 1]}
  BY <1>5, <1>6 DEF Extended, v
<1>9. FilledPaths(f, from, d)
  BY <1>7, <1>8, Zenon DEF FilledPaths
<1> DEFINE g == CHOOSE g : FilledPaths(g, from, d)
<1>10. FilledPaths(g, from, d)
  BY <1>9
<1>11. Paths(from, d) = UNION {g[n] : n \in 0..d}
  BY DEF Paths, FilledPaths
<1> QED
  BY <1>10, <1>11

\* Line by line.
Lengthens(f, from, d) == f[0] = {<<from>>} /\ \A n \in 1..d : f[n] = Extended(f[n - 1])

LEMMA FilledPathsSteps ==
  ASSUME NEW from, NEW d \in Nat, NEW f, FilledPaths(f, from, d)
  PROVE  Lengthens(f, from, d)
BY DEF FilledPaths, Extended, Lengthens

\* A way by n related entities, all within reach.
IsPath(p, from, n) ==
  /\ p \in Seq({from} \cup Ends) /\ Len(p) = n + 1 /\ p[1] = from
  /\ \A k \in 1..n : p[k + 1] \in Neighbours(p[k])
  /\ \A k \in 1..n + 1 : p[k] \in Reachable(from, n)

\* One more entity leaves it such a way.
LEMMA PathExtends ==
  ASSUME NEW from, NEW n \in Nat, NEW q, IsPath(q, from, n), NEW id \in Neighbours(Last(q))
  PROVE  IsPath(Append(q, id), from, n + 1)
<1> DEFINE p == Append(q, id)
<1>1. Last(q) = q[n + 1]
  BY DEF IsPath, Last
<1>2. id \in Ends
  BY DEF Neighbours, Ends
<1>3. p \in Seq({from} \cup Ends) /\ Len(p) = n + 2
      /\ p[n + 2] = id /\ \A k \in 1..n + 1 : p[k] = q[k]
  BY <1>2 DEF IsPath
<1> HIDE DEF p
<1>4. p[1] = from
  BY <1>3 DEF IsPath
<1>5. ASSUME NEW k \in 1..n + 1 PROVE p[k + 1] \in Neighbours(p[k])
  BY <1>1, <1>3 DEF IsPath
<1>6. Reachable(from, n + 1) = Beyond(Reachable(from, n))
  BY ReachableGrows
<1>7. Last(q) \in Reachable(from, n)
  BY <1>1 DEF IsPath
<1>8. id \in Reachable(from, n + 1) /\ Reachable(from, n) \subseteq Reachable(from, n + 1)
  BY <1>6, <1>7 DEF Beyond
<1>9. ASSUME NEW k \in 1..n + 2 PROVE p[k] \in Reachable(from, n + 1)
  BY <1>3, <1>8 DEF IsPath
<1>10. IsPath(p, from, n + 1)
  BY <1>3, <1>4, <1>5, <1>9 DEF IsPath
<1> QED
  BY <1>10 DEF p

\* All that the query builds are such ways.
LEMMA ArePaths ==
  ASSUME NEW from, NEW d \in Nat, NEW f, FilledPaths(f, from, d),
         NEW n \in 0..d, NEW p \in f[n]
  PROVE  IsPath(p, from, n)
<1> DEFINE T == {k \in 0..d : \E q \in f[k] : ~IsPath(q, from, k)}
<1>0. Lengthens(f, from, d)
  BY FilledPathsSteps
<1>1. f[0] = {<<from>>} /\ \A k \in 1..d : f[k] = Extended(f[k - 1])
  BY <1>0 DEF Lengthens
<1> SUFFICES ASSUME T # {} PROVE FALSE
  OBVIOUS
<1>2. T \in SUBSET Nat
  OBVIOUS
<1>3. \E k \in T : \A j \in T : k <= j
  <2> HIDE DEF T
  <2> QED
    BY <1>2, LeastNumber
<1>4. PICK k \in T : \A j \in T : k <= j
  BY <1>3
<1>5. IsPath(<<from>>, from, 0)
  BY ReachableGrows DEF IsPath
<1>6. k # 0
  BY <1>1, <1>5
<1>7. k - 1 \in 0..d /\ \A q \in f[k - 1] : IsPath(q, from, k - 1)
  BY <1>4, <1>6
<1>8. PICK r \in f[k] : ~IsPath(r, from, k)
  BY <1>4
<1>c. r \in Extended(f[k - 1])
  BY <1>1, <1>6, <1>8
<1>9. PICK q \in f[k - 1] : \E id \in Neighbours(Last(q)) : r = Append(q, id)
  BY <1>c DEF Extended
<1>a. PICK id \in Neighbours(Last(q)) : r = Append(q, id)
  BY <1>9
<1>b. IsPath(q, from, k - 1) /\ k - 1 \in Nat
  BY <1>7
<1>10. IsPath(Append(q, id), from, (k - 1) + 1)
  BY <1>b, PathExtends
<1> QED
  BY <1>7, <1>8, <1>a, <1>10

\* What the traversal comes to only in its last step is the end of such a path.
LEMMA PathComes ==
  ASSUME NEW from, NEW d \in Nat, NEW f, FilledPaths(f, from, d),
         NEW n \in 0..d, NEW x \in Reachable(from, n), n = 0 \/ x \notin Reachable(from, n - 1)
  PROVE  \E p \in f[n] : Last(p) = x
<1>0. Lengthens(f, from, d)
  BY FilledPathsSteps
<1>1. f[0] = {<<from>>} /\ \A k \in 1..d : f[k] = Extended(f[k - 1])
  BY <1>0 DEF Lengthens
<1> DEFINE New(k) == {y \in Reachable(from, k) : k = 0 \/ y \notin Reachable(from, k - 1)}
           T == {k \in 0..d : \E y \in New(k) : \A p \in f[k] : Last(p) # y}
<1> SUFFICES ASSUME T # {} PROVE FALSE
  OBVIOUS
<1>2. T \in SUBSET Nat
  OBVIOUS
<1>3. \E k \in T : \A j \in T : k <= j
  <2> HIDE DEF T
  <2> QED
    BY <1>2, LeastNumber
<1>4. PICK k \in T : \A j \in T : k <= j
  BY <1>3
<1>5. PICK y \in New(k) : \A p \in f[k] : Last(p) # y
  BY <1>4
<1>6. k # 0
  <2> SUFFICES ASSUME k = 0 PROVE FALSE
    OBVIOUS
  <2>1. y = from
    BY <1>5, ReachableGrows
  <2>2. Last(<<from>>) = from
    BY DEF Last
  <2> QED
    BY <1>1, <1>5, <2>1, <2>2
<1>7. k - 1 \in 0..d /\ k - 1 \in Nat /\ k - 1 \notin T
  BY <1>4, <1>6
<1>8. Reachable(from, (k - 1) + 1) = Beyond(Reachable(from, k - 1))
  BY <1>7, ReachableGrows
<1>9. PICK z \in Reachable(from, k - 1) : y \in Neighbours(z)
  BY <1>5, <1>6, <1>8 DEF Beyond
<1>10. z \in New(k - 1)
  <2> SUFFICES ASSUME k - 1 # 0, z \in Reachable(from, (k - 1) - 1) PROVE FALSE
    BY <1>9
  <2>1. k - 2 \in Nat
    BY <1>7
  <2>2. Reachable(from, (k - 2) + 1) = Beyond(Reachable(from, k - 2))
    BY <2>1, ReachableGrows
  <2>3. z \in Reachable(from, k - 2)
    BY <2>1
  <2>4. y \in Reachable(from, k - 1)
    BY <1>9, <2>2, <2>3 DEF Beyond
  <2> QED
    BY <1>5, <1>6, <2>4
<1>11. PICK q \in f[k - 1] : Last(q) = z
  BY <1>7, <1>10
<1>12. IsPath(q, from, k - 1)
  BY <1>7, <1>11, ArePaths
<1>13. y \notin Range(q)
  BY <1>5, <1>6, <1>7, <1>12 DEF IsPath, Range
<1>14. Append(q, y) \in f[k]
  <2>1. f[k] = Extended(f[k - 1])
    BY <1>1, <1>6
  <2>2. y \in Neighbours(Last(q)) \ Range(q)
    BY <1>9, <1>11, <1>13
  <2> QED
    BY <2>1, <2>2 DEF Extended
<1>15. Last(Append(q, y)) = y
  BY <1>12 DEF IsPath, Last
<1> QED
  BY <1>5, <1>14, <1>15

\* A path that is found is such a way.
LEMMA FoundIsPath ==
  ASSUME NEW from, NEW d \in Nat, NEW p \in Paths(from, d)
  PROVE  \E n \in 0..d : IsPath(p, from, n)
<1>1. PICK f : FilledPaths(f, from, d) /\ Paths(from, d) = UNION {f[n] : n \in 0..d}
  BY PathsFill
<1>2. PICK n \in 0..d : p \in f[n]
  BY <1>1
<1>3. IsPath(p, from, n)
  BY <1>1, <1>2, ArePaths
<1> QED
  BY <1>3

\* What the traversal comes to is found by a path no longer than it is deep.
LEMMA PathIsFound ==
  ASSUME NEW from, NEW d \in Nat, NEW e \in 0..d, NEW x \in Reachable(from, e)
  PROVE  \E p \in PathsTo(from, x, d) : Len(p) <= e + 1
<1> DEFINE T == {k \in 0..e : x \in Reachable(from, k)}
<1>1. T \in SUBSET Nat /\ e \in T
  OBVIOUS
<1>2. \E k \in T : \A j \in T : k <= j
  <2> HIDE DEF T
  <2> QED
    BY <1>1, LeastNumber
<1>3. PICK n \in T : \A j \in T : n <= j
  BY <1>2
<1>4. n \in 0..d /\ (n = 0 \/ x \notin Reachable(from, n - 1))
  BY <1>3
<1>5. PICK f : FilledPaths(f, from, d) /\ Paths(from, d) = UNION {f[k] : k \in 0..d}
  BY PathsFill
<1>6. PICK p \in f[n] : Last(p) = x
  BY <1>3, <1>4, <1>5, PathComes
<1>7. IsPath(p, from, n)
  BY <1>4, <1>5, <1>6, ArePaths
<1> QED
  BY <1>3, <1>4, <1>5, <1>6, <1>7 DEF PathsTo, IsPath

\* Some paths have a shortest one.
LEMMA ShortestOfSome ==
  ASSUME NEW from, NEW to, NEW d \in Nat, PathsTo(from, to, d) # {}
  PROVE  Shortest(PathsTo(from, to, d)) # {}
<1> DEFINE T == {Len(p) : p \in PathsTo(from, to, d)}
<1>1. \A p \in PathsTo(from, to, d) : Len(p) \in Nat
  BY FoundIsPath DEF PathsTo, IsPath
<1>2. T \in SUBSET Nat /\ T # {}
  BY <1>1
<1>3. \E k \in T : \A j \in T : k <= j
  <2> HIDE DEF T
  <2> QED
    BY <1>2, LeastNumber
<1>4. PICK p \in PathsTo(from, to, d) : \A q \in PathsTo(from, to, d) : Len(p) <= Len(q)
  BY <1>3
<1> QED
  BY <1>4 DEF Shortest

-----------------------------------------------------------------------------
(* The readers.                                                            *)

\* The traversal depends on the relationships only.
LEMMA SameReach ==
  ASSUME rels' = rels
  PROVE  \A center, depth : Reachable(center, depth)' = Reachable(center, depth)
BY DEF Reachable, Neighbours

\* A step of anyone else makes the answer, and the request, outdated or leaves
\* alone what it depends on.
LEMMA ReadersWait ==
  ASSUME [GraphNext]_graphVars, ~ReadStep
  PROVE  /\ ask' = ask
         /\ \/ answer' = Nothing /\ changed' = (ask # Nothing)
            \/ rels' = rels /\ Ids' = Ids /\ UNCHANGED answerVars
BY DEF GraphNext, EntityStep, BeginIngest, Lookup, LookupFails, UpdateEntityAliases,
    CreateEntity, CreateRelationship, EndIngest, DedupStep, FindDuplicates, ListGroup,
    RepointFrom, RepointTo, DeleteEntity, DedupDone, DedupFails, DedupEnds, ResetStep,
    DropRelationships, DropEntities, ResetEnds, Open, Touch, graphVars, dbVars, answerVars, Ids

\* So a right answer stays right until then.
LEMMA SameAnswer ==
  ASSUME AnswersConnected, rels' = rels, UNCHANGED answer
  PROVE  AnswersConnected'
<1>1. GraphConnected(answer) => GraphConnected(answer)'
  BY DEF GraphConnected, Refers
<1>2. PathShortest(answer) => PathShortest(answer)'
  BY SameReach DEF PathShortest
<1> QED
  BY <1>1, <1>2 DEF AnswersConnected

\* The readers' own steps.
LEMMA AnswerStep ==
  TableInv /\ AskInv /\ AnswersConnected /\ [GraphNext]_graphVars => AskInv' /\ AnswersConnected'
<1> SUFFICES ASSUME TableInv, AskInv, AnswersConnected, [GraphNext]_graphVars
             PROVE  AskInv' /\ AnswersConnected'
  OBVIOUS
<1> USE LimitsAssumption
<1>0. Ends \subseteq Ids /\ Ids \subseteq IdValues
  BY DEF TableInv, Ends, Issued
<1>1. CASE ~ReadStep
  <2>1. CASE rels' = rels /\ Ids' = Ids /\ UNCHANGED answerVars
    <3>1. AskInv'
      BY <1>1, <2>1, ReadersWait, SameReach DEF AskInv, answerVars
    <3> QED
      BY <2>1, <3>1, SameAnswer DEF answerVars
  <2>2. CASE answer' = Nothing /\ changed' = (ask # Nothing)
    <3>1. ask' = ask
      BY <1>1, ReadersWait
    <3>2. AskInv'
      BY <2>2, <3>1 DEF AskInv
    <3> QED
      BY <2>2, <3>2 DEF AnswersConnected
  <2> QED
    BY <1>1, <2>1, <2>2, ReadersWait
<1>2. ASSUME AskGraph PROVE AskInv' /\ AnswersConnected'
  <2>1. PICK id \in Ids, n \in Depths :
           ask' = [step |-> "entities", from |-> id, depth |-> n, ids |-> {}]
    BY <1>2 DEF AskGraph
  <2>2. answer' = Nothing /\ Ids' = Ids
    BY <1>2 DEF AskGraph, dbVars, Ids
  <2>3. AskInv'
    BY <1>0, <2>1, <2>2 DEF AskInv
  <2> QED
    BY <2>2, <2>3 DEF AnswersConnected
<1>3. ASSUME ReadEntities PROVE AskInv' /\ AnswersConnected'
  <2>1. /\ ask # Nothing /\ ask.step = "entities" /\ UNCHANGED <<rels, entities, answerVars>>
        /\ ask' = [ask EXCEPT !.step = "rels", !.ids = Reachable(ask.from, ask.depth) \cap Ids]
    BY <1>3 DEF ReadEntities, dbVars, answerVars
  <2>2. ask \in [step : {"entities", "rels"}, from : IdValues, depth : Nat, ids : SUBSET IdValues]
    BY <2>1 DEF AskInv
  <2>3. /\ ask' \in [step : {"entities", "rels"}, from : IdValues, depth : Nat, ids : SUBSET IdValues]
        /\ ask'.step = "rels" /\ ask'.from = ask.from /\ ask'.depth = ask.depth
        /\ ask'.ids = Reachable(ask.from, ask.depth) \cap Ids
    BY <1>0, <2>1, <2>2
  <2>4. ASSUME ~changed PROVE ask.from \in Ids /\ Reachable(ask.from, ask.depth) \subseteq Ids
    <3>1. ask.from \in Ids /\ ask.depth \in Nat
      BY <2>1, <2>2, <2>4 DEF AskInv
    <3> QED
      BY <1>0, <3>1, ReachableStored
  <2>5. Ids' = Ids /\ changed' = changed
    BY <2>1 DEF Ids, answerVars
  <2>6. \A c, n : Reachable(c, n)' = Reachable(c, n)
    BY <2>1, SameReach
  <2>8. Reachable(ask.from, ask.depth)' = Reachable(ask.from, ask.depth)
    BY <2>3, <2>6
  <2>9. AskInv'
    BY <2>3, <2>4, <2>5, <2>8 DEF AskInv
  <2>10. AnswersConnected'
    BY <2>1, SameAnswer DEF answerVars
  <2> QED
    BY <2>9, <2>10
<1>4. ASSUME ReadRelationships PROVE AskInv' /\ AnswersConnected'
  <2> DEFINE R == Reachable(ask.from, ask.depth)
             a == [kind |-> "graph", from |-> ask.from, ids |-> ask.ids,
                   rels |-> RelationshipsWithin(R)]
  <2>1. /\ ask # Nothing /\ ask.step = "rels" /\ ask' = Nothing
        /\ answer' = IF changed THEN Nothing ELSE a
    BY <1>4 DEF ReadRelationships, Answered
  <2>2. AskInv'
    BY <2>1 DEF AskInv
  <2>3. CASE changed
    BY <2>1, <2>2, <2>3 DEF AnswersConnected
  <2>4. CASE ~changed
    <3>1. ask.ids = R /\ ask.depth \in Nat
      BY <2>1, <2>4 DEF AskInv
    <3>2. \A r \in RelationshipsWithin(R) : {r.from, r.to} \subseteq R
      BY DEF RelationshipsWithin
    <3>3. ask.from \in R
      <4>1. Reachable(ask.from, 0) = {ask.from} /\ Reachable(ask.from, 0) \subseteq R
        BY <3>1, ReachableGrows, ReachableMonotone
      <4> QED
        BY <4>1
    <3>4. ASSUME NEW S \in SUBSET R, ask.from \in S, S # R
          PROVE  \E r \in RelationshipsWithin(R), k \in S, id \in R \ S : Refers(r, k) /\ Refers(r, id)
      BY <3>1, <3>4, ReachableConnected
    <3> HIDE DEF R
    <3>5. /\ answer' = a /\ a.kind = "graph" /\ a.from = ask.from /\ a.ids = R
          /\ a.rels = RelationshipsWithin(R)
      BY <2>1, <2>4, <3>1
    <3>6. /\ \A r \in a.rels : {r.from, r.to} \subseteq a.ids
          /\ a.from \in a.ids
          /\ \A S \in SUBSET a.ids : a.from \in S /\ S # a.ids =>
               \E r \in a.rels, k \in S, id \in a.ids \ S : Refers(r, k) /\ Refers(r, id)
      BY <3>2, <3>3, <3>4, <3>5
    <3> HIDE DEF a
    <3>7. AnswersConnected'
      BY <3>5, <3>6 DEF AnswersConnected, GraphConnected, Refers
    <3> QED
      BY <2>2, <3>7
  <2> QED
    BY <2>3, <2>4
<1>5. ASSUME AskPath PROVE AskInv' /\ AnswersConnected'
  <2>1. PICK from \in Ids, to \in Ids :
           LET paths == PathsTo(from, to, MaxPath)
               done(path) ==
                 /\ answer' = [kind |-> "path", from |-> from, to |-> to, path |-> path]
                 /\ UNCHANGED ask
           IN CASE from = to -> done(<<from>>)
                [] paths = {} -> done(<<>>)
                [] OTHER -> /\ answer' = Nothing
                            /\ \E p \in Shortest(paths) :
                                 ask' = [step |-> "trail", from |-> from, to |-> to,
                                         depth |-> Len(p) - 1]
    BY <1>5 DEF AskPath
  <2>2. ask = Nothing /\ UNCHANGED <<rels, entities>>
    BY <1>5 DEF AskPath, dbVars
  <2>3. \A c, n : Reachable(c, n)' = Reachable(c, n)
    BY <2>2, SameReach
  <2>4. CASE from = to
    <3>0. PathsTo(from, to, MaxPath) # {}
      BY <2>4, PathIsFound, ReachableGrows
    <3>1. answer' = [kind |-> "path", from |-> from, to |-> to, path |-> <<from>>] /\ ask' = ask
      BY <2>1, <2>4, <3>0
    <3>2. PathShortest(answer)'
      BY <2>4, <3>1 DEF PathShortest, Last
    <3> QED
      BY <2>2, <3>1, <3>2 DEF AskInv, AnswersConnected
  <2>5. CASE from # to /\ PathsTo(from, to, MaxPath) = {}
    <3>1. answer' = [kind |-> "path", from |-> from, to |-> to, path |-> <<>>] /\ ask' = ask
      BY <2>1, <2>5
    <3>2. to \notin Reachable(from, MaxPath)
      BY <2>5, PathIsFound
    <3>3. PathShortest(answer)'
      BY <2>3, <3>1, <3>2 DEF PathShortest
    <3> QED
      BY <2>2, <3>1, <3>3 DEF AskInv, AnswersConnected
  <2>6. CASE from # to /\ PathsTo(from, to, MaxPath) # {}
    <3>1. PICK p \in Shortest(PathsTo(from, to, MaxPath)) :
             ask' = [step |-> "trail", from |-> from, to |-> to, depth |-> Len(p) - 1]
      BY <2>1, <2>6
    <3>2. answer' = Nothing
      BY <2>1, <2>6
    <3>3. p \in Paths(from, MaxPath) /\ Last(p) = to
          /\ \A q \in PathsTo(from, to, MaxPath) : Len(p) <= Len(q)
      BY DEF Shortest, PathsTo
    <3>4. PICK n \in 0..MaxPath : IsPath(p, from, n)
      BY <3>3, FoundIsPath
    <3>5. Len(p) - 1 = n /\ to \in Reachable(from, n)
      BY <3>3, <3>4 DEF IsPath, Last
    <3>6. ASSUME NEW e \in 0..n - 1, to \in Reachable(from, e) PROVE FALSE
      <4>1. e \in 0..MaxPath
        OBVIOUS
      <4>2. PICK q \in PathsTo(from, to, MaxPath) : Len(q) <= e + 1
        BY <3>6, <4>1, PathIsFound
      <4>3. Len(q) \in Nat
        BY FoundIsPath DEF PathsTo, IsPath
      <4> QED
        BY <3>3, <3>5, <4>2, <4>3
    <3>7. ask' = [step |-> "trail", from |-> from, to |-> to, depth |-> n]
      BY <3>1, <3>5
    <3>8. AskInv'
      BY <1>0, <2>3, <3>5, <3>6, <3>7 DEF AskInv
    <3> QED
      BY <3>2, <3>8 DEF AnswersConnected
  <2> QED
    BY <2>4, <2>5, <2>6
<1>6. ASSUME ReconstructPath PROVE AskInv' /\ AnswersConnected'
  <2>1. /\ ask # Nothing /\ ask.step = "trail" /\ UNCHANGED rels
        /\ ask' = Nothing
    BY <1>6 DEF ReconstructPath, Answered, dbVars
  <2>2. ask \in [step : {"trail"}, from : IdValues, to : IdValues, depth : 0..MaxPath]
    BY <2>1 DEF AskInv
  <2>3. PICK from, to, depth : from = ask.from /\ to = ask.to /\ depth = ask.depth
    OBVIOUS
  <2>4. PICK p \in IF Trail(from, to, depth) = {} THEN {<<>>} ELSE Trail(from, to, depth) :
          answer' = IF changed THEN Nothing
                    ELSE [kind |-> "path", from |-> from, to |-> to, path |-> p]
    BY <1>6, <2>3 DEF ReconstructPath, Answered
  <2>5. AskInv'
    BY <2>1 DEF AskInv
  <2>6. CASE changed
    BY <2>4, <2>5, <2>6 DEF AnswersConnected
  <2>7. CASE ~changed
    <3>1. /\ to \in Reachable(from, depth) /\ depth \in Nat /\ depth <= MaxPath
          /\ \A n \in 0..depth - 1 : to \notin Reachable(from, n)
      BY <2>1, <2>2, <2>3, <2>7 DEF AskInv
    <3>2. PathsTo(from, to, depth) # {}
      BY <3>1, PathIsFound
    <3>3. p \in Trail(from, to, depth)
      BY <2>4, <3>1, <3>2, ShortestOfSome DEF Trail
    <3>4. p \in Paths(from, depth) /\ Last(p) = to
      BY <3>3 DEF Trail, Shortest, PathsTo
    <3>5. PICK n \in 0..depth : IsPath(p, from, n)
      BY <3>1, <3>4, FoundIsPath
    <3>6. p # <<>> /\ Head(p) = from /\ Len(p) = n + 1
      BY <3>5 DEF IsPath
    <3>7. ASSUME NEW k \in 1..Len(p) - 1 PROVE \E r \in rels : {r.from, r.to} = {p[k], p[k + 1]}
      BY <3>5, <3>6 DEF IsPath, Neighbours
    <3>8. Len(p) > 1 => to \notin Reachable(from, Len(p) - 2)
      BY <3>1, <3>5, <3>6
    <3>9. answer' = [kind |-> "path", from |-> from, to |-> to, path |-> p]
      BY <2>4, <2>7
    <3>10. PathShortest(answer)'
      BY <2>1, <3>4, <3>6, <3>7, <3>8, <3>9, SameReach DEF PathShortest
    <3> QED
      BY <2>5, <3>9, <3>10 DEF AnswersConnected
  <2> QED
    BY <2>6, <2>7
<1>7. ASSUME AskFails PROVE AskInv' /\ AnswersConnected'
  <2>1. ask' = Nothing /\ answer' = answer /\ UNCHANGED rels
    BY <1>7 DEF AskFails, dbVars
  <2> QED
    BY <2>1, SameAnswer DEF AskInv
<1> QED
  BY <1>1, <1>2, <1>3, <1>4, <1>5, <1>6, <1>7 DEF ReadStep

-----------------------------------------------------------------------------
(* The theorems about EntityGraph.                                         *)

GraphInv ==
  CallInv /\ TableInv /\ DedupInv /\ KeptInv /\ RacedInv /\ AskInv /\ AnswersConnected

LEMMA GraphInvInit == GraphInit => GraphInv
<1> SUFFICES ASSUME GraphInit PROVE GraphInv
  OBVIOUS
<1> USE NamesAssumption, LimitsAssumption DEF GraphInit
<1>1. Ids = {} /\ Running = {}
  BY DEF Ids, Running
<1>2. CallInv
  BY DEF CallInv
<1>3. TableInv
  BY <1>1, FS_EmptySet DEF TableInv, Ordered, AllTables
<1>4. DedupInv
  BY FS_EmptySet DEF DedupInv, Ordered
<1>5. KeptInv
  BY DEF KeptInv
<1>6. RacedInv
  BY <1>1 DEF RacedInv, OneEntityPerName
<1>7. AskInv /\ AnswersConnected
  BY DEF AskInv, AnswersConnected
<1> QED
  BY <1>2, <1>3, <1>4, <1>5, <1>6, <1>7 DEF GraphInv

LEMMA GraphInvHolds == GraphSpec => []GraphInv
<1>1. GraphInv /\ [GraphNext]_graphVars => GraphInv'
  BY CallStep, TableStep, DedupInvStep, KeptStep, RacedStep, AnswerStep DEF GraphInv
<1> QED
  BY GraphInvInit, <1>1, PTL DEF GraphSpec

\* The type invariant of the entity graph: every relationship refers to stored
\* entities, and what a deduplication is to remove has the name of what it keeps.
THEOREM GraphTypeCorrect == GraphSpec => []GraphTypeOK
<1>1. GraphInv => GraphTypeOK
  <2> SUFFICES ASSUME GraphInv PROVE GraphTypeOK
    OBVIOUS
  <2>1. \A id \in Ids : id \in (1..MaxIngests) \X Names \X (Nat \ {0})
    BY LimitsAssumption DEF GraphInv, TableInv, CallInv, Issued, IdValues
  <2>2. \A r \in rels : {r.from, r.to} \subseteq Ids
    BY DEF GraphInv, TableInv
  <2>3. \A d \in Dedupers : \A o \in olds[d] : Fold(o) = Fold(keep[d]) /\ o # keep[d]
    BY DEF GraphInv, DedupInv, Issued, IdValues, Before
  <2>4. \A d \in Dedupers : olds[d] # {} <=> keep[d] # Nothing
    BY DEF GraphInv, DedupInv
  <2> QED
    BY <2>1, <2>2, <2>3, <2>4 DEF GraphInv, CallInv, TableInv, DedupInv, GraphTypeOK
<1> QED
  BY GraphInvHolds, <1>1, PTL

\* Two entities of one name come from ingests that ran at one time or from one
\* whose lookup failed (imprint.go, the loop over extracted.Entities), whatever
\* the spellings and however ingests, deduplications and resets interleave.
THEOREM DoublesComeFromRaces == GraphSpec => []OneEntityPerName
<1>1. GraphInv => OneEntityPerName
  BY DEF GraphInv, RacedInv
<1> QED
  BY GraphInvHolds, <1>1, PTL

LEMMA RelationshipsStay ==
  ASSUME GraphInv, [GraphNext]_graphVars, tables = AllTables, tables' = AllTables, NEW r \in rels
  PROVE  \E s \in rels' : s.id = r.id /\ Fold(s.from) = Fold(r.from) /\ Fold(s.to) = Fold(r.to)
<1>1. CASE r \in rels'
  BY <1>1
<1>2. ASSUME NEW d \in Dedupers, RepointFrom(d)
      PROVE  \E s \in rels' : s.id = r.id /\ Fold(s.from) = Fold(r.from) /\ Fold(s.to) = Fold(r.to)
  <2>1. Old(d) \in olds[d]
    BY <1>2, OldIsListed DEF GraphInv, DedupInv, RepointFrom
  <2>2. Fold(Old(d)) = Fold(keep[d])
    BY <2>1 DEF GraphInv, DedupInv
  <2>3. CASE r.from # Old(d)
    BY <1>1, <1>2, <2>3 DEF RepointFrom
  <2>4. CASE r.from = Old(d)
    <3> DEFINE s == [r EXCEPT !.from = keep[d]]
    <3>1. s \in rels'
      BY <1>2, <2>4 DEF RepointFrom
    <3>2. s.id = r.id /\ s.from = keep[d] /\ s.to = r.to
      BY DEF GraphInv, TableInv
    <3> QED
      BY <2>2, <2>4, <3>1, <3>2
  <2> QED
    BY <2>3, <2>4
<1>3. ASSUME NEW d \in Dedupers, RepointTo(d)
      PROVE  \E s \in rels' : s.id = r.id /\ Fold(s.from) = Fold(r.from) /\ Fold(s.to) = Fold(r.to)
  <2>1. Old(d) \in olds[d]
    BY <1>3, OldIsListed DEF GraphInv, DedupInv, RepointTo
  <2>2. Fold(Old(d)) = Fold(keep[d])
    BY <2>1 DEF GraphInv, DedupInv
  <2>3. CASE r.to # Old(d)
    BY <1>1, <1>3, <2>3 DEF RepointTo
  <2>4. CASE r.to = Old(d)
    <3> DEFINE s == [r EXCEPT !.to = keep[d]]
    <3>1. s \in rels'
      BY <1>3, <2>4 DEF RepointTo
    <3>2. s.id = r.id /\ s.to = keep[d] /\ s.from = r.from
      BY DEF GraphInv, TableInv
    <3> QED
      BY <2>2, <2>4, <3>1, <3>2
  <2> QED
    BY <2>3, <2>4
<1>4. ASSUME ~\E d \in Dedupers : RepointFrom(d) \/ RepointTo(d)
      PROVE  r \in rels'
  BY <1>4 DEF GraphNext, EntityStep, BeginIngest, Lookup, LookupFails, UpdateEntityAliases,
    CreateEntity, CreateRelationship, EndIngest, DedupStep, FindDuplicates, ListGroup,
    DeleteEntity, DedupDone, DedupFails, DedupEnds, ResetStep, DropRelationships, DropEntities,
    ResetEnds, Open, ReadStep, AskGraph, ReadEntities, ReadRelationships, AskPath,
    ReconstructPath, AskFails, graphVars, dbVars, AllTables
<1> QED
  BY <1>1, <1>2, <1>3, <1>4

\* Only a deduplication removes entities, one at a time, and only an alias merge
\* writes those that stay.
LEMMA EntitiesChange ==
  ASSUME GraphInv, [GraphNext]_graphVars, tables = AllTables, tables' = AllTables,
         ~UNCHANGED entities
  PROVE  \/ \E c \in Calls : CreateEntity(c) \/ UpdateEntityAliases(c)
         \/ \E d \in Dedupers : DeleteEntity(d)
BY DEF GraphNext, EntityStep, BeginIngest, Lookup, LookupFails, CreateRelationship, EndIngest,
  DedupStep, FindDuplicates, ListGroup, RepointFrom, RepointTo, DedupDone, DedupFails,
  DedupEnds, ResetStep, DropRelationships, DropEntities, ResetEnds, Open, ReadStep, AskGraph,
  ReadEntities, ReadRelationships, AskPath, ReconstructPath, AskFails, graphVars, dbVars, AllTables

LEMMA EntitiesStay ==
  ASSUME GraphInv, [GraphNext]_graphVars, tables = AllTables, tables' = AllTables, NEW i \in Ids
  PROVE  /\ i \notin DOMAIN entities' => \E j \in DOMAIN entities' : Fold(i) = Fold(j)
         /\ i \in DOMAIN entities' =>
              \/ entities[i] \subseteq entities'[i]
              \/ \E c \in Calls : cpc[c] = "alias" /\ seen[c][1] = i /\ seen[c][2] # entities[i]
<1>1. CASE UNCHANGED entities
  BY <1>1 DEF Ids
<1>2. ASSUME NEW c \in Calls, CreateEntity(c), ~UNCHANGED entities
      PROVE  i \in DOMAIN entities' /\ entities'[i] = entities[i]
  <2> DEFINE id == <<num[c], Head(todo[c]), Len(todo[c])>>
  <2>1. entities' = Put(entities, id, {num[c]}) /\ cpc[c] = "create"
    BY <1>2 DEF CreateEntity
  <2>2. ~Issued(id)
    BY <2>1, NewId DEF GraphInv
  <2>3. i # id
    BY <2>2 DEF GraphInv, TableInv
  <2> HIDE DEF id
  <2> QED
    BY <2>1, <2>3 DEF Put, Ids
<1>3. ASSUME NEW c \in Calls, UpdateEntityAliases(c), ~UNCHANGED entities
      PROVE  /\ i \in DOMAIN entities'
             /\ \/ entities[i] \subseteq entities'[i]
                \/ cpc[c] = "alias" /\ seen[c][1] = i /\ seen[c][2] # entities[i]
  BY <1>3 DEF UpdateEntityAliases, mergeEntityAliasLists, Ids
<1>4. ASSUME NEW d \in Dedupers, DeleteEntity(d)
      PROVE  /\ i \notin DOMAIN entities' => \E j \in DOMAIN entities' : Fold(i) = Fold(j)
             /\ i \in DOMAIN entities' => entities'[i] = entities[i]
  <2> DEFINE gone == Old(d)
  <2>1. entities' = [id \in Ids \ {gone} |-> entities[id]]
    BY <1>4 DEF DeleteEntity
  <2>2. gone \in olds[d]
    BY <1>4, OldIsListed DEF DeleteEntity, GraphInv, DedupInv
  <2> HIDE DEF gone
  <2>3. CASE i = gone
    <3>1. PICK k \in Ids : Fold(k) = Fold(keep[d]) /\ (k = keep[d] \/ Before(k, keep[d]))
      BY <2>2, <2>3 DEF GraphInv, KeptInv
    <3>2. /\ {k, keep[d], gone} \subseteq IdValues /\ Before(keep[d], gone)
          /\ Fold(gone) = Fold(keep[d])
      BY <2>2 DEF GraphInv, DedupInv, TableInv, Issued
    <3>3. k # gone
      BY <3>1, <3>2, BeforeIsTransitive DEF Before, IdValues
    <3> QED
      BY <2>1, <2>3, <3>1, <3>2, <3>3
  <2>4. CASE i # gone
    BY <2>1, <2>4
  <2> QED
    BY <2>3, <2>4
<1> QED
  BY <1>1, <1>2, <1>3, <1>4, EntitiesChange

\* While the tables exist no step loses what is known: relationships keep leading
\* between the names they were extracted for, an entity is removed only while one
\* of its name stays (sqlite.go, DeduplicateEntities), also with several
\* deduplications at a time, and aliases are lost to an outdated read only.
THEOREM NothingKnownIsLost == GraphSpec => KnowledgeStays
<1>1. ASSUME GraphInv, [GraphNext]_graphVars, tables = AllTables, tables' = AllTables
      PROVE  /\ \A r \in rels : \E s \in rels' :
                  s.id = r.id /\ Fold(s.from) = Fold(r.from) /\ Fold(s.to) = Fold(r.to)
             /\ \A i \in Ids \ DOMAIN entities' : \E j \in DOMAIN entities' : Fold(i) = Fold(j)
             /\ \A i \in Ids \cap DOMAIN entities' :
                  \/ entities[i] \subseteq entities'[i]
                  \/ \E c \in Calls : cpc[c] = "alias" /\ seen[c][1] = i /\ seen[c][2] # entities[i]
  BY <1>1, RelationshipsStay, EntitiesStay
<1> QED
  BY <1>1, GraphInvHolds, PTL DEF GraphSpec, KnowledgeStays

\* GetEntityGraph and FindPath (sqlite.go) read with several statements; unless
\* the tables changed during the request the answer is right: nothing in a graph
\* is cut off from its center, at every depth, and a path is a shortest one, or no
\* traversal finds the other end; for every graph of entities and relationships.
THEOREM AnswersAgree == GraphSpec => []AnswersConnected
<1>1. GraphInv => AnswersConnected
  BY DEF GraphInv
<1> QED
  BY GraphInvHolds, <1>1, PTL
=============================================================================
