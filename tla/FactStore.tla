----------------------------- MODULE FactStore -----------------------------
(***************************************************************************)
(* The facts table under concurrent Engine.Ingest calls (internal/imprint: *)
(* imprint.go, contradiction.go, dedup_merge.go): HTTP requests, the cool  *)
(* worker and the batch adapter store extracted facts, skip or merge near- *)
(* duplicates, and retire the facts that an LLM says are contradicted,     *)
(* while clients replace, patch and delete facts (internal/api/api.go,     *)
(* internal/mcp/server.go), the batch adapter retires realtime facts and   *)
(* `imprint gc` collects expired ones.  Every statement or transaction of  *)
(* internal/db/sqlite.go is one step.  A fact is the number of its row: a  *)
(* larger number was stored later.  What is similar to what, and what the  *)
(* LLM answers, is any choice.                                             *)
(***************************************************************************)
EXTENDS Integers, FiniteSets

CONSTANTS
  Ingests,         \* calls of Engine.Ingest
  Existing,        \* number of facts stored before them
  FactsIn,         \* number of facts that each call extracts
  Confidences,     \* "low": below 0.5; "high": above 0.8
  MergeOnDedup,    \* WithDedupMerge: near-duplicates go to the merge classifier
  None,            \* NULL
  MaxRows,         \* bound: facts stored in a behaviour
  MaxEdits         \* bound: client edits, deletions and collections

ASSUME IngestsAssumption ==
  /\ Existing \in Nat /\ MaxRows \in Nat /\ Existing <= MaxRows
  /\ FactsIn \in [Ingests -> Nat] /\ MaxEdits \in Nat
  /\ MergeOnDedup \in BOOLEAN /\ None \notin Nat

VARIABLES
  (* the rows *)
  last,        \* the newest row
  facts,       \* the rows not deleted
  conf,        \* confidence
  supBy,       \* superseded_by
  replaced,    \* supersede_reason is 'batch-replaced'
  index,       \* rows with a key in the vector index (a stale key finds no row)
  (* an Engine.Ingest call *)
  pc,
  left,        \* extracted facts still to be handled
  mine,        \* batchFactIDs
  new,         \* the fact in hand: its confidence and, once stored, its row
  vec,         \* the fact in hand has an embedding
  old,         \* the fact it may retire, with the confidence that was read
  candidates,  \* the fact's contradiction candidates
  groups,      \* <<new, candidate>> pairs for the contradiction review
  decisions,   \* pairs that the review said to supersede
  (* history *)
  edits,
  merged,      \* facts stored by a dedup merge
  patched      \* facts whose confidence a client changed

rowVars == <<last, facts, conf, supBy, replaced, index>>
handVars == <<new, vec, old, candidates>>
callVars == <<pc, left, mine, handVars, groups, decisions>>
historyVars == <<edits, merged, patched>>
vars == <<rowVars, callVars, historyVars>>

Rows == 1..MaxRows
NoFact == [row |-> None, conf |-> None]
Active == {f \in facts \ replaced : supBy[f] = None}
\* What SearchByVector can return of the active facts.
Searchable == Active \cap index

\* Defect: the confidences are not compared.
ConfidenceIgnored(newConf, oldConf) == TRUE
ConfidenceAllowsSupersede(newConf, oldConf) == ~(newConf = "low" /\ oldConf = "high")

-----------------------------------------------------------------------------
Init ==
  /\ last = Existing /\ facts = 1..Existing /\ index = facts
  /\ \E c \in [facts -> Confidences] :
       conf = [f \in Rows |-> IF f \in facts THEN c[f] ELSE None]
  /\ supBy = [f \in Rows |-> None] /\ replaced = {}
  /\ pc = [i \in Ingests |-> "fact"]
  /\ left = FactsIn
  /\ mine = [i \in Ingests |-> {}]
  /\ new = [i \in Ingests |-> NoFact]
  /\ vec = [i \in Ingests |-> FALSE]
  /\ old = [i \in Ingests |-> NoFact]
  /\ candidates = [i \in Ingests |-> {}]
  /\ groups = [i \in Ingests |-> {}]
  /\ decisions = [i \in Ingests |-> {}]
  /\ edits = 0 /\ merged = {} /\ patched = {}

-----------------------------------------------------------------------------
(* Engine.Ingest: the loop over the extracted facts.                       *)

\* The fact in hand is finished with.
NextFact(i) ==
  /\ pc' = [pc EXCEPT ![i] = "fact"]
  /\ left' = [left EXCEPT ![i] = @ - 1]
  /\ new' = [new EXCEPT ![i] = NoFact]
  /\ vec' = [vec EXCEPT ![i] = FALSE]
  /\ old' = [old EXCEPT ![i] = NoFact]
  /\ candidates' = [candidates EXCEPT ![i] = {}]

MoreFacts(i) == left[i] > 0

\* No near-duplicate; without an embedding there is no search at all.
NoDuplicate(i) ==
  /\ pc[i] = "fact" /\ MoreFacts(i)
  /\ \E c \in Confidences, v \in BOOLEAN :
       /\ new' = [new EXCEPT ![i] = [row |-> None, conf |-> c]]
       /\ vec' = [vec EXCEPT ![i] = v]
       /\ pc' = [pc EXCEPT ![i] = IF v THEN "search" ELSE "create"]
  /\ UNCHANGED <<rowVars, left, mine, old, candidates, groups, decisions, historyVars>>

\* The nearest fact is active and has nearly the same words.
FindDuplicate(i) ==
  /\ pc[i] = "fact" /\ MoreFacts(i)
  /\ \E c \in Confidences, o \in Searchable :
       /\ new' = [new EXCEPT ![i] = [row |-> None, conf |-> c]]
       /\ old' = [old EXCEPT ![i] = [row |-> o, conf |-> conf[o]]]
  /\ vec' = [vec EXCEPT ![i] = TRUE]
  /\ pc' = [pc EXCEPT ![i] = "classify"]
  /\ UNCHANGED <<rowVars, left, mine, candidates, groups, decisions, historyVars>>

\* Without a merge classifier the duplicate is skipped; with one also when it
\* fails, the guard blocks or the embedding of the merged content fails.
ClassifySkip(i) ==
  /\ pc[i] = "classify"
  /\ NextFact(i)
  /\ UNCHANGED <<rowVars, mine, groups, decisions, historyVars>>

ClassifySupersede(i) ==
  /\ pc[i] = "classify" /\ MergeOnDedup
  /\ pc' = [pc EXCEPT ![i] = "search"]
  /\ UNCHANGED <<rowVars, left, mine, handVars, groups, decisions, historyVars>>

ClassifyMerge(i) ==
  /\ pc[i] = "classify" /\ MergeOnDedup
  /\ ConfidenceAllowsSupersede(new[i].conf, old[i].conf)
  /\ pc' = [pc EXCEPT ![i] = "mergeCreate"]
  /\ UNCHANGED <<rowVars, left, mine, handVars, groups, decisions, historyVars>>

\* filterContradictionCandidates, before the fact is stored.  (A failed search,
\* a low score or an unlike subject is a pair the review decides nothing about.)
SearchCandidates(i) ==
  /\ pc[i] = "search"
  /\ candidates' = [candidates EXCEPT ![i] = Searchable \ mine[i]]
  /\ pc' = [pc EXCEPT ![i] = "create"]
  /\ UNCHANGED <<rowVars, left, mine, new, vec, old, groups, decisions, historyVars>>

\* The transaction of CreateFact, for the extracted or the merged fact.
StoreRow(i) ==
  /\ last < MaxRows
  /\ last' = last + 1
  /\ facts' = facts \cup {last'}
  /\ conf' = [conf EXCEPT ![last'] = new[i].conf]
  /\ mine' = [mine EXCEPT ![i] = @ \cup {last'}]

Create(i) ==
  /\ pc[i] = "create"
  /\ StoreRow(i)
  /\ IF vec[i]
       THEN /\ new' = [new EXCEPT ![i].row = last']
            /\ pc' = [pc EXCEPT ![i] = "embed"]
            /\ UNCHANGED <<left, vec, old, candidates>>
       ELSE NextFact(i)
  /\ UNCHANGED <<supBy, replaced, index, groups, decisions, historyVars>>

CreateMerged(i) ==
  /\ pc[i] = "mergeCreate"
  /\ StoreRow(i)
  /\ merged' = merged \cup {last'}
  /\ new' = [new EXCEPT ![i].row = last']
  /\ pc' = [pc EXCEPT ![i] = "mergeEmbed"]
  /\ UNCHANGED <<supBy, replaced, index, left, vec, old, candidates, groups, decisions,
                 edits, patched>>

CreateFails(i) ==
  /\ pc[i] \in {"create", "mergeCreate"}
  /\ NextFact(i)
  /\ UNCHANGED <<rowVars, mine, groups, decisions, historyVars>>

\* Defect: the candidates are searched once the fact is stored.
AddGroupLate(i, S) ==
  groups' = [groups EXCEPT ![i] = @ \cup ({new[i].row} \X (Searchable \ mine[i]))]
AddGroup(i, S) == groups' = [groups EXCEPT ![i] = @ \cup ({new[i].row} \X S)]

\* UpdateFactEmbedding: row, then index key; an error is logged.
SetKey(i) == \E ok \in BOOLEAN : index' = IF ok THEN index \cup {new[i].row} ELSE index

Embed(i) ==
  /\ pc[i] = "embed"
  /\ SetKey(i)
  /\ IF old[i] = NoFact
       THEN NextFact(i) /\ AddGroup(i, candidates[i])
       ELSE pc' = [pc EXCEPT ![i] = "check"] /\ UNCHANGED <<left, handVars, groups>>
  /\ UNCHANGED <<last, facts, conf, supBy, replaced, mine, decisions, historyVars>>

EmbedMerged(i) ==
  /\ pc[i] = "mergeEmbed"
  /\ SetKey(i)
  /\ pc' = [pc EXCEPT ![i] = "mergeRetire"]
  /\ UNCHANGED <<last, facts, conf, supBy, replaced, left, mine, handVars, groups,
                 decisions, historyVars>>

\* Both facts are read again before one retires the other.
MayRetire(n, o) == {n, o} \subseteq facts /\ ConfidenceAllowsSupersede(conf[n], conf[o])

CheckDuplicate(i) ==
  /\ pc[i] = "check"
  /\ IF MayRetire(new[i].row, old[i].row)
       THEN pc' = [pc EXCEPT ![i] = "retire"] /\ UNCHANGED <<left, handVars, groups>>
       ELSE NextFact(i) /\ AddGroup(i, candidates[i])
  /\ UNCHANGED <<rowVars, mine, decisions, historyVars>>

\* Defect: no superseded_by IS NULL condition.
RetirableUnguarded(o) == o \in facts
Retirable(o) == o \in facts /\ supBy[o] = None
\* SupersedeFactByContradiction; the foreign key wants the new fact to exist.
Retire(n, o) ==
  supBy' = IF Retirable(o) /\ n \in facts THEN [supBy EXCEPT ![o] = n] ELSE supBy

RetireDuplicate(i) ==
  /\ pc[i] = "retire"
  /\ Retire(new[i].row, old[i].row)
  /\ NextFact(i) /\ AddGroup(i, candidates[i])
  /\ UNCHANGED <<last, facts, conf, replaced, index, mine, decisions, historyVars>>

RetireMerged(i) ==
  /\ pc[i] = "mergeRetire"
  /\ Retire(new[i].row, old[i].row)
  /\ pc' = [pc EXCEPT ![i] = "mergeSearch"]
  /\ UNCHANGED <<last, facts, conf, replaced, index, left, mine, handVars, groups,
                 decisions, historyVars>>

\* A merged fact's candidates are searched after it was stored.
SearchMerged(i) ==
  /\ pc[i] = "mergeSearch"
  /\ AddGroup(i, Searchable \ mine[i])
  /\ NextFact(i)
  /\ UNCHANGED <<rowVars, mine, decisions, historyVars>>

-----------------------------------------------------------------------------
(* Engine.Ingest: the contradiction review of all groups.                  *)

\* The LLM answers, or fails and nothing is decided.
Review(i) ==
  /\ pc[i] = "fact" /\ ~MoreFacts(i)
  /\ \E D \in SUBSET groups[i] : decisions' = [decisions EXCEPT ![i] = D]
  /\ pc' = [pc EXCEPT ![i] = "apply"]
  /\ UNCHANGED <<rowVars, left, mine, handVars, groups, historyVars>>

CheckDecision(i) ==
  /\ pc[i] = "apply"
  /\ \E d \in decisions[i] :
       /\ decisions' = [decisions EXCEPT ![i] = @ \ {d}]
       /\ IF MayRetire(d[1], d[2])
            THEN /\ new' = [new EXCEPT ![i] = [row |-> d[1], conf |-> conf[d[1]]]]
                 /\ old' = [old EXCEPT ![i] = [row |-> d[2], conf |-> conf[d[2]]]]
                 /\ pc' = [pc EXCEPT ![i] = "applyRetire"]
            ELSE UNCHANGED <<new, old, pc>>
  /\ UNCHANGED <<rowVars, left, mine, vec, candidates, groups, historyVars>>

RetireContradicted(i) ==
  /\ pc[i] = "applyRetire"
  /\ Retire(new[i].row, old[i].row)
  /\ new' = [new EXCEPT ![i] = NoFact]
  /\ old' = [old EXCEPT ![i] = NoFact]
  /\ pc' = [pc EXCEPT ![i] = "apply"]
  /\ UNCHANGED <<last, facts, conf, replaced, index, left, mine, vec, candidates, groups,
                 decisions, historyVars>>

-----------------------------------------------------------------------------
(* Clients.                                                                *)

Edit == edits < MaxEdits /\ edits' = edits + 1

\* SupersedeWithContent: one transaction, whoever retired the fact before; the
\* new fact takes the confidence of the old one and is not embedded.
Supersede(f) ==
  /\ Edit /\ f \in facts /\ last < MaxRows
  /\ last' = last + 1
  /\ facts' = facts \cup {last'}
  /\ conf' = [conf EXCEPT ![last'] = conf[f]]
  /\ supBy' = [supBy EXCEPT ![f] = last']
  /\ UNCHANGED <<replaced, index, callVars, merged, patched>>

\* UpdateFact
Patch(f) ==
  /\ Edit /\ f \in facts
  /\ \E c \in Confidences : conf' = [conf EXCEPT ![f] = c]
  /\ patched' = patched \cup {f}
  /\ UNCHANGED <<last, facts, supBy, replaced, index, callVars, merged>>

\* Defect: foreign keys are off.
UnreferencedAlways(D) == TRUE
\* superseded_by REFERENCES facts(id), checked when the statement ends.
Unreferenced(D) == \A f \in facts \ D : supBy[f] \notin D

\* DeleteFactsBySourcePattern and DeleteExpiredFacts: all of them or none.
Delete(D) ==
  /\ Edit /\ D # {} /\ Unreferenced(D)
  /\ facts' = facts \ D
  /\ UNCHANGED <<last, conf, supBy, replaced, index, callVars, merged, patched>>

\* SupersedeRealtimeBySession, by the batch adapter: what was stored so far under
\* the source of a session, by one call or by several.
ReplaceRealtime(I) ==
  /\ Edit
  /\ replaced' = replaced \cup {f \in Active : \E i \in I : f \in mine[i]}
  /\ replaced' # replaced
  /\ UNCHANGED <<last, facts, conf, supBy, index, callVars, merged, patched>>

-----------------------------------------------------------------------------
IngestStep(i) ==
  \/ NoDuplicate(i) \/ FindDuplicate(i)
  \/ ClassifySkip(i) \/ ClassifySupersede(i) \/ ClassifyMerge(i)
  \/ SearchCandidates(i) \/ Create(i) \/ CreateFails(i) \/ Embed(i)
  \/ CheckDuplicate(i) \/ RetireDuplicate(i)
  \/ CreateMerged(i) \/ EmbedMerged(i) \/ RetireMerged(i) \/ SearchMerged(i)
  \/ Review(i) \/ CheckDecision(i) \/ RetireContradicted(i)

ClientStep ==
  \/ \E f \in facts : Supersede(f) \/ Patch(f)
  \/ \E D \in SUBSET facts : Delete(D)
  \/ \E I \in SUBSET Ingests : ReplaceRealtime(I)

Next == (\E i \in Ingests : IngestStep(i)) \/ ClientStep

\* No step has to be taken: a call may stop anywhere, as when its process dies or
\* its request's context ends.
Spec == Init /\ [][Next]_vars

-----------------------------------------------------------------------------
HandRow == {"embed", "check", "retire", "mergeEmbed", "mergeRetire", "mergeSearch",
            "applyRetire"}
HandOld == {"classify", "mergeCreate", "mergeEmbed", "mergeRetire", "mergeSearch",
            "check", "retire", "applyRetire"}

TypeOK ==
  /\ last \in 0..MaxRows
  /\ facts \subseteq 1..last /\ index \subseteq 1..last /\ replaced \subseteq 1..last
  /\ merged \subseteq 1..last /\ patched \subseteq 1..last
  /\ conf \in [Rows -> Confidences \cup {None}]
  /\ \A f \in 1..last : conf[f] \in Confidences
  /\ supBy \in [Rows -> 1..last \cup {None}]
  /\ pc \in [Ingests -> HandRow \cup HandOld \cup
                        {"fact", "search", "create", "apply"}]
  /\ left \in [Ingests -> Nat]
  /\ mine \in [Ingests -> SUBSET (1..last)]
  /\ new \in [Ingests -> [row : 1..last \cup {None}, conf : Confidences \cup {None}]]
  /\ old \in [Ingests -> [row : 1..last \cup {None}, conf : Confidences \cup {None}]]
  /\ vec \in [Ingests -> BOOLEAN]
  /\ candidates \in [Ingests -> SUBSET (1..last)]
  /\ groups \in [Ingests -> SUBSET ((1..last) \X (1..last))]
  /\ decisions \in [Ingests -> SUBSET ((1..last) \X (1..last))]
  /\ edits \in Nat
  /\ \A i \in Ingests :
       /\ pc[i] \in HandRow => new[i].row \in 1..last
       /\ pc[i] \in HandOld => old[i].row \in 1..last
       /\ old[i] # NoFact => old[i].row # None
       /\ pc[i] \in {"classify", "search", "create", "mergeCreate"} =>
            new[i].conf \in Confidences
       /\ pc[i] \notin {"fact", "apply", "applyRetire"} => left[i] > 0

\* A fact is superseded by a later one, although reviews of concurrent calls
\* answer long after their candidates were read; only a fact merged from a near-
\* duplicate can supersede a later one.
NewerUnlessMerged ==
  \A f \in facts : supBy[f] # None => supBy[f] > f \/ supBy[f] \in merged

\* The chain of a superseded fact is not broken: what replaced it is stored, as
\* a call may want to retire with a fact that a client deleted meanwhile, and a
\* client may delete what replaced another fact.
ChainsKept == \A f \in facts : supBy[f] # None => supBy[f] \in facts

\* No low-confidence fact retires a high-confidence one, by review, merge or
\* replacement, unless a client changed a confidence.
GuardRespected ==
  \A f \in facts :
    supBy[f] # None /\ {f, supBy[f]} \cap patched = {}
      => ~(conf[supBy[f]] = "low" /\ conf[f] = "high")

\* Of several calls that want to retire a fact one does: no review, merge or
\* late answer overwrites a retirement; only a client's replacement may.
RetirementFinal ==
  [][\A f \in facts :
       supBy[f] # None /\ supBy'[f] # supBy[f] => supBy'[f] = last + 1]_vars

\* As documented, knowledge never disappears: whatever retires what, a chain of
\* superseded facts ends in one that no other fact superseded.
KnowledgeKept ==
  \A S \in SUBSET facts : S # {} => \E f \in S : supBy[f] \notin S

\* As documented, a fact's candidates are collected once it is in the index: of
\* two active facts of different calls at least one was offered as a candidate
\* of the other.
ContradictionsMeet ==
  \A i, j \in Ingests :
    i # j /\ pc[i] = "apply" /\ pc[j] = "apply"
      => \A f \in mine[i] \cap Searchable, g \in mine[j] \cap Searchable :
           <<f, g>> \in groups[i] \/ <<g, f>> \in groups[j]

=============================================================================
