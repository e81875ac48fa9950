------------------------------ MODULE Taxonomy ------------------------------
(***************************************************************************)
(* Taxonomy evolution (internal/taxonomy).  Signals about the types of the *)
(* stored facts are collected, an LLM proposes changes, each proposal is   *)
(* validated against the facts or by the LLM, and the applied ones are     *)
(* merged into the configured types.  Every statement reads the facts as   *)
(* they are by then: ingests and gc go on beside it.  The package has no   *)
(* caller yet: its functions may be called in any order, one at a time,    *)
(* and applying a validated proposal is left to that caller.               *)
(***************************************************************************)
EXTENDS Integers, FiniteSets, Sequences, SequencesExt

CONSTANTS
  Facts, TypeOf,   \* facts that ingests may store, fact -> type
  Unsure,          \* facts of confidence below 0.5, the others being certain
  Base,            \* category -> the configured types, in their order
  Answers,         \* changes an LLM may propose: [action, category, type, name]
  None,            \* the empty name: of a type, or in a proposal's definition
  MaxAnswer,       \* bound: proposals in one answer
  MaxCollections, MaxReviews, MaxClock,   \* bounds of the steps they name
  Limit, AppliedLimit,   \* LIMIT 100 of the lists, 500 of the applied proposals
  MinFactsForRemove      \* minFactsForRemove

Categories == DOMAIN Base
Actions == {"add", "remove", "merge", "rename"}   \* those that are validated
Ids == (1..MaxReviews) \X Answers      \* a proposal and the review it is from

ASSUME FactsAssumption == IsFiniteSet(Facts) /\ Unsure \subseteq Facts
ASSUME BaseAssumption ==
  Base = [c \in Categories |-> Base[c]] /\ \A c \in Categories : Base[c] \in Seq(ToSet(Base[c]))
ASSUME AnswersAssumption == IsFiniteSet(Answers)
ASSUME NoneAssumption == None \notin Ids \cup {"validated", "rejected"}
ASSUME BoundsAssumption ==
  {MaxCollections, MaxReviews, MaxClock} \subseteq Nat

VARIABLES
  clock,        \* seconds, the resolution of created_at
  facts,        \* the stored facts
  signals,      \* rows of taxonomy_signals: [run, kind, type, count, at]
  status, at,   \* columns of taxonomy_proposals; "none": no row
  types,        \* what EffectiveTypesWithProposals returned last
  (* the call under way *)
  pc,
  collections, reviews,  \* calls so far
  todo,         \* signals to write, or proposals to validate
  cur,          \* the proposal being validated
  verdict,
  (* history *)
  known,        \* facts ever stored
  before,       \* the facts when the validation of a proposal began
  basis         \* the proposals that `types' was made from

storeVars == <<facts, known>>
callVars == <<pc, todo, cur, verdict>>
historyVars == <<before, basis>>
vars == <<clock, storeVars, signals, status, at, types, callVars, collections, reviews, historyVars>>

OfType(S, t) == {f \in S : TypeOf[f] = t}
WithStatus(s) == {i \in Ids : status[i] = s}
Decided == {"validated", "rejected", "applied"}
Used(S) == {TypeOf[f] : f \in S}
FactTypes == ToSet(Base["fact"])

\* ORDER BY created_at DESC LIMIT n: equal times come in any order.
Newest(S, created, n) ==
  {T \in SUBSET S : /\ Cardinality(T) = IF Cardinality(S) < n THEN Cardinality(S) ELSE n
                    /\ \A x \in T, y \in S \ T : created[x] >= created[y]}

Init ==
  /\ clock = 0 /\ facts = {} /\ known = {} /\ signals = {}
  /\ status = [i \in Ids |-> "none"] /\ at = [i \in Ids |-> 0]
  /\ types = Base /\ basis = {}
  /\ pc = "idle" /\ todo = {} /\ cur = None /\ verdict = None
  /\ collections = 0 /\ reviews = 0
  /\ before = [i \in Ids |-> {}]

-----------------------------------------------------------------------------
(* The rest of the program.                                                *)

Tick ==
  /\ clock < MaxClock
  /\ clock' = clock + 1
  /\ UNCHANGED <<storeVars, signals, status, at, types, callVars, collections, reviews, historyVars>>

CreateFact(f) ==
  /\ f \notin known
  /\ facts' = facts \cup {f} /\ known' = known \cup {f}
  /\ UNCHANGED <<clock, signals, status, at, types, callVars, collections, reviews, historyVars>>

DeleteExpiredFacts(S) ==
  /\ S # {} /\ S \subseteq facts
  /\ facts' = facts \ S
  /\ UNCHANGED <<clock, known, signals, status, at, types, callVars, collections, reviews, historyVars>>

\* "Validated proposals can be applied": by UpdateTaxonomyProposalStatus.
Apply(i) ==
  /\ status[i] = "validated"
  /\ status' = [status EXCEPT ![i] = "applied"]
  /\ UNCHANGED <<clock, storeVars, signals, at, types, callVars, collections, reviews, historyVars>>

-----------------------------------------------------------------------------
(* SignalCollector.CollectAll: three collectors, each a query and then an  *)
(* insert per signal.                                                      *)

Signal(kind, t, n) == [run |-> collections', kind |-> kind, type |-> t, count |-> n, at |-> clock]
collectCustomTypes ==
  {Signal("custom_frequency", t, Cardinality(OfType(facts, t))) : t \in Used(facts) \ FactTypes}
collectUnusedTypes == {Signal("type_unused", t, 0) : t \in FactTypes \ Used(facts)}
\* AVG(confidence) < 0.5
UnsureTypes ==
  {t \in Used(facts) :
     2 * Cardinality(OfType(facts, t) \cap Unsure) > Cardinality(OfType(facts, t))}
collectLowConfidence ==
  {Signal("low_confidence", t, Cardinality(OfType(facts, t))) : t \in UnsureTypes}

Collecting == [custom |-> "unused", unused |-> "low", low |-> "idle"]

CollectAll ==
  /\ pc = "idle" /\ collections < MaxCollections
  /\ collections' = collections + 1
  /\ pc' = "custom"
  /\ UNCHANGED <<clock, storeVars, signals, status, at, types, todo, cur, verdict, reviews, historyVars>>

\* Nobody else reads or writes signals, so the inserts are one step.  One that
\* fails ends the call: what was written stays.
Collect ==
  /\ pc \in DOMAIN Collecting
  /\ UNCHANGED collections
  /\ LET found == CASE pc = "custom" -> collectCustomTypes
                    [] pc = "unused" -> collectUnusedTypes
                    [] pc = "low" -> collectLowConfidence
     IN \E written \in SUBSET found :
          /\ signals' = signals \cup written
          /\ pc' = IF written = found THEN Collecting[pc] ELSE "idle"
  /\ UNCHANGED <<clock, storeVars, status, at, types, todo, cur, verdict, reviews, historyVars>>

-----------------------------------------------------------------------------
(* Evolver.ReviewTaxonomy                                                  *)

\* Nothing ever sets resolved_by: a signal is sent with every review.
Actionable == {s \in signals : s.kind \in {"custom_frequency", "low_confidence"}}

\* Whether enough signals came together (ShouldReview) is for the caller to ask.  The
\* newest ones may all be of unused types, which are not sent.
BeginReview ==
  /\ pc = "idle" /\ reviews < MaxReviews
  /\ \E T \in Newest(signals, [s \in signals |-> s.at], Limit) : T \cap Actionable # {}
  /\ pc' = "review" /\ reviews' = reviews + 1
  /\ UNCHANGED <<clock, storeVars, signals, status, at, types, todo, cur, verdict, collections, historyVars>>

\* Of the changes the LLM proposes those are stored whose insert succeeds; none
\* if the call fails or the answer is no JSON.
ReviewTaxonomy ==
  /\ pc = "review" /\ pc' = "idle"
  /\ \E A \in SUBSET Answers :
       /\ Cardinality(A) <= MaxAnswer
       /\ LET new == {<<reviews, a>> : a \in A} IN
          /\ status' = [i \in Ids |-> IF i \in new THEN "proposed" ELSE status[i]]
          /\ at' = [i \in Ids |-> IF i \in new THEN clock ELSE at[i]]
  /\ UNCHANGED <<clock, storeVars, signals, types, todo, cur, verdict, collections, reviews, historyVars>>

-----------------------------------------------------------------------------
(* Evolver.ValidateProposals                                               *)

\* Defect: proposals of any status are listed.
ListAllProposals == {i \in Ids : status[i] # "none"}
ListTaxonomyProposals == WithStatus("proposed")

ValidateProposals ==
  /\ pc = "idle"
  /\ \E T \in Newest(ListTaxonomyProposals, at, Limit) :
       T # {} /\ todo' = T
  /\ pc' = "next"
  /\ before' = [i \in Ids |-> IF i \in todo' THEN facts ELSE before[i]]
  /\ UNCHANGED <<clock, storeVars, signals, status, at, types, cur, verdict, collections, reviews, basis>>

\* Newest first.  One of an unknown action is passed over: it stays "proposed".
NextProposal ==
  /\ pc = "next" /\ todo # {}
  /\ \E i \in todo :
       /\ \A j \in todo : at[i] >= at[j]
       /\ todo' = todo \ {i}
       /\ IF i[2].action \in Actions
          THEN cur' = i /\ pc' = i[2].action
          ELSE UNCHANGED <<cur, pc>>
  /\ UNCHANGED <<clock, storeVars, signals, status, at, types, verdict, collections, reviews, historyVars>>

Validated ==
  /\ pc = "next" /\ todo = {}
  /\ pc' = "idle"
  /\ UNCHANGED <<clock, storeVars, signals, status, at, types, todo, cur, verdict, collections, reviews, historyVars>>

\* The check of `cur' goes on with p, or is over with a verdict to write.
GoOn(p) == pc' = p /\ UNCHANGED <<cur, verdict>>
Decide(v) == pc' = "update" /\ verdict' = v /\ UNCHANGED cur
\* Not decided: the proposal stays "proposed" and the next call tries again.
Leave == pc' = "next" /\ cur' = None /\ UNCHANGED verdict
CheckOnly ==
  UNCHANGED <<clock, storeVars, signals, status, at, types, todo, collections, reviews, historyVars>>

\* SUM(count) > 0
validateAdd ==
  /\ pc = "add"
  /\ IF \E s \in signals : s.kind = "custom_frequency" /\ s.type = cur[2].type /\ s.count > 0
     THEN Decide("validated") ELSE Leave
  /\ CheckOnly

\* Defect: the type's facts are not counted.
ManyFacts == pc = "remove" /\ GoOn("total") /\ CheckOnly
\* Whatever the category, facts are counted.
validateRemove ==
  /\ pc = "remove"
  /\ IF OfType(facts, cur[2].type) = {} THEN GoOn("total") ELSE Leave
  /\ CheckOnly
TotalFacts ==
  /\ pc = "total"
  /\ IF Cardinality(facts) >= MinFactsForRemove THEN Decide("validated") ELSE Leave
  /\ CheckOnly

\* Facts of both types may have embeddings whose centroids are too far apart.
validateMerge ==
  /\ pc = "merge"
  /\ IF cur[2].name = None THEN Decide("rejected")
     ELSE \/ GoOn("ask")
          \/ /\ OfType(facts, cur[2].type) # {} /\ OfType(facts, cur[2].name) # {}
             /\ Decide("rejected")
  /\ CheckOnly

\* With the empty name ListFacts has no filter: the samples are of any type.
ListFacts(t) == IF t = None THEN facts ELSE OfType(facts, t)
validateRename ==
  /\ pc = "rename"
  /\ IF cur[2].name = None \/ ListFacts(cur[2].type) = {} THEN Decide("rejected")
     ELSE GoOn("ask")
  /\ CheckOnly

\* should_merge, should_rename, or an error.
Confirm ==
  /\ pc = "ask"
  /\ Decide("validated") \/ Decide("rejected") \/ Leave
  /\ CheckOnly

\* The statement does not look at the status; its error is logged.
UpdateTaxonomyProposalStatus ==
  /\ pc = "update" /\ pc' = "next"
  /\ status' = [status EXCEPT ![cur] = verdict] \/ UNCHANGED status
  /\ cur' = None /\ verdict' = None
  /\ UNCHANGED <<clock, storeVars, signals, at, types, todo, collections, reviews, historyVars>>

\* Any other error ends the check, the end of the process ends the call.
CheckFails ==
  /\ pc \in Actions \cup {"total"} /\ Leave /\ CheckOnly
Stops ==
  /\ pc # "idle" /\ pc' = "idle"
  /\ todo' = {} /\ cur' = None /\ verdict' = None
  /\ UNCHANGED <<clock, storeVars, signals, status, at, types, collections, reviews, historyVars>>

-----------------------------------------------------------------------------
(* Evolver.EffectiveTypesWithProposals                                     *)

appendType(tc, c, name) == IF c \in Categories THEN [tc EXCEPT ![c] = Append(@, name)] ELSE tc
\* The types of another name, in their order.
filter(s, name) ==
  LET out[n \in 0..Len(s)] ==
        IF n = 0 THEN <<>> ELSE IF s[n] = name THEN out[n - 1] ELSE Append(out[n - 1], s[n])
  IN out[Len(s)]
removeType(tc, c, name) ==
  IF c \in Categories THEN [tc EXCEPT ![c] = filter(@, name)] ELSE tc
\* The first type of that name.
rename(s, old, new) ==
  LET first == CHOOSE k \in DOMAIN s : s[k] = old /\ \A j \in 1..k - 1 : s[j] # old
  IN IF Contains(s, old) THEN [s EXCEPT ![first] = new] ELSE s
renameType(tc, c, old, new) ==
  IF c \in Categories THEN [tc EXCEPT ![c] = rename(@, old, new)] ELSE tc

\* Defect: a merge leaves its source.
MergeProposalIgnored(tc, p) ==
  CASE p.action = "add" -> appendType(tc, p.category, IF p.name = None THEN p.type ELSE p.name)
    [] p.action = "remove" -> removeType(tc, p.category, p.type)
    [] p.action = "rename" -> renameType(tc, p.category, p.type, p.name)
    [] OTHER -> tc
MergeProposal(tc, p) ==
  CASE p.action = "add" -> appendType(tc, p.category, IF p.name = None THEN p.type ELSE p.name)
    [] p.action \in {"remove", "merge"} -> removeType(tc, p.category, p.type)
    [] p.action = "rename" /\ p.name # None -> renameType(tc, p.category, p.type, p.name)
    [] OTHER -> tc

\* Proposals, newest first.
Orders(S) == {o \in SetToSeqs(S) : \A j, k \in DOMAIN o : j < k => at[o[j]] >= at[o[k]]}

MergeAll(o) ==
  LET result[n \in 0..Len(o)] ==
        IF n = 0 THEN Base ELSE MergeProposal(result[n - 1], o[n][2])
  IN result[Len(o)]

EffectiveTypesWithProposals ==
  /\ basis' \in Newest(WithStatus("applied"), at, AppliedLimit)
  /\ \E o \in Orders(basis') : types' = MergeAll(o)
  /\ UNCHANGED <<clock, storeVars, signals, status, at, callVars, collections, reviews, before>>

-----------------------------------------------------------------------------
CheckStep ==
  \/ validateAdd \/ validateRemove \/ TotalFacts \/ validateMerge \/ validateRename
  \/ Confirm \/ CheckFails \/ UpdateTaxonomyProposalStatus

Next ==
  \/ Tick
  \/ \E f \in Facts : CreateFact(f)
  \/ \E S \in SUBSET facts : DeleteExpiredFacts(S)
  \/ \E i \in Ids : Apply(i)
  \/ CollectAll \/ Collect
  \/ BeginReview \/ ReviewTaxonomy
  \/ ValidateProposals \/ NextProposal \/ Validated \/ CheckStep
  \/ Stops
  \/ EffectiveTypesWithProposals

Spec == Init /\ [][Next]_vars

-----------------------------------------------------------------------------
\* Shapes, and: what is being validated is a proposal that is not decided.
TypeOK ==
  /\ clock \in Nat /\ collections \in Nat /\ reviews \in 0..MaxReviews
  /\ facts \subseteq known /\ known \subseteq Facts
  /\ status \in [Ids -> {"none", "proposed"} \cup Decided]
  /\ at \in [Ids -> Nat] /\ before \in [Ids -> SUBSET Facts]
  /\ pc \in {"idle", "review", "next", "total", "ask", "update"} \cup Actions \cup DOMAIN Collecting
  /\ todo \subseteq WithStatus("proposed")
  /\ pc \in {"idle", "review"} \cup DOMAIN Collecting => todo = {}
  /\ cur # None => cur \in WithStatus("proposed") \ todo
  /\ cur # None <=> pc \in {"total", "ask", "update"} \cup Actions
  /\ verdict \in {None, "validated", "rejected"} /\ (verdict # None <=> pc = "update")

\* A decision stays: what was validated can only be applied, and what was
\* rejected or applied is never decided again, though the statement that writes
\* a verdict comes long after the list it is for, and looks at no status.
DecisionsStay ==
  [][\A i \in Ids : status[i] \in Decided =>
       \/ status'[i] = status[i]
       \/ status[i] = "validated" /\ status'[i] = "applied"]_vars

\* A validated change has a ground in the facts: the type to add was the type of
\* a stored fact and is not configured; no fact of the type to remove that was
\* there when its validation began is left, though ingests go on between the two
\* counts and the verdict; the type to rename had facts, or is the empty name.  Facts
\* of the type to remove that are stored after they were counted do not count.
ValidatedOnEvidence ==
  \A i \in WithStatus("validated") \cup WithStatus("applied") :
    LET p == i[2] IN
    /\ p.action = "add" => p.type \in Used(known) \ FactTypes
    /\ p.action = "remove" => OfType(before[i] \cap facts, p.type) = {}
    /\ p.action = "rename" => p.name # None /\ (p.type # None => p.type \in Used(known))
    /\ p.action = "merge" => p.name # None

\* Where no two applied proposals concern one type, the order they are merged in
\* does not matter: the effective types are the configured ones without those
\* removed, merged or renamed, with those added and the new names.  Of a type
\* that is configured twice only the first is renamed.
Concerning(S, c) == {i \in S : i[2].category = c}
Touched(p) == {p.type} \cup ({p.name} \ {None})
Twice(s, t) == \E j, k \in DOMAIN s : j # k /\ s[j] = t /\ s[k] = t
Following(base, proposals) ==
  LET Of(action) == {p \in proposals : p.action = action}
      renamed == {p \in Of("rename") : Contains(base, p.type)}
  IN (ToSet(base) \ ({p.type : p \in Of("remove") \cup Of("merge")}
                       \cup {p.type : p \in {p \in renamed : ~Twice(base, p.type)}}))
       \cup {IF p.name = None THEN p.type ELSE p.name : p \in Of("add")}
       \cup {p.name : p \in renamed}

TypesFollowProposals ==
  \A c \in Categories :
    (\A i, j \in Concerning(basis, c) : i # j => Touched(i[2]) \cap Touched(j[2]) = {})
      => ToSet(types[c]) = Following(Base[c], {i[2] : i \in Concerning(basis, c)})

\* spec/ARCHITECTURE.md:309: "LLM confirmation with sample facts of the type".  Not
\* so if the type has the empty name: its samples are of other types.
RenamedTypeHadFacts ==
  \A i \in WithStatus("validated") : i[2].action = "rename" => i[2].type \in Used(known)

\* spec/ARCHITECTURE.md:319: "merge proposals remove the source type (the
\* merged-from type disappears from the taxonomy)".  Not so if it was added by an
\* earlier proposal: the newest is merged first.
MergedTypeDisappears ==
  \A i \in basis : i[2].action = "merge" /\ i[2].category \in Categories =>
    ~Contains(types[i[2].category], i[2].type)
=============================================================================
