--------------------------- MODULE TaxonomyProofs ---------------------------
(***************************************************************************)
(* Proofs about Taxonomy, for any facts, types, proposals and bounds.      *)
(***************************************************************************)
EXTENDS Taxonomy, FiniteSetTheorems, WellFoundedInduction, TLAPS

-----------------------------------------------------------------------------
(* Type correctness.                                                       *)

\* Initially the type invariant holds.
LEMMA TypeInit == Init => TypeOK
<1> SUFFICES ASSUME Init PROVE TypeOK
    OBVIOUS
<1>1. clock \in Nat /\ collections \in Nat /\ reviews \in 0..MaxReviews
  BY BoundsAssumption DEF Init
<1>2. todo = {} /\ cur = None /\ verdict = None /\ pc = "idle"
  BY DEF Init
<1>3. status \in [Ids -> {"none", "proposed"} \cup Decided] /\ at \in [Ids -> Nat]
      /\ before \in [Ids -> SUBSET Facts]
  BY DEF Init
<1>4. facts \subseteq known /\ known \subseteq Facts
  BY DEF Init
<1> QED
  BY <1>1, <1>2, <1>3, <1>4 DEF TypeOK, Actions, Collecting

\* A step of the check of one proposal keeps the call's variables in shape.
LEMMA CheckType ==
  ASSUME TypeOK, CheckOnly, pc \in Actions \cup {"total", "ask"},
         \/ \E p \in {"total", "ask"} : GoOn(p)
         \/ \E v \in {"validated", "rejected"} : Decide(v)
         \/ Leave
  PROVE  TypeOK'
<1>1. cur # None /\ verdict = None
  BY DEF TypeOK, Actions
<1>2. CASE \E p \in {"total", "ask"} : GoOn(p)
  BY <1>1, <1>2 DEF TypeOK, CheckOnly, GoOn, storeVars, historyVars, WithStatus, Actions, Collecting
<1>3. CASE \E v \in {"validated", "rejected"} : Decide(v)
  BY <1>1, <1>3, NoneAssumption DEF TypeOK, CheckOnly, Decide, storeVars, historyVars, WithStatus, Actions, Collecting
<1>4. CASE Leave
  BY <1>1, <1>4 DEF TypeOK, CheckOnly, Leave, storeVars, historyVars, WithStatus, Actions, Collecting
<1> QED
  BY <1>2, <1>3, <1>4

\* Every step keeps the type invariant.
LEMMA TypeStep == TypeOK /\ [Next]_vars => TypeOK'
<1> SUFFICES ASSUME TypeOK, [Next]_vars PROVE TypeOK'
    OBVIOUS
<1> USE DEF TypeOK, WithStatus
<1>1. CASE Tick
  BY <1>1 DEF Tick, callVars, storeVars, historyVars
<1>2. CASE \E f \in Facts : CreateFact(f)
  BY <1>2 DEF CreateFact, callVars, historyVars
<1>3. CASE \E S \in SUBSET facts : DeleteExpiredFacts(S)
  BY <1>3 DEF DeleteExpiredFacts, callVars, historyVars
<1>4. CASE \E i \in Ids : Apply(i)
  BY <1>4 DEF Apply, callVars, storeVars, historyVars, Decided
<1>5. CASE CollectAll
  BY <1>5 DEF CollectAll, storeVars, historyVars, Actions, Collecting
<1>6. CASE Collect
  BY <1>6 DEF Collect, storeVars, historyVars, Actions, Collecting
<1>7. CASE BeginReview
  BY <1>7, BoundsAssumption DEF BeginReview, storeVars, historyVars, Actions, Collecting
<1>8. CASE ReviewTaxonomy
  BY <1>8 DEF ReviewTaxonomy, storeVars, historyVars, Actions, Collecting
<1>9. CASE ValidateProposals
  <2>1. todo' \subseteq WithStatus("proposed")
    BY <1>9 DEF ValidateProposals, Newest, ListTaxonomyProposals
  <2>2. before' \in [Ids -> SUBSET Facts]
    BY <1>9 DEF ValidateProposals
  <2> QED
    BY <1>9, <2>1, <2>2 DEF ValidateProposals, storeVars, Actions, Collecting
<1>10. CASE NextProposal
  <2>1. PICK i \in todo :
          /\ todo' = todo \ {i}
          /\ IF i[2].action \in Actions
             THEN cur' = i /\ pc' = i[2].action
             ELSE UNCHANGED <<cur, pc>>
    BY <1>10 DEF NextProposal
  <2>2. i \in Ids /\ pc = "next" /\ verdict = None /\ cur = None
    BY <1>10, <2>1 DEF NextProposal, Actions
  <2>3. CASE i[2].action \in Actions
    <3>1. pc' \in Actions /\ cur' = i /\ i # None
      BY <2>1, <2>2, <2>3, NoneAssumption
    <3> QED
      BY <1>10, <2>1, <2>2, <3>1 DEF NextProposal, storeVars, historyVars, Actions, Collecting
  <2>4. CASE i[2].action \notin Actions
    BY <1>10, <2>1, <2>2, <2>4 DEF NextProposal, storeVars, historyVars, Actions, Collecting
  <2> QED
    BY <2>3, <2>4
<1>11. CASE Validated
  BY <1>11 DEF Validated, storeVars, historyVars, Actions, Collecting
<1>12. CASE CheckStep
  <2>1. CASE UpdateTaxonomyProposalStatus
    <3>1. cur \in Ids /\ verdict \in Decided
      BY <2>1 DEF UpdateTaxonomyProposalStatus, Decided
    <3> QED
      BY <2>1, <3>1 DEF UpdateTaxonomyProposalStatus, storeVars, historyVars, Actions, Collecting
  <2>2. CASE validateAdd \/ validateRemove \/ TotalFacts \/ validateMerge \/ validateRename
             \/ Confirm \/ CheckFails
    <3>1. pc \in Actions \cup {"total", "ask"} /\ CheckOnly
      BY <2>2 DEF validateAdd, validateRemove, TotalFacts, validateMerge, validateRename,
                  Confirm, CheckFails, Actions
    <3>2. \/ \E p \in {"total", "ask"} : GoOn(p)
          \/ \E v \in {"validated", "rejected"} : Decide(v)
          \/ Leave
      BY <2>2 DEF validateAdd, validateRemove, TotalFacts, validateMerge, validateRename,
                  Confirm, CheckFails
    <3> QED
      BY <3>1, <3>2, CheckType
  <2> QED
    BY <1>12, <2>1, <2>2 DEF CheckStep
<1>13. CASE Stops
  BY <1>13 DEF Stops, storeVars, historyVars, Actions, Collecting
<1>14. CASE EffectiveTypesWithProposals
  BY <1>14 DEF EffectiveTypesWithProposals, callVars, storeVars
<1>15. CASE UNCHANGED vars
  BY <1>15 DEF vars, callVars, storeVars, historyVars
<1> QED
  BY <1>1, <1>2, <1>3, <1>4, <1>5, <1>6, <1>7, <1>8, <1>9, <1>10, <1>11, <1>12, <1>13, <1>14, <1>15
  DEF Next

\* The type invariant holds throughout, for any facts, types and proposals.
THEOREM TypeCorrect == Spec => []TypeOK
<1> QED
  BY TypeInit, TypeStep, PTL DEF Spec

-----------------------------------------------------------------------------
(* Decisions stay.                                                         *)

\* A proposal has a row only if its review was answered.
Reviewed == \A i \in Ids : status[i] # "none" => i[1] \in 1..(IF pc = "review" THEN reviews - 1 ELSE reviews)

LEMMA ReviewedStep == TypeOK /\ Reviewed /\ [Next]_vars => Reviewed'
<1> SUFFICES ASSUME TypeOK, Reviewed, [Next]_vars PROVE Reviewed'
    OBVIOUS
<1> reviews \in Nat /\ MaxReviews \in Nat
  BY BoundsAssumption DEF TypeOK
<1>1. CASE BeginReview
  BY <1>1 DEF BeginReview, Reviewed
<1>2. CASE ReviewTaxonomy
  BY <1>2 DEF ReviewTaxonomy, Reviewed, Ids
<1>3. CASE pc # "review" /\ pc' # "review" /\ UNCHANGED <<status, reviews>>
  BY <1>3 DEF Reviewed
<1>4. CASE UNCHANGED <<status, reviews, pc>>
  BY <1>4 DEF Reviewed
<1>5. CASE \E i \in Ids : Apply(i)
  BY <1>5 DEF Apply, Reviewed, callVars, TypeOK
<1>6. CASE UpdateTaxonomyProposalStatus
  BY <1>6 DEF UpdateTaxonomyProposalStatus, Reviewed, TypeOK, WithStatus, Actions
<1>7. CASE Stops
  BY <1>7 DEF Stops, Reviewed
<1>8. CASE CollectAll \/ Collect \/ ValidateProposals \/ Validated
  BY <1>3, <1>8 DEF CollectAll, Collect, ValidateProposals, Validated, Collecting
<1>9. CASE NextProposal
  <2>1. pc' \in Actions \cup {"next"}
    BY <1>9 DEF NextProposal
  <2> QED
    BY <1>3, <1>9, <2>1 DEF NextProposal, Actions
<1>10. CASE CheckStep /\ ~UpdateTaxonomyProposalStatus
  BY <1>3, <1>10 DEF CheckStep, validateAdd, validateRemove, TotalFacts, validateMerge,
    validateRename, Confirm, CheckFails, GoOn, Decide, Leave, CheckOnly, Actions
<1>11. CASE Tick \/ (\E f \in Facts : CreateFact(f)) \/ (\E S \in SUBSET facts : DeleteExpiredFacts(S))
             \/ EffectiveTypesWithProposals \/ UNCHANGED vars
  BY <1>4, <1>11 DEF Tick, CreateFact, DeleteExpiredFacts, EffectiveTypesWithProposals, vars, callVars
<1> QED
  BY <1>1, <1>2, <1>5, <1>6, <1>7, <1>8, <1>9, <1>10, <1>11 DEF Next

\* A step that changes a proposal's status is one of three.
LEMMA StatusSteps ==
  ASSUME [Next]_vars, status' # status
  PROVE  \/ \E i \in Ids : Apply(i)
         \/ ReviewTaxonomy
         \/ UpdateTaxonomyProposalStatus
BY DEF Next, vars, Tick, CreateFact, DeleteExpiredFacts, CollectAll, Collect, BeginReview,
  ValidateProposals, NextProposal, Validated, CheckStep, validateAdd, validateRemove, TotalFacts,
  validateMerge, validateRename, Confirm, CheckFails, CheckOnly, Stops, EffectiveTypesWithProposals

LEMMA DecisionStep ==
  ASSUME TypeOK, Reviewed, [Next]_vars, NEW i \in Ids, status[i] \in Decided
  PROVE  \/ status'[i] = status[i]
         \/ status[i] = "validated" /\ status'[i] = "applied"
<1>1. CASE status' = status
  BY <1>1
<1>2. CASE \E j \in Ids : Apply(j)
  BY <1>2 DEF Apply, TypeOK
<1>3. CASE ReviewTaxonomy
  <2>1. PICK A \in SUBSET Answers :
          status' = [j \in Ids |-> IF j \in {<<reviews, a>> : a \in A} THEN "proposed" ELSE status[j]]
    BY <1>3 DEF ReviewTaxonomy
  <2>2. i[1] \in 1..(reviews - 1) /\ reviews \in Nat
    BY <1>3, BoundsAssumption DEF ReviewTaxonomy, Reviewed, Decided, TypeOK
  <2>3. i \notin {<<reviews, a>> : a \in A}
    BY <2>2
  <2> QED
    BY <2>1, <2>3
<1>4. CASE UpdateTaxonomyProposalStatus
  <2>1. cur \in Ids /\ status[cur] = "proposed"
    BY <1>4 DEF UpdateTaxonomyProposalStatus, TypeOK, WithStatus
  <2> QED
    BY <1>4, <2>1 DEF UpdateTaxonomyProposalStatus, TypeOK, Decided
<1> QED
  BY <1>1, <1>2, <1>3, <1>4, StatusSteps

\* What was decided is never decided again, whatever comes between the list of
\* proposals and the statement that writes a verdict (DecisionsStay).
THEOREM NoSecondVerdict == Spec => DecisionsStay
<1>1. Init => TypeOK /\ Reviewed
  BY TypeInit DEF Init, Reviewed
<1>2. TypeOK /\ Reviewed /\ [Next]_vars => TypeOK' /\ Reviewed'
  BY TypeStep, ReviewedStep
<1>3. TypeOK /\ Reviewed /\ [Next]_vars =>
        [\A i \in Ids : status[i] \in Decided =>
           \/ status'[i] = status[i]
           \/ status[i] = "validated" /\ status'[i] = "applied"]_vars
  BY DecisionStep
<1> QED
  BY <1>1, <1>2, <1>3, PTL DEF Spec, DecisionsStay

-----------------------------------------------------------------------------
(* Validated changes have a ground.                                        *)

\* What speaks for a proposal: ValidatedOnEvidence says it of the validated ones.
Ground(i) ==
  /\ i[2].action = "add" => i[2].type \in Used(known) \ FactTypes
  /\ i[2].action = "remove" => OfType(before[i] \cap facts, i[2].type) = {}
  /\ i[2].action = "rename" =>
       i[2].name # None /\ (i[2].type # None => i[2].type \in Used(known))
  /\ i[2].action = "merge" => i[2].name # None

\* Each proposal was last validated among facts stored by then.
BeforeKnown == \A i \in Ids : before[i] \subseteq known

\* A custom_frequency signal is for a type that a fact had and that is not configured.
SignalsGrounded ==
  \A s \in signals : s.kind = "custom_frequency" => s.type \in Used(known) \ FactTypes

\* What the check of the proposal in hand has read so far is its ground.
HandGrounded ==
  /\ pc \in Actions => cur[2].action = pc
  /\ pc = "total" => cur[2].action = "remove"
  /\ pc = "ask" => cur[2].action \in {"merge", "rename"}
  /\ pc \in {"total", "ask"} \/ (pc = "update" /\ verdict = "validated") => Ground(cur)

IInv == TypeOK /\ Reviewed /\ BeforeKnown /\ SignalsGrounded /\ HandGrounded /\ ValidatedOnEvidence

\* ValidatedOnEvidence in terms of Ground.
LEMMA EvidenceIsGround ==
  ValidatedOnEvidence <=> \A i \in WithStatus("validated") \cup WithStatus("applied") : Ground(i)
BY DEF ValidatedOnEvidence, Ground

\* Facts are stored once: only facts that were never stored before are added.
LEMMA FactSteps ==
  ASSUME [Next]_vars
  PROVE  known \subseteq known' /\ facts' \cap known \subseteq facts
<1>1. CASE \E f \in Facts : CreateFact(f)
  BY <1>1 DEF CreateFact
<1>2. CASE \E S \in SUBSET facts : DeleteExpiredFacts(S)
  BY <1>2 DEF DeleteExpiredFacts
<1>3. CASE UNCHANGED storeVars
  BY <1>3 DEF storeVars
<1> QED
  BY <1>1, <1>2, <1>3 DEF Next, vars, Tick, Apply, CollectAll, Collect, BeginReview, ReviewTaxonomy,
    ValidateProposals, NextProposal, Validated, CheckStep, validateAdd, validateRemove, TotalFacts,
    validateMerge, validateRename, Confirm, CheckFails, CheckOnly, UpdateTaxonomyProposalStatus,
    Stops, EffectiveTypesWithProposals

\* A ground stays one, unless a new validation of the proposal begins.
LEMMA GroundStays ==
  ASSUME BeforeKnown, [Next]_vars, NEW i \in Ids, before'[i] = before[i], Ground(i)
  PROVE  Ground(i)'
<1>1. Used(known) \subseteq Used(known')
  BY FactSteps DEF Used
<1>2. before'[i] \cap facts' \subseteq before[i] \cap facts
  BY FactSteps DEF BeforeKnown
<1>3. \A t : OfType(before[i] \cap facts, t) = {} => OfType(before'[i] \cap facts', t) = {}
  BY <1>2 DEF OfType
<1> QED
  BY <1>1, <1>3 DEF Ground

\* Only ValidateProposals changes what is remembered of the facts before.
LEMMA BeforeSteps ==
  ASSUME TypeOK, [Next]_vars, NEW i \in Ids, before'[i] # before[i]
  PROVE  ValidateProposals /\ status[i] = "proposed" /\ before'[i] = facts
<1>1. ValidateProposals
  BY DEF Next, vars, historyVars, Tick, CreateFact, DeleteExpiredFacts, Apply, CollectAll, Collect,
    BeginReview, ReviewTaxonomy, NextProposal, Validated, CheckStep, validateAdd, validateRemove,
    TotalFacts, validateMerge, validateRename, Confirm, CheckFails, CheckOnly,
    UpdateTaxonomyProposalStatus, Stops, EffectiveTypesWithProposals
<1>2. before' = [j \in Ids |-> IF j \in todo' THEN facts ELSE before[j]]
      /\ todo' \subseteq WithStatus("proposed")
  BY <1>1 DEF ValidateProposals, Newest, ListTaxonomyProposals
<1> QED
  BY <1>1, <1>2 DEF WithStatus

LEMMA BeforeKnownStep == TypeOK /\ BeforeKnown /\ [Next]_vars => BeforeKnown'
<1> SUFFICES ASSUME TypeOK, BeforeKnown, [Next]_vars, NEW i \in Ids PROVE before'[i] \subseteq known'
    BY DEF BeforeKnown
<1>1. CASE before'[i] = before[i]
  BY <1>1, FactSteps DEF BeforeKnown
<1>2. CASE before'[i] # before[i]
  BY <1>2, BeforeSteps, FactSteps DEF TypeOK
<1> QED
  BY <1>1, <1>2

LEMMA SignalsStep == TypeOK /\ SignalsGrounded /\ [Next]_vars => SignalsGrounded'
<1> SUFFICES ASSUME TypeOK, SignalsGrounded, [Next]_vars,
                    NEW s \in signals', s.kind = "custom_frequency"
             PROVE  s.type \in Used(known') \ FactTypes
    BY DEF SignalsGrounded
<1>1. CASE s \in signals
  BY <1>1, FactSteps DEF SignalsGrounded, Used
<1>2. CASE s \notin signals
  <2>1. Collect
    BY <1>2 DEF Next, vars, storeVars, Tick, CreateFact, DeleteExpiredFacts, Apply, CollectAll,
      BeginReview, ReviewTaxonomy, ValidateProposals, NextProposal, Validated, CheckStep,
      validateAdd, validateRemove, TotalFacts, validateMerge, validateRename, Confirm, CheckFails,
      CheckOnly, UpdateTaxonomyProposalStatus, Stops, EffectiveTypesWithProposals
  <2>2. s \in collectCustomTypes \cup collectUnusedTypes \cup collectLowConfidence
    <3>1. pc \in {"custom", "unused", "low"}
      BY <2>1 DEF Collect, Collecting
    <3>2. CASE pc = "custom"
      BY <1>2, <2>1, <3>2 DEF Collect
    <3>3. CASE pc = "unused"
      BY <1>2, <2>1, <3>3 DEF Collect
    <3>4. CASE pc = "low"
      BY <1>2, <2>1, <3>4 DEF Collect
    <3> QED
      BY <3>1, <3>2, <3>3, <3>4
  <2>3. s.type \in Used(facts) \ FactTypes
    <3>1. s \notin collectUnusedTypes \cup collectLowConfidence
      <4>1. \A kind, t, n : Signal(kind, t, n).kind = kind
        BY DEF Signal
      <4>2. s \notin collectUnusedTypes
        BY <4>1 DEF collectUnusedTypes
      <4>3. s \notin collectLowConfidence
        BY <4>1 DEF collectLowConfidence
      <4> QED
        BY <4>2, <4>3
    <3>2. PICK t \in Used(facts) \ FactTypes :
            s = Signal("custom_frequency", t, Cardinality(OfType(facts, t)))
      BY <2>2, <3>1 DEF collectCustomTypes
    <3> QED
      BY <3>2 DEF Signal
  <2> QED
    BY <2>3, FactSteps DEF TypeOK, Used
<1> QED
  BY <1>1, <1>2

\* What a step of the check decides or goes on with has a ground.
LEMMA HandCheck ==
  ASSUME TypeOK, SignalsGrounded, HandGrounded, CheckStep
  PROVE  HandGrounded'
<1> USE DEF HandGrounded
<1>1. CASE UpdateTaxonomyProposalStatus
  BY <1>1 DEF UpdateTaxonomyProposalStatus, Actions
<1>2. CASE CheckFails
  BY <1>2 DEF CheckFails, Leave, Actions
<1>3. CASE validateAdd
  <2>1. CASE Leave
    BY <2>1 DEF Leave, Actions
  <2>2. CASE ~Leave
    <3>1. cur[2].action = "add" /\ cur[2].type \in Used(known) \ FactTypes
      BY <1>3, <2>2 DEF validateAdd, SignalsGrounded, Actions
    <3>2. cur' = cur /\ pc' = "update" /\ UNCHANGED <<known, facts, before>>
      BY <1>3, <2>2 DEF validateAdd, Decide, CheckOnly, storeVars, historyVars
    <3> QED
      BY <3>1, <3>2 DEF Ground, Actions
  <2> QED
    BY <2>1, <2>2
<1>4. CASE validateRemove
  <2>1. CASE Leave
    BY <2>1 DEF Leave, Actions
  <2>2. CASE ~Leave
    <3>1. cur[2].action = "remove" /\ OfType(facts, cur[2].type) = {}
      BY <1>4, <2>2 DEF validateRemove, Actions
    <3>2. cur' = cur /\ pc' = "total" /\ UNCHANGED <<known, facts, before>>
      BY <1>4, <2>2 DEF validateRemove, GoOn, CheckOnly, storeVars, historyVars
    <3>3. OfType(before[cur] \cap facts, cur[2].type) = {}
      BY <3>1 DEF OfType
    <3> QED
      BY <3>1, <3>2, <3>3 DEF Ground, Actions
  <2> QED
    BY <2>1, <2>2
<1>5. CASE TotalFacts
  <2>1. CASE Leave
    BY <2>1 DEF Leave, Actions
  <2>2. CASE ~Leave
    <3>1. Ground(cur) /\ cur' = cur /\ pc' = "update" /\ UNCHANGED <<known, facts, before>>
      BY <1>5, <2>2 DEF TotalFacts, Decide, CheckOnly, storeVars, historyVars
    <3> QED
      BY <3>1 DEF Ground, Actions
  <2> QED
    BY <2>1, <2>2
<1>6. CASE validateMerge \/ validateRename
  <2>1. CASE Decide("rejected")
    BY <2>1 DEF Decide, Actions
  <2>2. CASE GoOn("ask") /\ ~Decide("rejected")
    <3>1. /\ cur[2].action \in {"merge", "rename"} /\ cur[2].name # None
          /\ cur[2].action = "rename" => ListFacts(cur[2].type) # {}
      BY <1>6, <2>2 DEF validateMerge, validateRename, Actions
    <3>2. cur' = cur /\ pc' = "ask" /\ UNCHANGED <<known, facts, before>>
      BY <1>6, <2>2 DEF validateMerge, validateRename, GoOn, CheckOnly, storeVars, historyVars
    <3>3. cur[2].action = "rename" /\ cur[2].type # None => cur[2].type \in Used(known)
      BY <3>1 DEF ListFacts, OfType, Used, TypeOK
    <3> QED
      BY <3>1, <3>2, <3>3 DEF Ground, Actions
  <2> QED
    BY <1>6, <2>1, <2>2 DEF validateMerge, validateRename
<1>7. CASE Confirm
  <2>1. CASE Leave
    BY <2>1 DEF Leave, Actions
  <2>2. CASE ~Leave
    <3>1. Ground(cur) /\ cur' = cur /\ pc' = "update" /\ UNCHANGED <<known, facts, before>>
      BY <1>7, <2>2 DEF Confirm, Decide, CheckOnly, storeVars, historyVars
    <3> QED
      BY <3>1 DEF Ground, Actions
  <2> QED
    BY <2>1, <2>2
<1> QED
  BY <1>1, <1>2, <1>3, <1>4, <1>5, <1>6, <1>7 DEF CheckStep

LEMMA HandStep ==
  ASSUME TypeOK, BeforeKnown, SignalsGrounded, HandGrounded, [Next]_vars
  PROVE  HandGrounded'
<1>1. CASE CheckStep
  BY <1>1, HandCheck
<1>2. CASE UNCHANGED callVars /\ ~ValidateProposals
  <2>1. UNCHANGED <<pc, cur, verdict>>
    BY <1>2 DEF callVars
  <2>2. CASE pc \in {"total", "ask", "update"}
    <3>1. cur \in Ids /\ before'[cur] = before[cur]
      BY <1>2, <2>2, BeforeSteps DEF TypeOK, WithStatus
    <3>2. Ground(cur) => Ground(cur)'
      BY <2>1, <3>1, GroundStays DEF Ground
    <3> QED
      BY <2>1, <3>2 DEF HandGrounded
  <2> QED
    BY <2>1, <2>2 DEF HandGrounded
<1>3. CASE NextProposal
  BY <1>3 DEF NextProposal, HandGrounded, Actions, TypeOK, WithStatus, Ids
<1>4. CASE CollectAll \/ Collect \/ BeginReview \/ ReviewTaxonomy \/ ValidateProposals
           \/ Validated \/ Stops
  <2>1. pc' \in {"custom", "unused", "low", "idle", "review", "next"}
    BY <1>4 DEF CollectAll, Collect, Collecting, BeginReview, ReviewTaxonomy, ValidateProposals,
      Validated, Stops
  <2> QED
    BY <2>1 DEF HandGrounded, Actions
<1> QED
  BY <1>1, <1>2, <1>3, <1>4 DEF Next, vars, callVars, Tick, CreateFact, DeleteExpiredFacts, Apply,
    EffectiveTypesWithProposals, ValidateProposals

\* A proposal that has become validated or applied was so before, or has just been
\* decided on a ground.
LEMMA EvidenceStep ==
  ASSUME TypeOK, BeforeKnown, HandGrounded, ValidatedOnEvidence, [Next]_vars
  PROVE  ValidatedOnEvidence'
<1> SUFFICES ASSUME NEW i \in (WithStatus("validated") \cup WithStatus("applied"))'
             PROVE  Ground(i)'
    BY EvidenceIsGround DEF ValidatedOnEvidence, Ground
<1>1. i \in Ids /\ status'[i] \in {"validated", "applied"}
  BY DEF WithStatus
<1>2. CASE status[i] \in {"validated", "applied"}
  <2>1. Ground(i)
    BY <1>1, <1>2, EvidenceIsGround DEF WithStatus
  <2>2. before'[i] = before[i]
    BY <1>1, <1>2, BeforeSteps
  <2> QED
    BY <1>1, <2>1, <2>2, GroundStays
<1>3. CASE status[i] \notin {"validated", "applied"}
  <2>1. UpdateTaxonomyProposalStatus /\ i = cur /\ verdict = "validated"
    <3>1. status' # status
      BY <1>1, <1>3
    <3>2. ~\E j \in Ids : Apply(j)
      BY <1>1, <1>3 DEF Apply, TypeOK
    <3>3. ~ReviewTaxonomy
      BY <1>1, <1>3 DEF ReviewTaxonomy
    <3> QED
      BY <1>1, <1>3, <3>1, <3>2, <3>3, StatusSteps DEF UpdateTaxonomyProposalStatus, TypeOK
  <2>2. Ground(cur)
    BY <2>1 DEF UpdateTaxonomyProposalStatus, HandGrounded
  <2>3. before'[i] = before[i]
    BY <2>1 DEF UpdateTaxonomyProposalStatus, historyVars
  <2> QED
    BY <1>1, <2>1, <2>2, <2>3, GroundStays
<1> QED
  BY <1>2, <1>3

\* A change is validated only on a ground in the facts, though they change between
\* its reads and the verdict (ValidatedOnEvidence).
THEOREM EvidenceHolds == Spec => []ValidatedOnEvidence
<1>1. Init => IInv
  BY TypeInit DEF Init, IInv, Reviewed, BeforeKnown, SignalsGrounded, HandGrounded,
    ValidatedOnEvidence, WithStatus, Actions
<1>2. IInv /\ [Next]_vars => IInv'
  BY TypeStep, ReviewedStep, BeforeKnownStep, SignalsStep, HandStep, EvidenceStep DEF IInv
<1>3. IInv => ValidatedOnEvidence
  BY DEF IInv
<1> QED
  BY <1>1, <1>2, <1>3, PTL DEF Spec

-----------------------------------------------------------------------------
(* The effective types.                                                    *)

\* A set of numbers has a least one.
LEMMA LeastNumber ==
  ASSUME NEW T \in SUBSET Nat, T # {}
  PROVE  \E n \in T : \A m \in T : n <= m
<1>1. PICK n \in T : \A m \in T : ~ (<<m, n>> \in OpToRel(<, Nat))
  BY WFMin, NatLessThanWellFounded
<1>2. ASSUME NEW m \in T, m < n PROVE FALSE
  BY <1>1, <1>2 DEF OpToRel
<1> QED
  BY <1>2

\* The loop of filter, and that of the merge.
Merged(f, o, m) ==
  f = [n \in 0..m |-> IF n = 0 THEN Base ELSE MergeProposal(f[n - 1], o[n][2])]
Filtered(f, s, name, m) ==
  f = [n \in 0..m |->
         IF n = 0 THEN <<>> ELSE IF s[n] = name THEN f[n - 1] ELSE Append(f[n - 1], s[n])]

CanFilter(s, name, m) == \E f : Filtered(f, s, name, m)
CanMerge(o, m) == \E f : Merged(f, o, m)

\* The loop of filter ends for every number of rounds.
LEMMA FilterEnds ==
  ASSUME NEW s, NEW name, NEW m \in Nat
  PROVE  CanFilter(s, name, m)
<1>1. CanFilter(s, name, 0)
  <2> DEFINE f == [n \in 0..0 |-> <<>>]
  <2>1. Filtered(f, s, name, 0)
    BY DEF Filtered
  <2> QED
    BY <2>1 DEF CanFilter
<1>2. ASSUME NEW d \in Nat, CanFilter(s, name, d) PROVE CanFilter(s, name, d + 1)
  <2>1. PICK f : Filtered(f, s, name, d)
    BY <1>2 DEF CanFilter
  <2>2. \A n \in 0..d : f[n] =
          IF n = 0 THEN <<>> ELSE IF s[n] = name THEN f[n - 1] ELSE Append(f[n - 1], s[n])
    BY <2>1 DEF Filtered
  <2> DEFINE next == IF s[d + 1] = name THEN f[d] ELSE Append(f[d], s[d + 1])
             g == [n \in 0..(d + 1) |-> IF n <= d THEN f[n] ELSE next]
  <2>3. \A n \in 0..d : g[n] = f[n]
    OBVIOUS
  <2>4. g[d + 1] = next
    OBVIOUS
  <2> HIDE DEF next
  <2>5. \A n \in 0..(d + 1) : g[n] =
          IF n = 0 THEN <<>> ELSE IF s[n] = name THEN g[n - 1] ELSE Append(g[n - 1], s[n])
    <3>1. ASSUME NEW n \in 0..d PROVE g[n] =
            IF n = 0 THEN <<>> ELSE IF s[n] = name THEN g[n - 1] ELSE Append(g[n - 1], s[n])
      BY <2>2, <2>3
    <3>2. g[d + 1] = IF s[d + 1] = name THEN g[(d + 1) - 1] ELSE Append(g[(d + 1) - 1], s[d + 1])
      BY <2>3, <2>4 DEF next
    <3>3. \A n \in 0..(d + 1) : n \in 0..d \/ (n = d + 1 /\ n # 0)
      OBVIOUS
    <3> HIDE DEF g
    <3> QED
      BY <3>1, <3>2, <3>3
  <2>6. g = [n \in 0..(d + 1) |-> g[n]]
    OBVIOUS
  <2> HIDE DEF g
  <2>7. Filtered(g, s, name, d + 1)
    BY <2>5, <2>6, Zenon DEF Filtered
  <2> QED
    BY <2>7 DEF CanFilter
<1> DEFINE T == {d \in Nat : ~CanFilter(s, name, d)}
<1> SUFFICES ASSUME T # {} PROVE FALSE
  OBVIOUS
<1>3. PICK d \in T : \A n \in T : d <= n
  BY LeastNumber
<1>4. d # 0 /\ d - 1 \in Nat /\ d - 1 \notin T
  BY <1>1, <1>3
<1>5. CanFilter(s, name, (d - 1) + 1)
  BY <1>2, <1>4
<1> QED
  BY <1>4, <1>5

\* So does that of the merge.
LEMMA MergeEnds ==
  ASSUME NEW o, NEW m \in Nat
  PROVE  CanMerge(o, m)
<1>1. CanMerge(o, 0)
  <2> DEFINE f == [n \in 0..0 |-> Base]
  <2>1. Merged(f, o, 0)
    BY DEF Merged
  <2> QED
    BY <2>1 DEF CanMerge
<1>2. ASSUME NEW d \in Nat, CanMerge(o, d) PROVE CanMerge(o, d + 1)
  <2>1. PICK f : Merged(f, o, d)
    BY <1>2 DEF CanMerge
  <2>2. \A n \in 0..d : f[n] = IF n = 0 THEN Base ELSE MergeProposal(f[n - 1], o[n][2])
    BY <2>1 DEF Merged
  <2> DEFINE next == MergeProposal(f[d], o[d + 1][2])
             g == [n \in 0..(d + 1) |-> IF n <= d THEN f[n] ELSE next]
  <2>3. \A n \in 0..d : g[n] = f[n]
    OBVIOUS
  <2>4. g[d + 1] = next
    OBVIOUS
  <2> HIDE DEF next
  <2>5. \A n \in 0..(d + 1) : g[n] = IF n = 0 THEN Base ELSE MergeProposal(g[n - 1], o[n][2])
    <3>1. ASSUME NEW n \in 0..d
          PROVE  g[n] = IF n = 0 THEN Base ELSE MergeProposal(g[n - 1], o[n][2])
      BY <2>2, <2>3
    <3>2. g[d + 1] = MergeProposal(g[(d + 1) - 1], o[d + 1][2])
      BY <2>3, <2>4 DEF next
    <3> QED
      BY <3>1, <3>2
  <2>6. g = [n \in 0..(d + 1) |-> g[n]]
    OBVIOUS
  <2> HIDE DEF g
  <2>7. Merged(g, o, d + 1)
    BY <2>5, <2>6, Zenon DEF Merged
  <2> QED
    BY <2>7 DEF CanMerge
<1> DEFINE T == {d \in Nat : ~CanMerge(o, d)}
<1> SUFFICES ASSUME T # {} PROVE FALSE
  OBVIOUS
<1>3. PICK d \in T : \A n \in T : d <= n
  BY LeastNumber
<1>4. d # 0 /\ d - 1 \in Nat /\ d - 1 \notin T
  BY <1>1, <1>3
<1>5. CanMerge(o, (d - 1) + 1)
  BY <1>2, <1>4
<1> QED
  BY <1>4, <1>5

\* What the merge returns is the end of its loop.
LEMMA MergeLoop ==
  ASSUME NEW o, Len(o) \in Nat
  PROVE  \E f : Merged(f, o, Len(o)) /\ MergeAll(o) = f[Len(o)]
<1> DEFINE f == CHOOSE g : Merged(g, o, Len(o))
<1>1. Merged(f, o, Len(o))
  BY MergeEnds DEF CanMerge
<1>2. MergeAll(o) = f[Len(o)]
  BY DEF MergeAll, Merged
<1> QED
  BY <1>1, <1>2

\* And filter that of its own.
LEMMA FilterLoop ==
  ASSUME NEW s, NEW name, Len(s) \in Nat
  PROVE  \E f : Filtered(f, s, name, Len(s)) /\ filter(s, name) = f[Len(s)]
<1> DEFINE f == CHOOSE g : Filtered(g, s, name, Len(s))
<1>1. Filtered(f, s, name, Len(s))
  BY FilterEnds DEF CanFilter
<1>2. filter(s, name) = f[Len(s)]
  BY DEF filter, Filtered
<1> QED
  BY <1>1, <1>2

\* What append adds.
LEMMA Appended ==
  ASSUME NEW T, NEW s \in Seq(T), NEW x \in T
  PROVE  /\ Append(s, x) \in Seq(T) /\ ToSet(Append(s, x)) = ToSet(s) \cup {x}
         /\ \A t : Twice(Append(s, x), t) <=> Twice(s, t) \/ (t = x /\ t \in ToSet(s))
<1> DEFINE u == Append(s, x)
<1>1. u \in Seq(T) /\ Len(u) = Len(s) + 1 /\ u[Len(s) + 1] = x
      /\ \A i \in 1..Len(s) : u[i] = s[i]
  OBVIOUS
<1>2. Len(s) \in Nat /\ DOMAIN u = 1..(Len(s) + 1) /\ DOMAIN s = 1..Len(s)
  OBVIOUS
<1> HIDE DEF u
<1>3. ToSet(u) = ToSet(s) \cup {x}
  BY <1>1, <1>2 DEF ToSet
<1>4. ASSUME NEW t PROVE Twice(u, t) <=> Twice(s, t) \/ (t = x /\ t \in ToSet(s))
  BY <1>1, <1>2 DEF ToSet, Twice
<1>5. ToSet(u) = ToSet(s) \cup {x} /\ u \in Seq(T)
      /\ \A t : Twice(u, t) <=> Twice(s, t) \/ (t = x /\ t \in ToSet(s))
  BY <1>1, <1>3, <1>4
<1> QED
  BY <1>5 DEF u

\* The first m elements but for those of one name.
FilteredOK(u, s, name, m, T) ==
  /\ u \in Seq(T)
  /\ \A t : t \in ToSet(u) <=> t # name /\ \E i \in 1..m : s[i] = t
  /\ \A t : t # name =>
       (Twice(u, t) <=> \E i, j \in 1..m : i # j /\ s[i] = t /\ s[j] = t)

\* filter leaves out that name only, and nothing else about how often a name occurs.
LEMMA FilterLeaves ==
  ASSUME NEW T, NEW s \in Seq(T), NEW name
  PROVE  /\ filter(s, name) \in Seq(T) /\ ToSet(filter(s, name)) = ToSet(s) \ {name}
         /\ \A t : t # name => (Twice(filter(s, name), t) <=> Twice(s, t))
<1>1. PICK f : Filtered(f, s, name, Len(s)) /\ filter(s, name) = f[Len(s)]
  BY FilterLoop
<1>2. f[0] = <<>> /\ \A n \in 1..Len(s) :
        f[n] = IF s[n] = name THEN f[n - 1] ELSE Append(f[n - 1], s[n])
  <2>1. Len(s) \in Nat
    OBVIOUS
  <2>2. 0 \in 0..Len(s) /\ \A n \in 1..Len(s) : n \in 0..Len(s) /\ n # 0
    BY <2>1
  <2>3. \A n \in 0..Len(s) : f[n] =
          IF n = 0 THEN <<>> ELSE IF s[n] = name THEN f[n - 1] ELSE Append(f[n - 1], s[n])
    BY <1>1, Zenon DEF Filtered
  <2>4. f[0] = <<>>
    BY <2>2, <2>3, Zenon
  <2>5. \A n \in 1..Len(s) : f[n] =
          IF s[n] = name THEN f[n - 1] ELSE Append(f[n - 1], s[n])
    BY <2>2, <2>3, Zenon
  <2> QED
    BY <2>4, <2>5
<1> DEFINE Bad == {n \in 0..Len(s) : ~FilteredOK(f[n], s, name, n, T)}
<1>3. Bad = {}
  <2> SUFFICES ASSUME Bad # {} PROVE FALSE
    OBVIOUS
  <2>1. Bad \in SUBSET Nat
    OBVIOUS
  <2>2. \E n \in Bad : \A m \in Bad : n <= m
    <3> HIDE DEF Bad
    <3> QED
      BY <2>1, LeastNumber
  <2>3. PICK n \in Bad : \A m \in Bad : n <= m
    BY <2>2
  <2>4. FilteredOK(<<>>, s, name, 0, T)
    BY DEF FilteredOK, ToSet, Twice
  <2>5. n # 0
    BY <1>2, <2>3, <2>4
  <2>6. n - 1 \in 0..Len(s) /\ FilteredOK(f[n - 1], s, name, n - 1, T) /\ n \in 1..Len(s)
    BY <2>3, <2>5
  <2> DEFINE u == f[n - 1]
  <2>7. s[n] \in T /\ u \in Seq(T)
    BY <2>6 DEF FilteredOK
  <2>8. CASE s[n] = name
    <3>1. f[n] = u
      BY <1>2, <2>6, <2>8
    <3>2. FilteredOK(u, s, name, n, T)
      <4> HIDE DEF u
      <4>1. FilteredOK(u, s, name, n - 1, T)
        BY <2>6 DEF u
      <4>2. \A i \in 1..n : i \in 1..n - 1 \/ i = n
        BY <2>6
      <4>3. 1..n - 1 \subseteq 1..n
        BY <2>6
      <4> QED
        BY <2>7, <2>8, <4>1, <4>2, <4>3 DEF FilteredOK
    <3> QED
      BY <2>3, <3>1, <3>2
  <2>9. CASE s[n] # name
    <3>1. f[n] = Append(u, s[n])
      BY <1>2, <2>6, <2>9
    <3> DEFINE v == Append(u, s[n])
    <3>2. /\ v \in Seq(T) /\ ToSet(v) = ToSet(u) \cup {s[n]}
          /\ \A t : Twice(v, t) <=> Twice(u, t) \/ (t = s[n] /\ t \in ToSet(u))
      BY <2>7, Appended
    <3>3. FilteredOK(v, s, name, n, T)
      <4> HIDE DEF u, v
      <4>1. FilteredOK(u, s, name, n - 1, T)
        BY <2>6 DEF u
      <4>2. \A i \in 1..n : i \in 1..n - 1 \/ i = n
        BY <2>6
      <4>3. 1..n - 1 \subseteq 1..n /\ n \in 1..n /\ n \notin 1..n - 1
        BY <2>6
      <4>4. \A t : t \in ToSet(v) <=> t # name /\ \E i \in 1..n : s[i] = t
        BY <2>9, <3>2, <4>1, <4>2, <4>3 DEF FilteredOK
      <4>5. ASSUME NEW t, t # name
            PROVE  Twice(v, t) <=> \E i, j \in 1..n : i # j /\ s[i] = t /\ s[j] = t
        <5>1. Twice(u, t) <=> \E i, j \in 1..n - 1 : i # j /\ s[i] = t /\ s[j] = t
          BY <4>1, <4>5 DEF FilteredOK
        <5>2. t \in ToSet(u) <=> \E i \in 1..n - 1 : s[i] = t
          BY <4>1, <4>5 DEF FilteredOK
        <5>3. Twice(v, t) <=> Twice(u, t) \/ (t = s[n] /\ t \in ToSet(u))
          BY <3>2
        <5> QED
          BY <5>1, <5>2, <5>3, <4>2, <4>3
      <4> QED
        BY <3>2, <4>4, <4>5 DEF FilteredOK
    <3> QED
      BY <2>3, <3>1, <3>3
  <2> QED
    BY <2>8, <2>9
<1> DEFINE u == f[Len(s)]
<1>4. FilteredOK(u, s, name, Len(s), T)
  BY <1>3
<1> HIDE DEF u
<1>d. DOMAIN s = 1..Len(s)
  OBVIOUS
<1>5. ToSet(u) = ToSet(s) \ {name}
  <2>1. \A t : t \in ToSet(s) <=> \E i \in 1..Len(s) : s[i] = t
    BY <1>d DEF ToSet
  <2> QED
    BY <1>4, <2>1 DEF FilteredOK
<1>6. \A t : t # name => (Twice(u, t) <=> Twice(s, t))
  <2>1. \A t : Twice(s, t) <=> \E i, j \in 1..Len(s) : i # j /\ s[i] = t /\ s[j] = t
    BY <1>d DEF Twice
  <2> QED
    BY <1>4, <2>1 DEF FilteredOK
<1> QED
  BY <1>1, <1>4, <1>5, <1>6 DEF FilteredOK, u

\* rename puts the new name where the old one stood first, and nothing else about how
\* often a name occurs changes.
LEMMA RenameReplaces ==
  ASSUME NEW T, NEW s \in Seq(T), NEW old, NEW new \in T
  PROVE  /\ rename(s, old, new) \in Seq(T)
         /\ ~Contains(s, old) => rename(s, old, new) = s
         /\ Contains(s, old) =>
              ToSet(rename(s, old, new))
                = (ToSet(s) \ (IF Twice(s, old) THEN {} ELSE {old})) \cup {new}
         /\ \A t : t \notin {old, new} => (Twice(rename(s, old, new), t) <=> Twice(s, t))
<1>1. Len(s) \in Nat /\ DOMAIN s = 1..Len(s)
  OBVIOUS
<1>2. CASE ~Contains(s, old)
  BY <1>2 DEF rename
<1>3. CASE Contains(s, old)
  <2> DEFINE At == {k \in DOMAIN s : s[k] = old}
  <2>1. At \in SUBSET Nat /\ At # {}
    BY <1>1, <1>3 DEF Contains
  <2>2. \E k \in At : \A m \in At : k <= m
    <3> HIDE DEF At
    <3> QED
      BY <2>1, LeastNumber
  <2>3. \E k \in DOMAIN s : s[k] = old /\ \A j \in 1..k - 1 : s[j] # old
    BY <1>1, <2>2
  <2>4. PICK first \in DOMAIN s : s[first] = old /\ rename(s, old, new) = [s EXCEPT ![first] = new]
    BY <1>3, <2>3 DEF rename
  <2> DEFINE u == [s EXCEPT ![first] = new]
  <2>5. /\ u \in Seq(T) /\ DOMAIN u = DOMAIN s /\ u[first] = new
        /\ \A k \in DOMAIN s : k # first => u[k] = s[k]
    BY <2>4
  <2> HIDE DEF u
  <2>6. ASSUME NEW t, t \notin {old, new} PROVE Twice(u, t) <=> Twice(s, t)
    BY <2>4, <2>5, <2>6 DEF Twice
  <2>7. ToSet(u) = (ToSet(s) \ (IF Twice(s, old) THEN {} ELSE {old})) \cup {new}
    <3>1. ASSUME NEW t, t # old, t # new PROVE t \in ToSet(u) <=> t \in ToSet(s)
      BY <2>4, <2>5, <3>1 DEF ToSet
    <3>2. new \in ToSet(u)
      BY <2>4, <2>5 DEF ToSet
    <3>3. old \in ToSet(s)
      BY <2>4 DEF ToSet
    <3>4. ASSUME Twice(s, old) PROVE old \in ToSet(u)
      BY <2>4, <2>5, <3>4 DEF ToSet, Twice
    <3>5. ASSUME ~Twice(s, old), old # new PROVE old \notin ToSet(u)
      BY <2>4, <2>5, <3>5 DEF ToSet, Twice
    <3> QED
      BY <3>1, <3>2, <3>3, <3>4, <3>5
  <2> QED
    BY <1>3, <2>4, <2>5, <2>6, <2>7 DEF u
<1> QED
  BY <1>2, <1>3

\* What a set of proposals takes out of a category, and what it brings into it.
Gone(base, P, t) ==
  \E p \in P : /\ p.type = t
               /\ \/ p.action \in {"remove", "merge"}
                  \/ p.action = "rename" /\ Contains(base, t) /\ ~Twice(base, t)
Come(base, P, t) ==
  \E p \in P : \/ p.action = "add" /\ t = IF p.name = None THEN p.type ELSE p.name
               \/ p.action = "rename" /\ Contains(base, p.type) /\ t = p.name

\* Following, name by name.
LEMMA FollowingIs ==
  ASSUME NEW base, NEW P, NEW t
  PROVE  t \in Following(base, P) <=> (t \in ToSet(base) /\ ~Gone(base, P, t)) \/ Come(base, P, t)
<1> DEFINE Of(action) == {p \in P : p.action = action}
           renamed == {p \in Of("rename") : Contains(base, p.type)}
           out == {p.type : p \in Of("remove") \cup Of("merge")}
                    \cup {p.type : p \in {p \in renamed : ~Twice(base, p.type)}}
           in1 == {IF p.name = None THEN p.type ELSE p.name : p \in Of("add")}
           in2 == {p.name : p \in renamed}
<1>1. t \in out <=> Gone(base, P, t)
  BY DEF Gone
<1>2. t \in in1 \cup in2 <=> Come(base, P, t)
  BY DEF Come
<1>3. Following(base, P) = ((ToSet(base) \ out) \cup in1) \cup in2
  BY DEF Following
<1> HIDE DEF out, in1, in2
<1> QED
  BY <1>1, <1>2, <1>3

\* The names there are.
Names ==
  (UNION {ToSet(Base[c]) : c \in Categories}) \cup {p.type : p \in Answers} \cup {p.name : p \in Answers}

\* A merged proposal changes its category as Following says, and nothing about the names
\* it does not touch.
ChangedBy(r, tc, p, c) ==
  /\ r = [d \in Categories |-> r[d]] /\ r[c] \in Seq(Names)
  /\ p.category # c => r[c] = tc[c]
  /\ p.category = c => ToSet(r[c]) = Following(tc[c], {p})
  /\ \A t : t \notin Touched(p) => (Twice(r[c], t) <=> Twice(tc[c], t))

LEMMA OneProposal ==
  ASSUME NEW tc, tc = [c \in Categories |-> tc[c]], NEW c \in Categories, tc[c] \in Seq(Names),
         NEW p \in Answers, p.action = "rename" => p.name # None
  PROVE  ChangedBy(MergeProposal(tc, p), tc, p, c)
<1> USE DEF ChangedBy
<1> DEFINE r == MergeProposal(tc, p)
           s == tc[c]
           added == IF p.name = None THEN p.type ELSE p.name
<1>1. {p.type, p.name} \subseteq Names
  BY DEF Names
<1>2. CASE p.action = "add"
  <2>1. r = appendType(tc, p.category, added)
    BY <1>2 DEF MergeProposal
  <2>2. CASE p.category = c
    <3>1. r = [tc EXCEPT ![c] = Append(s, added)]
      BY <2>1, <2>2 DEF appendType
    <3>2. r = [d \in Categories |-> r[d]] /\ r[c] = Append(s, added)
      BY <3>1
    <3>3. added \in Names /\ added \in Touched(p)
      BY <1>1 DEF Touched
    <3> HIDE DEF r, s
    <3>4. s \in Seq(Names)
      BY DEF s
    <3>5. /\ r[c] \in Seq(Names) /\ ToSet(r[c]) = ToSet(s) \cup {added}
          /\ \A t : Twice(r[c], t) <=> Twice(s, t) \/ (t = added /\ t \in ToSet(s))
      <4> HIDE DEF added
      <4>1. /\ Append(s, added) \in Seq(Names) /\ ToSet(Append(s, added)) = ToSet(s) \cup {added}
            /\ \A t : Twice(Append(s, added), t) <=> Twice(s, t) \/ (t = added /\ t \in ToSet(s))
        BY <3>3, <3>4, Appended
      <4> QED
        BY <3>2, <4>1
    <3>6. ASSUME NEW t PROVE t \in ToSet(r[c]) <=> t \in Following(s, {p})
      <4>1. ~Gone(s, {p}, t) /\ (Come(s, {p}, t) <=> t = added)
        BY <1>2 DEF Gone, Come
      <4> HIDE DEF added
      <4> QED
        BY <3>5, <4>1, FollowingIs
    <3> QED
      BY <2>2, <3>2, <3>3, <3>5, <3>6 DEF r, s
  <2>3. CASE p.category # c
    BY <2>1, <2>3 DEF appendType
  <2> QED
    BY <2>2, <2>3
<1>3. CASE p.action \in {"remove", "merge"}
  <2>1. r = removeType(tc, p.category, p.type)
    BY <1>3 DEF MergeProposal
  <2>2. CASE p.category = c
    <3>1. r = [tc EXCEPT ![c] = filter(s, p.type)]
      BY <2>1, <2>2 DEF removeType
    <3>2. r = [d \in Categories |-> r[d]] /\ r[c] = filter(s, p.type)
      BY <3>1
    <3>3. p.type \in Touched(p)
      BY <1>1 DEF Touched
    <3> HIDE DEF r, s
    <3>4. s \in Seq(Names)
      BY DEF s
    <3>5. /\ r[c] \in Seq(Names) /\ ToSet(r[c]) = ToSet(s) \ {p.type}
          /\ \A t : t # p.type => (Twice(r[c], t) <=> Twice(s, t))
      BY <3>2, <3>4, FilterLeaves
    <3>6. ASSUME NEW t PROVE t \in ToSet(r[c]) <=> t \in Following(s, {p})
      <4>1. ~Come(s, {p}, t) /\ (Gone(s, {p}, t) <=> t = p.type)
        BY <1>3 DEF Gone, Come
      <4> QED
        BY <3>5, <4>1, FollowingIs
    <3> QED
      BY <2>2, <3>2, <3>3, <3>5, <3>6 DEF r, s
  <2>3. CASE p.category # c
    BY <2>1, <2>3 DEF removeType
  <2> QED
    BY <2>2, <2>3
<1>4. CASE p.action = "rename"
  <2>1. p.name # None
    BY <1>4
  <2>2. r = renameType(tc, p.category, p.type, p.name)
    BY <1>4, <2>1 DEF MergeProposal
  <2>3. CASE p.category = c
    <3>1. r = [tc EXCEPT ![c] = rename(s, p.type, p.name)]
      BY <2>2, <2>3 DEF renameType
    <3>2. r = [d \in Categories |-> r[d]] /\ r[c] = rename(s, p.type, p.name)
      BY <3>1
    <3>3. {p.type, p.name} \subseteq Touched(p)
      BY <1>1, <2>1 DEF Touched
    <3> HIDE DEF r, s
    <3>4. s \in Seq(Names) /\ p.name \in Names
      BY <1>1 DEF s
    <3>5. /\ r[c] \in Seq(Names)
          /\ ~Contains(s, p.type) => r[c] = s
          /\ Contains(s, p.type) =>
               ToSet(r[c]) = (ToSet(s) \ (IF Twice(s, p.type) THEN {} ELSE {p.type})) \cup {p.name}
          /\ \A t : t \notin {p.type, p.name} => (Twice(r[c], t) <=> Twice(s, t))
      BY <3>2, <3>4, RenameReplaces
    <3>6. ASSUME NEW t PROVE t \in ToSet(r[c]) <=> t \in Following(s, {p})
      <4>1. /\ Come(s, {p}, t) <=> Contains(s, p.type) /\ t = p.name
            /\ Gone(s, {p}, t) <=> t = p.type /\ Contains(s, t) /\ ~Twice(s, t)
        BY <1>4 DEF Gone, Come
      <4> QED
        BY <3>5, <4>1, FollowingIs
    <3> QED
      BY <2>3, <3>2, <3>3, <3>5, <3>6 DEF r, s
  <2>4. CASE p.category # c
    BY <2>2, <2>4 DEF renameType
  <2> QED
    BY <2>3, <2>4
<1>5. CASE p.action \notin Actions
  <2>1. r = tc
    BY <1>5 DEF MergeProposal, Actions
  <2>2. ASSUME NEW t PROVE t \in ToSet(s) <=> t \in Following(s, {p})
    <3>1. ~Gone(s, {p}, t) /\ ~Come(s, {p}, t)
      BY <1>5 DEF Gone, Come, Actions
    <3> QED
      BY <3>1, FollowingIs
  <2>3. s \in Seq(Names) /\ ToSet(s) = Following(s, {p})
    BY <2>2
  <2> HIDE DEF r
  <2> QED
    BY <2>1, <2>3 DEF r
<1> QED
  BY <1>2, <1>3, <1>4, <1>5 DEF Actions

\* After some proposals that touch no name twice, one more that touches none of theirs.
LEMMA FollowsOnceMore ==
  ASSUME NEW T, NEW base \in Seq(T), NEW U, NEW s \in Seq(U), NEW P, NEW p,
         \A q \in P \cup {p} : q.action = "rename" => q.name # None,
         \A q \in P : Touched(q) \cap Touched(p) = {},
         ToSet(s) = Following(base, P),
         Twice(s, p.type) <=> Twice(base, p.type)
  PROVE  Following(s, {p}) = Following(base, P \cup {p})
<1>1. \A t : Gone(base, P, t) => \E q \in P : t \in Touched(q)
  BY DEF Gone, Touched
<1>2. \A t : Come(base, P, t) => \E q \in P : t \in Touched(q)
  BY DEF Come, Touched
<1>3. p.type \in Touched(p)
  BY DEF Touched
<1>4. ~Gone(base, P, p.type) /\ ~Come(base, P, p.type)
  BY <1>1, <1>2, <1>3
<1>5. \A t : (Contains(s, t) <=> t \in ToSet(s)) /\ (Contains(base, t) <=> t \in ToSet(base))
  <2>1. DOMAIN s = 1..Len(s) /\ DOMAIN base = 1..Len(base)
    OBVIOUS
  <2> QED
    BY <2>1 DEF Contains, ToSet
<1>6. Contains(s, p.type) <=> Contains(base, p.type)
  BY <1>4, <1>5, FollowingIs
<1>7. ASSUME NEW t PROVE t \in Following(s, {p}) <=> t \in Following(base, P \cup {p})
  <2>1. Gone(s, {p}, t) <=> Gone(base, {p}, t)
    BY <1>6 DEF Gone
  <2>2. Come(s, {p}, t) <=> Come(base, {p}, t)
    BY <1>6 DEF Come
  <2>3. Gone(base, P \cup {p}, t) <=> Gone(base, P, t) \/ Gone(base, {p}, t)
    BY DEF Gone
  <2>4. Come(base, P \cup {p}, t) <=> Come(base, P, t) \/ Come(base, {p}, t)
    BY DEF Come
  <2>5. Gone(base, {p}, t) => ~Come(base, P, t)
    BY <1>4 DEF Gone
  <2>6. t \in ToSet(s) <=> (t \in ToSet(base) /\ ~Gone(base, P, t)) \/ Come(base, P, t)
    BY FollowingIs
  <2> QED
    BY <2>1, <2>2, <2>3, <2>4, <2>5, <2>6, FollowingIs
<1> QED
  BY <1>7

\* An order of some proposals lists them, each once.
LEMMA OrderLists ==
  ASSUME NEW S \in SUBSET Ids, NEW o \in Orders(S)
  PROVE  /\ Len(o) \in Nat
         /\ S = {o[k] : k \in 1..Len(o)}
         /\ \A j, k \in 1..Len(o) : j # k => o[j] # o[k]
<1> DEFINE n == Cardinality(S)
<1>1. IsFiniteSet(S)
  <2>1. IsFiniteSet(1..MaxReviews)
    BY FS_Interval, BoundsAssumption
  <2>2. IsFiniteSet(Ids)
    BY <2>1, FS_Product, AnswersAssumption DEF Ids
  <2> QED
    BY <2>2, FS_Subset
<1>2. n \in Nat
  BY <1>1, FS_CardinalityType
<1>3. o \in [1..n -> S] /\ \A j, k \in 1..n : j # k => o[j] # o[k]
  BY DEF Orders, SetToSeqs
<1>4. o \in Surjection(1..n, S)
  <2>1. o \in Injection(1..n, S)
    BY <1>3 DEF Injection, IsInjective
  <2>2. IsFiniteSet(1..n) /\ Cardinality(1..n) = n
    BY <1>2, FS_Interval
  <2> QED
    BY <1>1, <2>1, <2>2, FS_Injection
<1>5. S = {o[k] : k \in 1..n}
  BY <1>3, <1>4 DEF Surjection
<1>6. Len(o) = n
  BY <1>2, <1>3
<1> QED
  BY <1>2, <1>3, <1>5, <1>6

\* The proposals of a category among the first n that are merged.
Merging(o, c, n) == {o[k][2] : k \in {k \in 1..n : o[k][2].category = c}}
MergedSo(tc, o, c, n) ==
  /\ tc = [d \in Categories |-> tc[d]] /\ tc[c] \in Seq(Names)
  /\ ToSet(tc[c]) = Following(Base[c], Merging(o, c, n))
  /\ \A t : (\A q \in Merging(o, c, n) : t \notin Touched(q)) => (Twice(tc[c], t) <=> Twice(Base[c], t))

\* What the merge of the first n proposals has done to a category.
LEMMA MergeFollows ==
  ASSUME NEW o, Len(o) \in Nat, NEW c \in Categories,
         \A k \in 1..Len(o) : o[k][2] \in Answers /\ (o[k][2].action = "rename" => o[k][2].name # None),
         \A j, k \in 1..Len(o) :
           j # k /\ o[j][2].category = c /\ o[k][2].category = c
             => Touched(o[j][2]) \cap Touched(o[k][2]) = {}
  PROVE  MergedSo(MergeAll(o), o, c, Len(o))
<1> DEFINE N == Len(o)
<1>1. PICK f : Merged(f, o, N) /\ MergeAll(o) = f[N]
  BY MergeLoop
<1>2. f[0] = Base /\ \A n \in 1..N : f[n] = MergeProposal(f[n - 1], o[n][2])
  <2>1. 0 \in 0..N /\ \A n \in 1..N : n \in 0..N /\ n # 0
    OBVIOUS
  <2>2. \A n \in 0..N : f[n] = IF n = 0 THEN Base ELSE MergeProposal(f[n - 1], o[n][2])
    BY <1>1, Zenon DEF Merged
  <2> QED
    BY <2>1, <2>2, Zenon
<1>3. MergedSo(f[0], o, c, 0)
  <2>1. Base[c] \in Seq(Names)
    <3>1. ToSet(Base[c]) \subseteq Names
      BY DEF Names
    <3>2. Base[c] \in Seq(ToSet(Base[c]))
      BY BaseAssumption
    <3> QED
      BY <3>1, <3>2
  <2>2. Merging(o, c, 0) = {}
    BY DEF Merging
  <2>3. ToSet(Base[c]) = Following(Base[c], {})
    <3>1. \A t : ~Gone(Base[c], {}, t) /\ ~Come(Base[c], {}, t)
      BY DEF Gone, Come
    <3>2. \A t : t \in Following(Base[c], {}) <=> t \in ToSet(Base[c])
      BY <3>1, FollowingIs
    <3> QED
      BY <3>2
  <2> QED
    BY <1>2, <2>1, <2>2, <2>3, BaseAssumption DEF MergedSo
<1>4. ASSUME NEW n \in 1..N, MergedSo(f[n - 1], o, c, n - 1) PROVE MergedSo(f[n], o, c, n)
  <2> DEFINE p == o[n][2]
             before_ == f[n - 1]
             after_ == MergeProposal(before_, p)
             P == Merging(o, c, n - 1)
  <2>1. p \in Answers /\ (p.action = "rename" => p.name # None)
    OBVIOUS
  <2>2. f[n] = after_
    BY <1>2
  <2>3. /\ after_ = [d \in Categories |-> after_[d]] /\ after_[c] \in Seq(Names)
        /\ p.category # c => after_[c] = before_[c]
        /\ p.category = c => ToSet(after_[c]) = Following(before_[c], {p})
        /\ \A t : t \notin Touched(p) => (Twice(after_[c], t) <=> Twice(before_[c], t))
    <3>1. before_ = [d \in Categories |-> before_[d]] /\ before_[c] \in Seq(Names)
      BY <1>4 DEF MergedSo
    <3>2. ChangedBy(after_, before_, p, c)
      <4> HIDE DEF before_, p
      <4> QED
        BY <2>1, <3>1, OneProposal
    <3> HIDE DEF before_, p
    <3> QED
      BY <3>2 DEF ChangedBy
  <2>4. Merging(o, c, n) = IF p.category = c THEN P \cup {p} ELSE P
    <3>1. \A k : k \in 1..n <=> k \in 1..n - 1 \/ k = n
      OBVIOUS
    <3> QED
      BY <3>1 DEF Merging
  <2>5. CASE p.category # c
    <3> HIDE DEF before_, after_, p
    <3>1. MergedSo(after_, o, c, n)
      BY <1>4, <2>3, <2>4, <2>5 DEF MergedSo, before_
    <3> QED
      BY <2>2, <3>1
  <2>6. CASE p.category = c
    <3>1. \A q \in P : q \in Answers /\ (q.action = "rename" => q.name # None)
                       /\ Touched(q) \cap Touched(p) = {}
      <4>1. ASSUME NEW k \in 1..n - 1, o[k][2].category = c
            PROVE  o[k][2] \in Answers /\ (o[k][2].action = "rename" => o[k][2].name # None)
                   /\ Touched(o[k][2]) \cap Touched(p) = {}
        <5>1. k \in 1..N /\ k # n
          OBVIOUS
        <5> QED
          BY <2>6, <4>1, <5>1
      <4> HIDE DEF p
      <4> QED
        BY <4>1 DEF Merging
    <3>2. p.type \in Touched(p)
      BY DEF Touched
    <3> HIDE DEF after_, p
    <3>3. /\ before_[c] \in Seq(Names) /\ ToSet(before_[c]) = Following(Base[c], P)
          /\ \A t : (\A q \in P : t \notin Touched(q)) => (Twice(before_[c], t) <=> Twice(Base[c], t))
      BY <1>4 DEF MergedSo
    <3>4. Twice(before_[c], p.type) <=> Twice(Base[c], p.type)
      BY <3>1, <3>2, <3>3
    <3> HIDE DEF before_, P
    <3>5. Following(before_[c], {p}) = Following(Base[c], P \cup {p})
      BY <2>1, <3>1, <3>3, <3>4, FollowsOnceMore, BaseAssumption
    <3>6. ASSUME NEW t, \A q \in P \cup {p} : t \notin Touched(q)
          PROVE  Twice(after_[c], t) <=> Twice(Base[c], t)
      BY <2>3, <3>3, <3>6
    <3>7. MergedSo(after_, o, c, n)
      BY <2>3, <2>4, <2>6, <3>5, <3>6 DEF MergedSo
    <3> QED
      BY <2>2, <3>7
  <2> QED
    BY <2>5, <2>6
<1> DEFINE Bad == {n \in 0..N : ~MergedSo(f[n], o, c, n)}
<1>5. Bad = {}
  <2> SUFFICES ASSUME Bad # {} PROVE FALSE
    OBVIOUS
  <2>1. Bad \in SUBSET Nat
    OBVIOUS
  <2>2. \E n \in Bad : \A m \in Bad : n <= m
    <3> HIDE DEF Bad
    <3> QED
      BY <2>1, LeastNumber
  <2>3. PICK n \in Bad : \A m \in Bad : n <= m
    BY <2>2
  <2>4. n # 0
    BY <1>3, <2>3
  <2>5. n \in 1..N /\ n - 1 \in 0..N /\ n - 1 \notin Bad
    BY <2>3, <2>4
  <2> QED
    BY <1>4, <2>3, <2>5
<1> QED
  BY <1>1, <1>5

\* The effective types are made of the applied proposals by the merge alone.
LEMMA EffectiveStep ==
  ASSUME ValidatedOnEvidence, TypesFollowProposals, [Next]_vars
  PROVE  TypesFollowProposals'
<1>1. CASE UNCHANGED <<types, basis>>
  BY <1>1 DEF TypesFollowProposals
<1>2. CASE EffectiveTypesWithProposals
  <2>1. PICK o \in Orders(basis') : types' = MergeAll(o)
    BY <1>2 DEF EffectiveTypesWithProposals
  <2> DEFINE S == basis'
  <2>2. S \subseteq WithStatus("applied")
    BY <1>2 DEF EffectiveTypesWithProposals, Newest
  <2>3. /\ Len(o) \in Nat /\ S = {o[k] : k \in 1..Len(o)}
        /\ \A j, k \in 1..Len(o) : j # k => o[j] # o[k]
    BY <2>1, <2>2, OrderLists DEF WithStatus
  <2>4. \A i \in S : i[2] \in Answers /\ (i[2].action = "rename" => i[2].name # None)
    BY <2>2 DEF ValidatedOnEvidence, WithStatus, Ids
  <2>5. ASSUME NEW c \in Categories,
               \A i, j \in Concerning(S, c) : i # j => Touched(i[2]) \cap Touched(j[2]) = {}
        PROVE  ToSet(types'[c]) = Following(Base[c], {i[2] : i \in Concerning(S, c)})
    <3>1. \A k \in 1..Len(o) : o[k][2] \in Answers /\ (o[k][2].action = "rename" => o[k][2].name # None)
      BY <2>3, <2>4
    <3>2. \A j, k \in 1..Len(o) :
            j # k /\ o[j][2].category = c /\ o[k][2].category = c
              => Touched(o[j][2]) \cap Touched(o[k][2]) = {}
      BY <2>3, <2>5 DEF Concerning
    <3>3. MergedSo(types', o, c, Len(o))
      BY <2>1, <2>3, <3>1, <3>2, MergeFollows
    <3>4. Merging(o, c, Len(o)) = {i[2] : i \in Concerning(S, c)}
      BY <2>3 DEF Merging, Concerning
    <3> QED
      BY <3>3, <3>4 DEF MergedSo
  <2> QED
    BY <2>5 DEF TypesFollowProposals, Concerning
<1> QED
  BY <1>1, <1>2 DEF Next, vars, historyVars, Tick, CreateFact, DeleteExpiredFacts, Apply, CollectAll,
    Collect, BeginReview, ReviewTaxonomy, ValidateProposals, NextProposal, Validated, CheckStep,
    validateAdd, validateRemove, TotalFacts, validateMerge, validateRename, Confirm, CheckFails,
    CheckOnly, UpdateTaxonomyProposalStatus, Stops

\* At first no proposal is merged.
LEMMA EffectiveInit == Init => TypesFollowProposals
<1>1. \A c : Concerning({}, c) = {}
  BY DEF Concerning
<1>2. ASSUME NEW c PROVE ToSet(Base[c]) = Following(Base[c], {})
  <2>1. \A t : ~Gone(Base[c], {}, t) /\ ~Come(Base[c], {}, t)
    BY DEF Gone, Come
  <2>2. \A t : t \in Following(Base[c], {}) <=> t \in ToSet(Base[c])
    BY <2>1, FollowingIs
  <2> QED
    BY <2>2
<1> QED
  BY <1>1, <1>2 DEF Init, TypesFollowProposals

\* Unless two applied proposals concern one type, the effective types do not depend on
\* the order they are merged in (TypesFollowProposals).
THEOREM EffectiveTypesFollow == Spec => []TypesFollowProposals
<1>1. Init => IInv /\ TypesFollowProposals
  BY TypeInit, EffectiveInit DEF Init, IInv, Reviewed, BeforeKnown, SignalsGrounded, HandGrounded,
    ValidatedOnEvidence, WithStatus, Actions
<1>2. IInv /\ TypesFollowProposals /\ [Next]_vars => IInv' /\ TypesFollowProposals'
  BY TypeStep, ReviewedStep, BeforeKnownStep, SignalsStep, HandStep, EvidenceStep, EffectiveStep DEF IInv
<1> QED
  BY <1>1, <1>2, PTL DEF Spec
=============================================================================
