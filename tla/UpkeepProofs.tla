---------------------------- MODULE UpkeepProofs ----------------------------
(***************************************************************************)
(* Proofs about Upkeep, for any workers, plans, facts, scores and bounds.  *)
(***************************************************************************)
EXTENDS Upkeep, FiniteSetTheorems, TLAPS

-----------------------------------------------------------------------------
(* What a worker has to do, and where it is.                               *)

Phases == {"consolidate", "optimize"} \cup EvalTypes
Stages == {"list", "cluster", "connect", "measure", "compare", "set", "save",
           "read", "judge", "write"}

\* --save-baseline is the second phase of its command, and of no other.
PlanValues == Seq(Phases) \cup {<<t, "save">> : t \in EvalTypes}

\* The stage is one of the phase.
ControlInv ==
  /\ plan \in [Workers -> PlanValues] /\ stage \in [Workers -> Stages \cup {None}]
  /\ \A w \in Workers :
       /\ \/ plan[w] = <<>> /\ stage[w] = None
          \/ Phase(w) = "consolidate" /\ stage[w] \in {"list", "cluster", "connect"}
          \/ Phase(w) = "optimize" /\ stage[w] \in {"read", "judge", "write"}
          \/ Phase(w) \in EvalTypes /\ stage[w] \in {"measure", "compare", "set", "save"}
       /\ stage[w] = "save" => Saves(w)

\* What a worker has left to do is the end of a plan.
IsRest(q) == \E p \in {TickPlan} \cup Plans : \E n \in 0..Len(p) :
               q = SubSeq(p, Len(p) - n + 1, Len(p))
RestInv == \A w \in Workers : IsRest(plan[w])

-----------------------------------------------------------------------------
(* Consolidation.                                                          *)

\* A pass works on facts that were stored, and only while it consolidates.
PassInv ==
  /\ arrived \in 0..MaxFacts /\ facts \subseteq 1..arrived
  /\ IsFiniteSet(insights)
  /\ \A i \in insights : i.id \in Nat \ {0} /\ i.facts \subseteq 1..arrived
  /\ \A l \in links : l \subseteq facts /\ Cardinality(l) = 2
  /\ window \in [Workers -> SUBSET (1..arrived)]
  /\ todo \in [Workers -> SUBSET SUBSET (1..arrived)]
  /\ pairs \in [Workers -> SUBSET SUBSET (1..arrived)]
  /\ \A w \in Workers :
       /\ todo[w] \subseteq SUBSET window[w] /\ pairs[w] \subseteq SUBSET window[w]
       /\ \A p \in pairs[w] : Cardinality(p) = 2
       /\ window[w] # {} => stage[w] \in {"cluster", "connect"}

\* Facts of two windows, and those still to be sent that a consolidation cites
\* already, were in two windows at once; clusters do not share facts.
CitedInv ==
  /\ ConsolidatedOnce
  /\ \A v, w \in Workers : v # w => window[v] \cap window[w] \subseteq overlapped
  /\ \A w \in Workers : \A c \in todo[w] :
       /\ \A i \in insights : c \cap i.facts \subseteq overlapped
       /\ \A d \in todo[w] : c # d => c \cap d = {}

-----------------------------------------------------------------------------
(* Evaluation.                                                             *)

Comparing(w) == stage[w] \in {"compare", "set"}

\* A score that is on its way was counted, and the best one either is the baseline
\* or is on its way; a worker that sets the baseline has read a lower one.
EvalInv ==
  /\ baseline \in [EvalTypes -> Scores \cup {None}]
  /\ best \in [EvalTypes -> Scores \cup {None, Unknown}]
  /\ score \in [Workers -> Scores \cup {None}] /\ seen \in [Workers -> Scores \cup {None}]
  /\ \A w \in Workers :
       /\ score[w] # None <=> stage[w] \in {"compare", "set", "save"}
       /\ stage[w] = "set" => BecomesBaseline(score[w], seen[w])
  /\ \A t \in EvalTypes : best[t] # Unknown =>
       /\ baseline[t] # None => best[t] # None /\ best[t] >= baseline[t]
       /\ \A w \in Workers : Comparing(w) /\ Phase(w) = t =>
            best[t] # None /\ best[t] >= score[w]
       /\ \/ baseline[t] = best[t]
          \/ \E w \in Workers : Comparing(w) /\ Phase(w) = t /\ score[w] = best[t]

-----------------------------------------------------------------------------
(* The optimizer.                                                          *)

\* An attempt that no other overtook has read what was kept last, and no one writes
\* while it judges.  Until the last candidate is spoiled, one worker at most writes:
\* that candidate, which no other overtook.
PromptInv ==
  /\ kept \in Seq(Nat \cup {Torn}) /\ spoiled \subseteq 1..Len(kept)
  /\ \A t \in DOMAIN kept : kept[t] \in 0..(t - 1) \cup {Torn}
  /\ prompt \in 0..Len(kept) \cup {Torn}
  /\ basis \in [Workers -> 0..Len(kept) \cup {Torn, None}]
  /\ candidate \in [Workers -> 1..Len(kept) \cup {None}]
  /\ \A w \in Workers :
       /\ basis[w] # None <=> stage[w] \in {"judge", "write"}
       /\ candidate[w] # None <=> stage[w] = "write"
  /\ \A t \in DOMAIN kept \ spoiled : kept[t] = t - 1 \/ t - 1 \in spoiled
  /\ \A w \in Workers : stage[w] = "judge" /\ w \notin overtaken =>
       Writing = {} /\ (Len(kept) \notin spoiled => basis[w] = Len(kept))
  /\ Len(kept) \notin spoiled =>
       /\ Writing = {} => prompt = Len(kept)
       /\ \A w \in Writing :
            w \notin overtaken /\ candidate[w] = Len(kept) /\ prompt = Torn /\ Writing = {w}

-----------------------------------------------------------------------------
(* Control: how a worker goes on.                                          *)

Moves ==
  {<<"list", "cluster">>, <<"cluster", "connect">>, <<"connect", "cluster">>,
   <<"measure", "compare">>, <<"compare", "set">>, <<"read", "judge">>, <<"judge", "write">>}

Advances(w) ==
  \/ \E s \in Stages : <<stage[w], s>> \in Moves /\ Goto(w, s)
  \/ Saves(w) /\ Comparing(w) /\ Goto(w, "save")
  \/ plan[w] # <<>> /\ ~Saves(w) /\ GoOn(w, Tail(plan[w]))
  \/ plan[w] # <<>> /\ GoOn(w, <<>>)
  \/ plan[w] = <<>> /\ \E p \in {TickPlan} \cup Plans : GoOn(w, p)

LEMMA EvalsAreEvals == EvalTypes \subseteq {"extraction", "retrieval"} /\ "retrieval" \in EvalTypes
  BY UpkeepAssumption DEF EvalTypes, Range

LEMMA SavesIsEval ==
  ASSUME ControlInv, NEW w \in Workers, plan[w] # <<>>, Saves(w)
  PROVE  Phase(w) \in EvalTypes
<1>1. CASE plan[w] \in Seq(Phases)
  <2>1. plan[w][2] \in Phases
    BY <1>1 DEF Saves
  <2> QED
    BY <2>1, EvalsAreEvals DEF Saves, Phases
<1>2. CASE plan[w] \in {<<t, "save">> : t \in EvalTypes}
  BY <1>2 DEF Phase
<1> QED
  BY <1>1, <1>2 DEF ControlInv, PlanValues

\* The phases of every plan there is.
LEMMA PlansAreValues == {TickPlan} \cup Plans \subseteq PlanValues \ {<<>>}
<1>1. Evals \in Seq(EvalTypes)
  BY UpkeepAssumption DEF EvalTypes, Range
<1>2. OptimizePlan \in Seq(Phases) /\ OptimizePlan # <<>>
  BY <1>1 DEF OptimizePlan, Phases
<1>3. TickPlan \in Seq(Phases) /\ TickPlan # <<>>
  BY EvalsAreEvals DEF TickPlan, Phases
<1>4. \A p \in {<<"consolidate">>, <<"consolidate", "optimize">>, <<"optimize">>} :
        p \in Seq(Phases) /\ p # <<>>
  <2>1. <<"consolidate">> \in Seq(Phases) /\ <<"optimize">> \in Seq(Phases)
    BY DEF Phases
  <2>2. <<"consolidate", "optimize">> \in Seq(Phases)
    BY DEF Phases
  <2>3. <<"consolidate">> # <<>> /\ <<"optimize">> # <<>> /\ <<"consolidate", "optimize">> # <<>>
    OBVIOUS
  <2> QED
    BY <2>1, <2>2, <2>3
<1>5. \A t \in EvalTypes : <<t>> \in Seq(Phases) /\ <<t>> # <<>> /\ <<t, "save">> # <<>>
  BY DEF Phases
<1>6. ASSUME NEW p \in Plans PROVE p \in PlanValues /\ p # <<>>
  <2>1. CASE p \in {<<"consolidate">>, <<"consolidate", "optimize">>, <<"optimize">>, OptimizePlan}
    BY <1>2, <1>4, <2>1 DEF PlanValues
  <2>2. CASE p \in {<<t>> : t \in EvalTypes}
    BY <1>5, <2>2 DEF PlanValues
  <2>3. CASE p \in {<<t, "save">> : t \in EvalTypes}
    BY <1>5, <2>3 DEF PlanValues
  <2> QED
    BY <2>1, <2>2, <2>3 DEF Plans
<1> QED
  BY <1>3, <1>6 DEF PlanValues

LEMMA TailIsValue ==
  ASSUME ControlInv, NEW w \in Workers, plan[w] # <<>>, ~Saves(w)
  PROVE  Tail(plan[w]) \in Seq(Phases)
<1>1. plan[w] \in Seq(Phases)
  BY DEF ControlInv, PlanValues, Saves
<1> QED
  BY <1>1

\* With what is left of a plan a worker begins the phase that comes first.
LEMMA GoOnControl ==
  ASSUME ControlInv, NEW w \in Workers, NEW rest \in PlanValues, GoOn(w, rest)
  PROVE  ControlInv'
<1>1. plan'[w] = rest /\ stage'[w] = IF rest = <<>> THEN None ELSE First(Head(rest))
  BY DEF GoOn, ControlInv
<1>2. rest # <<>> => Head(rest) \in Phases
  BY DEF PlanValues, Phases
<1>3. \/ plan'[w] = <<>> /\ stage'[w] = None
      \/ Phase(w)' = "consolidate" /\ stage'[w] = "list"
      \/ Phase(w)' = "optimize" /\ stage'[w] = "read"
      \/ Phase(w)' \in EvalTypes /\ stage'[w] = "measure"
  BY <1>1, <1>2, EvalsAreEvals DEF Phases, Phase, First
<1>4. stage'[w] \in Stages \cup {None} /\ stage'[w] # "save"
  BY <1>3, NamesAssumption DEF Stages
<1>5. \A v \in Workers : v # w => /\ plan'[v] = plan[v] /\ stage'[v] = stage[v]
                                 /\ Phase(v)' = Phase(v) /\ Saves(v)' = Saves(v)
  BY DEF GoOn, ControlInv, Phase, Saves
<1>6. plan' \in [Workers -> PlanValues] /\ stage' \in [Workers -> Stages \cup {None}]
  BY <1>4, <1>1 DEF GoOn, ControlInv
<1> QED
  BY <1>3, <1>4, <1>5, <1>6 DEF ControlInv

LEMMA GotoControl ==
  ASSUME ControlInv, NEW w \in Workers, NEW s \in Stages, Goto(w, s),
         <<stage[w], s>> \in Moves \/ (Saves(w) /\ Comparing(w) /\ s = "save")
  PROVE  ControlInv'
<1>1. stage' = [stage EXCEPT ![w] = s] /\ plan' = plan
  BY DEF Goto
<1>2. stage'[w] = s /\ stage' \in [Workers -> Stages \cup {None}]
  BY <1>1 DEF ControlInv
<1>3. \A v \in Workers : Phase(v)' = Phase(v) /\ Saves(v)' = Saves(v)
  BY <1>1 DEF Phase, Saves
<1>4. \A v \in Workers : v # w => stage'[v] = stage[v]
  BY <1>1 DEF ControlInv
<1>5. \/ Phase(w) = "consolidate" /\ s \in {"list", "cluster", "connect"}
      \/ Phase(w) = "optimize" /\ s \in {"read", "judge", "write"}
      \/ Phase(w) \in EvalTypes /\ s \in {"measure", "compare", "set", "save"}
  BY NamesAssumption DEF ControlInv, Moves, Comparing
<1>6. s = "save" => Saves(w)
  BY DEF Moves
<1> QED
  BY <1>1, <1>2, <1>3, <1>4, <1>5, <1>6 DEF ControlInv

LEMMA AdvanceControl == ASSUME ControlInv, NEW w \in Workers, Advances(w) PROVE ControlInv'
<1>1. ASSUME NEW s \in Stages, <<stage[w], s>> \in Moves, Goto(w, s) PROVE ControlInv'
  BY <1>1, GotoControl
<1>2. CASE Saves(w) /\ Comparing(w) /\ Goto(w, "save")
  BY <1>2, GotoControl DEF Stages
<1>3. CASE plan[w] # <<>> /\ ~Saves(w) /\ GoOn(w, Tail(plan[w]))
  BY <1>3, TailIsValue, GoOnControl DEF PlanValues
<1>4. CASE GoOn(w, <<>>)
  <2>1. <<>> \in PlanValues
    BY DEF PlanValues
  <2> QED
    BY <1>4, <2>1, GoOnControl
<1>5. ASSUME NEW p \in {TickPlan} \cup Plans, GoOn(w, p) PROVE ControlInv'
  BY <1>5, PlansAreValues, GoOnControl
<1> QED
  BY <1>1, <1>2, <1>3, <1>4, <1>5 DEF Advances

\* Every step of a worker advances it so.
LEMMA WorkerAdvances ==
  ASSUME ControlInv, NEW w \in Workers,
         \/ w \in Schedulers /\ Tick(w)
         \/ w \in Others /\ Command(w)
         \/ PassStep(w) \/ EvalStep(w) \/ AttemptStep(w) \/ ErrorStep(w)
  PROVE  Advances(w)
<1>1. stage[w] \in {"list", "cluster", "connect", "read", "judge", "write"} => ~Saves(w)
  <2> SUFFICES ASSUME stage[w] \in {"list", "cluster", "connect", "read", "judge", "write"},
                      Saves(w)
               PROVE  FALSE
    OBVIOUS
  <2>1. plan[w] # <<>> /\ Phase(w) \in {"consolidate", "optimize"}
    BY NamesAssumption DEF ControlInv, Phase
  <2> QED
    BY <2>1, SavesIsEval, EvalsAreEvals
<1>2. CASE w \in Schedulers /\ Tick(w)
  BY <1>2 DEF Tick, Advances
<1>3. CASE w \in Others /\ Command(w)
  BY <1>3, PlansAssumption DEF Command, Advances
<1>4. CASE PassStep(w)
  <2>1. CASE Consolidate(w)
    BY <2>1, <1>1 DEF Consolidate, At, Advances, Moves, Stages
  <2>2. CASE consolidateCluster(w)
    BY <2>2 DEF consolidateCluster, At, Advances, Moves, Stages
  <2>3. CASE CreateFactConnection(w)
    BY <2>3, <1>1 DEF CreateFactConnection, EndPass, At, Advances, Moves, Stages
  <2> QED
    BY <1>4, <2>1, <2>2, <2>3 DEF PassStep
<1>5. CASE EvalStep(w)
  <2>1. CASE CreateEvalRun(w)
    BY <2>1 DEF CreateEvalRun, At, Advances, Moves, Stages
  <2>2. CASE GetBaselineEvalRun(w)
    BY <2>2 DEF GetBaselineEvalRun, EvalDone, At, Advances, Moves, Stages, Comparing
  <2>3. CASE SetBaseline(w)
    BY <2>3 DEF SetBaseline, EvalDone, At, Advances, Comparing
  <2>4. CASE SaveBaseline(w)
    BY <2>4 DEF SaveBaseline, At, Advances
  <2> QED
    BY <1>5, <2>1, <2>2, <2>3, <2>4 DEF EvalStep
<1>6. CASE AttemptStep(w)
  <2>1. CASE ShouldNotOptimize(w)
    BY <2>1, <1>1 DEF ShouldNotOptimize, At, Advances
  <2>2. CASE readCurrentPrompt(w)
    BY <2>2 DEF readCurrentPrompt, At, Advances, Moves, Stages
  <2>3. CASE Discard(w)
    BY <2>3, <1>1 DEF Discard, EndAttempt, At, Advances
  <2>4. CASE Keep(w)
    BY <2>4 DEF Keep, At, Advances, Moves, Stages
  <2>5. CASE WriteFile(w)
    BY <2>5, <1>1 DEF WriteFile, EndAttempt, At, Advances
  <2> QED
    BY <1>6, <2>1, <2>2, <2>3, <2>4, <2>5 DEF AttemptStep
<1>7. CASE ErrorStep(w)
  <2>1. CASE ConsolidateFails(w)
    BY <2>1, <1>1 DEF ConsolidateFails, EndPass, AfterError, At, Advances
  <2>2. CASE EvalFails(w)
    BY <2>2 DEF EvalFails, EvalDone, At, Advances, Comparing
  <2>3. CASE OptimizeFails(w)
    <3>1. plan[w] # <<>> /\ ~Saves(w)
      BY <2>3, SavesIsEval, EvalsAreEvals, NamesAssumption DEF OptimizeFails, Phase
    <3> QED
      BY <2>3, <3>1 DEF OptimizeFails, EndAttempt, AfterError, Advances
  <2>4. CASE Stops(w)
    BY <2>4 DEF Stops, EndPass, Advances
  <2> QED
    BY <1>7, <2>1, <2>2, <2>3, <2>4 DEF ErrorStep
<1> QED
  BY <1>2, <1>3, <1>4, <1>5, <1>6, <1>7

LEMMA ControlStep == ControlInv /\ [Next]_vars => ControlInv'
<1> SUFFICES ASSUME ControlInv, [Next]_vars PROVE ControlInv'
  OBVIOUS
<1>1. CASE UNCHANGED vars
  BY <1>1 DEF vars, ControlInv, Phase, Saves
<1>2. CASE FactArrives \/ DeleteExpiredFacts
  BY <1>2 DEF FactArrives, DeleteExpiredFacts, ControlInv, Phase, Saves
<1>3. CASE Next /\ ~(FactArrives \/ DeleteExpiredFacts)
  BY <1>3, WorkerAdvances, AdvanceControl DEF Next, Workers
<1> QED
  BY <1>1, <1>2, <1>3

LEMMA ControlInvHolds == Spec => []ControlInv
<1>1. Init => ControlInv
  <2> SUFFICES ASSUME Init PROVE ControlInv
    OBVIOUS
  <2>1. <<>> \in PlanValues
    BY DEF PlanValues
  <2> QED
    BY <2>1, NamesAssumption DEF Init, ControlInv
<1> QED
  BY <1>1, ControlStep, PTL DEF Spec

\* What is left of a plan, once more begun, stopped, or gone on with.
LEMMA Endings ==
  ASSUME NEW p \in {TickPlan} \cup Plans, NEW n \in 0..Len(p)
  PROVE  LET q == SubSeq(p, Len(p) - n + 1, Len(p)) IN
         /\ p = SubSeq(p, Len(p) - Len(p) + 1, Len(p))
         /\ <<>> = SubSeq(p, Len(p) - 0 + 1, Len(p))
         /\ q # <<>> => n > 0 /\ Tail(q) = SubSeq(p, Len(p) - (n - 1) + 1, Len(p))
<1> DEFINE Names == Phases \cup {"save"}
<1>1. p \in Seq(Names)
  <2>1. CASE p \in Seq(Phases)
    BY <2>1
  <2>2. ASSUME NEW t \in EvalTypes, p = <<t, "save">> PROVE p \in Seq(Names)
    BY <2>2 DEF Phases
  <2> QED
    BY <2>1, <2>2, PlansAreValues DEF PlanValues
<1> HIDE DEF Names
<1>2. p = SubSeq(p, 1, Len(p))
  BY <1>1
<1>3. <<>> = SubSeq(p, Len(p) + 1, Len(p))
  BY <1>1
<1>4. ASSUME SubSeq(p, Len(p) - n + 1, Len(p)) # <<>>
      PROVE  /\ n > 0
             /\ Tail(SubSeq(p, Len(p) - n + 1, Len(p))) = SubSeq(p, Len(p) - (n - 1) + 1, Len(p))
  <2>1. n > 0
    BY <1>3, <1>4
  <2>2. n \in 1..Len(p) /\ Len(p) \in Nat
    BY <1>1, <2>1
  <2> QED
    BY <1>1, <2>1, <2>2
<1> QED
  BY <1>1, <1>2, <1>3, <1>4

LEMMA RestStep == ControlInv /\ RestInv /\ [Next]_vars => RestInv'
<1> SUFFICES ASSUME ControlInv, RestInv, [Next]_vars PROVE RestInv'
  OBVIOUS
<1>1. CASE UNCHANGED plan
  BY <1>1 DEF RestInv
<1>2. ASSUME NEW w \in Workers, NEW rest, IsRest(rest), GoOn(w, rest) PROVE RestInv'
  BY <1>2 DEF GoOn, ControlInv, RestInv
<1>3. IsRest(<<>>) /\ \A p \in {TickPlan} \cup Plans : IsRest(p) /\ Len(p) \in Nat
  <2>1. \A p \in {TickPlan} \cup Plans : Len(p) \in Nat
    BY PlansAreValues DEF PlanValues
  <2>2. ASSUME NEW p \in {TickPlan} \cup Plans PROVE IsRest(p) /\ IsRest(<<>>)
    <3>1. 0 \in 0..Len(p) /\ Len(p) \in 0..Len(p)
      BY <2>1
    <3>2. /\ p = SubSeq(p, Len(p) - Len(p) + 1, Len(p))
          /\ <<>> = SubSeq(p, Len(p) - 0 + 1, Len(p))
      BY <3>1, Endings
    <3> QED
      BY <3>1, <3>2 DEF IsRest
  <2> QED
    BY <2>1, <2>2
<1>4. ASSUME NEW w \in Workers, Advances(w) PROVE RestInv'
  <2>1. CASE UNCHANGED plan
    BY <1>1, <2>1
  <2>2. CASE plan[w] # <<>> /\ GoOn(w, Tail(plan[w]))
    <3> PICK p \in {TickPlan} \cup Plans : \E n \in 0..Len(p) :
               plan[w] = SubSeq(p, Len(p) - n + 1, Len(p))
      BY DEF RestInv, IsRest
    <3>1. PICK n \in 0..Len(p) : plan[w] = SubSeq(p, Len(p) - n + 1, Len(p))
      OBVIOUS
    <3>2. n > 0 /\ Tail(plan[w]) = SubSeq(p, Len(p) - (n - 1) + 1, Len(p))
      BY <2>2, <3>1, Endings
    <3>3. n - 1 \in 0..Len(p)
      BY <1>3, <3>2
    <3>4. IsRest(Tail(plan[w]))
      BY <3>2, <3>3 DEF IsRest
    <3> QED
      BY <1>2, <2>2, <3>4
  <2>3. CASE GoOn(w, <<>>)
    BY <1>2, <1>3, <2>3
  <2>4. CASE \E p \in {TickPlan} \cup Plans : GoOn(w, p)
    BY <1>2, <1>3, <2>4
  <2> QED
    BY <1>4, <2>1, <2>2, <2>3, <2>4 DEF Advances, Goto
<1>5. CASE UNCHANGED vars \/ FactArrives \/ DeleteExpiredFacts
  BY <1>1, <1>5 DEF vars, FactArrives, DeleteExpiredFacts
<1>6. CASE Next /\ ~(FactArrives \/ DeleteExpiredFacts)
  BY <1>4, <1>6, WorkerAdvances DEF Next, Workers
<1> QED
  BY <1>5, <1>6

-----------------------------------------------------------------------------
(* Consolidation.                                                          *)

LEMMA NewestIsSubset == ASSUME NEW S, NEW n PROVE Newest(S, n) \subseteq S
  BY DEF Newest

\* Without embeddings the clusters are the facts of one subject, and the facts
\* that are the only ones of theirs: no two clusters share a fact.
LEMMA ClustersApart ==
  ASSUME NEW S \in SUBSET Facts
  PROVE  /\ clusterFacts(S) \subseteq SUBSET S
         /\ \A c, d \in clusterFacts(S) : c # d => c \cap d = {}
<1> DEFINE named == {f \in S : Subject[f] # None}
           alone == {f \in S : Subject[f] = None \/ \A g \in S \ {f} : Subject[g] # Subject[f]}
           same(f) == {g \in named : Subject[g] = Subject[f]}
<1>1. \A f \in S : Embedding[f] = None
  BY DEF Embedding
<1>2. Leftover(S) = alone
  BY <1>1 DEF Leftover
<1>3. clusterFacts(S) = BigEnough({same(f) : f \in named} \cup {alone})
  <2>1. {f \in S : Embedding[f] # None} = {}
    BY <1>1
  <2>2. Grouped({}, Embedding) = {}
    BY DEF Grouped
  <2>3. S \ {} = S
    OBVIOUS
  <2>4. Grouped(named, Subject) = {same(f) : f \in named}
    BY DEF Grouped
  <2> QED
    BY <1>2, <2>1, <2>2, <2>3, <2>4 DEF clusterFacts
<1>4. \A f \in named : \A g \in same(f) : g \in alone => same(f) = {g}
  <2> SUFFICES ASSUME NEW f \in named, NEW g \in same(f), g \in alone, NEW h \in same(f)
               PROVE  h = g
    OBVIOUS
  <2> QED
    OBVIOUS
<1>5. \A f \in named : Cardinality(same(f)) >= 2 => same(f) \cap alone = {}
  <2> SUFFICES ASSUME NEW f \in named, Cardinality(same(f)) >= 2, NEW g \in same(f), g \in alone
               PROVE  FALSE
    OBVIOUS
  <2>1. same(f) = {g}
    BY <1>4
  <2>2. Cardinality({g}) = 1
    BY FS_Singleton
  <2> QED
    BY <2>1, <2>2
<1>6. \A f, g \in named : same(f) # same(g) => same(f) \cap same(g) = {}
  OBVIOUS
<1>7. \A f \in named : same(f) \subseteq S
  OBVIOUS
<1>8. ASSUME NEW c \in clusterFacts(S)
      PROVE  Cardinality(c) >= 2 /\ (c = alone \/ \E f \in named : c = same(f))
  BY <1>3, <1>8 DEF BigEnough
<1> HIDE DEF named, alone, same
<1>9. alone \subseteq S
  BY DEF alone
<1>10. ASSUME NEW c \in clusterFacts(S) PROVE c \subseteq S
  BY <1>7, <1>8, <1>9, <1>10
<1>11. ASSUME NEW c \in clusterFacts(S), NEW d \in clusterFacts(S), c # d PROVE c \cap d = {}
  BY <1>5, <1>6, <1>8, <1>11
<1> QED
  BY <1>10, <1>11

\* A worker that ends its pass has nothing left of it.
LEMMA EndPassKeeps ==
  ASSUME ControlInv, PassInv, CitedInv, NEW w \in Workers, NEW rest, EndPass(w, rest),
         UNCHANGED <<arrived, facts, insights, overlapped>>,
         \A l \in links' : l \subseteq facts /\ Cardinality(l) = 2
  PROVE  PassInv' /\ CitedInv'
<1>1. /\ window'[w] = {} /\ todo'[w] = {} /\ pairs'[w] = {}
      /\ window' \in [Workers -> SUBSET (1..arrived)]
      /\ todo' \in [Workers -> SUBSET SUBSET (1..arrived)]
      /\ pairs' \in [Workers -> SUBSET SUBSET (1..arrived)]
  BY DEF EndPass, PassInv
<1>2. \A v \in Workers : v # w => /\ window'[v] = window[v] /\ todo'[v] = todo[v]
                                 /\ pairs'[v] = pairs[v] /\ stage'[v] = stage[v]
  BY DEF EndPass, GoOn, PassInv, ControlInv
<1>3. PassInv'
  BY <1>1, <1>2 DEF PassInv
<1>4. CitedInv'
  BY <1>1, <1>2 DEF CitedInv, ConsolidatedOnce
<1> QED
  BY <1>3, <1>4

\* Steps of other phases.
LEMMA OtherPhases ==
  ASSUME ControlInv, PassInv, CitedInv, NEW w \in Workers, Advances(w),
         stage[w] \notin {"cluster", "connect"}, UNCHANGED <<store, pass, overlapped>>
  PROVE  PassInv' /\ CitedInv'
<1>1. \A v \in Workers : v # w => stage'[v] = stage[v]
  BY DEF Advances, Goto, GoOn, ControlInv
<1>2. window[w] = {}
  BY DEF PassInv
<1> QED
  BY <1>1, <1>2 DEF PassInv, CitedInv, ConsolidatedOnce, store, pass

LEMMA PassKeeps ==
  ASSUME ControlInv, PassInv, CitedInv, NEW w \in Workers, PassStep(w)
  PROVE  PassInv' /\ CitedInv'
<1>1. CASE Consolidate(w)
  <2> DEFINE read == Newest(Unconsolidated, MaxGroup)
  <2>1. CASE clusterFacts(read) = {}
    <3>1. Advances(w) /\ stage[w] = "list"
      BY <1>1, WorkerAdvances DEF Consolidate, At, PassStep
    <3> QED
      BY <1>1, <2>1, <3>1, OtherPhases DEF Consolidate, pass
  <2>2. CASE clusterFacts(read) # {}
    <3>1. /\ window' = [window EXCEPT ![w] = read]
          /\ todo' = [todo EXCEPT ![w] = clusterFacts(read)]
          /\ stage' = [stage EXCEPT ![w] = "cluster"]
          /\ overlapped' = overlapped \cup UNION {window[v] \cap read : v \in Workers}
          /\ UNCHANGED <<store, pairs>>
          /\ stage[w] = "list"
      BY <1>1, <2>2 DEF Consolidate, Goto, At
    <3>2. read \subseteq facts /\ \A i \in insights : read \cap i.facts = {}
      BY NewestIsSubset DEF Unconsolidated
    <3> HIDE DEF read
    <3>3. read \subseteq 1..arrived /\ read \in SUBSET Facts
      BY <3>2, UpkeepAssumption DEF PassInv, Facts
    <3>4. /\ clusterFacts(read) \subseteq SUBSET read
          /\ \A c, d \in clusterFacts(read) : c # d => c \cap d = {}
      BY <3>3, ClustersApart
    <3>5. window[w] = {} /\ pairs[w] \subseteq {{}}
      BY <3>1 DEF PassInv
    <3>6. /\ window'[w] = read /\ todo'[w] = clusterFacts(read) /\ stage'[w] = "cluster"
          /\ window' \in [Workers -> SUBSET (1..arrived)]
          /\ todo' \in [Workers -> SUBSET SUBSET (1..arrived)]
      <4>1. SUBSET read \subseteq SUBSET (1..arrived)
        BY <3>3
      <4>2. clusterFacts(read) \in SUBSET SUBSET (1..arrived)
        BY <3>4, <4>1
      <4>3. window' \in [Workers -> SUBSET (1..arrived)] /\ window'[w] = read
        BY <3>1, <3>3 DEF PassInv
      <4>4. todo' \in [Workers -> SUBSET SUBSET (1..arrived)] /\ todo'[w] = clusterFacts(read)
        BY <3>1, <4>2 DEF PassInv
      <4> QED
        BY <3>1, <4>3, <4>4 DEF ControlInv
    <3>7. \A v \in Workers : v # w => /\ window'[v] = window[v] /\ todo'[v] = todo[v]
                                     /\ stage'[v] = stage[v]
      BY <3>1 DEF PassInv, ControlInv
    <3>8. PassInv'
      BY <3>1, <3>4, <3>5, <3>6, <3>7 DEF PassInv, store
    <3>9. overlapped \subseteq overlapped'
      BY <3>1
    <3>10. \A v \in Workers : window[v] \cap read \subseteq overlapped'
      BY <3>1
    <3>11. ConsolidatedOnce'
      BY <3>1, <3>9 DEF CitedInv, ConsolidatedOnce, store
    <3>12. \A v, u \in Workers : v # u => window'[v] \cap window'[u] \subseteq overlapped'
      BY <3>6, <3>7, <3>9, <3>10 DEF CitedInv
    <3>13. \A v \in Workers : \A c \in todo'[v] :
             /\ \A i \in insights' : c \cap i.facts \subseteq overlapped'
             /\ \A d \in todo'[v] : c # d => c \cap d = {}
      <4>1. CASE UNCHANGED insights
        <5>1. \A c \in clusterFacts(read), i \in insights : c \cap i.facts = {}
          BY <3>2, <3>4
        <5> QED
          BY <3>4, <3>6, <3>7, <3>9, <4>1, <5>1 DEF CitedInv
      <4> QED
        BY <3>1, <4>1 DEF store
    <3>14. CitedInv'
      BY <3>11, <3>12, <3>13 DEF CitedInv
    <3> QED
      BY <3>8, <3>14
  <2> QED
    BY <2>1, <2>2
<1>2. CASE consolidateCluster(w)
  <2> PICK c \in todo[w] :
         /\ insights' = insights \cup {[id |-> Cardinality(insights) + 1, facts |-> c]}
         /\ todo' = [todo EXCEPT ![w] = @ \ {c}]
         /\ \E P \in {{}} \cup {{l} : l \in {k \in SUBSET c : Cardinality(k) = 2}} :
              pairs' = [pairs EXCEPT ![w] = P]
    BY <1>2 DEF consolidateCluster
  <2>1. /\ insights' = insights \cup {[id |-> Cardinality(insights) + 1, facts |-> c]}
        /\ todo' = [todo EXCEPT ![w] = @ \ {c}]
        /\ stage' = [stage EXCEPT ![w] = "connect"]
        /\ UNCHANGED <<arrived, facts, links, window, overlapped>>
    BY <1>2 DEF consolidateCluster, Goto
  <2>2. c \subseteq window[w] /\ window[w] \subseteq 1..arrived
    BY DEF PassInv
  <2>3. PICK P : /\ pairs' = [pairs EXCEPT ![w] = P]
                 /\ \A p \in P : p \subseteq c /\ Cardinality(p) = 2
    OBVIOUS
  <2>4. pairs'[w] = P /\ pairs' \in [Workers -> SUBSET SUBSET (1..arrived)]
    BY <2>2, <2>3 DEF PassInv
  <2>5. \A v \in Workers : /\ todo'[v] \subseteq todo[v]
                           /\ v # w => /\ todo'[v] = todo[v] /\ pairs'[v] = pairs[v]
                                        /\ stage'[v] = stage[v]
    BY <2>1, <2>3 DEF PassInv, ControlInv
  <2>6. todo'[w] = todo[w] \ {c} /\ stage'[w] = "connect"
        /\ todo' \in [Workers -> SUBSET SUBSET (1..arrived)]
    BY <2>1 DEF PassInv, ControlInv
  <2>7. IsFiniteSet(insights') /\ Cardinality(insights) + 1 \in Nat \ {0}
    <3>1. IsFiniteSet(insights)
      BY DEF PassInv
    <3>2. IsFiniteSet(insights')
      <4>1. PICK i : insights' = insights \cup {i}
        BY <2>1
      <4> QED
        BY <3>1, <4>1, FS_AddElement
    <3>3. Cardinality(insights) \in Nat
      BY <3>1, FS_CardinalityType
    <3> QED
      BY <3>2, <3>3
  <2>8. PassInv'
    <3>1. \A i \in insights' : i.id \in Nat \ {0} /\ i.facts \subseteq 1..arrived
      BY <2>1, <2>2, <2>7 DEF PassInv
    <3>2. \A p \in pairs'[w] : Cardinality(p) = 2 /\ p \subseteq window[w]
      BY <2>2, <2>3, <2>4
    <3> QED
      BY <2>1, <2>4, <2>5, <2>6, <2>7, <3>1, <3>2 DEF PassInv
  <2>9. \A i \in insights : c \cap i.facts \subseteq overlapped
    BY DEF CitedInv
  <2>10. ConsolidatedOnce'
    <3> SUFFICES ASSUME NEW i \in insights', NEW j \in insights', i # j
                 PROVE  i.facts \cap j.facts \subseteq overlapped
      BY <2>1 DEF ConsolidatedOnce
    <3>1. CASE i \in insights /\ j \in insights
      BY <3>1 DEF CitedInv, ConsolidatedOnce
    <3>2. CASE ~(i \in insights /\ j \in insights)
      BY <2>1, <2>9, <3>2
    <3> QED
      BY <3>1, <3>2
  <2>11. \A v \in Workers : \A d \in todo'[v] : d \cap c \subseteq overlapped
    <3> SUFFICES ASSUME NEW v \in Workers, NEW d \in todo'[v] PROVE d \cap c \subseteq overlapped
      OBVIOUS
    <3>1. CASE v = w
      BY <2>6, <3>1 DEF CitedInv
    <3>2. CASE v # w
      <4>1. d \subseteq window[v]
        BY <2>5, <3>2 DEF PassInv
      <4> QED
        BY <2>2, <3>2, <4>1 DEF CitedInv
    <3> QED
      BY <3>1, <3>2
  <2>12. \A i \in insights' : i \in insights \/ i.facts = c
    BY <2>1
  <2>13. CitedInv'
    BY <2>1, <2>5, <2>10, <2>11, <2>12 DEF CitedInv
  <2> QED
    BY <2>8, <2>13
<1>3. CASE CreateFactConnection(w)
  <2>1. /\ UNCHANGED <<arrived, facts, insights, overlapped>>
        /\ \A l \in links' : l \subseteq facts /\ Cardinality(l) = 2
    BY <1>3 DEF CreateFactConnection, PassInv
  <2>2. CASE todo[w] = {}
    BY <1>3, <2>1, <2>2, EndPassKeeps DEF CreateFactConnection
  <2>3. CASE todo[w] # {}
    <3>1. /\ stage' = [stage EXCEPT ![w] = "cluster"] /\ pairs' = [pairs EXCEPT ![w] = {}]
          /\ UNCHANGED <<window, todo>>
      BY <1>3, <2>3 DEF CreateFactConnection, Goto
    <3>2. /\ pairs' \in [Workers -> SUBSET SUBSET (1..arrived)]
          /\ pairs'[w] = {} /\ stage'[w] = "cluster"
          /\ \A v \in Workers : v # w => pairs'[v] = pairs[v] /\ stage'[v] = stage[v]
      BY <3>1 DEF PassInv, ControlInv
    <3>3. PassInv'
      BY <2>1, <3>1, <3>2 DEF PassInv
    <3>4. CitedInv'
      BY <2>1, <3>1 DEF CitedInv, ConsolidatedOnce
    <3> QED
      BY <3>3, <3>4
  <2> QED
    BY <2>2, <2>3
<1> QED
  BY <1>1, <1>2, <1>3 DEF PassStep

\* Facts come and go.
LEMMA FactsKeep ==
  ASSUME ControlInv, PassInv, CitedInv, FactArrives \/ DeleteExpiredFacts
  PROVE  PassInv' /\ CitedInv'
<1>1. CASE FactArrives
  <2>1. arrived' = arrived + 1 /\ arrived' \in 0..MaxFacts
    BY <1>1, UpkeepAssumption DEF FactArrives, PassInv
  <2>2. 1..arrived \subseteq 1..arrived' /\ arrived + 1 \in 1..arrived'
    BY <2>1 DEF PassInv
  <2>3. SUBSET (1..arrived) \subseteq SUBSET (1..arrived')
    BY <2>2
  <2>4. SUBSET SUBSET (1..arrived) \subseteq SUBSET SUBSET (1..arrived')
    BY <2>3
  <2>5. /\ window' \in [Workers -> SUBSET (1..arrived')]
        /\ todo' \in [Workers -> SUBSET SUBSET (1..arrived')]
        /\ pairs' \in [Workers -> SUBSET SUBSET (1..arrived')]
    BY <1>1, <2>3, <2>4 DEF FactArrives, PassInv, pass
  <2>6. PassInv'
    BY <1>1, <2>1, <2>2, <2>5 DEF FactArrives, PassInv, pass
  <2>7. CitedInv'
    BY <1>1 DEF FactArrives, CitedInv, ConsolidatedOnce, pass
  <2> QED
    BY <2>6, <2>7
<1>2. CASE DeleteExpiredFacts
  <2>1. \A l \in links : l \subseteq facts'
    BY <1>2 DEF DeleteExpiredFacts, PassInv
  <2>2. PassInv'
    BY <1>2, <2>1 DEF DeleteExpiredFacts, PassInv, pass
  <2>3. CitedInv'
    BY <1>2 DEF DeleteExpiredFacts, CitedInv, ConsolidatedOnce, pass
  <2> QED
    BY <2>2, <2>3
<1> QED
  BY <1>1, <1>2

\* Whatever else a worker does, or fails to do.
LEMMA OthersKeep ==
  ASSUME ControlInv, PassInv, CitedInv, NEW w \in Workers,
         \/ w \in Schedulers /\ Tick(w)
         \/ w \in Others /\ Command(w)
         \/ EvalStep(w) \/ AttemptStep(w) \/ ErrorStep(w)
  PROVE  PassInv' /\ CitedInv'
<1>1. \A l \in links : l \subseteq facts /\ Cardinality(l) = 2
  BY DEF PassInv
<1>2. CASE ConsolidateFails(w)
  BY <1>1, <1>2, EndPassKeeps DEF ConsolidateFails, store
<1>3. CASE Stops(w)
  BY <1>1, <1>3, EndPassKeeps DEF Stops, store
<1>4. ASSUME Advances(w), UNCHANGED <<store, pass, overlapped>>,
             stage[w] \notin {"cluster", "connect"}
      PROVE  PassInv' /\ CitedInv'
  BY <1>4, OtherPhases
<1>5. CASE Tick(w) \/ Command(w)
  <2>1. stage[w] \notin {"cluster", "connect"}
    BY <1>5, NamesAssumption DEF Tick, Command, ControlInv, Phase
  <2> QED
    BY <1>4, <1>5, <2>1, WorkerAdvances DEF Tick, Command
<1>6. CASE EvalStep(w) \/ EvalFails(w)
  <2>1. UNCHANGED <<store, pass, overlapped>>
    BY <1>6 DEF EvalStep, CreateEvalRun, GetBaselineEvalRun, SetBaseline, SaveBaseline, EvalFails
  <2>2. stage[w] \notin {"cluster", "connect"}
    BY <1>6 DEF EvalStep, CreateEvalRun, GetBaselineEvalRun, SetBaseline, SaveBaseline, EvalFails, At
  <2> QED
    BY <1>4, <1>6, <2>1, <2>2, WorkerAdvances DEF ErrorStep
<1>7. CASE AttemptStep(w) \/ OptimizeFails(w)
  <2>1. UNCHANGED <<store, pass, overlapped>>
    BY <1>7 DEF AttemptStep, ShouldNotOptimize, readCurrentPrompt, Discard, Keep, WriteFile,
                OptimizeFails
  <2>2. stage[w] \notin {"cluster", "connect"}
    <3>1. CASE AttemptStep(w)
      BY <3>1 DEF AttemptStep, ShouldNotOptimize, readCurrentPrompt, Discard, Keep, WriteFile, At
    <3>2. CASE OptimizeFails(w)
      BY <3>2, EvalsAreEvals, NamesAssumption DEF OptimizeFails, ControlInv, Phase
    <3> QED
      BY <1>7, <3>1, <3>2
  <2> QED
    BY <1>4, <1>7, <2>1, <2>2, WorkerAdvances DEF ErrorStep
<1> QED
  BY <1>2, <1>3, <1>5, <1>6, <1>7 DEF ErrorStep

LEMMA CitedStep == ControlInv /\ PassInv /\ CitedInv /\ [Next]_vars => PassInv' /\ CitedInv'
<1> SUFFICES ASSUME ControlInv, PassInv, CitedInv, [Next]_vars PROVE PassInv' /\ CitedInv'
  OBVIOUS
<1>1. CASE UNCHANGED vars
  BY <1>1 DEF vars, store, pass, PassInv, CitedInv, ConsolidatedOnce
<1>2. CASE Next
  BY <1>2, FactsKeep, PassKeeps, OthersKeep DEF Next, Workers
<1> QED
  BY <1>1, <1>2

LEMMA CitedInvHolds == Spec => [](PassInv /\ CitedInv)
<1>1. Init => PassInv /\ CitedInv
  <2> SUFFICES ASSUME Init PROVE PassInv /\ CitedInv
    OBVIOUS
  <2>1. IsFiniteSet(insights) /\ 0 \in 0..MaxFacts
    BY FS_EmptySet, UpkeepAssumption DEF Init
  <2> QED
    BY <2>1 DEF Init, PassInv, CitedInv, ConsolidatedOnce
<1> QED
  BY <1>1, CitedStep, ControlInvHolds, PTL DEF Spec

\* ListUnconsolidatedFacts leaves out what consolidations cite: however passes of
\* schedulers, watchers and commands interleave and break off, a fact is cited
\* twice only if it was in the windows of two passes at once.
THEOREM OneConsolidation == Spec => []ConsolidatedOnce
<1>1. CitedInv => ConsolidatedOnce
  BY DEF CitedInv
<1> QED
  BY <1>1, CitedInvHolds, PTL

LEMMA RestInvHolds == Spec => []RestInv
<1>1. Init => RestInv
  <2> SUFFICES ASSUME Init PROVE RestInv
    OBVIOUS
  <2>1. TickPlan \in Seq(Phases)
    BY EvalsAreEvals DEF TickPlan, Phases
  <2>2. <<>> = SubSeq(TickPlan, Len(TickPlan) - 0 + 1, Len(TickPlan)) /\ 0 \in 0..Len(TickPlan)
    BY <2>1, Endings
  <2>3. IsRest(<<>>)
    BY <2>2 DEF IsRest
  <2> QED
    BY <2>3 DEF Init, RestInv
<1> QED
  BY <1>1, RestStep, ControlInvHolds, PTL DEF Spec

-----------------------------------------------------------------------------
(* Evaluation.                                                             *)

\* A step of one worker leaves the others where they are.
LEMMA OthersStay ==
  ASSUME ControlInv, NEW w \in Workers, Advances(w)
  PROVE  /\ \A v \in Workers : v # w => stage'[v] = stage[v] /\ Phase(v)' = Phase(v)
         /\ w \in DOMAIN stage' /\ DOMAIN plan' = Workers
  BY DEF Advances, Goto, GoOn, ControlInv, Phase

\* The next phase begins at its first stage.
LEMMA GoOnFirst ==
  ASSUME ControlInv, NEW w \in Workers, NEW rest, GoOn(w, rest)
  PROVE  stage'[w] \in {None, "list", "read", "measure"}
  BY DEF GoOn, ControlInv, First

\* What a worker that has nothing more to compare leaves of a type: the best score
\* is not known any more, or what it measured is lower than the baseline, or it has
\* become the baseline.
Settles(w, t) ==
  \/ best'[t] = Unknown
  \/ /\ best'[t] = best[t] /\ baseline'[t] = baseline[t]
     /\ Comparing(w) /\ Phase(w) = t => baseline[t] # None /\ score[w] < baseline[t]
  \/ /\ best'[t] = best[t] /\ baseline'[t] = score[w]
     /\ Comparing(w) /\ Phase(w) = t /\ BecomesBaseline(score[w], baseline[t])
  \/ /\ best'[t] = best[t] /\ baseline'[t] = best[t] /\ best[t] # None
     /\ ~Comparing(w)

LEMMA LeavesCompare ==
  ASSUME EvalInv, NEW w \in Workers,
         \A v \in Workers : v # w => stage'[v] = stage[v] /\ Phase(v)' = Phase(v),
         ~Comparing(w)',
         NEW s \in Scores \cup {None}, score' = [score EXCEPT ![w] = s],
         s # None <=> stage'[w] = "save",
         seen' = [seen EXCEPT ![w] = None] \/ UNCHANGED seen,
         baseline' \in [EvalTypes -> Scores \cup {None}],
         best' \in [EvalTypes -> Scores \cup {None, Unknown}],
         \A t \in EvalTypes : Settles(w, t)
  PROVE  EvalInv'
<1>1. score' \in [Workers -> Scores \cup {None}] /\ seen' \in [Workers -> Scores \cup {None}]
  BY DEF EvalInv
<1>2. \A v \in Workers : v # w => score'[v] = score[v] /\ seen'[v] = seen[v]
                                  /\ (Comparing(v)' <=> Comparing(v))
  BY DEF EvalInv, Comparing
<1>3. score'[w] = s /\ stage'[w] \notin {"compare", "set"}
  BY DEF EvalInv, Comparing
<1>4. ASSUME NEW v \in Workers
      PROVE  /\ score'[v] # None <=> stage'[v] \in {"compare", "set", "save"}
             /\ stage'[v] = "set" => BecomesBaseline(score'[v], seen'[v])
  <2>1. CASE v = w
    BY <1>3, <2>1
  <2>2. CASE v # w
    BY <1>2, <2>2 DEF EvalInv
  <2> QED
    BY <2>1, <2>2
<1>5. ASSUME NEW t \in EvalTypes, best'[t] # Unknown
      PROVE  /\ baseline'[t] # None => best'[t] # None /\ best'[t] >= baseline'[t]
             /\ \A v \in Workers : Comparing(v)' /\ Phase(v)' = t =>
                  best'[t] # None /\ best'[t] >= score'[v]
             /\ \/ baseline'[t] = best'[t]
                \/ \E v \in Workers : Comparing(v)' /\ Phase(v)' = t /\ score'[v] = best'[t]
  <2>1. best'[t] = best[t] /\ best[t] # Unknown /\ best[t] \in Nat \cup {None}
    BY <1>5, UpkeepAssumption DEF Settles, EvalInv
  <2>2. \A v \in Workers : Comparing(v)' /\ Phase(v)' = t =>
          best'[t] # None /\ best'[t] >= score'[v]
    BY <1>2, <2>1 DEF EvalInv
  <2>4. ASSUME baseline'[t] # best[t], NEW v \in Workers, Comparing(v), Phase(v) = t,
               score[v] = best[t]
        PROVE  v # w
    <3> SUFFICES ASSUME v = w PROVE FALSE
      OBVIOUS
    <3>1. baseline[t] # None /\ score[w] < baseline[t]
      BY <2>1, <2>4, <1>5 DEF Settles
    <3>2. best[t] # None /\ best[t] >= baseline[t]
      BY <2>1, <3>1 DEF EvalInv
    <3>3. baseline[t] \in Nat /\ best[t] \in Nat
      BY <2>1, <3>1, <3>2, UpkeepAssumption DEF EvalInv
    <3> QED
      BY <2>4, <3>1, <3>2, <3>3
  <2>5. ASSUME baseline'[t] # best[t]
        PROVE  \E v \in Workers : v # w /\ Comparing(v) /\ Phase(v) = t /\ score[v] = best[t]
    <3>1. CASE baseline'[t] = baseline[t]
      BY <2>1, <2>4, <2>5, <3>1 DEF EvalInv
    <3>2. CASE /\ baseline'[t] = score[w] /\ Comparing(w) /\ Phase(w) = t
               /\ BecomesBaseline(score[w], baseline[t])
      <4>1. best[t] # None /\ best[t] >= score[w] /\ score[w] \in Nat /\ score[w] # best[t]
        <5>1. best[t] # None /\ best[t] >= score[w]
          BY <2>1, <3>2 DEF EvalInv
        <5>2. score[w] \in Scores
          BY <3>2 DEF EvalInv, Comparing
        <5> QED
          BY <2>5, <3>2, <5>1, <5>2, UpkeepAssumption
      <4>2. baseline[t] # best[t]
        <5> SUFFICES ASSUME baseline[t] = best[t] PROVE FALSE
          OBVIOUS
        <5>1. score[w] >= best[t]
          BY <3>2, <4>1 DEF BecomesBaseline
        <5> QED
          BY <2>1, <4>1, <5>1
      <4> QED
        BY <2>1, <2>4, <2>5, <4>2 DEF EvalInv
    <3> QED
      BY <1>5, <2>5, <3>1, <3>2 DEF Settles
  <2>6. ASSUME baseline'[t] # None PROVE best[t] # None /\ best[t] >= baseline'[t]
    <3>1. CASE baseline'[t] = baseline[t]
      BY <2>1, <2>6, <3>1 DEF EvalInv
    <3>2. CASE baseline'[t] = score[w] /\ Comparing(w) /\ Phase(w) = t
      BY <2>1, <3>2 DEF EvalInv
    <3>3. CASE baseline'[t] = best[t]
      BY <2>1, <2>6, <3>3
    <3> QED
      BY <1>5, <3>1, <3>2, <3>3 DEF Settles
  <2> QED
    <3>1. CASE baseline'[t] # best[t]
      BY <1>2, <2>1, <2>2, <2>5, <2>6, <3>1
    <3> QED
      BY <2>1, <2>2, <2>6, <3>1
<1> QED
  BY <1>1, <1>4, <1>5 DEF EvalInv

\* Steps of other phases, and what a stopped worker leaves.
LEMMA NotEvaluating ==
  ASSUME ControlInv, EvalInv, NEW w \in Workers, Advances(w),
         stage[w] \notin {"measure", "compare", "set", "save"}, UNCHANGED evals
  PROVE  EvalInv'
<1>1. stage'[w] \notin {"compare", "set", "save"}
  <2>1. ASSUME NEW s \in Stages, <<stage[w], s>> \in Moves, Goto(w, s)
        PROVE  stage'[w] \notin {"compare", "set", "save"}
    BY <2>1 DEF Goto, Moves, ControlInv
  <2>2. ASSUME NEW rest, GoOn(w, rest) PROVE stage'[w] \notin {"compare", "set", "save"}
    BY <2>2, GoOnFirst, NamesAssumption
  <2> QED
    BY <2>1, <2>2 DEF Advances, Comparing
<1>2. score[w] = None /\ ~Comparing(w) /\ ~Comparing(w)'
  BY <1>1 DEF EvalInv, Comparing
<1>3. score' = [score EXCEPT ![w] = None] /\ UNCHANGED <<seen, baseline, best>>
  BY <1>2 DEF EvalInv, evals
<1>4. /\ best' \in [EvalTypes -> Scores \cup {None, Unknown}]
      /\ baseline' \in [EvalTypes -> Scores \cup {None}]
      /\ \A t \in EvalTypes : Settles(w, t)
  BY <1>2, <1>3 DEF EvalInv, Settles
<1>5. stage'[w] # "save"
  BY <1>1
<1> QED
  BY <1>2, <1>3, <1>4, <1>5, OthersStay, LeavesCompare

\* After the comparison --save-baseline has its turn, or the next phase.
LEMMA DoneComparing ==
  ASSUME ControlInv, EvalInv, NEW w \in Workers, EvalDone(w), Comparing(w),
         \A v \in Workers : v # w => stage'[v] = stage[v] /\ Phase(v)' = Phase(v),
         baseline' \in [EvalTypes -> Scores \cup {None}],
         best' \in [EvalTypes -> Scores \cup {None, Unknown}],
         \A t \in EvalTypes : Settles(w, t)
  PROVE  EvalInv'
<1>1. seen' = [seen EXCEPT ![w] = None]
  BY DEF EvalDone
<1>2. CASE Saves(w)
  <2>1. stage'[w] = "save" /\ score' = score
    BY <1>2 DEF EvalDone, Goto, ControlInv
  <2>2. score[w] \in Scores \cup {None} /\ score[w] # None
    BY DEF EvalInv, Comparing
  <2>3. score' = [score EXCEPT ![w] = score[w]]
    BY <2>1 DEF EvalInv
  <2>4. ~Comparing(w)'
    BY <2>1 DEF Comparing
  <2> QED
    BY <1>1, <2>1, <2>2, <2>3, <2>4, LeavesCompare
<1>3. CASE ~Saves(w)
  <2>1. stage'[w] \in {None, "list", "read", "measure"} /\ score' = [score EXCEPT ![w] = None]
    BY <1>3, GoOnFirst DEF EvalDone
  <2>2. ~Comparing(w)' /\ stage'[w] # "save"
    BY <2>1, NamesAssumption DEF Comparing
  <2> QED
    BY <1>1, <2>1, <2>2, LeavesCompare
<1> QED
  BY <1>2, <1>3

LEMMA EvalKeeps ==
  ASSUME ControlInv, EvalInv, NEW w \in Workers, EvalStep(w)
  PROVE  EvalInv'
<1>1. /\ \A v \in Workers : v # w => stage'[v] = stage[v] /\ Phase(v)' = Phase(v)
  BY WorkerAdvances, OthersStay
<1>2. stage \in [Workers -> Stages \cup {None}]
  BY DEF ControlInv
<1>3. CASE CreateEvalRun(w)
  <2> DEFINE t == Phase(w)
  <2>1. PICK s \in Scores : /\ score' = [score EXCEPT ![w] = s]
                            /\ best' = [best EXCEPT ![t] = BestOf(s, @)]
    BY <1>3 DEF CreateEvalRun
  <2>2. /\ stage' = [stage EXCEPT ![w] = "compare"] /\ UNCHANGED <<baseline, seen, plan>>
        /\ stage[w] = "measure"
    BY <1>3 DEF CreateEvalRun, Goto, At
  <2>3. t \in EvalTypes
    BY <2>2, NamesAssumption DEF ControlInv
  <2>4. s \in Nat /\ s # None /\ s # Unknown
    BY UpkeepAssumption, NamesAssumption
  <2>5. /\ stage'[w] = "compare" /\ Phase(w)' = t /\ score'[w] = s
        /\ score' \in [Workers -> Scores \cup {None}]
        /\ \A v \in Workers : v # w => score'[v] = score[v]
    BY <1>2, <2>1, <2>2 DEF EvalInv, Phase
  <2>6. /\ best'[t] = BestOf(s, best[t])
        /\ \A u \in EvalTypes : u # t => best'[u] = best[u]
    BY <2>1, <2>3 DEF EvalInv
  <2>7. best' \in [EvalTypes -> Scores \cup {None, Unknown}]
    <3>1. BestOf(s, best[t]) \in Scores \cup {None, Unknown}
      BY <2>3 DEF BestOf, EvalInv
    <3> QED
      BY <2>1, <3>1 DEF EvalInv
  <2>8. \A v \in Workers : v # w => (Comparing(v)' <=> Comparing(v))
    BY <1>1 DEF Comparing
  <2>9. ~Comparing(w) /\ Comparing(w)'
    BY <2>2, <2>5 DEF Comparing
  <2>10. ASSUME best'[t] # Unknown
         PROVE  /\ best[t] # Unknown /\ best'[t] \in Nat /\ best'[t] >= s
                /\ best[t] # None => best'[t] >= best[t] /\ best[t] \in Nat
                /\ best'[t] = s \/ best'[t] = best[t]
    <3>1. best[t] \in Nat \cup {None, Unknown}
      BY <2>3, UpkeepAssumption DEF EvalInv
    <3> QED
      BY <2>4, <2>6, <2>10, <3>1, NamesAssumption DEF BestOf
  <2>11. ASSUME NEW v \in Workers
         PROVE  /\ score'[v] # None <=> stage'[v] \in {"compare", "set", "save"}
                /\ stage'[v] = "set" => BecomesBaseline(score'[v], seen'[v])
    <3>1. CASE v = w
      BY <2>4, <2>5, <3>1
    <3>2. CASE v # w
      BY <1>1, <2>2, <2>5, <3>2 DEF EvalInv
    <3> QED
      BY <3>1, <3>2
  <2>12. ASSUME NEW u \in EvalTypes, best'[u] # Unknown
         PROVE  /\ baseline'[u] # None => best'[u] # None /\ best'[u] >= baseline'[u]
                /\ \A v \in Workers : Comparing(v)' /\ Phase(v)' = u =>
                     best'[u] # None /\ best'[u] >= score'[v]
                /\ \/ baseline'[u] = best'[u]
                   \/ \E v \in Workers : Comparing(v)' /\ Phase(v)' = u /\ score'[v] = best'[u]
    <3>1. CASE u # t
      BY <1>1, <2>2, <2>5, <2>6, <2>8, <2>9, <2>12, <3>1 DEF EvalInv
    <3>2. CASE u = t
      <4>1. best'[t] # None
        BY <2>10, <2>12, <3>2, NamesAssumption
      <4>2. best[t] # Unknown
        BY <2>10, <2>12, <3>2
      <4>3. ASSUME baseline[t] # None PROVE best'[t] >= baseline[t]
        <5>1. best[t] # None /\ best[t] >= baseline[t] /\ baseline[t] \in Nat
          BY <2>3, <4>2, <4>3, UpkeepAssumption DEF EvalInv
        <5> QED
          BY <2>10, <2>12, <3>2, <5>1
      <4>4. ASSUME NEW v \in Workers, Comparing(v)', Phase(v)' = t PROVE best'[t] >= score'[v]
        <5>1. CASE v = w
          BY <2>5, <2>10, <2>12, <3>2, <5>1
        <5>2. CASE v # w
          <6>1. Comparing(v) /\ Phase(v) = t /\ score'[v] = score[v]
            BY <1>1, <2>5, <2>8, <4>4, <5>2
          <6>2. best[t] # None /\ best[t] >= score[v]
            BY <2>3, <4>2, <6>1 DEF EvalInv
          <6>3. score[v] \in Nat
            <7>1. score[v] \in Scores
              BY <6>1 DEF EvalInv, Comparing
            <7> QED
              BY <7>1, UpkeepAssumption
          <6> QED
            BY <2>10, <2>12, <3>2, <6>1, <6>2, <6>3
        <5> QED
          BY <5>1, <5>2
      <4>5. CASE best'[t] = s
        BY <2>2, <2>5, <2>9, <3>2, <4>1, <4>3, <4>4, <4>5
      <4>6. CASE best'[t] = best[t]
        <5>1. \/ baseline[t] = best[t]
              \/ \E v \in Workers : Comparing(v) /\ Phase(v) = t /\ score[v] = best[t]
          BY <2>3, <4>2 DEF EvalInv
        <5>2. \/ baseline'[t] = best'[t]
              \/ \E v \in Workers : Comparing(v)' /\ Phase(v)' = t /\ score'[v] = best'[t]
          BY <1>1, <2>2, <2>5, <2>8, <2>9, <4>6, <5>1
        <5> QED
          BY <2>2, <3>2, <4>1, <4>3, <4>4, <5>2
      <4> QED
        BY <2>10, <2>12, <3>2, <4>5, <4>6
    <3> QED
      BY <3>1, <3>2
  <2> QED
    BY <2>2, <2>5, <2>7, <2>11, <2>12 DEF EvalInv
<1>4. CASE GetBaselineEvalRun(w)
  <2> DEFINE t == Phase(w)
  <2>1. /\ stage[w] = "compare" /\ UNCHANGED <<baseline, best>>
    BY <1>4 DEF GetBaselineEvalRun, At
  <2>2. t \in EvalTypes
    BY <2>1, NamesAssumption DEF ControlInv
  <2>3. CASE BecomesBaseline(score[w], baseline[t])
    <3>1. /\ seen' = [seen EXCEPT ![w] = baseline[t]]
          /\ stage' = [stage EXCEPT ![w] = "set"] /\ UNCHANGED <<plan, score>>
      BY <1>4, <2>3 DEF GetBaselineEvalRun, Goto
    <3>2. /\ seen' \in [Workers -> Scores \cup {None}] /\ seen'[w] = baseline[t]
          /\ \A v \in Workers : v # w => seen'[v] = seen[v]
          /\ stage'[w] = "set" /\ Phase(w)' = Phase(w)
      BY <1>2, <2>2, <3>1 DEF EvalInv, Phase
    <3>3. \A v \in Workers : (Comparing(v)' <=> Comparing(v)) /\ Phase(v)' = Phase(v)
      BY <1>1, <2>1, <3>2 DEF Comparing
    <3>4. ASSUME NEW v \in Workers
          PROVE  /\ score'[v] # None <=> stage'[v] \in {"compare", "set", "save"}
                 /\ stage'[v] = "set" => BecomesBaseline(score'[v], seen'[v])
      <4>1. CASE v = w
        BY <2>1, <2>3, <3>1, <3>2, <4>1 DEF EvalInv
      <4>2. CASE v # w
        BY <1>1, <3>1, <3>2, <4>2 DEF EvalInv
      <4> QED
        BY <4>1, <4>2
    <3>5. \A u \in EvalTypes : best'[u] # Unknown =>
            /\ baseline'[u] # None => best'[u] # None /\ best'[u] >= baseline'[u]
            /\ \A v \in Workers : Comparing(v)' /\ Phase(v)' = u =>
                 best'[u] # None /\ best'[u] >= score'[v]
            /\ \/ baseline'[u] = best'[u]
               \/ \E v \in Workers : Comparing(v)' /\ Phase(v)' = u /\ score'[v] = best'[u]
      BY <2>1, <3>1, <3>3 DEF EvalInv
    <3> QED
      BY <2>1, <3>1, <3>2, <3>4, <3>5 DEF EvalInv
  <2>4. CASE ~BecomesBaseline(score[w], baseline[t])
    <3>1. EvalDone(w)
      BY <1>4, <2>4 DEF GetBaselineEvalRun
    <3>2. baseline[t] # None /\ score[w] < baseline[t]
      <4>1. score[w] \in Nat
        BY <2>1, UpkeepAssumption DEF EvalInv
      <4>2. baseline[t] # None /\ ~(score[w] >= baseline[t])
        BY <2>4 DEF BecomesBaseline
      <4>3. baseline[t] \in Nat
        BY <2>2, <4>2, UpkeepAssumption DEF EvalInv
      <4> QED
        BY <4>1, <4>2, <4>3
    <3>3. /\ best' \in [EvalTypes -> Scores \cup {None, Unknown}]
          /\ baseline' \in [EvalTypes -> Scores \cup {None}]
          /\ Comparing(w)
      BY <2>1 DEF EvalInv, Comparing
    <3>4. \A u \in EvalTypes : Settles(w, u)
      BY <2>1, <3>2 DEF Settles
    <3> QED
      BY <1>1, <3>1, <3>3, <3>4, DoneComparing
  <2> QED
    BY <2>3, <2>4
<1>5. CASE SetBaseline(w)
  <2> DEFINE t == Phase(w)
  <2>1. /\ stage[w] = "set" /\ EvalDone(w) /\ baseline' = [baseline EXCEPT ![t] = score[w]]
        /\ best' = [best EXCEPT ![t] = IF baseline[t] # seen[w] THEN Unknown ELSE @]
    BY <1>5 DEF SetBaseline, At
  <2>2. t \in EvalTypes /\ Comparing(w)
    BY <2>1, NamesAssumption DEF ControlInv, Comparing
  <2>3. /\ score[w] \in Scores /\ BecomesBaseline(score[w], seen[w])
    BY <2>1 DEF EvalInv
  <2>4. /\ best' \in [EvalTypes -> Scores \cup {None, Unknown}]
        /\ baseline' \in [EvalTypes -> Scores \cup {None}]
    BY <2>1, <2>2, <2>3 DEF EvalInv
  <2>5. baseline'[t] = score[w] /\ best'[t] = IF baseline[t] # seen[w] THEN Unknown ELSE best[t]
    BY <2>1, <2>2 DEF EvalInv
  <2>6. \A u \in EvalTypes : u # t => baseline'[u] = baseline[u] /\ best'[u] = best[u]
    BY <2>1, <2>2 DEF EvalInv
  <2>7. \A u \in EvalTypes : Settles(w, u)
    <3>1. Settles(w, t)
      BY <2>2, <2>3, <2>5 DEF Settles
    <3>2. \A u \in EvalTypes : u # t => Settles(w, u)
      BY <2>6 DEF Settles
    <3> QED
      BY <3>1, <3>2
  <2> QED
    BY <1>1, <2>1, <2>2, <2>4, <2>7, DoneComparing
<1>6. CASE SaveBaseline(w)
  <2> DEFINE t == Phase(w)
  <2>1. /\ stage[w] = "save" /\ baseline' = [baseline EXCEPT ![t] = score[w]]
        /\ best' = [best EXCEPT ![t] = IF score[w] # @ THEN Unknown ELSE @]
        /\ GoOn(w, <<>>) /\ score' = [score EXCEPT ![w] = None] /\ UNCHANGED seen
    BY <1>6 DEF SaveBaseline, At
  <2>2. t \in EvalTypes /\ ~Comparing(w)
    BY <2>1, NamesAssumption DEF ControlInv, Comparing
  <2>3. score[w] \in Scores /\ score[w] # None
    BY <2>1 DEF EvalInv
  <2>4. /\ best' \in [EvalTypes -> Scores \cup {None, Unknown}]
        /\ baseline' \in [EvalTypes -> Scores \cup {None}]
    BY <2>1, <2>2, <2>3 DEF EvalInv
  <2>5. baseline'[t] = score[w] /\ best'[t] = IF score[w] # best[t] THEN Unknown ELSE best[t]
    BY <2>1, <2>2 DEF EvalInv
  <2>6. \A u \in EvalTypes : u # t => baseline'[u] = baseline[u] /\ best'[u] = best[u]
    BY <2>1, <2>2 DEF EvalInv
  <2>7. \A u \in EvalTypes : Settles(w, u)
    <3>1. Settles(w, t)
      BY <2>2, <2>3, <2>5 DEF Settles
    <3>2. \A u \in EvalTypes : u # t => Settles(w, u)
      BY <2>2, <2>6 DEF Settles
    <3> QED
      BY <3>1, <3>2
  <2>8. stage'[w] \in {None, "list", "read", "measure"}
    BY <2>1, GoOnFirst
  <2>9. ~Comparing(w)' /\ stage'[w] # "save"
    BY <2>8, NamesAssumption DEF Comparing
  <2> QED
    BY <1>1, <2>1, <2>4, <2>7, <2>9, LeavesCompare
<1> QED
  BY <1>3, <1>4, <1>5, <1>6 DEF EvalStep

\* An evaluation that fails or is stopped.
LEMMA EvalBreaksOff ==
  ASSUME ControlInv, EvalInv, NEW w \in Workers, EvalFails(w) \/ Stops(w)
  PROVE  EvalInv'
<1>1. \A v \in Workers : v # w => stage'[v] = stage[v] /\ Phase(v)' = Phase(v)
  BY WorkerAdvances, OthersStay DEF ErrorStep
<1>2. UNCHANGED baseline /\ baseline' \in [EvalTypes -> Scores \cup {None}]
  BY DEF EvalFails, Stops, EvalInv
<1>3. CASE EvalFails(w) /\ stage[w] \in {"measure", "save"}
  <2>1. /\ score' = [score EXCEPT ![w] = None] /\ UNCHANGED <<seen, best>>
        /\ \E rest : GoOn(w, rest)
    BY <1>3 DEF EvalFails
  <2>2. stage'[w] \in {None, "list", "read", "measure"}
    BY <2>1, GoOnFirst
  <2>3. ~Comparing(w) /\ ~Comparing(w)' /\ stage'[w] # "save"
    BY <1>3, <2>2, NamesAssumption DEF Comparing
  <2>4. /\ best' \in [EvalTypes -> Scores \cup {None, Unknown}]
        /\ \A t \in EvalTypes : Settles(w, t)
    BY <1>2, <2>1, <2>3 DEF EvalInv, Settles
  <2> QED
    BY <1>1, <1>2, <2>1, <2>3, <2>4, LeavesCompare
<1>4. CASE EvalFails(w) /\ stage[w] \notin {"measure", "save"}
  <2>1. EvalDone(w) /\ best' = [best EXCEPT ![Phase(w)] = Unknown]
    BY <1>4 DEF EvalFails
  <2>2. Comparing(w)
    BY <1>4 DEF EvalFails, At, Comparing
  <2>3. best' \in [EvalTypes -> Scores \cup {None, Unknown}]
    BY <2>1 DEF EvalInv
  <2>4. \A t \in EvalTypes : Settles(w, t)
    BY <1>2, <2>1 DEF EvalInv, Settles
  <2> QED
    BY <1>1, <1>2, <2>1, <2>2, <2>3, <2>4, DoneComparing
<1>5. CASE Stops(w)
  <2>1. /\ score' = [score EXCEPT ![w] = None] /\ seen' = [seen EXCEPT ![w] = None]
        /\ best' = [t \in EvalTypes |->
                      IF t = Phase(w) /\ stage[w] \in {"compare", "set"} THEN Unknown ELSE best[t]]
        /\ GoOn(w, <<>>)
    BY <1>5 DEF Stops, EndPass
  <2>2. stage'[w] \in {None, "list", "read", "measure"}
    BY <2>1, GoOnFirst
  <2>3. ~Comparing(w)' /\ stage'[w] # "save"
    BY <2>2, NamesAssumption DEF Comparing
  <2>4. best' \in [EvalTypes -> Scores \cup {None, Unknown}]
    BY <2>1 DEF EvalInv
  <2>5. \A t \in EvalTypes : Settles(w, t)
    BY <1>2, <2>1 DEF Settles, Comparing
  <2> QED
    BY <1>1, <1>2, <2>1, <2>3, <2>4, <2>5, LeavesCompare
<1> QED
  BY <1>3, <1>4, <1>5

LEMMA EvalInvStep == ControlInv /\ EvalInv /\ [Next]_vars => EvalInv'
<1> SUFFICES ASSUME ControlInv, EvalInv, [Next]_vars PROVE EvalInv'
  OBVIOUS
<1>1. CASE UNCHANGED vars \/ FactArrives \/ DeleteExpiredFacts
  <2>1. UNCHANGED <<evals, plan, stage>>
    BY <1>1 DEF vars, FactArrives, DeleteExpiredFacts
  <2> QED
    BY <2>1 DEF evals, EvalInv, Comparing, Phase
<1>2. ASSUME NEW w \in Workers, (w \in Schedulers /\ Tick(w)) \/ (w \in Others /\ Command(w))
      PROVE  EvalInv'
  <2>1. stage[w] \notin {"measure", "compare", "set", "save"} /\ UNCHANGED evals
    BY <1>2, EvalsAreEvals, NamesAssumption DEF Tick, Command, ControlInv, Phase
  <2> QED
    BY <1>2, <2>1, WorkerAdvances, NotEvaluating
<1>3. ASSUME NEW w \in Workers,
             PassStep(w) \/ AttemptStep(w) \/ ConsolidateFails(w) \/ OptimizeFails(w)
      PROVE  EvalInv'
  <2>1. UNCHANGED evals
    BY <1>3 DEF PassStep, Consolidate, consolidateCluster, CreateFactConnection, AttemptStep,
                ShouldNotOptimize, readCurrentPrompt, Discard, Keep, WriteFile, ConsolidateFails,
                OptimizeFails
  <2>2. stage[w] \notin {"measure", "compare", "set", "save"}
    <3>1. CASE PassStep(w) \/ AttemptStep(w) \/ ConsolidateFails(w)
      BY <3>1 DEF PassStep, Consolidate, consolidateCluster, CreateFactConnection, AttemptStep,
                  ShouldNotOptimize, readCurrentPrompt, Discard, Keep, WriteFile,
                  ConsolidateFails, At
    <3>2. CASE OptimizeFails(w)
      BY <3>2, EvalsAreEvals, NamesAssumption DEF OptimizeFails, ControlInv
    <3> QED
      BY <1>3, <3>1, <3>2
  <2> QED
    BY <1>3, <2>1, <2>2, WorkerAdvances, NotEvaluating DEF ErrorStep
<1>4. ASSUME NEW w \in Workers, EvalStep(w) \/ EvalFails(w) \/ Stops(w) PROVE EvalInv'
  BY <1>4, EvalKeeps, EvalBreaksOff
<1> QED
  BY <1>1, <1>2, <1>3, <1>4 DEF Next, ErrorStep, Workers

LEMMA EvalInvHolds == Spec => []EvalInv
<1>1. Init => EvalInv
  <2> SUFFICES ASSUME Init PROVE EvalInv
    OBVIOUS
  <2>1. \A w \in Workers : stage[w] = None /\ ~Comparing(w)
    BY NamesAssumption DEF Init, Comparing
  <2> QED
    BY <2>1, NamesAssumption DEF Init, EvalInv, Comparing
<1> QED
  BY <1>1, EvalInvStep, ControlInvHolds, PTL DEF Spec

\* autoUpdateBaseline reads the baseline and sets it in two statements: when every
\* run that was recorded was compared, the baseline is the best of them, unless an
\* update raced with another, broke off or was made by hand.
THEOREM BestIsBaseline == Spec => []BaselineIsBest
<1>1. EvalInv => BaselineIsBest
  BY DEF EvalInv, BaselineIsBest, Comparing
<1> QED
  BY <1>1, EvalInvHolds, PTL

-----------------------------------------------------------------------------
(* The optimizer.                                                          *)

\* Steps of other phases.
LEMMA NotAttempting ==
  ASSUME ControlInv, PromptInv, NEW w \in Workers, Advances(w),
         {stage[w], stage'[w]} \cap {"judge", "write"} = {}, UNCHANGED tuning
  PROVE  PromptInv'
<1>1. \A v \in Workers : v # w => stage'[v] = stage[v]
  BY OthersStay
<1>2. Writing' = Writing
  BY <1>1 DEF Writing
<1> QED
  BY <1>1, <1>2 DEF PromptInv, tuning

\* An attempt ends without a new prompt.
LEMMA AttemptEnds ==
  ASSUME ControlInv, PromptInv, NEW w \in Workers, NEW rest, EndAttempt(w, rest),
         BreaksOff(w), UNCHANGED <<prompt, kept>>
  PROVE  PromptInv'
<1>1. stage'[w] \notin {"judge", "write"}
  BY GoOnFirst, NamesAssumption DEF EndAttempt
<1>2. \A v \in Workers : v # w =>
        /\ stage'[v] = stage[v] /\ basis'[v] = basis[v] /\ candidate'[v] = candidate[v]
        /\ v \in overtaken' <=> v \in overtaken
  BY DEF EndAttempt, GoOn, ControlInv, PromptInv
<1>3. /\ basis' \in [Workers -> 0..Len(kept) \cup {Torn, None}] /\ basis'[w] = None
      /\ candidate' \in [Workers -> 1..Len(kept) \cup {None}] /\ candidate'[w] = None
  BY DEF PromptInv, EndAttempt
<1>4. \A v \in Workers :
        /\ basis'[v] # None <=> stage'[v] \in {"judge", "write"}
        /\ candidate'[v] # None <=> stage'[v] = "write"
  BY <1>1, <1>2, <1>3 DEF PromptInv
<1>5. Writing' = Writing \ {w}
  BY <1>1, <1>2 DEF Writing
<1>6. spoiled \subseteq spoiled' /\ spoiled' \subseteq 1..Len(kept)
  <2>1. stage[w] = "write" => candidate[w] \in 1..Len(kept)
    BY DEF PromptInv
  <2> QED
    BY <2>1 DEF BreaksOff, PromptInv
<1>7. ASSUME NEW v \in Workers, stage'[v] = "judge", v \notin overtaken'
      PROVE  Writing' = {} /\ (Len(kept) \notin spoiled' => basis'[v] = Len(kept))
  <2>1. v # w /\ stage[v] = "judge" /\ v \notin overtaken
    BY <1>1, <1>2, <1>7
  <2>2. Writing = {} /\ (Len(kept) \notin spoiled => basis[v] = Len(kept))
    BY <2>1 DEF PromptInv
  <2> QED
    BY <1>2, <1>5, <1>6, <2>1, <2>2
<1>8. ASSUME Len(kept) \notin spoiled'
      PROVE  /\ Writing' = Writing
             /\ \A v \in Writing : v \notin overtaken' /\ candidate'[v] = Len(kept)
             /\ Len(kept) \notin spoiled
  <2>1. Len(kept) \notin spoiled
    BY <1>6, <1>8
  <2>2. w \notin Writing
    <3> SUFFICES ASSUME w \in Writing PROVE FALSE
      OBVIOUS
    <3>1. stage[w] = "write" /\ candidate[w] = Len(kept)
      BY <2>1 DEF PromptInv, Writing
    <3> QED
      BY <1>8, <3>1 DEF BreaksOff
  <2>3. \A v \in Writing : v \in Workers /\ v # w
    BY <2>2 DEF Writing
  <2> QED
    BY <1>2, <1>5, <2>1, <2>2, <2>3 DEF PromptInv
<1>9. \A t \in DOMAIN kept' \ spoiled' : kept'[t] = t - 1 \/ t - 1 \in spoiled'
  BY <1>6 DEF PromptInv
<1> QED
  BY <1>3, <1>4, <1>6, <1>7, <1>8, <1>9 DEF PromptInv

LEMMA ReadKeeps ==
  ASSUME ControlInv, PromptInv, NEW w \in Workers, readCurrentPrompt(w)
  PROVE  PromptInv'
<1>1. /\ stage[w] = "read" /\ stage' = [stage EXCEPT ![w] = "judge"]
      /\ basis' = [basis EXCEPT ![w] = prompt] /\ UNCHANGED <<prompt, candidate, kept, spoiled>>
      /\ overtaken' = IF Writing # {} THEN overtaken \cup {w} ELSE overtaken
  BY DEF readCurrentPrompt, Goto, At
<1>2. /\ stage'[w] = "judge" /\ basis'[w] = prompt
      /\ basis' \in [Workers -> 0..Len(kept) \cup {Torn, None}]
      /\ \A v \in Workers : v # w => basis'[v] = basis[v] /\ stage'[v] = stage[v]
  BY <1>1 DEF PromptInv, ControlInv
<1>3. Writing' = Writing /\ w \notin Writing
  BY <1>1, <1>2 DEF Writing
<1>4. prompt # None
  BY NamesAssumption DEF PromptInv
<1>5. \A v \in Workers :
        /\ basis'[v] # None <=> stage'[v] \in {"judge", "write"}
        /\ candidate'[v] # None <=> stage'[v] = "write"
  BY <1>1, <1>2, <1>4 DEF PromptInv
<1>6. ASSUME NEW v \in Workers, stage'[v] = "judge", v \notin overtaken'
      PROVE  Writing = {} /\ (Len(kept) \notin spoiled => basis'[v] = Len(kept))
  <2>1. CASE v = w
    <3>1. Writing = {}
      BY <1>1, <1>6, <2>1
    <3> QED
      BY <1>2, <2>1, <3>1 DEF PromptInv
  <2>2. CASE v # w
    BY <1>1, <1>2, <1>6, <2>2 DEF PromptInv
  <2> QED
    BY <2>1, <2>2
<1>7. \A v \in Writing : v \notin overtaken => v \notin overtaken'
  BY <1>1, <1>3
<1> QED
  BY <1>1, <1>2, <1>3, <1>5, <1>6, <1>7 DEF PromptInv

LEMMA KeepKeeps ==
  ASSUME ControlInv, PromptInv, NEW w \in Workers, Keep(w)
  PROVE  PromptInv'
<1> DEFINE n == Len(kept)
<1>1. /\ stage[w] = "judge" /\ stage' = [stage EXCEPT ![w] = "write"] /\ UNCHANGED basis
      /\ candidate' = [candidate EXCEPT ![w] = n + 1] /\ kept' = Append(kept, basis[w])
      /\ spoiled' = IF w \in overtaken THEN spoiled \cup {n + 1} ELSE spoiled
      /\ prompt' = Torn
      /\ overtaken' = overtaken \cup ({v \in Workers : Attempting(v)} \ {w})
  BY DEF Keep, Goto, At
<1>2. basis[w] \in 0..n \cup {Torn}
  BY <1>1 DEF PromptInv
<1>3. /\ n \in Nat /\ kept \in Seq(Nat \cup {Torn}) /\ spoiled \subseteq 1..n
  BY DEF PromptInv
<1>4. /\ kept' \in Seq(Nat \cup {Torn}) /\ Len(kept') = n + 1 /\ DOMAIN kept' = 1..(n + 1)
      /\ kept'[n + 1] = basis[w] /\ \A t \in 1..n : kept'[t] = kept[t]
  <2>1. basis[w] \in Nat \cup {Torn}
    BY <1>2, <1>3
  <2> QED
    BY <1>1, <1>3, <2>1
<1>5. /\ stage'[w] = "write" /\ candidate'[w] = n + 1
      /\ \A v \in Workers : v # w => stage'[v] = stage[v] /\ candidate'[v] = candidate[v]
  BY <1>1 DEF PromptInv, ControlInv
<1>6. /\ candidate' \in [Workers -> 1..(n + 1) \cup {None}]
      /\ basis' \in [Workers -> 0..(n + 1) \cup {Torn, None}]
  <2>1. 1..n \subseteq 1..(n + 1) /\ 0..n \subseteq 0..(n + 1) /\ n + 1 \in 1..(n + 1)
    BY <1>3
  <2> QED
    BY <1>1, <2>1 DEF PromptInv
<1>7. \A v \in Workers :
        /\ basis'[v] # None <=> stage'[v] \in {"judge", "write"}
        /\ candidate'[v] # None <=> stage'[v] = "write"
  BY <1>1, <1>3, <1>5, NamesAssumption DEF PromptInv
<1>8. spoiled \subseteq spoiled' /\ spoiled' \subseteq 1..(n + 1)
  <2>1. 1..n \subseteq 1..(n + 1) /\ n + 1 \in 1..(n + 1)
    BY <1>3
  <2> QED
    BY <1>1, <1>3, <2>1
<1>9. \A v \in Workers : stage'[v] = "judge" => v \in overtaken'
  <2> SUFFICES ASSUME NEW v \in Workers, stage'[v] = "judge" PROVE v \in overtaken'
    OBVIOUS
  <2>1. v # w /\ stage[v] = "judge"
    BY <1>5
  <2>2. Attempting(v)
    BY <2>1, NamesAssumption DEF ControlInv, Attempting
  <2> QED
    BY <1>1, <2>1, <2>2
<1>10. w \notin overtaken => Writing = {} /\ (n \notin spoiled => basis[w] = n)
  BY <1>1 DEF PromptInv
<1>11. \A t \in DOMAIN kept' \ spoiled' : kept'[t] = t - 1 \/ t - 1 \in spoiled'
  <2> SUFFICES ASSUME NEW t \in 1..(n + 1), t \notin spoiled'
               PROVE  kept'[t] = t - 1 \/ t - 1 \in spoiled'
    BY <1>4
  <2>1. CASE t = n + 1
    <3>1. w \notin overtaken
      BY <1>1, <2>1
    <3>2. kept'[t] = basis[w] /\ t - 1 = n
      BY <1>3, <1>4, <2>1
    <3> QED
      BY <1>8, <1>10, <3>1, <3>2
  <2>2. CASE t \in 1..n
    <3>1. t \in DOMAIN kept \ spoiled
      BY <1>3, <1>8, <2>2
    <3> QED
      BY <1>4, <1>8, <2>2, <3>1 DEF PromptInv
  <2> QED
    BY <1>3, <2>1, <2>2
<1>12. \A t \in DOMAIN kept' : kept'[t] \in 0..(t - 1) \cup {Torn}
  <2> SUFFICES ASSUME NEW t \in 1..(n + 1) PROVE kept'[t] \in 0..(t - 1) \cup {Torn}
    BY <1>4
  <2>1. CASE t = n + 1
    BY <1>2, <1>3, <1>4, <2>1
  <2>2. CASE t \in 1..n
    BY <1>3, <1>4, <2>2 DEF PromptInv
  <2> QED
    BY <1>3, <2>1, <2>2
<1>13. Writing' = Writing \cup {w}
  BY <1>5 DEF Writing
<1>14. ASSUME n + 1 \notin spoiled'
       PROVE  Writing' = {w} /\ w \notin overtaken'
  <2>1. w \notin overtaken
    BY <1>1, <1>14
  <2> QED
    BY <1>1, <1>10, <1>13, <2>1
<1> QED
  BY <1>1, <1>4, <1>5, <1>6, <1>7, <1>8, <1>9, <1>11, <1>12, <1>13, <1>14 DEF PromptInv

LEMMA WriteKeeps ==
  ASSUME ControlInv, PromptInv, NEW w \in Workers, WriteFile(w)
  PROVE  PromptInv'
<1> DEFINE n == Len(kept)
<1>1. /\ stage[w] = "write" /\ EndAttempt(w, Tail(plan[w])) /\ UNCHANGED kept
      /\ prompt' \in {candidate[w]} \cup (IF prompt # Torn THEN {Torn} ELSE {})
      /\ spoiled' = IF w \in overtaken THEN spoiled \cup {candidate[w]} ELSE spoiled
  BY DEF WriteFile, At
<1>2. stage'[w] \notin {"judge", "write"}
  BY <1>1, GoOnFirst, NamesAssumption DEF EndAttempt
<1>3. /\ basis' \in [Workers -> 0..n \cup {Torn, None}] /\ basis'[w] = None
      /\ candidate' \in [Workers -> 1..n \cup {None}] /\ candidate'[w] = None
      /\ \A v \in Workers : v # w => /\ basis'[v] = basis[v] /\ candidate'[v] = candidate[v]
                                     /\ stage'[v] = stage[v]
                                     /\ v \in overtaken' <=> v \in overtaken
  BY <1>1 DEF EndAttempt, PromptInv, GoOn, ControlInv
<1>4. n \in Nat /\ candidate[w] \in 1..n /\ w \in Writing
  BY <1>1 DEF PromptInv, Writing
<1>5. prompt' \in 0..n \cup {Torn} /\ spoiled \subseteq spoiled' /\ spoiled' \subseteq 1..n
  <2>1. candidate[w] \in 0..n /\ spoiled \subseteq 1..n
    BY <1>4 DEF PromptInv
  <2>2. prompt' = candidate[w] \/ prompt' = Torn
    BY <1>1
  <2> QED
    BY <1>1, <1>4, <2>1, <2>2
<1>6. \A v \in Workers :
        /\ basis'[v] # None <=> stage'[v] \in {"judge", "write"}
        /\ candidate'[v] # None <=> stage'[v] = "write"
  BY <1>2, <1>3 DEF PromptInv
<1>7. \A v \in Workers : stage'[v] = "judge" => v \in overtaken'
  <2> SUFFICES ASSUME NEW v \in Workers, stage'[v] = "judge" PROVE v \in overtaken'
    OBVIOUS
  <2>1. v # w /\ stage[v] = "judge"
    BY <1>2, <1>3
  <2> QED
    BY <1>3, <1>4, <2>1 DEF PromptInv
<1>8. ASSUME n \notin spoiled' PROVE prompt' = n /\ Writing' = {}
  <2>1. n \notin spoiled
    BY <1>5, <1>8
  <2>2. candidate[w] = n /\ prompt = Torn /\ Writing = {w}
    BY <1>4, <2>1 DEF PromptInv
  <2> QED
    BY <1>1, <1>2, <1>3, <2>2 DEF Writing
<1>9. \A t \in DOMAIN kept' \ spoiled' : kept'[t] = t - 1 \/ t - 1 \in spoiled'
  BY <1>1, <1>5 DEF PromptInv
<1> QED
  BY <1>1, <1>3, <1>5, <1>6, <1>7, <1>8, <1>9 DEF PromptInv

LEMMA AttemptKeeps ==
  ASSUME ControlInv, PromptInv, NEW w \in Workers, AttemptStep(w)
  PROVE  PromptInv'
<1>1. CASE ShouldNotOptimize(w)
  <2>1. stage[w] = "read" /\ UNCHANGED tuning /\ \E rest : GoOn(w, rest)
    BY <1>1 DEF ShouldNotOptimize, At
  <2>2. stage'[w] \notin {"judge", "write"}
    BY <2>1, GoOnFirst, NamesAssumption
  <2> QED
    BY <1>1, <2>1, <2>2, WorkerAdvances, NotAttempting
<1>2. CASE Discard(w)
  BY <1>2, AttemptEnds DEF Discard, At, BreaksOff
<1> QED
  BY <1>1, <1>2, ReadKeeps, KeepKeeps, WriteKeeps DEF AttemptStep

LEMMA PromptInvStep == ControlInv /\ PromptInv /\ [Next]_vars => PromptInv'
<1> SUFFICES ASSUME ControlInv, PromptInv, [Next]_vars PROVE PromptInv'
  OBVIOUS
<1>1. CASE UNCHANGED vars \/ FactArrives \/ DeleteExpiredFacts
  <2>1. UNCHANGED <<tuning, stage>>
    BY <1>1 DEF vars, FactArrives, DeleteExpiredFacts
  <2> QED
    BY <2>1 DEF tuning, PromptInv, Writing
<1>2. ASSUME NEW w \in Workers, Advances(w), UNCHANGED tuning,
             stage[w] \notin {"read", "judge", "write"}
      PROVE  PromptInv'
  <2>1. ASSUME NEW rest, GoOn(w, rest) PROVE stage'[w] \notin {"judge", "write"}
    BY <2>1, GoOnFirst, NamesAssumption
  <2>2. ASSUME NEW s \in Stages, <<stage[w], s>> \in Moves \/ s = "save", Goto(w, s)
        PROVE  stage'[w] \notin {"judge", "write"}
    BY <1>2, <2>2 DEF Goto, Moves, ControlInv
  <2>3. stage'[w] \notin {"judge", "write"}
    BY <1>2, <2>1, <2>2 DEF Advances, Stages
  <2> QED
    BY <1>2, <2>3, NotAttempting
<1>3. ASSUME NEW w \in Workers, (w \in Schedulers /\ Tick(w)) \/ (w \in Others /\ Command(w))
      PROVE  PromptInv'
  <2>1. stage[w] \notin {"read", "judge", "write"} /\ UNCHANGED tuning
    BY <1>3, EvalsAreEvals, NamesAssumption DEF Tick, Command, ControlInv, Phase
  <2> QED
    BY <1>2, <1>3, <2>1, WorkerAdvances
<1>4. ASSUME NEW w \in Workers, PassStep(w) \/ EvalStep(w) \/ ConsolidateFails(w) \/ EvalFails(w)
      PROVE  PromptInv'
  <2>1. UNCHANGED tuning
    BY <1>4 DEF PassStep, Consolidate, consolidateCluster, CreateFactConnection, EvalStep,
                CreateEvalRun, GetBaselineEvalRun, SetBaseline, SaveBaseline, ConsolidateFails,
                EvalFails
  <2>2. stage[w] \notin {"read", "judge", "write"}
    BY <1>4 DEF PassStep, Consolidate, consolidateCluster, CreateFactConnection, EvalStep,
                CreateEvalRun, GetBaselineEvalRun, SetBaseline, SaveBaseline, ConsolidateFails,
                EvalFails, At
  <2> QED
    BY <1>2, <1>4, <2>1, <2>2, WorkerAdvances DEF ErrorStep
<1>5. ASSUME NEW w \in Workers, OptimizeFails(w) \/ Stops(w) PROVE PromptInv'
  BY <1>5, AttemptEnds DEF OptimizeFails, Stops, EndAttempt, EndPass
<1>6. ASSUME NEW w \in Workers, AttemptStep(w) PROVE PromptInv'
  BY <1>6, AttemptKeeps
<1> QED
  BY <1>1, <1>3, <1>4, <1>5, <1>6 DEF Next, ErrorStep, Workers

LEMMA PromptInvHolds == Spec => []PromptInv
<1>1. Init => PromptInv
  BY NamesAssumption DEF Init, PromptInv, Writing, Original
<1> QED
  BY <1>1, PromptInvStep, ControlInvHolds, PTL DEF Spec

\* A candidate is kept for being better than the prompt its optimizer has read:
\* however attempts interleave, fail and restart, that is the one kept last, and what
\* was kept last is in use, until one attempt overtakes another or a write breaks off.
THEOREM OptimizerBuildsOnKept == Spec => []KeptImprovesOnLast
<1>1. PromptInv => KeptImprovesOnLast
  BY DEF PromptInv, KeptImprovesOnLast
<1> QED
  BY <1>1, PromptInvHolds, PTL

\* Every variable holds what the tables, the file and the workers can hold.
THEOREM TypeCorrect == Spec => []TypeOK
<1>1. ControlInv /\ RestInv /\ PassInv /\ EvalInv /\ PromptInv => TypeOK
  <2> SUFFICES ASSUME ControlInv, RestInv, PassInv, EvalInv, PromptInv PROVE TypeOK
    OBVIOUS
  <2>1. ASSUME NEW w \in Workers
        PROVE  /\ (stage[w] = None) <=> (plan[w] = <<>>)
               /\ window[w] # {} => Consolidating(w)
               /\ (basis[w] # None) <=> Attempting(w)
    <3>1. plan[w] = <<>> => Phase(w) = None
      BY DEF Phase
    <3>2. (stage[w] = None) <=> (plan[w] = <<>>)
      BY <3>1, EvalsAreEvals, NamesAssumption DEF ControlInv
    <3>3. stage[w] \in {"cluster", "connect"} => Consolidating(w)
      BY NamesAssumption DEF ControlInv, Consolidating
    <3>4. stage[w] \in {"judge", "write"} <=> Attempting(w)
      BY EvalsAreEvals, NamesAssumption, <3>1 DEF ControlInv, Attempting
    <3> QED
      BY <3>2, <3>3, <3>4 DEF PassInv, PromptInv
  <2>2. \A w \in Workers : \E p \in {TickPlan} \cup Plans : \E n \in 0..Len(p) :
          plan[w] = SubSeq(p, Len(p) - n + 1, Len(p))
    BY DEF RestInv, IsRest
  <2> QED
    BY <2>1, <2>2 DEF TypeOK, PassInv, EvalInv, PromptInv
<1> QED
  BY <1>1, ControlInvHolds, RestInvHolds, CitedInvHolds, EvalInvHolds, PromptInvHolds, PTL
=============================================================================
