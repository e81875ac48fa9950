------------------------------- MODULE Upkeep -------------------------------
(***************************************************************************)
(* The background work on what is already stored:                          *)
(*   - consolidation (internal/consolidation): facts that no consolidation *)
(*     cites yet are clustered, each cluster is sent to an LLM, and its    *)
(*     answer is stored as a consolidation and as fact connections;        *)
(*   - evaluation: a score is stored as an eval run and the best one       *)
(*     becomes the baseline of its type (cmd/imprint/main.go);             *)
(*   - the optimizer (internal/quality/optimizer.go): an LLM rewrites the  *)
(*     extraction prompt, and a candidate that scores better than the      *)
(*     current prompt overwrites the file of the optimized prompt.         *)
(* A worker is the scheduler of a serve process, a watcher's goroutine or  *)
(* a CLI command.  What it has to do is a plan, a sequence of phases, and  *)
(* a phase goes through stages between which the other workers act.  The   *)
(* tables and the prompt file have no lock that spans two stages.          *)
(***************************************************************************)
EXTENDS Naturals, Sequences, FiniteSets, Functions

CONSTANTS
  Schedulers,   \* consolidation schedulers of serve processes
  Others,       \* watchers and CLI commands
  Starts,       \* the plans that each of these carries out
  MaxFacts,     \* bound: facts stored; they are numbered as they come
  Subject,      \* their normalized subjects, None without one
  Topic,        \* their embeddings: facts of one topic are similar
  Expiring,     \* those that the gc command finds expired
  MinFacts,     \* facts that make a tick consolidate
  MaxGroup,     \* facts that one pass looks at; 0 is all of them
  Evals,        \* the types of evals, in the order the optimize command runs them
  Scores,       \* of eval runs
  MaxKept,      \* bound: candidates that optimizers keep
  None, Unknown,
  Torn,         \* the prompt when its file is not all there
  MaxErrors     \* bound: failed steps, lost processes included

Facts == 1..MaxFacts
Workers == Schedulers \cup Others
Original == 0   \* the configured prompt

ASSUME UpkeepAssumption ==
  /\ Schedulers \cap Others = {}
  /\ MaxFacts \in Nat /\ MaxErrors \in Nat
  /\ DOMAIN Subject = Facts /\ DOMAIN Topic = Facts /\ Expiring \subseteq Facts
  /\ Evals \in Seq({"extraction", "retrieval"}) /\ "retrieval" \in Range(Evals)
  /\ MinFacts \in Nat /\ MaxGroup \in Nat
  /\ Scores \subseteq Nat /\ MaxKept \in Nat
ASSUME NamesAssumption ==
  /\ None \notin Nat /\ Unknown \notin Nat \cup {None} /\ Torn \notin Nat \cup {None}
  /\ None \notin {"consolidate", "optimize", "extraction", "retrieval"}
  /\ None \notin {"list", "cluster", "connect", "measure", "compare", "set", "save",
                  "read", "judge", "write"}

VARIABLES
  (* the database and the prompt file *)
  arrived,      \* facts stored so far
  facts,        \* those not deleted
  insights,     \* consolidations: [id, facts]
  links,        \* fact_connections: pairs of facts
  baseline,     \* eval type -> score of its baseline run
  prompt,       \* the prompt in use: the optimized one if it exists
  (* a worker *)
  plan, stage,
  window,       \* facts its pass has read
  todo,         \* clusters it has not sent yet
  pairs,        \* connections it has still to store
  score,        \* what it measured
  seen,         \* the baseline it read
  basis,        \* the current prompt that it read
  candidate,    \* the prompt that it writes
  (* history *)
  errors,
  overlapped,   \* facts that were in the windows of two passes at once
  best,         \* eval type -> best score recorded, Unknown once updates of
                \* its baseline raced, broke off or were made by hand
  kept,         \* for each candidate kept, the prompt it was judged against
  spoiled,      \* candidates whose attempt was overtaken or whose write broke off
  overtaken     \* attempts that read while another one wrote, or during which
                \* another one began to write

store == <<arrived, facts, insights, links>>
pass == <<window, todo, pairs>>
evals == <<baseline, score, seen, best>>
tuning == <<prompt, basis, candidate, kept, spoiled, overtaken>>
vars == <<store, pass, evals, tuning, plan, stage, errors, overlapped>>

-----------------------------------------------------------------------------
(* Plans.                                                                  *)

EvalTypes == Range(Evals)

TickPlan == <<"consolidate", "retrieval">>
OptimizePlan == <<"optimize">> \o Evals
Plans ==
  {<<"consolidate">>, <<"consolidate", "optimize">>, <<"optimize">>, OptimizePlan}
    \cup {<<t>> : t \in EvalTypes}
    \cup {<<t, "save">> : t \in EvalTypes}   \* --save-baseline

ASSUME PlansAssumption == Starts \in [Others -> SUBSET Plans]

First(phase) ==
  CASE phase = "consolidate" -> "list"
    [] phase = "optimize" -> "read"
    [] OTHER -> "measure"

Phase(w) == IF plan[w] = <<>> THEN None ELSE Head(plan[w])
At(w, s) == plan[w] # <<>> /\ stage[w] = s

\* The worker goes on with the phases in rest, or is done.
GoOn(w, rest) ==
  /\ plan' = [plan EXCEPT ![w] = rest]
  /\ stage' = [stage EXCEPT ![w] = IF rest = <<>> THEN None ELSE First(Head(rest))]
Goto(w, s) ==
  /\ stage' = [stage EXCEPT ![w] = s]
  /\ UNCHANGED plan

\* A failed phase ends the scheduler's tick and the optimize command.
AfterError(w) ==
  IF w \in Schedulers \/ plan[w] = OptimizePlan
  THEN <<>> ELSE Tail(plan[w])

Consolidating(w) == Phase(w) = "consolidate" /\ stage[w] # "list"

-----------------------------------------------------------------------------
(* What a consolidation pass looks at.                                     *)

\* Defect: facts that are consolidated already are listed, too.
EveryFact == facts
Unconsolidated == facts \ UNION {i.facts : i \in insights}

Newest(S, n) ==
  IF n = 0 THEN S
  ELSE {f \in S : Cardinality({g \in S : g > f}) < n}

\* No query that lists facts selects their embedding.
Embedding == [f \in Facts |-> None]

Grouped(S, key) == {{g \in S : key[g] = key[f]} : f \in S}
BigEnough(groups) == {c \in groups : Cardinality(c) >= 2}

Leftover(S) ==
  {f \in S : Embedding[f] = None
             /\ (Subject[f] = None
                 \/ \A g \in S \ {f} : Embedding[g] # None \/ Subject[g] # Subject[f])}

\* Defect: what is left over is dropped.
WithoutLeftover(S) ==
  BigEnough({{g \in S : Subject[g] = Subject[f]} : f \in {f \in S : Subject[f] # None}})
\* Similar embeddings, then equal subjects, then what is left over.
clusterFacts(S) ==
  LET withEmb == {f \in S : Embedding[f] # None}
      named == {f \in S \ withEmb : Subject[f] # None}
  IN BigEnough(Grouped(withEmb, Embedding) \cup Grouped(named, Subject)
               \cup {Leftover(S)})

-----------------------------------------------------------------------------
Init ==
  /\ arrived = 0 /\ facts = {} /\ insights = {} /\ links = {}
  /\ baseline = [t \in EvalTypes |-> None]
  /\ prompt = Original
  /\ plan = [w \in Workers |-> <<>>]
  /\ stage = [w \in Workers |-> None]
  /\ window = [w \in Workers |-> {}]
  /\ todo = [w \in Workers |-> {}]
  /\ pairs = [w \in Workers |-> {}]
  /\ score = [w \in Workers |-> None]
  /\ seen = [w \in Workers |-> None]
  /\ basis = [w \in Workers |-> None]
  /\ candidate = [w \in Workers |-> None]
  /\ errors = 0 /\ overlapped = {}
  /\ kept = <<>> /\ spoiled = {} /\ overtaken = {}
  /\ best = [t \in EvalTypes |-> None]

\* An ingest stores a fact.
FactArrives ==
  /\ arrived < MaxFacts
  /\ arrived' = arrived + 1
  /\ facts' = facts \cup {arrived + 1}
  /\ UNCHANGED <<insights, links, pass, evals, tuning, plan, stage, errors, overlapped>>

\* The gc command: one statement, which a connected fact makes fail.
DeleteExpiredFacts ==
  LET gone == facts \cap Expiring IN
  /\ gone # {}
  /\ \A l \in links : l \cap gone = {}
  /\ facts' = facts \ gone
  /\ UNCHANGED <<arrived, insights, links, pass, evals, tuning, plan, stage,
                 errors, overlapped>>

-----------------------------------------------------------------------------
(* Consolidation.                                                          *)

\* The scheduler's tick.
Tick(w) ==
  /\ plan[w] = <<>>
  /\ Cardinality(Unconsolidated) >= MinFacts
  /\ GoOn(w, TickPlan)
  /\ UNCHANGED <<store, pass, evals, tuning, errors, overlapped>>

Command(w) ==
  /\ plan[w] = <<>>
  /\ \E p \in Starts[w] : GoOn(w, p)
  /\ UNCHANGED <<store, pass, evals, tuning, errors, overlapped>>

EndPass(w, rest) ==
  /\ GoOn(w, rest)
  /\ window' = [window EXCEPT ![w] = {}]
  /\ todo' = [todo EXCEPT ![w] = {}]
  /\ pairs' = [pairs EXCEPT ![w] = {}]

Consolidate(w) ==
  LET read == Newest(Unconsolidated, MaxGroup) IN
  /\ At(w, "list")
  /\ IF clusterFacts(read) = {}
     THEN /\ GoOn(w, Tail(plan[w]))
          /\ UNCHANGED <<pass, overlapped>>
     ELSE /\ Goto(w, "cluster")
          /\ window' = [window EXCEPT ![w] = read]
          /\ todo' = [todo EXCEPT ![w] = clusterFacts(read)]
          /\ overlapped' = overlapped \cup UNION {window[v] \cap read : v \in Workers}
          /\ UNCHANGED pairs
  /\ UNCHANGED <<store, evals, tuning, errors>>

\* The LLM answers for one cluster, with at most one connection (a bound), and
\* the consolidation is stored.  The leftover cluster comes last.
consolidateCluster(w) ==
  \E c \in todo[w] :
    /\ At(w, "cluster")
    /\ c = Leftover(window[w]) => todo[w] = {c}
    /\ insights' = insights \cup {[id |-> Cardinality(insights) + 1, facts |-> c]}
    /\ todo' = [todo EXCEPT ![w] = @ \ {c}]
    /\ \E P \in {{}} \cup {{l} : l \in {k \in SUBSET c : Cardinality(k) = 2}} :
         pairs' = [pairs EXCEPT ![w] = P]
    /\ Goto(w, "connect")
    /\ UNCHANGED <<arrived, facts, links, window, evals, tuning, errors, overlapped>>

\* A connection to a fact that is gone by now is refused and skipped.
CreateFactConnection(w) ==
  /\ At(w, "connect")
  /\ links' = links \cup {p \in pairs[w] : p \subseteq facts}
  /\ IF todo[w] = {}
     THEN EndPass(w, Tail(plan[w]))
     ELSE /\ Goto(w, "cluster")
          /\ pairs' = [pairs EXCEPT ![w] = {}]
          /\ UNCHANGED <<window, todo>>
  /\ UNCHANGED <<arrived, facts, insights, evals, tuning, errors, overlapped>>

\* The facts cannot be listed, the LLM or the statement fails, or the answer
\* does not parse: the rest of the pass is dropped.
ConsolidateFails(w) ==
  /\ At(w, "list") \/ At(w, "cluster")
  /\ errors < MaxErrors
  /\ errors' = errors + 1
  /\ EndPass(w, AfterError(w))
  /\ UNCHANGED <<store, evals, tuning, overlapped>>

-----------------------------------------------------------------------------
(* Evaluation: Phase(w) is the type of the eval.                           *)

BestOf(s, t) == IF t = None \/ (t # Unknown /\ s > t) THEN s ELSE t

\* The eval ends and CreateEvalRun stores its score.
CreateEvalRun(w) ==
  /\ At(w, "measure")
  /\ \E s \in Scores :
       /\ score' = [score EXCEPT ![w] = s]
       /\ best' = [best EXCEPT ![Phase(w)] = BestOf(s, @)]
  /\ Goto(w, "compare")
  /\ UNCHANGED <<store, pass, baseline, seen, tuning, errors, overlapped>>

\* Defect: the first baseline is kept.
BaselineOnlyIfNone(new, current) == current = None
BecomesBaseline(new, current) == current = None \/ new >= current

Saves(w) == Len(plan[w]) = 2 /\ plan[w][2] = "save"

\* After the eval run was compared: --save-baseline still has its turn.
EvalDone(w) ==
  /\ seen' = [seen EXCEPT ![w] = None]
  /\ IF Saves(w)
     THEN Goto(w, "save") /\ UNCHANGED score
     ELSE GoOn(w, Tail(plan[w])) /\ score' = [score EXCEPT ![w] = None]

\* autoUpdateBaseline reads the baseline.
GetBaselineEvalRun(w) ==
  /\ At(w, "compare")
  /\ IF BecomesBaseline(score[w], baseline[Phase(w)])
     THEN /\ seen' = [seen EXCEPT ![w] = baseline[Phase(w)]]
          /\ Goto(w, "set")
          /\ UNCHANGED score
     ELSE EvalDone(w)
  /\ UNCHANGED <<store, pass, baseline, best, tuning, errors, overlapped>>

\* One transaction takes the mark from the old baseline and sets the new one.
SetBaseline(w) ==
  LET t == Phase(w) IN
  /\ At(w, "set")
  /\ baseline' = [baseline EXCEPT ![t] = score[w]]
  /\ best' = [best EXCEPT ![t] = IF baseline[t] # seen[w] THEN Unknown ELSE @]
  /\ EvalDone(w)
  /\ UNCHANGED <<store, pass, tuning, errors, overlapped>>

SaveBaseline(w) ==
  LET t == Phase(w) IN
  /\ At(w, "save")
  /\ baseline' = [baseline EXCEPT ![t] = score[w]]
  /\ best' = [best EXCEPT ![t] = IF score[w] # @ THEN Unknown ELSE @]
  /\ GoOn(w, <<>>)
  /\ score' = [score EXCEPT ![w] = None]
  /\ UNCHANGED <<store, pass, seen, tuning, errors, overlapped>>

\* The eval fails or its run is not stored; or the baseline is not updated.
EvalFails(w) ==
  /\ At(w, "measure") \/ At(w, "compare") \/ At(w, "set") \/ At(w, "save")
  /\ errors < MaxErrors
  /\ errors' = errors + 1
  /\ IF stage[w] \in {"measure", "save"}
     THEN /\ GoOn(w, IF Saves(w) THEN <<>> ELSE Tail(plan[w]))
          /\ score' = [score EXCEPT ![w] = None]
          /\ UNCHANGED <<seen, best>>
     ELSE /\ EvalDone(w)
          /\ best' = [best EXCEPT ![Phase(w)] = Unknown]
  /\ UNCHANGED <<store, pass, baseline, tuning, overlapped>>

-----------------------------------------------------------------------------
(* The optimizer.  It is made anew for every attempt, with its time of the *)
(* last attempt and its failure count at zero: it never skips one.  A candidate *)
(* that is kept is known by its number, the Original prompt by 0.          *)

Attempting(w) == Phase(w) = "optimize" /\ stage[w] # "read"
Writing == {v \in Workers : stage[v] = "write"}

EndAttempt(w, rest) ==
  /\ GoOn(w, rest)
  /\ basis' = [basis EXCEPT ![w] = None]
  /\ candidate' = [candidate EXCEPT ![w] = None]
  /\ overtaken' = overtaken \ {w}

\* The signals do not call for an attempt: only the command makes one anyway.
ShouldNotOptimize(w) ==
  /\ At(w, "read") /\ plan[w] # OptimizePlan
  /\ GoOn(w, Tail(plan[w]))
  /\ UNCHANGED <<store, pass, evals, tuning, errors, overlapped>>

\* Defect: the optimized prompt is never read back.
ReadOriginal(w) ==
  /\ At(w, "read")
  /\ basis' = [basis EXCEPT ![w] = Original]
  /\ overtaken' = IF Writing # {} THEN overtaken \cup {w} ELSE overtaken
  /\ Goto(w, "judge")
  /\ UNCHANGED <<store, pass, evals, prompt, candidate, kept, spoiled, errors, overlapped>>
\* While another worker writes the file, what is read may be torn.
readCurrentPrompt(w) ==
  /\ At(w, "read")
  /\ basis' = [basis EXCEPT ![w] = prompt]
  /\ overtaken' = IF Writing # {} THEN overtaken \cup {w} ELSE overtaken
  /\ Goto(w, "judge")
  /\ UNCHANGED <<store, pass, evals, prompt, candidate, kept, spoiled, errors, overlapped>>

(* An LLM answers for the golden examples under the prompt that was read,  *)
(* and then under the candidate.  Both scores are measured anew for every  *)
(* attempt: no prompt has a score of its own, and either verdict may come. *)

Discard(w) ==
  /\ At(w, "judge")
  /\ EndAttempt(w, Tail(plan[w]))
  /\ UNCHANGED <<store, pass, evals, prompt, kept, spoiled, errors, overlapped>>

\* The candidate scored better.  os.WriteFile truncates the file, whatever it
\* holds by now, and then writes it.
Keep(w) ==
  /\ At(w, "judge") /\ Len(kept) < MaxKept
  /\ candidate' = [candidate EXCEPT ![w] = Len(kept) + 1]
  /\ kept' = Append(kept, basis[w])
  /\ spoiled' = IF w \in overtaken THEN spoiled \cup {Len(kept) + 1} ELSE spoiled
  /\ prompt' = Torn
  /\ overtaken' = overtaken \cup ({v \in Workers : Attempting(v)} \ {w})
  /\ Goto(w, "write")
  /\ UNCHANGED <<store, pass, evals, basis, errors, overlapped>>

\* What another worker has written since stays behind a shorter prompt.
WriteFile(w) ==
  /\ At(w, "write")
  /\ prompt' \in {candidate[w]} \cup (IF prompt # Torn THEN {Torn} ELSE {})
  /\ spoiled' = IF w \in overtaken THEN spoiled \cup {candidate[w]} ELSE spoiled
  /\ EndAttempt(w, Tail(plan[w]))
  /\ UNCHANGED <<store, pass, evals, kept, errors, overlapped>>

BreaksOff(w) ==
  spoiled' = IF stage[w] = "write" THEN spoiled \cup {candidate[w]} ELSE spoiled

\* A file, the signals, the golden examples, the LLM or the write fails.
OptimizeFails(w) ==
  /\ Phase(w) = "optimize"
  /\ errors < MaxErrors
  /\ errors' = errors + 1
  /\ BreaksOff(w)
  /\ EndAttempt(w, AfterError(w))
  /\ UNCHANGED <<store, pass, evals, prompt, kept, overlapped>>

-----------------------------------------------------------------------------
\* The process of w ends, and starts again if it is a scheduler's.
Stops(w) ==
  /\ plan[w] # <<>> /\ errors < MaxErrors
  /\ errors' = errors + 1
  /\ EndPass(w, <<>>)
  /\ score' = [score EXCEPT ![w] = None]
  /\ seen' = [seen EXCEPT ![w] = None]
  /\ best' = [t \in EvalTypes |->
                IF t = Phase(w) /\ stage[w] \in {"compare", "set"}
                THEN Unknown ELSE best[t]]
  /\ basis' = [basis EXCEPT ![w] = None]
  /\ candidate' = [candidate EXCEPT ![w] = None]
  /\ overtaken' = overtaken \ {w}
  /\ BreaksOff(w)
  /\ UNCHANGED <<store, baseline, prompt, kept, overlapped>>

PassStep(w) == Consolidate(w) \/ consolidateCluster(w) \/ CreateFactConnection(w)
EvalStep(w) ==
  \/ CreateEvalRun(w) \/ GetBaselineEvalRun(w) \/ SetBaseline(w) \/ SaveBaseline(w)
AttemptStep(w) ==
  \/ ShouldNotOptimize(w) \/ readCurrentPrompt(w) \/ Discard(w) \/ Keep(w) \/ WriteFile(w)
ErrorStep(w) == ConsolidateFails(w) \/ EvalFails(w) \/ OptimizeFails(w) \/ Stops(w)

Next ==
  \/ FactArrives \/ DeleteExpiredFacts
  \/ \E w \in Schedulers : Tick(w)
  \/ \E w \in Others : Command(w)
  \/ \E w \in Workers : PassStep(w) \/ EvalStep(w) \/ AttemptStep(w) \/ ErrorStep(w)

Spec == Init /\ [][Next]_vars

\* The ticker of a scheduler goes on, and so does what it has begun; a watcher or
\* a command may hang.
FairSpec ==
  /\ Spec
  /\ \A w \in Schedulers : WF_vars(Tick(w)) /\ WF_vars(PassStep(w) \/ EvalStep(w))

-----------------------------------------------------------------------------
(* Properties.                                                             *)

\* Every variable holds what the tables, the file and the workers can hold.
TypeOK ==
  /\ arrived \in 0..MaxFacts /\ facts \subseteq 1..arrived
  /\ \A i \in insights : i.id \in Nat \ {0} /\ i.facts \in SUBSET (1..arrived)
  /\ \A l \in links : l \subseteq facts /\ Cardinality(l) = 2
  /\ baseline \in [EvalTypes -> Scores \cup {None}]
  /\ best \in [EvalTypes -> Scores \cup {None, Unknown}]
  /\ prompt \in 0..Len(kept) \cup {Torn} /\ spoiled \subseteq DOMAIN kept
  /\ \A t \in DOMAIN kept : kept[t] \in 0..(t - 1) \cup {Torn}
  /\ \A w \in Workers :
       /\ \E p \in {TickPlan} \cup Plans : \E n \in 0..Len(p) :
            plan[w] = SubSeq(p, Len(p) - n + 1, Len(p))
       /\ (stage[w] = None) <=> (plan[w] = <<>>)
       /\ todo[w] \subseteq SUBSET window[w] /\ pairs[w] \subseteq SUBSET window[w]
       /\ window[w] # {} => Consolidating(w)
       /\ (score[w] # None) <=> stage[w] \in {"compare", "set", "save"}
       /\ (basis[w] # None) <=> Attempting(w)
       /\ (candidate[w] # None) <=> stage[w] = "write"

\* A fact is cited by two consolidations only when two passes had it in their
\* windows at the same time: what a pass did not get to, another pass takes, and
\* what it stored, no later pass sends again (ListUnconsolidatedFacts).
ConsolidatedOnce ==
  \A i, j \in insights : i # j => i.facts \cap j.facts \subseteq overlapped

\* The scheduler works off its backlog: however the facts arrive, whoever else
\* consolidates and whatever fails a bounded number of times, enough facts to
\* make a tick consolidate do not stay unconsolidated.
BacklogConsolidated ==
  (Cardinality(Unconsolidated) >= MinFacts)
    ~> (Cardinality(Unconsolidated) < MinFacts)

\* Once every run was compared the baseline is the best score recorded, unless
\* updates raced, broke off or were made by hand (autoUpdateBaseline).
BaselineIsBest ==
  \A t \in EvalTypes :
    (best[t] # Unknown
       /\ \A w \in Workers : Phase(w) = t => stage[w] \notin {"compare", "set"})
      => baseline[t] = best[t]

\* The optimizer builds on what it kept: a candidate was judged against the one
\* kept before it, and the last one is in use, whoever made them, across failed
\* attempts and restarts.  Only overlapping attempts and broken writes can come in
\* between, and the candidates of those are spoiled (Optimize, readCurrentPrompt).
KeptImprovesOnLast ==
  /\ \A t \in DOMAIN kept \ spoiled : kept[t] = t - 1 \/ t - 1 \in spoiled
  /\ (Writing = {} /\ Len(kept) \notin spoiled) => prompt = Len(kept)

\* The optimizer keeps improvements and discards regressions (README.md:147): a
\* candidate replaces the prompt that it was judged against, if it read one whole.
\* Not so if another candidate was kept while this one was judged.
ImprovesOnReplaced == \A t \in DOMAIN kept : kept[t] # Torn => kept[t] = t - 1

\* Facts are clustered by the similarity of their embeddings (README.md:149): what
\* one consolidation combines is similar.
ClustersAreSimilar ==
  \A i \in insights : \A f, g \in i.facts : Topic[f] = Topic[g]
=============================================================================
