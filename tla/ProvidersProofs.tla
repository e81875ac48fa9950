-------------------------- MODULE ProvidersProofs --------------------------
(***************************************************************************)
(* Proofs about Providers, for any callers, names, models and bounds.      *)
(***************************************************************************)
EXTENDS Providers, TLAPS

-----------------------------------------------------------------------------
(* What a health check and what a call change.                             *)

\* A step of a health check leaves calls and operational state alone.
LEMMA CheckKeepsCalls == CheckStep => UNCHANGED <<opsVars, callVars, opsHistory>>
  BY DEF CheckStep, StartCheck, ListingDone, CheckDone, ListerAnswers, ListerFails, Rate

\* A step of a call leaves the health tables and the check alone.
LEMMA CallKeepsHealth == ASSUME NEW c \in Callers, CallStep(c) PROVE UNCHANGED healthVars
  BY DEF CallStep, Begin, Succeeds, Fails, UpsertFails, WriteProviderFact

-----------------------------------------------------------------------------
(* Types of the operational state.                                         *)

\* A row's count is bounded by the calls begun, and a caller in a call read a row
\* that it was allowed to call with and that counted fewer than that.
OpsInv ==
  /\ now \in 0..MaxHours
  /\ calls \in 0..MaxCalls
  /\ ops \in [Names -> Rows]
  /\ \A p \in Names : ops[p].status \in {"transient_error", "exhausted"} =>
       ops[p].next # None /\ ops[p].count > 0
  /\ \A p \in Names : ops[p].count <= calls
  /\ pc \in [Callers -> {"idle", "call", "fact"}]
  /\ target \in [Callers -> Names \cup {None}]
  /\ snap \in [Callers -> Rows]
  /\ note \in [Callers -> Terminal \cup {None}]
  /\ \A c \in Callers :
       /\ pc[c] = "idle" <=> target[c] = None
       /\ pc[c] = "fact" <=> note[c] \in Terminal
       /\ pc[c] = "call" => snap[c].count < calls /\ snap[c].status \notin Terminal

\* A call that ends keeps the invariant, whatever was noted as a fact.
LEMMA FinishedOps ==
  ASSUME OpsInv, NEW c \in Callers, Finished(c), UNCHANGED <<now, ops, calls>>
  PROVE  OpsInv'
  BY ProvidersAssumption DEF OpsInv, Finished, Rows, NoRow, Terminal

\* The row that follows from a failure.
LEMMA FailedRow ==
  ASSUME OpsInv, NEW c \in Callers, pc[c] = "call", NEW class \in Classes
  PROVE  LET row == AfterFailure(c, class) IN
         /\ row \in Rows
         /\ row.status \in {"transient_error", "exhausted"} => row.next # None
         /\ row.count = snap[c].count + 1 /\ row.count <= calls
<1>1. snap[c].count \in Nat /\ snap[c].count < calls /\ calls \in Nat /\ calls <= MaxCalls
  BY ProvidersAssumption DEF OpsInv, Rows
<1>2. now + 1 \in 0..(MaxHours + 1) /\ now + 1 # None
  BY ProvidersAssumption DEF OpsInv
<1> QED
  BY <1>1, <1>2, ProvidersAssumption DEF AfterFailure, Rows, Terminal, Classes

\* Every step keeps the invariant.
LEMMA OpsStep == OpsInv /\ [Next]_vars => OpsInv'
<1> SUFFICES ASSUME OpsInv, [Next]_vars PROVE OpsInv'
    OBVIOUS
<1>1. CASE Tick
  BY <1>1, ProvidersAssumption DEF Tick, OpsInv, callVars, opsHistory
<1>2. CASE Restart
  BY <1>2, ProvidersAssumption DEF Restart, OpsInv, opsVars, Rows, NoRow, Terminal
<1>3. CASE CheckStep \/ UNCHANGED vars
  BY <1>3, CheckKeepsCalls DEF OpsInv, vars, opsVars, callVars, opsHistory
<1>4. ASSUME NEW c \in Callers, CallStep(c) PROVE OpsInv'
  <2>1. ASSUME NEW p \in Names, Begin(c, p) PROVE OpsInv'
    <3>1. calls' = calls + 1 /\ calls' \in 0..MaxCalls
      BY <2>1, ProvidersAssumption DEF Begin, OpsInv
    <3>2. ops[p].count \in Nat /\ ops[p].count <= calls /\ ops[p].status \notin Terminal
      BY <2>1 DEF Begin, Callable, OpsInv, Rows
    <3>3. \A q \in Names : ops[q].count \in Nat
      BY DEF OpsInv, Rows
    <3>4. \A d \in Callers : snap[d].count \in Nat
      BY DEF OpsInv, Rows
    <3> QED
      BY <2>1, <3>1, <3>2, <3>3, <3>4, ProvidersAssumption DEF Begin, OpsInv, opsVars, Terminal
  <2>2. CASE Succeeds(c)
    <3>1. target[c] \in Names
      BY <2>2 DEF Succeeds, OpsInv
    <3>2. AfterSuccess(c) \in Rows /\ NoRow \in Rows
      BY ProvidersAssumption DEF AfterSuccess, NoRow, Rows
    <3>3. AfterSuccess(c).status = "ok" /\ AfterSuccess(c).count = 0
      BY DEF AfterSuccess
    <3> QED
      BY <2>2, <3>1, <3>2, <3>3, ProvidersAssumption DEF Succeeds, OpsInv, Terminal
  <2>3. CASE Fails(c)
    <3>1. PICK class \in Classes :
            LET p == target[c]
                row == AfterFailure(c, class)
                tells == row.status \in Terminal /\ c \notin Embedders
            IN /\ pc[c] = "call"
               /\ ops' = [ops EXCEPT ![p] = row]
               /\ IF tells
                  THEN /\ pc' = [pc EXCEPT ![c] = "fact"]
                       /\ note' = [note EXCEPT ![c] = row.status]
                       /\ UNCHANGED <<target, snap, overtaken>>
                  ELSE Finished(c)
               /\ UNCHANGED <<now, notes, healthVars, calls>>
      BY <2>3 DEF Fails
    <3> DEFINE row == AfterFailure(c, class)
    <3>2. /\ row \in Rows
          /\ row.status \in {"transient_error", "exhausted"} => row.next # None
          /\ row.count > 0 /\ row.count <= calls
      BY <3>1, FailedRow DEF OpsInv, Rows
    <3>3. target[c] \in Names
      BY <3>1 DEF OpsInv
    <3> HIDE DEF row
    <3>4. /\ ops' \in [Names -> Rows]
          /\ \A q \in Names : ops'[q].status \in {"transient_error", "exhausted"} =>
               ops'[q].next # None /\ ops'[q].count > 0
          /\ \A q \in Names : ops'[q].count <= calls'
      BY <3>1, <3>2, <3>3 DEF OpsInv, row
    <3>5. CASE row.status \in Terminal /\ c \notin Embedders
      BY <3>1, <3>4, <3>5, ProvidersAssumption DEF OpsInv, row, Terminal
    <3>6. CASE ~(row.status \in Terminal /\ c \notin Embedders)
      <4>1. Finished(c) /\ UNCHANGED <<now, calls>>
        BY <3>1, <3>6 DEF row
      <4> QED
        BY <3>4, <4>1, ProvidersAssumption DEF Finished, OpsInv, NoRow, Rows, Terminal
    <3> QED
      BY <3>5, <3>6
  <2>4. CASE UpsertFails(c)
    <3>1. CASE Finished(c)
      BY <2>4, <3>1, FinishedOps DEF UpsertFails, opsVars
    <3>2. CASE ~Finished(c)
      BY <2>4, <3>2, ProvidersAssumption DEF UpsertFails, opsVars, OpsInv, Terminal
    <3> QED
      BY <3>1, <3>2
  <2>5. CASE WriteProviderFact(c)
    BY <2>5, FinishedOps DEF WriteProviderFact
  <2> QED
    BY <1>4, <2>1, <2>2, <2>3, <2>4, <2>5 DEF CallStep
<1> QED
  BY <1>1, <1>2, <1>3, <1>4 DEF Next

\* Initially the invariant holds.
LEMMA OpsInit == Init => OpsInv
  BY ProvidersAssumption DEF Init, OpsInv, NoRow, Rows, Terminal

\* The invariant holds throughout.
LEMMA OpsInvHolds == Spec => []OpsInv
  BY OpsInit, OpsStep, PTL DEF Spec

\* A provider given up on stays given up on, unless a call is in flight that read
\* the row before (resolved.go, checkStatus and recordError).
THEOREM GivenUpIsFinal == Spec => TerminalIsFinal
<1> DEFINE Kept == \A p \in Names :
                     \/ ops[p].status \notin Terminal
                     \/ ops'[p] = ops[p]
                     \/ \E c \in InFlight(p) : snap[c].status \notin Terminal
<1>1. OpsInv /\ [Next]_vars => Kept
  <2> SUFFICES ASSUME OpsInv, [Next]_vars, NEW p \in Names, ops'[p] # ops[p]
               PROVE  \E c \in InFlight(p) : snap[c].status \notin Terminal
      OBVIOUS
  <2>1. PICK c \in Callers : CallStep(c)
    BY CheckKeepsCalls DEF Next, Tick, Restart, vars, opsVars
  <2>2. Succeeds(c) \/ Fails(c)
    BY <2>1 DEF CallStep, Begin, UpsertFails, WriteProviderFact, opsVars
  <2>3. pc[c] = "call" /\ target[c] = p
    BY <2>2 DEF Succeeds, Fails, OpsInv
  <2> QED
    BY <2>3 DEF InFlight, OpsInv
<1>2. OpsInv /\ [Next]_vars => [Kept]_vars
  BY <1>1
<1> QED
  BY <1>2, OpsInvHolds, PTL DEF Spec, TerminalIsFinal

-----------------------------------------------------------------------------
(* Failures are charged once.                                              *)

\* Nobody has, or is about to write from a row it read, more failures than there
\* were, unless it was overtaken by a success.
EarnedInv ==
  /\ failures \in [Names -> Nat]
  /\ FailuresEarned
  /\ \A c \in Callers : pc[c] = "call" =>
       \/ snap[c].count <= failures[target[c]]
       \/ target[c] \in tainted
       \/ c \in overtaken

\* Every step keeps the invariant.
LEMMA EarnedStep == OpsInv /\ EarnedInv /\ [Next]_vars => EarnedInv'
<1> SUFFICES ASSUME OpsInv, EarnedInv, [Next]_vars PROVE EarnedInv'
    OBVIOUS
<1>1. ASSUME NEW c \in Callers, Finished(c), UNCHANGED <<ops, failures, tainted>>
      PROVE  EarnedInv'
  BY <1>1 DEF Finished, EarnedInv, FailuresEarned, OpsInv
<1>2. CASE Tick \/ Restart
  BY <1>2 DEF Tick, Restart, EarnedInv, FailuresEarned, OpsInv, opsVars, callVars, opsHistory
<1>3. CASE CheckStep \/ UNCHANGED vars
  BY <1>3, CheckKeepsCalls DEF EarnedInv, FailuresEarned, vars, opsVars, callVars, opsHistory
<1>4. ASSUME NEW c \in Callers, CallStep(c) PROVE EarnedInv'
  <2>1. ASSUME NEW p \in Names, Begin(c, p) PROVE EarnedInv'
    BY <2>1 DEF Begin, EarnedInv, FailuresEarned, OpsInv, opsVars
  <2>2. CASE Succeeds(c)
    <3>1. target[c] \in Names
      BY <2>2 DEF Succeeds, OpsInv
    <3>2. failures' \in [Names -> Nat] /\ FailuresEarned'
      BY <2>2, <3>1 DEF Succeeds, AfterSuccess, EarnedInv, FailuresEarned, OpsInv
    <3>3. ASSUME NEW d \in Callers, pc'[d] = "call"
          PROVE  \/ snap'[d].count <= failures'[target'[d]]
                 \/ target'[d] \in tainted'
                 \/ d \in overtaken'
      <4>1. d # c /\ pc[d] = "call" /\ snap'[d] = snap[d] /\ target'[d] = target[d]
        BY <2>2, <3>3 DEF Succeeds, OpsInv
      <4>2. CASE target[d] = target[c]
        BY <2>2, <4>1, <4>2 DEF Succeeds, InFlight
      <4>3. CASE target[d] # target[c]
        BY <2>2, <4>1, <4>3 DEF Succeeds, EarnedInv, OpsInv
      <4> QED
        BY <4>2, <4>3
    <3> QED
      BY <3>2, <3>3 DEF EarnedInv
  <2>3. CASE Fails(c)
    <3>1. PICK class \in Classes :
            LET p == target[c]
                row == AfterFailure(c, class)
            IN /\ pc[c] = "call"
               /\ ops' = [ops EXCEPT ![p] = row]
               /\ failures' = [failures EXCEPT ![p] = @ + 1]
               /\ tainted' = IF c \in overtaken THEN tainted \cup {p} ELSE tainted
      BY <2>3 DEF Fails
    <3>2. target[c] \in Names /\ AfterFailure(c, class).count = snap[c].count + 1
          /\ snap[c].count \in Nat
      BY <3>1 DEF OpsInv, AfterFailure, Rows
    <3>3. failures' \in [Names -> Nat]
      BY <3>1, <3>2 DEF EarnedInv
    <3>4. FailuresEarned'
      BY <3>1, <3>2 DEF EarnedInv, FailuresEarned, OpsInv
    <3>5. ASSUME NEW d \in Callers, pc'[d] = "call"
          PROVE  \/ snap'[d].count <= failures'[target'[d]]
                 \/ target'[d] \in tainted'
                 \/ d \in overtaken'
      <4>1. d # c /\ pc[d] = "call" /\ snap'[d] = snap[d] /\ target'[d] = target[d]
            /\ (d \in overtaken => d \in overtaken')
        BY <2>3, <3>5 DEF Fails, Finished, OpsInv
      <4>2. target[d] \in Names /\ snap[d].count \in Nat
        BY <4>1 DEF OpsInv, Rows
      <4> QED
        BY <3>1, <4>1, <4>2 DEF EarnedInv
    <3> QED
      BY <3>3, <3>4, <3>5 DEF EarnedInv
  <2>4. CASE UpsertFails(c)
    <3>1. CASE Finished(c)
      BY <1>1, <2>4, <3>1 DEF UpsertFails, opsVars
    <3>2. CASE ~Finished(c)
      BY <2>4, <3>2 DEF UpsertFails, EarnedInv, FailuresEarned, OpsInv, opsVars
    <3> QED
      BY <3>1, <3>2
  <2>5. CASE WriteProviderFact(c)
    BY <1>1, <2>5 DEF WriteProviderFact
  <2> QED
    BY <1>4, <2>1, <2>2, <2>3, <2>4, <2>5 DEF CallStep
<1> QED
  BY <1>2, <1>3, <1>4 DEF Next

\* However many callers read the row before their call and write it afterwards, a
\* provider is not charged with more failures than it had since its last success,
\* unless that success overtook a call that failed (resolved.go, recordError).
THEOREM NoUnearnedFailures == Spec => []FailuresEarned
<1>1. Init => EarnedInv
  BY DEF Init, EarnedInv, FailuresEarned, NoRow
<1>2. EarnedInv => FailuresEarned
  BY DEF EarnedInv
<1> QED
  BY <1>1, <1>2, EarnedStep, OpsInvHolds, PTL DEF Spec

-----------------------------------------------------------------------------
(* The health check.                                                       *)

HealthRows == [active : Models \cup {None}, status : {None, "ok", "degraded", "unavailable"}]
ListersOf(p) == {l \in Listers : l[1] = p}

\* While it lists: a provider is listed if an endpoint of it answered, what is
\* listed is in the catalog, and the endpoints asked so far answered or left the
\* provider unavailable.  While it rates and after it: a provider none of whose
\* endpoints answered is unavailable, another one is still to be rated or not.
HealthInv ==
  /\ health \in [Slots -> HealthRows]
  /\ hpc \in {"off", "list", "rate", "idle", "failed"}
  /\ listed \in [Names -> {None} \cup SUBSET Models]
  /\ \A s \in Slots : health[s].status = "ok" => health[s].active = Configured[s[1]][s[2]]
  /\ \A p \in Names : listed[p] # None => {p} \X listed[p] \subseteq catalog
  /\ hpc \in {"list", "rate"} =>
       \A p \in Names : listed[p] # None <=> ListersOf(p) \cap answered # {}
  /\ hpc = "list" =>
       /\ toList \subseteq Listers
       /\ \A l \in Listers \ toList : l \in answered \/ \A t \in Tasks : health[<<l[1], t>>] = Unavailable
  /\ hpc = "rate" => toRate \subseteq Rated
  /\ hpc \in {"rate", "idle"} =>
       \A s \in Slots : ListersOf(s[1]) # {} =>
         IF ListersOf(s[1]) \cap answered = {}
         THEN health[s] = Unavailable
         ELSE \/ hpc = "rate" /\ s \in toRate
              \/ /\ health[s].status # "unavailable"
                 /\ health[s].active # None => <<s[1], health[s].active>> \in catalog

\* A step of the check keeps the invariant.
LEMMA CheckStepHealth == HealthInv /\ CheckStep => HealthInv'
<1> SUFFICES ASSUME HealthInv, CheckStep PROVE HealthInv'
    OBVIOUS
<1> USE ProvidersAssumption
<1>1. CASE StartCheck
  BY <1>1 DEF StartCheck, HealthInv, ListersOf
<1>2. ASSUME NEW l \in Listers, ListerAnswers(l) PROVE HealthInv'
  <2>1. PICK offered \in SUBSET Models :
          \/ /\ catalog' = Store(l[1], offered)
             /\ listed' = [listed EXCEPT ![l[1]] = offered]
             /\ answered' = answered \cup {l}
             /\ hpc' = hpc
          \/ \E stored \in SUBSET offered :
               /\ catalog' = Store(l[1], stored)
               /\ hpc' = "failed"
               /\ UNCHANGED <<listed, answered>>
    BY <1>2 DEF ListerAnswers, ListModels
  <2>2. hpc = "list" /\ toList' = toList \ {l} /\ l[1] \in Names /\ catalog \subseteq catalog'
        /\ UNCHANGED <<health, toRate>>
    BY <1>2, <2>1 DEF ListerAnswers, Store
  <2>3. CASE hpc' = "failed" /\ UNCHANGED <<listed, answered>>
    BY <2>2, <2>3 DEF HealthInv
  <2>4. CASE /\ catalog' = Store(l[1], offered)
             /\ listed' = [listed EXCEPT ![l[1]] = offered]
             /\ answered' = answered \cup {l}
             /\ hpc' = hpc
    <3>1. \A p \in Names : listed'[p] # None => {p} \X listed'[p] \subseteq catalog'
      BY <2>2, <2>4 DEF HealthInv, Store
    <3>2. \A p \in Names : listed'[p] # None <=> ListersOf(p) \cap answered' # {}
      BY <2>2, <2>4 DEF HealthInv, ListersOf
    <3> QED
      BY <2>2, <2>4, <3>1, <3>2 DEF HealthInv
  <2> QED
    BY <2>1, <2>3, <2>4
<1>3. ASSUME NEW l \in Listers, ListerFails(l) PROVE HealthInv'
  <2>1. PICK done \in SUBSET ({l[1]} \X Tasks) :
          /\ health' = [s \in Slots |-> IF s \in done THEN Unavailable ELSE health[s]]
          /\ hpc' = IF done = {l[1]} \X Tasks THEN hpc ELSE "failed"
    BY <1>3 DEF ListerFails
  <2>2. hpc = "list" /\ toList' = toList \ {l} /\ l[1] \in Names
        /\ UNCHANGED <<catalog, listed, answered, toRate>>
    BY <1>3 DEF ListerFails
  <2>3. health' \in [Slots -> HealthRows]
        /\ \A s \in Slots : health'[s].status = "ok" => health'[s].active = Configured[s[1]][s[2]]
    BY <2>1 DEF HealthInv, HealthRows, Unavailable
  <2>4. CASE hpc' = "failed"
    BY <2>2, <2>3, <2>4 DEF HealthInv
  <2>5. CASE hpc' # "failed"
    <3>1. hpc' = "list" /\ \A t \in Tasks : <<l[1], t>> \in Slots /\ health'[<<l[1], t>>] = Unavailable
      BY <2>1, <2>2, <2>5 DEF Slots
    <3>2. \A k \in Listers \ toList', t \in Tasks :
            k # l /\ k \notin answered => health'[<<k[1], t>>] = Unavailable
      BY <2>1, <2>2 DEF HealthInv, Slots
    <3>3. \A k \in Listers \ toList' :
            k \in answered' \/ \A t \in Tasks : health'[<<k[1], t>>] = Unavailable
      BY <2>2, <3>1, <3>2
    <3> QED
      BY <2>2, <2>3, <3>1, <3>3 DEF HealthInv
  <2> QED
    BY <2>4, <2>5
<1>4. CASE ListingDone
  <2>1. hpc = "list" /\ toList = {} /\ hpc' = "rate" /\ toRate' = Rated
        /\ UNCHANGED <<health, catalog, listed, answered>>
    BY <1>4 DEF ListingDone
  <2>2. ASSUME NEW s \in Slots, ListersOf(s[1]) # {}
        PROVE  IF ListersOf(s[1]) \cap answered = {} THEN health[s] = Unavailable ELSE s \in Rated
    <3>1. s[1] \in Names /\ s[2] \in Tasks /\ s = <<s[1], s[2]>>
      BY DEF Slots
    <3>2. CASE ListersOf(s[1]) \cap answered = {}
      <4>1. PICK l \in Listers : l[1] = s[1] /\ l \notin answered
        BY <2>2, <3>2 DEF ListersOf
      <4>2. health[<<l[1], s[2]>>] = Unavailable
        BY <2>1, <3>1, <4>1 DEF HealthInv
      <4> QED
        BY <3>1, <3>2, <4>1, <4>2
    <3>3. CASE ListersOf(s[1]) \cap answered # {}
      BY <2>1, <3>1, <3>3 DEF HealthInv, Rated
    <3> QED
      BY <3>2, <3>3
  <2>3. Rated' = Rated
    BY <2>1 DEF Rated
  <2> QED
    BY <2>1, <2>2, <2>3 DEF HealthInv
<1>5. ASSUME NEW s \in Slots, Rate(s) PROVE HealthInv'
  <2>1. hpc = "rate" /\ s \in toRate /\ UNCHANGED <<catalog, listed, answered>>
    BY <1>5 DEF Rate
  <2>2. CASE hpc' = "failed"
    BY <1>5, <2>1, <2>2 DEF Rate, HealthInv
  <2>3. CASE hpc' # "failed"
    <3>1. s[1] \in Names /\ s[2] \in Tasks /\ s = <<s[1], s[2]>> /\ listed[s[1]] \in SUBSET Models
      BY <2>1 DEF HealthInv, Rated, Slots
    <3>2. PICK row \in HealthRows :
            /\ health' = [health EXCEPT ![s] = row]
            /\ row.status \in {"ok", "degraded"}
            /\ row.status = "ok" => row.active = Configured[s[1]][s[2]]
            /\ row.active # None => row.active \in listed[s[1]]
      <4>1. CASE Configured[s[1]][s[2]] \in listed[s[1]]
        <5> DEFINE row == [active |-> Configured[s[1]][s[2]], status |-> "ok"]
        <5>1. row \in HealthRows /\ health' = [health EXCEPT ![s] = row]
          BY <1>5, <2>1, <2>3, <3>1, <4>1 DEF Rate, HealthRows
        <5> QED
          BY <4>1, <5>1
      <4>2. CASE Configured[s[1]][s[2]] \notin listed[s[1]]
        <5>1. PICK m \in Substitutes(Configured[s[1]][s[2]], listed[s[1]]) :
                health' = [health EXCEPT ![s] = [active |-> m, status |-> "degraded"]]
          BY <1>5, <2>1, <2>3, <4>2 DEF Rate
        <5> DEFINE row == [active |-> m, status |-> "degraded"]
        <5>2. m = None \/ m \in listed[s[1]]
          BY <5>1 DEF Substitutes
        <5>3. row \in HealthRows
          BY <3>1, <5>2 DEF HealthRows
        <5> QED
          BY <5>1, <5>2, <5>3
      <4> QED
        BY <4>1, <4>2
    <3>3. hpc' = "rate" /\ toRate' = toRate \ {s}
      BY <1>5, <2>1, <2>3 DEF Rate
    <3>4. health' \in [Slots -> HealthRows]
          /\ \A r \in Slots : health'[r].status = "ok" => health'[r].active = Configured[r[1]][r[2]]
      BY <3>2 DEF HealthInv
    <3>5. Rated' = Rated
      BY <2>1 DEF Rated
    <3>6. ListersOf(s[1]) \cap answered # {}
      BY <2>1, <3>1 DEF HealthInv, Rated
    <3>7. ASSUME NEW r \in Slots, ListersOf(r[1]) # {}
          PROVE  IF ListersOf(r[1]) \cap answered = {}
                 THEN health'[r] = Unavailable
                 ELSE \/ r \in toRate'
                      \/ /\ health'[r].status # "unavailable"
                         /\ health'[r].active # None => <<r[1], health'[r].active>> \in catalog
      <4>1. CASE r = s
        <5>1. health'[s] = row
          BY <3>2 DEF HealthInv
        <5>2. row.active # None => <<s[1], row.active>> \in catalog
          BY <2>1, <3>1, <3>2 DEF HealthInv
        <5> QED
          BY <3>2, <3>6, <4>1, <5>1, <5>2
      <4>2. CASE r # s
        BY <2>1, <3>2, <3>3, <3>7, <4>2 DEF HealthInv
      <4> QED
        BY <4>1, <4>2
    <3> QED
      BY <2>1, <3>3, <3>4, <3>5, <3>7 DEF HealthInv
  <2> QED
    BY <2>2, <2>3
<1>6. CASE CheckDone
  BY <1>6 DEF CheckDone, HealthInv
<1> QED
  BY <1>1, <1>2, <1>3, <1>4, <1>5, <1>6 DEF CheckStep

\* Every step keeps the invariant.
LEMMA HealthStep == HealthInv /\ [Next]_vars => HealthInv'
<1> SUFFICES ASSUME HealthInv, [Next]_vars PROVE HealthInv'
    OBVIOUS
<1>1. CASE Restart
  BY <1>1, ProvidersAssumption DEF Restart, HealthInv
<1>2. CASE UNCHANGED healthVars
  BY <1>2 DEF HealthInv, healthVars, Rated
<1> QED
  BY <1>1, <1>2, CallKeepsHealth, CheckStepHealth DEF Next, Tick, vars

\* The invariant holds throughout.
LEMMA HealthInvHolds == Spec => []HealthInv
<1>1. Init => HealthInv
  BY ProvidersAssumption DEF Init, HealthInv, HealthRows
<1> QED
  BY <1>1, HealthStep, PTL DEF Spec

\* After a complete check a provider is unavailable exactly if none of its endpoints
\* answered, and what is active was offered, whatever the order of the endpoints
\* (health.go, CheckAll).
THEOREM HealthIsSettled == Spec => []HealthSettled
<1>1. HealthInv => HealthSettled
  BY DEF HealthInv, HealthSettled, ListersOf, Unavailable
<1> QED
  BY <1>1, HealthInvHolds, PTL

\* The type invariant holds for any callers, providers and models.
THEOREM TypeCorrect == Spec => []TypeOK
<1>1. OpsInv /\ HealthInv => TypeOK
  BY DEF OpsInv, HealthInv, TypeOK
<1> QED
  BY <1>1, OpsInvHolds, HealthInvHolds, PTL

=============================================================================
