----------------------------- MODULE Providers -----------------------------
(***************************************************************************)
(* What the program knows about its LLM and embedding providers            *)
(* (internal/provider).  Two tables of internal/db/sqlite.go:              *)
(*   - provider_ops, one row per provider name, written around every call  *)
(*     of a ResolvedProvider or ResolvedEmbedder (resolved.go): it counts  *)
(*     failures, makes callers wait for an hour and gives up in the end.   *)
(*     A call reads the row, calls the provider and then overwrites the    *)
(*     row with what follows from the row it READ;                         *)
(*   - provider_health, one row per provider name and task, written by     *)
(*     HealthChecker.CheckAll (health.go) from the models that the         *)
(*     provider's endpoints list, at startup and every few days.           *)
(* Only tests construct the Resolved types so far; CheckAll runs in        *)
(* runServe before any request is served and then in a goroutine.          *)
(* A refused call changes nothing and is no action.  Time is in hours.     *)
(***************************************************************************)
EXTENDS Integers, FiniteSets

CONSTANTS
  Callers,      \* goroutines that call a provider
  Embedders,    \* those of them that embed
  Names,        \* provider names in use
  Tasks,
  Models,       \* model identifiers
  Configured,   \* Names -> Tasks -> the configured model
  Affinity,     \* Affinity[c][m]: dash-separated parts of c that begin m
  Listers,      \* endpoints that list models: <<name, base URL>>
  None,         \* NULL, "" and absent rows
  MaxRetries,   \* max_retries: 5 in the code
  MaxHours,     \* bound: time
  MaxCalls,     \* bound: calls of providers
  MaxChecks     \* bound: health checks

ASSUME ProvidersAssumption ==
  /\ Embedders \subseteq Callers
  /\ Configured \in [Names -> [Tasks -> Models]]
  /\ Affinity \in [Models -> [Models -> Nat]]
  /\ \A l \in Listers : l[1] \in Names
  /\ MaxRetries \in Nat \ {0} /\ MaxHours \in Nat
  /\ MaxCalls \in Nat /\ MaxChecks \in Nat
  /\ None \notin Names \cup Models \cup Nat
  /\ None \notin {"ok", "degraded", "unavailable", "transient_error", "auth_error", "exhausted"}
  /\ \A offered \in SUBSET Models : offered # None

VARIABLES
  (* provider_ops *)
  now,
  ops,        \* name -> its row
  notes,      \* terminal conditions recorded as a fact: <<name, status>>
  (* a call *)
  pc,
  target,     \* the provider it calls
  snap,       \* the row it read before the call
  note,       \* the status it is about to record as a fact
  (* provider_health, provider_models and a health check *)
  health,     \* <<name, task>> -> row
  catalog,    \* provider_models: <<name, model>>
  hpc,
  toList,     \* listers not asked yet
  listed,     \* name -> what the last lister of that name to answer offered
  toRate,     \* <<name, task>> not rated yet
  (* history *)
  calls, checks,
  failures,   \* recorded failures since the last recorded success
  overtaken,  \* calls during which a success of their provider was recorded
  tainted,    \* names whose count stems from an overtaken call
  answered    \* listers that answered in the current or last check

opsVars == <<now, ops, notes>>
callVars == <<pc, target, snap, note>>
healthVars == <<health, catalog, hpc, toList, listed, toRate, checks, answered>>
opsHistory == <<calls, failures, overtaken, tainted>>
vars == <<opsVars, callVars, healthVars, opsHistory>>

Slots == Names \X Tasks
NoRow == [status |-> None, count |-> 0, next |-> None]
Terminal == {"auth_error", "exhausted"}
Classes == {"transient", "auth", "other"}   \* model_not_found counts as other
InFlight(p) == {c \in Callers : pc[c] # "idle" /\ target[c] = p}

-----------------------------------------------------------------------------
Init ==
  /\ now = 0 /\ ops = [p \in Names |-> NoRow] /\ notes = {}
  /\ pc = [c \in Callers |-> "idle"]
  /\ target = [c \in Callers |-> None]
  /\ snap = [c \in Callers |-> NoRow]
  /\ note = [c \in Callers |-> None]
  /\ health = [s \in Slots |-> [active |-> None, status |-> None]]
  /\ catalog = {}
  /\ hpc = "off" /\ toList = {} /\ toRate = {}
  /\ listed = [p \in Names |-> None]
  /\ calls = 0 /\ checks = 0
  /\ failures = [p \in Names |-> 0]
  /\ overtaken = {} /\ tainted = {} /\ answered = {}

Tick ==
  /\ now < MaxHours
  /\ now' = now + 1
  /\ UNCHANGED <<ops, notes, callVars, healthVars, opsHistory>>

-----------------------------------------------------------------------------
(* A call of ResolvedProvider.Send or ResolvedEmbedder.Embed.              *)

\* Defect: only an auth_error stops callers.
CallableUnlessAuth(row) ==
  /\ row.status # "auth_error"
  /\ row.status = "transient_error" => row.next = None \/ now >= row.next
Callable(row) ==
  /\ row.status \notin Terminal
  /\ row.status = "transient_error" => row.next = None \/ now >= row.next

Begin(c, p) ==
  /\ hpc # "off"
  /\ pc[c] = "idle" /\ calls < MaxCalls
  /\ Callable(ops[p])
  /\ pc' = [pc EXCEPT ![c] = "call"]
  /\ target' = [target EXCEPT ![c] = p]
  /\ snap' = [snap EXCEPT ![c] = ops[p]]
  /\ calls' = calls + 1
  /\ UNCHANGED <<opsVars, note, healthVars, failures, overtaken, tainted>>

\* Defect: the failure count survives a success.
KeepCountAfterSuccess(c) == [status |-> "ok", count |-> snap[c].count, next |-> None]
AfterSuccess(c) == [status |-> "ok", count |-> 0, next |-> None]

AfterFailure(c, class) ==
  LET count == snap[c].count + 1
      gaveUp == class = "transient" /\ count >= MaxRetries /\ c \notin Embedders
  IN [status |-> CASE class = "auth" -> "auth_error"
                   [] gaveUp -> "exhausted"
                   [] OTHER -> "transient_error",
      count |-> count,
      next |-> IF class = "auth" /\ c \notin Embedders THEN None ELSE now + 1]

Finished(c) ==
  /\ pc' = [pc EXCEPT ![c] = "idle"]
  /\ target' = [target EXCEPT ![c] = None]
  /\ snap' = [snap EXCEPT ![c] = NoRow]
  /\ note' = [note EXCEPT ![c] = None]
  /\ overtaken' = overtaken \ {c}

Succeeds(c) ==
  LET p == target[c] IN
  /\ pc[c] = "call"
  /\ pc' = [pc EXCEPT ![c] = "idle"]
  /\ target' = [target EXCEPT ![c] = None]
  /\ snap' = [snap EXCEPT ![c] = NoRow]
  /\ ops' = [ops EXCEPT ![p] = AfterSuccess(c)]
  /\ failures' = [failures EXCEPT ![p] = 0]
  /\ tainted' = tainted \ {p}
  /\ overtaken' = (overtaken \cup InFlight(p)) \ {c}
  /\ UNCHANGED <<now, notes, note, healthVars, calls>>

\* The provider fails; whoever gave up on it goes on to say so in a fact.
Fails(c) ==
  \E class \in Classes :
    LET p == target[c]
        row == AfterFailure(c, class)
        tells == row.status \in Terminal /\ c \notin Embedders
    IN
    /\ pc[c] = "call"
    /\ ops' = [ops EXCEPT ![p] = row]
    /\ failures' = [failures EXCEPT ![p] = @ + 1]
    /\ tainted' = IF c \in overtaken THEN tainted \cup {p} ELSE tainted
    /\ IF tells
       THEN /\ pc' = [pc EXCEPT ![c] = "fact"]
            /\ note' = [note EXCEPT ![c] = row.status]
            /\ UNCHANGED <<target, snap, overtaken>>
       ELSE Finished(c)
    /\ UNCHANGED <<now, notes, healthVars, calls>>

\* The row cannot be written: the error is dropped and the call returns, after
\* writing the fact if it was to write one.
UpsertFails(c) ==
  /\ pc[c] = "call"
  /\ \/ Finished(c)
     \/ \E class \in Classes :
          LET status == AfterFailure(c, class).status IN
          /\ status \in Terminal /\ c \notin Embedders
          /\ pc' = [pc EXCEPT ![c] = "fact"]
          /\ note' = [note EXCEPT ![c] = status]
          /\ UNCHANGED <<target, snap, overtaken>>
  /\ UNCHANGED <<opsVars, healthVars, calls, failures, tainted>>

WriteProviderFact(c) ==
  /\ pc[c] = "fact"
  /\ notes' \in {notes, notes \cup {<<target[c], note[c]>>}}
  /\ Finished(c)
  /\ UNCHANGED <<now, ops, healthVars, calls, failures, tainted>>

\* The process ends: calls are lost, the next process starts with a check.
Restart ==
  /\ hpc # "off"
  /\ pc' = [c \in Callers |-> "idle"]
  /\ target' = [c \in Callers |-> None]
  /\ snap' = [c \in Callers |-> NoRow]
  /\ note' = [c \in Callers |-> None]
  /\ hpc' = "off" /\ toList' = {} /\ toRate' = {} /\ answered' = {}
  /\ listed' = [p \in Names |-> None]
  /\ overtaken' = {}
  /\ UNCHANGED <<opsVars, health, catalog, calls, checks, failures, tainted>>

-----------------------------------------------------------------------------
(* HealthChecker.CheckAll.  "off": the process has not checked yet and     *)
(* serves nothing; "idle": a complete check; "failed": a statement failed  *)
(* and the check ended there.                                              *)

StartCheck ==
  /\ hpc \in {"off", "idle", "failed"} /\ checks < MaxChecks
  /\ checks' = checks + 1
  /\ hpc' = "list" /\ toList' = Listers /\ answered' = {}
  /\ listed' = [p \in Names |-> None]
  /\ toRate' = {}
  /\ UNCHANGED <<health, catalog, opsVars, callVars, opsHistory>>

\* What an endpoint may list.
ListModels == SUBSET Models

\* UpsertProviderModel for each of them.
Store(p, offered) == catalog \cup ({p} \X offered)

\* The lister answers: its models go to provider_models, of which no row is
\* ever taken back.
ListerAnswers(l) ==
  \E offered \in ListModels :
    /\ hpc = "list" /\ l \in toList
    /\ toList' = toList \ {l}
    /\ \/ /\ catalog' = Store(l[1], offered)
          /\ listed' = [listed EXCEPT ![l[1]] = offered]
          /\ answered' = answered \cup {l}
          /\ hpc' = hpc
       \/ \E stored \in SUBSET offered \ {offered} :    \* a statement fails
            /\ catalog' = Store(l[1], stored)
            /\ hpc' = "failed"
            /\ UNCHANGED <<listed, answered>>
    /\ UNCHANGED <<health, toRate, checks, opsVars, callVars, opsHistory>>

Unavailable == [active |-> None, status |-> "unavailable"]

ListerFails(l) ==
  \E done \in SUBSET ({l[1]} \X Tasks) :
    /\ hpc = "list" /\ l \in toList
    /\ toList' = toList \ {l}
    /\ health' = [s \in Slots |-> IF s \in done THEN Unavailable ELSE health[s]]
    /\ hpc' = IF done = {l[1]} \X Tasks THEN hpc ELSE "failed"
    /\ UNCHANGED <<catalog, listed, answered, toRate, checks, opsVars, callVars, opsHistory>>

\* Defect: a provider is rated only when every lister of it answered.
RatedIfAllAnswered ==
  {s \in Slots : \A l \in Listers : l[1] = s[1] => l \in answered}
Rated == {s \in Slots : listed[s[1]] # None}

ListingDone ==
  /\ hpc = "list" /\ toList = {}
  /\ hpc' = "rate" /\ toRate' = Rated
  /\ UNCHANGED <<health, catalog, toList, listed, checks, answered, opsVars, callVars, opsHistory>>

\* findSubstitute: the first listed model that begins like the configured one
\* for as many parts as possible; the listing may come in any order.
Substitutes(configured, offered) ==
  IF offered = {} THEN {None}
  ELSE {m \in offered : \A o \in offered :
          Affinity[configured][o] <= Affinity[configured][m]}

Rate(s) ==
  LET configured == Configured[s[1]][s[2]]
      offered == listed[s[1]]
  IN
  /\ hpc = "rate" /\ s \in toRate
  /\ \/ /\ IF configured \in offered
           THEN health' = [health EXCEPT ![s] = [active |-> configured, status |-> "ok"]]
           ELSE \E m \in Substitutes(configured, offered) :
                  health' = [health EXCEPT ![s] = [active |-> m, status |-> "degraded"]]
        /\ toRate' = toRate \ {s} /\ hpc' = hpc
     \/ hpc' = "failed" /\ UNCHANGED <<health, toRate>>
  /\ UNCHANGED <<catalog, toList, listed, checks, answered, opsVars, callVars, opsHistory>>

CheckDone ==
  /\ hpc = "rate" /\ toRate = {}
  /\ hpc' = "idle"
  /\ listed' = [p \in Names |-> None]
  /\ UNCHANGED <<health, catalog, toList, toRate, checks, answered, opsVars, callVars, opsHistory>>

-----------------------------------------------------------------------------
CallStep(c) ==
  \/ \E p \in Names : Begin(c, p)
  \/ Succeeds(c) \/ Fails(c) \/ UpsertFails(c) \/ WriteProviderFact(c)

CheckStep ==
  \/ StartCheck \/ ListingDone \/ CheckDone
  \/ \E l \in Listers : ListerAnswers(l) \/ ListerFails(l)
  \/ \E s \in Slots : Rate(s)

Next == Tick \/ Restart \/ CheckStep \/ \E c \in Callers : CallStep(c)

Spec == Init /\ [][Next]_vars

-----------------------------------------------------------------------------
Rows == [status : {None, "ok", "transient_error"} \cup Terminal,
         count : 0..MaxCalls, next : {None} \cup 0..(MaxHours + 1)]

\* A row, a call and a check have the shapes the code gives them; an auth error
\* of an LLM call has no next check, every other error has one, and only a call
\* that gave up has a fact to write.
TypeOK ==
  /\ ops \in [Names -> Rows]
  /\ \A p \in Names : ops[p].status \in {"transient_error", "exhausted"} =>
       ops[p].next # None /\ ops[p].count > 0
  /\ pc \in [Callers -> {"idle", "call", "fact"}]
  /\ \A c \in Callers :
       /\ pc[c] = "idle" <=> target[c] = None
       /\ pc[c] = "fact" <=> note[c] \in Terminal
  /\ hpc \in {"off", "list", "rate", "idle", "failed"}
  /\ \A s \in Slots : health[s].status = "ok" => health[s].active = Configured[s[1]][s[2]]

\* A provider given up on (auth_error, exhausted) stays given up on: only a call
\* that read the row before that and is still in flight can change it.
TerminalIsFinal ==
  [][\A p \in Names :
       \/ ops[p].status \notin Terminal
       \/ ops'[p] = ops[p]
       \/ \E c \in InFlight(p) : snap[c].status \notin Terminal]_vars

\* A provider is never charged with more failures than it had since its last
\* success, unless a call that began before that success failed after it.
FailuresEarned == \A p \in Names : ops[p].count <= failures[p] \/ p \in tainted

\* After a complete check a provider with endpoints is unavailable exactly when
\* none of them answered, and an active model was offered by one of them,
\* whatever the order in which several endpoints of one name were asked.
HealthSettled ==
  hpc = "idle" => \A s \in Slots :
    LET mine == {l \in Listers : l[1] = s[1]} IN
    mine # {} =>
      /\ health[s].status = "unavailable" <=> mine \cap answered = {}
      /\ health[s].active # None => <<s[1], health[s].active>> \in catalog
=============================================================================
