---------------------------- MODULE EntityGraph ----------------------------
(***************************************************************************)
(* The entities and relationships tables: the entity and relationship      *)
(* loops of concurrent Engine.Ingest calls (internal/imprint/imprint.go),  *)
(* POST /admin/deduplicate (db.DeduplicateEntities), POST /admin/reset     *)
(* (db.Reset) and the readers GetEntityGraph and FindPath.  No transaction *)
(* spans two statements, no index makes names unique; only the foreign     *)
(* keys of relationships are enforced.  Facts are in FactStore.            *)
(***************************************************************************)
EXTENDS Integers, FiniteSets, SequencesExt

CONSTANTS
  Calls,        \* goroutines that call Engine.Ingest
  Names,        \* entity names as the extraction spells them
  Folded,       \* Names -> the name without regard to case
  Extractions,  \* what an extraction may answer: a list of names, and pairs of names
  Dedupers,     \* requests that run DeduplicateEntities
  Nothing,      \* no request, no answer
  Depths,       \* traversal depths that clients ask for
  MaxPath,      \* longest path FindPath looks for (10 in the code)
  MaxIngests,   \* bound: Engine.Ingest calls in a behaviour
  MaxRequests,  \* bound: deduplications, resets and graph requests in a behaviour
  MaxErrors     \* bound: statements of ingests that fail for no reason in the tables

ASSUME NamesAssumption ==
  /\ IsFiniteSet(Names) /\ DOMAIN Folded = Names
  /\ Nothing \notin Nat \X Names \X Nat
  /\ Extractions \subseteq [names : Seq(Names), rels : SUBSET (Names \X Names)]
ASSUME LimitsAssumption ==
  /\ Depths \subseteq Nat /\ MaxPath \in Nat
  /\ MaxIngests \in Nat /\ MaxRequests \in Nat /\ MaxErrors \in Nat

VARIABLES
  (* the database: an entity's id is <<ingest, name, names left>>, its    *)
  (* created_at the ingest's number; a relationship has an id and two     *)
  (* entity ids                                                           *)
  tables,       \* the tables that exist
  entities,     \* id -> aliases; ingest n brings the alias n
  rels,
  (* Engine.Ingest *)
  cpc, num,     \* the number of the call's ingest
  todo,         \* extracted names not yet handled
  wanted,       \* extracted relationships not yet stored: <<name, name>>
  nameToID,
  seen,         \* the entity found: <<id, the aliases read>>
  (* DeduplicateEntities *)
  dpc, doubled, keep, olds,
  (* Reset *)
  rpc,
  (* a reader *)
  ask,
  (* history *)
  ingests, requests, errors,
  raced,        \* pairs of ingests that overlapped, or whose lookup failed
  alone,        \* deduplications with nothing else running since they began
  changed,      \* the tables changed since the reader's request began
  answer        \* a reader's answer, while the tables are as it read them

dbVars == <<tables, entities, rels>>
ingestVars == <<cpc, num, todo, wanted, nameToID, seen, ingests>>
dedupVars == <<dpc, doubled, keep, olds>>
answerVars == <<changed, answer>>
bounds == <<requests, errors>>
graphVars ==
  <<dbVars, ingestVars, dedupVars, rpc, ask, bounds, raced, alone, answerVars>>

AllTables == {"entities", "relationships"}
Ids == DOMAIN entities
Fold(id) == Folded[id[2]]
Running == {c \in Calls : cpc[c] # "idle"}
Refers(r, id) == r.from = id \/ r.to = id
\* A reader's answer is out of date; a write of aliases does not matter to it.
Touch == changed' = (ask # Nothing) /\ answer' = Nothing

\* A map with one more key, or another value for it.
Put(map, key, value) ==
  [k \in DOMAIN map \cup {key} |-> IF k = key THEN value ELSE map[k]]

\* A statement of an ingest fails: the tables are the reason, or anything else.
Fails(reason) ==
  IF reason THEN UNCHANGED errors
  ELSE errors < MaxErrors /\ errors' = errors + 1

-----------------------------------------------------------------------------
GraphInit ==
  /\ tables = AllTables /\ entities = <<>> /\ rels = {}
  /\ cpc = [c \in Calls |-> "idle"] /\ num = [c \in Calls |-> 0]
  /\ todo = [c \in Calls |-> <<>>] /\ wanted = [c \in Calls |-> {}]
  /\ nameToID = [c \in Calls |-> <<>>] /\ seen = [c \in Calls |-> Nothing]
  /\ dpc = [d \in Dedupers |-> "idle"]
  /\ doubled = [d \in Dedupers |-> {}] /\ keep = [d \in Dedupers |-> Nothing]
  /\ olds = [d \in Dedupers |-> {}]
  /\ rpc = "idle" /\ ask = Nothing /\ answer = Nothing
  /\ ingests = 0 /\ requests = 0 /\ errors = 0
  /\ raced = {} /\ alone = {} /\ changed = FALSE

-----------------------------------------------------------------------------
(* Engine.Ingest: entities one by one, then relationships one by one.      *)

\* The extraction answered.
BeginIngest(c) ==
  /\ cpc[c] = "idle" /\ ingests < MaxIngests
  /\ ingests' = ingests + 1
  /\ num' = [num EXCEPT ![c] = ingests + 1]
  /\ \E x \in Extractions : /\ todo' = [todo EXCEPT ![c] = x.names]
                           /\ wanted' = [wanted EXCEPT ![c] = x.rels]
  /\ cpc' = [cpc EXCEPT ![c] = "lookup"]
  /\ raced' = raced \cup {{ingests + 1, num[b]} : b \in Running}
  /\ alone' = {}
  /\ UNCHANGED <<dbVars, nameToID, seen, dedupVars, rpc, ask, bounds, answerVars>>

\* Defect: the comparison regards case.
SameSpelling(name) == {id \in Ids : id[2] = name}
\* SELECT ... WHERE name = ? COLLATE NOCASE: any of the rows that match.
GetEntityByName(name) == {id \in Ids : Fold(id) = Folded[name]}

NameDone(c) == todo' = [todo EXCEPT ![c] = Tail(@)]
Lookup(c) ==
  /\ cpc[c] = "lookup" /\ todo[c] # <<>> /\ "entities" \in tables
  /\ LET name == Head(todo[c])
         found == GetEntityByName(name) IN
     \/ /\ found = {}
        /\ cpc' = [cpc EXCEPT ![c] = "create"]
        /\ UNCHANGED <<todo, nameToID, seen>>
     \/ \E id \in found :
          /\ nameToID' = [nameToID EXCEPT ![c] = Put(@, name, id)]
          /\ NameDone(c)
          /\ IF num[c] \in entities[id] THEN UNCHANGED <<cpc, seen>>
             ELSE /\ cpc' = [cpc EXCEPT ![c] = "alias"]
                  /\ seen' = [seen EXCEPT ![c] = <<id, entities[id]>>]
  /\ UNCHANGED <<dbVars, num, wanted, ingests, dedupVars, rpc, ask, bounds,
                 raced, alone, answerVars>>

\* An error of GetEntityByName is taken for a name that is not there.
LookupFails(c) ==
  /\ cpc[c] = "lookup" /\ todo[c] # <<>> /\ Fails("entities" \notin tables)
  /\ cpc' = [cpc EXCEPT ![c] = "create"]
  /\ raced' = raced \cup {{num[c], n} : n \in 1..num[c]}
  /\ UNCHANGED <<dbVars, num, todo, wanted, nameToID, seen, ingests, dedupVars, rpc,
                 ask, requests, alone, answerVars>>

\* Defect: the aliases of this extraction alone.
OnlyIncoming(c) == {num[c]}
mergeEntityAliasLists(c) == seen[c][2] \cup {num[c]}

\* The whole list is written, whatever it is by now; a removed row is ErrNotFound.
UpdateEntityAliases(c) ==
  LET id == seen[c][1] IN
  /\ cpc[c] = "alias"
  /\ \/ /\ "entities" \in tables /\ id \in Ids
        /\ entities' = [entities EXCEPT ![id] = mergeEntityAliasLists(c)]
        /\ UNCHANGED errors
     \/ Fails(id \notin Ids) /\ UNCHANGED entities       \* the call goes on
  /\ cpc' = [cpc EXCEPT ![c] = "lookup"]
  /\ seen' = [seen EXCEPT ![c] = Nothing]
  /\ UNCHANGED <<tables, rels, num, todo, wanted, nameToID, ingests, dedupVars, rpc,
                 ask, requests, raced, alone, answerVars>>

CreateEntity(c) ==
  LET name == Head(todo[c])
      id == <<num[c], name, Len(todo[c])>> IN
  /\ cpc[c] = "create"
  /\ \/ /\ "entities" \in tables
        /\ entities' = Put(entities, id, {num[c]})
        /\ nameToID' = [nameToID EXCEPT ![c] = Put(@, name, id)]
        /\ Touch /\ UNCHANGED errors
     \/ /\ Fails("entities" \notin tables)              \* no id for the name
        /\ UNCHANGED <<entities, nameToID, answerVars>>
  /\ NameDone(c)
  /\ cpc' = [cpc EXCEPT ![c] = "lookup"]
  /\ UNCHANGED <<tables, rels, num, wanted, seen, ingests, dedupVars, rpc, ask, requests,
                 raced, alone>>

\* Defect: foreign keys are off.
CreatableUnchecked(c, w) ==
  tables = AllTables /\ {w[1], w[2]} \subseteq DOMAIN nameToID[c]
\* Both names have an id, and the INSERT's foreign keys hold.
Creatable(c, w) ==
  /\ tables = AllTables /\ {w[1], w[2]} \subseteq DOMAIN nameToID[c]
  /\ nameToID[c][w[1]] \in Ids /\ nameToID[c][w[2]] \in Ids
CreateRelationship(c) ==
  /\ cpc[c] = "lookup" /\ todo[c] = <<>>
  /\ \E w \in wanted[c] :
       /\ wanted' = [wanted EXCEPT ![c] = @ \ {w}]
       /\ \/ /\ Creatable(c, w)
             /\ rels' = rels \cup {[id |-> <<num[c], w>>, from |-> nameToID[c][w[1]],
                                    to |-> nameToID[c][w[2]]]}
             /\ Touch /\ UNCHANGED errors
          \/ Fails(~Creatable(c, w)) /\ UNCHANGED <<rels, answerVars>>
  /\ UNCHANGED <<tables, entities, cpc, num, todo, nameToID, seen, ingests, dedupVars,
                 rpc, ask, requests, raced, alone>>

EndIngest(c) ==
  /\ cpc[c] = "lookup" /\ todo[c] = <<>> /\ wanted[c] = {}
  /\ cpc' = [cpc EXCEPT ![c] = "idle"]
  /\ num' = [num EXCEPT ![c] = 0]
  /\ nameToID' = [nameToID EXCEPT ![c] = <<>>]
  /\ UNCHANGED <<dbVars, todo, wanted, seen, ingests, dedupVars, rpc, ask, bounds,
                 raced, alone, answerVars>>

-----------------------------------------------------------------------------
(* SQLiteStore.DeduplicateEntities                                          *)

Group(f) == {id \in Ids : Fold(id) = f}

FindDuplicates(d) ==
  /\ dpc[d] = "idle" /\ requests < MaxRequests /\ "entities" \in tables
  /\ requests' = requests + 1 /\ UNCHANGED errors
  /\ doubled' = [doubled EXCEPT ![d] = {f \in Range(Folded) : Cardinality(Group(f)) > 1}]
  /\ dpc' = [dpc EXCEPT ![d] = "group"]
  /\ alone' = IF Running = {} /\ rpc = "idle" /\ \A e \in Dedupers : dpc[e] = "idle"
              THEN {d} ELSE {}
  /\ UNCHANGED <<dbVars, ingestVars, keep, olds, rpc, ask, raced, answerVars>>

\* ORDER BY created_at; of one ingest's entities the one stored first.
Before(i, j) == i[1] < j[1] \/ (i[1] = j[1] /\ i[3] > j[3])
Oldest(ids) == CHOOSE o \in ids : \A id \in ids \ {o} : Before(o, id)
RemoveIDs(ids) == ids \ {Oldest(ids)}

ListGroup(d) ==
  /\ dpc[d] = "group" /\ "entities" \in tables
  /\ \E f \in doubled[d] :
       /\ doubled' = [doubled EXCEPT ![d] = @ \ {f}]
       /\ IF Cardinality(Group(f)) < 2 THEN UNCHANGED <<dpc, keep, olds>>
          ELSE /\ olds' = [olds EXCEPT ![d] = RemoveIDs(Group(f))]
               /\ keep' = [keep EXCEPT ![d] = Oldest(Group(f))]
               /\ dpc' = [dpc EXCEPT ![d] = "from"]
  /\ UNCHANGED <<dbVars, ingestVars, rpc, ask, bounds, raced, alone, answerVars>>

\* The duplicate in hand: the oldest of those left.
Old(d) == Oldest(olds[d])

\* UPDATE relationships SET from_entity, then to_entity; the foreign key is checked.
RepointFrom(d) ==
  LET mine == {r \in rels : r.from = Old(d)} IN
  /\ dpc[d] = "from" /\ tables = AllTables
  /\ mine # {} => keep[d] \in Ids
  /\ rels' = (rels \ mine) \cup {[r EXCEPT !.from = keep[d]] : r \in mine}
  /\ dpc' = [dpc EXCEPT ![d] = "to"]
  /\ IF mine = {} THEN UNCHANGED answerVars ELSE Touch
  /\ UNCHANGED <<tables, entities, ingestVars, doubled, keep, olds, rpc,
                 ask, bounds, raced, alone>>

RepointTo(d) ==
  LET mine == {r \in rels : r.to = Old(d)} IN
  /\ dpc[d] = "to" /\ tables = AllTables
  /\ mine # {} => keep[d] \in Ids
  /\ rels' = (rels \ mine) \cup {[r EXCEPT !.to = keep[d]] : r \in mine}
  /\ dpc' = [dpc EXCEPT ![d] = "delete"]
  /\ IF mine = {} THEN UNCHANGED answerVars ELSE Touch
  /\ UNCHANGED <<tables, entities, ingestVars, doubled, keep, olds, rpc,
                 ask, bounds, raced, alone>>

\* DELETE fails while a relationship refers to the row; the aliases go with it.
DeleteEntity(d) ==
  /\ dpc[d] = "delete" /\ tables = AllTables
  /\ \A r \in rels : ~Refers(r, Old(d))
  /\ entities' = [id \in Ids \ {Old(d)} |-> entities[id]]
  /\ olds' = [olds EXCEPT ![d] = @ \ {Old(d)}]
  /\ dpc' = [dpc EXCEPT ![d] = IF olds'[d] = {} THEN "group" ELSE "from"]
  /\ keep' = [keep EXCEPT ![d] = IF olds'[d] = {} THEN Nothing ELSE @]
  /\ Touch
  /\ UNCHANGED <<tables, rels, ingestVars, doubled, rpc, ask, bounds, raced, alone>>

DedupEnds(d) ==
  /\ dpc' = [dpc EXCEPT ![d] = "idle"]
  /\ doubled' = [doubled EXCEPT ![d] = {}]
  /\ keep' = [keep EXCEPT ![d] = Nothing]
  /\ olds' = [olds EXCEPT ![d] = {}]
  /\ alone' = {}
  /\ UNCHANGED <<dbVars, ingestVars, rpc, ask, bounds, answerVars>>

\* It answers 200: what earlier ingests have doubled is merged.
DedupDone(d) ==
  /\ dpc[d] = "group" /\ doubled[d] = {}
  /\ raced' = IF d \in alone THEN {} ELSE raced
  /\ DedupEnds(d)

\* A statement fails, by a foreign key or otherwise: what is done stays done.
DedupFails(d) == dpc[d] # "idle" /\ DedupEnds(d) /\ UNCHANGED raced

-----------------------------------------------------------------------------
(* SQLiteStore.Reset: one DROP after the other, then migrate().             *)

DropRelationships ==
  /\ rpc = "idle" /\ requests < MaxRequests
  /\ rpc' = "entities" /\ requests' = requests + 1 /\ UNCHANGED errors
  /\ tables' = tables \ {"relationships"} /\ rels' = {}
  /\ Touch /\ alone' = {}
  /\ UNCHANGED <<entities, ingestVars, dedupVars, ask, raced>>

\* DROP TABLE deletes the rows first; a relationship stored since forbids it.
DropEntities ==
  /\ rpc = "entities" /\ rels = {}
  /\ rpc' = "migrate"
  /\ tables' = tables \ {"entities"} /\ entities' = <<>>
  /\ Touch
  /\ UNCHANGED <<rels, ingestVars, dedupVars, ask, bounds, raced, alone>>

ResetEnds ==
  /\ rpc # "idle" /\ rpc' = "idle"
  /\ \/ rpc = "migrate" /\ tables' = AllTables
     \/ UNCHANGED tables                        \* a statement fails, or the process dies
  /\ UNCHANGED <<entities, rels, ingestVars, dedupVars, ask, bounds, raced, alone,
                 answerVars>>

\* Any process that opens the database runs the migrations: CREATE TABLE IF NOT EXISTS.
Open ==
  /\ tables # AllTables /\ tables' = AllTables
  /\ UNCHANGED <<entities, rels, ingestVars, dedupVars, rpc, ask, bounds, raced, alone,
                 answerVars>>

-----------------------------------------------------------------------------
(* Readers: statements without a common snapshot.                          *)

\* The relationships lead both ways.
Neighbours(id) == {r.to : r \in {q \in rels : q.from = id}}
                    \cup {r.from : r \in {q \in rels : q.to = id}}
\* WITH RECURSIVE reachable, up to a depth.
Reachable(center, depth) ==
  LET upTo[n \in 0..depth] ==
        IF n = 0 THEN {center}
        ELSE LET ids == upTo[n - 1] IN ids \cup UNION {Neighbours(id) : id \in ids}
  IN upTo[depth]

Answered(a) ==
  /\ answer' = IF changed THEN Nothing ELSE a
  /\ ask' = Nothing /\ changed' = FALSE

\* Defect: one end within reach is enough.
TouchingRelationships(ids) == {r \in rels : r.from \in ids \/ r.to \in ids}
RelationshipsWithin(ids) == {r \in rels : r.from \in ids /\ r.to \in ids}

\* GetEntityGraph: GetEntity of the center.
AskGraph ==
  /\ ask = Nothing /\ requests < MaxRequests /\ "entities" \in tables
  /\ requests' = requests + 1 /\ UNCHANGED errors
  /\ \E id \in Ids, n \in Depths :
       ask' = [step |-> "entities", from |-> id, depth |-> n, ids |-> {}]
  /\ changed' = FALSE /\ answer' = Nothing
  /\ UNCHANGED <<dbVars, ingestVars, dedupVars, rpc, raced, alone>>

ReadEntities ==
  /\ ask # Nothing /\ ask.step = "entities" /\ tables = AllTables
  /\ ask' = [ask EXCEPT !.step = "rels", !.ids = Reachable(ask.from, ask.depth) \cap Ids]
  /\ UNCHANGED <<dbVars, ingestVars, dedupVars, rpc, bounds, answer, raced, alone, changed>>

\* The third statement computes the reachable ids again.
ReadRelationships ==
  /\ ask # Nothing /\ ask.step = "rels" /\ tables = AllTables
  /\ Answered([kind |-> "graph", from |-> ask.from, ids |-> ask.ids,
               rels |-> RelationshipsWithin(Reachable(ask.from, ask.depth))])
  /\ UNCHANGED <<dbVars, ingestVars, dedupVars, rpc, bounds, raced, alone>>

\* FindPath: the paths that the recursive query builds visit no entity twice.
Paths(from, depth) ==
  LET ofLength[n \in 0..depth] ==
        IF n = 0 THEN {<<from>>}
        ELSE UNION {{Append(p, id) : id \in Neighbours(Last(p)) \ Range(p)} :
                      p \in ofLength[n - 1]}
  IN UNION {ofLength[n] : n \in 0..depth}
PathsTo(from, to, depth) == {p \in Paths(from, depth) : Last(p) = to}
Shortest(paths) == {p \in paths : \A q \in paths : Len(p) <= Len(q)}

\* The first query only finds how long the shortest path is.
AskPath ==
  /\ ask = Nothing /\ requests < MaxRequests /\ "relationships" \in tables
  /\ requests' = requests + 1 /\ UNCHANGED errors
  /\ \E from, to \in Ids :
       LET paths == PathsTo(from, to, MaxPath)
           done(path) ==
             /\ answer' = [kind |-> "path", from |-> from, to |-> to, path |-> path]
             /\ UNCHANGED ask
       IN CASE from = to -> done(<<from>>)
            [] paths = {} -> done(<<>>)
            [] OTHER -> /\ answer' = Nothing
                        /\ \E p \in Shortest(paths) :
                             ask' = [step |-> "trail", from |-> from, to |-> to,
                                     depth |-> Len(p) - 1]
  /\ changed' = FALSE
  /\ UNCHANGED <<dbVars, ingestVars, dedupVars, rpc, raced, alone>>

Trail(from, to, depth) == Shortest(PathsTo(from, to, depth))

\* reconstructPath reads the relationships again and may find nothing.
ReconstructPath ==
  /\ ask # Nothing /\ ask.step = "trail" /\ "relationships" \in tables
  /\ LET trails == Trail(ask.from, ask.to, ask.depth) IN
     \E p \in IF trails = {} THEN {<<>>} ELSE trails :
       Answered([kind |-> "path", from |-> ask.from, to |-> ask.to, path |-> p])
  /\ UNCHANGED <<dbVars, ingestVars, dedupVars, rpc, bounds, raced, alone>>

AskFails ==
  /\ ask # Nothing /\ ask' = Nothing /\ changed' = FALSE
  /\ UNCHANGED <<dbVars, ingestVars, dedupVars, rpc, bounds, answer, raced, alone>>

-----------------------------------------------------------------------------
EntityStep(c) ==
  \/ BeginIngest(c) \/ Lookup(c) \/ LookupFails(c) \/ UpdateEntityAliases(c)
  \/ CreateEntity(c) \/ CreateRelationship(c) \/ EndIngest(c)

DedupStep(d) ==
  \/ FindDuplicates(d) \/ ListGroup(d) \/ RepointFrom(d) \/ RepointTo(d)
  \/ DeleteEntity(d) \/ DedupDone(d) \/ DedupFails(d)

ResetStep == DropRelationships \/ DropEntities \/ ResetEnds \/ Open

ReadStep ==
  \/ AskGraph \/ ReadEntities \/ ReadRelationships
  \/ AskPath \/ ReconstructPath \/ AskFails

GraphNext ==
  \/ \E c \in Calls : EntityStep(c)
  \/ \E d \in Dedupers : DedupStep(d)
  \/ ResetStep \/ ReadStep

GraphSpec == GraphInit /\ [][GraphNext]_graphVars

-----------------------------------------------------------------------------
\* Shapes; every relationship refers to stored entities; an entity that was
\* found or is to be kept has the name it was found by.
GraphTypeOK ==
  /\ tables \subseteq AllTables
  /\ "entities" \notin tables => entities = <<>>
  /\ Ids \subseteq (1..MaxIngests) \X Names \X (Nat \ {0})
  /\ \A id \in Ids : entities[id] \subseteq 1..ingests
  /\ \A r \in rels : {r.from, r.to} \subseteq Ids
  /\ cpc \in [Calls -> {"idle", "lookup", "create", "alias"}]
  /\ \A c \in Calls : \A n \in DOMAIN nameToID[c] : Fold(nameToID[c][n]) = Folded[n]
  /\ dpc \in [Dedupers -> {"idle", "group", "from", "to", "delete"}]
  /\ \A d \in Dedupers : olds[d] # {} <=> keep[d] # Nothing
  /\ \A d \in Dedupers : \A o \in olds[d] : Fold(o) = Fold(keep[d]) /\ o # keep[d]

\* Two entities of one name come from ingests that overlapped, or from one whose
\* lookup failed, and a deduplication that ran alone and answered has left none:
\* ingests one after the other never double an entity, however they spell it.
OneEntityPerName ==
  \A i, j \in Ids : Fold(i) = Fold(j) /\ i # j => {i[1], j[1]} \in raced

\* While the tables exist nothing known is lost: a stored relationship stays and
\* keeps leading between the names it was extracted for, an entity goes only if
\* another one of its name stays, and an alias is lost only to a call that read
\* the aliases before it was added.
KnowledgeStays ==
  [][tables = AllTables /\ tables' = AllTables =>
       /\ \A r \in rels : \E s \in rels' :
            s.id = r.id /\ Fold(s.from) = Fold(r.from) /\ Fold(s.to) = Fold(r.to)
       /\ \A i \in Ids \ DOMAIN entities' : \E j \in DOMAIN entities' : Fold(i) = Fold(j)
       /\ \A i \in Ids \cap DOMAIN entities' :
            \/ entities[i] \subseteq entities'[i]
            \/ \E c \in Calls : cpc[c] = "alias" /\ seen[c][1] = i /\ seen[c][2] # entities[i]]_graphVars

\* A graph answer: no part of it around the center is cut off, and its
\* relationships join its entities.
GraphConnected(a) ==
  /\ \A r \in a.rels : {r.from, r.to} \subseteq a.ids
  /\ a.from \in a.ids
  /\ \A S \in SUBSET a.ids : a.from \in S /\ S # a.ids =>
       \E r \in a.rels, k \in S, id \in a.ids \ S : Refers(r, k) /\ Refers(r, id)

\* A path answer: a shortest way by related entities from one end to the other,
\* or no traversal comes from one to the other in MaxPath steps.
PathShortest(a) ==
  LET p == a.path
      near(n) == a.to \in Reachable(a.from, n)
      related(i, j) == \E r \in rels : {r.from, r.to} = {i, j}
  IN IF p = <<>> THEN ~near(MaxPath)
     ELSE /\ Head(p) = a.from /\ Last(p) = a.to
          /\ \A k \in 1..Len(p) - 1 : related(p[k], p[k + 1])
          /\ Len(p) > 1 => ~near(Len(p) - 2)

\* What a reader answers is true of the tables, unless they changed during its
\* request: the statements it runs one after the other agree.
AnswersConnected ==
  answer # Nothing =>
    IF answer.kind = "graph" THEN GraphConnected(answer) ELSE PathShortest(answer)
=============================================================================
