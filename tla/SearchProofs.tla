---------------------------- MODULE SearchProofs ----------------------------
(***************************************************************************)
(* Proofs about the two halves of a search: VectorCache, the vector index  *)
(* and its cache file, for any processes, rows and bounds; and Retrieval,  *)
(* questions and context requests, for any store, orders of the indexes,   *)
(* limits and bounds.                                                      *)
(***************************************************************************)
EXTENDS VectorCache, Retrieval, FiniteSetTheorems, SequenceTheorems, WellFoundedInduction, TLAPS

-----------------------------------------------------------------------------
(* The cache file: shapes.                                                 *)

Keys == [Rows -> {Absent} \cup 0..MaxVersion]
Steps == {"down", "collect", "reset", "save", "write", "rename", "run"}

\* A process that is not serving has nothing to add, and why it saves goes with
\* what it does; the file is not written under its own name.
TypeInv ==
  /\ row \in [Rows -> {Absent, Deleted} \cup 0..MaxVersion]
  /\ file \in Inodes \cup {None} /\ tmp \in Inodes \cup {None}
  /\ file = tmp => file = None
  /\ content \in [Inodes -> {Torn} \cup Keys]
  /\ pc \in [Procs -> Steps]
  /\ why \in [Procs -> {"open", "reload", "close"}]
  /\ index \in [Procs -> Keys] /\ collected \in [Procs -> Keys]
  /\ hand \in [Procs -> SUBSET (Rows \X (0..MaxVersion))]
  /\ fd \in [Procs -> Inodes \cup {None}]
  /\ changed \in [Procs -> SUBSET Rows] /\ late \in [Procs -> SUBSET Rows]
  /\ lost \in SUBSET Rows /\ overlapped \in BOOLEAN
  /\ \A p \in Procs :
       /\ pc[p] = "down" => index[p] = Empty /\ why[p] = "open" /\ changed[p] = {}
       /\ fd[p] # None <=> pc[p] = "write"
       /\ pc[p] \in {"collect", "reset"} => why[p] \in {"open", "reload"}
       /\ pc[p] = "run" => why[p] = "close"
       /\ ~Serving(p) => hand[p] = {}

\* The versions that a copy may hold of a row whose embedding has version n:
\* none that the database has not had.
Versions(n) ==
  {Absent} \cup IF n = Absent THEN {} ELSE IF n = Deleted THEN 0..MaxVersion ELSE 0..n

VersionInv ==
  \A r \in Rows :
    /\ \A i \in Inodes : content[i] # Torn => content[i][r] \in Versions(row[r])
    /\ \A p \in Procs :
         /\ index[p][r] \in Versions(row[r]) /\ collected[p][r] \in Versions(row[r])
         /\ \A v \in 0..MaxVersion : <<r, v>> \in hand[p] => v \in Versions(row[r])

\* A save under way has the .tmp name's inode.
OwnTmp(p) ==
  /\ pc[p] = "write" => fd[p] = tmp /\ content[fd[p]] = Torn
  /\ pc[p] = "rename" => tmp # None /\ content[tmp] = index[p]

\* As long as no two saves overlapped, at most one is under way, the .tmp name is
\* its own, and the file can be read.
SaveInv ==
  ~overlapped =>
    /\ \A p, q \in Saving : p = q
    /\ \A p \in Procs : OwnTmp(p)
    /\ file # None => content[file] # Torn

\* Of a row at most one version is in hand.
HandInv == \A p \in Procs : \A x, y \in hand[p] : x[1] = y[1] => x = y

\* A row not lost: whoever has an index finds it; if the file lacks it, a process
\* has it among its changes, and is the only one up; and what stands under the .tmp
\* name during a save has it, unless its key is still to be added by one that saves.
RowKept(r) ==
  /\ \A p \in Up : Rebuilds(p) \/ Finds(p, index[p], r)
  /\ Readable => content[file][r] = row[r] \/ \E p \in Up : r \in changed[p]
  /\ \A p, q \in Up : r \in changed[p] => q = p
  /\ Saving # {} /\ tmp # None /\ content[tmp] # Torn =>
       content[tmp][r] = row[r] \/ \E p \in Saving : r \in InHand(p)
LostInv == \A r \in Embedded \ lost : RowKept(r)

\* What a rebuild has read is found later, unless late; and of a row that is there,
\* a key to be added is among the changes.
ReadInv ==
  /\ \A p \in Procs, r \in Embedded :
       pc[p] = "reset" /\ r \notin late[p] => Finds(p, collected[p], r)
  /\ \A p \in Procs, r \in Rows :
       r \in InHand(p) /\ row[r] # Deleted => r \in changed[p]

-----------------------------------------------------------------------------
(* An inode for the .tmp name.                                             *)

\* The file and the processes' open files leave an inode free.
LEMMA FreeInode ==
  ASSUME TypeInv
  PROVE  \E i \in Inodes : i # file /\ \A p \in Procs : fd[p] # i
<1> DEFINE Others == Inodes \ {file}
           g == [i \in Others |-> CHOOSE p \in Procs : fd[p] = i]
<1>1. SUFFICES ASSUME \A i \in Others : \E p \in Procs : fd[p] = i PROVE FALSE
  OBVIOUS
<1>2. g \in Injection(Others, Procs)
  <2>1. \A i \in Others : g[i] \in Procs /\ fd[g[i]] = i
    BY <1>1
  <2>2. g \in [Others -> Procs]
    BY <2>1
  <2>3. \A i, j \in Others : g[i] = g[j] => i = j
    BY <2>1
  <2> HIDE DEF g
  <2> QED
    BY <2>2, <2>3 DEF Injection, IsInjective
<1>3. Cardinality(Procs) \in Nat
  BY FS_CardinalityType, ProcsAssumption
<1>4. IsFiniteSet(Inodes) /\ Cardinality(Inodes) = Cardinality(Procs) + 2
  BY <1>3, FS_Interval DEF Inodes
<1>5. Cardinality(Others) =
        IF file \in Inodes THEN Cardinality(Inodes) - 1 ELSE Cardinality(Inodes)
  BY <1>4, FS_RemoveElement
<1>6. Cardinality(Others) <= Cardinality(Procs)
  <2> HIDE DEF g, Others
  <2> QED
    BY <1>2, ProcsAssumption, FS_Injection
<1> HIDE DEF Others
<1> QED
  BY <1>3, <1>4, <1>5, <1>6

\* A save never opens the file itself.
LEMMA TargetIsNotFile == TypeInv => Target \in Inodes /\ Target # file
<1> SUFFICES ASSUME TypeInv PROVE Target \in Inodes /\ Target # file
  OBVIOUS
<1>1. CASE tmp = None
  BY <1>1, FreeInode DEF Target
<1>2. CASE tmp # None
  BY <1>2 DEF TypeInv, Target
<1> QED
  BY <1>1, <1>2

LEMMA NamesDiffer ==
  /\ Absent \notin Nat /\ Deleted \notin Nat /\ Absent # Deleted
  /\ None \notin Inodes /\ Empty \in Keys /\ Torn \notin Keys /\ MaxVersion \in Nat
<1>1. Cardinality(Procs) \in Nat
  BY FS_CardinalityType, ProcsAssumption
<1>2. None \notin Inodes
  BY <1>1, NamesAssumption DEF Inodes
<1> QED
  BY <1>2, NamesAssumption, BoundsAssumption DEF Keys, Empty

-----------------------------------------------------------------------------
(* Types.                                                                  *)

LEMMA KeysExcept ==
  ASSUME NEW keys \in Keys, NEW r \in Rows, NEW v \in {Absent} \cup 0..MaxVersion
  PROVE  [keys EXCEPT ![r] = v] \in Keys
  BY DEF Keys

\* One key of one process's index changes.
LEMMA OneKey ==
  ASSUME TypeInv, NEW p \in Procs, NEW r \in Rows, NEW v,
         index' = [index EXCEPT ![p][r] = v]
  PROVE  \A q \in Procs, s \in Rows :
           index'[q][s] = IF q = p /\ s = r THEN v ELSE index[q][s]
<1>1. index' = [index EXCEPT ![p] = [index[p] EXCEPT ![r] = v]]
  BY DEF TypeInv
<1>2. DOMAIN index = Procs /\ DOMAIN index[p] = Rows
  BY DEF TypeInv, Keys
<1> QED
  BY <1>1, <1>2

\* A process that has ended has nothing.
LEMMA GoneType ==
  ASSUME TypeInv, NEW p \in Procs, GoneUnsaved(p), UNCHANGED <<row, dirVars, overlapped>>
  PROVE  TypeInv'
  BY NamesDiffer DEF TypeInv, GoneUnsaved, Gone, dirVars, Serving, Steps

\* Rows, keys and what is in hand.
LEMMA RowType ==
  ASSUME TypeInv, NEW r \in Rows,
         \/ CreateRow(r) \/ DeleteRow(r)
         \/ \E p \in Procs : UpdateRow(p, r) \/ BackfillGone(p, r)
         \/ \E p \in Procs, v \in 0..MaxVersion : AddKey(p, r, v)
  PROVE  TypeInv'
<1>1. CASE CreateRow(r)
  BY <1>1, NamesDiffer DEF CreateRow, TypeInv, dirVars, historyVars, Serving
<1>2. CASE DeleteRow(r)
  <2>1. CASE UNCHANGED index
    BY <1>2, <2>1, NamesDiffer DEF DeleteRow, TypeInv, dirVars, historyVars, Serving
  <2>2. ASSUME NEW p \in Up, Ready(p), index' = [index EXCEPT ![p][r] = Absent] PROVE TypeInv'
    <3>1. [index[p] EXCEPT ![r] = Absent] \in Keys
      BY KeysExcept DEF TypeInv, Up
    <3>2. index' = [index EXCEPT ![p] = [index[p] EXCEPT ![r] = Absent]]
      BY <2>2 DEF TypeInv, Up
    <3>3. pc[p] # "down"
      BY DEF Up
    <3> QED
      BY <1>2, <3>1, <3>2, <3>3, NamesDiffer DEF DeleteRow, TypeInv, dirVars, historyVars, Serving, Up
  <2> QED
    BY <1>2, <2>1, <2>2 DEF DeleteRow
<1>3. ASSUME NEW p \in Procs, UpdateRow(p, r) PROVE TypeInv'
  <2>1. row[r] + 1 \in 0..MaxVersion
    BY <1>3, NamesDiffer DEF UpdateRow, TypeInv
  <2> QED
    BY <1>3, <2>1, NamesDiffer DEF UpdateRow, TypeInv, dirVars, Serving
<1>4. ASSUME NEW p \in Procs, BackfillGone(p, r) PROVE TypeInv'
  BY <1>4, NamesDiffer DEF BackfillGone, TypeInv, dirVars, historyVars, Serving
<1>5. ASSUME NEW p \in Procs, NEW v \in 0..MaxVersion, AddKey(p, r, v) PROVE TypeInv'
  <2>1. pc[p] # "down"
    BY <1>5 DEF AddKey, Ready, Serving, TypeInv
  <2>2. [index[p] EXCEPT ![r] = v] \in Keys /\ [index[p] EXCEPT ![r] = Absent] \in Keys
    BY KeysExcept DEF TypeInv
  <2>3. \/ index' = [index EXCEPT ![p] = [index[p] EXCEPT ![r] = v]]
        \/ index' = [index EXCEPT ![p] = [index[p] EXCEPT ![r] = Absent]]
    BY <1>5 DEF AddKey, Add, TypeInv
  <2>4. index' \in [Procs -> Keys]
    BY <2>2, <2>3 DEF TypeInv
  <2> QED
    BY <1>5, <2>1, <2>3, <2>4, NamesDiffer DEF AddKey, TypeInv, dirVars, Serving
<1> QED
  BY <1>1, <1>2, <1>3, <1>4, <1>5

\* The steps of a process.
LEMMA ProcType ==
  ASSUME TypeInv, NEW p \in Procs,
         \/ Open(p) \/ Reload(p) \/ CollectEmbeddingsForVectorIndex(p) \/ ResetFromEmbeddings(p)
         \/ RebuildFails(p) \/ Close(p) \/ BeginSave(p) \/ WriteTmp(p) \/ Rename(p) \/ SaveFails(p) \/ Exit(p)
  PROVE  TypeInv'
<1>1. CASE Open(p)
  <2>1. lost' \in SUBSET Rows
    BY <1>1 DEF Open, TypeInv, Up
  <2>2. CASE Readable
    BY <1>1, <2>1, <2>2, NamesDiffer DEF Open, Readable, Goto, TypeInv, dirVars, Serving, Steps
  <2>3. CASE ~Readable
    BY <1>1, <2>1, <2>3, NamesDiffer DEF Open, Goto, TypeInv, dirVars, Serving, Steps
  <2> QED
    BY <2>2, <2>3
<1>2. CASE Reload(p) \/ Close(p)
  BY <1>2, NamesDiffer DEF Reload, Close, Goto, TypeInv, dirVars, historyVars, Serving, Steps
<1>3. CASE CollectEmbeddingsForVectorIndex(p)
  <2>1. [r \in Rows |-> IF r \in Embedded THEN row[r] ELSE Absent] \in Keys
    BY DEF TypeInv, Keys, Embedded
  <2>2. late' \in [Procs -> SUBSET Rows]
    BY <1>3 DEF CollectEmbeddingsForVectorIndex, TypeInv, InHand
  <2> QED
    BY <1>3, <2>1, <2>2, NamesDiffer
    DEF CollectEmbeddingsForVectorIndex, TypeInv, dirVars, Serving, Steps
<1>4. CASE ResetFromEmbeddings(p)
  BY <1>4, NamesDiffer DEF ResetFromEmbeddings, TypeInv, dirVars, Serving, Steps
<1>5. CASE BeginSave(p)
  BY <1>5, NamesDiffer, TargetIsNotFile DEF BeginSave, OpenTmp, TypeInv, Serving, Steps
<1>6. CASE WriteTmp(p)
  BY <1>6, NamesDiffer DEF WriteTmp, TypeInv, historyVars, Serving, Steps
<1>7. CASE Rename(p)
  <2>1. file' \in Inodes /\ tmp' = None /\ content' \in [Inodes -> {Torn} \cup Keys]
    BY <1>7, NamesDiffer DEF Rename, TypeInv
  <2>2. CASE why[p] = "close"
    BY <1>7, <2>1, <2>2, NamesDiffer DEF Rename, Gone, TypeInv, Serving, Steps
  <2>3. CASE why[p] # "close"
    <3>1. InHand(p) \in SUBSET Rows
      BY DEF TypeInv, InHand
    <3> QED
      BY <1>7, <2>1, <2>3, <3>1, NamesDiffer DEF Rename, Goto, TypeInv, Serving, Steps
  <2> QED
    BY <2>2, <2>3
<1>8. CASE SaveFails(p)
  <2>1. CASE why[p] = "reload"
    BY <1>8, <2>1, NamesDiffer DEF SaveFails, Goto, TypeInv, dirVars, Serving, Steps
  <2>2. CASE why[p] # "reload"
    BY <1>8, <2>2, GoneType DEF SaveFails
  <2> QED
    BY <2>1, <2>2
<1>9. CASE Exit(p)
  BY <1>9, GoneType DEF Exit
<1>10. CASE RebuildFails(p)
  <2>1. CASE why[p] = "open"
    BY <1>10, <2>1, GoneType DEF RebuildFails
  <2>2. CASE why[p] # "open"
    <3>1. index' \in [Procs -> Keys] /\ lost' \in SUBSET Rows
      <4>1. ASSUME NEW imported \in SUBSET Rows
            PROVE  [r \in Rows |-> IF r \in imported THEN collected[p][r] ELSE Absent] \in Keys
        BY DEF TypeInv, Keys
      <4>2. CASE UNCHANGED <<index, lost>>
        BY <4>2 DEF TypeInv
      <4>3. ASSUME NEW imported \in SUBSET Rows,
                   index' = [index EXCEPT ![p] =
                     [r \in Rows |-> IF r \in imported THEN collected[p][r] ELSE Absent]],
                   lost' = lost \cup late[p] \cup (Rows \ imported)
            PROVE  index' \in [Procs -> Keys] /\ lost' \in SUBSET Rows
        BY <4>1, <4>3 DEF TypeInv
      <4> QED
        BY <1>10, <2>2, <4>2, <4>3 DEF RebuildFails
    <3>2. /\ Goto(p, "run", "close") /\ pc[p] \in {"collect", "reset"}
          /\ collected' = [collected EXCEPT ![p] = Empty] /\ late' = [late EXCEPT ![p] = {}]
          /\ UNCHANGED <<row, dirVars, hand, fd, changed, overlapped>>
      BY <1>10, <2>2 DEF RebuildFails
    <3>3. why[p] = "reload" /\ fd[p] = None
      BY <2>2, <3>2 DEF TypeInv
    <3>4. /\ pc' \in [Procs -> Steps] /\ why' \in [Procs -> {"open", "reload", "close"}]
          /\ collected' \in [Procs -> Keys] /\ late' \in [Procs -> SUBSET Rows]
      BY <3>2, NamesDiffer DEF Goto, TypeInv, Steps
    <3>5. ASSUME NEW q \in Procs
          PROVE  /\ pc'[q] = "down" => index'[q] = Empty /\ why'[q] = "open" /\ changed'[q] = {}
                 /\ fd'[q] # None <=> pc'[q] = "write"
                 /\ pc'[q] \in {"collect", "reset"} => why'[q] \in {"open", "reload"}
                 /\ pc'[q] = "run" => why'[q] = "close"
                 /\ ~Serving(q)' => hand'[q] = {}
      <4>1. CASE q = p
        BY <3>2, <3>3, <4>1 DEF Goto, TypeInv, Serving
      <4>2. CASE q # p
        <5>1. index'[q] = index[q] /\ pc'[q] = pc[q] /\ why'[q] = why[q]
          BY <1>10, <2>2, <3>2, <4>2 DEF RebuildFails, Goto, TypeInv
        <5> QED
          BY <3>2, <5>1 DEF TypeInv, Serving
      <4> QED
        BY <4>1, <4>2
    <3> QED
      BY <3>1, <3>2, <3>4, <3>5 DEF TypeInv, dirVars
  <2> QED
    BY <2>1, <2>2
<1> QED
  BY <1>1, <1>2, <1>3, <1>4, <1>5, <1>6, <1>7, <1>8, <1>9, <1>10

\* Every step keeps the shapes.
LEMMA TypeStep == TypeInv /\ [Next]_vars => TypeInv'
<1> SUFFICES ASSUME TypeInv, [Next]_vars PROVE TypeInv'
  OBVIOUS
<1>1. CASE UNCHANGED vars
  BY <1>1 DEF vars, dirVars, historyVars, TypeInv, Serving
<1>2. CASE Next
  BY <1>2, RowType, ProcType DEF Next, ProcStep
<1> QED
  BY <1>1, <1>2

LEMMA TypeInvHolds == Spec => []TypeInv
<1>1. Init => TypeInv
  <2> SUFFICES ASSUME Init PROVE TypeInv
    OBVIOUS
  <2>1. row \in [Rows -> {Absent, Deleted} \cup 0..MaxVersion]
    BY DEF Init
  <2>2. content \in [Inodes -> {Torn} \cup Keys]
    BY DEF Init
  <2>3. index \in [Procs -> Keys] /\ collected \in [Procs -> Keys]
    BY NamesDiffer DEF Init
  <2>4. hand \in [Procs -> SUBSET (Rows \X (0..MaxVersion))]
    BY DEF Init
  <2> QED
    BY <2>1, <2>2, <2>3, <2>4, NamesDiffer DEF Init, TypeInv, Steps, Serving
<1> QED
  BY <1>1, TypeStep, PTL DEF Spec

-----------------------------------------------------------------------------
(* No copy has a version that the database has not had.                    *)

\* A step that touches rows leaves all versions possible that were.
LEMMA VersionsGrow ==
  ASSUME TypeInv, NEW r \in Rows,
         \/ row' = [row EXCEPT ![r] = Deleted]
         \/ row[r] = Absent /\ row' = [row EXCEPT ![r] = 0]
         \/ row[r] \notin {Absent, Deleted} /\ row' = [row EXCEPT ![r] = @ + 1] /\ row[r] < MaxVersion
  PROVE  \A s \in Rows : Versions(row[s]) \subseteq Versions(row'[s])
<1> SUFFICES ASSUME NEW s \in Rows, NEW v \in Versions(row[s]) PROVE v \in Versions(row'[s])
  OBVIOUS
<1>1. CASE s # r
  BY <1>1 DEF TypeInv
<1>2. CASE s = r
  BY <1>2, NamesDiffer DEF TypeInv, Versions
<1> QED
  BY <1>1, <1>2

\* No version at all is always possible, and of a copy's keys so are all.
LEMMA AbsentIsAVersion == \A n : Absent \in Versions(n)
  BY DEF Versions

LEMMA GoneVersions ==
  ASSUME TypeInv, VersionInv, NEW p \in Procs, Gone(p), UNCHANGED <<row, content>>
  PROVE  VersionInv'
<1>1. \A r \in Rows : Empty[r] \in Versions(row[r])
  BY AbsentIsAVersion DEF Empty
<1> QED
  BY <1>1 DEF TypeInv, VersionInv, Gone

LEMMA RowVersions ==
  ASSUME TypeInv, VersionInv, NEW r \in Rows,
         \/ CreateRow(r) \/ DeleteRow(r)
         \/ \E p \in Procs : UpdateRow(p, r) \/ BackfillGone(p, r)
         \/ \E p \in Procs, v \in 0..MaxVersion : AddKey(p, r, v)
  PROVE  VersionInv'
<1>1. CASE CreateRow(r)
  <2>1. \A s \in Rows : Versions(row[s]) \subseteq Versions(row'[s])
    BY <1>1, VersionsGrow DEF CreateRow
  <2> QED
    BY <1>1, <2>1 DEF CreateRow, VersionInv, dirVars
<1>2. CASE DeleteRow(r)
  <2>1. \A s \in Rows : Versions(row[s]) \subseteq Versions(row'[s])
    BY <1>2, VersionsGrow DEF DeleteRow
  <2>2. \A p \in Procs, s \in Rows : index'[p][s] \in {index[p][s], Absent}
    BY <1>2, OneKey DEF DeleteRow, Up
  <2> QED
    BY <1>2, <2>1, <2>2, AbsentIsAVersion DEF DeleteRow, VersionInv, dirVars
<1>3. ASSUME NEW p \in Procs, UpdateRow(p, r) PROVE VersionInv'
  <2>1. \A s \in Rows : Versions(row[s]) \subseteq Versions(row'[s])
    BY <1>3, VersionsGrow DEF UpdateRow
  <2>2. row'[r] \in Versions(row'[r])
    BY <1>3, NamesDiffer DEF UpdateRow, TypeInv, Versions
  <2>3. \A q \in Procs : hand'[q] \subseteq hand[q] \cup {<<r, row'[r]>>}
    BY <1>3 DEF UpdateRow, TypeInv
  <2> QED
    BY <1>3, <2>1, <2>2, <2>3 DEF UpdateRow, VersionInv, dirVars
<1>4. ASSUME NEW p \in Procs, BackfillGone(p, r) PROVE VersionInv'
  <2>1. 0 \in Versions(row[r])
    BY <1>4, NamesDiffer DEF BackfillGone, Versions
  <2>2. \A q \in Procs : hand'[q] \subseteq hand[q] \cup {<<r, 0>>}
    BY <1>4 DEF BackfillGone, TypeInv
  <2> QED
    BY <1>4, <2>1, <2>2 DEF BackfillGone, VersionInv, dirVars
<1>5. ASSUME NEW p \in Procs, NEW v \in 0..MaxVersion, AddKey(p, r, v) PROVE VersionInv'
  <2>1. v \in Versions(row[r])
    BY <1>5 DEF AddKey, VersionInv
  <2>2. \A q \in Procs, s \in Rows : \/ index'[q][s] \in {index[q][s], Absent}
                                     \/ s = r /\ index'[q][s] = v
    <3>1. \/ index' = [index EXCEPT ![p][r] = v]
          \/ index' = [index EXCEPT ![p][r] = Absent]
      BY <1>5 DEF AddKey, Add, TypeInv
    <3> QED
      BY <3>1, OneKey
  <2>3. \A q \in Procs : hand'[q] \subseteq hand[q]
    BY <1>5 DEF AddKey, TypeInv
  <2> QED
    BY <1>5, <2>1, <2>2, <2>3, AbsentIsAVersion DEF AddKey, VersionInv, dirVars
<1> QED
  BY <1>1, <1>2, <1>3, <1>4, <1>5

LEMMA ProcVersions ==
  ASSUME TypeInv, VersionInv, NEW p \in Procs,
         \/ Open(p) \/ Reload(p) \/ CollectEmbeddingsForVectorIndex(p) \/ ResetFromEmbeddings(p)
         \/ RebuildFails(p) \/ Close(p) \/ BeginSave(p) \/ WriteTmp(p) \/ Rename(p) \/ SaveFails(p) \/ Exit(p)
  PROVE  VersionInv'
<1>1. CASE Open(p)
  <2>1. CASE file # None /\ content[file] # Torn
    BY <1>1, <2>1 DEF Open, Readable, TypeInv, VersionInv, dirVars
  <2>2. CASE ~(file # None /\ content[file] # Torn)
    BY <1>1, <2>2 DEF Open, Readable, TypeInv, VersionInv, dirVars
  <2> QED
    BY <2>1, <2>2
<1>2. CASE Reload(p) \/ Close(p)
  BY <1>2 DEF Reload, Close, VersionInv, dirVars
<1>3. CASE CollectEmbeddingsForVectorIndex(p)
  <2>1. \A r \in Rows : collected'[p][r] \in Versions(row[r])
    BY <1>3, NamesDiffer
    DEF CollectEmbeddingsForVectorIndex, TypeInv, Embedded, Versions
  <2>2. \A q \in Procs : q # p => collected'[q] = collected[q]
    BY <1>3 DEF CollectEmbeddingsForVectorIndex, TypeInv
  <2> QED
    BY <1>3, <2>1, <2>2 DEF CollectEmbeddingsForVectorIndex, VersionInv, dirVars
<1>4. CASE ResetFromEmbeddings(p)
  <2>1. \A r \in Rows : Empty[r] \in Versions(row[r])
    BY AbsentIsAVersion DEF Empty
  <2> QED
    BY <1>4, <2>1 DEF ResetFromEmbeddings, TypeInv, VersionInv, dirVars
<1>5. CASE BeginSave(p)
  BY <1>5, TargetIsNotFile DEF BeginSave, OpenTmp, TypeInv, VersionInv
<1>6. CASE WriteTmp(p)
  <2>1. \A i \in Inodes : content'[i] \in {content[i], index[p], Torn}
    BY <1>6 DEF WriteTmp, TypeInv
  <2> QED
    BY <1>6, <2>1 DEF WriteTmp, VersionInv
<1>7. CASE Rename(p)
  <2>1. \A i \in Inodes : content'[i] \in {content[i], Torn}
    BY <1>7 DEF Rename
  <2>2. \A r \in Rows : Empty[r] \in Versions(row[r])
    BY AbsentIsAVersion DEF Empty
  <2>3. CASE why[p] = "close"
    <3>1. Gone(p) /\ UNCHANGED row
      BY <1>7, <2>3 DEF Rename
    <3>2. \A q \in Procs : /\ index'[q] \in {index[q], Empty}
                          /\ collected'[q] \in {collected[q], Empty}
                          /\ hand'[q] \in {hand[q], {}}
      BY <3>1 DEF Gone, TypeInv
    <3> QED
      BY <2>1, <2>2, <3>1, <3>2 DEF VersionInv
  <2>4. CASE why[p] # "close"
    BY <1>7, <2>1, <2>4 DEF Rename, VersionInv
  <2> QED
    BY <2>3, <2>4
<1>8. CASE SaveFails(p)
  <2>1. CASE why[p] = "reload"
    BY <1>8, <2>1 DEF SaveFails, VersionInv, dirVars
  <2>2. CASE why[p] # "reload"
    BY <1>8, <2>2, GoneVersions DEF SaveFails, GoneUnsaved, dirVars
  <2> QED
    BY <2>1, <2>2
<1>9. CASE Exit(p)
  BY <1>9, GoneVersions DEF Exit, GoneUnsaved, dirVars
<1>10. CASE RebuildFails(p)
  <2>1. CASE why[p] = "open"
    BY <1>10, <2>1, GoneVersions DEF RebuildFails, GoneUnsaved, dirVars
  <2>2. CASE why[p] # "open"
    <3>1. UNCHANGED <<row, content, hand>>
      BY <1>10, <2>2 DEF RebuildFails, dirVars
    <3>2. \A q \in Procs, r \in Rows : /\ index'[q][r] \in {index[q][r], collected[q][r], Absent}
                                     /\ collected'[q][r] \in {collected[q][r], Absent}
      <4>1. collected' = [collected EXCEPT ![p] = Empty]
        BY <1>10, <2>2 DEF RebuildFails
      <4>2. CASE UNCHANGED index
        BY <4>1, <4>2 DEF TypeInv, Empty
      <4>3. ASSUME NEW imported \in SUBSET Rows,
                   index' = [index EXCEPT ![p] =
                     [r \in Rows |-> IF r \in imported THEN collected[p][r] ELSE Absent]]
            PROVE  \A q \in Procs, r \in Rows : index'[q][r] \in {index[q][r], collected[q][r], Absent}
        BY <4>3 DEF TypeInv
      <4> QED
        BY <1>10, <2>2, <4>1, <4>2, <4>3 DEF RebuildFails, TypeInv, Empty
    <3> QED
      BY <3>1, <3>2, AbsentIsAVersion DEF VersionInv
  <2> QED
    BY <2>1, <2>2
<1> QED
  BY <1>1, <1>2, <1>3, <1>4, <1>5, <1>6, <1>7, <1>8, <1>9, <1>10

LEMMA VersionStep == TypeInv /\ VersionInv /\ [Next]_vars => VersionInv'
<1> SUFFICES ASSUME TypeInv, VersionInv, [Next]_vars PROVE VersionInv'
  OBVIOUS
<1>1. CASE UNCHANGED vars
  BY <1>1 DEF vars, dirVars, VersionInv
<1>2. CASE Next
  BY <1>2, RowVersions, ProcVersions DEF Next, ProcStep
<1> QED
  BY <1>1, <1>2

\* Shapes, and no key with a vector that the database has not: the types of
\* directory, processes and copies, in vecindex.go and db/sqlite.go.
THEOREM TypeCorrect == Spec => []TypeOK
<1>1. Init => VersionInv
  BY NamesDiffer, AbsentIsAVersion DEF Init, VersionInv, Empty
<1>2. TypeInv /\ VersionInv => TypeOK
  <2> SUFFICES ASSUME TypeInv, VersionInv PROVE TypeOK
    OBVIOUS
  <2>1. \A p \in Procs, r \in Embedded : index[p][r] \in {Absent} \cup 0..row[r]
    BY DEF TypeInv, VersionInv, Embedded, Versions
  <2>2. \A p \in Procs \ Up : index[p] = Empty /\ hand[p] = {} /\ fd[p] = None
    BY DEF TypeInv, Up, Serving
  <2>3. \A i \in Inodes : content[i] = Torn \/ content[i] \in [Rows -> {Absent} \cup 0..MaxVersion]
    BY DEF TypeInv, Keys
  <2> QED
    BY <2>1, <2>2, <2>3 DEF TypeInv, TypeOK, Steps
<1> QED
  BY <1>1, <1>2, VersionStep, TypeInvHolds, PTL DEF Spec

-----------------------------------------------------------------------------
(* A save has the .tmp name for itself.                                    *)

\* Only a process that is not saving changes its index by the way.
LEMMA RowOwnTmp ==
  ASSUME TypeInv, NEW r \in Rows,
         \/ CreateRow(r) \/ DeleteRow(r)
         \/ \E p \in Procs : UpdateRow(p, r) \/ BackfillGone(p, r)
         \/ \E p \in Procs, v \in 0..MaxVersion : AddKey(p, r, v)
  PROVE  /\ UNCHANGED <<file, tmp, content, pc, why, fd, overlapped>>
         /\ \A q \in Saving : index'[q] = index[q]
<1>1. CASE CreateRow(r)
  BY <1>1 DEF CreateRow, dirVars, historyVars
<1>2. CASE DeleteRow(r)
  BY <1>2 DEF DeleteRow, dirVars, historyVars, Ready, Saving, TypeInv
<1>3. ASSUME NEW p \in Procs, UpdateRow(p, r) \/ BackfillGone(p, r)
      PROVE  UNCHANGED <<file, tmp, content, pc, why, fd, overlapped, index>>
  BY <1>3 DEF UpdateRow, BackfillGone, dirVars, historyVars
<1>4. ASSUME NEW p \in Procs, NEW v \in 0..MaxVersion, AddKey(p, r, v)
      PROVE  /\ UNCHANGED <<file, tmp, content, pc, why, fd, overlapped>>
             /\ \A q \in Saving : index'[q] = index[q]
  BY <1>4 DEF AddKey, dirVars, Ready, Saving, TypeInv
<1> QED
  BY <1>1, <1>2, <1>3, <1>4

\* A process that begins, writes or renames while no other saves.
LEMMA OwnTmpStep ==
  ASSUME TypeInv, \A q \in Procs : OwnTmp(q), NEW p \in Procs,
         BeginSave(p) \/ WriteTmp(p) \/ Rename(p) => \A q \in Saving : q = p,
         \/ Open(p) \/ Reload(p) \/ CollectEmbeddingsForVectorIndex(p) \/ ResetFromEmbeddings(p)
         \/ RebuildFails(p) \/ Close(p) \/ BeginSave(p) \/ WriteTmp(p) \/ Rename(p) \/ SaveFails(p) \/ Exit(p)
  PROVE  \A q \in Procs : OwnTmp(q)'
<1> SUFFICES ASSUME NEW q \in Procs PROVE OwnTmp(q)'
  OBVIOUS
<1>1. CASE Open(p)
  BY <1>1 DEF Open, Goto, TypeInv, OwnTmp, dirVars
<1>2. CASE Reload(p) \/ Close(p)
  BY <1>2 DEF Reload, Close, Goto, TypeInv, OwnTmp, dirVars
<1>3. CASE CollectEmbeddingsForVectorIndex(p)
  BY <1>3 DEF CollectEmbeddingsForVectorIndex, TypeInv, OwnTmp, dirVars
<1>4. CASE ResetFromEmbeddings(p)
  BY <1>4 DEF ResetFromEmbeddings, TypeInv, OwnTmp, dirVars
<1>5. CASE BeginSave(p)
  <2>1. CASE q = p
    BY <1>5, <2>1, TargetIsNotFile, NamesDiffer DEF BeginSave, OpenTmp, TypeInv, OwnTmp
  <2>2. CASE q # p
    BY <1>5, <2>2 DEF BeginSave, TypeInv, OwnTmp, Saving
  <2> QED
    BY <2>1, <2>2
<1>6. CASE WriteTmp(p)
  <2>1. CASE q = p
    <3>1. content[fd[p]] = Torn /\ fd[p] = tmp /\ fd[p] \in Inodes /\ tmp # None
      BY <1>6, NamesDiffer DEF WriteTmp, OwnTmp, TypeInv
    <3>2. content' = [content EXCEPT ![tmp] = index[p]]
      BY <1>6, <3>1 DEF WriteTmp
    <3> QED
      BY <1>6, <2>1, <3>1, <3>2 DEF WriteTmp, OwnTmp, TypeInv
  <2>2. CASE q # p
    BY <1>6, <2>2 DEF WriteTmp, TypeInv, OwnTmp, Saving
  <2> QED
    BY <2>1, <2>2
<1>7. CASE Rename(p)
  <2>1. pc'[q] \notin {"write", "rename"}
    BY <1>7 DEF Rename, Gone, Goto, Saving, TypeInv
  <2> QED
    BY <2>1 DEF OwnTmp
<1>8. CASE SaveFails(p)
  BY <1>8 DEF SaveFails, GoneUnsaved, Gone, Goto, TypeInv, OwnTmp, dirVars
<1>9. CASE Exit(p) \/ RebuildFails(p)
  BY <1>9 DEF Exit, RebuildFails, GoneUnsaved, Gone, Goto, TypeInv, OwnTmp, dirVars
<1> QED
  BY <1>1, <1>2, <1>3, <1>4, <1>5, <1>6, <1>7, <1>8, <1>9

LEMMA SaveStep == TypeInv /\ SaveInv /\ [Next]_vars => SaveInv'
<1> SUFFICES ASSUME TypeInv, SaveInv, [Next]_vars, ~overlapped' PROVE SaveInv'
  BY DEF SaveInv
<1>1. CASE UNCHANGED vars
  BY <1>1 DEF vars, dirVars, historyVars, SaveInv, OwnTmp, Saving
<1>2. ASSUME NEW r \in Rows,
             \/ CreateRow(r) \/ DeleteRow(r)
             \/ \E p \in Procs : UpdateRow(p, r) \/ BackfillGone(p, r)
             \/ \E p \in Procs, v \in 0..MaxVersion : AddKey(p, r, v)
      PROVE  SaveInv'
  BY <1>2, RowOwnTmp DEF SaveInv, OwnTmp, Saving
<1>3. ASSUME NEW p \in Procs,
             \/ Open(p) \/ Reload(p) \/ CollectEmbeddingsForVectorIndex(p) \/ ResetFromEmbeddings(p)
             \/ RebuildFails(p) \/ Close(p) \/ BeginSave(p) \/ WriteTmp(p) \/ Rename(p) \/ SaveFails(p) \/ Exit(p)
      PROVE  SaveInv'
  <2>1. ~overlapped
    BY <1>3 DEF Open, Reload, CollectEmbeddingsForVectorIndex, ResetFromEmbeddings, RebuildFails, Close,
                BeginSave, WriteTmp, Rename, SaveFails, Exit, historyVars
  <2>2. BeginSave(p) => Saving = {}
    BY DEF BeginSave
  <2>3. WriteTmp(p) \/ Rename(p) => p \in Saving
    BY DEF WriteTmp, Rename, Saving
  <2>4. \A q \in Procs : OwnTmp(q)'
    BY <1>3, <2>1, <2>2, <2>3, OwnTmpStep DEF SaveInv
  <2>5. \/ Saving' \subseteq Saving
        \/ BeginSave(p) /\ Saving' = {p}
    BY <1>3, <2>2 DEF Open, Reload, CollectEmbeddingsForVectorIndex, ResetFromEmbeddings, RebuildFails, Close,
                BeginSave, WriteTmp, Rename, SaveFails, Exit, Goto, GoneUnsaved, Gone, Saving, TypeInv
  <2>6. CASE ~(BeginSave(p) \/ WriteTmp(p) \/ Rename(p))
    <3>1. UNCHANGED dirVars
      BY <1>3, <2>6 DEF Open, Reload, CollectEmbeddingsForVectorIndex, ResetFromEmbeddings, RebuildFails, Close,
                        SaveFails, Exit
    <3> QED
      BY <2>1, <2>4, <2>5, <2>6, <3>1 DEF SaveInv, dirVars
  <2>7. CASE BeginSave(p)
    <3>1. file' = file /\ (file # None => content'[file] = content[file])
      BY <2>7, TargetIsNotFile DEF BeginSave, OpenTmp, TypeInv
    <3> QED
      BY <2>1, <2>4, <2>5, <3>1 DEF SaveInv
  <2>8. CASE WriteTmp(p)
    <3>1. fd[p] = tmp /\ fd[p] # None
      BY <2>1, <2>8 DEF WriteTmp, SaveInv, OwnTmp, TypeInv
    <3>2. file' = file /\ (file # None => content'[file] = content[file])
      BY <2>8, <3>1 DEF WriteTmp, TypeInv
    <3>3. BeginSave(p) = FALSE
      BY <2>8 DEF WriteTmp, BeginSave
    <3> QED
      BY <2>1, <2>4, <2>5, <3>2, <3>3 DEF SaveInv
  <2>9. CASE Rename(p)
    <3>1. tmp \in Inodes /\ content[tmp] = index[p]
      BY <2>1, <2>9 DEF Rename, SaveInv, OwnTmp, TypeInv
    <3>2. file' = tmp /\ content'[tmp] = content[tmp] /\ content[tmp] # Torn
      BY <2>9, <3>1, NamesDiffer DEF Rename, TypeInv
    <3>3. BeginSave(p) = FALSE
      BY <2>9 DEF Rename, BeginSave
    <3> QED
      BY <2>1, <2>4, <2>5, <3>2, <3>3 DEF SaveInv
  <2> QED
    BY <2>6, <2>7, <2>8, <2>9
<1> QED
  BY <1>1, <1>2, <1>3 DEF Next, ProcStep

\* saveCompoundUnlocked writes another name and renames it: the file that
\* loadFromCompound reads is whole, whatever processes are killed in the middle
\* of a save, as long as no two saves overlapped.
THEOREM WholeUnlessOverlapped == Spec => []TornOnlyByOverlap
<1>1. Init => SaveInv
  BY DEF Init, SaveInv, OwnTmp, Saving
<1>2. SaveInv => TornOnlyByOverlap
  BY DEF SaveInv, TornOnlyByOverlap
<1> QED
  BY <1>1, <1>2, SaveStep, TypeInvHolds, PTL DEF Spec

-----------------------------------------------------------------------------
(* A row not lost is found.                                                *)

LEMMA HandStep == TypeInv /\ HandInv /\ [Next]_vars => HandInv'
<1> SUFFICES ASSUME TypeInv, HandInv, [Next]_vars PROVE HandInv'
  OBVIOUS
<1>1. CASE UNCHANGED vars
  BY <1>1 DEF vars, HandInv
<1>2. ASSUME NEW p \in Procs,
             \/ Open(p) \/ Reload(p) \/ CollectEmbeddingsForVectorIndex(p) \/ ResetFromEmbeddings(p)
             \/ RebuildFails(p) \/ Close(p) \/ BeginSave(p) \/ WriteTmp(p) \/ Rename(p) \/ SaveFails(p) \/ Exit(p)
      PROVE  HandInv'
  <2>1. \A q \in Procs : hand'[q] \in {hand[q], {}}
    BY <1>2 DEF Open, Reload, CollectEmbeddingsForVectorIndex, ResetFromEmbeddings, RebuildFails, Close,
                BeginSave, WriteTmp, Rename, SaveFails, Exit, GoneUnsaved, Gone, TypeInv
  <2> QED
    BY <2>1 DEF HandInv
<1>3. ASSUME NEW r \in Rows, CreateRow(r) \/ DeleteRow(r) PROVE HandInv'
  BY <1>3 DEF CreateRow, DeleteRow, HandInv
<1>4. ASSUME NEW p \in Procs, NEW r \in Rows, UpdateRow(p, r) PROVE HandInv'
  BY <1>4 DEF UpdateRow, HandInv, TypeInv, InHand
<1>5. ASSUME NEW p \in Procs, NEW r \in Rows, BackfillGone(p, r) PROVE HandInv'
  BY <1>5 DEF BackfillGone, HandInv, TypeInv, InHand
<1>6. ASSUME NEW p \in Procs, NEW r \in Rows, NEW v \in 0..MaxVersion, AddKey(p, r, v)
      PROVE  HandInv'
  BY <1>6 DEF AddKey, HandInv, TypeInv
<1> QED
  BY <1>1, <1>2, <1>3, <1>4, <1>5, <1>6 DEF Next, ProcStep

LEMMA InHandIs ==
  ASSUME TypeInv, NEW p \in Procs, NEW r \in Rows
  PROVE  r \in InHand(p) <=> \E v \in 0..MaxVersion : <<r, v>> \in hand[p]
<1>1. hand[p] \subseteq Rows \X (0..MaxVersion)
  BY DEF TypeInv
<1>2. ASSUME NEW x \in hand[p] PROVE \E v \in 0..MaxVersion : x = <<x[1], v>>
  BY <1>1
<1>3. ASSUME NEW v \in 0..MaxVersion, <<r, v>> \in hand[p] PROVE r \in InHand(p)
  <2>1. <<r, v>>[1] = r
    OBVIOUS
  <2> QED
    BY <1>3, <2>1 DEF InHand
<1> QED
  BY <1>2, <1>3 DEF InHand

\* Nothing has happened to a row, nor to where the processes are.
LEMMA Untouched ==
  ASSUME TypeInv, TypeInv', NEW r \in Rows, row'[r] = row[r],
         UNCHANGED <<file, tmp, content, pc, why>>,
         \A p \in Procs :
           /\ index'[p][r] = index[p][r]
           /\ r \in changed'[p] <=> r \in changed[p]
           /\ \A v \in 0..MaxVersion : <<r, v>> \in hand'[p] <=> <<r, v>> \in hand[p]
  PROVE  /\ RowKept(r) => RowKept(r)'
         /\ \A p \in Procs : r \in InHand(p)' <=> r \in InHand(p)
         /\ \A p \in Procs : collected'[p][r] = collected[p][r] =>
              (Finds(p, collected[p], r) => Finds(p, collected[p], r)')
<1>1. \A p \in Procs : r \in InHand(p)' <=> r \in InHand(p)
  <2> TAKE p \in Procs
  <2>1. r \in InHand(p) <=> \E v \in 0..MaxVersion : <<r, v>> \in hand[p]
    BY InHandIs
  <2>2. hand'[p] \subseteq Rows \X (0..MaxVersion)
    BY DEF TypeInv
  <2>3. ASSUME NEW x \in hand'[p] PROVE \E v \in 0..MaxVersion : x = <<x[1], v>>
    BY <2>2
  <2>4. ASSUME NEW v \in 0..MaxVersion, <<r, v>> \in hand'[p] PROVE r \in InHand(p)'
    <3>1. <<r, v>>[1] = r
      OBVIOUS
    <3> QED
      BY <2>4, <3>1 DEF InHand
  <2>5. r \in InHand(p)' <=> \E v \in 0..MaxVersion : <<r, v>> \in hand'[p]
    BY <2>3, <2>4 DEF InHand
  <2> QED
    BY <2>1, <2>5
<1>2. \A p \in Procs : <<r, row[r]>> \in hand[p] <=> <<r, row[r]>> \in hand'[p]
  <2> TAKE p \in Procs
  <2>1. <<r, row[r]>> \in hand[p] \/ <<r, row[r]>> \in hand'[p] => row[r] \in 0..MaxVersion
    BY DEF TypeInv
  <2> QED
    BY <2>1
<1>3. UNCHANGED <<Up, Saving, Readable>> /\ \A p \in Procs : Rebuilds(p)' <=> Rebuilds(p)
  BY DEF Up, Saving, Readable, Rebuilds
<1>4. \A p \in Procs : Finds(p, index[p], r) => Finds(p, index[p], r)'
  BY <1>1, <1>2 DEF Finds
<1>5. \A p \in Procs : collected'[p][r] = collected[p][r] =>
        (Finds(p, collected[p], r) => Finds(p, collected[p], r)')
  BY <1>1, <1>2 DEF Finds
<1>6. Up \subseteq Procs /\ Saving \subseteq Procs
  BY DEF Up, Saving
<1> QED
  BY <1>1, <1>3, <1>4, <1>5, <1>6 DEF RowKept

\* A statement on a row, or a key that is added.
LEMMA RowLost ==
  ASSUME TypeInv, TypeInv', HandInv, LostInv, ReadInv, NEW r \in Rows,
         \/ CreateRow(r) \/ DeleteRow(r)
         \/ \E p \in Procs : UpdateRow(p, r) \/ BackfillGone(p, r)
         \/ \E p \in Procs, v \in 0..MaxVersion : AddKey(p, r, v)
  PROVE  LostInv' /\ ReadInv'
<1>1. UNCHANGED <<file, tmp, content, pc, why, collected>>
  BY RowOwnTmp DEF CreateRow, DeleteRow, UpdateRow, BackfillGone, AddKey
<1>2. UNCHANGED <<Up, Saving, Readable>> /\ \A p \in Procs : Rebuilds(p)' <=> Rebuilds(p)
  BY <1>1 DEF Up, Saving, Readable, Rebuilds
<1>3. \A s \in Rows : s # r =>
        /\ row'[s] = row[s]
        /\ s \in lost' <=> s \in lost
        /\ \A p \in Procs :
             /\ index'[p][s] = index[p][s]
             /\ s \in changed'[p] <=> s \in changed[p]
             /\ s \in late'[p] <=> s \in late[p]
             /\ \A v \in 0..MaxVersion : <<s, v>> \in hand'[p] <=> <<s, v>> \in hand[p]
  <2> SUFFICES ASSUME NEW s \in Rows, s # r
               PROVE  /\ row'[s] = row[s]
                      /\ s \in lost' <=> s \in lost
                      /\ \A p \in Procs :
                           /\ index'[p][s] = index[p][s]
                           /\ s \in changed'[p] <=> s \in changed[p]
                           /\ s \in late'[p] <=> s \in late[p]
                           /\ \A v \in 0..MaxVersion : <<s, v>> \in hand'[p] <=> <<s, v>> \in hand[p]
    OBVIOUS
  <2>1. /\ row \in [Rows -> {Absent, Deleted} \cup 0..MaxVersion]
        /\ late \in [Procs -> SUBSET Rows] /\ changed \in [Procs -> SUBSET Rows]
        /\ hand \in [Procs -> SUBSET (Rows \X (0..MaxVersion))]
    BY DEF TypeInv
  <2>2. CASE CreateRow(r)
    BY <2>1, <2>2 DEF CreateRow, historyVars
  <2>3. CASE DeleteRow(r)
    <3>1. UNCHANGED <<changed, late, lost, hand>> /\ row' = [row EXCEPT ![r] = Deleted]
      BY <2>3 DEF DeleteRow, historyVars
    <3>2. \A p \in Procs : index'[p][s] = index[p][s]
      BY <2>3, OneKey DEF DeleteRow, Up
    <3> QED
      BY <2>1, <3>1, <3>2
  <2>4. ASSUME NEW q \in Procs, UpdateRow(q, r)
        PROVE  /\ row'[s] = row[s] /\ (s \in lost' <=> s \in lost) /\ index' = index
               /\ \A p \in Procs :
                    /\ s \in changed'[p] <=> s \in changed[p]
                    /\ s \in late'[p] <=> s \in late[p]
                    /\ \A v \in 0..MaxVersion : <<s, v>> \in hand'[p] <=> <<s, v>> \in hand[p]
    BY <2>1, <2>4 DEF UpdateRow
  <2>5. ASSUME NEW q \in Procs, BackfillGone(q, r)
        PROVE  /\ UNCHANGED <<row, lost, index, changed, late>>
               /\ \A p \in Procs, v \in 0..MaxVersion : <<s, v>> \in hand'[p] <=> <<s, v>> \in hand[p]
    BY <2>1, <2>5 DEF BackfillGone, historyVars
  <2>6. ASSUME NEW q \in Procs, NEW w \in 0..MaxVersion, AddKey(q, r, w)
        PROVE  /\ UNCHANGED <<row, changed>> /\ (s \in lost' <=> s \in lost)
               /\ \A p \in Procs :
                    /\ index'[p][s] = index[p][s]
                    /\ s \in late'[p] <=> s \in late[p]
                    /\ \A v \in 0..MaxVersion : <<s, v>> \in hand'[p] <=> <<s, v>> \in hand[p]
    <3>1. \/ index' = [index EXCEPT ![q][r] = w]
          \/ index' = [index EXCEPT ![q][r] = Absent]
      BY <2>6 DEF AddKey, Add, TypeInv
    <3>2. \A p \in Procs : index'[p][s] = index[p][s]
      BY <3>1, OneKey
    <3>3. \A p \in Procs, v \in 0..MaxVersion : <<s, v>> \in hand'[p] <=> <<s, v>> \in hand[p]
      BY <2>1, <2>6 DEF AddKey
    <3> QED
      BY <2>1, <2>6, <3>2, <3>3 DEF AddKey
  <2> QED
    BY <2>2, <2>3, <2>4, <2>5, <2>6
<1>4. ASSUME r \in Embedded' \ lost' => RowKept(r)',
             \A p \in Procs : r \in Embedded' /\ pc[p] = "reset" /\ r \notin late'[p] =>
                                Finds(p, collected[p], r)',
             \A p \in Procs : r \in InHand(p)' /\ row'[r] # Deleted => r \in changed'[p]
      PROVE  LostInv' /\ ReadInv'
  <2>1. ASSUME NEW s \in Rows, s # r
        PROVE  /\ s \in Embedded' \ lost' => RowKept(s)'
               /\ \A p \in Procs : s \in Embedded' /\ pc'[p] = "reset" /\ s \notin late'[p] =>
                                     Finds(p, collected[p], s)'
               /\ \A p \in Procs : s \in InHand(p)' /\ row'[s] # Deleted => s \in changed'[p]
    <3>1. s \in Embedded' <=> s \in Embedded
      BY <1>3, <2>1 DEF Embedded
    <3>2. /\ RowKept(s) => RowKept(s)'
          /\ \A p \in Procs : s \in InHand(p)' <=> s \in InHand(p)
          /\ \A p \in Procs : Finds(p, collected[p], s) => Finds(p, collected[p], s)'
      BY <1>1, <1>3, <2>1, Untouched
    <3> QED
      BY <1>1, <1>3, <2>1, <3>1, <3>2 DEF LostInv, ReadInv
  <2>2. \A s \in Embedded' : s \in Rows
    BY DEF Embedded
  <2> QED
    BY <1>1, <1>4, <2>1, <2>2 DEF LostInv, ReadInv
<1>5. CASE CreateRow(r) \/ DeleteRow(r)
  <2>1. r \notin Embedded' /\ hand' = hand /\ changed' = changed
    BY <1>5 DEF CreateRow, DeleteRow, Embedded, historyVars, TypeInv
  <2>2. CASE DeleteRow(r)
    BY <1>4, <2>1, <2>2 DEF DeleteRow, TypeInv
  <2>3. CASE CreateRow(r)
    <3>1. row[r] # Deleted
      BY <2>3, NamesDiffer DEF CreateRow
    <3> QED
      BY <1>4, <2>1, <3>1 DEF ReadInv, InHand
  <2> QED
    BY <1>5, <2>2, <2>3
<1>6. ASSUME NEW p \in Procs, BackfillGone(p, r) PROVE LostInv' /\ ReadInv'
  BY <1>4, <1>6 DEF BackfillGone, Embedded
<1>7. ASSUME NEW p \in Procs, UpdateRow(p, r) PROVE LostInv' /\ ReadInv'
  <2>1. /\ hand' = [hand EXCEPT ![p] = @ \cup {<<r, row'[r]>>}]
        /\ changed' = [changed EXCEPT ![p] = @ \cup {r}]
        /\ \A q \in Procs : q # p /\ pc[q] = "reset" => r \in late'[q]
        /\ r \notin lost' => Up \subseteq {p}
        /\ row[r] # Deleted
    BY <1>7 DEF UpdateRow, Alone, TypeInv
  <2>2. p \in Up
    BY <1>7 DEF UpdateRow, Serving, TypeInv, Up
  <2>3. <<r, row'[r]>> \in hand'[p] /\ r \in changed'[p]
    BY <2>1 DEF TypeInv
  <2>4. r \in InHand(p)'
    BY <2>3 DEF InHand
  <2>5. \A q \in Procs : (r \in InHand(q))' => r \in changed'[q]
    <3>1. \A q \in Procs : q # p => hand'[q] = hand[q] /\ changed'[q] = changed[q]
      BY <2>1 DEF TypeInv
    <3> QED
      BY <2>1, <2>3, <3>1 DEF ReadInv, InHand
  <2>6. \A q \in Procs : r \in Embedded' /\ pc[q] = "reset" /\ r \notin late'[q] =>
                           Finds(q, collected[q], r)'
    BY <2>1, <2>3 DEF Finds
  <2>7. ASSUME r \notin lost' PROVE RowKept(r)'
    <3>1. Up' = {p}
      BY <1>2, <2>1, <2>2, <2>7
    <3>2. Finds(p, index[p], r)'
      BY <2>3 DEF Finds
    <3>3. Saving' \subseteq Up'
      BY DEF Saving, Up
    <3> QED
      BY <2>3, <2>4, <3>1, <3>2, <3>3 DEF RowKept
  <2> QED
    BY <1>4, <2>5, <2>6, <2>7
<1>8. ASSUME NEW p \in Procs, NEW v \in 0..MaxVersion, AddKey(p, r, v) PROVE LostInv' /\ ReadInv'
  <2>1. /\ <<r, v>> \in hand[p] /\ hand' = [hand EXCEPT ![p] = @ \ {<<r, v>>}]
        /\ UNCHANGED <<row, changed>>
        /\ r \notin lost' => index' = [index EXCEPT ![p][r] = v] /\ r \notin lost
        /\ pc[p] \notin {"down", "write", "rename"} /\ ~Rebuilds(p)
    BY <1>8 DEF AddKey, Add, Ready, Serving, TypeInv, Rebuilds
  <2>2. hand'[p] = hand[p] \ {<<r, v>>} /\ \A q \in Procs : q # p => hand'[q] = hand[q]
    BY <2>1 DEF TypeInv
  <2>3. r \notin InHand(p)'
    BY <2>1, <2>2 DEF InHand, HandInv
  <2>4. \A q \in Procs : q # p => (r \in InHand(q)' <=> r \in InHand(q))
    BY <2>2 DEF InHand
  <2>5. \A keys : Finds(p, keys, r) => v = row[r]
    <3>1. r \in InHand(p)
      BY <2>1 DEF InHand
    <3> QED
      BY <2>1, <3>1 DEF Finds, HandInv
  <2>6. \A q \in Procs : r \in Embedded' /\ pc[q] = "reset" /\ r \notin late'[q] =>
                           Finds(q, collected[q], r)'
    <3> SUFFICES ASSUME NEW q \in Procs, r \in Embedded', pc[q] = "reset", r \notin late'[q]
                 PROVE  Finds(q, collected[q], r)'
      OBVIOUS
    <3>1. r \in Embedded /\ r \notin late[q] /\ (q = p => collected[p][r] = v)
      BY <1>8 DEF AddKey, Embedded, TypeInv
    <3>2. Finds(q, collected[q], r)
      BY <3>1 DEF ReadInv
    <3>3. CASE q = p
      BY <1>1, <2>1, <2>3, <2>5, <3>1, <3>2, <3>3 DEF Finds
    <3>4. CASE q # p
      BY <1>1, <2>1, <2>2, <2>4, <3>2, <3>4 DEF Finds
    <3> QED
      BY <3>3, <3>4
  <2>7. \A q \in Procs : r \in InHand(q)' /\ row'[r] # Deleted => r \in changed'[q]
    BY <2>1, <2>3, <2>4 DEF ReadInv
  <2>8. ASSUME r \in Embedded' \ lost' PROVE RowKept(r)'
    <3>1. RowKept(r) /\ p \in Up
      BY <2>1, <2>8 DEF LostInv, Embedded, Up
    <3>2. index' = [index EXCEPT ![p][r] = v]
      BY <2>1, <2>8
    <3>3. \A q \in Procs : index'[q][r] = IF q = p THEN v ELSE index[q][r]
      <4>1. index'[p] = [index[p] EXCEPT ![r] = v] /\ \A q \in Procs : q # p => index'[q] = index[q]
        BY <3>2 DEF TypeInv
      <4>2. index[p] \in Keys
        BY DEF TypeInv
      <4> QED
        BY <4>1, <4>2 DEF Keys
    <3>4. v = row[r]
      BY <2>1, <2>5, <3>1 DEF RowKept
    <3>5. Finds(p, index[p], r)'
      BY <2>1, <2>3, <3>3, <3>4 DEF Finds
    <3>6. \A q \in Up : q # p /\ Finds(q, index[q], r) => Finds(q, index[q], r)'
      BY <2>1, <2>2, <2>4, <3>3 DEF Finds, Up
    <3>7. \A q \in Saving : q \in Procs /\ q # p
      BY <2>1 DEF Saving
    <3>8. \A q \in Up' : Rebuilds(q)' \/ Finds(q, index[q], r)'
      <4>1. \A q \in Up : Rebuilds(q) \/ Finds(q, index[q], r)
        BY <3>1 DEF RowKept
      <4>2. Up \subseteq Procs
        BY DEF Up
      <4> QED
        BY <1>2, <3>5, <3>6, <4>1, <4>2
    <3>9. \A q \in Saving : r \in InHand(q)' <=> r \in InHand(q)
      BY <2>4, <3>7
    <3> QED
      BY <1>1, <1>2, <2>1, <3>1, <3>8, <3>9 DEF RowKept
  <2> QED
    BY <1>4, <2>6, <2>7, <2>8
<1> QED
  BY <1>5, <1>6, <1>7, <1>8

\* A process ends without a save: what it had changed is lost.
LEMMA GoneLost ==
  ASSUME TypeInv, LostInv, ReadInv, NEW p \in Procs, GoneUnsaved(p), UNCHANGED <<row, dirVars>>
  PROVE  LostInv' /\ ReadInv'
<1>1. /\ pc' = [pc EXCEPT ![p] = "down"] /\ why' = [why EXCEPT ![p] = "open"]
      /\ hand' = [hand EXCEPT ![p] = {}] /\ changed' = [changed EXCEPT ![p] = {}]
      /\ lost' = lost \cup changed[p] /\ Embedded' = Embedded
      /\ \A q \in Procs : q # p =>
           /\ UNCHANGED <<pc[q], why[q], hand[q], changed[q], index[q], collected[q], late[q]>>
  BY DEF GoneUnsaved, Gone, TypeInv, Embedded
<1>2. pc'[p] = "down" /\ InHand(p)' = {}
  BY <1>1 DEF TypeInv, InHand
<1>3. \A q \in Procs : q # p =>
        /\ InHand(q)' = InHand(q) /\ (Rebuilds(q)' <=> Rebuilds(q))
        /\ \A r \in Rows : /\ Finds(q, index[q], r)' <=> Finds(q, index[q], r)
                           /\ Finds(q, collected[q], r)' <=> Finds(q, collected[q], r)
  BY <1>1 DEF InHand, Rebuilds, Finds
<1>4. Up' = Up \ {p} /\ Saving' = Saving \ {p} /\ Up \subseteq Procs /\ Saving \subseteq Procs
  BY <1>1, <1>2 DEF Up, Saving
<1>5. ASSUME NEW r \in Embedded' \ lost' PROVE RowKept(r)'
  <2>1. RowKept(r) /\ r \notin changed[p] /\ r \in Rows /\ row[r] # Deleted
    BY <1>1, <1>5 DEF LostInv, Embedded
  <2>2. r \notin InHand(p)
    BY <2>1 DEF ReadInv
  <2>3. \A q \in Up' : Rebuilds(q)' \/ Finds(q, index[q], r)'
    BY <1>3, <1>4, <2>1 DEF RowKept
  <2>4. Readable' => content'[file'][r] = row'[r] \/ \E q \in Up' : r \in changed'[q]
    BY <1>1, <1>4, <2>1 DEF RowKept, Readable, dirVars
  <2>5. \A q, s \in Up' : r \in changed'[q] => s = q
    BY <1>1, <1>4, <2>1 DEF RowKept
  <2>6. Saving' # {} /\ tmp' # None /\ content'[tmp'] # Torn =>
          content'[tmp'][r] = row'[r] \/ \E q \in Saving' : r \in InHand(q)'
    BY <1>3, <1>4, <2>1, <2>2 DEF RowKept, dirVars
  <2> QED
    BY <2>3, <2>4, <2>5, <2>6 DEF RowKept
<1>6. ReadInv'
  <2> SUFFICES ASSUME NEW q \in Procs
               PROVE  /\ \A r \in Embedded' : pc'[q] = "reset" /\ r \notin late'[q] =>
                                               Finds(q, collected[q], r)'
                      /\ \A r \in Rows : r \in InHand(q)' /\ row'[r] # Deleted => r \in changed'[q]
    BY DEF ReadInv
  <2>1. CASE q = p
    BY <1>2, <2>1
  <2>2. CASE q # p
    BY <1>1, <1>3, <2>2 DEF ReadInv, Embedded
  <2> QED
    BY <2>1, <2>2
<1> QED
  BY <1>5, <1>6 DEF LostInv

\* A process opens: what others have changed is lost to it.
LEMMA OpenLost ==
  ASSUME TypeInv, LostInv, ReadInv, NEW p \in Procs, Open(p)
  PROVE  LostInv'
<1>1. /\ UNCHANGED <<row, dirVars, hand, changed>>
      /\ Embedded' = Embedded
      /\ hand[p] = {} /\ changed[p] = {} /\ pc[p] = "down"
      /\ \A q \in Procs : q # p => UNCHANGED <<pc[q], why[q], index[q]>>
  BY DEF Open, Goto, TypeInv, Serving, Embedded
<1>2. IF Readable THEN index'[p] = content[file] /\ pc'[p] = "run"
      ELSE Rebuilds(p)' /\ pc'[p] = "collect"
  BY DEF Open, Goto, TypeInv, Rebuilds
<1>3. Up' = Up \cup {p} /\ Saving' = Saving /\ Up \subseteq Procs /\ p \notin Up
  BY <1>1, <1>2 DEF Up, Saving
<1>4. SUFFICES ASSUME NEW r \in Embedded' \ lost' PROVE RowKept(r)'
  BY DEF LostInv
<1>5. r \in Embedded \ lost /\ \A q \in Up : r \notin changed[q]
  BY <1>1 DEF Open
<1>6. RowKept(r)
  BY <1>5 DEF LostInv
<1>7. Readable => content[file][r] = row[r]
  BY <1>5, <1>6 DEF RowKept
<1>8. Readable => Finds(p, index[p], r)'
  BY <1>1, <1>2, <1>7 DEF Finds, InHand
<1>9. \A q \in Up : Rebuilds(q)' \/ Finds(q, index[q], r)'
  BY <1>1, <1>3, <1>6 DEF RowKept, Finds, InHand, Rebuilds
<1>10. \A q \in Up' : Rebuilds(q)' \/ Finds(q, index[q], r)'
  BY <1>2, <1>3, <1>8, <1>9
<1>11. \A q \in Up' : r \notin changed'[q]
  BY <1>1, <1>3, <1>5
<1>12. \A q \in Procs : InHand(q)' = InHand(q)
  BY <1>1 DEF InHand
<1> QED
  BY <1>1, <1>3, <1>6, <1>7, <1>10, <1>11, <1>12 DEF RowKept, Readable, dirVars, Saving

\* Of a step by which a process neither begins nor ends, saves nor touches a row: a
\* row is kept if the process still finds it, and what it has read is found.
LEMMA QuietLost ==
  ASSUME TypeInv, LostInv, ReadInv, NEW p \in Procs,
         UNCHANGED <<row, dirVars, hand>>,
         p \in Up, Up' = Up, p \notin Saving, Saving' = Saving,
         \A q \in Procs : q # p =>
           UNCHANGED <<pc[q], why[q], index[q], collected[q], late[q], changed[q]>>,
         changed[p] \subseteq changed'[p], changed'[p] \subseteq changed[p] \cup lost,
         Alone(p) \/ lost \subseteq lost',
         lost \ lost' \subseteq changed'[p],
         \A r \in Embedded \ lost' : Rebuilds(p)' \/ Finds(p, index[p], r)',
         \A r \in Embedded : pc'[p] = "reset" /\ r \notin late'[p] => Finds(p, collected[p], r)'
  PROVE  LostInv' /\ ReadInv'
<1>1. \A q \in Procs : InHand(q)' = InHand(q)
  BY DEF InHand
<1>2. \A q \in Procs : q # p =>
        /\ Rebuilds(q)' <=> Rebuilds(q)
        /\ \A r \in Rows : /\ Finds(q, index[q], r)' <=> Finds(q, index[q], r)
                           /\ Finds(q, collected[q], r)' <=> Finds(q, collected[q], r)
  BY DEF InHand, Rebuilds, Finds
<1>3. Embedded' = Embedded /\ Embedded \subseteq Rows /\ Up \subseteq Procs /\ Saving \subseteq Up
  BY DEF Embedded, Up, Saving
<1>4. ASSUME NEW r \in Embedded' \ lost' PROVE RowKept(r)'
  <2>1. CASE r \in lost
    <3>1. Up = {p} /\ Saving = {}
      BY <1>3, <1>4, <2>1 DEF Alone
    <3> QED
      BY <1>3, <1>4, <2>1, <3>1 DEF RowKept
  <2>2. CASE r \notin lost
    <3>1. RowKept(r)
      BY <1>3, <1>4, <2>2 DEF LostInv
    <3>2. \A q \in Up' : Rebuilds(q)' \/ Finds(q, index[q], r)'
      BY <1>2, <1>3, <1>4, <3>1 DEF RowKept
    <3>3. \A q \in Procs : r \in changed'[q] <=> r \in changed[q]
      BY <2>2
    <3> QED
      BY <1>1, <1>3, <3>1, <3>2, <3>3 DEF RowKept, Readable, dirVars
  <2> QED
    BY <2>1, <2>2
<1>5. ReadInv'
  <2> SUFFICES ASSUME NEW q \in Procs
               PROVE  /\ \A r \in Embedded' : pc'[q] = "reset" /\ r \notin late'[q] =>
                                               Finds(q, collected[q], r)'
                      /\ \A r \in Rows : r \in InHand(q)' /\ row'[r] # Deleted => r \in changed'[q]
    BY DEF ReadInv
  <2>1. CASE q = p
    BY <1>1, <1>3, <2>1 DEF ReadInv
  <2>2. CASE q # p
    BY <1>1, <1>2, <1>3, <2>2 DEF ReadInv
  <2> QED
    BY <2>1, <2>2
<1> QED
  BY <1>4, <1>5 DEF LostInv

\* Rebuilds, and what only moves on.
LEMMA RebuildLost ==
  ASSUME TypeInv, LostInv, ReadInv, NEW p \in Procs,
         \/ Reload(p) \/ Close(p) \/ CollectEmbeddingsForVectorIndex(p)
         \/ ResetFromEmbeddings(p) \/ RebuildFails(p)
  PROVE  LostInv' /\ ReadInv'
<1>1. \A r \in Embedded \ lost : p \in Up => Rebuilds(p) \/ Finds(p, index[p], r)
  BY DEF LostInv, RowKept
<1>2. CASE Reload(p) \/ Close(p)
  <2>1. /\ UNCHANGED <<row, dirVars, hand, index, collected, late, changed, lost>>
        /\ pc[p] = "run" /\ pc'[p] \in {"collect", "save"} /\ why'[p] \in {"reload", "close"}
        /\ \A q \in Procs : q # p => UNCHANGED <<pc[q], why[q]>>
    BY <1>2 DEF Reload, Close, Goto, TypeInv, historyVars
  <2>2. p \in Up /\ Up' = Up /\ p \notin Saving /\ Saving' = Saving /\ ~Rebuilds(p) /\ ~Rebuilds(p)'
    BY <2>1 DEF Up, Saving, Rebuilds
  <2>3. \A r \in Embedded \ lost' : Finds(p, index[p], r)'
    BY <1>1, <2>1, <2>2 DEF Finds, InHand
  <2> QED
    BY <2>1, <2>2, <2>3, QuietLost
<1>3. CASE CollectEmbeddingsForVectorIndex(p)
  <2>1. /\ UNCHANGED <<row, dirVars, hand, index, why, changed, lost>>
        /\ pc[p] = "collect" /\ pc'[p] = "reset"
        /\ \A q \in Procs : q # p => UNCHANGED <<pc[q], collected[q], late[q]>>
        /\ collected'[p] = [r \in Rows |-> IF r \in Embedded THEN row[r] ELSE Absent]
        /\ late'[p] = {r \in InHand(p) : <<r, row[r]>> \notin hand[p]}
    BY <1>3 DEF CollectEmbeddingsForVectorIndex, TypeInv
  <2>2. /\ p \in Up /\ Up' = Up /\ p \notin Saving /\ Saving' = Saving
        /\ Rebuilds(p)' <=> Rebuilds(p)
    BY <2>1 DEF Up, Saving, Rebuilds
  <2>3. \A r \in Embedded \ lost' : Rebuilds(p)' \/ Finds(p, index[p], r)'
    BY <1>1, <2>1, <2>2 DEF Finds, InHand
  <2>4. \A r \in Embedded : r \notin late'[p] => Finds(p, collected[p], r)'
    BY <2>1 DEF Finds, InHand, Embedded
  <2> QED
    BY <2>1, <2>2, <2>3, <2>4, QuietLost
<1>4. CASE ResetFromEmbeddings(p)
  <2>1. /\ UNCHANGED <<row, dirVars, hand, why>>
        /\ pc[p] = "reset" /\ pc'[p] = "save"
        /\ \A q \in Procs : q # p => UNCHANGED <<pc[q], index[q], collected[q], late[q], changed[q]>>
        /\ index'[p] = collected[p] /\ changed'[p] = changed[p] \cup lost
        /\ lost' = (IF Alone(p) THEN {} ELSE lost) \cup late[p]
    BY <1>4 DEF ResetFromEmbeddings, TypeInv
  <2>2. p \in Up /\ Up' = Up /\ p \notin Saving /\ Saving' = Saving
    BY <2>1 DEF Up, Saving
  <2>3. \A r \in Embedded \ lost' : Finds(p, index[p], r)'
    <3>1. \A r \in Embedded \ lost' : Finds(p, collected[p], r)
      BY <2>1 DEF ReadInv
    <3> QED
      BY <2>1, <3>1 DEF Finds, InHand
  <2> QED
    BY <2>1, <2>2, <2>3, QuietLost
<1>5. CASE RebuildFails(p) /\ why[p] = "open"
  BY <1>5, GoneLost DEF RebuildFails
<1>6. CASE RebuildFails(p) /\ why[p] # "open"
  <2>1. /\ UNCHANGED <<row, dirVars, hand, changed>>
        /\ pc[p] \in {"collect", "reset"} /\ pc'[p] = "run" /\ why'[p] = "close"
        /\ \A q \in Procs : q # p => UNCHANGED <<pc[q], why[q], index[q], collected[q], late[q]>>
        /\ lost \subseteq lost'
    BY <1>6 DEF RebuildFails, Goto, TypeInv
  <2>2. /\ p \in Up /\ Up' = Up /\ p \notin Saving /\ Saving' = Saving
        /\ ~Rebuilds(p) /\ ~Rebuilds(p)'
    BY <1>6, <2>1 DEF Up, Saving, Rebuilds
  <2>3. CASE UNCHANGED <<index, lost>>
    <3>1. \A r \in Embedded \ lost' : Finds(p, index[p], r)'
      BY <1>1, <2>1, <2>2, <2>3 DEF Finds, InHand
    <3> QED
      BY <2>1, <2>2, <3>1, QuietLost
  <2>4. ASSUME pc[p] = "reset", NEW imported \in SUBSET Rows,
               index' = [index EXCEPT ![p] =
                 [r \in Rows |-> IF r \in imported THEN collected[p][r] ELSE Absent]],
               lost' = lost \cup late[p] \cup (Rows \ imported)
        PROVE  LostInv' /\ ReadInv'
    <3>1. \A r \in Embedded \ lost' :
            /\ r \in imported /\ r \notin late[p] /\ index'[p][r] = collected[p][r]
            /\ Finds(p, collected[p], r)
      BY <2>4 DEF TypeInv, ReadInv, Embedded
    <3>2. \A r \in Embedded \ lost' : Finds(p, index[p], r)'
      BY <2>1, <3>1 DEF Finds, InHand
    <3> QED
      BY <2>1, <2>2, <3>2, QuietLost
  <2> QED
    BY <1>6, <2>3, <2>4 DEF RebuildFails
<1> QED
  BY <1>2, <1>3, <1>4, <1>5, <1>6

\* A save: what it writes and renames, the process finds, but for keys in hand.
LEMMA SaveLost ==
  ASSUME TypeInv, LostInv, ReadInv, NEW p \in Procs,
         BeginSave(p) \/ WriteTmp(p) \/ Rename(p) \/ SaveFails(p)
  PROVE  LostInv' /\ ReadInv'
<1>1. Up \subseteq Procs /\ Saving \subseteq Up
  BY DEF Up, Saving
<1>2. CASE BeginSave(p)
  <2>1. /\ UNCHANGED <<row, file, why, index, collected, hand, changed, late, lost>>
        /\ pc[p] = "save" /\ pc' = [pc EXCEPT ![p] = "write"]
        /\ tmp' = Target /\ content' = [content EXCEPT ![Target] = Torn]
    BY <1>2 DEF BeginSave, OpenTmp
  <2>2. /\ content'[tmp'] = Torn
        /\ Readable' => Readable /\ content'[file'] = content[file]
    BY <2>1, TargetIsNotFile DEF TypeInv, Readable
  <2>3. /\ Up' = Up /\ Embedded' = Embedded
        /\ \A q \in Procs : InHand(q)' = InHand(q) /\ (Rebuilds(q)' <=> Rebuilds(q))
    BY <2>1 DEF Up, Embedded, InHand, Rebuilds, TypeInv
  <2>4. LostInv'
    BY <1>1, <2>1, <2>2, <2>3 DEF LostInv, RowKept, Finds
  <2>5. ReadInv'
    BY <2>1, <2>3 DEF ReadInv, Finds, TypeInv
  <2> QED
    BY <2>4, <2>5
<1>3. CASE WriteTmp(p)
  <2>1. /\ UNCHANGED <<row, file, tmp, why, index, collected, hand, changed, late, lost>>
        /\ pc[p] = "write" /\ pc' = [pc EXCEPT ![p] = "rename"]
        /\ \A i \in Inodes : content'[i] = content[i] \/ content'[i] \in {index[p], Torn}
    BY <1>3 DEF WriteTmp, TypeInv, historyVars
  <2>2. /\ Up' = Up /\ Saving' = Saving /\ Embedded' = Embedded /\ p \in Saving
        /\ \A q \in Procs : InHand(q)' = InHand(q) /\ (Rebuilds(q)' <=> Rebuilds(q))
    BY <2>1 DEF Up, Saving, Embedded, InHand, Rebuilds, TypeInv
  <2>3. ASSUME NEW r \in Embedded' \ lost' PROVE RowKept(r)'
    <3>1. RowKept(r) /\ r \in Rows /\ row[r] # Deleted
      BY <2>1, <2>2, <2>3 DEF LostInv, Embedded
    <3>2. index[p][r] = row[r] \/ r \in InHand(p)
      <4>1. <<r, row[r]>> \in hand[p] => r \in InHand(p)
        <5>1. <<r, row[r]>>[1] = r
          OBVIOUS
        <5> QED
          BY <5>1 DEF InHand
      <4>2. ~Rebuilds(p) /\ p \in Up
        BY <1>1, <2>1, <2>2 DEF Rebuilds
      <4> QED
        BY <3>1, <4>1, <4>2 DEF RowKept, Finds
    <3>3. r \in InHand(p) => r \in changed[p]
      BY <3>1 DEF ReadInv
    <3>4. \A q \in Up' : Rebuilds(q)' \/ Finds(q, index[q], r)'
      BY <1>1, <2>1, <2>2, <3>1 DEF RowKept, Finds
    <3>5. Readable' => content'[file'][r] = row'[r] \/ \E q \in Up' : r \in changed'[q]
      <4>1. Readable' => file \in Inodes
        BY <2>1 DEF Readable, TypeInv
      <4> QED
        BY <1>1, <2>1, <2>2, <3>1, <3>2, <3>3, <4>1 DEF RowKept, Readable
    <3>6. Saving' # {} /\ tmp' # None /\ content'[tmp'] # Torn =>
            content'[tmp'][r] = row'[r] \/ \E q \in Saving' : r \in InHand(q)'
      <4>1. tmp # None => tmp \in Inodes
        BY DEF TypeInv
      <4>2. Saving \subseteq Procs
        BY <1>1
      <4> QED
        BY <2>1, <2>2, <3>1, <3>2, <4>1, <4>2 DEF RowKept
    <3> QED
      BY <2>1, <2>2, <3>1, <3>4, <3>5, <3>6 DEF RowKept
  <2>4. ReadInv'
    BY <2>1, <2>2 DEF ReadInv, Finds, TypeInv
  <2> QED
    BY <2>2, <2>3, <2>4 DEF LostInv
<1>4. CASE Rename(p)
  <2>1. /\ UNCHANGED <<row, lost>> /\ file' = tmp /\ tmp' = None
        /\ tmp # None /\ tmp \in Inodes /\ content'[tmp] = content[tmp]
        /\ pc[p] = "rename" /\ p \in Saving /\ p \in Up /\ ~Rebuilds(p)
        /\ pc'[p] \in {"down", "run"}
        /\ \A q \in Procs : q # p =>
             UNCHANGED <<pc[q], why[q], index[q], collected[q], hand[q], changed[q], late[q]>>
    BY <1>4 DEF Rename, Gone, Goto, TypeInv, Saving, Up, Rebuilds
  <2>2. IF why[p] = "close"
        THEN hand[p] = {} /\ hand'[p] = {} /\ changed'[p] = {} /\ pc'[p] = "down"
        ELSE hand'[p] = hand[p] /\ index'[p] = index[p] /\ changed'[p] = InHand(p) /\ pc'[p] = "run"
    BY <1>4 DEF Rename, Gone, Goto, TypeInv, Serving
  <2>3. /\ Embedded' = Embedded /\ Up' = (IF why[p] = "close" THEN Up \ {p} ELSE Up)
        /\ ~Rebuilds(p)'
    BY <2>1, <2>2 DEF Embedded, Up, Rebuilds
  <2>4. \A q \in Procs : q # p =>
          /\ InHand(q)' = InHand(q) /\ (Rebuilds(q)' <=> Rebuilds(q))
          /\ \A r \in Rows : /\ Finds(q, index[q], r)' <=> Finds(q, index[q], r)
                             /\ Finds(q, collected[q], r)' <=> Finds(q, collected[q], r)
    BY <2>1 DEF InHand, Rebuilds, Finds
  <2>5. InHand(p)' = InHand(p)
    BY <2>2 DEF InHand
  <2>6. ASSUME NEW r \in Embedded' \ lost' PROVE RowKept(r)'
    <3>1. RowKept(r) /\ r \in Rows /\ row[r] # Deleted
      BY <2>1, <2>3, <2>6 DEF LostInv, Embedded
    <3>2. \A q \in Procs : r \in InHand(q) => r \in changed[q]
      BY <3>1 DEF ReadInv
    <3>3. \A q \in Up' : Rebuilds(q)' \/ Finds(q, index[q], r)'
      <4>1. why[p] # "close" => Finds(p, index[p], r)'
        BY <2>1, <2>2, <2>5, <3>1 DEF RowKept, Finds
      <4> QED
        BY <1>1, <2>3, <2>4, <3>1, <4>1 DEF RowKept
    <3>4. \A q \in Procs : r \in changed'[q] => r \in changed[q]
      BY <2>1, <2>2, <3>2
    <3>5. \A q \in Procs : r \in InHand(q) => r \in changed'[q] /\ ~(q = p /\ why[p] = "close")
      BY <2>1, <2>2, <3>2 DEF InHand
    <3>6. Readable' => content'[file'][r] = row'[r] \/ \E q \in Up' : r \in changed'[q]
      BY <1>1, <2>1, <2>3, <3>1, <3>5 DEF RowKept, Readable
    <3>7. \A q, s \in Up' : r \in changed'[q] => s = q
      BY <1>1, <2>3, <3>1, <3>4 DEF RowKept
    <3> QED
      BY <2>1, <3>3, <3>6, <3>7 DEF RowKept
  <2>7. ReadInv'
    <3>1. \A q \in Procs, r \in Embedded' : pc'[q] = "reset" /\ r \notin late'[q] =>
                                              Finds(q, collected[q], r)'
      BY <2>1, <2>3, <2>4 DEF ReadInv, Embedded
    <3>2. \A q \in Procs, r \in Rows : r \in InHand(q)' /\ row'[r] # Deleted => r \in changed'[q]
      BY <2>1, <2>2, <2>4, <2>5 DEF ReadInv, InHand
    <3> QED
      BY <3>1, <3>2 DEF ReadInv
  <2> QED
    BY <2>6, <2>7 DEF LostInv
<1>5. CASE SaveFails(p) /\ why[p] # "reload"
  BY <1>5, GoneLost DEF SaveFails
<1>6. CASE SaveFails(p) /\ why[p] = "reload"
  <2>1. /\ UNCHANGED <<row, file, tmp, content, index, collected, hand, changed, late, lost>>
        /\ pc[p] \in {"write", "rename"} /\ pc'[p] = "run" /\ why'[p] = "close"
        /\ \A q \in Procs : q # p => UNCHANGED <<pc[q], why[q]>>
    BY <1>6 DEF SaveFails, Goto, TypeInv, dirVars
  <2>2. /\ Up' = Up /\ Saving' = Saving \ {p} /\ p \in Up /\ Embedded' = Embedded
        /\ \A q \in Procs : InHand(q)' = InHand(q) /\ (Rebuilds(q)' <=> Rebuilds(q))
    BY <2>1 DEF Up, Saving, Embedded, InHand, Rebuilds
  <2>3. ASSUME NEW r \in Embedded' \ lost' PROVE RowKept(r)'
    <3>1. RowKept(r) /\ r \in Rows /\ row[r] # Deleted
      BY <2>1, <2>2, <2>3 DEF LostInv, Embedded
    <3>2. r \in InHand(p) => Saving' = {}
      <4>1. r \in InHand(p) => r \in changed[p]
        BY <3>1 DEF ReadInv
      <4> QED
        BY <1>1, <2>2, <3>1, <4>1 DEF RowKept
    <3> QED
      BY <1>1, <2>1, <2>2, <3>1, <3>2 DEF RowKept, Finds, Readable
  <2>4. ReadInv'
    BY <2>1, <2>2 DEF ReadInv, Finds
  <2> QED
    BY <2>2, <2>3, <2>4 DEF LostInv
<1> QED
  BY <1>2, <1>3, <1>4, <1>5, <1>6

\* Every step keeps what was lost for all there is to lose.
LEMMA LostStep == TypeInv /\ TypeInv' /\ HandInv /\ LostInv /\ ReadInv /\ [Next]_vars => LostInv' /\ ReadInv'
<1> SUFFICES ASSUME TypeInv, TypeInv', HandInv, LostInv, ReadInv, [Next]_vars PROVE LostInv' /\ ReadInv'
  OBVIOUS
<1>1. CASE UNCHANGED vars
  <2>1. UNCHANGED <<Up, Saving, Readable, Embedded>> /\ \A p \in Procs : InHand(p)' = InHand(p)
    BY <1>1 DEF vars, dirVars, Up, Saving, Readable, Embedded, InHand
  <2>2. UNCHANGED <<row, file, tmp, content, pc, why, index, collected, hand, changed, late, lost>>
    BY <1>1 DEF vars, dirVars, historyVars
  <2>3. LostInv'
    <3>1. \A r \in Embedded \ lost : RowKept(r)'
      <4> SUFFICES ASSUME NEW r \in Embedded \ lost, RowKept(r) PROVE RowKept(r)'
        BY DEF LostInv
      <4>1. Up \subseteq Procs /\ Saving \subseteq Procs
        BY DEF Up, Saving
      <4> QED
        BY <2>1, <2>2, <4>1 DEF RowKept, Rebuilds, Finds
    <3> QED
      BY <2>1, <2>2, <3>1 DEF LostInv
  <2>4. ReadInv'
    BY <2>1, <2>2 DEF ReadInv, Finds
  <2> QED
    BY <2>3, <2>4
<1>2. ASSUME NEW r \in Rows,
             \/ CreateRow(r) \/ DeleteRow(r)
             \/ \E p \in Procs : UpdateRow(p, r) \/ BackfillGone(p, r)
             \/ \E p \in Procs, v \in 0..MaxVersion : AddKey(p, r, v)
      PROVE  LostInv' /\ ReadInv'
  BY <1>2, RowLost
<1>3. ASSUME NEW p \in Procs, Open(p) PROVE LostInv' /\ ReadInv'
  <2>1. /\ UNCHANGED <<row, hand, changed, collected, late>> /\ pc'[p] # "reset"
        /\ \A q \in Procs : q # p => pc'[q] = pc[q]
    BY <1>3 DEF Open, Goto, TypeInv
  <2>2. ReadInv'
    BY <2>1 DEF ReadInv, Finds, InHand, Embedded
  <2> QED
    BY <1>3, <2>2, OpenLost
<1>4. ASSUME NEW p \in Procs, Exit(p) PROVE LostInv' /\ ReadInv'
  BY <1>4, GoneLost DEF Exit
<1> QED
  BY <1>1, <1>2, <1>3, <1>4, RebuildLost, SaveLost DEF Next, ProcStep

\* OpenVectorIndex trusts a readable file, rebuildFunc and ReloadVectorIndex repair,
\* Save is by name: an embedded row that nothing of the listed kinds has taken from a
\* copy is found by its vector in every process, and is in the file or on its way.
THEOREM FoundOrLost == Spec => []FoundUnlessLost
<1>1. Init => HandInv /\ LostInv /\ ReadInv
  <2> SUFFICES ASSUME Init PROVE HandInv /\ LostInv /\ ReadInv
    OBVIOUS
  <2>1. Embedded = {} /\ \A p \in Procs : hand[p] = {} /\ InHand(p) = {}
    BY DEF Init, Embedded, InHand
  <2> QED
    BY <2>1 DEF HandInv, LostInv, ReadInv
<1>2. LostInv => FoundUnlessLost
  BY DEF LostInv, RowKept, FoundUnlessLost
<1>3. TypeInv /\ HandInv /\ LostInv /\ ReadInv /\ [Next]_vars => (HandInv /\ LostInv /\ ReadInv)'
  BY TypeStep, HandStep, LostStep
<1> QED
  BY <1>1, <1>2, <1>3, TypeInvHolds, PTL DEF Spec
-----------------------------------------------------------------------------
(* Lists.                                                                  *)

\* A set of numbers has a least one.
LEMMA LeastNumber ==
  ASSUME NEW T \in SUBSET Nat, T # {}
  PROVE  \E n \in T : \A m \in T : n <= m
<1>1. PICK n \in T : \A m \in T : ~ (<<m, n>> \in OpToRel(<, Nat))
  BY WFMin, NatLessThanWellFounded
<1>2. ASSUME NEW m \in T, m < n PROVE FALSE
  BY <1>1, <1>2 DEF OpToRel
<1> QED
  BY <1>2

\* The places of a list, and what stands there.
LEMMA Places ==
  ASSUME NEW T, NEW s \in Seq(T)
  PROVE  /\ Len(s) \in Nat /\ DOMAIN s = 1..Len(s) /\ \A i \in 1..Len(s) : s[i] \in T
         /\ ToSet(s) = {s[i] : i \in 1..Len(s)} /\ ToSet(s) \subseteq T
         /\ \A x : Contains(s, x) <=> x \in ToSet(s)
<1>1. Len(s) \in Nat /\ DOMAIN s = 1..Len(s) /\ \A i \in 1..Len(s) : s[i] \in T
  OBVIOUS
<1> QED
  BY <1>1 DEF ToSet, Contains

\* One element more.
LEMMA Appended ==
  ASSUME NEW T, NEW s \in Seq(T), NEW x \in T
  PROVE  /\ Append(s, x) \in Seq(T) /\ Len(Append(s, x)) = Len(s) + 1
         /\ Append(s, x)[Len(s) + 1] = x /\ \A i \in 1..Len(s) : Append(s, x)[i] = s[i]
         /\ ToSet(Append(s, x)) = ToSet(s) \cup {x}
<1> DEFINE u == Append(s, x)
<1>1. /\ u \in Seq(T) /\ Len(u) = Len(s) + 1 /\ u[Len(s) + 1] = x
      /\ \A i \in 1..Len(s) : u[i] = s[i]
  OBVIOUS
<1>2. Len(s) \in Nat /\ DOMAIN u = 1..(Len(s) + 1) /\ DOMAIN s = 1..Len(s)
  OBVIOUS
<1> HIDE DEF u
<1>3. ToSet(u) = ToSet(s) \cup {x}
  BY <1>1, <1>2 DEF ToSet
<1> QED
  BY <1>1, <1>3 DEF u

\* The loop of Kept.
Passed(seen, n, s, places) ==
  IF n \in places THEN Append(seen, s[n]) ELSE seen
KeepLoop(f, s, places, m) ==
  f = [n \in 0..m |-> IF n = 0 THEN <<>> ELSE Passed(f[n - 1], n, s, places)]
CanKeep(s, places, m) == \E f : KeepLoop(f, s, places, m)

\* The loop of Kept can be run over a list of any length.
LEMMA KeepLoopEnds ==
  ASSUME NEW s, NEW places, NEW m \in Nat
  PROVE  CanKeep(s, places, m)
<1>1. CanKeep(s, places, 0)
  <2> DEFINE f == [n \in 0..0 |-> <<>>]
  <2>1. KeepLoop(f, s, places, 0)
    BY DEF KeepLoop
  <2> QED
    BY <2>1 DEF CanKeep
<1>2. ASSUME NEW d \in Nat, CanKeep(s, places, d) PROVE CanKeep(s, places, d + 1)
  <2>1. PICK f : KeepLoop(f, s, places, d)
    BY <1>2 DEF CanKeep
  <2>2. \A n \in 0..d : f[n] = IF n = 0 THEN <<>> ELSE Passed(f[n - 1], n, s, places)
    BY <2>1 DEF KeepLoop
  <2> DEFINE next == Passed(f[d], d + 1, s, places)
             g == [n \in 0..(d + 1) |-> IF n <= d THEN f[n] ELSE next]
  <2>3. \A n \in 0..d : g[n] = f[n]
    OBVIOUS
  <2>4. g[d + 1] = next
    OBVIOUS
  <2> HIDE DEF next
  <2>5. \A n \in 0..(d + 1) : g[n] = IF n = 0 THEN <<>> ELSE Passed(g[n - 1], n, s, places)
    <3>1. ASSUME NEW n \in 0..d
          PROVE  g[n] = IF n = 0 THEN <<>> ELSE Passed(g[n - 1], n, s, places)
      BY <2>2, <2>3
    <3>2. g[d + 1] = Passed(g[(d + 1) - 1], d + 1, s, places)
      BY <2>3, <2>4 DEF next
    <3> QED
      BY <3>1, <3>2
  <2>6. g = [n \in 0..(d + 1) |-> g[n]]
    OBVIOUS
  <2> HIDE DEF g
  <2>7. KeepLoop(g, s, places, d + 1)
    BY <2>5, <2>6, Zenon DEF KeepLoop
  <2> QED
    BY <2>7 DEF CanKeep
<1> DEFINE T == {d \in Nat : ~CanKeep(s, places, d)}
<1> SUFFICES ASSUME T # {} PROVE FALSE
  OBVIOUS
<1>3. PICK d \in T : \A n \in T : d <= n
  BY LeastNumber
<1>4. d # 0 /\ d - 1 \in Nat /\ d - 1 \notin T
  BY <1>1, <1>3
<1>5. CanKeep(s, places, (d - 1) + 1)
  BY <1>2, <1>4
<1> QED
  BY <1>4, <1>5

\* Kept is the last value of its loop.
LEMMA KeptLoop ==
  ASSUME NEW T, NEW s \in Seq(T), NEW places
  PROVE  \E f : /\ f[0] = <<>> /\ Kept(s, places) = f[Len(s)]
                /\ \A n \in 1..Len(s) : f[n] = Passed(f[n - 1], n, s, places)
<1> DEFINE f == CHOOSE g : KeepLoop(g, s, places, Len(s))
<1>0. Len(s) \in Nat
  OBVIOUS
<1>1. KeepLoop(f, s, places, Len(s))
  BY <1>0, KeepLoopEnds DEF CanKeep
<1>2. Kept(s, places) = f[Len(s)]
  BY DEF Kept, KeepLoop, Passed
<1> HIDE DEF f
<1>3. 0 \in 0..Len(s) /\ \A n \in 1..Len(s) : n \in 0..Len(s) /\ n # 0
  BY <1>0
<1>4. \A n \in 0..Len(s) : f[n] = IF n = 0 THEN <<>> ELSE Passed(f[n - 1], n, s, places)
  BY <1>1, Zenon DEF KeepLoop
<1>5. f[0] = <<>> /\ \A n \in 1..Len(s) : f[n] = Passed(f[n - 1], n, s, places)
  BY <1>3, <1>4, Zenon
<1> QED
  BY <1>2, <1>5

\* u lists what stands at the places of s up to m, each once, and an element before
\* another only if it comes before it in s.
Firsts(u, s, places, m, T) ==
  /\ u \in Seq(T) /\ IsInjective(u)
  /\ \A x : x \in ToSet(u) <=> \E i \in 1..m : i \in places /\ s[i] = x
  /\ \A i, j \in 1..Len(u) : i < j =>
       \E p \in 1..m : /\ p \in places /\ s[p] = u[i]
                       /\ \A q \in 1..p : q \in places => s[q] # u[j]

\* A selection from places that hold different elements.
LEMMA KeptIs ==
  ASSUME NEW T, NEW s \in Seq(T), NEW places,
         \A i, j \in 1..Len(s) : i \in places /\ j \in places /\ s[i] = s[j] => i = j
  PROVE  Firsts(Kept(s, places), s, places, Len(s), T)
<1>0. Len(s) \in Nat
  OBVIOUS
<1>1. PICK f : /\ f[0] = <<>> /\ Kept(s, places) = f[Len(s)]
               /\ \A n \in 1..Len(s) : f[n] = Passed(f[n - 1], n, s, places)
  BY KeptLoop
<1>2. Firsts(<<>>, s, places, 0, T)
  BY DEF Firsts, ToSet, IsInjective
<1>3. ASSUME NEW n \in 1..Len(s), NEW u, Firsts(u, s, places, n - 1, T)
      PROVE  Firsts(Passed(u, n, s, places), s, places, n, T)
  <2>1. u \in Seq(T) /\ s[n] \in T
    BY <1>3 DEF Firsts
  <2>2. (Contains(u, s[n]) <=> s[n] \in ToSet(u)) /\ Len(u) \in Nat /\ DOMAIN u = 1..Len(u)
        /\ ToSet(u) = {u[i] : i \in 1..Len(u)}
    BY <2>1, Places
  <2>3. /\ 1..n - 1 \subseteq 1..n /\ n \in 1..n /\ n \notin 1..n - 1
        /\ \A i \in 1..n : i \in 1..n - 1 \/ i = n
    OBVIOUS
  <2>4. CASE n \in places
    <3> DEFINE v == Append(u, s[n])
    <3>1. /\ v \in Seq(T) /\ Len(v) = Len(u) + 1 /\ v[Len(u) + 1] = s[n]
          /\ \A i \in 1..Len(u) : v[i] = u[i]
          /\ ToSet(v) = ToSet(u) \cup {s[n]}
      BY <2>1, Appended
    <3> HIDE DEF v
    <3>2. DOMAIN v = 1..(Len(u) + 1)
      BY <3>1
    <3>3. \A i \in DOMAIN v : i \in 1..Len(u) \/ i = Len(u) + 1
      BY <2>2, <3>2
    <3>4. s[n] \notin ToSet(u) /\ \A i \in 1..Len(u) : u[i] # s[n]
      <4>1. \A i \in 1..n - 1 : i \in 1..Len(s) /\ i # n
        OBVIOUS
      <4>2. s[n] \notin ToSet(u)
        BY <1>3, <2>4, <4>1 DEF Firsts
      <4> QED
        BY <2>2, <4>2
    <3>5. IsInjective(v)
      BY <1>3, <2>2, <3>1, <3>3, <3>4 DEF Firsts, IsInjective
    <3>6. \A x : x \in ToSet(v) <=> \E i \in 1..n : i \in places /\ s[i] = x
      BY <1>3, <2>3, <2>4, <3>1 DEF Firsts
    <3>7. ASSUME NEW i \in 1..Len(v), NEW j \in 1..Len(v), i < j
          PROVE  \E p \in 1..n : /\ p \in places /\ s[p] = v[i]
                                 /\ \A q \in 1..p : q \in places => s[q] # v[j]
      <4>1. i \in 1..Len(u) /\ v[i] = u[i]
        BY <2>2, <3>1, <3>7
      <4>2. CASE j \in 1..Len(u)
        <5>1. PICK p \in 1..n - 1 : p \in places /\ s[p] = u[i]
                                   /\ \A q \in 1..p : q \in places => s[q] # u[j]
          BY <1>3, <3>7, <4>1, <4>2 DEF Firsts
        <5> QED
          BY <2>3, <3>1, <4>1, <4>2, <5>1
      <4>3. CASE j = Len(u) + 1
        <5>1. u[i] \in ToSet(u)
          BY <2>2, <4>1
        <5>2. PICK p \in 1..n - 1 : p \in places /\ s[p] = u[i]
          BY <1>3, <5>1 DEF Firsts
        <5>3. ASSUME NEW q \in 1..p, q \in places PROVE s[q] # s[n]
          <6>1. q \in 1..n - 1
            OBVIOUS
          <6>2. s[q] \in ToSet(u)
            BY <1>3, <5>3, <6>1 DEF Firsts
          <6> QED
            BY <3>4, <6>2
        <5>4. v[j] = s[n]
          BY <3>1, <4>3
        <5> QED
          BY <2>3, <4>1, <5>2, <5>3, <5>4
      <4> QED
        BY <2>2, <3>1, <4>2, <4>3
    <3>8. Firsts(v, s, places, n, T)
      BY <3>1, <3>5, <3>6, <3>7 DEF Firsts
    <3> QED
      BY <2>4, <3>8 DEF Passed, v
  <2>5. CASE n \notin places
    <3>1. Firsts(u, s, places, n, T)
      <4>1. \A x : x \in ToSet(u) <=> \E i \in 1..n : i \in places /\ s[i] = x
        BY <1>3, <2>2, <2>3, <2>5 DEF Firsts
      <4>2. \A i, j \in 1..Len(u) : i < j =>
              \E p \in 1..n : /\ p \in places /\ s[p] = u[i]
                              /\ \A q \in 1..p : q \in places => s[q] # u[j]
        BY <1>3, <2>3 DEF Firsts
      <4> QED
        BY <1>3, <4>1, <4>2 DEF Firsts
    <3> QED
      BY <2>5, <3>1 DEF Passed
  <2> QED
    BY <2>4, <2>5
<1> DEFINE Bad == {n \in 0..Len(s) : ~Firsts(f[n], s, places, n, T)}
<1>4. Bad = {}
  <2> SUFFICES ASSUME Bad # {} PROVE FALSE
    OBVIOUS
  <2>1. Bad \in SUBSET Nat
    OBVIOUS
  <2>2. \E n \in Bad : \A m \in Bad : n <= m
    <3> HIDE DEF Bad
    <3> QED
      BY <2>1, LeastNumber
  <2>3. PICK n \in Bad : \A m \in Bad : n <= m
    BY <2>2
  <2>4. n # 0
    BY <1>1, <1>2, <2>3
  <2>5. n \in 1..Len(s) /\ n - 1 \in 0..Len(s) /\ n - 1 \notin Bad
    BY <2>3, <2>4
  <2> QED
    BY <1>1, <1>3, <2>3, <2>5
<1> QED
  BY <1>0, <1>1, <1>4

\* The first places of the elements.
LEMMA FirstAtIs ==
  ASSUME NEW T, NEW s \in Seq(T), NEW places \in SUBSET DOMAIN s
  PROVE  Firsts(FirstAt(s, places), s, places, Len(s), T)
<1> DEFINE first == {i \in places : \A j \in places : j < i => s[j] # s[i]}
           u == FirstAt(s, places)
<1>0. Len(s) \in Nat /\ places \subseteq 1..Len(s)
  OBVIOUS
<1>1. ASSUME NEW i \in first, NEW j \in first, s[i] = s[j] PROVE i = j
  <2>1. ~(i < j) /\ ~(j < i) /\ i \in Nat /\ j \in Nat
    BY <1>0, <1>1
  <2> QED
    BY <2>1
<1>2. ASSUME NEW q \in places PROVE \E p \in first : p <= q /\ s[p] = s[q]
  <2> DEFINE S == {i \in places : s[i] = s[q]}
  <2>1. S \in SUBSET Nat /\ S # {} /\ q \in S
    BY <1>0
  <2>2. \E p \in S : \A i \in S : p <= i
    <3> HIDE DEF S
    <3> QED
      BY <2>1, LeastNumber
  <2>3. PICK p \in S : \A i \in S : p <= i
    BY <2>2
  <2>4. ASSUME NEW j \in places, j < p PROVE s[j] # s[p]
    BY <1>0, <2>3, <2>4
  <2> QED
    BY <2>1, <2>3, <2>4
<1>3. u = Kept(s, first)
  BY DEF FirstAt
<1>4. first \subseteq places
  OBVIOUS
<1> HIDE DEF first, u
<1>5. Firsts(u, s, first, Len(s), T)
  BY <1>1, <1>3, KeptIs
<1>6. u \in Seq(T) /\ IsInjective(u)
  BY <1>5 DEF Firsts
<1>7. ASSUME NEW x PROVE x \in ToSet(u) <=> \E i \in 1..Len(s) : i \in places /\ s[i] = x
  <2>1. x \in ToSet(u) <=> \E i \in 1..Len(s) : i \in first /\ s[i] = x
    BY <1>5 DEF Firsts
  <2>2. ASSUME NEW i \in 1..Len(s), i \in places, s[i] = x PROVE x \in ToSet(u)
    BY <1>0, <1>2, <1>4, <2>1, <2>2
  <2> QED
    BY <1>4, <2>1, <2>2
<1>8. ASSUME NEW i \in 1..Len(u), NEW j \in 1..Len(u), i < j
      PROVE  \E p \in 1..Len(s) : /\ p \in places /\ s[p] = u[i]
                                  /\ \A q \in 1..p : q \in places => s[q] # u[j]
  <2>1. \E p \in 1..Len(s) : /\ p \in first /\ s[p] = u[i]
                             /\ \A q \in 1..p : q \in first => s[q] # u[j]
    BY <1>5, <1>8 DEF Firsts
  <2>2. PICK p \in 1..Len(s) : /\ p \in first /\ s[p] = u[i]
                               /\ \A q \in 1..p : q \in first => s[q] # u[j]
    BY <2>1
  <2>3. ASSUME NEW q \in 1..p, q \in places PROVE s[q] # u[j]
    <3>1. PICK f \in first : f <= q /\ s[f] = s[q]
      BY <1>2, <2>3
    <3>2. f \in 1..p
      BY <1>0, <1>4, <3>1
    <3> QED
      BY <2>2, <3>1, <3>2
  <2> QED
    BY <1>4, <2>2, <2>3
<1>9. Firsts(u, s, places, Len(s), T)
  BY <1>6, <1>7, <1>8 DEF Firsts
<1> QED
  BY <1>9 DEF u

\* The elements, each once.
LEMMA DistinctIs ==
  ASSUME NEW T, NEW s \in Seq(T)
  PROVE  /\ Distinct(s) \in Seq(T) /\ IsInjective(Distinct(s)) /\ ToSet(Distinct(s)) = ToSet(s)
<1>1. Firsts(Distinct(s), s, DOMAIN s, Len(s), T)
  BY FirstAtIs DEF Distinct
<1>2. DOMAIN s = 1..Len(s) /\ ToSet(s) = {s[i] : i \in 1..Len(s)}
  BY Places
<1> QED
  BY <1>1, <1>2 DEF Firsts

\* The elements that are in a set, of a list without repeats.
LEMMA KeysInIs ==
  ASSUME NEW T, NEW s \in Seq(T), IsInjective(s), NEW S
  PROVE  /\ KeysIn(S, s) \in Seq(T) /\ IsInjective(KeysIn(S, s)) /\ ToSet(KeysIn(S, s)) = ToSet(s) \cap S
<1> DEFINE places == {i \in DOMAIN s : s[i] \in S}
<1>1. Firsts(KeysIn(S, s), s, places, Len(s), T)
  <2>1. \A i, j \in 1..Len(s) : s[i] = s[j] => i = j
    BY Places DEF IsInjective
  <2> HIDE DEF places
  <2>2. Firsts(Kept(s, places), s, places, Len(s), T)
    BY <2>1, KeptIs
  <2> QED
    BY <2>2 DEF KeysIn, places
<1>2. DOMAIN s = 1..Len(s) /\ ToSet(s) = {s[i] : i \in 1..Len(s)}
  BY Places
<1>3. \A x : x \in ToSet(KeysIn(S, s)) <=> x \in ToSet(s) \cap S
  BY <1>1, <1>2 DEF Firsts
<1> QED
  BY <1>1, <1>3 DEF Firsts

\* The first elements of a list.
LEMMA FirstIs ==
  ASSUME NEW T, NEW s \in Seq(T), NEW n \in Nat
  PROVE  /\ First(n, s) \in Seq(T) /\ ToSet(First(n, s)) \subseteq ToSet(s)
         /\ IsInjective(s) => IsInjective(First(n, s))
         /\ Len(First(n, s)) <= Len(s) /\ \A i \in 1..Len(First(n, s)) : First(n, s)[i] = s[i]
<1> DEFINE m == IF Len(s) < n THEN Len(s) ELSE n
           u == First(n, s)
<1>1. m \in 0..Len(s) /\ u = SubSeq(s, 1, m)
  BY DEF First
<1>2. u \in Seq(T) /\ Len(u) = m /\ \A i \in 1..m : u[i] = s[i]
  BY <1>1
<1> HIDE DEF u, m
<1>3. ToSet(u) = {u[i] : i \in 1..m} /\ DOMAIN u = 1..m
  BY <1>2, Places
<1>4. ToSet(s) = {s[i] : i \in 1..Len(s)} /\ DOMAIN s = 1..Len(s) /\ 1..m \subseteq 1..Len(s)
  BY <1>1, Places
<1>5. IsInjective(s) => IsInjective(u)
  BY <1>2, <1>3, <1>4 DEF IsInjective
<1>6. ToSet(u) \subseteq ToSet(s)
  BY <1>2, <1>3, <1>4
<1>7. Len(u) <= Len(s) /\ \A i \in 1..Len(u) : u[i] = s[i]
  BY <1>1, <1>2 DEF m
<1> QED
  BY <1>2, <1>5, <1>6, <1>7 DEF u

\* An order of a finite set.
LEMMA OrderOf ==
  ASSUME NEW S, IsFiniteSet(S), NEW o \in SetToSeqs(S)
  PROVE  o \in Seq(S) /\ IsInjective(o) /\ ToSet(o) = S
<1> DEFINE n == Cardinality(S)
<1>1. n \in Nat
  BY FS_CardinalityType
<1>2. o \in [1..n -> S] /\ \A j, k \in 1..n : j # k => o[j] # o[k]
  BY DEF SetToSeqs
<1>3. o \in Injection(1..n, S) /\ IsInjective(o)
  BY <1>2 DEF Injection, IsInjective
<1>4. o \in Surjection(1..n, S)
  <2>1. IsFiniteSet(1..n) /\ Cardinality(1..n) = n
    BY <1>1, FS_Interval
  <2> QED
    BY <1>3, <2>1, FS_Injection
<1>5. ToSet(o) = S
  BY <1>2, <1>4 DEF Surjection, ToSet
<1> QED
  BY <1>1, <1>2, <1>3, <1>5

\* How often an element stands in a list without repeats.
LEMMA OccursOnce ==
  ASSUME NEW T, NEW s \in Seq(T), IsInjective(s), NEW x
  PROVE  Occurrences(x, s) = IF x \in ToSet(s) THEN 1 ELSE 0
<1> DEFINE at == {i \in DOMAIN s : s[i] = x}
<1>1. CASE x \in ToSet(s)
  <2>1. PICK i \in DOMAIN s : s[i] = x
    BY <1>1 DEF ToSet
  <2>2. at = {i}
    BY <2>1 DEF IsInjective
  <2>3. Cardinality({i}) = 1
    BY FS_Singleton
  <2> QED
    BY <1>1, <2>2, <2>3 DEF Occurrences
<1>2. CASE x \notin ToSet(s)
  <2>1. at = {}
    BY <1>2 DEF ToSet
  <2> QED
    BY <1>2, <2>1, FS_EmptySet DEF Occurrences
<1> QED
  BY <1>1, <1>2

\* One list after another.
LEMMA Joined ==
  ASSUME NEW T, NEW s \in Seq(T), NEW t \in Seq(T)
  PROVE  /\ s \o t \in Seq(T) /\ Len(s \o t) = Len(s) + Len(t)
         /\ \A i \in 1..Len(s) : (s \o t)[i] = s[i]
         /\ \A i \in 1..Len(t) : (s \o t)[Len(s) + i] = t[i]
         /\ ToSet(s \o t) = ToSet(s) \cup ToSet(t)
         /\ IsInjective(s) /\ IsInjective(t) /\ ToSet(s) \cap ToSet(t) = {} => IsInjective(s \o t)
<1> DEFINE u == s \o t
<1>1. /\ u \in Seq(T) /\ Len(u) = Len(s) + Len(t)
      /\ \A i \in 1..Len(s) : u[i] = s[i]
      /\ \A i \in 1..Len(t) : u[Len(s) + i] = t[i]
  OBVIOUS
<1> HIDE DEF u
<1>2. /\ Len(s) \in Nat /\ Len(t) \in Nat /\ DOMAIN s = 1..Len(s) /\ DOMAIN t = 1..Len(t)
      /\ DOMAIN u = 1..Len(u) /\ ToSet(s) = {s[i] : i \in 1..Len(s)}
      /\ ToSet(t) = {t[i] : i \in 1..Len(t)} /\ ToSet(u) = {u[i] : i \in 1..Len(u)}
  BY <1>1, Places
<1>3. \A i \in 1..Len(u) : i \in 1..Len(s) \/ (i - Len(s) \in 1..Len(t) /\ i = Len(s) + (i - Len(s)))
  BY <1>1, <1>2
<1>4. \A i \in 1..Len(u) :
        (i \in 1..Len(s) /\ u[i] = s[i]) \/ (i - Len(s) \in 1..Len(t) /\ u[i] = t[i - Len(s)])
  BY <1>1, <1>3
<1>5. ToSet(u) = ToSet(s) \cup ToSet(t)
  <2>1. \A i \in 1..Len(s) : i \in 1..Len(u)
    BY <1>1, <1>2
  <2>2. \A i \in 1..Len(t) : Len(s) + i \in 1..Len(u)
    BY <1>1, <1>2
  <2>3. ToSet(u) \subseteq ToSet(s) \cup ToSet(t)
    BY <1>2, <1>4
  <2>4. ToSet(s) \subseteq ToSet(u)
    BY <1>1, <1>2, <2>1
  <2>5. ToSet(t) \subseteq ToSet(u)
    BY <1>1, <1>2, <2>2
  <2> QED
    BY <2>3, <2>4, <2>5
<1>6. ASSUME IsInjective(s), IsInjective(t), ToSet(s) \cap ToSet(t) = {},
             NEW i \in 1..Len(u), NEW j \in 1..Len(u), u[i] = u[j]
      PROVE  i = j
  <2>1. CASE i \in 1..Len(s) /\ u[i] = s[i] /\ j \in 1..Len(s) /\ u[j] = s[j]
    BY <1>2, <1>6, <2>1 DEF IsInjective
  <2>2. CASE i - Len(s) \in 1..Len(t) /\ u[i] = t[i - Len(s)] /\ j - Len(s) \in 1..Len(t) /\ u[j] = t[j - Len(s)]
    <3>1. i - Len(s) = j - Len(s)
      BY <1>2, <1>6, <2>2 DEF IsInjective
    <3> QED
      BY <1>1, <1>2, <3>1
  <2>3. CASE i \in 1..Len(s) /\ u[i] = s[i] /\ j - Len(s) \in 1..Len(t) /\ u[j] = t[j - Len(s)]
    BY <1>2, <1>6, <2>3
  <2>4. CASE j \in 1..Len(s) /\ u[j] = s[j] /\ i - Len(s) \in 1..Len(t) /\ u[i] = t[i - Len(s)]
    BY <1>2, <1>6, <2>4
  <2> QED
    BY <1>4, <2>1, <2>2, <2>3, <2>4
<1>7. IsInjective(s) /\ IsInjective(t) /\ ToSet(s) \cap ToSet(t) = {} => IsInjective(u)
  BY <1>2, <1>6 DEF IsInjective
<1>8. /\ u \in Seq(T) /\ Len(u) = Len(s) + Len(t)
      /\ \A i \in 1..Len(s) : u[i] = s[i]
      /\ \A i \in 1..Len(t) : u[Len(s) + i] = t[i]
      /\ ToSet(u) = ToSet(s) \cup ToSet(t)
      /\ IsInjective(s) /\ IsInjective(t) /\ ToSet(s) \cap ToSet(t) = {} => IsInjective(u)
  BY <1>1, <1>5, <1>7
<1> QED
  BY <1>8 DEF u

\* A list cut in two.
LEMMA CutInTwo ==
  ASSUME NEW T, NEW s \in Seq(T), IsInjective(s), NEW n \in 0..Len(s)
  PROVE  LET head == SubSeq(s, 1, n)
             tail == SubSeq(s, n + 1, Len(s))
         IN /\ head \in Seq(T) /\ tail \in Seq(T) /\ IsInjective(head) /\ IsInjective(tail)
            /\ ToSet(head) \cap ToSet(tail) = {} /\ ToSet(head) \cup ToSet(tail) = ToSet(s)
<1> DEFINE head == SubSeq(s, 1, n)
           tail == SubSeq(s, n + 1, Len(s))
<1>0. Len(s) \in Nat /\ n \in Nat /\ DOMAIN s = 1..Len(s) /\ ToSet(s) = {s[i] : i \in 1..Len(s)}
  BY Places
<1>1. head \in Seq(T) /\ Len(head) = n /\ \A i \in 1..n : head[i] = s[i]
  BY <1>0
<1>2. tail \in Seq(T) /\ Len(tail) = Len(s) - n /\ \A i \in 1..Len(s) - n : tail[i] = s[n + i]
  <2>1. n + 1 \in Int /\ Len(s) \in Int /\ \A i \in n + 1..Len(s) : s[i] \in T
    BY <1>0
  <2>2. /\ tail \in Seq(T) /\ Len(tail) = IF n + 1 <= Len(s) THEN Len(s) - (n + 1) + 1 ELSE 0
        /\ \A i \in 1..Len(s) - (n + 1) + 1 : tail[i] = s[n + 1 + i - 1]
    BY <2>1, SubSeqProperties
  <2> HIDE DEF tail
  <2>3. \A i \in 1..Len(s) - n : i \in 1..Len(s) - (n + 1) + 1 /\ n + 1 + i - 1 = n + i
    BY <1>0
  <2>4. Len(tail) = Len(s) - n
    <3>1. CASE n + 1 <= Len(s)
      <4>1. Len(tail) = Len(s) - (n + 1) + 1
        BY <2>2, <3>1
      <4> QED
        BY <1>0, <4>1
    <3>2. CASE ~(n + 1 <= Len(s))
      <4>1. Len(tail) = 0
        BY <2>2, <3>2
      <4>2. n = Len(s)
        <5>1. n \in Int /\ Len(s) \in Int /\ n <= Len(s) /\ ~(n + 1 <= Len(s))
          BY <1>0, <3>2
        <5> QED
          BY ONLY <5>1
      <4> QED
        BY <1>0, <4>1, <4>2
    <3> QED
      BY <3>1, <3>2
  <2> QED
    BY <2>2, <2>3, <2>4
<1> HIDE DEF head, tail
<1>3. /\ DOMAIN head = 1..n /\ ToSet(head) = {head[i] : i \in 1..n}
      /\ DOMAIN tail = 1..Len(s) - n /\ ToSet(tail) = {tail[i] : i \in 1..Len(s) - n}
  BY <1>1, <1>2, Places
<1>4. /\ \A i \in 1..n : i \in 1..Len(s)
      /\ \A i \in 1..Len(s) - n : n + i \in 1..Len(s)
      /\ \A i \in 1..Len(s) : i \in 1..n \/ (i - n \in 1..Len(s) - n /\ n + (i - n) = i)
      /\ \A i \in 1..n, j \in 1..Len(s) - n : i # n + j
  BY <1>0
<1>5. \A i, j \in 1..Len(s) : s[i] = s[j] => i = j
  BY <1>0 DEF IsInjective
<1>6. IsInjective(head)
  BY <1>1, <1>3, <1>4, <1>5 DEF IsInjective
<1>7. IsInjective(tail)
  <2>1. ASSUME NEW i \in 1..Len(s) - n, NEW j \in 1..Len(s) - n, tail[i] = tail[j] PROVE i = j
    <3>1. n + i = n + j
      BY <1>2, <1>4, <1>5, <2>1
    <3> QED
      BY <1>0, <3>1
  <2> QED
    BY <1>3, <2>1 DEF IsInjective
<1>8. ToSet(head) \cap ToSet(tail) = {}
  BY <1>1, <1>2, <1>3, <1>4, <1>5
<1>9. ToSet(head) \cup ToSet(tail) = ToSet(s)
  <2>1. ToSet(head) \subseteq ToSet(s)
    BY <1>0, <1>1, <1>3, <1>4
  <2>2. ToSet(tail) \subseteq ToSet(s)
    BY <1>0, <1>2, <1>3, <1>4
  <2>3. ASSUME NEW i \in 1..Len(s) PROVE s[i] \in ToSet(head) \cup ToSet(tail)
    <3>1. CASE i \in 1..n
      BY <1>1, <1>3, <3>1
    <3>2. CASE i - n \in 1..Len(s) - n /\ n + (i - n) = i
      BY <1>2, <1>3, <3>2
    <3> QED
      BY <1>4, <3>1, <3>2
  <2> QED
    BY <1>0, <2>1, <2>2, <2>3
<1> QED
  BY <1>1, <1>2, <1>6, <1>7, <1>8, <1>9 DEF head, tail

-----------------------------------------------------------------------------
(* Sums and quotients.                                                     *)

\* The loop of Total.
SumLoop(f, s, m) == f = [n \in 0..m |-> IF n = 0 THEN 0 ELSE f[n - 1] + s[n]]
CanSum(s, m) == \E f : SumLoop(f, s, m)

\* The loop of Total can be run over a list of any length.
LEMMA SumLoopEnds ==
  ASSUME NEW s, NEW m \in Nat
  PROVE  CanSum(s, m)
<1>1. CanSum(s, 0)
  <2> DEFINE f == [n \in 0..0 |-> 0]
  <2>1. SumLoop(f, s, 0)
    BY DEF SumLoop
  <2> QED
    BY <2>1 DEF CanSum
<1>2. ASSUME NEW d \in Nat, CanSum(s, d) PROVE CanSum(s, d + 1)
  <2>1. PICK f : SumLoop(f, s, d)
    BY <1>2 DEF CanSum
  <2>2. \A n \in 0..d : f[n] = IF n = 0 THEN 0 ELSE f[n - 1] + s[n]
    BY <2>1 DEF SumLoop
  <2> DEFINE next == f[d] + s[d + 1]
             g == [n \in 0..(d + 1) |-> IF n <= d THEN f[n] ELSE next]
  <2>3. \A n \in 0..d : g[n] = f[n]
    OBVIOUS
  <2>4. g[d + 1] = next
    OBVIOUS
  <2> HIDE DEF next
  <2>5. \A n \in 0..(d + 1) : g[n] = IF n = 0 THEN 0 ELSE g[n - 1] + s[n]
    <3>1. ASSUME NEW n \in 0..d
          PROVE  g[n] = IF n = 0 THEN 0 ELSE g[n - 1] + s[n]
      BY <2>2, <2>3
    <3>2. g[d + 1] = g[(d + 1) - 1] + s[d + 1]
      BY <2>3, <2>4 DEF next
    <3> QED
      BY <3>1, <3>2
  <2>6. g = [n \in 0..(d + 1) |-> g[n]]
    OBVIOUS
  <2> HIDE DEF g
  <2>7. SumLoop(g, s, d + 1)
    BY <2>5, <2>6, Zenon DEF SumLoop
  <2> QED
    BY <2>7 DEF CanSum
<1> DEFINE T == {d \in Nat : ~CanSum(s, d)}
<1> SUFFICES ASSUME T # {} PROVE FALSE
  OBVIOUS
<1>3. PICK d \in T : \A n \in T : d <= n
  BY LeastNumber
<1>4. d # 0 /\ d - 1 \in Nat /\ d - 1 \notin T
  BY <1>1, <1>3
<1>5. CanSum(s, (d - 1) + 1)
  BY <1>2, <1>4
<1> QED
  BY <1>4, <1>5

\* Total is the last value of its loop.
LEMMA TotalLoop ==
  ASSUME NEW s \in Seq(Nat)
  PROVE  \E f : /\ f[0] = 0 /\ Total(s) = f[Len(s)]
                /\ \A n \in 1..Len(s) : f[n] = f[n - 1] + s[n]
<1> DEFINE f == CHOOSE g : SumLoop(g, s, Len(s))
<1>0. Len(s) \in Nat
  OBVIOUS
<1>1. SumLoop(f, s, Len(s))
  BY <1>0, SumLoopEnds DEF CanSum
<1>2. Total(s) = f[Len(s)]
  BY DEF Total, SumLoop
<1> HIDE DEF f
<1>3. 0 \in 0..Len(s) /\ \A n \in 1..Len(s) : n \in 0..Len(s) /\ n # 0
  BY <1>0
<1>4. \A n \in 0..Len(s) : f[n] = IF n = 0 THEN 0 ELSE f[n - 1] + s[n]
  BY <1>1, Zenon DEF SumLoop
<1>5. f[0] = 0 /\ \A n \in 1..Len(s) : f[n] = f[n - 1] + s[n]
  BY <1>3, <1>4, Zenon
<1> QED
  BY <1>2, <1>5

\* Larger addends, a larger total.
LEMMA TotalGrows ==
  ASSUME NEW s \in Seq(Nat), NEW t \in Seq(Nat), Len(s) = Len(t), \A i \in 1..Len(s) : t[i] <= s[i]
  PROVE  /\ Total(s) \in Nat /\ Total(t) \in Nat /\ Total(t) <= Total(s)
         /\ (\E i \in 1..Len(s) : t[i] < s[i]) => Total(t) < Total(s)
<1>0. Len(s) \in Nat /\ \A i \in 1..Len(s) : s[i] \in Nat /\ t[i] \in Nat
  OBVIOUS
<1>1. PICK f : /\ f[0] = 0 /\ Total(s) = f[Len(s)]
               /\ \A n \in 1..Len(s) : f[n] = f[n - 1] + s[n]
  BY TotalLoop
<1>2. PICK g : /\ g[0] = 0 /\ Total(t) = g[Len(s)]
               /\ \A n \in 1..Len(s) : g[n] = g[n - 1] + t[n]
  BY TotalLoop
<1> DEFINE Good(n) == /\ f[n] \in Nat /\ g[n] \in Nat /\ g[n] <= f[n]
                      /\ (\E i \in 1..n : t[i] < s[i]) => g[n] < f[n]
           Bad == {n \in 0..Len(s) : ~Good(n)}
<1>3. Good(0)
  BY <1>1, <1>2
<1>4. ASSUME NEW n \in 1..Len(s), Good(n - 1) PROVE Good(n)
  <2>1. /\ f[n] = f[n - 1] + s[n] /\ g[n] = g[n - 1] + t[n] /\ t[n] <= s[n]
        /\ s[n] \in Nat /\ t[n] \in Nat
    BY <1>0, <1>1, <1>2
  <2>2. f[n] \in Nat /\ g[n] \in Nat /\ g[n] <= f[n]
    BY <1>4, <2>1
  <2>3. ASSUME NEW i \in 1..n, t[i] < s[i] PROVE g[n] < f[n]
    <3>1. CASE i = n
      BY <1>4, <2>1, <2>3, <3>1
    <3>2. CASE i # n
      <4>1. i \in 1..n - 1
        BY <3>2
      <4>2. g[n - 1] < f[n - 1]
        BY <1>4, <2>3, <4>1
      <4> QED
        BY <1>4, <2>1, <4>2
    <3> QED
      BY <3>1, <3>2
  <2> QED
    BY <2>2, <2>3
<1>5. Bad = {}
  <2> SUFFICES ASSUME Bad # {} PROVE FALSE
    OBVIOUS
  <2>1. Bad \in SUBSET Nat
    OBVIOUS
  <2>2. \E n \in Bad : \A m \in Bad : n <= m
    <3> HIDE DEF Bad
    <3> QED
      BY <2>1, LeastNumber
  <2>3. PICK n \in Bad : \A m \in Bad : n <= m
    BY <2>2
  <2>4. n # 0
    BY <1>3, <2>3
  <2>5. n \in 1..Len(s) /\ n - 1 \in 0..Len(s) /\ n - 1 \notin Bad
    BY <2>3, <2>4
  <2>6. Good(n - 1) /\ ~Good(n)
    BY <2>3, <2>5
  <2> HIDE DEF Good
  <2> QED
    BY <1>4, <2>5, <2>6
<1>6. Good(Len(s))
  <2> HIDE DEF Good
  <2> QED
    BY <1>0, <1>5
<1> QED
  BY <1>1, <1>2, <1>6

\* One addend is the total.
LEMMA TotalOne ==
  ASSUME NEW s \in Seq(Nat), NEW k \in Nat \ {0}, \A i \in 1..Len(s) : i # k => s[i] = 0
  PROVE  Total(s) = IF k <= Len(s) THEN s[k] ELSE 0
<1>0. Len(s) \in Nat /\ \A i \in 1..Len(s) : s[i] \in Nat
  OBVIOUS
<1>1. PICK f : /\ f[0] = 0 /\ Total(s) = f[Len(s)]
               /\ \A n \in 1..Len(s) : f[n] = f[n - 1] + s[n]
  BY TotalLoop
<1> DEFINE Good(n) == f[n] = IF k <= n THEN s[k] ELSE 0
           Bad == {n \in 0..Len(s) : ~Good(n)}
<1>3. Good(0)
  BY <1>1
<1>4. ASSUME NEW n \in 1..Len(s), Good(n - 1) PROVE Good(n)
  <2>1. f[n] = f[n - 1] + s[n] /\ s[n] \in Nat
    BY <1>0, <1>1
  <2>2. CASE n < k
    <3>1. f[n - 1] = 0 /\ s[n] = 0
      BY <1>4, <2>2
    <3> QED
      BY <2>1, <2>2, <3>1
  <2>3. CASE n = k
    BY <1>4, <2>1, <2>3
  <2>4. CASE k < n
    <3>1. s[n] = 0 /\ k <= n - 1 /\ k \in 1..Len(s)
      BY <1>0, <2>4
    <3>2. f[n - 1] = s[k] /\ s[k] \in Nat
      BY <1>0, <1>4, <3>1
    <3> QED
      BY <2>1, <2>4, <3>1, <3>2
  <2> QED
    BY <2>2, <2>3, <2>4
<1>5. Bad = {}
  <2> SUFFICES ASSUME Bad # {} PROVE FALSE
    OBVIOUS
  <2>1. Bad \in SUBSET Nat
    OBVIOUS
  <2>2. \E n \in Bad : \A m \in Bad : n <= m
    <3> HIDE DEF Bad
    <3> QED
      BY <2>1, LeastNumber
  <2>3. PICK n \in Bad : \A m \in Bad : n <= m
    BY <2>2
  <2>4. n # 0
    BY <1>3, <2>3
  <2>5. n \in 1..Len(s) /\ n - 1 \in 0..Len(s) /\ n - 1 \notin Bad
    BY <2>3, <2>4
  <2>6. Good(n - 1) /\ ~Good(n)
    BY <2>3, <2>5
  <2> HIDE DEF Good
  <2> QED
    BY <1>4, <2>5, <2>6
<1>6. Good(Len(s))
  <2> HIDE DEF Good
  <2> QED
    BY <1>0, <1>5
<1> QED
  BY <1>1, <1>6

\* A row as a layer reads it: only a fact expires.
Copies == {c \in [key : AllKeys, until : 0..Never] : IsFact(c.key) \/ c.until = Never}

\* A quotient by less is larger, up to the root of the dividend.
LEMMA QuotientsFall ==
  ASSUME NEW c \in Nat, NEW x \in Nat \ {0}, NEW y \in Nat, x < y, y * y <= c
  PROVE  c \div x \in Nat /\ c \div y \in Nat /\ c \div y < c \div x
<1> DEFINE e == c \div x
           d == c \div y
<1>1. d \in Nat /\ d * y <= c /\ c < (d + 1) * y
  BY SMT
<1>2. e \in Nat /\ c < (e + 1) * x
  BY SMT
<1> HIDE DEF d, e
<1>3. y <= d
  <2> SUFFICES ASSUME d + 1 <= y PROVE FALSE
    BY <1>1
  <2>1. (d + 1) * y <= y * y
    BY <1>1, SMT
  <2>2. (d + 1) * y \in Int /\ y * y \in Int
    BY <1>1
  <2> QED
    BY <1>1, <2>1, <2>2
<1>4. d < e
  <2> SUFFICES ASSUME e <= d PROVE FALSE
    BY <1>1, <1>2
  <2>1. (e + 1) * x <= (d + 1) * (y - 1)
    <3>1. (e + 1) * x <= (d + 1) * x
      BY <1>1, <1>2, SMT
    <3>2. (d + 1) * x <= (d + 1) * (y - 1)
      BY <1>1, SMT
    <3>3. (e + 1) * x \in Int /\ (d + 1) * x \in Int /\ (d + 1) * (y - 1) \in Int
      BY <1>1, <1>2
    <3> QED
      BY <3>1, <3>2, <3>3
  <2>2. (d + 1) * (y - 1) = d * y - d + y - 1
    BY <1>1, SMT
  <2>3. d * y \in Int /\ (e + 1) * x \in Int
    BY <1>1, <1>2
  <2> QED
    BY <1>1, <1>2, <1>3, <2>1, <2>2, <2>3
<1> QED
  BY <1>1, <1>2, <1>4 DEF d, e

\* Whole points up to MaxRank tell ranks apart.
LEMMA PointsFall ==
  ASSUME NEW p \in Nat \ {0}, NEW q \in Nat, p < q, q <= MaxRank
  PROVE  Points(p) \in Nat /\ Points(q) \in Nat /\ Points(q) < Points(p)
<1>1. Scale \in Nat /\ 3060 * 3060 <= Scale
  BY SMT DEF Scale
<1>2. 60 + p \in Nat \ {0} /\ 60 + q \in Nat /\ 60 + p < 60 + q /\ 60 + q <= 3060
  BY SMT DEF MaxRank
<1>3. (60 + q) * (60 + q) <= 3060 * 3060
  BY <1>2, SMT
<1>4. (60 + q) * (60 + q) <= Scale
  BY <1>1, <1>2, <1>3, SMT
<1>5. Scale \div (60 + p) \in Nat /\ Scale \div (60 + q) \in Nat /\ Scale \div (60 + q) < Scale \div (60 + p)
  BY <1>1, <1>2, <1>4, QuotientsFall
<1> QED
  BY <1>5 DEF Points

\* The loop of FoundIn.
JoinLoop(f, order, m) == f = [n \in 0..m |-> IF n = 0 THEN <<>> ELSE f[n - 1] \o got[order[n]]]
CanJoin(order, m) == \E f : JoinLoop(f, order, m)

\* The loop of FoundIn can be run over any number of layers.
LEMMA JoinLoopEnds ==
  ASSUME NEW order, NEW m \in Nat
  PROVE  CanJoin(order, m)
<1>1. CanJoin(order, 0)
  <2> DEFINE f == [n \in 0..0 |-> <<>>]
  <2>1. JoinLoop(f, order, 0)
    BY DEF JoinLoop
  <2> QED
    BY <2>1 DEF CanJoin
<1>2. ASSUME NEW d \in Nat, CanJoin(order, d) PROVE CanJoin(order, d + 1)
  <2>1. PICK f : JoinLoop(f, order, d)
    BY <1>2 DEF CanJoin
  <2>2. \A n \in 0..d : f[n] = IF n = 0 THEN <<>> ELSE f[n - 1] \o got[order[n]]
    BY <2>1 DEF JoinLoop
  <2> DEFINE next == f[d] \o got[order[d + 1]]
             g == [n \in 0..(d + 1) |-> IF n <= d THEN f[n] ELSE next]
  <2>3. \A n \in 0..d : g[n] = f[n]
    OBVIOUS
  <2> HIDE DEF next
  <2>4. g[d + 1] = next
    OBVIOUS
  <2>5. \A n \in 0..(d + 1) : g[n] = IF n = 0 THEN <<>> ELSE g[n - 1] \o got[order[n]]
    <3>1. ASSUME NEW n \in 0..d
          PROVE  g[n] = IF n = 0 THEN <<>> ELSE g[n - 1] \o got[order[n]]
      BY <2>2, <2>3
    <3>2. g[d + 1] = g[(d + 1) - 1] \o got[order[d + 1]]
      BY <2>3, <2>4 DEF next
    <3>3. \A n \in 0..(d + 1) : n \in 0..d \/ (n = d + 1 /\ n # 0)
      OBVIOUS
    <3> HIDE DEF g
    <3> QED
      BY <3>1, <3>2, <3>3, Zenon
  <2>6. g = [n \in 0..(d + 1) |-> g[n]]
    OBVIOUS
  <2> HIDE DEF g
  <2>7. JoinLoop(g, order, d + 1)
    BY <2>5, <2>6, Zenon DEF JoinLoop
  <2> QED
    BY <2>7 DEF CanJoin
<1> DEFINE T == {d \in Nat : ~CanJoin(order, d)}
<1> SUFFICES ASSUME T # {} PROVE FALSE
  OBVIOUS
<1>3. PICK d \in T : \A n \in T : d <= n
  BY LeastNumber
<1>4. d # 0 /\ d - 1 \in Nat /\ d - 1 \notin T
  BY <1>1, <1>3
<1>5. CanJoin(order, (d - 1) + 1)
  BY <1>2, <1>4
<1> QED
  BY <1>4, <1>5

\* FoundIn is the last value of its loop.
LEMMA FoundLoop ==
  ASSUME NEW T, NEW order \in Seq(T)
  PROVE  \E f : /\ f[0] = <<>> /\ FoundIn(order) = f[Len(order)]
                /\ \A n \in 1..Len(order) : f[n] = f[n - 1] \o got[order[n]]
<1> DEFINE f == CHOOSE g : JoinLoop(g, order, Len(order))
<1>0. Len(order) \in Nat
  OBVIOUS
<1>1. JoinLoop(f, order, Len(order))
  BY <1>0, JoinLoopEnds DEF CanJoin
<1>2. FoundIn(order) = f[Len(order)]
  BY DEF FoundIn, JoinLoop
<1> HIDE DEF f
<1>3. 0 \in 0..Len(order) /\ \A n \in 1..Len(order) : n \in 0..Len(order) /\ n # 0
  BY <1>0
<1>4. \A n \in 0..Len(order) : f[n] = IF n = 0 THEN <<>> ELSE f[n - 1] \o got[order[n]]
  BY <1>1, Zenon DEF JoinLoop
<1>5. f[0] = <<>> /\ \A n \in 1..Len(order) : f[n] = f[n - 1] \o got[order[n]]
  BY <1>3, <1>4, Zenon
<1> QED
  BY <1>2, <1>5

\* What the first n layers of an order found, layer by layer: a copy comes after
\* those that its layer read before it.
From(s, layer, p) ==
  \E i \in 1..Len(layer) : s[p] = layer[i] /\ \A h \in 1..i : \E q \in 1..p : s[q] = layer[h]
Lists(s, order, n) ==
  /\ s \in Seq(Copies)
  /\ \A k \in 1..n : \A i \in 1..Len(got[order[k]]) : \E p \in 1..Len(s) : s[p] = got[order[k]][i]
  /\ \A p \in 1..Len(s) : \E k \in 1..n : From(s, got[order[k]], p)

\* FoundIn lists what its layers found, in their order.
LEMMA FoundInLists ==
  ASSUME NEW T, NEW order \in Seq(T), \A l \in T : got[l] \in Seq(Copies)
  PROVE  Lists(FoundIn(order), order, Len(order))
<1>0. Len(order) \in Nat /\ \A n \in 1..Len(order) : order[n] \in T
  OBVIOUS
<1>1. PICK f : /\ f[0] = <<>> /\ FoundIn(order) = f[Len(order)]
               /\ \A n \in 1..Len(order) : f[n] = f[n - 1] \o got[order[n]]
  BY FoundLoop
<1>2. Lists(<<>>, order, 0)
  BY DEF Lists
<1>3. ASSUME NEW n \in 1..Len(order), NEW s, Lists(s, order, n - 1)
      PROVE  Lists(s \o got[order[n]], order, n)
  <2> DEFINE t == got[order[n]]
             u == s \o t
  <2>1. s \in Seq(Copies) /\ t \in Seq(Copies)
    BY <1>0, <1>3 DEF Lists
  <2> HIDE DEF t
  <2>2. /\ u \in Seq(Copies) /\ Len(u) = Len(s) + Len(t)
        /\ \A i \in 1..Len(s) : u[i] = s[i]
        /\ \A i \in 1..Len(t) : u[Len(s) + i] = t[i]
    BY <2>1, Joined
  <2> HIDE DEF u
  <2>3. /\ Len(s) \in Nat /\ Len(t) \in Nat
        /\ \A i \in 1..Len(s) : i \in 1..Len(u)
        /\ \A i \in 1..Len(t) : Len(s) + i \in 1..Len(u)
        /\ \A p \in 1..Len(u) : p \in 1..Len(s) \/ (p - Len(s) \in 1..Len(t) /\ Len(s) + (p - Len(s)) = p)
    BY <2>1, <2>2
  <2>4. /\ 1..n - 1 \subseteq 1..n /\ n \in 1..n
        /\ \A k \in 1..n : k \in 1..n - 1 \/ k = n
    OBVIOUS
  <2>5. ASSUME NEW k \in 1..n, NEW i \in 1..Len(got[order[k]])
        PROVE  \E p \in 1..Len(u) : u[p] = got[order[k]][i]
    <3>1. CASE k \in 1..n - 1
      <4>1. PICK p \in 1..Len(s) : s[p] = got[order[k]][i]
        BY <1>3, <3>1 DEF Lists
      <4> QED
        BY <2>2, <2>3, <4>1
    <3>2. CASE k = n
      <4>1. i \in 1..Len(t) /\ got[order[k]][i] = t[i]
        BY <3>2 DEF t
      <4> QED
        BY <2>2, <2>3, <4>1
    <3> QED
      BY <2>4, <3>1, <3>2
  <2>6. ASSUME NEW p \in 1..Len(u) PROVE \E k \in 1..n : From(u, got[order[k]], p)
    <3>1. CASE p \in 1..Len(s)
      <4>1. PICK k \in 1..n - 1 : From(s, got[order[k]], p)
        BY <1>3, <3>1 DEF Lists
      <4> DEFINE layer == got[order[k]]
      <4>2. PICK i \in 1..Len(layer) :
              s[p] = layer[i] /\ \A h \in 1..i : \E q \in 1..p : s[q] = layer[h]
        BY <4>1 DEF From
      <4> HIDE DEF layer
      <4>3. u[p] = layer[i]
        BY <2>2, <3>1, <4>2
      <4>4. \A q \in 1..p : u[q] = s[q]
        <5>1. \A q \in 1..p : q \in 1..Len(s)
          BY <2>3, <3>1
        <5> QED
          BY <2>2, <5>1
      <4>5. \A h \in 1..i : \E q \in 1..p : u[q] = layer[h]
        BY <4>2, <4>4
      <4>6. From(u, layer, p)
        BY <4>3, <4>5 DEF From
      <4> QED
        BY <2>4, <4>6 DEF layer
    <3>2. CASE p - Len(s) \in 1..Len(t) /\ Len(s) + (p - Len(s)) = p
      <4> DEFINE i == p - Len(s)
      <4>1. i \in 1..Len(t) /\ u[p] = t[i]
        BY <2>2, <3>2
      <4>2. ASSUME NEW h \in 1..i PROVE \E q \in 1..p : u[q] = t[h]
        <5>1. h \in 1..Len(t) /\ Len(s) + h \in 1..p
          BY <2>3, <3>2
        <5> QED
          BY <2>2, <5>1
      <4>3. From(u, t, p)
        BY <4>1, <4>2 DEF From
      <4> QED
        BY <2>4, <4>3 DEF t
    <3> QED
      BY <2>3, <3>1, <3>2
  <2> QED
    BY <2>2, <2>5, <2>6 DEF Lists, u, t
<1> DEFINE Bad == {n \in 0..Len(order) : ~Lists(f[n], order, n)}
<1>4. Bad = {}
  <2> SUFFICES ASSUME Bad # {} PROVE FALSE
    OBVIOUS
  <2>1. Bad \in SUBSET Nat
    OBVIOUS
  <2>2. \E n \in Bad : \A m \in Bad : n <= m
    <3> HIDE DEF Bad
    <3> QED
      BY <2>1, LeastNumber
  <2>3. PICK n \in Bad : \A m \in Bad : n <= m
    BY <2>2
  <2>4. n # 0
    BY <1>1, <1>2, <2>3
  <2>5. n \in 1..Len(order) /\ n - 1 \in 0..Len(order) /\ n - 1 \notin Bad
    BY <2>3, <2>4
  <2> QED
    BY <1>1, <1>3, <2>3, <2>5
<1> QED
  BY <1>0, <1>1, <1>4

-----------------------------------------------------------------------------
(* Copies of rows, and what a layer holds of them.                         *)

\* A list of some elements is a list of those.
LEMMA ListOf ==
  ASSUME NEW T, NEW s \in Seq(T), NEW S, ToSet(s) \subseteq S
  PROVE  s \in Seq(S)
<1>1. Len(s) \in Nat /\ ToSet(s) = {s[i] : i \in 1..Len(s)}
  BY Places
<1>2. s \in [1..Len(s) -> S]
  <2>1. s = [i \in 1..Len(s) |-> s[i]]
    OBVIOUS
  <2>2. \A i \in 1..Len(s) : s[i] \in S
    BY <1>1
  <2> QED
    BY <2>1, <2>2
<1> QED
  BY <1>1, <1>2

\* A list is its head and its tail.
LEMMA HeadAndTail ==
  ASSUME NEW T, NEW s \in Seq(T), s # <<>>
  PROVE  /\ Head(s) \in T /\ Tail(s) \in Seq(T) /\ ToSet(s) = {Head(s)} \cup ToSet(Tail(s))
         /\ IsInjective(s) => IsInjective(Tail(s)) /\ Head(s) \notin ToSet(Tail(s))
<1> DEFINE t == Tail(s)
<1>1. /\ Len(s) \in Nat /\ 1 <= Len(s) /\ Head(s) = s[1] /\ s[1] \in T /\ t \in Seq(T)
      /\ Len(t) = Len(s) - 1 /\ \A i \in 1..Len(t) : t[i] = s[i + 1]
  OBVIOUS
<1> HIDE DEF t
<1>2. /\ DOMAIN s = 1..Len(s) /\ ToSet(s) = {s[i] : i \in 1..Len(s)}
      /\ DOMAIN t = 1..Len(t) /\ ToSet(t) = {t[i] : i \in 1..Len(t)}
  BY <1>1, Places
<1>3. /\ \A i \in 1..Len(t) : i + 1 \in 1..Len(s) /\ i + 1 # 1
      /\ \A i \in 1..Len(s) : i = 1 \/ (i - 1 \in 1..Len(t) /\ i - 1 + 1 = i)
      /\ 1 \in 1..Len(s) /\ \A i, j \in 1..Len(t) : i + 1 = j + 1 => i = j
  BY <1>1
<1>4. ToSet(s) = {s[1]} \cup ToSet(t)
  <2>1. ToSet(t) \subseteq ToSet(s) /\ s[1] \in ToSet(s)
    <3>1. ASSUME NEW i \in 1..Len(t) PROVE t[i] \in ToSet(s)
      BY <1>1, <1>2, <1>3
    <3> QED
      BY <1>2, <1>3, <3>1
  <2>2. ASSUME NEW i \in 1..Len(s) PROVE s[i] \in {s[1]} \cup ToSet(t)
    <3>1. CASE i - 1 \in 1..Len(t) /\ i - 1 + 1 = i
      <4>1. t[i - 1] = s[i - 1 + 1]
        BY <1>1, <3>1
      <4>2. t[i - 1] \in ToSet(t)
        BY <1>2, <3>1
      <4> QED
        BY <3>1, <4>1, <4>2
    <3> QED
      BY <1>3, <3>1
  <2> QED
    BY <1>2, <2>1, <2>2
<1>5. ASSUME IsInjective(s) PROVE IsInjective(t) /\ s[1] \notin ToSet(t)
  <2>1. \A i, j \in 1..Len(s) : s[i] = s[j] => i = j
    BY <1>2, <1>5 DEF IsInjective
  <2>2. \A i, j \in 1..Len(t) : t[i] = t[j] => i = j
    BY <1>1, <1>3, <2>1
  <2>3. \A i \in 1..Len(t) : t[i] # s[1]
    BY <1>1, <1>3, <2>1
  <2> QED
    BY <1>2, <2>2, <2>3 DEF IsInjective
<1> QED
  BY <1>1, <1>4, <1>5 DEF t

\* The keys of a list of copies.
LEMMA KeysOfIs ==
  ASSUME NEW s \in Seq(Copies)
  PROVE  /\ KeysOf(s) \in Seq(AllKeys) /\ Len(KeysOf(s)) = Len(s)
         /\ \A i \in 1..Len(s) : KeysOf(s)[i] = s[i].key /\ s[i] \in Copies
         /\ ToSet(KeysOf(s)) = {s[i].key : i \in 1..Len(s)}
<1>1. Len(s) \in Nat /\ DOMAIN s = 1..Len(s) /\ \A i \in 1..Len(s) : s[i] \in Copies
  BY Places
<1>2. \A c \in Copies : c.key \in AllKeys
  BY DEF Copies
<1>3. KeysOf(s) = [i \in 1..Len(s) |-> s[i].key]
  BY <1>1 DEF KeysOf
<1>4. KeysOf(s) \in [1..Len(s) -> AllKeys]
  BY <1>1, <1>2, <1>3
<1>5. KeysOf(s) \in Seq(AllKeys) /\ Len(KeysOf(s)) = Len(s)
  BY <1>1, <1>3, <1>4
<1>6. \A i \in 1..Len(s) : KeysOf(s)[i] = s[i].key
  BY <1>3
<1>7. ToSet(KeysOf(s)) = {KeysOf(s)[i] : i \in 1..Len(s)}
  <2>1. ToSet(KeysOf(s)) = {KeysOf(s)[i] : i \in 1..Len(KeysOf(s))}
    BY <1>5, Places
  <2> QED
    BY <1>5, <2>1
<1>8. ToSet(KeysOf(s)) = {s[i].key : i \in 1..Len(s)}
  BY <1>6, <1>7
<1> QED
  BY <1>1, <1>5, <1>6, <1>8

\* A row is read as a copy; a fact with the expiry it has now.
LEMMA CopyIs ==
  ASSUME until \in [Facts -> 0..Never], NEW key \in AllKeys
  PROVE  /\ Copy(key) \in Copies /\ Copy(key).key = key
         /\ IsFact(key) => key[2] \in Facts /\ Copy(key).until = until[key[2]]
<1>1. MaxClock \in Nat /\ Never \in 0..Never
  BY QuestionAssumption DEF Never
<1>2. key[1] = "fact" => key[2] \in Facts
  BY DEF AllKeys
<1>3. (IF key[1] = "fact" THEN until[key[2]] ELSE Never) \in 0..Never
  BY <1>1, <1>2
<1> QED
  BY <1>2, <1>3 DEF Copy, Copies, IsFact

\* No key of a layer comes twice, read or not.
OnceEach(read, left) ==
  IsInjective(KeysOf(read)) /\ IsInjective(left) /\ ToSet(KeysOf(read)) \cap ToSet(left) = {}

\* An empty layer has no key twice.
LEMMA NothingTwice == KeysOf(<<>>) = <<>> /\ OnceEach(<<>>, <<>>)
<1>1. KeysOf(<<>>) = <<>>
  BY DEF KeysOf
<1> QED
  BY <1>1 DEF OnceEach, IsInjective, ToSet

\* Reading the next hit, or leaving it out, repeats no key.
LEMMA ReadsOnce ==
  ASSUME NEW read \in Seq(Copies), NEW left \in Seq(AllKeys), left # <<>>, OnceEach(read, left),
         NEW c \in Copies, c.key = Head(left)
  PROVE  OnceEach(Append(read, c), Tail(left)) /\ OnceEach(read, Tail(left))
<1> DEFINE a == Append(read, c)
           keys == KeysOf(a)
           old == KeysOf(read)
<1>1. /\ Head(left) \in AllKeys /\ Tail(left) \in Seq(AllKeys)
      /\ ToSet(left) = {Head(left)} \cup ToSet(Tail(left))
      /\ IsInjective(Tail(left)) /\ Head(left) \notin ToSet(Tail(left))
  BY HeadAndTail DEF OnceEach
<1>2. /\ a \in Seq(Copies) /\ Len(a) = Len(read) + 1 /\ a[Len(read) + 1] = c
      /\ \A i \in 1..Len(read) : a[i] = read[i]
  BY Appended
<1> HIDE DEF a
<1>3. /\ keys \in Seq(AllKeys) /\ Len(keys) = Len(a)
      /\ \A i \in 1..Len(a) : keys[i] = a[i].key
      /\ ToSet(keys) = {a[i].key : i \in 1..Len(a)}
  BY <1>2, KeysOfIs
<1>4. /\ old \in Seq(AllKeys) /\ Len(old) = Len(read)
      /\ \A i \in 1..Len(read) : old[i] = read[i].key
      /\ ToSet(old) = {read[i].key : i \in 1..Len(read)}
  BY KeysOfIs
<1> HIDE DEF keys, old
<1>5. Len(read) \in Nat /\ DOMAIN keys = 1..Len(a) /\ DOMAIN old = 1..Len(read)
  BY <1>3, <1>4
<1>6. /\ \A i \in 1..Len(a) : i \in 1..Len(read) \/ i = Len(read) + 1
      /\ \A i \in 1..Len(read) : i \in 1..Len(a) /\ i # Len(read) + 1
      /\ Len(read) + 1 \in 1..Len(a)
  BY <1>2, <1>5
<1>7. keys[Len(read) + 1] = Head(left) /\ \A i \in 1..Len(read) : keys[i] = old[i]
  BY <1>2, <1>3, <1>4, <1>6
<1>8. \A i \in 1..Len(read) : old[i] # Head(left)
  BY <1>1, <1>4 DEF OnceEach, old
<1>9. IsInjective(keys)
  <2>1. \A i, j \in 1..Len(read) : old[i] = old[j] => i = j
    BY <1>5 DEF OnceEach, IsInjective, old
  <2>2. \A i, j \in 1..Len(a) : keys[i] = keys[j] => i = j
    BY <1>6, <1>7, <1>8, <2>1
  <2> QED
    BY <1>5, <2>2 DEF IsInjective
<1>10. ToSet(keys) = ToSet(old) \cup {Head(left)}
  <2>1. ToSet(keys) = {keys[i] : i \in 1..Len(a)}
    BY <1>3, Places
  <2>2. ToSet(old) = {old[i] : i \in 1..Len(read)}
    BY <1>4, Places
  <2>3. ToSet(keys) \subseteq ToSet(old) \cup {Head(left)}
    BY <1>6, <1>7, <2>1, <2>2
  <2>4. ToSet(old) \subseteq ToSet(keys) /\ Head(left) \in ToSet(keys)
    BY <1>6, <1>7, <2>1, <2>2
  <2> QED
    BY <2>3, <2>4
<1>11. ToSet(old) \cap ToSet(left) = {} /\ IsInjective(old)
  BY DEF OnceEach, old
<1>12. OnceEach(a, Tail(left))
  BY <1>1, <1>9, <1>10, <1>11 DEF OnceEach, keys
<1> QED
  BY <1>1, <1>11, <1>12 DEF OnceEach, a, old

\* The layers by name.
LEMMA LayersAre ==
  /\ SearchLayers \subseteq Layers /\ "graph" \in Layers /\ {"preferences", "recent"} \subseteq Layers
  /\ "graph" \notin SearchLayers \cup {"preferences", "recent"}
  /\ ToSet(ContextOrder) = {"factVec", "factText", "preferences", "recent"}
<1>1. ToSet(ContextOrder) = {"factVec", "factText", "preferences", "recent"}
  BY DEF ToSet, ContextOrder
<1> QED
  BY <1>1 DEF Layers, QueryLayers, SearchLayers

\* What the layers hold: only the rows of their table, nothing before they are
\* searched, and no key twice but in the graph layer.
LayersHold ==
  /\ hits \in [Layers -> Seq(AllKeys)] /\ got \in [Layers -> Seq(Copies)]
  /\ open \subseteq asked /\ "graph" \notin open
  /\ \A l \in Layers :
       /\ hits[l] \in Seq(OfTable(TableOf(l)))
       /\ l \notin asked \/ l \in open => hits[l] = <<>> /\ got[l] = <<>>
       /\ l # "graph" => OnceEach(got[l], hits[l])
\* A step reads rows only as they are now.
ReadsNow ==
  \A l \in Layers : \A i \in 1..Len(got'[l]) :
    \/ \E j \in 1..Len(got[l]) : got'[l][i] = got[l][j]
    \/ \E key \in AllKeys : got'[l][i] = Copy(key)

\* A search returns keys of its own table, each once.
LEMMA FirstKeysAre ==
  ASSUME NEW l \in SearchLayers
  PROVE  /\ FirstKeys(l) \in Seq(AllKeys) /\ FirstKeys(l) \in Seq(OfTable(TableOf(l)))
         /\ IsInjective(FirstKeys(l))
<1> DEFINE here == OfTable(TableOf(l))
           indexed == KeysIn({key \in AllKeys : Indexed(key, vkey)}, VectorOrder)
           oversampled == First(Oversampled(LimitOf[l]), indexed)
<1>1. LimitOf[l] \in Nat /\ Oversampled(LimitOf[l]) \in Nat
  BY LayersAre, QuestionAssumption DEF Oversampled
<1>2. indexed \in Seq(AllKeys) /\ IsInjective(indexed)
  BY QuestionAssumption, KeysInIs
<1> HIDE DEF indexed
<1>3. oversampled \in Seq(AllKeys) /\ IsInjective(oversampled)
  BY <1>1, <1>2, FirstIs
<1> HIDE DEF oversampled, here
<1>4. /\ KeysIn(here, oversampled) \in Seq(AllKeys)
      /\ IsInjective(KeysIn(here, oversampled))
      /\ ToSet(KeysIn(here, oversampled)) \subseteq here
  BY <1>3, KeysInIs
<1> DEFINE there == {key \in here : Indexed(key, tier)}
<1>5. /\ KeysIn(there, TextOrder) \in Seq(AllKeys) /\ IsInjective(KeysIn(there, TextOrder))
      /\ ToSet(KeysIn(there, TextOrder)) \subseteq there
  <2> HIDE DEF there
  <2> QED
    BY QuestionAssumption, KeysInIs
<1> DEFINE keys == IF IsVector(l) THEN NearestKeys(l) ELSE MatchingKeys(l)
<1>6. keys \in Seq(AllKeys) /\ IsInjective(keys) /\ ToSet(keys) \subseteq here
  BY <1>4, <1>5 DEF NearestKeys, MatchingKeys, here, oversampled, indexed
<1> HIDE DEF keys
<1>7. /\ First(LimitOf[l], keys) \in Seq(AllKeys) /\ IsInjective(First(LimitOf[l], keys))
      /\ ToSet(First(LimitOf[l], keys)) \subseteq ToSet(keys)
  BY <1>1, <1>6, FirstIs
<1>8. First(LimitOf[l], keys) \in Seq(here)
  BY <1>6, <1>7, ListOf
<1> QED
  BY <1>7, <1>8 DEF FirstKeys, keys, here

\* A search keeps LayersHold and reads no row.
LEMMA SearchStep ==
  ASSUME NEW l \in Layers, LayersHold, Search(l)
  PROVE  LayersHold' /\ ReadsNow
<1>1. /\ l \in open /\ l \in SearchLayers /\ open' = open \ {l}
      /\ hits' = [hits EXCEPT ![l] = FirstKeys(l)] /\ got' = got /\ asked' = asked
  BY DEF Search, Reads
<1>2. FirstKeys(l) \in Seq(AllKeys) /\ FirstKeys(l) \in Seq(OfTable(TableOf(l))) /\ IsInjective(FirstKeys(l))
  BY <1>1, FirstKeysAre
<1>3. hits' \in [Layers -> Seq(AllKeys)]
  BY <1>1, <1>2 DEF LayersHold
<1>4. got[l] = <<>> /\ OnceEach(got[l], FirstKeys(l))
  <2>1. got[l] = <<>>
    BY <1>1 DEF LayersHold
  <2>2. OnceEach(<<>>, FirstKeys(l))
    BY <1>2, NothingTwice DEF OnceEach, ToSet
  <2> QED
    BY <2>1, <2>2
<1>5. ASSUME NEW x \in Layers
      PROVE  /\ hits'[x] \in Seq(OfTable(TableOf(x)))
             /\ x \notin asked' \/ x \in open' => hits'[x] = <<>> /\ got'[x] = <<>>
             /\ x # "graph" => OnceEach(got'[x], hits'[x])
  <2>1. CASE x = l
    <3>1. hits'[x] = FirstKeys(l) /\ got'[x] = got[l]
      BY <1>1, <2>1 DEF LayersHold
    <3>2. x \in asked' /\ x \notin open'
      BY <1>1, <2>1 DEF LayersHold
    <3> QED
      BY <1>2, <1>4, <2>1, <3>1, <3>2
  <2>2. CASE x # l
    <3>1. hits'[x] = hits[x] /\ got'[x] = got[x] /\ (x \in open' => x \in open)
      BY <1>1, <2>2 DEF LayersHold
    <3> QED
      BY <1>1, <3>1 DEF LayersHold
  <2> QED
    BY <2>1, <2>2
<1>6. got' \in [Layers -> Seq(Copies)] /\ open' \subseteq asked' /\ "graph" \notin open'
  BY <1>1 DEF LayersHold
<1>7. ReadsNow
  BY <1>1 DEF ReadsNow
<1> QED
  BY <1>3, <1>5, <1>6, <1>7 DEF LayersHold

\* ReadRow keeps LayersHold and reads a row as it is now.
LEMMA ReadRowStep ==
  ASSUME NEW l \in Layers, LayersHold, until \in [Facts -> 0..Never], ReadRow(l)
  PROVE  LayersHold' /\ ReadsNow
<1> DEFINE key == Head(hits[l])
           read == IF HasRow(key) THEN Append(got[l], Copy(key)) ELSE got[l]
<1>1. /\ hits[l] # <<>> /\ hits' = [hits EXCEPT ![l] = Tail(hits[l])] /\ open' = open /\ asked' = asked
      /\ got' = [got EXCEPT ![l] = read] /\ l \in asked
  <2>1. got' = IF HasRow(key) THEN [got EXCEPT ![l] = Append(got[l], Copy(key))] ELSE got
    BY DEF ReadRow
  <2>2. got = [got EXCEPT ![l] = got[l]]
    BY DEF LayersHold
  <2>3. got' = [got EXCEPT ![l] = read]
    BY <2>1, <2>2
  <2> QED
    BY <2>3 DEF ReadRow, Reads, MayRun
<1>2. hits[l] \in Seq(AllKeys) /\ got[l] \in Seq(Copies) /\ hits[l] \in Seq(OfTable(TableOf(l)))
  BY DEF LayersHold
<1>3. key \in AllKeys /\ Tail(hits[l]) \in Seq(AllKeys)
  BY <1>1, <1>2, HeadAndTail
<1>4. Tail(hits[l]) \in Seq(OfTable(TableOf(l)))
  BY <1>1, <1>2, HeadAndTail
<1>5. Copy(key) \in Copies /\ Copy(key).key = key
  BY <1>3, CopyIs
<1> DEFINE a == Append(got[l], Copy(key))
<1>6. /\ a \in Seq(Copies) /\ Len(a) = Len(got[l]) + 1 /\ a[Len(got[l]) + 1] = Copy(key)
      /\ \A i \in 1..Len(got[l]) : a[i] = got[l][i]
  BY <1>2, <1>5, Appended
<1>7. OnceEach(got[l], hits[l]) => OnceEach(a, Tail(hits[l])) /\ OnceEach(got[l], Tail(hits[l]))
  BY <1>1, <1>2, <1>5, ReadsOnce
<1>8. read = a \/ read = got[l]
  OBVIOUS
<1> HIDE DEF a, read, key
<1>9. /\ read \in Seq(Copies) /\ (OnceEach(got[l], hits[l]) => OnceEach(read, Tail(hits[l])))
      /\ \A i \in 1..Len(read) : (\E j \in 1..Len(got[l]) : read[i] = got[l][j]) \/ read[i] = Copy(key)
  <2>1. CASE read = a
    <3>1. \A i \in 1..Len(a) : i \in 1..Len(got[l]) \/ i = Len(got[l]) + 1
      BY <1>2, <1>6
    <3> QED
      BY <1>6, <1>7, <2>1, <3>1
  <2>2. CASE read = got[l]
    BY <1>2, <1>7, <2>2
  <2> QED
    BY <1>8, <2>1, <2>2
<1>10. hits' \in [Layers -> Seq(AllKeys)] /\ got' \in [Layers -> Seq(Copies)]
  BY <1>1, <1>3, <1>9 DEF LayersHold
<1>11. ASSUME NEW x \in Layers
      PROVE  /\ hits'[x] \in Seq(OfTable(TableOf(x)))
             /\ x \notin asked' \/ x \in open' => hits'[x] = <<>> /\ got'[x] = <<>>
             /\ x # "graph" => OnceEach(got'[x], hits'[x])
             /\ \A i \in 1..Len(got'[x]) :
                  \/ \E j \in 1..Len(got[x]) : got'[x][i] = got[x][j]
                  \/ \E k \in AllKeys : got'[x][i] = Copy(k)
  <2>1. CASE x = l
    <3>1. hits'[x] = Tail(hits[l]) /\ got'[x] = read
      BY <1>1, <2>1 DEF LayersHold
    <3>2. x \in asked' /\ x \notin open'
      BY <1>1, <2>1 DEF LayersHold
    <3>3. x # "graph" => OnceEach(got[l], hits[l])
      BY <2>1 DEF LayersHold
    <3> QED
      BY <1>3, <1>4, <1>9, <2>1, <3>1, <3>2, <3>3
  <2>2. CASE x # l
    <3>1. hits'[x] = hits[x] /\ got'[x] = got[x] /\ open' = open /\ asked' = asked
      BY <1>1, <2>2 DEF LayersHold
    <3> QED
      BY <3>1 DEF LayersHold
  <2> QED
    BY <2>1, <2>2
<1>12. open' \subseteq asked' /\ "graph" \notin open'
  BY <1>1 DEF LayersHold
<1> QED
  BY <1>10, <1>11, <1>12 DEF LayersHold, ReadsNow

\* Relationships name the fact they came from, if they name one.
SourcesOf == IsFiniteSet(rels) /\ \A r \in rels : r.source \in Old \cup {NoFact}

\* retrieveByGraph keeps LayersHold: sources are facts.
LEMMA GraphStep ==
  ASSUME LayersHold, SourcesOf, retrieveByGraph
  PROVE  LayersHold' /\ ReadsNow
<1>1. PICK s \in SourceFacts(Head(words)) : hits' = [hits EXCEPT !["graph"] = s]
  BY DEF retrieveByGraph
<1>2. got' = got /\ open' = open /\ asked' = asked /\ "graph" \in asked
  BY DEF retrieveByGraph, Reads, MayRun
<1> DEFINE S == {r \in OneHop(Head(words)) : r.source # NoFact}
<1>3. PICK o \in SetToSeqs(S) : s = [i \in DOMAIN o |-> <<"fact", o[i].source>>]
  BY <1>1 DEF SourceFacts
<1>4. S \subseteq {r \in rels : r.source \in Old}
  BY DEF OneHop, SourcesOf
<1>5. IsFiniteSet(S)
  BY <1>4, FS_Subset DEF SourcesOf
<1> HIDE DEF S
<1>6. o \in Seq(S)
  BY <1>5, OrderOf
<1>7. Len(o) \in Nat /\ DOMAIN o = 1..Len(o) /\ \A i \in 1..Len(o) : o[i].source \in Facts
  <2>1. \A r \in S : r.source \in Facts
    BY <1>4, StoreAssumption
  <2> QED
    BY <1>6, <2>1, Places
<1>8. \A f \in Facts : <<"fact", f>> \in AllKeys /\ <<"fact", f>>[1] = "fact"
  BY DEF AllKeys
<1>9. \A f \in Facts : <<"fact", f>> \in OfTable("fact")
  BY <1>8 DEF OfTable
<1>10. s \in Seq(AllKeys) /\ s \in Seq(OfTable("fact"))
  <2>1. s = [i \in 1..Len(o) |-> <<"fact", o[i].source>>]
    BY <1>3, <1>7
  <2>2. s \in [1..Len(o) -> AllKeys] /\ s \in [1..Len(o) -> OfTable("fact")]
    BY <1>7, <1>8, <1>9, <2>1
  <2> QED
    BY <1>7, <2>2
<1>11. hits' \in [Layers -> Seq(AllKeys)]
  BY <1>1, <1>10, LayersAre DEF LayersHold
<1>12. TableOf("graph") = "fact"
  BY DEF TableOf
<1>13. ASSUME NEW x \in Layers
       PROVE  /\ hits'[x] \in Seq(OfTable(TableOf(x)))
              /\ x \notin asked' \/ x \in open' => hits'[x] = <<>> /\ got'[x] = <<>>
              /\ x # "graph" => OnceEach(got'[x], hits'[x])
  <2>1. CASE x = "graph"
    <3>1. hits'[x] = s
      BY <1>1, <2>1 DEF LayersHold
    <3> QED
      BY <1>2, <1>10, <1>12, <2>1, <3>1 DEF LayersHold
  <2>2. CASE x # "graph"
    <3>1. hits'[x] = hits[x] /\ got'[x] = got[x]
      BY <1>1, <1>2, <2>2 DEF LayersHold
    <3> QED
      BY <1>2, <3>1 DEF LayersHold
  <2> QED
    BY <2>1, <2>2
<1> QED
  BY <1>2, <1>11, <1>13 DEF LayersHold, ReadsNow

\* ListFacts keeps LayersHold and reads rows as they are now.
LEMMA ListFactsStep ==
  ASSUME NEW l \in Layers, LayersHold, RetrievalTypeOK, ListFacts(l)
  PROVE  LayersHold' /\ ReadsNow
<1> DEFINE S == IF l = "recent" THEN rows \ Old ELSE rows \cap Preferences
<1>1. PICK o \in Newest(S) :
        got' = [got EXCEPT ![l] = First(LimitOf[l], [i \in DOMAIN o |-> Copy(<<"fact", o[i]>>)])]
  BY DEF ListFacts
<1>2. hits' = hits /\ open' = open \ {l} /\ asked' = asked /\ l \in open /\ l # "graph" /\ l \in asked
  BY LayersAre DEF ListFacts, Reads, MayRun
<1>3. S \subseteq Facts /\ IsFiniteSet(S)
  <2>1. S \subseteq Facts
    BY DEF RetrievalTypeOK
  <2> QED
    BY <2>1, FS_Subset, StoreAssumption
<1> HIDE DEF S
<1>4. o \in Seq(S) /\ IsInjective(o)
  BY <1>1, <1>3, OrderOf DEF Newest
<1>5. Len(o) \in Nat /\ DOMAIN o = 1..Len(o) /\ \A i \in 1..Len(o) : o[i] \in Facts
  BY <1>3, <1>4, Places
<1> DEFINE t == [i \in DOMAIN o |-> Copy(<<"fact", o[i]>>)]
           u == First(LimitOf[l], t)
<1>6. \A i \in 1..Len(o) : /\ <<"fact", o[i]>> \in AllKeys /\ Copy(<<"fact", o[i]>>) \in Copies
                           /\ Copy(<<"fact", o[i]>>).key = <<"fact", o[i]>>
  <2>1. \A i \in 1..Len(o) : <<"fact", o[i]>> \in AllKeys
    BY <1>5 DEF AllKeys
  <2>2. until \in [Facts -> 0..Never]
    BY DEF RetrievalTypeOK
  <2> QED
    BY <2>1, <2>2, CopyIs
<1>7. t = [i \in 1..Len(o) |-> Copy(<<"fact", o[i]>>)]
  BY <1>5
<1> HIDE DEF t
<1>8. t \in [1..Len(o) -> Copies]
  BY <1>6, <1>7
<1>9. t \in Seq(Copies) /\ Len(t) = Len(o) /\ \A i \in 1..Len(o) : t[i] = Copy(<<"fact", o[i]>>)
  <2>1. t \in Seq(Copies) /\ Len(t) = Len(o)
    BY <1>5, <1>8
  <2>2. \A i \in 1..Len(o) : t[i] = Copy(<<"fact", o[i]>>)
    BY <1>7
  <2> QED
    BY <2>1, <2>2
<1>10. LimitOf[l] \in Nat
  BY QuestionAssumption
<1>11. u \in Seq(Copies) /\ Len(u) <= Len(t) /\ \A i \in 1..Len(u) : u[i] = t[i]
  BY <1>9, <1>10, FirstIs
<1> HIDE DEF u
<1>12. Len(u) \in Nat /\ \A i \in 1..Len(u) : i \in 1..Len(o)
  BY <1>5, <1>9, <1>11
<1>13. /\ KeysOf(u) \in Seq(AllKeys) /\ Len(KeysOf(u)) = Len(u) /\ DOMAIN KeysOf(u) = 1..Len(u)
       /\ \A i \in 1..Len(u) : KeysOf(u)[i] = u[i].key
  <2>1. KeysOf(u) \in Seq(AllKeys) /\ Len(KeysOf(u)) = Len(u) /\ \A i \in 1..Len(u) : KeysOf(u)[i] = u[i].key
    BY <1>11, KeysOfIs
  <2> QED
    BY <2>1, Places
<1>14. \A i \in 1..Len(u) : KeysOf(u)[i] = <<"fact", o[i]>>
  BY <1>6, <1>9, <1>11, <1>12, <1>13
<1>15. IsInjective(KeysOf(u))
  <2>1. \A i, j \in 1..Len(o) : o[i] = o[j] => i = j
    BY <1>4, <1>5 DEF IsInjective
  <2>2. ASSUME NEW i \in 1..Len(u), NEW j \in 1..Len(u), KeysOf(u)[i] = KeysOf(u)[j] PROVE i = j
    <3>1. <<"fact", o[i]>> = <<"fact", o[j]>>
      BY <1>14, <2>2
    <3>2. o[i] = o[j]
      BY <3>1
    <3> QED
      BY <1>12, <2>1, <3>2
  <2> QED
    BY <1>13, <2>2 DEF IsInjective
<1>16. OnceEach(u, <<>>)
  BY <1>15 DEF OnceEach, IsInjective, ToSet
<1>17. got' = [got EXCEPT ![l] = u]
  BY <1>1 DEF t, u
<1>18. got' \in [Layers -> Seq(Copies)]
  BY <1>11, <1>17 DEF LayersHold
<1>19. ASSUME NEW x \in Layers
       PROVE  /\ hits'[x] \in Seq(OfTable(TableOf(x)))
              /\ x \notin asked' \/ x \in open' => hits'[x] = <<>> /\ got'[x] = <<>>
              /\ x # "graph" => OnceEach(got'[x], hits'[x])
              /\ \A i \in 1..Len(got'[x]) :
                   \/ \E j \in 1..Len(got[x]) : got'[x][i] = got[x][j]
                   \/ \E key \in AllKeys : got'[x][i] = Copy(key)
  <2>1. CASE x = l
    <3>1. got'[x] = u /\ hits'[x] = <<>>
      BY <1>2, <1>17, <2>1 DEF LayersHold
    <3>2. \A i \in 1..Len(u) : \E key \in AllKeys : u[i] = Copy(key)
      BY <1>6, <1>9, <1>11, <1>12
    <3> QED
      BY <1>2, <1>16, <2>1, <3>1, <3>2 DEF LayersHold
  <2>2. CASE x # l
    <3>1. hits'[x] = hits[x] /\ got'[x] = got[x] /\ (x \in open' => x \in open)
      BY <1>2, <1>17, <2>2 DEF LayersHold
    <3> QED
      BY <1>2, <3>1 DEF LayersHold
  <2> QED
    BY <2>1, <2>2
<1> QED
  BY <1>2, <1>18, <1>19 DEF LayersHold, ReadsNow

-----------------------------------------------------------------------------
(* The values of a request's variables.                                    *)

\* The values of the layers' lists.
LayersTyped ==
  /\ asked \subseteq Layers /\ open \subseteq asked
  /\ \A l \in Layers :
       /\ hits[l] \in Seq({k \in AllKeys : k[1] = TableOf(l)})
       /\ \A i \in DOMAIN got[l] : got[l][i].key \in AllKeys /\ got[l][i].until \in 0..Never
       /\ l \notin asked => hits[l] = <<>> /\ got[l] = <<>>

\* LayersHold gives the layers' part of the type invariant.
LEMMA LayersHoldTyped == LayersHold /\ asked \subseteq Layers => LayersTyped
<1> SUFFICES ASSUME LayersHold, asked \subseteq Layers, NEW l \in Layers
             PROVE  /\ hits[l] \in Seq({k \in AllKeys : k[1] = TableOf(l)})
                    /\ \A i \in DOMAIN got[l] : got[l][i].key \in AllKeys /\ got[l][i].until \in 0..Never
                    /\ l \notin asked => hits[l] = <<>> /\ got[l] = <<>>
  BY DEF LayersTyped, LayersHold
<1>1. hits[l] \in Seq({k \in AllKeys : k[1] = TableOf(l)})
  BY DEF LayersHold, OfTable
<1>2. ASSUME NEW i \in DOMAIN got[l] PROVE got[l][i].key \in AllKeys /\ got[l][i].until \in 0..Never
  <2>1. got[l] \in Seq(Copies)
    BY DEF LayersHold
  <2>2. got[l][i] \in Copies
    BY <2>1
  <2> QED
    BY <2>2 DEF Copies
<1> QED
  BY <1>1, <1>2 DEF LayersHold

\* The rest of the type invariant.
StoreTyped ==
  /\ clock \in 0..MaxClock /\ writes \in 0..MaxWrites /\ mergedAt \in 0..MaxClock
  /\ rows \subseteq known /\ known \subseteq Facts /\ until \in [Facts -> 0..Never]
  /\ tier \in [Messages -> {"hot", "cool"}] /\ vkey \in [Messages -> {"hot", "cool"}]
  /\ \A m \in Messages : vkey[m] = "cool" => tier[m] = "cool"
  /\ chunkRows \subseteq Chunks
RequestTyped ==
  /\ expiredAll \subseteq Facts
  /\ phase \in {"idle", "search", "rank", "send", "done"}
  /\ citations \subseteq Facts /\ logged \in BOOLEAN /\ kind \in {"query", "retrieve", "context"}

RequestInv ==
  /\ StoreTyped /\ RequestTyped /\ asked \subseteq Layers /\ LayersHold /\ SourcesOf
  /\ phase = "idle" => asked = {}
  /\ phase \in {"rank", "send"} => kind = "query"

\* The invariant implies the type invariant.
LEMMA RequestInvTypes == RequestInv => RetrievalTypeOK
  BY LayersHoldTyped DEF RequestInv, LayersTyped, RetrievalTypeOK, StoreTyped, RequestTyped

\* The invariant holds at first.
LEMMA RequestBegins == RetrievalInit => RequestInv
<1> SUFFICES ASSUME RetrievalInit PROVE RequestInv
  OBVIOUS
<1>1. MaxClock \in Nat /\ MaxWrites \in Nat /\ Never \in 0..Never /\ 0 \in 0..MaxClock /\ 0 \in 0..MaxWrites
  BY QuestionAssumption DEF Never
<1>2. StoreTyped
  BY <1>1, StoreAssumption DEF StoreTyped, RetrievalInit
<1>3. RequestTyped /\ asked \subseteq Layers /\ (phase = "idle" => asked = {}) /\ phase = "idle"
  BY DEF RequestTyped, RetrievalInit
<1>4. LayersHold
  <2>1. hits = [l \in Layers |-> <<>>] /\ got = [l \in Layers |-> <<>>] /\ open = {} /\ asked = {}
    BY DEF RetrievalInit
  <2>2. <<>> \in Seq(AllKeys) /\ <<>> \in Seq(Copies) /\ \A T : <<>> \in Seq(T)
    OBVIOUS
  <2> QED
    BY <2>1, <2>2, NothingTwice DEF LayersHold
<1>5. SourcesOf
  BY StoreAssumption DEF SourcesOf, RetrievalInit
<1> QED
  BY <1>2, <1>3, <1>4, <1>5 DEF RequestInv

\* What a step of the store leaves alone.
StoreStep ==
  UNCHANGED <<asked, open, hits, got, phase, kind, words, mergedAt, merged, prompt, citations, logged>>

\* A step of the store keeps the invariant if it keeps its own part.
LEMMA StoreStepKeeps ==
  ASSUME RequestInv, StoreStep, StoreTyped', expiredAll' \subseteq Facts, SourcesOf'
  PROVE  RequestInv'
<1>1. LayersHold'
  BY DEF RequestInv, StoreStep, LayersHold
<1>2. RequestTyped' /\ asked' \subseteq Layers
  BY DEF RequestInv, RequestTyped, StoreStep
<1>3. (phase = "idle" => asked = {})' /\ (phase \in {"rank", "send"} => kind = "query")'
  BY DEF RequestInv, StoreStep
<1> QED
  BY <1>1, <1>2, <1>3 DEF RequestInv

\* Time and the writers leave the request alone.
LEMMA StoreChangeIsStoreStep ==
  ASSUME Tick \/ StoreChanges
  PROVE  StoreStep /\ clock' \in {clock, clock + 1}
<1>1. CASE Tick
  BY <1>1 DEF Tick, StoreStep, requestVars, layerVars, resultVars
<1>2. ASSUME NEW f \in Facts, StoreRelationship(f)
      PROVE  StoreStep /\ clock' = clock
  BY <1>2 DEF StoreRelationship, Writes, StoreStep, requestVars, layerVars, resultVars
<1>3. ASSUME NEW f \in Facts, NEW u \in 0..Never, StoreFact(f, u) \/ SetValidUntil(f, u)
      PROVE  StoreStep /\ clock' = clock
  BY <1>3 DEF StoreFact, SetValidUntil, Writes, StoreStep, requestVars, layerVars, resultVars
<1>4. CASE DeleteExpiredFacts
  BY <1>4 DEF DeleteExpiredFacts, Writes, StoreStep, requestVars, layerVars, resultVars
<1>5. CASE DeleteTranscriptChunks
  BY <1>5 DEF DeleteTranscriptChunks, Writes, StoreStep, requestVars, layerVars, resultVars
<1>6. ASSUME NEW m \in Messages, MoveHotToCooldown(m) \/ Reprefix(m)
      PROVE  StoreStep /\ clock' = clock
  BY <1>6 DEF MoveHotToCooldown, Reprefix, Writes, StoreStep, requestVars, layerVars, resultVars
<1> QED
  BY <1>1, <1>2, <1>3, <1>4, <1>5, <1>6 DEF StoreChanges

\* Time and the writers keep the store's part of the invariant.
LEMMA StoreChangeTyped ==
  ASSUME RequestInv, Tick \/ StoreChanges
  PROVE  StoreTyped' /\ expiredAll' \subseteq Facts /\ SourcesOf'
<1>0. MaxClock \in Nat /\ MaxWrites \in Nat /\ StoreTyped /\ RequestTyped /\ SourcesOf
  BY QuestionAssumption DEF RequestInv
<1>1. CASE Tick
  BY <1>0, <1>1 DEF Tick, storeVars, resultVars, requestHistory, StoreTyped, RequestTyped, SourcesOf
<1>w. Writes => /\ writes' \in 0..MaxWrites /\ clock' = clock /\ mergedAt' = mergedAt
  BY <1>0 DEF Writes, resultVars, StoreTyped
<1>2. ASSUME NEW f \in Facts, StoreRelationship(f)
      PROVE  StoreTyped' /\ expiredAll' \subseteq Facts /\ SourcesOf'
  <2>1. /\ rels' = rels \cup {[id |-> f, ends |-> Ends[f], source |-> NoFact]}
        /\ UNCHANGED <<rows, until, known, tier, vkey, chunkRows, expiredAll>> /\ Writes
    BY <1>2 DEF StoreRelationship, requestHistory
  <2> DEFINE r == [id |-> f, ends |-> Ends[f], source |-> NoFact]
  <2>2. r.source = NoFact
    OBVIOUS
  <2> HIDE DEF r
  <2>3. IsFiniteSet(rels \cup {r})
    BY <1>0, FS_AddElement DEF SourcesOf
  <2>4. SourcesOf'
    BY <1>0, <2>1, <2>2, <2>3 DEF SourcesOf, r
  <2> QED
    BY <1>0, <1>w, <2>1, <2>4 DEF StoreTyped, RequestTyped
<1>3. ASSUME NEW f \in Facts, NEW u \in 0..Never, StoreFact(f, u)
      PROVE  StoreTyped' /\ expiredAll' \subseteq Facts /\ SourcesOf'
  <2>1. /\ until' = [until EXCEPT ![f] = u] /\ rows' = rows \cup {f} /\ known' = known \cup {f}
        /\ UNCHANGED <<tier, vkey, chunkRows, rels, expiredAll>> /\ Writes
    BY <1>3 DEF StoreFact, requestHistory
  <2>2. until' \in [Facts -> 0..Never]
    BY <1>0, <2>1 DEF StoreTyped
  <2> QED
    BY <1>0, <1>w, <2>1, <2>2 DEF StoreTyped, RequestTyped, SourcesOf
<1>4. ASSUME NEW f \in Facts, NEW u \in 0..Never, SetValidUntil(f, u)
      PROVE  StoreTyped' /\ expiredAll' \subseteq Facts /\ SourcesOf'
  <2>1. /\ until' = [until EXCEPT ![f] = u]
        /\ UNCHANGED <<rows, known, tier, vkey, chunkRows, rels>> /\ Writes
        /\ expiredAll' \subseteq expiredAll
    BY <1>4 DEF SetValidUntil
  <2>2. until' \in [Facts -> 0..Never]
    BY <1>0, <2>1 DEF StoreTyped
  <2> QED
    BY <1>0, <1>w, <2>1, <2>2 DEF StoreTyped, RequestTyped, SourcesOf
<1>5. CASE DeleteExpiredFacts
  <2>1. /\ rows' \subseteq rows /\ Writes
        /\ UNCHANGED <<until, known, tier, vkey, chunkRows, rels, expiredAll>>
    BY <1>5 DEF DeleteExpiredFacts, requestHistory
  <2> QED
    BY <1>0, <1>w, <2>1 DEF StoreTyped, RequestTyped, SourcesOf
<1>6. CASE DeleteTranscriptChunks
  <2>1. /\ chunkRows' = {} /\ Writes
        /\ UNCHANGED <<rows, until, known, tier, vkey, rels, expiredAll>>
    BY <1>6 DEF DeleteTranscriptChunks, requestHistory
  <2> QED
    BY <1>0, <1>w, <2>1 DEF StoreTyped, RequestTyped, SourcesOf
<1>7. ASSUME NEW m \in Messages, MoveHotToCooldown(m)
      PROVE  StoreTyped' /\ expiredAll' \subseteq Facts /\ SourcesOf'
  <2>1. /\ tier' = [tier EXCEPT ![m] = "cool"] /\ Writes
        /\ UNCHANGED <<rows, until, known, vkey, chunkRows, rels, expiredAll>>
    BY <1>7 DEF MoveHotToCooldown, requestHistory
  <2>2. tier' \in [Messages -> {"hot", "cool"}] /\ \A x \in Messages : vkey'[x] = "cool" => tier'[x] = "cool"
    BY <1>0, <2>1 DEF StoreTyped
  <2> QED
    BY <1>0, <1>w, <2>1, <2>2 DEF StoreTyped, RequestTyped, SourcesOf
<1>8. ASSUME NEW m \in Messages, Reprefix(m)
      PROVE  StoreTyped' /\ expiredAll' \subseteq Facts /\ SourcesOf'
  <2>1. /\ vkey' = [vkey EXCEPT ![m] = tier[m]]
        /\ UNCHANGED <<clock, writes, mergedAt, rows, until, known, tier, chunkRows, rels, expiredAll>>
    BY <1>8 DEF Reprefix, requestHistory, resultVars
  <2>2. vkey' \in [Messages -> {"hot", "cool"}] /\ \A x \in Messages : vkey'[x] = "cool" => tier'[x] = "cool"
    BY <1>0, <2>1 DEF StoreTyped
  <2> QED
    BY <1>0, <2>1, <2>2 DEF StoreTyped, RequestTyped, SourcesOf
<1> QED
  BY <1>1, <1>2, <1>3, <1>4, <1>5, <1>6, <1>7, <1>8 DEF StoreChanges

\* What a layer's step leaves alone.
OnlyReads ==
  /\ Running /\ UNCHANGED <<clock, writes, storeVars, phase, kind, asked, resultVars, requestHistory>>

\* A layer's step keeps LayersHold, reads rows as they are now and changes nothing else.
LEMMA LayerStepReads ==
  ASSUME RequestInv, LayerStep
  PROVE  LayersHold' /\ ReadsNow /\ OnlyReads
<1>1. LayersHold /\ SourcesOf /\ RetrievalTypeOK /\ until \in [Facts -> 0..Never]
  BY RequestInvTypes DEF RequestInv, StoreTyped
<1>2. ASSUME NEW l \in Layers, Search(l) PROVE LayersHold' /\ ReadsNow /\ OnlyReads
  <2>1. LayersHold' /\ ReadsNow
    BY <1>1, <1>2, SearchStep
  <2> QED
    BY <1>2, <2>1 DEF OnlyReads, Search, Reads, MayRun
<1>3. ASSUME NEW l \in Layers, ReadRow(l) PROVE LayersHold' /\ ReadsNow /\ OnlyReads
  <2>1. LayersHold' /\ ReadsNow
    BY <1>1, <1>3, ReadRowStep
  <2> QED
    BY <1>3, <2>1 DEF OnlyReads, ReadRow, Reads, MayRun
<1>4. ASSUME NEW l \in Layers, ListFacts(l) PROVE LayersHold' /\ ReadsNow /\ OnlyReads
  <2>1. LayersHold' /\ ReadsNow
    BY <1>1, <1>4, ListFactsStep
  <2> QED
    BY <1>4, <2>1 DEF OnlyReads, ListFacts, Reads, MayRun
<1>5. CASE retrieveByGraph
  <2>1. LayersHold' /\ ReadsNow
    BY <1>1, <1>5, GraphStep
  <2> QED
    BY <1>5, <2>1 DEF OnlyReads, retrieveByGraph, Reads, MayRun
<1> QED
  BY <1>2, <1>3, <1>4, <1>5 DEF LayerStep

\* A step that only reads keeps the invariant.
LEMMA OnlyReadsTyped ==
  ASSUME RequestInv, OnlyReads, LayersHold'
  PROVE  RequestInv'
<1>1. StoreTyped' /\ RequestTyped' /\ SourcesOf' /\ asked' \subseteq Layers
  BY DEF RequestInv, OnlyReads, storeVars, resultVars, requestHistory, StoreTyped, RequestTyped, SourcesOf
<1>2. phase' = phase /\ phase = "search"
  BY DEF OnlyReads, Running
<1> QED
  BY <1>1, <1>2 DEF RequestInv

\* A request's own steps keep the store and, once it has begun, the layers.
RequestKeeps ==
  /\ UNCHANGED <<clock, writes, storeVars>> /\ mergedAt' \in {mergedAt, clock}
  /\ LayersHold' /\ asked' \subseteq Layers /\ RequestTyped' /\ phase' # "idle"
  /\ phase' \in {"rank", "send"} => kind' = "query"

\* A new request has empty layers.
LEMMA BeginStep ==
  ASSUME RequestInv, NEW k \in {"query", "context"}, Begin(k)
  PROVE  RequestKeeps
<1>1. PICK A \in SUBSET (IF k = "query" THEN QueryLayers ELSE ToSet(ContextOrder)) :
        asked' = A /\ open' = A \ {"graph"}
  BY DEF Begin
<1>2. /\ asked = {} /\ kind' = k /\ phase' = "search" /\ hits' = hits /\ got' = got
      /\ UNCHANGED <<clock, writes, storeVars, mergedAt, citations, logged>>
      /\ expiredAll' \subseteq rows
  BY DEF Begin, resultVars
<1>3. A \subseteq Layers
  BY <1>1 DEF Layers
<1>4. \A l \in Layers : hits[l] = <<>> /\ got[l] = <<>>
  BY <1>2 DEF RequestInv, LayersHold
<1>5. LayersHold'
  BY <1>1, <1>2, <1>4, NothingTwice DEF RequestInv, LayersHold
<1>6. RequestTyped'
  BY <1>2 DEF RequestInv, RequestTyped, StoreTyped
<1> QED
  BY <1>1, <1>2, <1>3, <1>5, <1>6 DEF RequestKeeps

\* Merging, reranking and answering leave the layers alone.
LEMMA ResultStep ==
  ASSUME RequestInv, Merge \/ RerankAndBuildPrompt \/ Retrieve \/ Answer \/ FormatContext
  PROVE  RequestKeeps /\ UNCHANGED <<layerVars, requestHistory>>
<1>0. /\ LayersHold /\ RequestTyped /\ asked \subseteq Layers
      /\ phase \in {"rank", "send"} => kind = "query"
  BY DEF RequestInv
<1>1. CASE Merge
  BY <1>0, <1>1 DEF Merge, RequestKeeps, LayersHold, RequestTyped, layerVars, requestHistory
<1>2. CASE RerankAndBuildPrompt
  BY <1>0, <1>2 DEF RerankAndBuildPrompt, RequestKeeps, LayersHold, RequestTyped, layerVars, requestHistory
<1>3. CASE Retrieve
  BY <1>0, <1>3 DEF Retrieve, RequestKeeps, LayersHold, RequestTyped, layerVars, requestHistory
<1>4. CASE Answer
  <2>1. citations' \subseteq Facts /\ logged' \in BOOLEAN
    BY <1>0, <1>4 DEF Answer, persistCitations, writeQueryLog, RequestTyped
  <2> QED
    BY <1>0, <1>4, <2>1 DEF Answer, RequestKeeps, LayersHold, RequestTyped, layerVars, requestHistory
<1>5. CASE FormatContext
  <2>1. logged' \in BOOLEAN
    BY <1>5 DEF FormatContext, writeQueryLog
  <2> QED
    BY <1>0, <1>5, <2>1 DEF FormatContext, RequestKeeps, LayersHold, RequestTyped, layerVars, requestHistory
<1> QED
  BY <1>1, <1>2, <1>3, <1>4, <1>5

\* Every step keeps the invariant.
LEMMA RequestInvStep == RequestInv /\ [RetrievalNext]_retrievalVars => RequestInv'
<1> SUFFICES ASSUME RequestInv, [RetrievalNext]_retrievalVars PROVE RequestInv'
  OBVIOUS
<1>1. CASE Tick \/ StoreChanges
  BY <1>1, StoreChangeIsStoreStep, StoreChangeTyped, StoreStepKeeps
<1>2. CASE LayerStep
  BY <1>2, LayerStepReads, OnlyReadsTyped
<1>3. ASSUME RequestKeeps PROVE RequestInv'
  <2>1. clock \in 0..MaxClock
    BY DEF RequestInv, StoreTyped
  <2>2. StoreTyped' /\ SourcesOf'
    BY <1>3, <2>1 DEF RequestKeeps, storeVars, RequestInv, StoreTyped, SourcesOf
  <2> QED
    BY <1>3, <2>2 DEF RequestKeeps, RequestInv
<1>4. CASE RequestStep
  BY <1>3, <1>4, BeginStep, ResultStep DEF RequestStep
<1>5. CASE UNCHANGED retrievalVars
  BY <1>5 DEF retrievalVars, storeVars, requestVars, layerVars, resultVars, requestHistory,
    RequestInv, StoreTyped, RequestTyped, SourcesOf, LayersHold
<1> QED
  BY <1>1, <1>2, <1>4, <1>5 DEF RetrievalNext

\* The values of the variables of a request and its store stay those that query.go,
\* builder.go and sqlite.go give them, and a message's vector key moves to the cooldown
\* prefix only after the message.
THEOREM RequestTypeCorrect == RetrievalSpec => []RetrievalTypeOK
<1>1. RetrievalSpec => []RequestInv
  BY RequestBegins, RequestInvStep, PTL DEF RetrievalSpec
<1> QED
  BY <1>1, RequestInvTypes, PTL

-----------------------------------------------------------------------------
(* Facts that had expired before the request began.                        *)

\* A fact that had expired before the request began, and whose expiry nobody has put
\* off, is expired in every copy that a layer read.
ExpiredStay ==
  /\ \A f \in expiredAll : f \in known /\ until[f] < clock
  /\ \A l \in Layers : \A i \in 1..Len(got[l]) :
       IsFact(got[l][i].key) /\ got[l][i].key[2] \in expiredAll =>
         /\ phase = "search" => got[l][i].until < clock
         /\ phase \in {"rank", "send", "done"} /\ kind = "query" => got[l][i].until < mergedAt

\* Nothing but SetValidUntil puts an expiry off, and it takes the fact off expiredAll.
LEMMA StoreExpiry ==
  ASSUME RequestInv, ExpiredStay, Tick \/ StoreChanges
  PROVE  \A f \in expiredAll' : f \in expiredAll /\ f \in known' /\ until'[f] < clock'
<1>0. /\ clock \in Nat /\ until \in [Facts -> 0..Never] /\ expiredAll \subseteq Facts /\ Never \in Nat
      /\ \A f \in expiredAll : f \in known /\ until[f] < clock
  BY QuestionAssumption DEF RequestInv, StoreTyped, RequestTyped, ExpiredStay, Never
<1>1. CASE Tick
  <2>1. clock' = clock + 1 /\ UNCHANGED <<expiredAll, known, until>>
    BY <1>1 DEF Tick, storeVars, requestHistory
  <2>2. \A f \in expiredAll : until[f] \in Nat
    BY <1>0
  <2> QED
    BY <1>0, <2>1, <2>2
<1>2. ASSUME NEW f \in Facts, StoreRelationship(f) PROVE UNCHANGED <<clock, expiredAll, known, until>>
  BY <1>2 DEF StoreRelationship, Writes, requestHistory
<1>3. ASSUME NEW g \in Facts, NEW u \in 0..Never, StoreFact(g, u)
      PROVE  \A f \in expiredAll' : f \in expiredAll /\ f \in known' /\ until'[f] < clock'
  <2>1. /\ g \notin known /\ until' = [until EXCEPT ![g] = u] /\ known' = known \cup {g}
        /\ expiredAll' = expiredAll /\ clock' = clock
    BY <1>3 DEF StoreFact, Writes, requestHistory
  <2>2. \A f \in expiredAll : f # g /\ until'[f] = until[f]
    BY <1>0, <2>1
  <2> QED
    BY <1>0, <2>1, <2>2
<1>4. ASSUME NEW g \in Facts, NEW u \in 0..Never, SetValidUntil(g, u)
      PROVE  \A f \in expiredAll' : f \in expiredAll /\ f \in known' /\ until'[f] < clock'
  <2>1. /\ until' = [until EXCEPT ![g] = u] /\ known' = known /\ clock' = clock
        /\ expiredAll' = IF u < clock THEN expiredAll ELSE expiredAll \ {g}
    BY <1>4 DEF SetValidUntil, Writes, IsExpired
  <2>2. \A f \in expiredAll' : f \in expiredAll /\ (f = g => u < clock)
    BY <2>1
  <2>3. \A f \in expiredAll : until'[f] = IF f = g THEN u ELSE until[f]
    BY <1>0, <2>1
  <2> QED
    BY <1>0, <2>1, <2>2, <2>3
<1>5. CASE DeleteExpiredFacts
  <2>1. UNCHANGED <<clock, expiredAll, known, until>>
    BY <1>5 DEF DeleteExpiredFacts, Writes, requestHistory
  <2> QED
    BY <1>0, <2>1
<1>6. CASE DeleteTranscriptChunks
  <2>1. UNCHANGED <<clock, expiredAll, known, until>>
    BY <1>6 DEF DeleteTranscriptChunks, Writes, requestHistory
  <2> QED
    BY <1>0, <2>1
<1>7. ASSUME NEW m \in Messages, MoveHotToCooldown(m) \/ Reprefix(m)
      PROVE  UNCHANGED <<clock, expiredAll, known, until>>
  BY <1>7 DEF MoveHotToCooldown, Reprefix, Writes, requestHistory
<1> QED
  BY <1>0, <1>1, <1>2, <1>3, <1>4, <1>5, <1>6, <1>7 DEF StoreChanges

\* Every step keeps ExpiredStay: a layer reads a fact with its present expiry.
LEMMA ExpiryStep ==
  RequestInv /\ ExpiredStay /\ [RetrievalNext]_retrievalVars => ExpiredStay'
<1> SUFFICES ASSUME RequestInv, ExpiredStay, [RetrievalNext]_retrievalVars PROVE ExpiredStay'
  OBVIOUS
<1>0. /\ clock \in Nat /\ mergedAt \in Nat /\ got \in [Layers -> Seq(Copies)] /\ Never \in Nat
      /\ until \in [Facts -> 0..Never]
  BY QuestionAssumption DEF RequestInv, StoreTyped, LayersHold, Never
<1>1. CASE Tick \/ StoreChanges
  <2>1. \A f \in expiredAll' : f \in expiredAll /\ f \in known' /\ until'[f] < clock'
    BY <1>1, StoreExpiry
  <2>2. StoreStep /\ clock' \in {clock, clock + 1}
    BY <1>1, StoreChangeIsStoreStep
  <2>3. \A l \in Layers : \A i \in 1..Len(got[l]) : got[l][i].until \in Nat
    <3>1. \A c \in Copies : c.until \in Nat
      BY <1>0 DEF Copies
    <3> QED
      BY <1>0, <3>1, Places
  <2> QED
    BY <1>0, <2>1, <2>2, <2>3 DEF StoreStep, ExpiredStay
<1>2. CASE LayerStep
  <2>1. ReadsNow /\ OnlyReads
    BY <1>2, LayerStepReads
  <2>2. UNCHANGED <<clock, until, known, phase, kind, mergedAt, expiredAll>> /\ phase = "search"
    BY <2>1 DEF OnlyReads, Running, storeVars, resultVars, requestHistory
  <2>3. ASSUME NEW l \in Layers, NEW i \in 1..Len(got'[l]),
               IsFact(got'[l][i].key), got'[l][i].key[2] \in expiredAll
        PROVE  got'[l][i].until < clock
    <3>1. CASE \E j \in 1..Len(got[l]) : got'[l][i] = got[l][j]
      BY <2>2, <2>3, <3>1 DEF ExpiredStay
    <3>2. ASSUME NEW key \in AllKeys, got'[l][i] = Copy(key) PROVE got'[l][i].until < clock
      <4>1. Copy(key).key = key /\ (IsFact(key) => Copy(key).until = until[key[2]])
        BY <1>0, CopyIs
      <4> QED
        BY <2>3, <3>2, <4>1 DEF ExpiredStay
    <3> QED
      BY <2>1, <3>1, <3>2 DEF ReadsNow
  <2> QED
    BY <2>2, <2>3 DEF ExpiredStay
<1>3. ASSUME NEW k \in {"query", "context"}, Begin(k) PROVE ExpiredStay'
  <2>1. /\ asked = {} /\ got' = got /\ phase' = "search"
        /\ expiredAll' = {f \in rows : until[f] < clock} /\ UNCHANGED <<known, until, clock>>
    BY <1>3 DEF Begin, IsExpired, storeVars
  <2>2. \A l \in Layers : got'[l] = <<>>
    BY <2>1 DEF RequestInv, LayersHold
  <2>3. rows \subseteq known
    BY DEF RequestInv, StoreTyped
  <2>4. \A l \in Layers : 1..Len(got'[l]) = {}
    BY <2>2
  <2> QED
    BY <2>1, <2>3, <2>4 DEF ExpiredStay
<1>4. CASE Merge
  BY <1>4 DEF Merge, Running, storeVars, layerVars, requestHistory, ExpiredStay
<1>5. CASE RerankAndBuildPrompt
  BY <1>5 DEF RerankAndBuildPrompt, storeVars, layerVars, requestHistory, ExpiredStay
<1>6. CASE Retrieve
  BY <1>6 DEF Retrieve, storeVars, layerVars, requestHistory, ExpiredStay
<1>7. CASE Answer
  BY <1>7 DEF Answer, storeVars, layerVars, requestHistory, ExpiredStay
<1>8. CASE FormatContext
  BY <1>8 DEF FormatContext, storeVars, layerVars, requestHistory, ExpiredStay
<1>9. CASE UNCHANGED retrievalVars
  BY <1>9 DEF retrievalVars, storeVars, requestVars, layerVars, resultVars, requestHistory, ExpiredStay
<1> QED
  BY <1>1, <1>2, <1>3, <1>4, <1>5, <1>6, <1>7, <1>8, <1>9 DEF RetrievalNext, RequestStep

\* No fact has expired before a request at first.
LEMMA ExpiryBegins == RetrievalInit => ExpiredStay
<1> SUFFICES ASSUME RetrievalInit PROVE ExpiredStay
  OBVIOUS
<1>1. expiredAll = {} /\ \A l \in Layers : got[l] = <<>>
  BY DEF RetrievalInit
<1> QED
  BY <1>1 DEF ExpiredStay

\* The positions of a list have a last one.
LEMMA LastNumber ==
  ASSUME NEW m \in Nat, NEW T \in SUBSET (1..m), T # {}
  PROVE  \E n \in T : \A i \in T : i <= n
<1> DEFINE D == {m - i : i \in T}
<1>1. D \in SUBSET Nat /\ D # {}
  <2>1. \A i \in T : m - i \in Nat
    OBVIOUS
  <2> QED
    BY <2>1
<1>2. \E d \in D : \A e \in D : d <= e
  <2> HIDE DEF D
  <2> QED
    BY <1>1, LeastNumber
<1>3. PICK d \in D : \A e \in D : d <= e
  BY <1>2
<1>4. PICK n \in T : d = m - n
  BY <1>3
<1>5. ASSUME NEW i \in T PROVE i <= n
  <2>1. m - i \in D
    OBVIOUS
  <2>2. m - n <= m - i
    BY <1>3, <1>4, <2>1
  <2> QED
    BY <2>2
<1> QED
  BY <1>5

MergeLayers == ToSet(MergeOrder)

\* The layers that are merged.
LEMMA MergeOrderIs ==
  /\ MergeOrder \in Seq(Layers) /\ Len(MergeOrder) = 7
  /\ MergeLayers = {MergeOrder[k] : k \in 1..7} /\ MergeLayers \subseteq Layers
<1>1. MergeOrder \in Seq(Layers) /\ Len(MergeOrder) = 7
  BY DEF MergeOrder, Layers, QueryLayers, SearchLayers
<1> QED
  BY <1>1, Places DEF MergeLayers

\* The keys that a layer found.
LEMMA FoundKeysAre ==
  ASSUME LayersHold, NEW l \in Layers
  PROVE  FoundKeys(l) = {got[l][i].key : i \in 1..Len(got[l])} /\ FoundKeys(l) \subseteq AllKeys
         /\ got[l] \in Seq(Copies) /\ Len(got[l]) \in Nat
<1>1. got[l] \in Seq(Copies)
  BY DEF LayersHold
<1>2. ToSet(KeysOf(got[l])) = {got[l][i].key : i \in 1..Len(got[l])} /\ KeysOf(got[l]) \in Seq(AllKeys)
  BY <1>1, KeysOfIs
<1>3. ToSet(KeysOf(got[l])) \subseteq AllKeys
  BY <1>2, Places
<1> QED
  BY <1>1, <1>2, <1>3 DEF FoundKeys

\* The layers' findings, one after another.
LEMMA FoundInIs ==
  ASSUME LayersHold, NEW order \in Seq(Layers)
  PROVE  /\ Lists(FoundIn(order), order, Len(order)) /\ FoundIn(order) \in Seq(Copies)
         /\ \A l \in ToSet(order) : \A i \in 1..Len(got[l]) :
              \E p \in 1..Len(FoundIn(order)) : FoundIn(order)[p] = got[l][i]
         /\ \A p \in 1..Len(FoundIn(order)) : \E l \in ToSet(order) : From(FoundIn(order), got[l], p)
<1> DEFINE s == FoundIn(order)
<1>1. \A l \in Layers : got[l] \in Seq(Copies)
  BY DEF LayersHold
<1>2. Lists(s, order, Len(order))
  BY <1>1, FoundInLists
<1> HIDE DEF s
<1>3. ToSet(order) = {order[k] : k \in 1..Len(order)}
  BY Places
<1>4. s \in Seq(Copies)
  BY <1>2 DEF Lists
<1>5. ASSUME NEW l \in ToSet(order), NEW i \in 1..Len(got[l])
      PROVE  \E p \in 1..Len(s) : s[p] = got[l][i]
  <2>1. PICK k \in 1..Len(order) : l = order[k]
    BY <1>3
  <2>2. \A j \in 1..Len(got[order[k]]) : \E p \in 1..Len(s) : s[p] = got[order[k]][j]
    BY <1>2 DEF Lists
  <2> QED
    BY <2>1, <2>2
<1>6. ASSUME NEW p \in 1..Len(s) PROVE \E l \in ToSet(order) : From(s, got[l], p)
  <2>1. PICK k \in 1..Len(order) : From(s, got[order[k]], p)
    BY <1>2 DEF Lists
  <2> QED
    BY <1>3, <2>1
<1> QED
  BY <1>2, <1>4, <1>5, <1>6 DEF s

\* No copy of a key was expired at an instant.
Lasts(key, at) ==
  \A l \in MergeLayers : \A i \in 1..Len(got[l]) : got[l][i].key = key => ~(got[l][i].until < at)

\* Expiring speaks of the layers' copies.
LEMMA ExpiringIs ==
  ASSUME LayersHold, NEW key
  PROVE  Lasts(key, mergedAt) <=> ~Expiring(key)
<1> DEFINE s == Found
<1>1. MergeOrder \in Seq(Layers)
  BY MergeOrderIs
<1>2. /\ s \in Seq(Copies)
      /\ \A l \in MergeLayers : \A i \in 1..Len(got[l]) : \E p \in 1..Len(s) : s[p] = got[l][i]
      /\ \A p \in 1..Len(s) : \E l \in MergeLayers : From(s, got[l], p)
  BY <1>1, FoundInIs DEF Found, MergeLayers
<1> HIDE DEF s
<1>3. DOMAIN s = 1..Len(s)
  BY <1>2
<1>4. Expiring(key) <=> \E p \in 1..Len(s) : s[p].key = key /\ s[p].until < mergedAt
  BY <1>3 DEF Expiring, s
<1>5. \A p \in 1..Len(s) : \E l \in MergeLayers : \E i \in 1..Len(got[l]) : s[p] = got[l][i]
  BY <1>2 DEF From
<1>6. ASSUME NEW p \in 1..Len(s), s[p].key = key, s[p].until < mergedAt PROVE ~Lasts(key, mergedAt)
  <2>1. PICK l \in MergeLayers : \E i \in 1..Len(got[l]) : s[p] = got[l][i]
    BY <1>5
  <2>2. PICK i \in 1..Len(got[l]) : s[p] = got[l][i]
    BY <2>1
  <2> QED
    BY <1>6, <2>2 DEF Lasts
<1>7. ASSUME NEW l \in MergeLayers, NEW i \in 1..Len(got[l]), got[l][i].key = key, got[l][i].until < mergedAt
      PROVE  Expiring(key)
  <2>1. PICK p \in 1..Len(s) : s[p] = got[l][i]
    BY <1>2
  <2> QED
    BY <1>4, <1>7, <2>1
<1> QED
  BY <1>4, <1>6, <1>7 DEF Lasts

-----------------------------------------------------------------------------
(* What a merge returns.                                                   *)

\* What a merge returns: each key once, none whose copies were all expired, and all
\* of whose copies none was.
MergeIs(m, at) ==
  /\ m \in Seq(AllKeys) /\ IsInjective(m)
  /\ \A key \in ToSet(m) : \E l \in MergeLayers : \E i \in 1..Len(got[l]) :
       got[l][i].key = key /\ ~(got[l][i].until < at)
  /\ \A l \in MergeLayers : \A key \in FoundKeys(l) : Lasts(key, at) => key \in ToSet(m)
\* a comes before b in every layer that found b.
Ahead(x, y) ==
  /\ \E l \in MergeLayers : \E j \in 1..Len(got[l]) : got[l][j].key = y
  /\ \A l \in MergeLayers : \A j \in 1..Len(got[l]) : got[l][j].key = y =>
       \E i \in 1..Len(got[l]) : i < j /\ got[l][i].key = x
Comparable == ~Repeats("graph") /\ \A l \in MergeLayers : Len(got[l]) <= MaxRank
OrderIs(m, at) ==
  \A p, q \in 1..Len(m) : p # q /\ Ahead(m[p], m[q]) /\ Lasts(m[p], at) => p < q

\* Found lists what the merged layers found.
LEMMA FoundIs ==
  ASSUME LayersHold
  PROVE  /\ Found \in Seq(Copies) /\ Len(Found) \in Nat /\ DOMAIN Found = 1..Len(Found)
         /\ \A l \in MergeLayers : \A i \in 1..Len(got[l]) : \E p \in 1..Len(Found) : Found[p] = got[l][i]
         /\ \A p \in 1..Len(Found) : \E l \in MergeLayers : From(Found, got[l], p)
         /\ KeysOf(Found) \in Seq(AllKeys) /\ Len(KeysOf(Found)) = Len(Found)
         /\ \A i \in 1..Len(Found) : KeysOf(Found)[i] = Found[i].key
         /\ ToSet(KeysOf(Found)) = {Found[i].key : i \in 1..Len(Found)}
<1>1. MergeOrder \in Seq(Layers)
  BY MergeOrderIs
<1>2. /\ Found \in Seq(Copies)
      /\ \A l \in MergeLayers : \A i \in 1..Len(got[l]) : \E p \in 1..Len(Found) : Found[p] = got[l][i]
      /\ \A p \in 1..Len(Found) : \E l \in MergeLayers : From(Found, got[l], p)
  BY <1>1, FoundInIs DEF Found, MergeLayers
<1>3. /\ KeysOf(Found) \in Seq(AllKeys) /\ Len(KeysOf(Found)) = Len(Found)
      /\ \A i \in 1..Len(Found) : KeysOf(Found)[i] = Found[i].key
      /\ ToSet(KeysOf(Found)) = {Found[i].key : i \in 1..Len(Found)}
  BY <1>2, KeysOfIs
<1>4. Len(Found) \in Nat /\ DOMAIN Found = 1..Len(Found)
  BY <1>2, Places
<1> QED
  BY <1>2, <1>3, <1>4

\* mergeSetUnion keeps the layers' order: what precedes a key in each of its layers comes
\* first before it in their concatenation.
LEMMA SetUnionIs ==
  ASSUME LayersHold
  PROVE  MergeIs(MergeSetUnion, clock) /\ OrderIs(MergeSetUnion, clock)
<1> DEFINE s == Found
           keys == KeysOf(s)
           places == {i \in DOMAIN s : ~IsExpired(s[i].until)}
           m == MergeSetUnion
<1>1. /\ s \in Seq(Copies) /\ Len(s) \in Nat /\ DOMAIN s = 1..Len(s)
      /\ \A l \in MergeLayers : \A i \in 1..Len(got[l]) : \E p \in 1..Len(s) : s[p] = got[l][i]
      /\ \A p \in 1..Len(s) : \E l \in MergeLayers : From(s, got[l], p)
      /\ keys \in Seq(AllKeys) /\ Len(keys) = Len(s) /\ \A i \in 1..Len(s) : keys[i] = s[i].key
  BY FoundIs
<1>2. m = FirstAt(keys, places)
  BY DEF MergeSetUnion
<1> HIDE DEF s, m
<1>3. \A i : i \in places <=> i \in 1..Len(s) /\ ~(s[i].until < clock)
  BY <1>1 DEF IsExpired
<1> HIDE DEF keys, places
<1>4. Firsts(m, keys, places, Len(s), AllKeys)
  <2>1. DOMAIN keys = 1..Len(s) /\ places \subseteq 1..Len(s)
    BY <1>1, <1>3
  <2> QED
    BY <1>1, <1>2, <2>1, FirstAtIs
<1>5. ASSUME NEW key \in ToSet(m)
      PROVE  \E l \in MergeLayers : \E i \in 1..Len(got[l]) : got[l][i].key = key /\ ~(got[l][i].until < clock)
  <2>1. PICK p \in 1..Len(s) : p \in places /\ keys[p] = key
    BY <1>4 DEF Firsts
  <2>2. PICK l \in MergeLayers : From(s, got[l], p)
    BY <1>1
  <2>3. PICK i \in 1..Len(got[l]) : s[p] = got[l][i]
    BY <2>2 DEF From
  <2> QED
    BY <1>1, <1>3, <2>1, <2>3
<1>6. ASSUME NEW l \in MergeLayers, NEW key \in FoundKeys(l), Lasts(key, clock)
      PROVE  key \in ToSet(m)
  <2>1. PICK i \in 1..Len(got[l]) : got[l][i].key = key
    BY FoundKeysAre, MergeOrderIs
  <2>2. PICK p \in 1..Len(s) : s[p] = got[l][i]
    BY <1>1
  <2>3. p \in places /\ keys[p] = key
    BY <1>1, <1>3, <1>6, <2>1, <2>2 DEF Lasts
  <2> QED
    BY <1>4, <2>3 DEF Firsts
<1>7. ASSUME NEW p \in 1..Len(m), NEW q \in 1..Len(m), Ahead(m[p], m[q]), Lasts(m[p], clock), q < p
      PROVE  FALSE
  <2>1. \E r \in 1..Len(s) : /\ r \in places /\ keys[r] = m[q]
                             /\ \A t \in 1..r : t \in places => keys[t] # m[p]
    BY <1>4, <1>7 DEF Firsts
  <2>2. PICK r \in 1..Len(s) : /\ r \in places /\ keys[r] = m[q]
                               /\ \A t \in 1..r : t \in places => keys[t] # m[p]
    BY <2>1
  <2>3. PICK l \in MergeLayers : From(s, got[l], r)
    BY <1>1
  <2>4. PICK j \in 1..Len(got[l]) : s[r] = got[l][j] /\ \A h \in 1..j : \E t \in 1..r : s[t] = got[l][h]
    BY <2>3 DEF From
  <2>5. got[l][j].key = m[q]
    BY <1>1, <2>2, <2>4
  <2>6. PICK i \in 1..Len(got[l]) : i < j /\ got[l][i].key = m[p]
    BY <1>7, <2>5 DEF Ahead
  <2>7. i \in 1..j
    BY <2>6
  <2>8. PICK t \in 1..r : s[t] = got[l][i]
    BY <2>4, <2>7
  <2>9. t \in 1..Len(s)
    OBVIOUS
  <2>10. keys[t] = m[p] /\ ~(s[t].until < clock)
    BY <1>1, <1>7, <2>6, <2>8, <2>9 DEF Lasts
  <2> QED
    BY <1>3, <2>2, <2>9, <2>10
<1>8. m \in Seq(AllKeys) /\ IsInjective(m)
  BY <1>4 DEF Firsts
<1>9. MergeIs(m, clock)
  BY <1>5, <1>6, <1>8 DEF MergeIs
<1>10. OrderIs(m, clock)
  <2>1. Len(m) \in Nat
    BY <1>8
  <2>2. ASSUME NEW p \in 1..Len(m), NEW q \in 1..Len(m), p # q, Ahead(m[p], m[q]), Lasts(m[p], clock)
        PROVE  p < q
    BY <1>7, <2>2
  <2> QED
    BY <2>2 DEF OrderIs
<1> QED
  BY <1>9, <1>10 DEF m

\* Points of one layer.
LEMMA PointsAre ==
  ASSUME NEW i \in Nat
  PROVE  Points(i) \in Nat
<1>1. Scale \in Nat
  BY SMT DEF Scale
<1>2. \A c \in Nat, d \in Nat \ {0} : c \div d \in Nat
  BY SMT
<1>3. 60 + i \in Nat \ {0}
  BY SMT
<1> QED
  BY <1>1, <1>2, <1>3 DEF Points

NoRepeats(l) == \A i, j \in 1..Len(got[l]) : got[l][i].key = got[l][j].key => i = j

\* A key's points in a layer that found it at most once are those of its rank.
LEMMA LayerScoreIs ==
  ASSUME LayersHold, NEW l \in Layers, NoRepeats(l), NEW key
  PROVE  /\ LayerScore(l, key) \in Nat
         /\ \A i \in 1..Len(got[l]) : got[l][i].key = key => LayerScore(l, key) = Points(i)
         /\ (\A i \in 1..Len(got[l]) : got[l][i].key # key) => LayerScore(l, key) = 0
<1> DEFINE s == [i \in DOMAIN got[l] |-> IF got[l][i].key = key THEN Points(i) ELSE 0]
<1>1. got[l] \in Seq(Copies) /\ Len(got[l]) \in Nat /\ DOMAIN got[l] = 1..Len(got[l])
  BY FoundKeysAre
<1>2. \A i \in 1..Len(got[l]) : Points(i) \in Nat
  <2>1. \A i \in 1..Len(got[l]) : i \in Nat
    OBVIOUS
  <2> QED
    BY <2>1, PointsAre
<1>3. s = [i \in 1..Len(got[l]) |-> IF got[l][i].key = key THEN Points(i) ELSE 0]
  BY <1>1
<1> HIDE DEF s
<1>4. s \in [1..Len(got[l]) -> Nat]
  BY <1>2, <1>3
<1>5. s \in Seq(Nat) /\ Len(s) = Len(got[l])
  BY <1>1, <1>4
<1>6. \A i \in 1..Len(got[l]) : s[i] = IF got[l][i].key = key THEN Points(i) ELSE 0
  BY <1>3
<1>7. LayerScore(l, key) = Total(s)
  BY DEF LayerScore, s
<1>8. ASSUME NEW k \in 1..Len(got[l]), got[l][k].key = key PROVE Total(s) = Points(k)
  <2>1. \A i \in 1..Len(s) : i # k => s[i] = 0
    BY <1>5, <1>6, <1>8 DEF NoRepeats
  <2>2. k \in Nat \ {0} /\ k <= Len(s)
    BY <1>5
  <2>3. Total(s) = IF k <= Len(s) THEN s[k] ELSE 0
    BY <1>5, <2>1, <2>2, TotalOne
  <2> QED
    BY <1>6, <1>8, <2>2, <2>3
<1>9. ASSUME \A i \in 1..Len(got[l]) : got[l][i].key # key PROVE Total(s) = 0
  <2>1. \A i \in 1..Len(s) : s[i] = 0
    BY <1>5, <1>6, <1>9
  <2>2. Len(s) + 1 \in Nat \ {0} /\ ~(Len(s) + 1 <= Len(s))
    BY <1>1, <1>5
  <2>3. Total(s) = IF Len(s) + 1 <= Len(s) THEN s[Len(s) + 1] ELSE 0
    BY <1>5, <2>1, <2>2, TotalOne
  <2> QED
    BY <2>2, <2>3
<1>10. Total(s) \in Nat
  BY <1>5, TotalGrows
<1> QED
  BY <1>7, <1>8, <1>9, <1>10

\* What precedes a key in each of its layers has the higher score.
LEMMA Comparison ==
  ASSUME LayersHold, Comparable, NEW a, NEW b, Ahead(a, b)
  PROVE  Score(a) \in Nat /\ Score(b) \in Nat /\ Score(b) < Score(a)
<1> DEFINE s == [k \in DOMAIN MergeOrder |-> LayerScore(MergeOrder[k], a)]
           t == [k \in DOMAIN MergeOrder |-> LayerScore(MergeOrder[k], b)]
<1>1. /\ DOMAIN MergeOrder = 1..7 /\ Len(MergeOrder) = 7 /\ MergeLayers = {MergeOrder[k] : k \in 1..7}
      /\ \A k \in 1..7 : MergeOrder[k] \in Layers /\ MergeOrder[k] \in MergeLayers
  BY MergeOrderIs
<1>2. \A l \in MergeLayers : NoRepeats(l)
  <2>1. ASSUME NEW l \in MergeLayers PROVE NoRepeats(l)
    <3>1. /\ got[l] \in Seq(Copies) /\ Len(got[l]) \in Nat /\ l \in Layers
          /\ DOMAIN got[l] = 1..Len(got[l])
      BY FoundKeysAre, MergeOrderIs
    <3>2. CASE l = "graph"
      <4>1. \A i, j \in 1..Len(got[l]) : i < j => got[l][i].key # got[l][j].key
        BY <3>1, <3>2 DEF Comparable, Repeats
      <4> QED
        BY <3>1, <4>1 DEF NoRepeats
    <3>3. CASE l # "graph"
      <4>1. IsInjective(KeysOf(got[l]))
        BY <3>1, <3>3 DEF LayersHold, OnceEach
      <4>2. /\ KeysOf(got[l]) \in Seq(AllKeys) /\ Len(KeysOf(got[l])) = Len(got[l])
            /\ \A i \in 1..Len(got[l]) : KeysOf(got[l])[i] = got[l][i].key
        BY <3>1, KeysOfIs
      <4>3. DOMAIN KeysOf(got[l]) = 1..Len(got[l])
        BY <4>2
      <4> QED
        BY <4>1, <4>2, <4>3 DEF IsInjective, NoRepeats
    <3> QED
      BY <3>2, <3>3
  <2> QED
    BY <2>1
<1>3. ASSUME NEW l \in MergeLayers
      PROVE  /\ LayerScore(l, a) \in Nat /\ LayerScore(l, b) \in Nat
             /\ LayerScore(l, b) <= LayerScore(l, a)
             /\ (\E j \in 1..Len(got[l]) : got[l][j].key = b) => LayerScore(l, b) < LayerScore(l, a)
  <2>1. l \in Layers /\ NoRepeats(l) /\ Len(got[l]) \in Nat /\ Len(got[l]) <= MaxRank
    BY <1>2, MergeOrderIs, FoundKeysAre DEF Comparable
  <2>2. LayerScore(l, a) \in Nat /\ LayerScore(l, b) \in Nat
    BY <2>1, LayerScoreIs
  <2>3. CASE \A j \in 1..Len(got[l]) : got[l][j].key # b
    <3>1. LayerScore(l, b) = 0
      BY <2>1, <2>3, LayerScoreIs
    <3> QED
      BY <2>2, <2>3, <3>1
  <2>4. ASSUME NEW j \in 1..Len(got[l]), got[l][j].key = b
        PROVE  LayerScore(l, b) < LayerScore(l, a)
    <3>1. PICK i \in 1..Len(got[l]) : i < j /\ got[l][i].key = a
      BY <2>4 DEF Ahead
    <3>2. LayerScore(l, b) = Points(j)
      BY <2>1, <2>4, LayerScoreIs
    <3>3. LayerScore(l, a) = Points(i)
      BY <2>1, <3>1, LayerScoreIs
    <3>4. MaxRank \in Nat
      BY SMT DEF MaxRank
    <3>5. i \in Nat \ {0} /\ j \in Nat /\ i < j /\ j <= MaxRank
      BY <2>1, <3>1, <3>4
    <3>6. Points(j) < Points(i)
      BY <3>5, PointsFall
    <3> QED
      BY <3>2, <3>3, <3>6
  <2>5. CASE \E j \in 1..Len(got[l]) : got[l][j].key = b
    <3>1. LayerScore(l, b) < LayerScore(l, a)
      BY <2>4, <2>5
    <3> QED
      BY <2>2, <3>1
  <2> QED
    BY <2>2, <2>3, <2>5
<1>4. s = [k \in 1..7 |-> LayerScore(MergeOrder[k], a)] /\ t = [k \in 1..7 |-> LayerScore(MergeOrder[k], b)]
  BY <1>1
<1> HIDE DEF s, t
<1>5. s \in [1..7 -> Nat] /\ t \in [1..7 -> Nat]
  BY <1>1, <1>3, <1>4
<1>6. s \in Seq(Nat) /\ t \in Seq(Nat) /\ Len(s) = 7 /\ Len(t) = 7
  <2>1. \A n \in Nat : \A f \in [1..n -> Nat] : f \in Seq(Nat) /\ Len(f) = n
    OBVIOUS
  <2> QED
    BY <1>5, <2>1
<1>7. \A k \in 1..7 : s[k] = LayerScore(MergeOrder[k], a) /\ t[k] = LayerScore(MergeOrder[k], b)
  BY <1>4
<1>8. \A k \in 1..Len(s) : t[k] <= s[k]
  BY <1>1, <1>3, <1>6, <1>7
<1>9. \E k \in 1..Len(s) : t[k] < s[k]
  <2>1. PICK l \in MergeLayers : \E j \in 1..Len(got[l]) : got[l][j].key = b
    BY DEF Ahead
  <2>2. PICK k \in 1..7 : l = MergeOrder[k]
    BY <1>1
  <2>3. LayerScore(l, b) < LayerScore(l, a)
    BY <1>3, <2>1
  <2>4. t[k] < s[k]
    BY <1>7, <2>2, <2>3
  <2> QED
    BY <1>6, <2>4
<1>10. Total(s) \in Nat /\ Total(t) \in Nat /\ Total(t) < Total(s)
  BY <1>6, <1>8, <1>9, TotalGrows
<1> QED
  BY <1>10 DEF Score, s, t

\* There are finitely many keys.
LEMMA AllKeysFinite == IsFiniteSet(AllKeys)
<1>1. IsFiniteSet({"fact"}) /\ IsFiniteSet({"hot"}) /\ IsFiniteSet({"cool"}) /\ IsFiniteSet({"chunk"})
  BY FS_Singleton
<1>2. {"hot", "cool"} = {"hot"} \cup {"cool"}
  OBVIOUS
<1>3. IsFiniteSet({"hot", "cool"})
  <2>1. IsFiniteSet({"hot"} \cup {"cool"})
    BY <1>1, FS_AddElement
  <2> QED
    BY <1>2, <2>1
<1>4. IsFiniteSet({"fact"} \X Facts) /\ IsFiniteSet({"hot", "cool"} \X Messages) /\ IsFiniteSet({"chunk"} \X Chunks)
  BY <1>1, <1>3, FS_Product, StoreAssumption
<1> QED
  BY <1>4, FS_Union DEF AllKeys

\* mergeAndRank keeps the layers' order, by the scores.
LEMMA RankedIs ==
  ASSUME LayersHold, NEW m \in MergeAndRank
  PROVE  MergeIs(m, clock) /\ (Comparable => OrderIs(m, clock))
<1> DEFINE s == Found
<1>1. /\ s \in Seq(Copies) /\ Len(s) \in Nat /\ DOMAIN s = 1..Len(s)
      /\ \A l \in MergeLayers : \A i \in 1..Len(got[l]) : \E p \in 1..Len(s) : s[p] = got[l][i]
      /\ \A p \in 1..Len(s) : \E l \in MergeLayers : From(s, got[l], p)
      /\ ToSet(KeysOf(s)) = {s[i].key : i \in 1..Len(s)} /\ KeysOf(s) \in Seq(AllKeys)
  BY FoundIs
<1>2. Lasting = {key \in ToSet(KeysOf(s)) : ~(LastCopy(key).until < clock)}
  BY DEF Lasting, IsExpired
<1>3. ASSUME NEW key \in ToSet(KeysOf(s))
      PROVE  \E p \in 1..Len(s) : LastCopy(key) = s[p] /\ s[p].key = key
  <2> DEFINE at == {i \in 1..Len(s) : s[i].key = key}
             IsLast(i) == s[i].key = key /\ \A j \in DOMAIN s : s[j].key = key => j <= i
  <2>1. at # {} /\ at \in SUBSET (1..Len(s))
    BY <1>1
  <2>2. \E n \in at : \A i \in at : i <= n
    <3> HIDE DEF at
    <3> QED
      BY <1>1, <2>1, LastNumber
  <2>3. \E n \in DOMAIN s : IsLast(n)
    BY <1>1, <2>2
  <2>4. LastCopy(key) = s[CHOOSE i \in DOMAIN s : IsLast(i)]
    BY DEF LastCopy
  <2> DEFINE p == CHOOSE i \in DOMAIN s : IsLast(i)
  <2>5. p \in DOMAIN s /\ IsLast(p)
    <3> HIDE DEF IsLast
    <3> QED
      BY <2>3
  <2>6. s[p].key = key
    BY <2>5
  <2> HIDE DEF p
  <2> QED
    BY <1>1, <2>4, <2>5, <2>6 DEF p
<1> HIDE DEF s
<1>4. IsFiniteSet(Lasting) /\ Lasting \subseteq AllKeys
  <2>1. Lasting \subseteq AllKeys
    <3>1. ToSet(KeysOf(s)) \subseteq AllKeys
      BY <1>1, Places
    <3> QED
      BY <1>2, <3>1
  <2> QED
    BY <2>1, AllKeysFinite, FS_Subset
<1>5. m \in SetToSeqs(Lasting) /\ \A i, j \in DOMAIN m : i < j => Score(m[i]) >= Score(m[j])
  BY DEF MergeAndRank
<1>6. m \in Seq(Lasting) /\ IsInjective(m) /\ ToSet(m) = Lasting
  BY <1>4, <1>5, OrderOf
<1>7. m \in Seq(AllKeys)
  BY <1>4, <1>6, ListOf
<1>8. ASSUME NEW key \in ToSet(m)
      PROVE  \E l \in MergeLayers : \E i \in 1..Len(got[l]) : got[l][i].key = key /\ ~(got[l][i].until < clock)
  <2>1. key \in ToSet(KeysOf(s)) /\ ~(LastCopy(key).until < clock)
    BY <1>2, <1>6
  <2>2. PICK p \in 1..Len(s) : LastCopy(key) = s[p] /\ s[p].key = key
    BY <1>3, <2>1
  <2>3. PICK l \in MergeLayers : From(s, got[l], p)
    BY <1>1
  <2>4. PICK i \in 1..Len(got[l]) : s[p] = got[l][i]
    BY <2>3 DEF From
  <2> QED
    BY <2>1, <2>2, <2>4
<1>9. ASSUME NEW l \in MergeLayers, NEW key \in FoundKeys(l), Lasts(key, clock)
      PROVE  key \in ToSet(m)
  <2>1. PICK i \in 1..Len(got[l]) : got[l][i].key = key
    BY FoundKeysAre, MergeOrderIs
  <2>2. PICK r \in 1..Len(s) : s[r] = got[l][i]
    BY <1>1
  <2>3. key \in ToSet(KeysOf(s))
    BY <1>1, <2>1, <2>2
  <2>4. PICK p \in 1..Len(s) : LastCopy(key) = s[p] /\ s[p].key = key
    BY <1>3, <2>3
  <2>5. PICK x \in MergeLayers : From(s, got[x], p)
    BY <1>1
  <2>6. PICK j \in 1..Len(got[x]) : s[p] = got[x][j]
    BY <2>5 DEF From
  <2>7. ~(s[p].until < clock)
    BY <1>9, <2>4, <2>6 DEF Lasts
  <2> QED
    BY <1>2, <1>6, <2>3, <2>4, <2>7
<1>10. ASSUME Comparable, NEW p \in 1..Len(m), NEW q \in 1..Len(m), p # q, Ahead(m[p], m[q])
       PROVE  p < q
  <2>1. Score(m[p]) \in Nat /\ Score(m[q]) \in Nat /\ Score(m[q]) < Score(m[p])
    BY <1>10, Comparison
  <2>2. DOMAIN m = 1..Len(m) /\ Len(m) \in Nat
    BY <1>6
  <2>3. ~(q < p)
    BY <1>5, <2>1, <2>2
  <2> QED
    BY <1>10, <2>2, <2>3
<1> QED
  BY <1>6, <1>7, <1>8, <1>9, <1>10 DEF MergeIs, OrderIs

-----------------------------------------------------------------------------
(* What reaches the prompt.                                                *)

\* A reranking is an order of the merged keys.
LEMMA RerankedIs ==
  ASSUME merged \in Seq(AllKeys), IsInjective(merged), NEW topN \in Nat, NEW r \in Reranked(topN)
  PROVE  r \in Seq(AllKeys) /\ IsInjective(r) /\ ToSet(r) = ToSet(merged)
<1> DEFINE n == IF topN \in 1..Len(merged) THEN topN ELSE Len(merged)
           head == SubSeq(merged, 1, n)
           tail == SubSeq(merged, n + 1, Len(merged))
<1>1. n \in 0..Len(merged)
  BY Places
<1> HIDE DEF n
<1>2. /\ head \in Seq(AllKeys) /\ tail \in Seq(AllKeys) /\ IsInjective(head) /\ IsInjective(tail)
      /\ ToSet(head) \cap ToSet(tail) = {} /\ ToSet(head) \cup ToSet(tail) = ToSet(merged)
  BY <1>1, CutInTwo
<1> HIDE DEF head, tail
<1>3. r = merged \/ \E h \in CosineReranked(head) \cup GenericReranked(head) : r = h \o tail
  BY DEF Reranked, n, head, tail
<1>4. ASSUME NEW h \in CosineReranked(head) \cup GenericReranked(head)
      PROVE  h \in Seq(AllKeys) /\ IsInjective(h) /\ ToSet(h) = ToSet(head)
  <2>1. CASE h \in CosineReranked(head)
    BY <1>2, <2>1 DEF CosineReranked
  <2>2. CASE h \in GenericReranked(head)
    <3>1. PICK listed \in SetToAllKPermutations(ToSet(head)) : h = Distinct(listed \o head)
      BY <2>2 DEF GenericReranked
    <3>2. PICK S \in SUBSET ToSet(head) : listed \in SetToSeqs(S)
      BY <3>1 DEF SetToAllKPermutations
    <3>3. ToSet(head) \subseteq AllKeys
      BY <1>2, Places
    <3>4. IsFiniteSet(S)
      <4>1. S \subseteq AllKeys
        BY <3>3
      <4> QED
        BY <4>1, AllKeysFinite, FS_Subset
    <3>5. listed \in Seq(S) /\ ToSet(listed) = S
      BY <3>2, <3>4, OrderOf
    <3>6. listed \in Seq(AllKeys)
      BY <3>3, <3>5, ListOf
    <3>7. listed \o head \in Seq(AllKeys) /\ ToSet(listed \o head) = ToSet(listed) \cup ToSet(head)
      BY <1>2, <3>6, Joined
    <3>8. /\ Distinct(listed \o head) \in Seq(AllKeys) /\ IsInjective(Distinct(listed \o head))
          /\ ToSet(Distinct(listed \o head)) = ToSet(listed \o head)
      BY <3>7, DistinctIs
    <3> QED
      BY <3>1, <3>5, <3>7, <3>8
  <2> QED
    BY <2>1, <2>2
<1>5. ASSUME NEW h \in CosineReranked(head) \cup GenericReranked(head), r = h \o tail
      PROVE  r \in Seq(AllKeys) /\ IsInjective(r) /\ ToSet(r) = ToSet(merged)
  <2>1. h \in Seq(AllKeys) /\ IsInjective(h) /\ ToSet(h) = ToSet(head)
    BY <1>4
  <2>2. /\ h \o tail \in Seq(AllKeys) /\ ToSet(h \o tail) = ToSet(h) \cup ToSet(tail)
        /\ IsInjective(h \o tail)
    BY <1>2, <2>1, Joined
  <2> QED
    BY <1>2, <1>5, <2>1, <2>2
<1> QED
  BY <1>3, <1>5

Things == {key[2] : key \in AllKeys}

\* What a prompt shows of the merged keys.
Shows(facts, fresh) ==
  /\ facts \in Seq(AllKeys) /\ IsInjective(facts)
  /\ \A key : key \in ToSet(facts) <=> key \in ToSet(merged) /\ IsFact(key)
  /\ fresh \in Seq(Things) /\ IsInjective(fresh)
  /\ \A key \in ToSet(merged) : ~IsFact(key) => key[2] \in ToSet(fresh)

\* buildPrompt shows the facts and, once each, the messages that were merged.
LEMMA RankedShows ==
  ASSUME merged \in Seq(AllKeys), NEW r \in Seq(AllKeys), IsInjective(r), ToSet(r) = ToSet(merged)
  PROVE  Shows(FactKeys(r), FreshMessages(r))
<1>1. /\ FactKeys(r) \in Seq(AllKeys) /\ IsInjective(FactKeys(r))
      /\ ToSet(FactKeys(r)) = ToSet(r) \cap ({"fact"} \X Facts)
  BY KeysInIs DEF FactKeys
<1>2. \A key \in AllKeys : IsFact(key) <=> key \in {"fact"} \X Facts
  BY DEF AllKeys, IsFact
<1>3. \A key : key \in ToSet(FactKeys(r)) <=> key \in ToSet(merged) /\ IsFact(key)
  <2>1. ToSet(merged) \subseteq AllKeys
    BY Places
  <2> QED
    BY <1>1, <1>2, <2>1
<1> DEFINE ids == Ids(r)
           places == {i \in DOMAIN r : ~IsFact(r[i])}
           fresh == FreshMessages(r)
<1>4. Len(r) \in Nat /\ DOMAIN r = 1..Len(r) /\ ToSet(r) = {r[i] : i \in 1..Len(r)}
      /\ \A i \in 1..Len(r) : r[i] \in AllKeys
  BY Places
<1>5. ids = [i \in 1..Len(r) |-> r[i][2]]
  BY <1>4 DEF Ids
<1>6. fresh = FirstAt(ids, places)
  BY DEF FreshMessages
<1> HIDE DEF ids, fresh
<1>7. ids \in [1..Len(r) -> Things]
  BY <1>4, <1>5 DEF Things
<1>8. ids \in Seq(Things) /\ Len(ids) = Len(r)
  BY <1>4, <1>7
<1>9. \A i \in 1..Len(r) : ids[i] = r[i][2]
  BY <1>5
<1>10. \A i : i \in places <=> i \in 1..Len(r) /\ ~IsFact(r[i])
  BY <1>4
<1> HIDE DEF places
<1>11. Firsts(fresh, ids, places, Len(r), Things)
  <2>1. DOMAIN ids = 1..Len(r) /\ places \subseteq 1..Len(r)
    BY <1>8, <1>10
  <2> QED
    BY <1>6, <1>8, <2>1, FirstAtIs
<1>12. ASSUME NEW key \in ToSet(merged), ~IsFact(key) PROVE key[2] \in ToSet(fresh)
  <2>1. PICK i \in 1..Len(r) : r[i] = key
    BY <1>4
  <2>2. i \in places /\ ids[i] = key[2]
    BY <1>9, <1>10, <1>12, <2>1
  <2> QED
    BY <1>11, <2>2 DEF Firsts
<1> QED
  BY <1>1, <1>3, <1>11, <1>12 DEF Shows, Firsts, fresh

ContextLayers == {"factVec", "factText", "recent"}
\* A context request lists all that its relevant and recent layers read.
ListsAll(facts) ==
  /\ facts \in Seq(AllKeys) /\ IsInjective(facts)
  /\ \A l \in ContextLayers : FoundKeys(l) \subseteq ToSet(facts)

\* formatContext lists all that its relevant and recent layers read.
LEMMA ContextLists ==
  ASSUME LayersHold
  PROVE  ListsAll(Distinct(KeysOf(FoundIn(<<"factVec", "factText", "recent">>))))
<1> DEFINE order == <<"factVec", "factText", "recent">>
           s == FoundIn(order)
           u == Distinct(KeysOf(s))
<1>1. order \in Seq(Layers)
  BY LayersAre DEF SearchLayers
<1>2. ToSet(order) = ContextLayers
  BY DEF ToSet, ContextLayers
<1> HIDE DEF order
<1>3. /\ s \in Seq(Copies)
      /\ \A l \in ContextLayers : \A i \in 1..Len(got[l]) : \E p \in 1..Len(s) : s[p] = got[l][i]
  BY <1>1, <1>2, FoundInIs
<1> HIDE DEF s
<1>4. /\ KeysOf(s) \in Seq(AllKeys) /\ ToSet(KeysOf(s)) = {s[i].key : i \in 1..Len(s)}
  BY <1>3, KeysOfIs
<1>5. u \in Seq(AllKeys) /\ IsInjective(u) /\ ToSet(u) = ToSet(KeysOf(s))
  BY <1>4, DistinctIs
<1>6. ASSUME NEW l \in ContextLayers, NEW key \in FoundKeys(l) PROVE key \in ToSet(u)
  <2>1. l \in Layers
    BY LayersAre DEF ContextLayers, SearchLayers
  <2>2. PICK i \in 1..Len(got[l]) : got[l][i].key = key
    BY <2>1, FoundKeysAre
  <2>3. PICK p \in 1..Len(s) : s[p] = got[l][i]
    BY <1>3
  <2> QED
    BY <1>4, <1>5, <2>2, <2>3
<1>7. ListsAll(u)
  <2> HIDE DEF u
  <2> QED
    BY <1>5, <1>6 DEF ListsAll
<1> QED
  BY <1>7 DEF u, s, order

ResultInv ==
  /\ phase \in {"rank", "send", "done"} /\ kind = "query" => MergeIs(merged, mergedAt)
  /\ phase \in {"rank", "send"} /\ Comparable => OrderIs(merged, mergedAt)
  /\ Answered => Shows(prompt.facts, prompt.fresh)
  /\ phase = "done" /\ kind = "context" => ListsAll(prompt.facts)

\* What the result depends on.
SameResult == UNCHANGED <<got, merged, mergedAt>>

\* A step that changes neither the copies nor the merge keeps what is known of it.
LEMMA MergeKept ==
  ASSUME SameResult
  PROVE  /\ MergeIs(merged, mergedAt) => MergeIs(merged, mergedAt)'
         /\ OrderIs(merged, mergedAt) => OrderIs(merged, mergedAt)'
         /\ Comparable' => Comparable
         /\ Shows(prompt'.facts, prompt'.fresh) => Shows(prompt.facts, prompt.fresh)'
         /\ ListsAll(prompt'.facts) => ListsAll(prompt.facts)'
<1>1. MergeIs(merged, mergedAt) => MergeIs(merged, mergedAt)'
  BY DEF SameResult, MergeIs, Lasts, FoundKeys
<1>2. OrderIs(merged, mergedAt) => OrderIs(merged, mergedAt)'
  <2>1. \A x, y : Ahead(x, y)' <=> Ahead(x, y)
    BY DEF SameResult, Ahead
  <2>2. \A x : Lasts(x, mergedAt)' <=> Lasts(x, mergedAt)
    BY DEF SameResult, Lasts
  <2> QED
    BY <2>1, <2>2 DEF SameResult, OrderIs
<1>3. Comparable' => Comparable
  BY DEF SameResult, Comparable, Repeats
<1>4. Shows(prompt'.facts, prompt'.fresh) => Shows(prompt.facts, prompt.fresh)'
  BY DEF SameResult, Shows
<1>5. ListsAll(prompt'.facts) => ListsAll(prompt.facts)'
  BY DEF SameResult, ListsAll, FoundKeys
<1> QED
  BY <1>1, <1>2, <1>3, <1>4, <1>5

\* A step that leaves the result alone keeps ResultInv.
LEMMA ResultKept ==
  ASSUME ResultInv, SameResult, UNCHANGED <<phase, kind, prompt>>
  PROVE  ResultInv'
<1>1. /\ Answered' => Answered
  BY DEF Answered
<1>2. /\ Shows(prompt.facts, prompt.fresh) => Shows(prompt.facts, prompt.fresh)'
      /\ ListsAll(prompt.facts) => ListsAll(prompt.facts)'
  BY MergeKept
<1> QED
  BY <1>1, <1>2, MergeKept DEF ResultInv

\* Merge establishes what is known of a merge, with either strategy.
LEMMA MergeStep ==
  ASSUME RequestInv, Merge
  PROVE  ResultInv'
<1>1. /\ phase' = "rank" /\ got' = got /\ mergedAt' = clock
  BY DEF Merge, layerVars
<1>2. PICK strategy \in Strategies : merged' \in MergeRanked(strategy)
  BY DEF Merge
<1>3. MergeIs(merged', clock) /\ (Comparable => OrderIs(merged', clock))
  <2>1. LayersHold
    BY DEF RequestInv
  <2>2. CASE strategy = "rrf"
    BY <1>2, <2>1, <2>2, RankedIs DEF MergeRanked
  <2>3. CASE strategy # "rrf"
    BY <1>2, <2>1, <2>3, SetUnionIs DEF MergeRanked
  <2> QED
    BY <2>2, <2>3
<1>4. MergeIs(merged, mergedAt)'
  BY <1>1, <1>3 DEF MergeIs, Lasts, FoundKeys
<1>5. Comparable' => OrderIs(merged, mergedAt)'
  <2>1. Comparable' => Comparable
    BY <1>1 DEF Comparable, Repeats
  <2>2. OrderIs(merged', clock) => OrderIs(merged, mergedAt)'
    BY <1>1 DEF OrderIs, Lasts, Ahead
  <2> QED
    BY <1>3, <2>1, <2>2
<1> QED
  BY <1>1, <1>4, <1>5 DEF ResultInv, Answered

\* RerankAndBuildPrompt shows what was merged.
LEMMA RerankStep ==
  ASSUME RequestInv, ResultInv, RerankAndBuildPrompt
  PROVE  ResultInv'
<1>1. phase = "rank" /\ phase' = "send" /\ kind' = kind /\ SameResult /\ kind = "query"
  BY DEF RerankAndBuildPrompt, layerVars, SameResult, RequestInv
<1>2. PICK topN \in TopNs : \E r \in Reranked(topN) :
        prompt'.facts = FactKeys(r) /\ prompt'.fresh = FreshMessages(r)
  BY DEF RerankAndBuildPrompt
<1>3. PICK r \in Reranked(topN) : prompt'.facts = FactKeys(r) /\ prompt'.fresh = FreshMessages(r)
  BY <1>2
<1>4. MergeIs(merged, mergedAt) /\ merged \in Seq(AllKeys) /\ IsInjective(merged)
  BY <1>1 DEF ResultInv, MergeIs
<1>5. r \in Seq(AllKeys) /\ IsInjective(r) /\ ToSet(r) = ToSet(merged)
  BY <1>4, RerankedIs, QuestionAssumption
<1>6. Shows(FactKeys(r), FreshMessages(r))
  BY <1>4, <1>5, RankedShows
<1>7. Shows(prompt.facts, prompt.fresh)'
  BY <1>1, <1>3, <1>6, MergeKept
<1> QED
  BY <1>1, <1>4, <1>7, MergeKept DEF ResultInv

\* Every step keeps ResultInv.
LEMMA ResultStepKeeps == RequestInv /\ ResultInv /\ [RetrievalNext]_retrievalVars => ResultInv'
<1> SUFFICES ASSUME RequestInv, ResultInv, [RetrievalNext]_retrievalVars PROVE ResultInv'
  OBVIOUS
<1>1. CASE Tick \/ StoreChanges
  <2>1. StoreStep
    BY <1>1, StoreChangeIsStoreStep
  <2>2. SameResult /\ UNCHANGED <<phase, kind, prompt>>
    BY <2>1 DEF StoreStep, SameResult
  <2> QED
    BY <2>2, ResultKept
<1>2. CASE LayerStep
  <2>1. OnlyReads
    BY <1>2, LayerStepReads
  <2>2. phase' = "search"
    BY <2>1 DEF OnlyReads, Running
  <2> QED
    BY <2>2 DEF ResultInv, Answered
<1>3. ASSUME NEW k \in {"query", "context"}, Begin(k) PROVE ResultInv'
  <2>1. phase' = "search"
    BY <1>3 DEF Begin
  <2> QED
    BY <2>1 DEF ResultInv, Answered
<1>4. CASE Merge
  BY <1>4, MergeStep
<1>5. CASE RerankAndBuildPrompt
  BY <1>5, RerankStep
<1>6. CASE Retrieve
  <2>1. phase' = "done" /\ kind' = "retrieve"
    BY <1>6 DEF Retrieve
  <2> QED
    BY <2>1 DEF ResultInv, Answered
<1>7. CASE Answer
  <2>1. phase = "send" /\ phase' = "done" /\ kind' = kind /\ kind = "query" /\ SameResult /\ prompt' = prompt
    BY <1>7 DEF Answer, layerVars, SameResult, RequestInv
  <2>2. Shows(prompt.facts, prompt.fresh) => Shows(prompt.facts, prompt.fresh)'
    BY <2>1, MergeKept
  <2>3. MergeIs(merged, mergedAt) => MergeIs(merged, mergedAt)'
    BY <2>1, MergeKept
  <2> QED
    BY <2>1, <2>2, <2>3 DEF ResultInv, Answered
<1>8. CASE FormatContext
  <2>1. phase' = "done" /\ kind' = "context" /\ SameResult
        /\ prompt'.facts = Distinct(KeysOf(FoundIn(<<"factVec", "factText", "recent">>)))
    BY <1>8 DEF FormatContext, layerVars, SameResult, NoPrompt
  <2>2. ListsAll(prompt'.facts)
    BY <2>1, ContextLists DEF RequestInv
  <2>3. ListsAll(prompt.facts)'
    BY <2>1, <2>2, MergeKept
  <2> QED
    BY <2>1, <2>3 DEF ResultInv, Answered
<1>9. CASE UNCHANGED retrievalVars
  <2>1. SameResult /\ UNCHANGED <<phase, kind, prompt>>
    BY <1>9 DEF retrievalVars, requestVars, layerVars, resultVars, SameResult
  <2> QED
    BY <2>1, ResultKept
<1> QED
  BY <1>1, <1>2, <1>3, <1>4, <1>5, <1>6, <1>7, <1>8, <1>9 DEF RetrievalNext, RequestStep

\* There is no result at first.
LEMMA ResultBegins == RetrievalInit => ResultInv
  BY DEF RetrievalInit, ResultInv, Answered

\* The invariants imply FindsReachPrompt.
LEMMA ResultsFind == RequestInv /\ ExpiredStay /\ ResultInv => FindsReachPrompt
<1> SUFFICES ASSUME RequestInv, ExpiredStay, ResultInv PROVE FindsReachPrompt
  OBVIOUS
<1>0. LayersHold
  BY DEF RequestInv
<1>1. ASSUME Answered, NEW l \in MergeLayers, NEW key \in FoundKeys(l)
      PROVE  IF IsFact(key)
             THEN /\ Occurrences(key, prompt.facts) <= 1
                  /\ (~Expiring(key) => Occurrences(key, prompt.facts) = 1)
                  /\ key[2] \notin expiredAll \/ Occurrences(key, prompt.facts) = 0
             ELSE Occurrences(key[2], prompt.fresh) = 1
  <2>1. /\ phase \in {"rank", "send", "done"} /\ kind = "query" /\ MergeIs(merged, mergedAt)
        /\ Shows(prompt.facts, prompt.fresh)
    BY <1>1 DEF ResultInv, Answered
  <2>2. l \in Layers /\ key \in AllKeys /\ FoundKeys(l) \subseteq AllKeys
    BY <1>0, FoundKeysAre, MergeOrderIs
  <2>3. Occurrences(key, prompt.facts) = IF key \in ToSet(prompt.facts) THEN 1 ELSE 0
    BY <2>1, OccursOnce DEF Shows
  <2>4. Occurrences(key[2], prompt.fresh) = IF key[2] \in ToSet(prompt.fresh) THEN 1 ELSE 0
    BY <2>1, OccursOnce DEF Shows
  <2>5. Lasts(key, mergedAt) => key \in ToSet(merged)
    BY <2>1 DEF MergeIs
  <2>6. Lasts(key, mergedAt) <=> ~Expiring(key)
    BY <1>0, ExpiringIs
  <2>7. CASE IsFact(key)
    <3>1. key \in ToSet(prompt.facts) <=> key \in ToSet(merged)
      BY <2>1, <2>7 DEF Shows
    <3>2. ASSUME key[2] \in expiredAll PROVE key \notin ToSet(merged)
      <4>1. SUFFICES ASSUME key \in ToSet(merged) PROVE FALSE
        OBVIOUS
      <4>2. PICK x \in MergeLayers : \E i \in 1..Len(got[x]) :
              got[x][i].key = key /\ ~(got[x][i].until < mergedAt)
        BY <2>1, <4>1 DEF MergeIs
      <4>3. PICK i \in 1..Len(got[x]) : got[x][i].key = key /\ ~(got[x][i].until < mergedAt)
        BY <4>2
      <4>4. x \in Layers
        BY MergeOrderIs
      <4> QED
        BY <2>1, <2>7, <3>2, <4>3, <4>4 DEF ExpiredStay
    <3> QED
      BY <2>3, <2>5, <2>6, <2>7, <3>1, <3>2
  <2>8. CASE ~IsFact(key)
    <3>1. Lasts(key, mergedAt)
      <4> SUFFICES ASSUME NEW x \in MergeLayers, NEW i \in 1..Len(got[x]), got[x][i].key = key
                   PROVE  ~(got[x][i].until < mergedAt)
        BY DEF Lasts
      <4>1. got[x] \in Seq(Copies)
        BY <1>0, FoundKeysAre, MergeOrderIs
      <4>2. got[x][i] \in Copies
        BY <4>1, Places
      <4>3. got[x][i].until = Never
        BY <2>8, <4>2 DEF Copies
      <4>4. mergedAt \in 0..MaxClock /\ MaxClock \in Nat
        BY QuestionAssumption DEF RequestInv, StoreTyped
      <4> QED
        BY <4>3, <4>4 DEF Never
    <3>2. key[2] \in ToSet(prompt.fresh)
      BY <2>1, <2>5, <2>8, <3>1 DEF Shows
    <3> QED
      BY <2>4, <2>8, <3>2
  <2> QED
    BY <2>7, <2>8
<1>2. ASSUME phase = "done", kind = "context", NEW l \in ContextLayers, NEW key \in FoundKeys(l)
      PROVE  Occurrences(key, prompt.facts) = 1
  <2>1. prompt.facts \in Seq(AllKeys) /\ IsInjective(prompt.facts) /\ key \in ToSet(prompt.facts)
    BY <1>2 DEF ResultInv, ListsAll
  <2> QED
    BY <2>1, OccursOnce
<1> QED
  BY <1>1, <1>2 DEF FindsReachPrompt, MergeLayers, ContextLayers

\* The first position of a key that a layer found.
LEMMA FirstPositionIs ==
  ASSUME LayersHold, NEW l \in Layers, NEW key \in FoundKeys(l)
  PROVE  /\ FirstPosition(l, key) \in 1..Len(got[l]) /\ got[l][FirstPosition(l, key)].key = key
         /\ \A j \in 1..Len(got[l]) : got[l][j].key = key => FirstPosition(l, key) <= j
<1> DEFINE P == Positions(l, key)
           Least(p) == \A q \in P : p <= q
<1>1. got[l] \in Seq(Copies) /\ FoundKeys(l) = {got[l][i].key : i \in 1..Len(got[l])}
  BY FoundKeysAre
<1>2. P = {i \in 1..Len(got[l]) : got[l][i].key = key}
  BY <1>1, Places DEF Positions
<1> HIDE DEF P
<1>3. P # {} /\ P \in SUBSET Nat
  BY <1>1, <1>2
<1>4. \E p \in P : Least(p)
  BY <1>3, LeastNumber
<1>5. FirstPosition(l, key) = CHOOSE p \in P : Least(p)
  BY DEF FirstPosition, P
<1>6. FirstPosition(l, key) \in P /\ Least(FirstPosition(l, key))
  <2> HIDE DEF Least
  <2> QED
    BY <1>4, <1>5
<1> QED
  BY <1>2, <1>6

\* A key that leads another is ahead of it in the sense of the copies.
LEMMA LeadsAhead ==
  ASSUME LayersHold, NEW x, NEW y, Leads(x, y)
  PROVE  Ahead(x, y) /\ x # y
<1>1. PICK l \in MergeLayers : y \in FoundKeys(l)
  BY DEF Leads, MergeLayers
<1>2. \A k \in MergeLayers : y \in FoundKeys(k) =>
        x \in FoundKeys(k) /\ FirstPosition(k, x) < FirstPosition(k, y)
  BY DEF Leads, MergeLayers
<1>3. \A k \in MergeLayers : k \in Layers /\ FoundKeys(k) = {got[k][i].key : i \in 1..Len(got[k])}
  BY FoundKeysAre, MergeOrderIs
<1>4. x # y
  <2>1. FirstPosition(l, y) \in 1..Len(got[l]) /\ FirstPosition(l, x) < FirstPosition(l, y)
    BY <1>1, <1>2, <1>3, FirstPositionIs
  <2> QED
    BY <2>1
<1>5. \E k \in MergeLayers : \E j \in 1..Len(got[k]) : got[k][j].key = y
  BY <1>1, <1>3
<1>6. ASSUME NEW k \in MergeLayers, NEW j \in 1..Len(got[k]), got[k][j].key = y
      PROVE  \E i \in 1..Len(got[k]) : i < j /\ got[k][i].key = x
  <2>1. y \in FoundKeys(k) /\ k \in Layers
    BY <1>3, <1>6
  <2>2. x \in FoundKeys(k) /\ FirstPosition(k, x) < FirstPosition(k, y)
    BY <1>2, <2>1
  <2>3. FirstPosition(k, y) \in 1..Len(got[k]) /\ FirstPosition(k, y) <= j
    BY <1>6, <2>1, FirstPositionIs
  <2>4. FirstPosition(k, x) \in 1..Len(got[k]) /\ got[k][FirstPosition(k, x)].key = x
    BY <2>1, <2>2, FirstPositionIs
  <2>5. FirstPosition(k, x) < j
    BY <2>2, <2>3, <2>4
  <2> QED
    BY <2>4, <2>5
<1> QED
  BY <1>4, <1>5, <1>6 DEF Ahead

\* The invariants imply MergeRespectsLayers.
LEMMA ResultsRespect == RequestInv /\ ResultInv => MergeRespectsLayers
<1> SUFFICES ASSUME RequestInv, ResultInv, phase \in {"rank", "send"}, Comparable,
                    NEW x \in ToSet(merged), NEW y \in ToSet(merged), Leads(x, y), ~Expiring(x)
             PROVE  IndexIn(merged, x) < IndexIn(merged, y)
  BY DEF MergeRespectsLayers, Comparable, MergeLayers
<1>1. MergeIs(merged, mergedAt) /\ OrderIs(merged, mergedAt) /\ LayersHold
  BY DEF RequestInv, ResultInv
<1>2. merged \in Seq(AllKeys) /\ DOMAIN merged = 1..Len(merged) /\ ToSet(merged) = {merged[i] : i \in 1..Len(merged)}
  BY <1>1, Places DEF MergeIs
<1>3. \A z \in ToSet(merged) : IndexIn(merged, z) \in 1..Len(merged) /\ merged[IndexIn(merged, z)] = z
  <2>1. ASSUME NEW z \in ToSet(merged)
        PROVE  IndexIn(merged, z) \in 1..Len(merged) /\ merged[IndexIn(merged, z)] = z
    <3>1. \E i \in DOMAIN merged : merged[i] = z
      BY <1>2
    <3> QED
      BY <1>2, <3>1 DEF IndexIn
  <2> QED
    BY <2>1
<1>4. Ahead(x, y) /\ x # y
  BY <1>1, LeadsAhead
<1>5. Lasts(x, mergedAt)
  BY <1>1, ExpiringIs
<1> DEFINE p == IndexIn(merged, x)
           q == IndexIn(merged, y)
<1>6. p \in 1..Len(merged) /\ q \in 1..Len(merged) /\ merged[p] = x /\ merged[q] = y
  BY <1>3
<1> HIDE DEF p, q
<1>7. p # q
  BY <1>4, <1>6
<1>8. p < q
  BY <1>1, <1>4, <1>5, <1>6, <1>7 DEF OrderIs
<1> QED
  BY <1>8 DEF p, q

\* Retrieve, buildPrompt and formatContext: whatever changes in the store meanwhile, what
\* a layer found is shown once, unless a layer read it as expired, and a fact that had
\* expired before the question is never shown.
THEOREM FindsAreShown == RetrievalSpec => []FindsReachPrompt
<1>1. RequestInv /\ ExpiredStay /\ ResultInv /\ [RetrievalNext]_retrievalVars
        => (RequestInv /\ ExpiredStay /\ ResultInv)'
  BY RequestInvStep, ExpiryStep, ResultStepKeeps
<1>2. RetrievalSpec => [](RequestInv /\ ExpiredStay /\ ResultInv)
  BY <1>1, RequestBegins, ExpiryBegins, ResultBegins, PTL DEF RetrievalSpec
<1> QED
  BY <1>2, ResultsFind, PTL

\* mergeAndRank and mergeSetUnion: what is ahead of an item in every layer that found the
\* item is merged ahead of it.
THEOREM MergeKeepsOrder == RetrievalSpec => []MergeRespectsLayers
<1>1. RequestInv /\ ResultInv /\ [RetrievalNext]_retrievalVars => (RequestInv /\ ResultInv)'
  BY RequestInvStep, ResultStepKeeps
<1>2. RetrievalSpec => [](RequestInv /\ ResultInv)
  BY <1>1, RequestBegins, ResultBegins, PTL DEF RetrievalSpec
<1> QED
  BY <1>2, ResultsRespect, PTL
=============================================================================
