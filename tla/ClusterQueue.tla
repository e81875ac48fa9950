--------------------------- MODULE ClusterQueue ---------------------------
(***************************************************************************)
(* What marking a cluster's rows promises the cool workers, whatever the   *)
(* rows look like and however many processes share them: a queue of        *)
(* clusters that are numbered as they are written.  One worker at a time   *)
(* takes a cluster; it finishes it for good, gives it back, or loses it,   *)
(* and what is lost is never taken again.                                  *)
(***************************************************************************)
EXTENDS Naturals

CONSTANTS Workers, None

VARIABLES
  issued,   \* clusters written so far
  taken,    \* the cluster a worker works on
  done,     \* clusters finished
  lost      \* clusters whose worker died or could not give them back

vars == <<issued, taken, done, lost>>

Init ==
  /\ issued = 0
  /\ taken = [w \in Workers |-> None]
  /\ done = {} /\ lost = {}

Waiting == (1..issued) \ (done \cup lost \cup {taken[w] : w \in Workers})

Issue ==
  /\ issued' = issued + 1
  /\ UNCHANGED <<taken, done, lost>>

Take(w) ==
  /\ taken[w] = None
  /\ \E c \in Waiting : taken' = [taken EXCEPT ![w] = c]
  /\ UNCHANGED <<issued, done, lost>>

LetGo(w) == taken[w] # None /\ taken' = [taken EXCEPT ![w] = None]

Finish(w) ==
  /\ LetGo(w)
  /\ done' = done \cup {taken[w]}
  /\ UNCHANGED <<issued, lost>>

GiveBack(w) == LetGo(w) /\ UNCHANGED <<issued, done, lost>>

Lose(w) ==
  /\ LetGo(w)
  /\ lost' = lost \cup {taken[w]}
  /\ UNCHANGED <<issued, done>>

Next ==
  \/ Issue
  \/ \E w \in Workers : Take(w) \/ Finish(w) \/ GiveBack(w) \/ Lose(w)

Spec == Init /\ [][Next]_vars
=============================================================================
