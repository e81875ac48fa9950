--------------------------- MODULE MessageStore ---------------------------
(***************************************************************************)
(* What the hot phase promises about raw messages, whatever tables,        *)
(* indexes and goroutines it uses: an accepted message is in exactly one   *)
(* tier, goes from hot to cooldown and never back, and is never lost.      *)
(***************************************************************************)
EXTENDS Naturals

CONSTANT Messages

VARIABLE tier

Init == tier = [m \in Messages |-> "none"]

\* A message is accepted.
Accept(m) ==
  /\ tier[m] = "none"
  /\ tier' = [tier EXCEPT ![m] = "hot"]

\* A batch of hot messages leaves for cooldown.
Cool(B) ==
  /\ \A m \in B : tier[m] = "hot"
  /\ tier' = [m \in Messages |-> IF m \in B THEN "cool" ELSE tier[m]]

Next == (\E m \in Messages : Accept(m)) \/ (\E B \in SUBSET Messages : Cool(B))

Spec == Init /\ [][Next]_tier
=============================================================================
