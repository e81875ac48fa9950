--------------------------- MODULE MCEntityGraph ---------------------------
(* TLC instances of EntityGraph: one name in two spellings, and another.    *)
EXTENDS EntityGraph

CONSTANTS c1, c2, d1, d2, Go, go, sql

MCFolded == [n \in Names |-> IF n = Go THEN go ELSE n]
MCExtractions == {
  [names |-> <<Go, sql>>, rels |-> {<<Go, sql>>}],
  [names |-> <<sql, go>>, rels |-> {<<sql, go>>}]}
Callers == Permutations(Calls) \cup Permutations(Dedupers)
=============================================================================
