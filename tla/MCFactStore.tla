---------------------------- MODULE MCFactStore ----------------------------
(* TLC instances of FactStore: two concurrent calls; the cfg files choose   *)
(* what they extract, the facts stored before them and the bounds.          *)
EXTENDS FactStore

CONSTANTS i1, i2

OneEach == [i \in Ingests |-> 1]
TwoAndOne == [i \in Ingests |-> IF i = i1 THEN 2 ELSE 1]
=============================================================================
