------------------------------ MODULE MCUpkeep ------------------------------
(* The instances of Upkeep that TLC checks.                                *)
EXTENDS Upkeep, TLC

CONSTANTS s1, c1, c2, x, y

MCEvals == <<"retrieval">>
\* Two of them optimize at once; either may be overtaken.
MCStarts ==
  c1 :> {<<"consolidate">>, <<"retrieval", "save">>, OptimizePlan} @@ c2 :> {<<"optimize">>}
MCSubject == <<x, y>>
MCTopic == <<x, y>>
=============================================================================
