---------------------------- MODULE MCRetrieval ----------------------------
(* TLC instances of Retrieval: the eval corpus relates Go and SQL by fact a *)
(* and SQL and Rust by fact b; the vector and the text index order the rows *)
(* differently.  The cfg files choose the rows and the bounds.              *)
EXTENDS Retrieval

CONSTANTS a, b, c, m, k, r1, r2

MCVectorOrder ==
  <<<<"fact", a>>, <<"fact", b>>, <<"fact", c>>, <<"hot", m>>, <<"cool", m>>, <<"chunk", k>>>>
MCTextOrder ==
  <<<<"fact", c>>, <<"fact", a>>, <<"fact", b>>, <<"hot", m>>, <<"cool", m>>, <<"chunk", k>>>>
MCLimitOf == [l \in Layers |-> IF l \in {"hotVec", "coolVec", "chunkVec", "recent"} THEN 1 ELSE 2]
MCEnds == [f \in Facts |-> IF f = b THEN {"SQL", "Rust"} ELSE {"Go", "SQL"}]
MCSeeded == {[id |-> r1, ends |-> {"Go", "SQL"}, source |-> a],
             [id |-> r2, ends |-> {"SQL", "Rust"}, source |-> b]}
MCWords == <<"Go", "Rust", "Go">>
=============================================================================
