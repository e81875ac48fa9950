---------------------------- MODULE MCProviders ----------------------------
(* TLC instances of Providers: p1 is configured with two base URLs, and two *)
(* models of one family are known.                                          *)
EXTENDS Providers, TLC

CONSTANTS c1, c2, c3, p1, big, bigNew, t1

MCConfigured == [p \in Names |-> [t \in Tasks |-> big]]
MCAffinity == [c \in Models |-> [m \in Models |-> IF c = m THEN 2 ELSE 1]]
MCListers == {<<p1, 1>>, <<p1, 2>>}
Senders == Permutations(Callers \ Embedders)
=============================================================================
