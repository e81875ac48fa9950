-------------------------- MODULE MCCoolPipeline --------------------------
(* TLC instances of CoolPipeline: m1 and m2 belong to one session, m3 to    *)
(* another and m4 to none; m2 is the younger one.  The cfg files choose the *)
(* messages, the workers, the thresholds and the bounds.                    *)
EXTENDS CoolPipeline

CONSTANTS m1, m2, m3, m4, sA, sB

MCSessionOf ==
  [m \in Messages |-> CASE m = m3 -> sB [] m = m4 -> NoSession [] OTHER -> sA]
MCStamp == [m \in Messages |-> IF m = m2 THEN 1 ELSE 0]
=============================================================================
