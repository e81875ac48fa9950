----------------------------- MODULE MCHotTier -----------------------------
(* TLC instances of HotTier: m1 and m2 are long enough to be embedded, m3   *)
(* is not.  The cfg files choose the messages and the bounds.               *)
EXTENDS HotTier

CONSTANTS m1, m2, m3
=============================================================================
