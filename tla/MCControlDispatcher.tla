------------------------- MODULE MCControlDispatcher -------------------------
(* Instances of ControlDispatcher for TLC.                                  *)
EXTENDS ControlDispatcher, TLC

CONSTANTS k1, k2, safe, risky

Alike == Permutations(Keys)

=============================================================================
