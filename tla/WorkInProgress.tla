--------------------------- MODULE WorkInProgress ---------------------------
(***************************************************************************)
(* What the discovery workspace promises about work in progress: a few     *)
(* pools, each with a limit, whose places are taken and given back one at  *)
(* a time.  README.md of the repository: at most three theses in           *)
(* validation, one build and one acquisition.                              *)
(***************************************************************************)
EXTENDS Naturals, FiniteSets

CONSTANTS
  Pools,     \* the kinds of work that are limited
  Limit      \* [Pools -> Nat]: how many places each has

VARIABLE held   \* [Pools -> set of holders]

Init == held = [p \in Pools |-> {}]

Take(p, x) ==
  /\ x \notin held[p]
  /\ Cardinality(held[p]) < Limit[p]
  /\ held' = [held EXCEPT ![p] = @ \cup {x}]

Give(p, x) ==
  /\ x \in held[p]
  /\ held' = [held EXCEPT ![p] = @ \ {x}]

\* Every step takes or gives back one place of one pool.
Next == \E p \in Pools : \E x \in held[p] \cup held'[p] : Take(p, x) \/ Give(p, x)

Spec == Init /\ [][Next]_held

=============================================================================
