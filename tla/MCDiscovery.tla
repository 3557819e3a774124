----------------------------- MODULE MCDiscovery -----------------------------
(* Instances of DiscoveryWorkspace for TLC.                                 *)
EXTENDS DiscoveryWorkspace, TLC

CONSTANTS t1, t2, a1

Proof(t, v) == [ thesis |-> t, validation |-> v, counts |-> TRUE ]
Hint(t, v) == [ thesis |-> t, validation |-> v, counts |-> FALSE ]

\* theses are alike as long as the drafts are the same for each
Alike == Permutations(Theses)

\* what each thesis needs for its build and its acquisition
AllProofs == { Proof(t, v) : t \in Theses, v \in E1 \cup E2 }
\* and evidence that is synthetic or contradicting
EverySort == AllProofs \cup { Hint(t, "action") : t \in Theses }

\* A bound, in two slices. One thesis alone has evidence of every sort, decided
\* again and again, and money for one experiment.
OneThesis ==
  /\ \E t \in Theses : theses[t].stage = "absent"
  /\ Len(experiments) <= 1 /\ Len(acquisitions) <= 1
  /\ handoffs # {} \/ acquisitions # <<>> \/ returns # {} =>
       \A d \in Drafts : evidence[d] \notin {"unverified", "rejected"}

\* Two theses compete once both are confirmed and all their proofs are verified.
\* (Handoffs and returns are the other slice's: neither takes or gives back a
\* place that an acquisition's end by hand does not.)
TwoTheses ==
  /\ handoffs = {} /\ returns = {}
  /\ \A d \in Drafts : evidence[d] # "rejected" /\ (d.counts \/ evidence[d] = "absent")
  /\ \A e \in DOMAIN experiments : experiments[e].ceiling = None
  /\ experiments # <<>> \/ builds # <<>> =>
       /\ \A d \in AllProofs : evidence[d] = "verified"
       /\ \A t \in Theses : theses[t].stage \notin {"absent", "proposed"}

Slices == OneThesis \/ TwoTheses

=============================================================================
