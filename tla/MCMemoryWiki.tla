----------------------------- MODULE MCMemoryWiki -----------------------------
\* Two projects in two workspaces, with the same name and page or not.
EXTENDS MemoryWiki, TLC

CONSTANTS w1, w2, p1, p2, x
MCStart(n) ==
    [workspaces |-> w1 :> "default" @@ w2 :> "team",
     projects |-> p1 :> [ws |-> w1, name |-> "a", repo |-> NULL] @@ p2 :> [ws |-> w2, name |-> n, repo |-> NULL],
     rows |-> [c \in ProjectIds \X Paths |->
                  IF c = <<p1, x>> THEN 1 ELSE IF c = <<p2, x>> /\ n = "a" THEN 2 ELSE NULL]]
MCInitialStates == {MCStart(n) : n \in ProjNames}
===============================================================================
