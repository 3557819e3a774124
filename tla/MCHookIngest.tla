---------------------------- MODULE MCHookIngest ----------------------------
\* A session whose events come from a repository and a directory in it.
EXTENDS HookIngest, TLC

MCNameOf(d) == CASE d = "repo" -> "p" [] d = "sub" -> "q" [] OTHER -> NULL
MCRootOf(d) == IF d = "repo" THEN "repo" ELSE NULL
MCLength(d) == CASE d = "repo" -> 1 [] d = "sub" -> 2 [] OTHER -> 0
MCWithin == {<<"repo", "repo">>, <<"repo", "sub">>, <<"sub", "sub">>}
MCMaxEvents(batched) == IF batched THEN 4 ELSE 2
MCFewEvents(batched) == 2
Place(dir, proj) == [dir |-> dir, ws |-> NULL, proj |-> proj]
MCPlaces(kind) == CASE kind = "work" -> {Place("repo", NULL), Place("sub", NULL)}
                    [] kind = "compact" -> {Place("repo", NULL)}
                    [] kind = "end" -> {Place("sub", NULL), Place(NULL, NULL)}
                    [] kind = "fetch" -> {Place(NULL, NULL)}
\* Either the events of the session one after another, or requests of all sorts at once.
Slices == serial =>
    /\ \A t, u \in Tasks : Busy(t) /\ Busy(u) => t = u
    /\ \A t \in Tasks : Busy(t) => tasks[t].kind # "fetch"
    /\ \A h \in handoffs : h.covers # {}
Symmetric == Permutations(Tasks) \cup Permutations(ProjectIds \ {DefaultProj})
=============================================================================
