---------------------------- MODULE MemoryReader ----------------------------
(***************************************************************************)
(* What the memory server answers about its pages: the queries of          *)
(* ai-memory-store/src/reader.rs over the tables of MemoryPages.           *)
(*                                                                         *)
(* A query is one SQL statement on a connection of the reader pool and     *)
(* sees one committed state: each is an operator on the current state. The *)
(* hybrid search is the exception: three statements, on whatever the       *)
(* writer has committed by the time each one runs, whose answers are fused *)
(* and later used to reinforce the pages by id. It is a process here.      *)
(*                                                                         *)
(* Rows are immutable and drawn in order, so "most recently updated" is    *)
(* the greatest id. Ranking is left out: where a rank decides which hits   *)
(* survive a limit, any of them may.                                       *)
(***************************************************************************)
EXTENDS MemoryPages, FiniteSetsExt

CONSTANTS
    Queries,        \* full-text queries: the sets of contents they match
    RulePaths,      \* paths under _rules/
    SlotPaths,      \* paths under _slots/
    SearchLimit,    \* hits a search returns
    RecentLimit     \* recent pages a briefing returns

ASSUME ReaderAssumption ==
    /\ Queries \subseteq SUBSET Contents
    /\ RulePaths \cup SlotPaths \subseteq Paths
    /\ SearchLimit \in Nat /\ RecentLimit \in Nat
    /\ NULL \notin WorkspaceIds \cup ProjectIds \cup EmbedModels

VARIABLE search   \* the hybrid search in progress

readerVars == <<pageVars, search>>

\* Any n of the set, or all of it when it has no more.
AnyOf(S, n) == {T \in SUBSET S : Cardinality(T) = IF Cardinality(S) < n THEN Cardinality(S) ELSE n}
\* The n most recent.
Newest(S, n) == {i \in S : Cardinality({j \in S : j > i}) < n}

\* Pages as an answer names them.
with_meta(S) ==
    {[ws |-> workspaces[pages[i].ws], proj |-> projects[pages[i].proj].name, path |-> pages[i].path] : i \in S}

InProject(w, p)   == {i \in LatestRows : pages[i].ws = w /\ pages[i].proj = p}
InWorkspace(w)    == {i \in LatestRows : pages[i].ws = w}
Matching(S, q)    == {i \in S : pages[i].content \in q}

-----------------------------------------------------------------------------
(* Searches and listings.                                                  *)

search_pages(q)                   == Matching(LatestRows, q)
search_pages_with_meta(q)         == with_meta(Matching(LatestRows, q))
search_pages_for_project(w, p, q) == Matching(InProject(w, p), q)

recent_pages(n)                   == Newest(LatestRows, n)
recent_pages_for_project(w, p, n) == Newest(InProject(w, p), n)
recent_pages_global(n)            == with_meta(Newest(LatestRows, n))

find_workspace(n) == WorkspaceNamed(n)
find_project(w, n) == ProjectNamed(w, n)

\* By name, as the browsing routes and the lint ask.
list_pages(wn, pn) ==
    {i \in LatestRows : workspaces[pages[i].ws] = wn /\ projects[pages[i].proj].name = pn}
page_meta(wn, pn, path) == {i \in list_pages(wn, pn) : pages[i].path = path}
page_meta_by_id(i) == {j \in LatestRows : j = i}
page_meta_by_path(path) == {i \in LatestRows : pages[i].path = path}   \* any one of them

page_body_by_ids(w, p, path) == {i \in InProject(w, p) : pages[i].path = path}

\* The vectors a search may compare with: of latest pages, of its own model.
load_embeddings(w, p, m) == {i \in InProject(w, p) : embeddings[i] = m}
embedded_page_ids(w, p, m) == {i \in InProject(w, p) : embeddings[i] = m}
embedding_meta_for_mismatch(m) == {i \in LatestRows : embeddings[i] \notin {NULL, m}}

-----------------------------------------------------------------------------
(* Links.                                                                  *)

LinksBetween(i, j) == {l \in links : l.from = i /\ l.to = j}

page_links(w, p, path) ==
    LET self == page_body_by_ids(w, p, path) IN
    [links     |-> {j \in LatestRows : \E i \in self : LinksBetween(i, j) # {}},
     backlinks |-> {j \in LatestRows : \E i \in self : LinksBetween(j, i) # {}}]

dangling_cross_project_links(w, p) ==
    {l \in links : l.from \in InProject(w, p) /\ l.to = NoPage /\ l.proj # NULL}

\* Edges of the graph across projects: all of them, or those of one project.
cross_project_edges(scope) ==
    {e \in LatestRows \X LatestRows :
        LET i == e[1]
            j == e[2]
        IN /\ LinksBetween(i, j) # {} /\ pages[i].proj # pages[j].proj
           /\ scope # NULL => scope \in {pages[i].proj, pages[j].proj}}

cross_project_degree(w, p) ==
    [dependents   |-> Cardinality({pages[e[1]].proj : e \in {e \in cross_project_edges(NULL) :
                                       pages[e[2]].proj = p /\ pages[e[2]].ws = w}}),
     dependencies |-> Cardinality({pages[e[2]].proj : e \in {e \in cross_project_edges(NULL) :
                                       pages[e[1]].proj = p /\ pages[e[1]].ws = w}})]

\* Mutant: neighbours in any project.
NeighborsAnywhere(w, p, seeds) ==
    {i \in LatestRows \ seeds : \E s \in seeds : LinksBetween(s, i) \cup LinksBetween(i, s) # {}}

\* Neighbours of the seeds, both ways, inside the project, the seeds left out.
graph_neighbors(w, p, seeds) ==
    {i \in InProject(w, p) \ seeds :
        \E s \in seeds : LinksBetween(s, i) \cup LinksBetween(i, s) # {}}

\* What a hybrid search that reads one state may answer: the full-text hits, the nearest
\* vectors of the query's model and the neighbours of both, fused and cut at the limit.
hybrid_search(w, p, q, m, n) ==
    LET Fused(seeds) == UNION {AnyOf(seeds \cup linked, n) : linked \in AnyOf(graph_neighbors(w, p, seeds), 2 * n)}
    IN UNION {Fused(text \cup near) : text \in AnyOf(search_pages_for_project(w, p, q), 2 * n),
                                      near \in AnyOf(load_embeddings(w, p, m), 2 * n)}

-----------------------------------------------------------------------------
(* Counts and overviews.                                                   *)

status_counts == [latest |-> Cardinality(LatestRows), all |-> Cardinality(Rows)]

status_counts_for_project(w, p) ==
    [latest |-> Cardinality(InProject(w, p)),
     all    |-> Cardinality({i \in Rows : pages[i].ws = w /\ pages[i].proj = p})]

\* The health of an index: what is missing, unresolved or stale.
derived_index_status ==
    LET fromLatest == {l \in links : l.from \in LatestRows} IN
    [pages      |-> Cardinality(Rows),
     missing    |-> Cardinality({i \in LatestRows : embeddings[i] = NULL}),
     vectors    |-> Cardinality({i \in Rows : embeddings[i] # NULL}),
     links      |-> Cardinality(fromLatest),
     unresolved |-> Cardinality({l \in fromLatest : l.to = NoPage}),
     stale      |-> Cardinality({l \in fromLatest : l.to # NoPage /\ l.to \notin LatestRows})]

list_projects_with_stats(wn) ==
    {[ws |-> workspaces[projects[p].ws], proj |-> projects[p].name,
      count |-> Cardinality({i \in LatestRows : pages[i].proj = p})]
        : p \in {p \in LiveProjects : wn = NULL \/ workspaces[projects[p].ws] = wn}}

list_workspaces_with_stats ==
    {[ws |-> workspaces[w], projects |-> Cardinality(ProjectsOf(w)),
      count |-> Cardinality({i \in LatestRows : pages[i].proj \in ProjectsOf(w)})]
        : w \in LiveWorkspaces}

list_all_scopes == {[w |-> projects[p].ws, wn |-> workspaces[projects[p].ws],
                     p |-> p, pn |-> projects[p].name] : p \in LiveProjects}
list_all_workspace_scopes == {[w |-> w, wn |-> workspaces[w]] : w \in LiveWorkspaces}

\* A briefing: the rules, the slots, what changed last, and how the project
\* depends on others (only the project's own briefing counts that).
briefing ==
    [counts |-> status_counts,
     rules  |-> {i \in LatestRows : pages[i].path \in RulePaths},
     slots  |-> {i \in LatestRows : pages[i].path \in SlotPaths},
     recent |-> recent_pages(RecentLimit)]

briefing_for_project(w, p) ==
    [counts |-> status_counts_for_project(w, p),
     rules  |-> {i \in InProject(w, p) : pages[i].path \in RulePaths},
     slots  |-> {i \in InProject(w, p) : pages[i].path \in SlotPaths},
     recent |-> recent_pages_for_project(w, p, RecentLimit),
     degree |-> cross_project_degree(w, p)]

briefing_for_workspace(w) ==
    [counts |-> [latest |-> Cardinality(InWorkspace(w)),
                 all    |-> Cardinality({i \in Rows : pages[i].ws = w})],
     rules  |-> {i \in InWorkspace(w) : pages[i].path \in RulePaths},
     slots  |-> {i \in InWorkspace(w) : pages[i].path \in SlotPaths},
     recent |-> Newest(InWorkspace(w), RecentLimit)]

\* What a session is told when it starts: rules, slots and pinned pages in
\* full, and the titles of the latest changes.
session_brief_pages(w, p) ==
    [core   |-> {i \in InProject(w, p) : pages[i].path \in RulePaths \cup SlotPaths
                                         \/ pages[i].content \in Pinned},
     recent |-> recent_pages_for_project(w, p, RecentLimit)]

\* Stale: episodic and old; orphan: no link row starts or ends at the page.
memory_health(w, scope) ==
    LET scoped == {i \in InWorkspace(w) : scope = NULL \/ pages[i].proj = scope} IN
    [stale   |-> Cardinality({i \in scoped : pages[i].content \in Episodic /\ ~pages[i].warm}),
     orphans |-> Cardinality({i \in scoped : \A l \in links : i \notin {l.from, l.to}})]

health_detail(w, scope) ==
    LET scoped == {i \in InWorkspace(w) : scope = NULL \/ pages[i].proj = scope} IN
    [stale   |-> {i \in scoped : pages[i].content \in Episodic /\ ~pages[i].warm},
     orphans |-> {i \in scoped : \A l \in links : i \notin {l.from, l.to}}]

-----------------------------------------------------------------------------
(* The hybrid search.                                                      *)

NoSearch == [step |-> "idle"]

InitR == Init /\ search = NoSearch

\* First the full-text hits; "seen" and "newest" only record the start.
SearchText(w, p, q) ==
    /\ search = NoSearch
    /\ \E hits \in AnyOf(search_pages_for_project(w, p, q), 2 * SearchLimit) :
           search' = [step |-> "vectors", ws |-> w, proj |-> p, hits |-> hits,
                      seen |-> {i \in LatestRows : pages[i].proj = p}, born |-> {i \in PageIds : pages[i] # Unborn}]
    /\ UNCHANGED pageVars

\* Then, if the query could be embedded, the nearest vectors.
SearchVectors(m) ==
    /\ search.step = "vectors"
    /\ \/ search' = [search EXCEPT !.step = "graph"]
       \/ \E near \in AnyOf(load_embeddings(search.ws, search.proj, m), 2 * SearchLimit) :
              search' = [search EXCEPT !.step = "graph", !.hits = @ \cup near]
    /\ UNCHANGED pageVars

\* Then the neighbours of both, and the fused ranking is cut at the limit.
SearchGraph ==
    /\ search.step = "graph"
    /\ \E near \in AnyOf(graph_neighbors(search.ws, search.proj, search.hits), 2 * SearchLimit) :
       \E hits \in AnyOf(search.hits \cup near, SearchLimit) :
           search' = [search EXCEPT !.step = "reinforce", !.hits = hits]
    /\ UNCHANGED pageVars

\* The answer is sent; its pages are reinforced in the background, by id.
SearchReinforce ==
    /\ search.step = "reinforce"
    /\ IF search.hits \cap LatestRows # {} THEN BumpAccess(search.hits) ELSE UNCHANGED pageVars
    /\ search' = NoSearch

Search ==
    \/ \E w \in WorkspaceIds, p \in ProjectIds, q \in Queries : SearchText(w, p, q)
    \/ \E m \in EmbedModels : SearchVectors(m)
    \/ SearchGraph
    \/ SearchReinforce

NextR == (Next /\ UNCHANGED search) \/ Search

SpecR == InitR /\ [][NextR]_readerVars

-----------------------------------------------------------------------------
(* Properties.                                                             *)

\* A hybrid search answers only with pages of its own project that were
\* latest when it began or were written since, although it reads three times
\* while pages are superseded, evicted, purged and moved, and although links
\* lead across projects.
SearchStaysInProject ==
    search.step # "idle" => \A i \in search.hits :
        /\ i \in search.seen \/ i \notin search.born
        /\ i \in Rows => pages[i].proj = search.proj

\* The counts of the whole store, of its workspaces, of its projects and of
\* the briefings are the same pages counted by different keys: they agree
\* after any move, rename and purge.
CountsAgree ==
    /\ status_counts.latest = SumFunction([p \in LiveProjects |->
           briefing_for_project(projects[p].ws, p).counts.latest])
    /\ status_counts.all = SumFunction([w \in LiveWorkspaces |-> briefing_for_workspace(w).counts.all])
    /\ status_counts.latest = SumFunction([r \in list_workspaces_with_stats |-> r.count])
    /\ status_counts.latest = SumFunction([r \in list_projects_with_stats(NULL) |-> r.count])
    /\ \A s \in list_all_scopes :
           /\ [ws |-> s.wn, proj |-> s.pn, count |-> Cardinality(list_pages(s.wn, s.pn))]
                  \in list_projects_with_stats(s.wn)
           /\ find_project(s.w, s.pn) = {s.p} /\ find_workspace(s.wn) = {s.w}
    /\ \A s \in list_all_workspace_scopes : find_workspace(s.wn) = {s.w}
    /\ briefing.counts.all = derived_index_status.pages

\* A page found by one road is found by all: what a search, a briefing or a
\* listing names resolves by path, by id and by names to one and the same row.
RoadsAgree ==
    /\ \A i \in search_pages(Contents) :
           LET row == pages[i]
               wn  == workspaces[row.ws]
               pn  == projects[row.proj].name
           IN /\ page_meta_by_id(i) = {i} /\ i \in page_meta_by_path(row.path)
              /\ page_meta(wn, pn, row.path) = {i}
              /\ page_body_by_ids(row.ws, row.proj, row.path) = {i}
              /\ [ws |-> wn, proj |-> pn, path |-> row.path]
                     \in search_pages_with_meta(Contents) \cap recent_pages_global(MaxPages)
              /\ i \in search_pages_for_project(row.ws, row.proj, Contents)
    /\ \A w \in LiveWorkspaces :
           /\ briefing_for_workspace(w).rules
                  = UNION {briefing_for_project(w, p).rules : p \in ProjectsOf(w)}
           /\ briefing_for_workspace(w).slots
                  = UNION {briefing_for_project(w, p).slots : p \in ProjectsOf(w)}
           /\ briefing_for_workspace(w).recent
                  \subseteq UNION {session_brief_pages(w, p).recent : p \in ProjectsOf(w)}
           /\ \A p \in ProjectsOf(w) :
                  briefing_for_project(w, p).rules \subseteq session_brief_pages(w, p).core \cap briefing.rules
           /\ health_detail(w, NULL).orphans = UNION {health_detail(w, p).orphans : p \in ProjectsOf(w)}
           /\ memory_health(w, NULL).stale
                  = SumFunction([p \in ProjectsOf(w) |-> Cardinality(health_detail(w, p).stale)])
           /\ \A p \in ProjectsOf(w) :
                  memory_health(w, p).orphans = Cardinality(health_detail(w, p).orphans)

\* The graph is told the same way from both ends: an edge between projects is
\* a link of its source and a backlink of its target and is counted in both
\* degrees, and every link across projects of a latest page is an edge,
\* dangling, or counted as stale.
GraphAgrees ==
    /\ \A e \in cross_project_edges(NULL) :
           LET i == pages[e[1]]
               j == pages[e[2]]
           IN /\ e[2] \in page_links(i.ws, i.proj, i.path).links
              /\ e[1] \in page_links(j.ws, j.proj, j.path).backlinks
              /\ cross_project_degree(i.ws, i.proj).dependencies > 0
              /\ cross_project_degree(j.ws, j.proj).dependents > 0
              /\ e \in cross_project_edges(i.proj) \cap cross_project_edges(j.proj)
    /\ derived_index_status.links =
           derived_index_status.stale + derived_index_status.unresolved
           + SumFunction([i \in LatestRows |->
                 Cardinality({l \in links : l.from = i /\ l.to \in LatestRows})])
    /\ \A p \in LiveProjects : \A l \in dangling_cross_project_links(projects[p].ws, p) :
           \A e \in cross_project_edges(p) : l \notin LinksBetween(e[1], e[2])

\* Vectors compared with each other come from one model; the others are the
\* ones the mismatch report counts.
VectorsOfOneModel ==
    \A m \in EmbedModels : LET other == embedding_meta_for_mismatch(m) IN
        /\ \A p \in LiveProjects : LET w == projects[p].ws IN
               /\ load_embeddings(w, p, m) = embedded_page_ids(w, p, m)
               /\ load_embeddings(w, p, m) \cap other = {}
        /\ derived_index_status.missing + Cardinality(other)
               + SumFunction([p \in LiveProjects |-> Cardinality(load_embeddings(projects[p].ws, p, m))])
               = status_counts.latest

\* Every road to a page leads to the same rows.
ReadersAgree == CountsAgree /\ RoadsAgree /\ GraphAgrees /\ VectorsOfOneModel
=============================================================================
