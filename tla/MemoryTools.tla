----------------------------- MODULE MemoryTools -----------------------------
(***************************************************************************)
(* How a request names a scope, and what the three surfaces of the server  *)
(* answer: the MCP tools (ai-memory-mcp/src/server.rs), the admin routes   *)
(* (admin.rs) and the web interface (ai-memory-web/src/routes/api.rs), all *)
(* over the queries of MemoryReader and the resolver of                    *)
(* ai-memory-store/src/scope.rs.                                           *)
(*                                                                         *)
(* A scope is a pair of ids. A resolution answers with the set of scopes   *)
(* it found; the empty set is a refusal (a bad request or a missing name). *)
(* A blank name counts as absent: NULL. A search answers with the set of   *)
(* answers it may give: ranks are left out, so any hits up to the limit n. *)
(* Its query was embedded with model m, or m is NULL: no embedder, or it   *)
(* failed. A tool reads one state here (MemoryReader interleaves the       *)
(* reads of a hybrid search with the writer), except memory_query, whose   *)
(* three resolutions may see three active scopes.                          *)
(***************************************************************************)
EXTENDS MemoryReader

CONSTANTS
    GlobalProject,  \* the project that holds the standing preferences
    MaxScopes,      \* scopes one query may name
    Limits          \* bound: the numbers of hits a search asks for

ASSUME ToolsAssumption ==
    /\ MaxScopes \in Nat \ {0} /\ Limits \subseteq Nat
    /\ NULL \notin WorkspaceIds \X ProjectIds

Refused    == {}
Everywhere == {<<NULL, NULL>>}   \* no scope named: the whole store

-----------------------------------------------------------------------------
(* Names to scopes.                                                        *)

lookup_existing_scope(wn, pn) ==
    UNION {{<<w, p>> : p \in find_project(w, pn)} : w \in find_workspace(wn)}

lookup_global_scope == lookup_existing_scope("default", GlobalProject)

\* All the named scopes, or none when one is missing or there are too many.
resolve_many_existing_scopes(names, max) ==
    IF Cardinality(names) > max \/ \E n \in names : lookup_existing_scope(n.ws, n.proj) = {}
    THEN Refused
    ELSE UNION {lookup_existing_scope(n.ws, n.proj) : n \in names}

\* Mutant: a project that the active workspace does not have is refused.
ResolveInActiveOnly(pn, active, default) ==
    IF pn = NULL THEN {IF active = NULL THEN default ELSE active}
    ELSE IF active = NULL THEN {<<default[1], p>> : p \in find_project(default[1], pn)}
         ELSE {<<active[1], p>> : p \in find_project(active[1], pn)}

\* A bare project name is looked up in the workspace of the active scope,
\* then in the default workspace.
resolve_current_or_project(pn, active, default) ==
    LET In(s) == {<<s[1], p>> : p \in find_project(s[1], pn)} IN
    IF pn = NULL THEN {IF active = NULL THEN default ELSE active}
    ELSE IF active # NULL /\ In(active) # {} THEN In(active)
    ELSE In(default)

\* A workspace needs a project; a project alone is looked up around.
resolve_read_args(args, active, default) ==
    CASE args.ws # NULL /\ args.proj # NULL -> lookup_existing_scope(args.ws, args.proj)
      [] args.ws # NULL /\ args.proj = NULL -> Refused
      [] OTHER                              -> resolve_current_or_project(args.proj, active, default)

\* The workspace and project a write names, to be created if missing; the
\* writer answers with their ids. No project: the active scope, as it is.
resolve_write_args(args, active, default) ==
    IF args.proj = NULL
    THEN IF args.ws = NULL THEN [scope |-> IF active = NULL THEN default ELSE active] ELSE [error |-> "pair required"]
    ELSE [ws   |-> IF args.ws # NULL THEN find_workspace(args.ws)
                   ELSE {IF active = NULL THEN default[1] ELSE active[1]},
          proj |-> args.proj]

\* The routes of the administrator and of the web: both names, or the store.
lookup_ws_proj_no_create(args) ==
    CASE args.ws = NULL /\ args.proj = NULL -> Everywhere
      [] args.ws # NULL /\ args.proj # NULL -> lookup_existing_scope(args.ws, args.proj)
      [] OTHER                              -> Refused

Named(args) == args.ws # NULL \/ args.proj # NULL

-----------------------------------------------------------------------------
(* The MCP tools.                                                          *)

\* By the words alone unless the query could be embedded.
search_project(s, q, m, n) ==
    IF m = NULL THEN AnyOf(search_pages_for_project(s[1], s[2], q), n)
    ELSE hybrid_search(s[1], s[2], q, m, n)

\* Each scope is searched, and the hits of all are cut at the limit once more.
search_scopes(scopes, q, m, n) ==
    LET answers == UNION {{s} \X search_project(s, q, m, n) : s \in scopes}
        found   == {f \in [scopes -> {a[2] : a \in answers}] : \A s \in scopes : <<s, f[s]>> \in answers}
    IN UNION {AnyOf(UNION {f[s] : s \in scopes}, n) : f \in found}

\* The standing preferences of the global scope, beside a search without a
\* scope of its own, unless that scope is the global one.
StandingHits(q, m, n, active, default) ==
    LET other == lookup_global_scope \ resolve_read_args([ws |-> NULL, proj |-> NULL], active, default) IN
    IF other = {} THEN {{}} ELSE UNION {search_project(s, q, m, n) : s \in other}

\* "active" is what the resolutions for the hits, for the raw fallback and
\* for the standing hits find; "raw" is where the fallback searches. Across
\* the whole store the words alone are searched.
memory_query(args, q, m, n, defaultGlobal, active, default) ==
    LET explicit == args.scopes # {} \/ Named(args)
        Scopes(a) == IF args.scopes # {} THEN resolve_many_existing_scopes(args.scopes, MaxScopes)
                     ELSE resolve_read_args(args, a, default)
        hits == IF args.scopes # {} THEN search_scopes(Scopes(active[1]), q, m, n)
                ELSE UNION {search_project(s, q, m, n) : s \in Scopes(active[1])}
        standing == IF explicit THEN {{}} ELSE StandingHits(q, m, n, active[3], default)
    IN
    IF args.global \/ (defaultGlobal /\ ~explicit)
    THEN IF explicit THEN Refused
         ELSE {[hits |-> {}, raw |-> {}, everywhere |-> with_meta(h), standing |-> {}] : h \in AnyOf(search_pages(q), n)}
    ELSE IF (args.scopes # {} /\ Named(args)) \/ Scopes(active[1]) = {} THEN Refused
    ELSE {[hits       |-> h,
           raw        |-> IF h # {} THEN {} ELSE Scopes(active[2]),
           everywhere |-> {},
           standing   |-> t] : h \in hits, t \in standing}

memory_recent(args, n, defaultGlobal, active, default) ==
    IF defaultGlobal /\ ~Named(args)
    THEN [hits |-> {}, everywhere |-> recent_pages_global(n)]
    ELSE [hits |-> UNION {recent_pages_for_project(s[1], s[2], n) : s \in resolve_read_args(args, active, default)},
          everywhere |-> {}]

memory_status(args, active, default) ==
    {status_counts_for_project(s[1], s[2]) : s \in resolve_read_args(args, active, default)}

memory_briefing(args, active, default) ==
    {briefing_for_project(s[1], s[2]) : s \in resolve_read_args(args, active, default)}

\* The briefing in prose, or as it is when no model answers.
memory_explore(args, active, default) ==
    {[briefing |-> b, prose |-> answered] : b \in memory_briefing(args, active, default), answered \in BOOLEAN}

-----------------------------------------------------------------------------
(* The administrator's routes.                                             *)

handle_search(args, q, n) ==
    LET scope == lookup_ws_proj_no_create(args) IN
    IF scope = Everywhere THEN AnyOf(search_pages(q), n) ELSE UNION {search_project(s, q, NULL, n) : s \in scope}

handle_status == [counts |-> status_counts, derived |-> derived_index_status]
handle_list_projects == list_projects_with_stats(NULL)

-----------------------------------------------------------------------------
(* The web interface.                                                      *)

lookup_project(wn, pn) == lookup_existing_scope(wn, pn)

workspaces_handler   == list_workspaces_with_stats
graph_handler        == cross_project_edges(NULL)
projects_handler(wn) == list_projects_with_stats(wn)
pages_handler(wn, pn) == IF lookup_project(wn, pn) = {} THEN {} ELSE list_pages(wn, pn)

\* The page's row; what links to it and from it. (Its text is its file's.)
page_handler(wn, pn, path) ==
    {[row |-> i, links |-> page_links(pages[i].ws, pages[i].proj, pages[i].path)]
        : i \in page_meta(wn, pn, path)}

scoped_search_mode(args) ==
    IF args.scopes # {} THEN resolve_many_existing_scopes(args.scopes, MaxScopes)
    ELSE lookup_ws_proj_no_create(args)

\* Each hit again by its id: one that was replaced meanwhile is left out.
enrich_hits(hits) == with_meta(UNION {page_meta_by_id(h) : h \in hits})

\* The web has no embedder: the words alone.
search_with_request(args, q, n) ==
    IF (args.scopes # {} /\ Named(args)) \/ scoped_search_mode(args) = Refused THEN Refused
    ELSE {enrich_hits(h) : h \in IF scoped_search_mode(args) = Everywhere THEN AnyOf(search_pages(q), n)
                                 ELSE search_scopes(scoped_search_mode(args), q, NULL, n)}

recent_handler(wn, pn, n) == Newest(pages_handler(wn, pn), n)

briefing_handler(wn, pn) == {briefing_for_project(s[1], s[2]) : s \in lookup_project(wn, pn)}

overview_handler(wn) ==
    {[briefing |-> briefing_for_workspace(w), counts |-> memory_health(w, NULL), health |-> health_detail(w, NULL)]
        : w \in find_workspace(wn)}

project_overview_handler(wn, pn) ==
    {[briefing |-> briefing_for_project(s[1], s[2]), counts |-> memory_health(s[1], s[2]), health |-> health_detail(s[1], s[2])]
        : s \in lookup_project(wn, pn)}

-----------------------------------------------------------------------------
(* Properties.                                                             *)

LiveScopes == {<<projects[p].ws, p>> : p \in LiveProjects}
NameOf(s) == [ws |-> workspaces[s[1]], proj |-> projects[s[2]].name]
NoNames   == [ws |-> NULL, proj |-> NULL]
Asking(args, scopes, everywhere) ==
    [ws |-> args.ws, proj |-> args.proj, scopes |-> scopes, global |-> everywhere]

\* A scope can be named in every way: by its two names, by its project where
\* it or the default scope's workspace is active, by nothing where it is the
\* active one; a bare project name never leads out of those two workspaces.
NamesAgree ==
    \A default \in LiveScopes, active \in LiveScopes \cup {NULL} :
        /\ \A s \in LiveScopes :
               /\ resolve_read_args(NameOf(s), active, default) = {s}
               /\ resolve_read_args(NoNames, s, default) = {s}
               /\ resolve_current_or_project(NameOf(s).proj, s, default) = {s}
               /\ s[1] = default[1] => resolve_current_or_project(NameOf(s).proj, active, default) # {}
        /\ \A pn \in ProjNames : \A s \in resolve_current_or_project(pn, active, default) :
               s \in LiveScopes /\ s[1] \in {default[1]} \cup (IF active = NULL THEN {} ELSE {active[1]})
        /\ \A wn \in WsNames : resolve_read_args([ws |-> wn, proj |-> NULL], active, default) = {}
        /\ \A pn \in ProjNames : LET write == resolve_write_args([ws |-> NULL, proj |-> pn], active, default)
                                     read  == resolve_read_args([ws |-> NULL, proj |-> pn], active, default)
                                 IN active = NULL \/ active[1] = default[1] =>
                                        read \subseteq {<<w, p>> : w \in write.ws, p \in LiveProjects}

\* The three surfaces tell the same: asked about one scope in any of the ways to name it, a
\* query has the same answers, from that scope, within the limit and never beside the standing
\* preferences that repeat it. Where the query is not embedded they are the answers of the
\* administrator and of the web; where it is, the tools may find other pages, but with room for
\* all they find every page the others find. A search of the whole store is the same for the
\* tools and the web, and with room for all it finds what a search of all its scopes finds.
SurfacesAgree ==
    /\ \A s \in LiveScopes :
           LET name == NameOf(s) IN
           /\ memory_briefing(NoNames, s, s) = briefing_handler(name.ws, name.proj)
           /\ memory_recent(NoNames, RecentLimit, FALSE, s, s).hits
                  = recent_handler(name.ws, name.proj, RecentLimit)
    /\ \A q \in Queries \cup {Contents}, n \in Limits :
        /\ \A s \in LiveScopes, m \in EmbedModels \cup {NULL} :
               LET name   == NameOf(s)
                   still  == <<s, s, s>>
                   answer == memory_query(Asking(name, {}, FALSE), q, m, n, TRUE, still, s)
               IN /\ answer = memory_query(Asking(NoNames, {name}, FALSE), q, m, n, TRUE, still, s)
                  /\ \A a \in answer :
                         /\ a.hits \subseteq InProject(s[1], s[2]) /\ Cardinality(a.hits) <= n /\ a.standing = {}
                         /\ n = MaxPages => \A h \in handle_search(name, q, n) : h \subseteq a.hits
                  /\ m = NULL =>
                         /\ {a.hits : a \in answer} = handle_search(name, q, n)
                         /\ {enrich_hits(a.hits) : a \in answer}
                                = search_with_request(Asking(NoNames, {name}, FALSE), q, n)
                  /\ \A a \in memory_query(Asking(NoNames, {}, FALSE), q, m, n, FALSE, still, s) :
                         a.hits \cap a.standing = {}
        /\ \A s \in LiveScopes :
               {a.everywhere : a \in memory_query(Asking(NoNames, {}, TRUE), q, NULL, n, FALSE, <<s, s, s>>, s)}
                   = search_with_request(Asking(NoNames, {}, FALSE), q, n)
        /\ n = MaxPages => search_scopes(LiveScopes, q, NULL, n) = handle_search(NoNames, q, n)

\* The overviews of the web: a workspace's is its projects' taken together.
OverviewsAgree ==
    \A w \in LiveWorkspaces : \A whole \in overview_handler(workspaces[w]) :
        LET parts == UNION {project_overview_handler(workspaces[w], projects[p].name) : p \in ProjectsOf(w)} IN
        /\ whole.health.orphans = UNION {o.health.orphans : o \in parts}
        /\ whole.briefing.rules = UNION {o.briefing.rules : o \in parts}
        /\ whole.briefing.recent \subseteq UNION {o.briefing.recent : o \in parts}
        /\ UNION {pages_handler(workspaces[w], projects[p].name) : p \in ProjectsOf(w)} = InWorkspace(w)

\* Every road to a page leads to the same rows, and every surface takes one: a search by its
\* words finds the same pages everywhere, one by a vector too, and more. The roads
\* read the stored rows alone, and a search only reads them too: looking at every store
\* while no search is under way looks at every store there is.
AnswersAgree ==
    search = NoSearch => ReadersAgree /\ NamesAgree /\ SurfacesAgree /\ OverviewsAgree
=============================================================================
