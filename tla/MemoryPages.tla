----------------------------- MODULE MemoryPages -----------------------------
(***************************************************************************)
(* Page versions, links and embeddings of the memory server's database     *)
(* (ai-memory-store/src/ops.rs, decay.rs; ai-memory-consolidate/src/       *)
(* sweep.rs).                                                              *)
(*                                                                         *)
(* A page is a chain of immutable versions under one path: a write makes a *)
(* new row the latest and points it at the one it supersedes. The writer   *)
(* runs one command at a time, but the sweep and the embedding jobs first  *)
(* READ through the reader pool and send their writes later, by row id: in *)
(* between anything may happen to the rows they chose.                     *)
(*                                                                         *)
(* Row ids are drawn in order, 1..MaxPages; 0 stands for SQL's NULL.       *)
(***************************************************************************)
EXTENDS MemoryScopes

CONSTANTS
    Paths,          \* page paths
    Contents,       \* what identifies a version: body, frontmatter, title, tier, pin
    LinksOf(_),     \* the links a content holds: a set of [ws, proj, path]
    Episodic,       \* the contents of episodic tier: the only ones that decay
    Pinned,         \* the contents pinned by flag or frontmatter
    EmbedModels,    \* (provider, model, dimension)
    MaxPages        \* bound: versions ever written

LinkTargets == [ws : WsNames \cup {NULL}, proj : ProjNames \cup {NULL}, path : Paths]

ASSUME PagesAssumption ==
    /\ MaxPages \in Nat
    /\ Episodic \subseteq Contents /\ Pinned \subseteq Contents
    /\ \A c \in Contents : LinksOf(c) \subseteq LinkTargets /\ IsFiniteSet(LinksOf(c))
    \* The parser names a workspace only together with a project.
    /\ \A c \in Contents : \A l \in LinksOf(c) : l.proj = NULL => l.ws = NULL

VARIABLES
    pages,        \* id -> Unborn, Gone or a version row
    links,        \* rows [from, ws, proj, path, to]
    embeddings,   \* id -> NULL or the model of its vector
    sweeping,     \* the rows the sweep in progress chose, or NULL
    embedding     \* the version an embedding job is computing, or 0

pageVars == <<workspaces, projects, pages, links, embeddings, sweeping, embedding>>

PageIds == 1..MaxPages
NoPage == 0
Rows == {i \in PageIds : pages[i] \notin {Unborn, Gone}}
LatestRows == {i \in Rows : pages[i].latest}

PageRows ==
    [ws : WorkspaceIds, proj : ProjectIds, path : Paths, content : Contents,
     latest : BOOLEAN, supersedes : 0..MaxPages,
     \* superseded_at, set only by the sweep: unset, or the age of the eviction
     evicted : {"no", "recent", "old"},
     accessed : BOOLEAN,   \* access_count > 0
     warm : BOOLEAN]       \* retention_score is still above the threshold
ASSUME RowsAssumption == {Unborn, Gone} \cap PageRows = {}

LinkRows == [from : PageIds, ws : WsNames \cup {NULL}, proj : ProjNames \cup {NULL},
             path : Paths, to : 0..MaxPages]

Init ==
    /\ ScopesInit
    /\ pages = [i \in PageIds |-> Unborn]
    /\ links = {}
    /\ embeddings = [i \in PageIds |-> NULL]
    /\ sweeping = NULL
    /\ embedding = NoPage

-----------------------------------------------------------------------------
(* Writing pages, as functions of the two tables, so that a batch is one   *)
(* transaction of several.                                                 *)

LiveIn(pgs) == {i \in PageIds : pgs[i] \notin {Unborn, Gone}}

\* The latest version of a path, NoPage if it has none.
LatestOf(pgs, w, p, path) ==
    LET found == {i \in LiveIn(pgs) : /\ pgs[i].ws = w /\ pgs[i].proj = p
                                      /\ pgs[i].path = path /\ pgs[i].latest}
    IN IF found = {} THEN NoPage ELSE CHOOSE i \in found : TRUE

NextPageId(pgs) == CHOOSE i \in PageIds : /\ pgs[i] = Unborn
                                          /\ \A j \in 1..(i - 1) : pgs[j] # Unborn
HasRoom(pgs, n) == \E i \in PageIds : pgs[i] = Unborn /\ i + n - 1 <= MaxPages

\* The project a link names: the page's own without a project name; else by
\* name in the named workspace, or in the page's own without one.
LinkProject(w, p, l) ==
    IF l.proj = NULL THEN {p}
    ELSE UNION {ProjectNamed(v, l.proj) : v \in IF l.ws = NULL THEN {w} ELSE WorkspaceNamed(l.ws)}

latest_page_id_for_link(pgs, w, p, l) ==
    LET target == LinkProject(w, p, l) IN
    IF target = {} THEN NoPage
    ELSE LET q == CHOOSE q \in target : TRUE IN LatestOf(pgs, projects[q].ws, q, l.path)

\* The links of a new version, each resolved against the rows as they are.
replace_links(pgs, lks, id) ==
    {l \in lks : l.from # id} \cup
    {[from |-> id, ws |-> l.ws, proj |-> l.proj, path |-> l.path,
      to |-> latest_page_id_for_link(pgs, pgs[id].ws, pgs[id].proj, l)]
        : l \in LinksOf(pgs[id].content)}

\* Mutant: only the links that lead nowhere yet are repointed.
RefreshUnresolved(pgs, lks, id) ==
    {IF /\ l.to = NoPage /\ l.path = pgs[id].path /\ l.proj = NULL
        /\ pgs[l.from].proj = pgs[id].proj
     THEN [l EXCEPT !.to = id] ELSE l : l \in lks}

\* Every link to the path follows the new version: a bare one from its own
\* project; a named one that names this project and this workspace, or this
\* project and comes from a page of this workspace.
refresh_incoming_links(pgs, lks, id) ==
    LET row == pgs[id]
        Bare(l)  == l.proj = NULL /\ pgs[l.from].proj = row.proj /\ pgs[l.from].ws = row.ws
        Named(l) == /\ l.proj = projects[row.proj].name
                    /\ \/ l.ws = workspaces[row.ws]
                       \/ l.ws = NULL /\ pgs[l.from].ws = row.ws
    IN {IF l.path = row.path /\ (Bare(l) \/ Named(l)) THEN [l EXCEPT !.to = id] ELSE l : l \in lks}

\* Mutant: the version before stays latest.
UpsertWithoutRetiring(db, page) ==
    LET new == NextPageId(db.pages)
        pgs == [db.pages EXCEPT ![new] =
                   [ws |-> page.ws, proj |-> page.proj, path |-> page.path,
                    content |-> page.content, latest |-> TRUE,
                    supersedes |-> LatestOf(db.pages, page.ws, page.proj, page.path),
                    evicted |-> "no", accessed |-> FALSE, warm |-> TRUE]]
    IN [pages |-> pgs, links |-> replace_links(pgs, db.links, new)]

\* An identical latest version is kept; otherwise the new row becomes the
\* latest. With no latest row (never written, or evicted) it supersedes none.
upsert_page_in_tx(db, page) ==
    LET old == LatestOf(db.pages, page.ws, page.proj, page.path)
        new == NextPageId(db.pages)
        retired == IF old = NoPage THEN db.pages
                   ELSE [db.pages EXCEPT ![old].latest = FALSE]
        pgs == [retired EXCEPT ![new] =
                   [ws |-> page.ws, proj |-> page.proj, path |-> page.path,
                    content |-> page.content, latest |-> TRUE, supersedes |-> old,
                    evicted |-> "no", accessed |-> FALSE, warm |-> TRUE]]
    IN IF old # NoPage /\ db.pages[old].content = page.content THEN db
       ELSE [pages |-> pgs,
             links |-> refresh_incoming_links(pgs, replace_links(pgs, db.links, new), new)]

Tables == [pages |-> pages, links |-> links]
Commit(db) ==
    /\ pages' = db.pages
    /\ links' = db.links
    /\ UNCHANGED <<workspaces, projects, embeddings, sweeping, embedding>>

\* A page is written into a scope that is sound.
Fits(page) == ProjectInWorkspace(page.ws, page.proj)

UpsertPage(page) ==
    /\ HasRoom(pages, 1) /\ Fits(page)
    /\ Commit(upsert_page_in_tx(Tables, page))

\* A batch is one transaction: each page sees what the ones before it wrote.
\* Bound: batches of two pages.
UpsertPages(first, second) ==
    /\ HasRoom(pages, 2) /\ Fits(first) /\ Fits(second)
    /\ Commit(upsert_page_in_tx(upsert_page_in_tx(Tables, first), second))

-----------------------------------------------------------------------------
(* Removing rows: the schema deletes the links that start at them and their *)
(* vectors, and clears the references to them.                              *)

RemoveRows(gone) ==
    /\ pages' = [i \in PageIds |->
           IF i \in gone THEN Gone
           ELSE IF i \in Rows /\ pages[i].supersedes \in gone
                THEN [pages[i] EXCEPT !.supersedes = NoPage] ELSE pages[i]]
    /\ links' = {IF l.to \in gone THEN [l EXCEPT !.to = NoPage] ELSE l
                    : l \in {k \in links : k.from \notin gone}}
    /\ embeddings' = [i \in PageIds |-> IF i \in gone THEN NULL ELSE embeddings[i]]

\* Every version of the path goes, the evicted ones too.
DeletePage(w, p, path) ==
    LET gone == {i \in Rows : pages[i].ws = w /\ pages[i].proj = p /\ pages[i].path = path} IN
    /\ gone # {}
    /\ RemoveRows(gone)
    /\ UNCHANGED <<workspaces, projects, sweeping, embedding>>

PurgeProjectPages(w, p) ==
    /\ PurgeProject(w, p)
    /\ RemoveRows({i \in Rows : pages[i].proj = p})
    /\ UNCHANGED <<sweeping, embedding>>

DeleteWorkspacePages(w, force) ==
    /\ DeleteWorkspace(w, force)
    /\ RemoveRows({i \in Rows : pages[i].proj \in ProjectsOf(w)})
    /\ UNCHANGED <<sweeping, embedding>>

\* The project's rows follow it; links keep the names they were written with.
MoveProjectPages(p, from, to) ==
    /\ MoveProjectWorkspace(p, from, to)
    /\ pages' = [i \in PageIds |->
           IF i \in Rows /\ pages[i].proj = p THEN [pages[i] EXCEPT !.ws = to] ELSE pages[i]]
    /\ UNCHANGED <<links, embeddings, sweeping, embedding>>

RenameProjectPages(w, p, n) ==
    RenameProject(w, p, n) /\ UNCHANGED <<pages, links, embeddings, sweeping, embedding>>

RenameWorkspacePages(w, n) ==
    RenameWorkspace(w, n) /\ UNCHANGED <<pages, links, embeddings, sweeping, embedding>>

\* Reorganising the sessions of a workspace retires every page it holds.
ReorgPages(w) ==
    /\ \E i \in LatestRows : pages[i].ws = w
    /\ pages' = [i \in PageIds |->
           IF i \in LatestRows /\ pages[i].ws = w THEN [pages[i] EXCEPT !.latest = FALSE] ELSE pages[i]]
    /\ UNCHANGED <<workspaces, projects, links, embeddings, sweeping, embedding>>

-----------------------------------------------------------------------------
(* Reading, decay and the sweep.                                           *)

\* Pages returned by a search or read in full are reinforced, if still latest.
BumpAccess(ids) ==
    /\ ids \cap LatestRows # {}
    /\ pages' = [i \in PageIds |->
           IF i \in ids \cap LatestRows
           THEN [pages[i] EXCEPT !.accessed = TRUE, !.warm = TRUE] ELSE pages[i]]
    /\ UNCHANGED <<workspaces, projects, links, embeddings, sweeping, embedding>>

\* Time passes: scores fall under the threshold, evictions pass the retention.
RetentionPasses ==
    /\ \E i \in Rows : pages[i].warm \/ pages[i].evicted = "recent"
    /\ pages' = [i \in PageIds |->
           IF i \in Rows
           THEN [pages[i] EXCEPT !.warm = FALSE,
                                 !.evicted = IF @ = "recent" THEN "old" ELSE @]
           ELSE pages[i]]
    /\ UNCHANGED <<workspaces, projects, links, embeddings, sweeping, embedding>>

IsDecayable(i) == pages[i].content \in Episodic /\ pages[i].content \notin Pinned

\* The sweep of a project first reads the latest rows and scores them...
SweepRead(w, p) ==
    /\ sweeping = NULL
    /\ sweeping' = {i \in LatestRows : /\ pages[i].ws = w /\ pages[i].proj = p
                                       /\ IsDecayable(i) /\ ~pages[i].warm}
    /\ sweeping' # {}
    /\ UNCHANGED <<workspaces, projects, pages, links, embeddings, embedding>>

\* Mutant: the eviction takes whatever is latest under the chosen rows' paths.
SoftDeleteByPath ==
    /\ sweeping # NULL
    /\ pages' = [i \in PageIds |->
           IF i \in LatestRows /\ \E j \in sweeping \cap Rows : /\ pages[j].proj = pages[i].proj
                                                                /\ pages[j].path = pages[i].path
           THEN [pages[i] EXCEPT !.latest = FALSE, !.evicted = "recent"] ELSE pages[i]]
    /\ sweeping' = NULL
    /\ UNCHANGED <<workspaces, projects, links, embeddings, embedding>>

\* ...then evicts those still latest (the path keeps no latest version)...
SoftDeleteForDecay ==
    /\ sweeping # NULL
    /\ pages' = [i \in PageIds |->
           IF i \in sweeping \cap LatestRows
           THEN [pages[i] EXCEPT !.latest = FALSE, !.evicted = "recent"] ELSE pages[i]]
    /\ sweeping' = NULL
    /\ UNCHANGED <<workspaces, projects, links, embeddings, embedding>>

\* ...and ends by removing the evictions past the retention, of any project.
Expired == {i \in Rows : /\ ~pages[i].latest /\ pages[i].supersedes = NoPage
                         /\ pages[i].evicted = "old" /\ ~pages[i].accessed}

HardDeleteDecayed ==
    /\ Expired # {}
    /\ RemoveRows(Expired)
    /\ UNCHANGED <<workspaces, projects, sweeping, embedding>>

-----------------------------------------------------------------------------
(* Embeddings: a job takes a version, computes its vector outside any lock *)
(* and stores it by row id.                                                *)

EmbedStart(i) ==
    /\ embedding = NoPage
    /\ i \in LatestRows
    /\ embedding' = i
    /\ UNCHANGED <<workspaces, projects, pages, links, embeddings, sweeping>>

\* Mutant: no foreign key.
StoreEmbeddingUnchecked(m) ==
    /\ embedding # NoPage
    /\ embeddings' = [embeddings EXCEPT ![embedding] = m]
    /\ embedding' = NoPage
    /\ UNCHANGED <<workspaces, projects, pages, links, sweeping>>

\* A version removed meanwhile is refused by the foreign key; one superseded
\* meanwhile keeps a vector no search reads.
StoreEmbedding(m) ==
    /\ embedding # NoPage
    /\ embeddings' = IF embedding \in Rows THEN [embeddings EXCEPT ![embedding] = m] ELSE embeddings
    /\ embedding' = NoPage
    /\ UNCHANGED <<workspaces, projects, pages, links, sweeping>>

\* Before a re-embedding: vectors of other models go, and those of old versions.
DeleteStaleEmbeddings(w, m) ==
    LET stale == {i \in Rows : /\ pages[i].ws = w /\ embeddings[i] # NULL
                               /\ pages[i].latest => embeddings[i] # m} IN
    /\ stale # {}
    /\ embeddings' = [i \in PageIds |-> IF i \in stale THEN NULL ELSE embeddings[i]]
    /\ UNCHANGED <<workspaces, projects, pages, links, sweeping, embedding>>

-----------------------------------------------------------------------------
CreateWorkspace == \E n \in WsNames, w \in WorkspaceIds :
    GetOrCreateWorkspace(n, w) /\ UNCHANGED <<pages, links, embeddings, sweeping, embedding>>

CreateProject == \E w \in WorkspaceIds, n \in ProjNames, p \in ProjectIds :
    GetOrCreateProject(w, n, NULL, p) /\ UNCHANGED <<pages, links, embeddings, sweeping, embedding>>

PagesOf(w, p) == [ws : {w}, proj : {p}, path : Paths, content : Contents]

WritePage == \E w \in WorkspaceIds, p \in ProjectIds : \E page \in PagesOf(w, p) :
    UpsertPage(page)

\* The batches of consolidation: pages of one project.
WriteBatch == \E w \in WorkspaceIds, p \in ProjectIds : \E first, second \in PagesOf(w, p) :
    first.path # second.path /\ UpsertPages(first, second)

RemovePages ==
    \/ \E w \in WorkspaceIds, p \in ProjectIds, path \in Paths : DeletePage(w, p, path)
    \/ \E w \in WorkspaceIds, p \in ProjectIds : PurgeProjectPages(w, p)
    \/ \E w \in WorkspaceIds, force \in BOOLEAN : DeleteWorkspacePages(w, force)

RelabelPages ==
    \/ \E p \in ProjectIds, v, w \in WorkspaceIds : v # w /\ MoveProjectPages(p, v, w)
    \/ \E w \in WorkspaceIds, p \in ProjectIds, n \in ProjNames : RenameProjectPages(w, p, n)
    \/ \E w \in WorkspaceIds, n \in WsNames : RenameWorkspacePages(w, n)
    \/ \E w \in WorkspaceIds : ReorgPages(w)

Decay ==
    \/ \E i \in PageIds : BumpAccess({i})
    \/ RetentionPasses
    \/ \E w \in WorkspaceIds, p \in ProjectIds : SweepRead(w, p)
    \/ SoftDeleteForDecay
    \/ HardDeleteDecayed

Embed ==
    \/ \E i \in PageIds : EmbedStart(i)
    \/ \E m \in EmbedModels : StoreEmbedding(m)
    \/ \E w \in WorkspaceIds, m \in EmbedModels : DeleteStaleEmbeddings(w, m)

Next == CreateWorkspace \/ CreateProject \/ WritePage \/ WriteBatch
        \/ RemovePages \/ RelabelPages \/ Decay \/ Embed

Spec == Init /\ [][Next]_pageVars

-----------------------------------------------------------------------------
(* Properties.                                                             *)

\* Types.
PagesTypeOK ==
    /\ ScopesTypeOK
    /\ pages \in [PageIds -> PageRows \cup {Unborn, Gone}]
    /\ links \subseteq LinkRows
    /\ embeddings \in [PageIds -> EmbedModels \cup {NULL}]
    /\ sweeping \in (SUBSET PageIds) \cup {NULL}
    /\ embedding \in 0..MaxPages

SamePath(i, j) == pages[i].proj = pages[j].proj /\ pages[i].path = pages[j].path

\* Whatever the order of writes, evictions, moves and purges, a path has at
\* most one latest version, every version supersedes an older one of the same
\* path (never one the sweep evicted), and every row is filed in the workspace
\* its project is in.
VersionsWellFormed ==
    /\ \A i, j \in LatestRows : SamePath(i, j) => i = j
    /\ \A i \in Rows : pages[i].supersedes # NoPage =>
           LET old == pages[i].supersedes IN
           /\ old \in Rows /\ old < i /\ SamePath(i, old)
           /\ ~pages[old].latest /\ pages[old].evicted = "no"
    /\ \A i \in Rows : ProjectInWorkspace(pages[i].ws, pages[i].proj)

\* A link inside a project always follows the path it names: while the path
\* has a latest version the link leads to it, and otherwise it leads nowhere
\* or to the newest version left.
BareLinksFollow ==
    \A l \in links : l.proj = NULL =>
        LET p == pages[l.from].proj
            versions == {i \in Rows : pages[i].proj = p /\ pages[i].path = l.path}
        IN /\ l.to # NoPage => l.to \in versions /\ \A i \in versions : i <= l.to
           /\ \A i \in versions : pages[i].latest => l.to = i

\* No row refers to a deleted one: links start and end at rows, and vectors
\* belong to rows, although the job that stores them does not look.
NoDanglingRows ==
    /\ \A l \in links : l.from \in Rows /\ (l.to = NoPage \/ l.to \in Rows)
    /\ \A i \in PageIds : embeddings[i] # NULL => i \in Rows

\* The sweep never evicts a pinned or semantic page, not even one that was
\* rewritten, pinned or restored after the sweep chose its rows.
PinnedKept == [][\A i \in LatestRows : pages'[i] \notin {Unborn, Gone} =>
                     (pages'[i].evicted # "no" => pages[i].content \in Episodic \ Pinned)]_pageVars
=============================================================================
