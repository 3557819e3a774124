----------------------------- MODULE HookIngest -----------------------------
(***************************************************************************)
(* What the memory server does with a lifecycle event once it is taken:    *)
(* process() of ai-memory-hooks/src/router.rs, beside the administration   *)
(* of scopes (ai-memory-mcp/src/admin.rs) and the handoff tools.           *)
(*                                                                         *)
(* An event is worked on in steps with an await between any two; several   *)
(* events, and an administrator's purge, move or rename, interleave. Which *)
(* project an event belongs to is remembered in a cache that only the      *)
(* administration invalidates, after its own commit.                       *)
(***************************************************************************)
EXTENDS MemorySessions

CONSTANTS
    Tasks,            \* bound: requests worked on at a time
    Places(_),        \* kind -> the [dir, ws, proj] a request may say it comes from
    NameOf(_),        \* the project name derived from a directory, or NULL
    RootOf(_),        \* the repository a new project of it is bound to, or NULL
    DefaultWs, DefaultProj,   \* ids the server resolved when it started
    DefaultName,      \* the name of the default workspace
    Unknown,          \* the project name of a directory without one
    Global,           \* the reserved project name
    MaxCache,
    MaxEvents(_),         \* bound: requests, by whether the events of a session are serial
    MaxAdmin,             \* bound: administrative operations
    ReorgAlone            \* no administrative operation overlaps a reorganisation

Kinds == {"work", "compact", "end", "fetch"}

ASSUME PlacesAssumption ==
    /\ \A kind \in Kinds :
           Places(kind) \subseteq [dir : Dirs \cup {NULL}, ws : WsNames \cup {NULL}, proj : ProjNames \cup {NULL}]
    /\ \A d \in Dirs \cup {NULL} : NameOf(d) \in ProjNames \cup {NULL} /\ RootOf(d) \in RepoPaths \cup {NULL}
    /\ DefaultWs \in WorkspaceIds /\ DefaultName \in WsNames
    /\ DefaultProj \in ProjectIds /\ {"scratch", Unknown} \subseteq ProjNames

VARIABLES
    summaries,   \* <<project, session>> -> what the session's page compiles, or Unwritten
    tasks,       \* what each request is doing
    cache,       \* places resolved, each with how recently it was used
    active,      \* the scope of the latest event: what tools without a scope mean
    admin,       \* the scope a committed operation has still to invalidate
    reorg,       \* the reorganisation that is planned, or NULL
    serial,      \* events of a session come one at a time (the batch route)
    born, ops    \* requests and operations so far

serverVars == <<tasks, cache, active, admin, reorg, summaries, serial, born, ops>>
ingestVars == <<storeVars, serverVars>>

Default == <<DefaultWs, DefaultProj>>
Unwritten == {NULL}   \* no page: what no observations compile into
Idle == [step |-> "idle"]
Busy(t) == tasks[t] # Idle

Init ==
    /\ workspaces = [w \in WorkspaceIds |-> IF w = DefaultWs THEN DefaultName ELSE Unborn]
    /\ projects = [p \in ProjectIds |-> IF p = DefaultProj
                       THEN [ws |-> DefaultWs, name |-> "scratch", repo |-> NULL] ELSE Unborn]
    /\ RowsInit
    /\ summaries = [x \in ProjectIds \X Sessions |-> Unwritten]
    /\ tasks = [t \in Tasks |-> Idle]
    /\ cache = {} /\ active = NULL /\ admin = NULL /\ reorg = NULL
    /\ serial \in BOOLEAN
    /\ born = 0 /\ ops = 0

-----------------------------------------------------------------------------
(* Requests.                                                               *)

\* A request that overlaps a change of scopes, or another request that did,
\* may see scopes that are gone.
Undisturbed == admin = NULL /\ \A t \in Tasks : Busy(t) => tasks[t].calm

Arrives(t, kind, s, place) ==
    /\ ~Busy(t) /\ born < MaxEvents(serial)
    /\ serial /\ kind # "fetch" => \A u \in Tasks : Busy(u) => tasks[u].s # s
    /\ born' = born + 1
    /\ tasks' = [tasks EXCEPT ![t] =
           [step |-> IF kind = "fetch" THEN "lookup" ELSE "scope", kind |-> kind, s |-> s, place |-> place,
            ws |-> NULL, proj |-> NULL, retried |-> FALSE, seen |-> {}, calm |-> Undisturbed]]
    /\ UNCHANGED <<storeVars, summaries, cache, active, admin, reorg, serial, ops>>

At(t, step) == Busy(t) /\ tasks[t].step = step
Goto(t, step) == tasks' = [tasks EXCEPT ![t].step = step]
Ends(t) == tasks' = [tasks EXCEPT ![t] = Idle]

\* Where a request goes once its scope is known.
AfterScope(t) ==
    CASE tasks[t].kind = "fetch" -> "peek"
      [] tasks[t].kind = "end" /\ ~tasks[t].retried -> "disposition"
      [] OTHER -> "begin"

Resolved(t, scope) ==
    tasks' = [tasks EXCEPT ![t] = [@ EXCEPT !.step = AfterScope(t), !.ws = scope[1], !.proj = scope[2]]]

\* A session's own scope, unless the event names another or left its tree.
StickyScope(t) ==
    LET place == tasks[t].place
        scope == IF place.ws = NULL /\ place.proj = NULL
                 THEN find_session_scope(tasks[t].s, place.dir) ELSE NULL
    IN /\ At(t, "scope")
       /\ IF scope = NULL
          THEN Goto(t, "lookup") /\ UNCHANGED active
          ELSE Resolved(t, scope) /\ active' = scope
       /\ UNCHANGED <<storeVars, summaries, cache, admin, reorg, serial, born, ops>>

\* Entries in the order of their use, numbered from the least recent.
Age(e, entries) == Cardinality({x \in entries : x.used <= e.used})
Aged(entries) ==
    {[place |-> e.place, ws |-> e.ws, proj |-> e.proj, used |-> Age(e, entries)] : e \in entries}

Latest(place, scope) == [place |-> place, ws |-> scope[1], proj |-> scope[2], used |-> MaxCache + 1]

Cached(place) == {e \in cache : e.place = place}
WsName(place) == IF place.ws = NULL THEN DefaultName ELSE place.ws
ProjName(place) == IF place.proj # NULL THEN place.proj ELSE NameOf(place.dir)

\* No place at all is the default; a place in the cache is what it was; one
\* without a name, or with the reserved name, is the default again.
Lookup(t) ==
    LET place == tasks[t].place IN
    /\ At(t, "lookup")
    /\ \/ /\ place.dir = NULL /\ place.proj = NULL
          /\ Resolved(t, Default)
          /\ UNCHANGED <<cache, active>>
       \/ /\ place.dir # NULL \/ place.proj # NULL
          /\ \E e \in Cached(place) :
                LET scope == <<e.ws, e.proj>> IN
                /\ Resolved(t, scope)
                /\ cache' = Aged((cache \ {e}) \cup {Latest(place, scope)})
                /\ active' = scope
       \/ /\ place.dir # NULL \/ place.proj # NULL
          /\ Cached(place) = {}
          /\ IF ProjName(place) \in {NULL, Global}
             THEN Resolved(t, Default) /\ active' = Default
             ELSE Goto(t, "workspace") /\ UNCHANGED active
          /\ UNCHANGED cache
    /\ UNCHANGED <<storeVars, summaries, admin, reorg, serial, born, ops>>

MakeWorkspace(t) ==
    LET name == WsName(tasks[t].place) IN
    /\ At(t, "workspace")
    /\ \E w \in WorkspaceIds :
          /\ \/ WorkspaceNamed(name) = {w} /\ UNCHANGED scopeVars
             \/ GetOrCreateWorkspace(name, w)
          /\ tasks' = [tasks EXCEPT ![t] = [@ EXCEPT !.step = "project", !.ws = w]]
    /\ UNCHANGED <<rowVars, cache, active, admin, reorg, summaries, serial, born, ops>>

\* The project that holds the directory, unless the event names one; else the
\* project of that name, made if need be. A workspace deleted since the step
\* before is an error.
MakeProject(t) ==
    LET place == tasks[t].place
        w == tasks[t].ws
        outer == IF place.proj = NULL THEN find_project_by_cwd_prefix(w, place.dir) ELSE {}
        named == ProjectNamed(w, ProjName(place))
        found == IF outer # {} THEN outer ELSE named
        gets(p) == tasks' = [tasks EXCEPT ![t] = [@ EXCEPT !.step = "remember", !.proj = p]]
    IN /\ At(t, "project")
       /\ \/ /\ w \in LiveWorkspaces
             /\ \E p \in found : gets(p)
             /\ UNCHANGED scopeVars
          \/ /\ found = {}
             /\ \E p \in ProjectIds :
                   GetOrCreateProject(w, ProjName(place), RootOf(place.dir), p) /\ gets(p)
          \/ w \notin LiveWorkspaces /\ Ends(t) /\ UNCHANGED scopeVars
       /\ UNCHANGED <<rowVars, cache, active, admin, reorg, summaries, serial, born, ops>>

CacheInsert(place, scope) ==
    LET all == (cache \ Cached(place)) \cup {Latest(place, scope)}
    IN Aged(IF Cardinality(all) > MaxCache THEN {e \in all : \E x \in all : x.used < e.used} ELSE all)

Remember(t) ==
    LET scope == <<tasks[t].ws, tasks[t].proj>> IN
    /\ At(t, "remember")
    /\ cache' = CacheInsert(tasks[t].place, scope)
    /\ active' = scope
    /\ Goto(t, AfterScope(t))
    /\ UNCHANGED <<storeVars, summaries, admin, reorg, serial, born, ops>>

-----------------------------------------------------------------------------
(* What an event does.                                                     *)

Disposition(t) ==
    /\ At(t, "disposition")
    /\ IF session_end_disposition(tasks[t].s, tasks[t].ws, tasks[t].proj) = "DropStale"
       THEN Ends(t) ELSE Goto(t, "begin")
    /\ UNCHANGED <<storeVars, cache, active, admin, reorg, summaries, serial, born, ops>>

\* Mutant: the entry that led astray stays in the cache.
KeptInCache(place) == cache

Evicted(place) == Aged(cache \ Cached(place))

\* A scope that is gone is resolved once more, from scratch.
Begin(t) ==
    LET s == tasks[t].s
        w == tasks[t].ws
        p == tasks[t].proj
    IN /\ At(t, "begin")
       /\ \/ /\ begin_session(s, w, p, tasks[t].place.dir)
             /\ Goto(t, "observe")
             /\ UNCHANGED cache
          \/ /\ ~ProjectInWorkspace(w, p) /\ ~tasks[t].retried
             /\ cache' = Evicted(tasks[t].place)
             /\ tasks' = [tasks EXCEPT ![t] = [@ EXCEPT !.step = "lookup", !.retried = TRUE]]
             /\ UNCHANGED rowVars
          \/ /\ ~ProjectInWorkspace(w, p) /\ tasks[t].retried
             /\ Goto(t, "failed")
             /\ UNCHANGED <<rowVars, cache>>
       /\ UNCHANGED <<scopeVars, summaries, active, admin, reorg, serial, born, ops>>

Observe(t) ==
    LET s == tasks[t].s IN
    /\ At(t, "observe")
    /\ \/ /\ insert_observation(s, tasks[t].ws, tasks[t].proj, tasks[t].kind # "end")
          /\ IF tasks[t].kind = "work" THEN Ends(t) ELSE Goto(t, "read")
       \/ /\ sessions[s] = NULL \/ ~ProjectInWorkspace(tasks[t].ws, tasks[t].proj)
          /\ Goto(t, "failed")
          /\ UNCHANGED rowVars
    /\ UNCHANGED <<scopeVars, cache, active, admin, reorg, summaries, serial, born, ops>>

\* Both a compaction and an end compile the session's observations into its
\* page.
ReadObservations(t) ==
    LET seen == observations_for_session(tasks[t].s) IN
    /\ At(t, "read")
    /\ IF tasks[t].kind = "compact" /\ seen = {}
       THEN Ends(t)
       ELSE tasks' = [tasks EXCEPT ![t] = [@ EXCEPT !.step = "page", !.seen = seen]]
    /\ UNCHANGED <<storeVars, cache, active, admin, reorg, summaries, serial, born, ops>>

\* A page write asks whether the scope is sound. A checkpoint that fails is
\* only reported.
WritePage(t) ==
    LET p == tasks[t].proj IN
    /\ At(t, "page")
    /\ \/ /\ ProjectInWorkspace(tasks[t].ws, p)
          /\ summaries' = [summaries EXCEPT ![<<p, tasks[t].s>>] = tasks[t].seen]
          /\ IF tasks[t].kind = "end" THEN Goto(t, "close") ELSE Ends(t)
       \/ /\ ~ProjectInWorkspace(tasks[t].ws, p)
          /\ IF tasks[t].kind = "end" THEN Goto(t, "failed") ELSE Ends(t)
          /\ UNCHANGED summaries
    /\ UNCHANGED <<storeVars, cache, active, admin, reorg, serial, born, ops>>

Close(t) ==
    /\ At(t, "close")
    /\ \/ end_session(tasks[t].s, tasks[t].proj) /\ Goto(t, "handoff")
       \/ /\ sessions[tasks[t].s] # NULL /\ tasks[t].proj \notin LiveProjects
          /\ Goto(t, "failed") /\ UNCHANGED rowVars
    /\ UNCHANGED <<scopeVars, cache, active, admin, reorg, summaries, serial, born, ops>>

AutoHandoff(t) ==
    /\ At(t, "handoff")
    /\ \/ /\ insert_handoff(tasks[t].ws, tasks[t].proj, tasks[t].s, tasks[t].place.dir, tasks[t].seen)
          /\ Ends(t)
       \/ /\ sessions[tasks[t].s] = NULL \/ ~ProjectInWorkspace(tasks[t].ws, tasks[t].proj)
          /\ Goto(t, "failed") /\ UNCHANGED rowVars
    /\ UNCHANGED <<scopeVars, cache, active, admin, reorg, summaries, serial, born, ops>>

\* An error is logged; the batch route answers with it.
Fails(t) ==
    /\ At(t, "failed") /\ Ends(t)
    /\ UNCHANGED <<storeVars, cache, active, admin, reorg, summaries, serial, born, ops>>

\* The client went away and the request's future is dropped at an await, or
\* the server stops: what was committed stays.
Dies(t) ==
    /\ Busy(t) /\ Ends(t)
    /\ UNCHANGED <<storeVars, cache, active, admin, reorg, summaries, serial, born, ops>>

-----------------------------------------------------------------------------
(* Handoffs.                                                               *)

\* Read first, then marked: two requests may be given the same one.
Peek(t) ==
    LET found == latest_open_handoff(tasks[t].ws, tasks[t].proj, tasks[t].place.dir) IN
    /\ At(t, "peek")
    /\ IF found = {} THEN Ends(t)
       ELSE \E h \in found : tasks' = [tasks EXCEPT ![t] = [@ EXCEPT !.step = "accept", !.seen = {h.at}]]
    /\ UNCHANGED <<storeVars, cache, active, admin, reorg, summaries, serial, born, ops>>

Accept(t) ==
    /\ At(t, "accept")
    /\ \/ \E h \in handoffs : h.at \in tasks[t].seen /\ accept_handoff(h)
       \/ (\A h \in handoffs : h.at \notin tasks[t].seen) /\ UNCHANGED rowVars
    /\ Ends(t)
    /\ UNCHANGED <<scopeVars, cache, active, admin, reorg, summaries, serial, born, ops>>

\* A tool without a scope means the active one.
ToolScope == IF active = NULL THEN Default ELSE active

\* A manual handoff is for everyone: its directory plays no part.
memory_handoff_begin ==
    /\ born < MaxEvents(serial) /\ born' = born + 1
    /\ insert_handoff(ToolScope[1], ToolScope[2], NULL, NULL, {})
    /\ UNCHANGED <<scopeVars, tasks, cache, active, admin, reorg, summaries, serial, ops>>

memory_handoff_accept(t, dir) ==
    /\ ~Busy(t) /\ born < MaxEvents(serial) /\ born' = born + 1
    /\ tasks' = [tasks EXCEPT ![t] =
           [step |-> "peek", kind |-> "fetch", s |-> NULL, place |-> [dir |-> dir, ws |-> NULL, proj |-> NULL],
            ws |-> ToolScope[1], proj |-> ToolScope[2], retried |-> FALSE, seen |-> {}, calm |-> Undisturbed]]
    /\ UNCHANGED <<storeVars, cache, active, admin, reorg, summaries, serial, ops>>

memory_handoff_cancel(h) ==
    /\ h.state = "open" /\ <<h.ws, h.proj>> = ToolScope
    /\ cancel_handoff(h)
    /\ UNCHANGED <<scopeVars, tasks, cache, active, admin, reorg, summaries, serial, born, ops>>

-----------------------------------------------------------------------------
(* The administration of scopes: the commit, then what it invalidates.     *)

NoPages(ps) == summaries' = [x \in DOMAIN summaries |-> IF x[1] \in ps THEN Unwritten ELSE summaries[x]]

Commits(pending, plan) ==
    /\ admin = NULL /\ ops < MaxAdmin /\ ops' = ops + 1
    /\ ReorgAlone => reorg = NULL
    /\ admin' = pending /\ reorg' = plan
    /\ tasks' = [t \in Tasks |-> IF Busy(t) THEN [tasks[t] EXCEPT !.calm = FALSE] ELSE Idle]
    /\ UNCHANGED <<cache, active, serial, born>>

handle_purge_project(p) ==
    /\ p \in LiveProjects /\ PurgeProject(projects[p].ws, p)
    /\ DropRows({p}) /\ NoPages({p})
    /\ Commits([kind |-> "purged", id |-> p], reorg)

handle_delete_workspace(w, force) ==
    /\ DeleteWorkspace(w, force)
    /\ DropRows(ProjectsOf(w)) /\ NoPages(ProjectsOf(w))
    /\ Commits([kind |-> "deleted", id |-> w], reorg)

handle_rename_workspace(w, n) ==
    /\ n # workspaces[w] /\ RenameWorkspace(w, n)
    /\ UNCHANGED <<rowVars, summaries>>
    /\ Commits([kind |-> "renamed", id |-> w], reorg)

\* Nothing is invalidated: the cache holds ids.
handle_rename_project(p, n) ==
    /\ p \in LiveProjects /\ n # projects[p].name /\ RenameProject(projects[p].ws, p, n)
    /\ UNCHANGED <<rowVars, summaries>>
    /\ Commits(NULL, reorg)

\* The default workspace's sessions go to the projects their directories are
\* named after; those are made first, then the sessions are moved.
handle_reorg(s) ==
    /\ reorg = NULL
    /\ sessions[s] # NULL /\ sessions[s].dir # NULL
    /\ sessions[s].ws \in WorkspaceNamed(DefaultName)
    /\ LET w == sessions[s].ws
           n == IF NameOf(sessions[s].dir) = NULL THEN Unknown ELSE NameOf(sessions[s].dir)
       IN \E p \in ProjectIds \ {sessions[s].proj} :
             /\ \/ ProjectNamed(w, n) = {p} /\ UNCHANGED scopeVars
                \/ GetOrCreateProject(w, n, RootOf(sessions[s].dir), p)
             /\ Commits(NULL, [ws |-> w, s |-> s, proj |-> p])
    /\ UNCHANGED <<rowVars, summaries>>

ReorgCommits ==
    /\ reorg # NULL /\ reorg' = NULL
    /\ \/ reorg_sessions(reorg.ws, reorg.proj, {reorg.s})
       \/ reorg.proj \notin LiveProjects /\ UNCHANGED rowVars
    /\ UNCHANGED <<scopeVars, summaries, tasks, cache, active, admin, serial, born, ops>>

\* Not the active project unless forced. Where the destination has a project
\* of that name the pages are merged into it and the source is purged; else
\* the destination is made and the project moves with its rows.
handle_move_project(p, n, force) ==
    /\ p \in LiveProjects /\ workspaces[projects[p].ws] # n
    /\ ~force /\ active # NULL => active[2] # p
    /\ \/ /\ \E w \in WorkspaceNamed(n) : ProjectNamed(w, projects[p].name) # {}
          /\ PurgeProject(projects[p].ws, p) /\ DropRows({p}) /\ NoPages({p})
          /\ Commits([kind |-> "purged", id |-> p], reorg)
       \/ /\ \A w \in WorkspaceNamed(n) : ProjectNamed(w, projects[p].name) = {}
          /\ \E w \in WorkspaceIds :
                /\ \/ WorkspaceNamed(n) = {w} /\ UNCHANGED scopeVars
                   \/ GetOrCreateWorkspace(n, w)
                /\ Commits([kind |-> "moving", id |-> p, from |-> projects[p].ws, to |-> w], reorg)
          /\ UNCHANGED <<rowVars, summaries>>

\* The move itself, or its refusal: an event made a project of that name.
true_move_project ==
    /\ admin # NULL /\ admin.kind = "moving"
    /\ \/ /\ MoveProjectWorkspace(admin.id, admin.from, admin.to)
          /\ RestampRows(admin.id, admin.to)
          /\ admin' = [kind |-> "moved", id |-> admin.id, to |-> admin.to]
       \/ /\ ProjectNamed(admin.to, projects[admin.id].name) \ {admin.id} # {}
          /\ admin' = NULL
          /\ UNCHANGED <<rowVars, scopeVars>>
    /\ UNCHANGED <<summaries, tasks, cache, active, reorg, serial, born, ops>>

CacheWithout(ids) == Aged({e \in cache : e.ws \notin ids /\ e.proj \notin ids})

\* The active scope of a purged project is cleared, that of a moved one
\* follows it; the cache forgets what the change was about.
invalidate_scope_cache ==
    /\ admin # NULL /\ admin.kind # "moving"
    /\ active' = IF active = NULL \/ admin.id \notin {active[1], active[2]} THEN active
                 ELSE CASE admin.kind = "moved" -> <<admin.to, active[2]>>
                        [] admin.kind = "renamed" -> active
                        [] OTHER -> NULL
    /\ cache' = CacheWithout({admin.id})
    /\ admin' = NULL
    /\ UNCHANGED <<storeVars, summaries, tasks, reorg, serial, born, ops>>

-----------------------------------------------------------------------------
Process(t) ==
    \/ StickyScope(t) \/ Lookup(t) \/ MakeWorkspace(t) \/ MakeProject(t) \/ Remember(t)
    \/ Disposition(t) \/ Begin(t) \/ Observe(t) \/ ReadObservations(t) \/ WritePage(t)
    \/ Close(t) \/ AutoHandoff(t) \/ Peek(t) \/ Accept(t) \/ Fails(t) \/ Dies(t)

Tools ==
    \/ memory_handoff_begin
    \/ \E t \in Tasks, dir \in Dirs \cup {NULL} : memory_handoff_accept(t, dir)
    \/ \E h \in handoffs : memory_handoff_cancel(h)

Administration ==
    \/ \E p \in ProjectIds :
          \/ handle_purge_project(p)
          \/ \E n \in ProjNames : handle_rename_project(p, n)
          \/ \E n \in WsNames, force \in BOOLEAN : handle_move_project(p, n, force)
    \/ \E w \in WorkspaceIds :
          \/ \E force \in BOOLEAN : handle_delete_workspace(w, force)
          \/ \E n \in WsNames : handle_rename_workspace(w, n)
    \/ \E s \in Sessions : handle_reorg(s)
    \/ ReorgCommits
    \/ true_move_project
    \/ invalidate_scope_cache

Next ==
    \/ \E t \in Tasks :
          \/ \E kind \in Kinds, s \in Sessions :
                \E place \in Places(kind) : Arrives(t, kind, s, place)
          \/ Process(t)
    \/ Tools
    \/ Administration

Spec == Init /\ [][Next]_ingestVars

-----------------------------------------------------------------------------
(* Properties.                                                             *)

\* When the events of a session come one at a time, an ended session's page
\* compiles everything that was observed in it up to its end, whatever died on
\* the way, however often it was resumed and ended again, and wherever its
\* project went since.
EndedSummarised ==
    serial => \A s \in Sessions :
        LET row == sessions[s] IN
        row # NULL /\ row.ended # NULL /\ row.page # NULL =>
            /\ summaries[<<row.page, s>>] # Unwritten
            /\ \A o \in observations : o.s = s /\ o.at <= row.ended => o.at \in summaries[<<row.page, s>>]

\* Likewise, a session leaves one handoff for each stretch of work: an end that
\* is repeated, retried or late leaves no second one. A purged project takes the
\* observations of its own with it, also those of a session elsewhere.
OneHandoffPerWork ==
    serial /\ (\A p \in ProjectIds : projects[p] # Gone) => \A g, h \in handoffs :
        g.from # NULL /\ g.from = h.from /\ g.at < h.at =>
            \E o \in observations : o.work /\ o.at \in h.covers \ g.covers

\* A purge, move, merge, deletion or rename makes no later event fail: the scope
\* that is gone is found out and resolved anew. Only what falls to the default
\* project depends on that one being there.
NoStaleFailure ==
    \A t \in Tasks : At(t, "failed") /\ tasks[t].calm =>
        <<tasks[t].ws, tasks[t].proj>> = Default /\ ~ProjectInWorkspace(DefaultWs, DefaultProj)
=============================================================================
