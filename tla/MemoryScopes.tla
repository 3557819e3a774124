---------------------------- MODULE MemoryScopes ----------------------------
(***************************************************************************)
(* Workspaces and projects of the memory server's database: the two tables *)
(* every other row hangs from (ai-memory-store/src/ops.rs).                *)
(*                                                                         *)
(* One writer thread runs one command at a time, each in a transaction     *)
(* (writer.rs), so an operation is one action and an operation that fails  *)
(* changes nothing: only the successful outcomes are actions here.         *)
(* The identifiers are UUIDs: an id is Unborn until it is drawn, and Gone  *)
(* once its row is deleted, so it is never drawn twice; only a scope       *)
(* manifest on disk can bring the same id back (the Ensure operations).    *)
(*                                                                         *)
(* The modules that hold the rows under a project extend this one and      *)
(* conjoin what each operation does to theirs.                             *)
(***************************************************************************)
EXTENDS Naturals, FiniteSets

CONSTANTS
    WorkspaceIds, ProjectIds,   \* ids that may be drawn
    WsNames, ProjNames,         \* names that may be given
    RepoPaths,                  \* repository roots a project may be bound to
    Reserved,                   \* project names no sweep removes: scratch, _global
    Unborn, Gone,               \* the states of an id without a row
    NULL                        \* SQL's NULL

ProjectRows == [ws : WorkspaceIds, name : ProjNames, repo : RepoPaths \cup {NULL}]

ASSUME NamesAssumption ==
    /\ {Unborn, Gone, NULL} \cap (WsNames \cup ProjNames \cup RepoPaths) = {}
    /\ Unborn # Gone
    /\ {Unborn, Gone} \cap ProjectRows = {}
    /\ Reserved \subseteq ProjNames

VARIABLES
    workspaces,   \* id -> Unborn, Gone or the name
    projects      \* id -> Unborn, Gone or [ws, name, repo]

scopeVars == <<workspaces, projects>>

LiveWorkspaces == {w \in WorkspaceIds : workspaces[w] \notin {Unborn, Gone}}
LiveProjects   == {p \in ProjectIds : projects[p] \notin {Unborn, Gone}}

ScopesTypeOK ==
    /\ workspaces \in [WorkspaceIds -> WsNames \cup {Unborn, Gone}]
    /\ projects \in [ProjectIds -> ProjectRows \cup {Unborn, Gone}]

ScopesInit ==
    /\ workspaces = [w \in WorkspaceIds |-> Unborn]
    /\ projects = [p \in ProjectIds |-> Unborn]

\* The lookups by name, unique among the workspaces and within a workspace.
WorkspaceNamed(n) == {w \in LiveWorkspaces : workspaces[w] = n}
ProjectNamed(w, n) == {p \in LiveProjects : projects[p].ws = w /\ projects[p].name = n}

\* A scope is sound when the project is in that workspace; every page write
\* asks for it before it touches a file.
ProjectInWorkspace(w, p) == p \in LiveProjects /\ projects[p].ws = w

-----------------------------------------------------------------------------
\* An existing name answers with its id and changes nothing.
GetOrCreateWorkspace(n, w) ==
    /\ WorkspaceNamed(n) = {}
    /\ workspaces[w] = Unborn
    /\ workspaces' = [workspaces EXCEPT ![w] = n]
    /\ UNCHANGED projects

\* Likewise for a project; the repository root is kept only by the creation.
GetOrCreateProject(w, n, r, p) ==
    /\ w \in LiveWorkspaces
    /\ ProjectNamed(w, n) = {}
    /\ projects[p] = Unborn
    /\ projects' = [projects EXCEPT ![p] = [ws |-> w, name |-> n, repo |-> r]]
    /\ UNCHANGED workspaces

\* A manifest found on disk restores a scope under its old id: an id in use
\* under another name, or a name in use under another id, is refused.
EnsureWorkspaceWithId(w, n) ==
    /\ w \notin LiveWorkspaces
    /\ WorkspaceNamed(n) = {}
    /\ workspaces' = [workspaces EXCEPT ![w] = n]
    /\ UNCHANGED projects

EnsureProjectWithId(p, w, n, r) ==
    /\ p \notin LiveProjects
    /\ w \in LiveWorkspaces
    /\ ProjectNamed(w, n) = {}
    /\ projects' = [projects EXCEPT ![p] = [ws |-> w, name |-> n, repo |-> r]]
    /\ UNCHANGED workspaces

RenameProject(w, p, n) ==
    /\ ProjectInWorkspace(w, p)
    /\ ProjectNamed(w, n) \subseteq {p}
    /\ projects' = [projects EXCEPT ![p].name = n]
    /\ UNCHANGED workspaces

RenameWorkspace(w, n) ==
    /\ w \in LiveWorkspaces
    /\ WorkspaceNamed(n) \subseteq {w}
    /\ workspaces' = [workspaces EXCEPT ![w] = n]
    /\ UNCHANGED projects

\* The rows of the projects in ps go with them (ON DELETE CASCADE): the
\* module that holds those rows conjoins their removal.
DropProjects(ps) ==
    projects' = [p \in ProjectIds |-> IF p \in ps THEN Gone ELSE projects[p]]

PurgeProject(w, p) ==
    /\ ProjectInWorkspace(w, p)
    /\ DropProjects({p})
    /\ UNCHANGED workspaces

ProjectsOf(w) == {p \in LiveProjects : projects[p].ws = w}

DeleteWorkspace(w, force) ==
    /\ w \in LiveWorkspaces
    /\ force \/ ProjectsOf(w) = {}
    /\ workspaces' = [workspaces EXCEPT ![w] = Gone]
    /\ DropProjects(ProjectsOf(w))

\* The destination may not hold a project of that name (the UNIQUE index).
MoveProjectWorkspace(p, from, to) ==
    /\ ProjectInWorkspace(from, p)
    /\ to \in LiveWorkspaces
    /\ ProjectNamed(to, projects[p].name) \subseteq {p}
    /\ projects' = [projects EXCEPT ![p].ws = to]
    /\ UNCHANGED workspaces

\* At start: projects old enough, under no reserved name, that hold no row.
SweepHollowProjects(hollow, used) ==
    /\ hollow # {}
    /\ hollow \subseteq LiveProjects \ used
    /\ \A p \in hollow : projects[p].name \notin Reserved
    /\ DropProjects(hollow)
    /\ UNCHANGED workspaces

\* At start: a root too broad to name a repository (the file system's root,
\* the home directory, a directory without .git) is taken off its projects.
HealCatchAllRepoPaths(catchAll) ==
    /\ \E p \in LiveProjects : projects[p].repo \in catchAll
    /\ projects' = [p \in ProjectIds |->
           IF p \in LiveProjects /\ projects[p].repo \in catchAll
           THEN [projects[p] EXCEPT !.repo = NULL] ELSE projects[p]]
    /\ UNCHANGED workspaces

-----------------------------------------------------------------------------
\* Workspace names are unique, project names are unique in their workspace,
\* and every project's workspace exists.
ScopesSound ==
    /\ \A v, w \in LiveWorkspaces : workspaces[v] = workspaces[w] => v = w
    /\ \A p, q \in LiveProjects :
           projects[p].ws = projects[q].ws /\ projects[p].name = projects[q].name => p = q
    /\ \A p \in LiveProjects : projects[p].ws \in LiveWorkspaces
=============================================================================
