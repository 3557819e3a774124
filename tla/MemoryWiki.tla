------------------------------ MODULE MemoryWiki ------------------------------
(***************************************************************************)
(* The memory server's pages as files and as rows: ai-memory-wiki/src/     *)
(* wiki.rs and watcher.rs, with the purge, move and merge of               *)
(* ai-memory-mcp/src/admin.rs that remove or relocate whole directories.   *)
(*                                                                         *)
(* A page is a Markdown file under <workspace>/<project>/ and a row of the *)
(* database. Every operation changes both, one after the other, under the  *)
(* shared side of a lock; moves and removals of directories take the       *)
(* exclusive side. A store call may fail and the server may crash between  *)
(* any two steps; people edit the files; a watcher brings the rows up to   *)
(* date with the files. The log of the hooks (ai-memory-hooks/src/log.rs)  *)
(* lies in the same directories, is no page and is written without the     *)
(* lock.                                                                   *)
(***************************************************************************)
EXTENDS MemoryScopes

CONSTANTS
    Paths,
    Asked, Batch,       \* bounds: paths that single requests and edits, and batches, name
    InitialStates,      \* [workspaces, projects, rows] the server may find
    Tasks, Watcher,     \* bound: requests at a time, numbered; the watcher's own
    MaxBodies,          \* bound: contents ever written, numbered
    MaxOps, MaxFaults,  \* bounds: requests; failures, crashes and hand edits
    MaxLooks            \* bound: files the watcher looks at beside requests

VARIABLES
    files,      \* place -> content, or NULL
    dirs,       \* the <workspace, project> directories on disk
    rows,       \* <project, path> -> content of the latest version, or NULL
    shared, exclusive,   \* the lock: who holds its sides
    tasks,
    torn,       \* projects whose move or removal was cut short
    bodies, ops, faults, looks

ASSUME WorkersAssumption ==
    /\ Watcher \notin Tasks /\ NULL \notin Tasks \cup {Watcher}
    /\ Asked \subseteq Paths /\ Batch \subseteq Paths
    /\ MaxBodies \in Nat

\* The pages a merge found, and what it keeps of its progress.
Prepared == [path : Paths, body : 1..MaxBodies \cup {NULL}, conflict : BOOLEAN]
Merges == [from : WorkspaceIds \X ProjectIds, into : WorkspaceIds \X ProjectIds,
           policy : {"block", "overwrite", "duplicate"},
           pages : SUBSET Prepared, todo : SUBSET Prepared, used : SUBSET Paths, skipped : BOOLEAN]

ASSUME MergesAssumption == NULL \notin Merges

ASSUME StatesAssumption == \A start \in InitialStates :
    /\ start.workspaces \in [WorkspaceIds -> WsNames \cup {Unborn, Gone}]
    /\ start.projects \in [ProjectIds -> ProjectRows \cup {Unborn, Gone}]
    /\ start.rows \in [ProjectIds \X Paths -> 1..MaxBodies \cup {NULL}]
    /\ IsFiniteSet({c \in DOMAIN start.rows : start.rows[c] # NULL})

diskVars == <<files, dirs>>
dbVars == <<scopeVars, rows>>
lockVars == <<shared, exclusive>>
boundVars == <<bodies, ops, faults, looks>>
wikiVars == <<diskVars, dbVars, lockVars, tasks, torn, boundVars>>

Places == WorkspaceIds \X ProjectIds \X Paths
Workers == Tasks \cup {Watcher}
Idle == [op |-> "idle"]
Busy(t) == tasks[t] # Idle
At(t, step) == Busy(t) /\ tasks[t].step = step
Of(t) == <<tasks[t].ws, tasks[t].proj>>
PlaceOf(t, path) == <<tasks[t].ws, tasks[t].proj, path>>
NoPrev == [x \in {} |-> NULL]

\* Files and rows agree.
Init ==
    \E start \in InitialStates :
        /\ workspaces = start.workspaces /\ projects = start.projects
        /\ rows = start.rows
        /\ files = [c \in Places |-> IF ProjectInWorkspace(c[1], c[2]) THEN rows[<<c[2], c[3]>>] ELSE NULL]
        /\ dirs = {<<c[1], c[2]>> : c \in {d \in Places : files[d] # NULL}}
        /\ shared = {} /\ exclusive = NULL
        /\ tasks = [t \in Workers |-> Idle]
        /\ torn = {}
        /\ bodies = Cardinality({c \in DOMAIN rows : rows[c] # NULL}) /\ ops = 0 /\ faults = 0 /\ looks = 0

-----------------------------------------------------------------------------
(* The lock and the ends of an operation.                                  *)

Goto(t, step) == tasks' = [tasks EXCEPT ![t].step = step]

Unlock(t) ==
    /\ shared' = shared \ {t}
    /\ exclusive' = IF exclusive = t THEN NULL ELSE exclusive

Ends(t) == tasks' = [tasks EXCEPT ![t] = Idle] /\ Unlock(t)

\* A merge goes on to its next page.
Returns(t) ==
    IF tasks[t].merge = NULL THEN Ends(t)
    ELSE Goto(t, "copy") /\ Unlock(t)

Merging(t) == Busy(t) /\ tasks[t].merge # NULL

\* A request takes the first free slot; none runs beside a merge (a bound).
Starts(t, task) ==
    /\ ~Busy(t) /\ \A u \in 1..(t - 1) : Busy(u)
    /\ ~\E u \in Tasks : Merging(u) \/ (Busy(u) /\ task.merge # NULL)
    /\ ops < MaxOps /\ ops' = ops + 1
    /\ ProjectInWorkspace(task.ws, task.proj)
    /\ tasks' = [tasks EXCEPT ![t] = task]
    /\ UNCHANGED <<diskVars, dbVars, lockVars, torn, faults, looks>>

Task(op, step, w, p, pages) ==
    [op |-> op, step |-> step, ws |-> w, proj |-> p, pages |-> pages, prev |-> NoPrev, merge |-> NULL]

\* The scope is resolved when the request comes: it may be gone, or have moved,
\* by the time it has the lock.
write_page(t, w, p, path) ==
    /\ bodies < MaxBodies /\ bodies' = bodies + 1
    /\ Starts(t, Task("write", "lock", w, p, [x \in {path} |-> bodies']))

\* All its pages or none.
apply_batch(t, w, p, paths) ==
    /\ bodies < MaxBodies /\ bodies' = bodies + 1
    /\ Starts(t, Task("write", "lock", w, p, [x \in paths |-> bodies']))

delete_page(t, w, p, path) ==
    Starts(t, Task("delete", "lock", w, p, [x \in {path} |-> NULL])) /\ UNCHANGED bodies

\* An older version, out of git: here a content of its own.
restore_page_from_checkpoint(t, w, p, path) ==
    /\ bodies < MaxBodies /\ bodies' = bodies + 1
    /\ Starts(t, Task("restore", "lock", w, p, [x \in {path} |-> bodies']))

\* A hook event has stored its observation, in the scope the project had then;
\* its line of the log is still to be written.
insert_observation(t, w, p) ==
    Starts(t, Task("log", "append", w, p, NoPrev)) /\ UNCHANGED bodies

\* Neither the lock nor the scope is asked for: the directory is made again.
append_event(t) ==
    /\ At(t, "append")
    /\ dirs' = dirs \cup {Of(t)}
    /\ Ends(t)
    /\ UNCHANGED <<files, dbVars, torn, boundVars>>

-----------------------------------------------------------------------------
(* Page operations.                                                        *)

\* The scope is looked up again under the lock.
ensure_project_workspace(t) == ProjectInWorkspace(tasks[t].ws, tasks[t].proj)

\* A stale request is refused before it touches a file. Otherwise the files
\* are replaced, or set aside by a delete, and what they were is kept: no other
\* request runs between the lookup's answer and the last file.
InstallFiles(t) ==
    /\ At(t, "lock") /\ exclusive = NULL
    /\ IF ensure_project_workspace(t)
       THEN /\ files' = [c \in Places |->
                   IF <<c[1], c[2]>> = Of(t) /\ c[3] \in DOMAIN tasks[t].pages THEN tasks[t].pages[c[3]] ELSE files[c]]
            /\ dirs' = dirs \cup {Of(t)}
            /\ tasks' = [tasks EXCEPT ![t] = [@ EXCEPT !.step = "row",
                   !.prev = [x \in DOMAIN tasks[t].pages |-> files[PlaceOf(t, x)]]]]
            /\ shared' = shared \cup {t} /\ UNCHANGED exclusive
       ELSE Ends(t) /\ UNCHANGED diskVars
    /\ UNCHANGED <<dbVars, torn, boundVars>>

\* One transaction for all the pages; the rows of a project that is gone can
\* only be deleted.
StoreRows(t) ==
    LET p == tasks[t].proj
        pages == tasks[t].pages
    IN /\ At(t, "row")
       /\ tasks[t].op = "delete" \/ ProjectInWorkspace(tasks[t].ws, p)
       /\ rows' = [c \in DOMAIN rows |-> IF c[1] = p /\ c[2] \in DOMAIN pages THEN pages[c[2]] ELSE rows[c]]
       /\ Returns(t)
       /\ UNCHANGED <<scopeVars, diskVars, torn, boundVars>>

rollback_installed_files(t) ==
    files' = [c \in Places |->
        IF <<c[1], c[2]>> = Of(t) /\ c[3] \in DOMAIN tasks[t].prev
           /\ (tasks[t].op = "write" \/ (tasks[t].op = "delete" /\ tasks[t].prev[c[3]] # NULL))
        THEN tasks[t].prev[c[3]] ELSE files[c]]

\* The transaction is refused, or fails: a write and a delete put the files
\* back over whatever is there now, the others leave them.
StoreFails(t) ==
    /\ At(t, "row")
    /\ \/ tasks[t].op # "delete" /\ ~ProjectInWorkspace(tasks[t].ws, tasks[t].proj) /\ UNCHANGED faults
       \/ faults < MaxFaults /\ faults' = faults + 1
    /\ rollback_installed_files(t)
    /\ Ends(t)
    /\ UNCHANGED <<dirs, dbVars, torn, bodies, ops, looks>>

-----------------------------------------------------------------------------
(* Moves and removals of whole projects.                                   *)

purge_project(t, w, p) ==
    /\ ProjectInWorkspace(w, p)
    /\ Starts(t, Task("purge", "purge", w, p, NoPrev)) /\ UNCHANGED bodies

PagesOf(p) == {x \in Paths : rows[<<p, x>>] # NULL}
Occupied(w, p) == PagesOf(p) \cup {x \in Paths : files[<<w, p, x>>] # NULL}

\* A project of that name in the other workspace makes it a merge, asked only
\* where Paths has room for every duplicate (a bound).
move_project(t, w, p, to) ==
    /\ ProjectInWorkspace(w, p) /\ to # w
    /\ LET named == ProjectNamed(to, projects[p].name) IN
       \/ /\ named = {}
          /\ Starts(t, [Task("move", "mvdir", w, p, NoPrev) EXCEPT !.prev = to])
       \/ \E q \in named, policy \in {"block", "overwrite", "duplicate"} :
             /\ Cardinality(Occupied(w, p)) + Cardinality(Occupied(to, q)) <= Cardinality(Paths)
             /\ Starts(t, [Task("write", "list", to, q, NoPrev) EXCEPT !.merge =
                   [from |-> <<w, p>>, into |-> <<to, q>>, policy |-> policy,
                    pages |-> {}, todo |-> {}, used |-> {}, skipped |-> FALSE]])
    /\ UNCHANGED bodies

\* The rows first.
PurgeRows(t) ==
    LET w == tasks[t].ws
        p == tasks[t].proj
    IN /\ At(t, "purge")
       /\ \/ /\ PurgeProject(w, p)
             /\ rows' = [c \in DOMAIN rows |-> IF c[1] = p THEN NULL ELSE rows[c]]
             /\ Goto(t, "rmdir")
             /\ UNCHANGED lockVars
          \/ /\ ~ProjectInWorkspace(w, p)
             /\ Ends(t)
             /\ UNCHANGED dbVars
       /\ UNCHANGED <<diskVars, torn, boundVars>>

\* Mutant: directories are moved and removed beside the page operations.
Anybody == exclusive = NULL

\* Moves and removals of directories exclude every page operation.
NobodyElse == shared = {} /\ exclusive = NULL

remove_project_dir(t) ==
    /\ At(t, "rmdir") /\ NobodyElse
    /\ files' = [c \in Places |-> IF <<c[1], c[2]>> = Of(t) THEN NULL ELSE files[c]]
    /\ dirs' = dirs \ {Of(t)}
    /\ Ends(t)
    /\ UNCHANGED <<dbVars, torn, boundVars>>

RenameDir(from, to) ==
    /\ files' = [c \in Places |-> IF <<c[1], c[2]>> = to THEN files[<<from[1], from[2], c[3]>>]
                                  ELSE IF <<c[1], c[2]>> = from THEN NULL ELSE files[c]]
    /\ dirs' = (dirs \ {from}) \cup {to}

\* The directory first; an occupied destination refuses the move.
MoveDir(t) ==
    LET from == Of(t)
        to == <<tasks[t].prev, tasks[t].proj>>
    IN /\ At(t, "mvdir") /\ NobodyElse
       /\ IF to \in dirs THEN Ends(t) /\ UNCHANGED diskVars
          ELSE /\ \/ from \in dirs /\ RenameDir(from, to) /\ Goto(t, "restamp")
                  \/ from \notin dirs /\ UNCHANGED diskVars /\ Goto(t, "unmoved")
               /\ exclusive' = t /\ UNCHANGED shared
       /\ UNCHANGED <<dbVars, torn, boundVars>>

\* The directory waits for its rows, or there was none to rename.
Restamping(t) == At(t, "restamp") \/ At(t, "unmoved")

move_project_workspace(t) ==
    /\ Restamping(t)
    /\ MoveProjectWorkspace(tasks[t].proj, tasks[t].ws, tasks[t].prev)
    /\ Ends(t)
    /\ UNCHANGED <<rows, diskVars, torn, boundVars>>

\* The transaction is refused, or fails: a directory that was renamed is
\* renamed back, which a log line written meanwhile where it was prevents.
MoveBack(t) ==
    LET p == tasks[t].proj
        to == <<tasks[t].prev, p>>
    IN /\ Restamping(t)
       /\ \/ /\ ProjectInWorkspace(tasks[t].ws, p) => ProjectNamed(tasks[t].prev, projects[p].name) # {}
             /\ UNCHANGED faults
          \/ faults < MaxFaults /\ faults' = faults + 1
       /\ CASE At(t, "unmoved") -> UNCHANGED <<diskVars, torn>>
            [] At(t, "restamp") /\ Of(t) \notin dirs -> RenameDir(to, Of(t)) /\ UNCHANGED torn
            [] At(t, "restamp") /\ Of(t) \in dirs -> torn' = torn \cup {p} /\ UNCHANGED diskVars
       /\ Ends(t)
       /\ UNCHANGED <<dbVars, bodies, ops, looks>>

-----------------------------------------------------------------------------
(* The merge into a project of the same name: pages are copied one by one  *)
(* through write_page, then the source is purged.                          *)

\* A page at the same path with another content is a conflict; under the
\* policy "block" any conflict ends the merge.
prepare_source_pages(t) ==
    LET m == tasks[t].merge
        found(x) == files[<<m.from[1], m.from[2], x>>]
        prepared == {[path |-> x, body |-> found(x),
                      conflict |-> found(x) # NULL /\ rows[<<m.into[2], x>>] \notin {NULL, found(x)}]
                     : x \in PagesOf(m.from[2])}
    IN /\ At(t, "list")
       /\ IF m.policy = "block" /\ \E c \in prepared : c.conflict
          THEN Ends(t)
          ELSE /\ tasks' = [tasks EXCEPT ![t] =
                      [@ EXCEPT !.step = "copy", !.merge.pages = prepared, !.merge.todo = prepared]]
               /\ UNCHANGED lockVars
       /\ UNCHANGED <<diskVars, dbVars, torn, boundVars>>

\* Mutant: a page that cannot be read is passed over.
PassOver(m, c) == [m EXCEPT !.todo = @ \ {c}]

\* A page that cannot be read keeps the source from being purged.
Skip(m, c) == [m EXCEPT !.todo = @ \ {c}, !.skipped = TRUE]

CopyPage(t) ==
    LET m == tasks[t].merge IN
    /\ At(t, "copy")
    /\ \E c \in m.todo :
          \/ /\ c.body = NULL
             /\ tasks' = [tasks EXCEPT ![t].merge = Skip(m, c)]
          \/ /\ c.body # NULL
             /\ \E dest \in IF c.path \in m.used \/ (c.conflict /\ m.policy = "duplicate")
                            THEN {d \in Paths \ m.used : rows[<<m.into[2], d>>] = NULL}
                            ELSE {c.path} :
                   tasks' = [tasks EXCEPT ![t] = [@ EXCEPT
                       !.step = "lock", !.pages = [x \in {dest} |-> c.body], !.prev = NoPrev,
                       !.merge = [m EXCEPT !.todo = @ \ {c}, !.used = @ \cup {dest}]]]
    /\ UNCHANGED <<diskVars, dbVars, lockVars, torn, boundVars>>

CopiesEnd(t) ==
    LET m == tasks[t].merge IN
    /\ At(t, "copy") /\ m.todo = {}
    /\ IF m.skipped THEN Ends(t)
       ELSE /\ tasks' = [tasks EXCEPT ![t] = [@ EXCEPT !.op = "purge", !.step = "purge",
                                                 !.ws = m.from[1], !.proj = m.from[2]]]
            /\ UNCHANGED lockVars
    /\ UNCHANGED <<diskVars, dbVars, torn, boundVars>>

-----------------------------------------------------------------------------
(* The watcher, failures and people.                                       *)

\* Mutant: the walk leaves out the pages the index knows.
UnknownFiles == {c \in Places : files[c] # NULL /\ rows[<<c[2], c[3]>>] = NULL}

walk_markdown == {c \in Places : files[c] # NULL}

\* On an event of its file and on every pass: the file is read under the lock,
\* once its scope was found. A file that is gone since it was listed is not read.
reindex_page(c) ==
    /\ ~Busy(Watcher) /\ exclusive = NULL
    /\ c \in walk_markdown /\ ProjectInWorkspace(c[1], c[2])
    /\ IF \E t \in Tasks : Busy(t) THEN looks < MaxLooks /\ looks' = looks + 1 ELSE UNCHANGED looks
    /\ tasks' = [tasks EXCEPT ![Watcher] =
                    Task("reindex", "row", c[1], c[2], [x \in {c[3]} |-> files[c]])]
    /\ shared' = shared \cup {Watcher}
    /\ UNCHANGED <<diskVars, dbVars, exclusive, torn, bodies, ops, faults>>

\* Half done: the directory is elsewhere, or the rows are gone.
HalfDone(t) == At(t, "restamp") \/ At(t, "rmdir")

Torn(dead) == torn' = torn \cup {tasks[t].proj : t \in {u \in dead : HalfDone(u)}}

\* The server stops and starts again.
Crashes ==
    /\ faults < MaxFaults /\ faults' = faults + 1
    /\ \E t \in Workers : Busy(t)
    /\ Torn(Workers)
    /\ tasks' = [t \in Workers |-> Idle]
    /\ shared' = {} /\ exclusive' = NULL
    /\ UNCHANGED <<diskVars, dbVars, bodies, ops, looks>>

HasPages(d) == \E x \in Paths : files[<<d[1], d[2], x>>] # NULL

\* In an editor: a page is changed, added or removed where there are pages, not
\* where a merge is copying to (bounds).
EditedByHand(c) ==
    /\ faults < MaxFaults /\ faults' = faults + 1
    /\ HasPages(<<c[1], c[2]>>) /\ c[3] \in Asked
    /\ ~\E t \in Tasks : Merging(t) /\ tasks[t].merge.into = <<c[1], c[2]>>
    /\ \/ bodies < MaxBodies /\ bodies' = bodies + 1 /\ files' = [files EXCEPT ![c] = bodies']
       \/ files[c] # NULL /\ files' = [files EXCEPT ![c] = NULL] /\ UNCHANGED bodies
    /\ UNCHANGED <<dirs, dbVars, lockVars, tasks, torn, ops, looks>>

-----------------------------------------------------------------------------
Requests(t) ==
    \E w \in WorkspaceIds, p \in ProjectIds :
        \/ \E path \in Asked : \/ write_page(t, w, p, path)
                               \/ delete_page(t, w, p, path)
                               \/ restore_page_from_checkpoint(t, w, p, path)
        \/ apply_batch(t, w, p, Batch)
        \/ insert_observation(t, w, p)
        \/ purge_project(t, w, p)
        \/ \E to \in WorkspaceIds : move_project(t, w, p, to)

Proceeds(t) ==
    \/ append_event(t)
    \/ InstallFiles(t) \/ StoreRows(t) \/ StoreFails(t)
    \/ PurgeRows(t) \/ remove_project_dir(t)
    \/ MoveDir(t) \/ move_project_workspace(t) \/ MoveBack(t)
    \/ prepare_source_pages(t) \/ CopyPage(t) \/ CopiesEnd(t)

Next ==
    \/ \E t \in Tasks : Requests(t)
    \/ \E t \in Workers : Proceeds(t)
    \/ \E c \in Places : reindex_page(c) \/ EditedByHand(c)
    \/ Crashes

CatchesUp == \E c \in Places : rows[<<c[2], c[3]>>] # files[c] /\ reindex_page(c)

\* Requests that are under way go on, and the passes of the watcher, one every
\* interval, come to every file: one that stays unindexed is not left out for ever.
Spec ==
    /\ Init /\ [][Next]_wikiVars
    /\ \A t \in Workers : WF_wikiVars(Proceeds(t))
    /\ SF_wikiVars(CatchesUp)

-----------------------------------------------------------------------------
(* Properties.                                                             *)

\* The directory of a project is being moved or removed.
Relocating(p) == \E t \in Tasks : HalfDone(t) /\ tasks[t].proj = p

\* "Stale source writes fail without creating orphan files after the move"
\* (docs/lifecycle-ops.md), of pages: whatever writes were under way, the file
\* of every page lies under the workspace its project is in, and a project that
\* was purged or merged away leaves no page, unless its move or removal was cut
\* short. Log lines that come late only leave directories without pages, or keep
\* a refused move from being undone, which counts as cut short.
FilesInScope ==
    \A c \in Places : files[c] # NULL /\ c[2] \notin torn /\ ~Relocating(c[2]) => ProjectInWorkspace(c[1], c[2])

\* A source is purged only once every page it had when it was listed is in a
\* file of the destination, whichever of the copies failed, conflicted or could
\* not be read.
MergeLosesNothing ==
    \A t \in Tasks : At(t, "purge") /\ Merging(t) =>
        LET m == tasks[t].merge IN
        \A c \in m.pages : c.body # NULL /\ \E x \in Paths : files[<<m.into[1], m.into[2], x>>] = c.body

\* Once requests, failures and edits are over, every page that is on disk is
\* indexed as it is there: whatever was lost between file and row is made up
\* for from the files.
IndexFollowsFiles ==
    <>[](\A c \in Places : files[c] # NULL /\ ProjectInWorkspace(c[1], c[2]) => rows[<<c[2], c[3]>>] = files[c])

TypeOK ==
    /\ files \in [Places -> 1..MaxBodies \cup {NULL}]
    /\ dirs \subseteq WorkspaceIds \X ProjectIds
    /\ rows \in [ProjectIds \X Paths -> 1..MaxBodies \cup {NULL}]
    /\ shared \subseteq Workers /\ exclusive \in Workers \cup {NULL}
    /\ exclusive # NULL => shared = {}
=============================================================================
