--------------------------- MODULE MemoryWikiProofs ---------------------------
(***************************************************************************)
(* Theorems about MemoryWiki, for every set of workspaces, projects, paths  *)
(* and tasks, whatever the server starts from, and every bound.             *)
(***************************************************************************)
EXTENDS MemoryWiki, FiniteSetTheorems, TLAPS

-----------------------------------------------------------------------------
(* The inductive invariant.                                                 *)

Contents == 1..MaxBodies \cup {NULL}
Scopes == WorkspaceIds \X ProjectIds
Ops == {"write", "delete", "restore", "purge", "move", "log", "reindex"}
Steps == {"lock", "row", "purge", "rmdir", "mvdir", "restamp", "unmoved", "append", "list", "copy"}

\* A record with these fields and no other.
Fields(r) ==
    r = [op |-> r.op, step |-> r.step, ws |-> r.ws, proj |-> r.proj,
         pages |-> r.pages, prev |-> r.prev, merge |-> r.merge]

\* What is set aside is a content for each page; of a move it is the destination.
TaskType(r) ==
    /\ Fields(r)
    /\ r.op \in Ops /\ r.step \in Steps /\ r.ws \in WorkspaceIds /\ r.proj \in ProjectIds
    /\ DOMAIN r.pages \subseteq Paths /\ \A x \in DOMAIN r.pages : r.pages[x] \in Contents
    /\ r.step = "row" => \A x \in DOMAIN r.prev : r.prev[x] \in Contents
    /\ r.step \in {"mvdir", "restamp", "unmoved"} => r.prev \in WorkspaceIds
    /\ r.step \in {"list", "copy"} => r.merge # NULL

TasksOK ==
    /\ tasks = [t \in Workers |-> tasks[t]]
    /\ \A t \in Workers : tasks[t] = Idle \/ TaskType(tasks[t])
    /\ Busy(Watcher) => /\ tasks[Watcher].op = "reindex" /\ tasks[Watcher].step = "row"
                        /\ tasks[Watcher].merge = NULL

\* A directory is renamed under the exclusive side; files are written under the
\* shared side, into a directory that is there until the rows are stored.
LockOK == \A t \in Workers :
    /\ Restamping(t) => exclusive = t
    /\ At(t, "row") => t \in shared /\ Of(t) \in dirs

\* Where the rows have a project, or had it until a purge that has yet to
\* remove the directory.
Home(d) == ProjectInWorkspace(d[1], d[2]) \/ \E t \in Tasks : At(t, "rmdir") /\ Of(t) = d

\* Pages are at home, or in a directory that waits for its rows; a directory
\* with nothing but a log may be anywhere.
PageDirs == {d \in Scopes : HasPages(d)}

Target(t) == <<tasks[t].prev, tasks[t].proj>>
DirsOK == \A d \in PageDirs : d[2] \notin torn =>
    Home(d) \/ \E u \in Tasks : At(u, "restamp") /\ d = Target(u)

\* Pages that are elsewhere came from home, and none is there now.
MovesOK == \A u \in Tasks :
    /\ Restamping(u) => Of(u) \notin PageDirs
    /\ At(u, "restamp") /\ Target(u) \in PageDirs /\ tasks[u].proj \notin torn => Home(Of(u))

\* What a page operation puts back when the store fails is put back at home.
RowsHome == \A t \in Workers : At(t, "row") /\ tasks[t].proj \notin torn => Home(Of(t))

FilesHaveDirs == \A c \in Places : files[c] # NULL => <<c[1], c[2]>> \in dirs

\* A merge runs alone; of the pages it is done with none is missing.
MergeType(m) == m \in Merges /\ m.todo \subseteq m.pages

\* The page is in a file of the destination, or is the one to be written next.
Copied(t, c) == \E x \in tasks[t].merge.used :
    IF tasks[t].step = "lock" /\ x \in DOMAIN tasks[t].pages THEN tasks[t].pages[x] = c.body
    ELSE files[<<tasks[t].merge.into[1], tasks[t].merge.into[2], x>>] = c.body

MergeSound(t) ==
    LET m == tasks[t].merge
    IN /\ MergeType(m)
       /\ tasks[t].step \in {"list", "copy", "lock", "row", "purge", "rmdir"}
       /\ tasks[t].step \in {"list", "copy", "lock", "row"} => Of(t) = m.into /\ tasks[t].op = "write"
       /\ tasks[t].step = "list" => m.pages = {}
       /\ tasks[t].step = "purge" => m.todo = {} /\ ~m.skipped
       /\ ~m.skipped /\ tasks[t].step # "rmdir" =>
              \A c \in m.pages \ m.todo : c.body # NULL /\ Copied(t, c)
MergeOK == \A t \in Tasks : Merging(t) => MergeSound(t) /\ \A u \in Tasks \ {t} : ~Busy(u)

ScopesOK == ScopesTypeOK /\ bodies \in Nat

IInv ==
    /\ TypeOK /\ ScopesOK /\ TasksOK
    /\ LockOK /\ DirsOK /\ MovesOK /\ RowsHome /\ FilesHaveDirs
    /\ MergeOK

-----------------------------------------------------------------------------
(* Tasks.                                                                   *)

OthersKeep(t) == \A u \in Workers : u # t => tasks'[u] = tasks[u]
Watched(t, r) == t = Watcher => r = Idle \/ (r.op = "reindex" /\ r.step = "row" /\ r.merge = NULL)

\* The fields of a task, one by one.
Names == {"op", "step", "ws", "proj", "pages", "prev", "merge"}
LEMMA FieldNames ==
  ASSUME NEW r, Fields(r)
  PROVE  DOMAIN r = Names
BY DEF Fields, Names

LEMMA NamedFields ==
  ASSUME NEW q, DOMAIN q = Names, q = [x \in DOMAIN q |-> q[x]]
  PROVE  Fields(q)
BY DEF Fields, Names

LEMMA TaskIsBusy ==
  ASSUME NEW r, TaskType(r)
  PROVE  r # Idle
BY DEF TaskType, Idle, Ops

LEMMA TaskOf ==
  ASSUME TasksOK, NEW t \in Workers, Busy(t)
  PROVE  TaskType(tasks[t])
BY DEF TasksOK, Busy

LEMMA MergeFields ==
  ASSUME NEW m, MergeType(m)
  PROVE  /\ m.from \in Scopes /\ m.into \in Scopes /\ m.used \subseteq Paths
         /\ m.todo \subseteq m.pages /\ m.pages \subseteq Prepared
         /\ \A c \in m.pages : c.path \in Paths /\ c.body \in Contents
<1>1. m.todo \subseteq m.pages /\ m \in Merges
  BY DEF MergeType
<1>2. m.from \in Scopes /\ m.into \in Scopes /\ m.used \subseteq Paths /\ m.pages \subseteq Prepared
  BY <1>1 DEF Merges, Scopes
<1>3. \A c \in Prepared : c.path \in Paths /\ c.body \in Contents
  BY DEF Prepared, Contents
<1> QED BY <1>1, <1>2, <1>3

\* A step changes one task, to a well-formed one.
LEMMA Changed ==
  ASSUME TasksOK, NEW t \in Workers, NEW r, r = Idle \/ TaskType(r), Watched(t, r),
         tasks' = [tasks EXCEPT ![t] = r]
  PROVE  TasksOK' /\ tasks'[t] = r /\ OthersKeep(t)
<1>1. tasks' = [u \in Workers |-> IF u = t THEN r ELSE tasks[u]]
  BY DEF TasksOK
<1>2. tasks'[t] = r /\ \A u \in Workers : u # t => tasks'[u] = tasks[u]
  BY <1>1
<1>3. tasks' = [u \in Workers |-> tasks'[u]]
  BY <1>1
<1>4. \A u \in Workers : tasks'[u] = Idle \/ TaskType(tasks'[u])
  BY <1>2 DEF TasksOK
<1>5. tasks'[Watcher] # Idle =>
        /\ tasks'[Watcher].op = "reindex" /\ tasks'[Watcher].step = "row"
        /\ tasks'[Watcher].merge = NULL
  BY <1>2 DEF TasksOK, Watched, Busy, Workers
<1> QED BY <1>2, <1>3, <1>4, <1>5 DEF TasksOK, OthersKeep, Busy

\* A task goes on to another step and keeps the rest.
LEMMA SteppedTask ==
  ASSUME NEW r, TaskType(r), NEW s \in Steps \ {"row", "mvdir", "restamp", "unmoved"}, r.merge = NULL => s \notin {"list", "copy"}
  PROVE  LET q == [r EXCEPT !.step = s]
         IN /\ TaskType(q) /\ q.step = s
            /\ q.op = r.op /\ q.ws = r.ws /\ q.proj = r.proj
            /\ q.pages = r.pages /\ q.prev = r.prev /\ q.merge = r.merge
<1> DEFINE q == [r EXCEPT !.step = s]
<1>1. q = [op |-> r.op, step |-> s, ws |-> r.ws, proj |-> r.proj,
           pages |-> r.pages, prev |-> r.prev, merge |-> r.merge]
  BY DEF TaskType, Fields
<1> HIDE DEF q
<1>2. /\ q.op = r.op /\ q.step = s /\ q.ws = r.ws /\ q.proj = r.proj
      /\ q.pages = r.pages /\ q.prev = r.prev /\ q.merge = r.merge
  BY <1>1
<1>3. Fields(q)
  BY <1>1, <1>2 DEF Fields
<1>4. TaskType(q)
  BY <1>2, <1>3 DEF TaskType
<1> QED BY <1>2, <1>4 DEF q

\* Goto of the steps that move no directory.
LEMMA GotoKeeps ==
  ASSUME TasksOK, NEW t \in Tasks, Busy(t), NEW s \in Steps \ {"row", "mvdir", "restamp", "unmoved"},
         tasks[t].merge = NULL => s \notin {"list", "copy"}, Goto(t, s)
  PROVE  /\ TasksOK' /\ OthersKeep(t)
         /\ tasks'[t] = [tasks[t] EXCEPT !.step = s] /\ TaskType(tasks'[t])
<1>1. t \in Workers /\ t # Watcher
  BY WorkersAssumption DEF Workers
<1>2. TaskType(tasks[t])
  BY <1>1, TaskOf
<1>3. tasks' = [tasks EXCEPT ![t] = [tasks[t] EXCEPT !.step = s]]
  BY DEF Goto
<1>4. TaskType([tasks[t] EXCEPT !.step = s])
  BY <1>2, SteppedTask
<1>5. Watched(t, [tasks[t] EXCEPT !.step = s])
  BY <1>1 DEF Watched
<1> QED BY <1>1, <1>3, <1>4, <1>5, Changed

LEMMA EndsKeeps ==
  ASSUME TasksOK, NEW t \in Workers, tasks' = [tasks EXCEPT ![t] = Idle]
  PROVE  TasksOK' /\ OthersKeep(t) /\ tasks'[t] = Idle
BY Changed DEF Watched

-----------------------------------------------------------------------------
(* Frames.                                                                  *)

\* Neither before nor after the step is the task moving or removing a directory.
Still(t) == ~HalfDone(t) /\ ~HalfDone(t)' /\ ~Restamping(t) /\ ~Restamping(t)'

\* Pages come up at home only, while no task has the exclusive side.
PagesComeHome ==
    /\ \A d \in PageDirs' \ PageDirs : d[2] \notin torn => Home(d)
    /\ PageDirs' \subseteq PageDirs \/ exclusive = NULL

\* A step of a task that moves no directory.
LEMMA StillStep ==
  ASSUME IInv, NEW t \in Workers, OthersKeep(t), Still(t), UNCHANGED <<projects, torn>>, PagesComeHome,
         At(t, "row")' /\ tasks'[t].proj \notin torn => Home(<<tasks'[t].ws, tasks'[t].proj>>)
  PROVE  DirsOK' /\ MovesOK' /\ RowsHome'
<1>1. \A u \in Workers, s \in {"rmdir", "restamp", "unmoved"} : At(u, s)' <=> At(u, s)
  BY DEF OthersKeep, Still, HalfDone, Restamping, At, Busy
<1>2. \A u \in Workers : (At(u, "rmdir") \/ Restamping(u)) => Of(u)' = Of(u) /\ Target(u)' = Target(u) /\ tasks'[u] = tasks[u]
  BY DEF OthersKeep, Still, HalfDone, Restamping, Of, Target, At, Busy
<1>3. \A d : ProjectInWorkspace(d[1], d[2])' <=> ProjectInWorkspace(d[1], d[2])
  BY DEF ProjectInWorkspace, LiveProjects
<1>4. ASSUME NEW d, Home(d)
      PROVE  Home(d)'
  BY <1>1, <1>2, <1>3, <1>4 DEF Home, Workers
<1>5. DirsOK'
  <2> SUFFICES ASSUME NEW d \in PageDirs', d[2] \notin torn'
               PROVE  Home(d)' \/ \E u \in Tasks : At(u, "restamp")' /\ d = Target(u)'
    BY DEF DirsOK
  <2>1. CASE d \in PageDirs
    BY <2>1, <1>1, <1>2, <1>4 DEF IInv, DirsOK, Workers, Restamping
  <2>2. CASE d \notin PageDirs
    BY <2>2, <1>4 DEF PagesComeHome
  <2> QED BY <2>1, <2>2
<1>6. ASSUME NEW u \in Workers, NEW d, d = Of(u)', Home(d)
      PROVE  Home(Of(u))'
  <2>1. Home(d)'
    BY <1>4, <1>6
  <2> QED BY <1>6, <2>1 DEF Home
<1>7. MovesOK'
  <2> SUFFICES ASSUME NEW u \in Tasks, Restamping(u)'
               PROVE  /\ Of(u)' \notin PageDirs'
                      /\ At(u, "restamp")' /\ Target(u)' \in PageDirs' /\ tasks'[u].proj \notin torn' => Home(Of(u))'
    BY DEF MovesOK, Home, Of, Target, Restamping
  <2>1. u \in Workers /\ Restamping(u) /\ u # NULL
    BY <1>1, WorkersAssumption DEF Workers, Restamping
  <2>2. exclusive = u
    BY <2>1 DEF IInv, LockOK
  <2>3. PageDirs' \subseteq PageDirs
    BY <2>1, <2>2 DEF PagesComeHome
  <2>4. /\ Of(u) \notin PageDirs
        /\ At(u, "restamp") /\ Target(u) \in PageDirs /\ tasks[u].proj \notin torn => Home(Of(u))
    BY <2>1 DEF IInv, MovesOK
  <2>5. /\ Of(u)' = Of(u) /\ Target(u)' = Target(u) /\ tasks'[u] = tasks[u]
        /\ At(u, "restamp")' <=> At(u, "restamp")
    BY <1>1, <1>2, <2>1
  <2>6. Home(Of(u)) => Home(Of(u))'
    BY <1>6, <2>1, <2>5
  <2> QED BY <2>3, <2>4, <2>5, <2>6
<1>8. RowsHome'
  <2> SUFFICES ASSUME NEW u \in Workers, At(u, "row")', tasks'[u].proj \notin torn'
               PROVE  Home(Of(u))'
    BY DEF RowsHome, Home, Of
  <2>1. CASE u = t
    <3>1. Home(<<tasks'[t].ws, tasks'[t].proj>>)
      BY <2>1
    <3> QED BY <1>6, <2>1, <3>1 DEF Of
  <2>2. CASE u # t
    <3>1. tasks'[u] = tasks[u]
      BY <2>2 DEF OthersKeep
    <3>2. Of(u)' = Of(u) /\ Home(Of(u))
      BY <3>1 DEF IInv, RowsHome, At, Busy, Of
    <3> QED BY <1>6, <3>2
  <2> QED BY <2>1, <2>2
<1> QED BY <1>5, <1>7, <1>8

\* Where no page comes up there is nothing to show.
LEMMA NoNewPages ==
  ASSUME files' = files
  PROVE  PagesComeHome
BY DEF PagesComeHome, PageDirs, HasPages

\* A task keeps, takes or gives back its side of the lock; no directory goes.
LEMMA LockStep ==
  ASSUME IInv, NEW t \in Workers, OthersKeep(t), dirs \subseteq dirs',
         \A u \in Workers : u # t /\ u \in shared => u \in shared',
         \A u \in Workers : u # t /\ exclusive = u => exclusive' = u,
         Restamping(t)' => exclusive' = t,
         At(t, "row")' => t \in shared' /\ Of(t)' \in dirs'
  PROVE  LockOK'
<1> SUFFICES ASSUME NEW u \in Workers
             PROVE  /\ Restamping(u)' => exclusive' = u
                    /\ At(u, "row")' => u \in shared' /\ Of(u)' \in dirs'
  BY DEF LockOK
<1>1. CASE u = t
  BY <1>1
<1>2. CASE u # t
  <2>1. tasks'[u] = tasks[u]
    BY <1>2 DEF OthersKeep
  <2>2. /\ Restamping(u) => exclusive = u
        /\ At(u, "row") => u \in shared /\ Of(u) \in dirs
    BY DEF IInv, LockOK
  <2> QED BY <1>2, <2>1, <2>2 DEF Restamping, At, Busy, Of
<1> QED BY <1>1, <1>2

LEMMA UnlockStep ==
  ASSUME TypeOK, NEW t \in Workers, Unlock(t)
  PROVE  /\ \A u \in Workers : u # t /\ u \in shared => u \in shared'
         /\ \A u \in Workers : u # t /\ exclusive = u => exclusive' = u
         /\ shared' \subseteq Workers /\ exclusive' \in Workers \cup {NULL}
         /\ exclusive' # NULL => shared' = {}
BY DEF TypeOK, Unlock

\* While a request is under way no other merge is.
LEMMA NoMergeLeft ==
  ASSUME IInv, NEW t \in Tasks, Busy(t), OthersKeep(t), ~Merging(t)'
  PROVE  MergeOK'
<1> SUFFICES ASSUME NEW u \in Tasks, Merging(u)'
             PROVE  FALSE
  BY DEF MergeOK
<1>1. u # t /\ u \in Workers
  BY DEF Workers
<1>2. Merging(u)
  BY <1>1 DEF OthersKeep, Merging, Busy
<1> QED BY <1>1, <1>2 DEF IInv, MergeOK

LEMMA MergeGoesOn ==
  ASSUME IInv, NEW t \in Tasks, Merging(t), OthersKeep(t), MergeSound(t)'
  PROVE  MergeOK'
<1> SUFFICES ASSUME NEW u \in Tasks, Merging(u)'
             PROVE  MergeSound(u)' /\ \A v \in Tasks \ {u} : ~Busy(v)'
  BY DEF MergeOK
<1>1. \A v \in Tasks \ {t} : ~Busy(v) /\ tasks'[v] = tasks[v]
  BY DEF IInv, MergeOK, OthersKeep, Workers
<1>2. u = t
  BY <1>1 DEF Merging, Busy
<1> QED BY <1>1, <1>2 DEF Busy

\* The watcher's steps, and those of no task, leave a merge alone.
LEMMA MergeStays ==
  ASSUME IInv, \A u \in Tasks : tasks'[u] = tasks[u],
         \A u \in Tasks : Merging(u) => \A x \in Paths :
             files'[<<tasks[u].merge.into[1], tasks[u].merge.into[2], x>>] =
             files[<<tasks[u].merge.into[1], tasks[u].merge.into[2], x>>]
  PROVE  MergeOK'
<1> SUFFICES ASSUME NEW u \in Tasks, Merging(u)'
             PROVE  MergeSound(u)' /\ \A v \in Tasks \ {u} : ~Busy(v)'
  BY DEF MergeOK
<1>1. Merging(u)
  BY DEF Merging, Busy
<1>2. MergeSound(u) /\ \A v \in Tasks \ {u} : ~Busy(v)
  BY <1>1 DEF IInv, MergeOK
<1>3. tasks[u].merge.used \subseteq Paths
  BY <1>2, MergeFields DEF MergeSound
<1>4. \A c : Copied(u, c) => Copied(u, c)'
  BY <1>1, <1>3 DEF Copied
<1>5. MergeSound(u)'
  BY <1>2, <1>4 DEF MergeSound, Of
<1> QED BY <1>2, <1>5 DEF Busy

-----------------------------------------------------------------------------
(* Requests.                                                                *)

\* What a merge begins with.
NewMerge(r) ==
    /\ r.step = "list" /\ r.op = "write" /\ MergeType(r.merge)
    /\ r.merge.into = <<r.ws, r.proj>> /\ r.merge.pages = {} /\ r.merge.todo = {}

LEMMA StartsKeeps ==
  ASSUME IInv, NEW t \in Tasks, NEW r, TaskType(r), r.step \in {"lock", "purge", "mvdir", "append", "list"},
         r.merge = NULL \/ NewMerge(r), bodies' \in Nat, Starts(t, r)
  PROVE  IInv'
<1>0. t \in Workers /\ t # Watcher
  BY WorkersAssumption DEF Workers
<1>1. /\ tasks' = [tasks EXCEPT ![t] = r] /\ ~Busy(t)
      /\ UNCHANGED <<files, dirs, workspaces, projects, rows, shared, exclusive, torn>>
      /\ \A u \in Tasks : ~Merging(u) /\ (r.merge # NULL => ~Busy(u))
  BY DEF Starts, diskVars, dbVars, scopeVars, lockVars
<1>2. TasksOK' /\ tasks'[t] = r /\ OthersKeep(t)
  BY <1>0, <1>1, Changed DEF Watched, IInv
<1>3. TypeOK' /\ ScopesOK'
  BY <1>1 DEF IInv, TypeOK, ScopesOK, ScopesTypeOK
<1>4. Still(t) /\ ~At(t, "row")' /\ ~Restamping(t)'
  BY <1>1, <1>2 DEF Still, HalfDone, Restamping, At, Busy
<1>5. DirsOK' /\ MovesOK' /\ RowsHome'
  BY <1>0, <1>1, <1>2, <1>4, NoNewPages, StillStep
<1>6. LockOK'
  BY <1>0, <1>1, <1>2, <1>4, LockStep
<1>7. FilesHaveDirs'
  BY <1>1 DEF IInv, FilesHaveDirs
<1>8. MergeOK'
  <2> SUFFICES ASSUME NEW u \in Tasks, Merging(u)'
               PROVE  MergeSound(u)' /\ \A v \in Tasks \ {u} : ~Busy(v)'
    BY DEF MergeOK
  <2>1. \A v \in Tasks \ {t} : tasks'[v] = tasks[v]
    BY <1>2 DEF OthersKeep, Workers
  <2>2. u = t
    BY <1>1, <2>1 DEF Merging, Busy
  <2>3. r.merge # NULL
    BY <1>2, <2>2 DEF Merging
  <2>4. NewMerge(r) /\ \A v \in Tasks \ {t} : ~Busy(v)
    BY <1>1, <2>3
  <2>5. MergeSound(t)'
    BY <1>2, <2>4 DEF MergeSound, NewMerge, Of
  <2> QED BY <2>1, <2>2, <2>4, <2>5 DEF Busy
<1> QED BY <1>2, <1>3, <1>5, <1>6, <1>7, <1>8 DEF IInv

LEMMA NewTask ==
  ASSUME NEW op \in Ops, NEW step \in {"lock", "purge", "append", "mvdir"}, NEW w \in WorkspaceIds, NEW p \in ProjectIds,
         NEW pages, DOMAIN pages \subseteq Paths, \A x \in DOMAIN pages : pages[x] \in Contents
  PROVE  LET r == Task(op, step, w, p, pages)
         IN /\ r = [op |-> op, step |-> step, ws |-> w, proj |-> p, pages |-> pages, prev |-> NoPrev, merge |-> NULL]
            /\ step # "mvdir" => TaskType(r)
BY DEF Task, TaskType, Fields, Steps

LEMMA NewPages ==
  ASSUME IInv, NEW paths \in SUBSET Paths, bodies < MaxBodies, bodies' = bodies + 1
  PROVE  LET pages == [x \in paths |-> bodies']
         IN /\ DOMAIN pages \subseteq Paths /\ \A x \in DOMAIN pages : pages[x] \in Contents
            /\ bodies' \in Nat
BY WorkersAssumption DEF IInv, ScopesOK, Contents

LEMMA WritesKeep ==
  ASSUME IInv, NEW t \in Tasks, NEW w \in WorkspaceIds, NEW p \in ProjectIds, NEW paths \in SUBSET Paths,
         NEW op \in {"write", "restore"}, bodies < MaxBodies, bodies' = bodies + 1,
         Starts(t, Task(op, "lock", w, p, [x \in paths |-> bodies']))
  PROVE  IInv'
<1> DEFINE pages == [x \in paths |-> bodies']
           r == Task(op, "lock", w, p, pages)
<1>1. DOMAIN pages \subseteq Paths /\ (\A x \in DOMAIN pages : pages[x] \in Contents) /\ bodies' \in Nat
  BY NewPages
<1> HIDE DEF pages
<1>2. TaskType(r) /\ r.step = "lock" /\ r.merge = NULL
  <2>1. op \in Ops
    BY DEF Ops
  <2> QED BY <1>1, <2>1, NewTask
<1>3. Starts(t, r)
  BY DEF pages
<1> HIDE DEF r
<1> QED BY <1>1, <1>2, <1>3, StartsKeeps

LEMMA NothingNew ==
  /\ DOMAIN NoPrev \subseteq Paths /\ \A x \in DOMAIN NoPrev : NoPrev[x] \in Contents
BY DEF NoPrev

LEMMA DeleteKeeps ==
  ASSUME IInv, NEW t \in Tasks, NEW w \in WorkspaceIds, NEW p \in ProjectIds, NEW path \in Paths,
         delete_page(t, w, p, path)
  PROVE  IInv'
<1> DEFINE pages == [x \in {path} |-> NULL]
           r == Task("delete", "lock", w, p, pages)
<1>1. DOMAIN pages \subseteq Paths /\ (\A x \in DOMAIN pages : pages[x] \in Contents)
  BY DEF Contents
<1> HIDE DEF pages
<1>2. TaskType(r) /\ r.step = "lock" /\ r.merge = NULL
  BY <1>1, NewTask DEF Ops
<1>3. Starts(t, r) /\ bodies' \in Nat
  BY DEF delete_page, pages, IInv, ScopesOK
<1> HIDE DEF r
<1> QED BY <1>2, <1>3, StartsKeeps

LEMMA PurgeKeeps ==
  ASSUME IInv, NEW t \in Tasks, NEW w \in WorkspaceIds, NEW p \in ProjectIds, purge_project(t, w, p)
  PROVE  IInv'
<1> DEFINE r == Task("purge", "purge", w, p, NoPrev)
<1>1. TaskType(r) /\ r.step = "purge" /\ r.merge = NULL
  BY NothingNew, NewTask DEF Ops
<1>2. Starts(t, r) /\ bodies' \in Nat
  BY DEF purge_project, IInv, ScopesOK
<1> HIDE DEF r
<1> QED BY <1>1, <1>2, StartsKeeps

LEMMA ObservationKeeps ==
  ASSUME IInv, NEW t \in Tasks, NEW w \in WorkspaceIds, NEW p \in ProjectIds, insert_observation(t, w, p)
  PROVE  IInv'
<1> DEFINE r == Task("log", "append", w, p, NoPrev)
<1>1. TaskType(r) /\ r.step = "append" /\ r.merge = NULL
  BY NothingNew, NewTask DEF Ops
<1>2. Starts(t, r) /\ bodies' \in Nat
  BY DEF insert_observation, IInv, ScopesOK
<1> HIDE DEF r
<1> QED BY <1>1, <1>2, StartsKeeps

\* The merge record of move_project.
MergeTask(w, p, to, q, policy) ==
    [Task("write", "list", to, q, NoPrev) EXCEPT !.merge =
        [from |-> <<w, p>>, into |-> <<to, q>>, policy |-> policy,
         pages |-> {}, todo |-> {}, used |-> {}, skipped |-> FALSE]]

LEMMA NewMergeTask ==
  ASSUME NEW w \in WorkspaceIds, NEW p \in ProjectIds, NEW to \in WorkspaceIds, NEW q \in ProjectIds,
         NEW policy \in {"block", "overwrite", "duplicate"}
  PROVE  LET r == MergeTask(w, p, to, q, policy)
         IN TaskType(r) /\ r.step = "list" /\ NewMerge(r)
<1> DEFINE m == [from |-> <<w, p>>, into |-> <<to, q>>, policy |-> policy,
                 pages |-> {}, todo |-> {}, used |-> {}, skipped |-> FALSE]
           r == MergeTask(w, p, to, q, policy)
<1>0. r = [Task("write", "list", to, q, NoPrev) EXCEPT !.merge = m]
  BY DEF MergeTask
<1>1. MergeType(m) /\ m.into = <<to, q>> /\ m.pages = {} /\ m.todo = {}
  <2>1. /\ m.from = <<w, p>> /\ m.into = <<to, q>> /\ m.policy = policy
        /\ m.pages = {} /\ m.todo = {} /\ m.used = {} /\ m.skipped = FALSE
    OBVIOUS
  <2>2. m \in Merges
    BY DEF Merges
  <2> HIDE DEF m
  <2> QED BY <2>1, <2>2 DEF MergeType
<1> HIDE DEF m
<1>2. r = [op |-> "write", step |-> "list", ws |-> to, proj |-> q, pages |-> NoPrev, prev |-> NoPrev, merge |-> m]
  BY <1>0 DEF Task
<1> HIDE DEF r
<1>3. TaskType(r)
  <2>1. /\ r.op = "write" /\ r.step = "list" /\ r.ws = to /\ r.proj = q /\ r.pages = NoPrev
        /\ r.prev = NoPrev /\ r.merge = m
    BY <1>2
  <2>2. Fields(r)
    BY <1>2, <2>1 DEF Fields
  <2> QED BY <1>1, <2>1, <2>2, NothingNew, MergesAssumption DEF TaskType, Ops, Steps, MergeType
<1>4. r.step = "list" /\ r.op = "write" /\ r.merge = m /\ r.ws = to /\ r.proj = q
  BY <1>2
<1>5. NewMerge(r)
  BY <1>1, <1>4 DEF NewMerge
<1> QED BY <1>3, <1>4, <1>5 DEF r

LEMMA MoveKeeps ==
  ASSUME IInv, NEW t \in Tasks, NEW w \in WorkspaceIds, NEW p \in ProjectIds, NEW to \in WorkspaceIds,
         move_project(t, w, p, to)
  PROVE  IInv'
<1>0. bodies' \in Nat
  BY DEF move_project, IInv, ScopesOK
<1>1. CASE Starts(t, [Task("move", "mvdir", w, p, NoPrev) EXCEPT !.prev = to])
  <2> DEFINE r == [Task("move", "mvdir", w, p, NoPrev) EXCEPT !.prev = to]
  <2>1. r = [op |-> "move", step |-> "mvdir", ws |-> w, proj |-> p, pages |-> NoPrev, prev |-> to, merge |-> NULL]
    BY DEF Task
  <2>2. Starts(t, r)
    BY <1>1
  <2> HIDE DEF r
  <2>3. /\ r.op = "move" /\ r.step = "mvdir" /\ r.ws = w /\ r.proj = p /\ r.pages = NoPrev
        /\ r.prev = to /\ r.merge = NULL
    BY <2>1
  <2>4. Fields(r)
    BY <2>1, <2>3 DEF Fields
  <2>5. TaskType(r)
    BY <2>3, <2>4, NothingNew DEF TaskType, Ops, Steps
  <2> QED BY <1>0, <2>2, <2>3, <2>5, StartsKeeps
<1>2. ASSUME NEW q \in ProjectNamed(to, projects[p].name), NEW policy \in {"block", "overwrite", "duplicate"},
             Starts(t, MergeTask(w, p, to, q, policy))
      PROVE  IInv'
  <2> DEFINE r == MergeTask(w, p, to, q, policy)
  <2>1. q \in ProjectIds
    BY DEF ProjectNamed, LiveProjects
  <2>2. TaskType(r) /\ r.step = "list" /\ NewMerge(r)
    BY <2>1, NewMergeTask
  <2>3. Starts(t, r)
    BY <1>2
  <2> HIDE DEF r
  <2> QED BY <1>0, <2>2, <2>3, StartsKeeps
<1> QED BY <1>1, <1>2 DEF move_project, MergeTask

LEMMA RequestsKeep ==
  ASSUME IInv, NEW t \in Tasks, Requests(t)
  PROVE  IInv'
<1>1. PICK w \in WorkspaceIds, p \in ProjectIds :
        \/ \E path \in Asked : \/ write_page(t, w, p, path)
                               \/ delete_page(t, w, p, path)
                               \/ restore_page_from_checkpoint(t, w, p, path)
        \/ apply_batch(t, w, p, Batch)
        \/ insert_observation(t, w, p)
        \/ purge_project(t, w, p)
        \/ \E to \in WorkspaceIds : move_project(t, w, p, to)
  BY DEF Requests
<1>2. ASSUME NEW path \in Asked, write_page(t, w, p, path)
      PROVE  IInv'
  BY <1>2, WritesKeep, WorkersAssumption DEF write_page
<1>3. ASSUME NEW path \in Asked, delete_page(t, w, p, path)
      PROVE  IInv'
  BY <1>3, DeleteKeeps, WorkersAssumption
<1>4. ASSUME NEW path \in Asked, restore_page_from_checkpoint(t, w, p, path)
      PROVE  IInv'
  BY <1>4, WritesKeep, WorkersAssumption DEF restore_page_from_checkpoint
<1>5. CASE apply_batch(t, w, p, Batch)
  BY <1>5, WritesKeep, WorkersAssumption DEF apply_batch
<1>6. CASE purge_project(t, w, p)
  BY <1>6, PurgeKeeps
<1>7. ASSUME NEW to \in WorkspaceIds, move_project(t, w, p, to)
      PROVE  IInv'
  BY <1>7, MoveKeeps
<1>8. CASE insert_observation(t, w, p)
  BY <1>8, ObservationKeeps
<1> QED BY <1>1, <1>2, <1>3, <1>4, <1>5, <1>6, <1>7, <1>8

-----------------------------------------------------------------------------
(* Page operations.                                                         *)

\* A task that ends where it moved no directory leaves a sound state behind.
LEMMA EndsStill ==
  ASSUME IInv, NEW t \in Workers, Busy(t), ~HalfDone(t), ~Restamping(t), Ends(t), dirs \subseteq dirs',
         UNCHANGED <<projects, torn>>, PagesComeHome, t = Watcher => files' = files
  PROVE  /\ TasksOK' /\ LockOK' /\ DirsOK' /\ MovesOK' /\ RowsHome' /\ MergeOK'
         /\ shared' \subseteq Workers /\ exclusive' \in Workers \cup {NULL}
         /\ exclusive' # NULL => shared' = {}
<1>1. tasks' = [tasks EXCEPT ![t] = Idle] /\ Unlock(t)
  BY DEF Ends
<1>2. TasksOK' /\ OthersKeep(t) /\ tasks'[t] = Idle
  BY <1>1, EndsKeeps DEF IInv
<1>3. ~Busy(t)' /\ ~At(t, "row")' /\ ~Restamping(t)' /\ Still(t)
  BY <1>2 DEF Busy, At, Still, HalfDone, Restamping
<1>4. LockOK'
  BY <1>1, <1>2, <1>3, UnlockStep, LockStep DEF IInv
<1>5. DirsOK' /\ MovesOK' /\ RowsHome'
  BY <1>2, <1>3, StillStep
<1>6. MergeOK'
  <2>1. CASE t \in Tasks
    BY <2>1, <1>2, <1>3, NoMergeLeft DEF Merging
  <2>2. CASE t = Watcher
    <3>1. \A u \in Tasks : tasks'[u] = tasks[u]
      BY <1>2, <2>2, WorkersAssumption DEF OthersKeep, Workers
    <3> QED BY <2>2, <3>1, MergeStays
  <2> QED BY <2>1, <2>2 DEF Workers
<1> QED BY <1>1, <1>2, <1>4, <1>5, <1>6, UnlockStep DEF IInv

\* A line of the log: a directory, where there may be no project any more, and
\* no page.
LEMMA AppendKeeps ==
  ASSUME IInv, NEW t \in Workers, append_event(t)
  PROVE  IInv'
<1>0. /\ At(t, "append") /\ Busy(t) /\ ~HalfDone(t) /\ ~Restamping(t) /\ Ends(t)
      /\ dirs' = dirs \cup {Of(t)}
      /\ UNCHANGED <<files, workspaces, projects, rows, torn, bodies>>
  BY DEF append_event, At, HalfDone, Restamping, dbVars, scopeVars, boundVars
<1>1. /\ TasksOK' /\ LockOK' /\ DirsOK' /\ MovesOK' /\ RowsHome' /\ MergeOK'
      /\ shared' \subseteq Workers /\ exclusive' \in Workers \cup {NULL}
      /\ exclusive' # NULL => shared' = {}
  BY <1>0, NoNewPages, EndsStill
<1>2. TaskType(tasks[t])
  BY <1>0, TaskOf DEF IInv
<1>3. dirs' \subseteq WorkspaceIds \X ProjectIds
  BY <1>0, <1>2 DEF TaskType, Of, IInv, TypeOK
<1> QED BY <1>0, <1>1, <1>3 DEF IInv, TypeOK, ScopesOK, ScopesTypeOK, FilesHaveDirs

\* A task whose pages are in their files, with what was there before.
Installed(q, r, prev) == q = [r EXCEPT !.step = "row", !.prev = prev]
LEMMA InstalledTask ==
  ASSUME NEW r, TaskType(r), NEW prev, DOMAIN prev = DOMAIN r.pages, \A x \in DOMAIN prev : prev[x] \in Contents,
         NEW q, Installed(q, r, prev)
  PROVE  /\ TaskType(q) /\ q.step = "row" /\ q.prev = prev
         /\ q.op = r.op /\ q.ws = r.ws /\ q.proj = r.proj
         /\ q.pages = r.pages /\ q.merge = r.merge
<1>1. DOMAIN r = Names
  BY FieldNames DEF TaskType
<1>2. /\ q.op = r.op /\ q.step = "row" /\ q.ws = r.ws /\ q.proj = r.proj
      /\ q.pages = r.pages /\ q.prev = prev /\ q.merge = r.merge
  BY <1>1 DEF Names, Installed
<1>3. Fields(q)
  BY <1>1, NamedFields DEF Installed
<1>4. TaskType(q)
  BY <1>2, <1>3 DEF TaskType, Steps
<1> QED BY <1>2, <1>4

LEMMA InstallKeeps ==
  ASSUME IInv, NEW t \in Workers, InstallFiles(t)
  PROVE  IInv'
<1>0. /\ At(t, "lock") /\ Busy(t) /\ exclusive = NULL /\ ~HalfDone(t) /\ ~Restamping(t)
      /\ UNCHANGED <<workspaces, projects, rows, torn, bodies>>
  BY DEF InstallFiles, At, HalfDone, Restamping, dbVars, scopeVars, boundVars
<1>1. t \in Tasks /\ t # Watcher
  BY <1>0, WorkersAssumption DEF At, Workers, IInv, TasksOK
<1>2. TaskType(tasks[t])
  BY <1>0, TaskOf DEF IInv
<1>3. CASE ~ensure_project_workspace(t)
  <2>1. Ends(t) /\ UNCHANGED <<files, dirs>>
    BY <1>3 DEF InstallFiles, diskVars
  <2>2. /\ TasksOK' /\ LockOK' /\ DirsOK' /\ MovesOK' /\ RowsHome' /\ MergeOK'
        /\ shared' \subseteq Workers /\ exclusive' \in Workers \cup {NULL}
        /\ exclusive' # NULL => shared' = {}
    BY <1>0, <1>1, <2>1, NoNewPages, EndsStill
  <2> QED BY <1>0, <2>1, <2>2 DEF IInv, TypeOK, ScopesOK, ScopesTypeOK, FilesHaveDirs
<1>4. CASE ensure_project_workspace(t)
  <2> DEFINE r == tasks[t]
             prev == [x \in DOMAIN r.pages |-> files[PlaceOf(t, x)]]
             q == [r EXCEPT !.step = "row", !.prev = prev]
  <2>1. /\ files' = [c \in Places |->
                   IF <<c[1], c[2]>> = Of(t) /\ c[3] \in DOMAIN r.pages THEN r.pages[c[3]] ELSE files[c]]
        /\ dirs' = dirs \cup {Of(t)}
        /\ tasks' = [tasks EXCEPT ![t] = q]
        /\ shared' = shared \cup {t} /\ UNCHANGED exclusive
    BY <1>4 DEF InstallFiles
  <2>2. /\ r.ws \in WorkspaceIds /\ r.proj \in ProjectIds /\ DOMAIN r.pages \subseteq Paths
        /\ \A x \in DOMAIN r.pages : r.pages[x] \in Contents
    BY <1>2 DEF TaskType
  <2>3. \A x \in DOMAIN r.pages : PlaceOf(t, x) \in Places /\ files[PlaceOf(t, x)] \in Contents
    BY <2>2 DEF PlaceOf, Places, IInv, TypeOK, Contents
  <2>4. DOMAIN prev = DOMAIN r.pages /\ \A x \in DOMAIN prev : prev[x] \in Contents
    BY <2>3
  <2> HIDE DEF prev
  <2>5. /\ TaskType(q) /\ q.op = r.op /\ q.step = "row" /\ q.ws = r.ws /\ q.proj = r.proj
        /\ q.pages = r.pages /\ q.prev = prev /\ q.merge = r.merge
    <3>1. Installed(q, r, prev)
      BY DEF Installed
    <3>2. TaskType(r)
      BY <1>2
    <3> HIDE DEF q, r
    <3> QED BY <2>4, <3>1, <3>2, InstalledTask
  <2> HIDE DEF q
  <2>6. /\ q.op = r.op /\ q.step = "row" /\ q.ws = r.ws /\ q.proj = r.proj
        /\ q.pages = r.pages /\ q.merge = r.merge
    BY <2>5
  <2>8. TasksOK' /\ tasks'[t] = q /\ OthersKeep(t)
    BY <1>1, <2>1, <2>5, Changed DEF Watched, IInv
  <2>9. Of(t)' = Of(t) /\ Of(t) \in Scopes /\ Of(t) = <<r.ws, r.proj>> /\ ProjectInWorkspace(r.ws, r.proj)
    BY <1>4, <2>2, <2>6, <2>8 DEF Of, Scopes, ensure_project_workspace
  <2>10. Still(t) /\ ~Restamping(t)'
    BY <1>0, <2>6, <2>8 DEF Still, HalfDone, Restamping, At
  <2>11. DirsOK' /\ MovesOK' /\ RowsHome'
    <3>1. Home(<<r.ws, r.proj>>)
      BY <2>9 DEF Home
    <3>2. PagesComeHome
      <4>1. ASSUME NEW d \in PageDirs' \ PageDirs
            PROVE  d = Of(t)
        <5>1. d \in Scopes /\ ~HasPages(d) /\ HasPages(d)'
          BY DEF PageDirs
        <5>2. PICK x \in Paths : files'[<<d[1], d[2], x>>] # NULL
          BY <5>1 DEF HasPages
        <5>3. <<d[1], d[2], x>> \in Places /\ d = <<d[1], d[2]>> /\ files[<<d[1], d[2], x>>] = NULL
          BY <5>1 DEF Places, Scopes, HasPages
        <5> QED BY <2>1, <5>2, <5>3
      <4> QED BY <1>0, <2>9, <3>1, <4>1 DEF PagesComeHome
    <3> QED BY <1>0, <2>6, <2>8, <2>10, <3>1, <3>2, StillStep
  <2>12. LockOK'
    BY <2>1, <2>8, <2>9, <2>10, LockStep
  <2>13. TypeOK'
    <3>1. files' \in [Places -> Contents]
      <4>1. \A c \in Places : files[c] \in Contents
        BY DEF IInv, TypeOK, Contents
      <4> QED BY <2>1, <2>2, <4>1
    <3>2. dirs' \subseteq Scopes
      BY <2>1, <2>9 DEF IInv, TypeOK, Scopes
    <3> QED BY <1>0, <2>1, <3>1, <3>2 DEF IInv, TypeOK, Contents, Scopes
  <2>14. FilesHaveDirs'
    BY <2>1 DEF IInv, FilesHaveDirs
  <2>15. MergeOK'
    <3>1. CASE ~Merging(t)
      BY <1>0, <1>1, <2>6, <2>8, <3>1, NoMergeLeft DEF Merging, At
    <3>2. CASE Merging(t)
      <4> DEFINE m == r.merge
      <4>1. MergeSound(t) /\ r.step = "lock"
        BY <1>0, <1>1, <3>2 DEF IInv, MergeOK, At
      <4>2. /\ MergeType(m) /\ Of(t) = m.into /\ r.op = "write" /\ m.used \subseteq Paths /\ m.into \in Scopes
            /\ ~m.skipped => \A c \in m.pages \ m.todo : c.body # NULL /\ Copied(t, c)
        BY <4>1, MergeFields DEF MergeSound
      <4>3. ASSUME NEW c, Copied(t, c)
            PROVE  Copied(t, c)'
        <5>1. PICK x \in m.used :
                IF r.step = "lock" /\ x \in DOMAIN r.pages THEN r.pages[x] = c.body
                ELSE files[<<m.into[1], m.into[2], x>>] = c.body
          BY <4>3 DEF Copied
        <5>2. /\ <<m.into[1], m.into[2], x>> \in Places
              /\ <<m.into[1], m.into[2]>> = Of(t)
          BY <4>2, <5>1 DEF Places, Scopes
        <5>3. files'[<<m.into[1], m.into[2], x>>] = c.body
          BY <2>1, <4>1, <5>1, <5>2
        <5>4. tasks'[t].merge = m /\ tasks'[t].step = "row"
          BY <2>6, <2>8
        <5> QED BY <5>1, <5>3, <5>4 DEF Copied
      <4>4. MergeSound(t)'
        BY <2>6, <2>8, <2>9, <4>2, <4>3 DEF MergeSound
      <4> QED BY <1>1, <2>8, <3>2, <4>4, MergeGoesOn
    <3> QED BY <3>1, <3>2
  <2>16. ScopesOK'
    BY <1>0 DEF IInv, ScopesOK, ScopesTypeOK
  <2> QED BY <2>8, <2>11, <2>12, <2>13, <2>14, <2>15, <2>16 DEF IInv
<1> QED BY <1>3, <1>4

LEMMA StoreRowsKeeps ==
  ASSUME IInv, NEW t \in Workers, StoreRows(t)
  PROVE  IInv'
<1> DEFINE r == tasks[t]
<1>0. /\ At(t, "row") /\ Busy(t) /\ ~HalfDone(t) /\ ~Restamping(t) /\ r.step = "row"
      /\ UNCHANGED <<workspaces, projects, files, dirs, torn, bodies>>
  BY DEF StoreRows, At, HalfDone, Restamping, diskVars, scopeVars, boundVars
<1>2. TaskType(r)
  BY <1>0, TaskOf DEF IInv
<1>3. rows' \in [ProjectIds \X Paths -> Contents]
  <2>1. \A x \in DOMAIN r.pages : r.pages[x] \in Contents
    BY <1>2 DEF TaskType
  <2>2. rows' = [c \in DOMAIN rows |-> IF c[1] = r.proj /\ c[2] \in DOMAIN r.pages THEN r.pages[c[2]] ELSE rows[c]]
    BY DEF StoreRows
  <2>3. rows \in [ProjectIds \X Paths -> Contents]
    BY DEF IInv, TypeOK, Contents
  <2> QED BY <2>1, <2>2, <2>3
<1>4. CASE r.merge = NULL
  <2>1. Ends(t)
    BY <1>4 DEF StoreRows, Returns
  <2>2. /\ TasksOK' /\ LockOK' /\ DirsOK' /\ MovesOK' /\ RowsHome' /\ MergeOK'
        /\ shared' \subseteq Workers /\ exclusive' \in Workers \cup {NULL}
        /\ exclusive' # NULL => shared' = {}
    BY <1>0, <2>1, NoNewPages, EndsStill
  <2> QED BY <1>0, <1>3, <2>2 DEF IInv, TypeOK, ScopesOK, ScopesTypeOK, FilesHaveDirs, Contents
<1>5. CASE r.merge # NULL
  <2>1. Goto(t, "copy") /\ Unlock(t)
    BY <1>5 DEF StoreRows, Returns
  <2>2. t \in Tasks
    BY <1>0, <1>5 DEF IInv, TasksOK, Workers
  <2>3. /\ TasksOK' /\ OthersKeep(t) /\ tasks'[t] = [r EXCEPT !.step = "copy"]
    BY <1>0, <1>5, <2>1, <2>2, GotoKeeps DEF IInv, Steps
  <2>4. /\ tasks'[t].step = "copy" /\ tasks'[t].op = r.op /\ tasks'[t].ws = r.ws
        /\ tasks'[t].proj = r.proj /\ tasks'[t].merge = r.merge
    BY <1>2, <1>5, <2>3, SteppedTask DEF Steps
  <2>5. Still(t) /\ ~At(t, "row")' /\ ~Restamping(t)'
    BY <1>0, <2>4 DEF Still, HalfDone, Restamping, At
  <2>6. DirsOK' /\ MovesOK' /\ RowsHome'
    BY <1>0, <2>3, <2>5, NoNewPages, StillStep
  <2>7. LockOK'
    BY <1>0, <2>1, <2>3, <2>5, UnlockStep, LockStep DEF IInv
  <2>8. TypeOK'
    BY <1>0, <1>3, <2>1, UnlockStep DEF IInv, TypeOK, Contents
  <2>9. Merging(t) /\ MergeSound(t)
    BY <1>0, <1>5, <2>2 DEF IInv, MergeOK, Merging
  <2>10. \A c : Copied(t, c) => Copied(t, c)'
    BY <1>0, <2>4 DEF Copied
  <2>11. MergeSound(t)'
    BY <1>0, <2>4, <2>9, <2>10 DEF MergeSound, Of
  <2>12. MergeOK'
    BY <2>2, <2>3, <2>9, <2>11, MergeGoesOn
  <2> QED BY <1>0, <2>3, <2>6, <2>7, <2>8, <2>12 DEF IInv, ScopesOK, ScopesTypeOK, FilesHaveDirs
<1> QED BY <1>4, <1>5

LEMMA StoreFailsKeeps ==
  ASSUME IInv, NEW t \in Workers, StoreFails(t)
  PROVE  IInv'
<1> DEFINE r == tasks[t]
<1>0. /\ At(t, "row") /\ Busy(t) /\ ~HalfDone(t) /\ ~Restamping(t) /\ r.step = "row" /\ Ends(t)
      /\ UNCHANGED <<workspaces, projects, rows, dirs, torn, bodies>>
  BY DEF StoreFails, At, HalfDone, Restamping, dbVars, scopeVars
<1>1. files' = [c \in Places |->
        IF <<c[1], c[2]>> = Of(t) /\ c[3] \in DOMAIN r.prev
           /\ (r.op = "write" \/ (r.op = "delete" /\ r.prev[c[3]] # NULL))
        THEN r.prev[c[3]] ELSE files[c]]
  BY DEF StoreFails, rollback_installed_files
<1>2. TaskType(r)
  BY <1>0, TaskOf DEF IInv
<1>3. files \in [Places -> Contents]
  BY DEF IInv, TypeOK, Contents
<1>4. files' \in [Places -> Contents]
  <2>1. \A x \in DOMAIN r.prev : r.prev[x] \in Contents
    BY <1>0, <1>2 DEF TaskType
  <2> QED BY <1>1, <1>3, <2>1
<1>5. t = Watcher => files' = files
  <2>1. SUFFICES ASSUME t = Watcher PROVE files' = files
    OBVIOUS
  <2>2. r.op = "reindex"
    BY <1>0, <2>1 DEF IInv, TasksOK
  <2> QED BY <1>1, <1>3, <2>2
<1>6. FilesHaveDirs'
  <2>1. Of(t) \in dirs
    BY <1>0 DEF IInv, LockOK
  <2> QED BY <1>0, <1>1, <2>1 DEF IInv, FilesHaveDirs
<1>7. /\ TasksOK' /\ LockOK' /\ DirsOK' /\ MovesOK' /\ RowsHome' /\ MergeOK'
      /\ shared' \subseteq Workers /\ exclusive' \in Workers \cup {NULL}
      /\ exclusive' # NULL => shared' = {}
  <2>1. exclusive = NULL /\ (r.proj \notin torn => Home(Of(t)))
    BY <1>0 DEF IInv, LockOK, RowsHome, TypeOK
  <2>2. ASSUME NEW d \in PageDirs' \ PageDirs
        PROVE  d = Of(t)
    <3>1. d \in Scopes /\ ~HasPages(d) /\ HasPages(d)'
      BY DEF PageDirs
    <3>2. PICK x \in Paths : files'[<<d[1], d[2], x>>] # NULL
      BY <3>1 DEF HasPages
    <3>3. <<d[1], d[2], x>> \in Places /\ d = <<d[1], d[2]>> /\ files[<<d[1], d[2], x>>] = NULL
      BY <3>1 DEF Places, Scopes, HasPages
    <3> QED BY <1>1, <3>2, <3>3
  <2>3. PagesComeHome
    BY <2>1, <2>2 DEF PagesComeHome, Of
  <2> QED BY <1>0, <1>5, <2>3, EndsStill
<1> QED BY <1>0, <1>4, <1>6, <1>7 DEF IInv, TypeOK, ScopesOK, ScopesTypeOK, Contents

-----------------------------------------------------------------------------
(* Moves and removals of directories.                                       *)

\* A project's row goes: it was in one workspace, and its type stays right.
LEMMA DropTypes ==
  ASSUME ScopesTypeOK, NEW p, DropProjects({p}), workspaces' = workspaces
  PROVE  /\ ScopesTypeOK'
         /\ \A d : ProjectInWorkspace(d[1], d[2])' <=> ProjectInWorkspace(d[1], d[2]) /\ d[2] # p
BY DEF ScopesTypeOK, DropProjects, ProjectInWorkspace, LiveProjects

LEMMA PurgeRowsKeeps ==
  ASSUME IInv, NEW t \in Workers, PurgeRows(t)
  PROVE  IInv'
<1> DEFINE r == tasks[t]
           p == r.proj
<1>0. /\ At(t, "purge") /\ Busy(t) /\ ~HalfDone(t) /\ ~Restamping(t) /\ r.step = "purge"
      /\ UNCHANGED <<files, dirs, torn, bodies>>
  BY DEF PurgeRows, At, HalfDone, Restamping, diskVars, boundVars
<1>1. t \in Tasks /\ t # Watcher
  BY <1>0, WorkersAssumption DEF At, Workers, IInv, TasksOK
<1>2. TaskType(r)
  BY <1>0, TaskOf DEF IInv
<1>3. CASE ~ProjectInWorkspace(r.ws, p) /\ Ends(t) /\ UNCHANGED dbVars
  <2>1. /\ TasksOK' /\ LockOK' /\ DirsOK' /\ MovesOK' /\ RowsHome' /\ MergeOK'
        /\ shared' \subseteq Workers /\ exclusive' \in Workers \cup {NULL}
        /\ exclusive' # NULL => shared' = {}
    BY <1>0, <1>1, <1>3, NoNewPages, EndsStill DEF dbVars, scopeVars
  <2> QED BY <1>0, <1>3, <2>1 DEF IInv, TypeOK, ScopesOK, ScopesTypeOK, FilesHaveDirs, dbVars, scopeVars
<1>4. ASSUME PurgeProject(r.ws, p), Goto(t, "rmdir"), UNCHANGED lockVars,
             rows' = [c \in DOMAIN rows |-> IF c[1] = p THEN NULL ELSE rows[c]]
      PROVE  IInv'
  <2>1. DropProjects({p}) /\ ProjectInWorkspace(r.ws, p) /\ UNCHANGED <<workspaces, shared, exclusive>>
    BY <1>4 DEF PurgeProject, lockVars
  <2>2. /\ ScopesTypeOK'
        /\ \A d : ProjectInWorkspace(d[1], d[2])' <=> ProjectInWorkspace(d[1], d[2]) /\ d[2] # p
    BY <2>1, DropTypes DEF IInv, ScopesOK
  <2>3. TasksOK' /\ OthersKeep(t) /\ tasks'[t] = [r EXCEPT !.step = "rmdir"]
    BY <1>0, <1>1, <1>4, GotoKeeps DEF IInv, Steps
  <2>4. /\ tasks'[t].step = "rmdir" /\ tasks'[t].op = r.op /\ tasks'[t].ws = r.ws
        /\ tasks'[t].proj = p /\ tasks'[t].merge = r.merge
    BY <1>2, <2>3, SteppedTask DEF Steps
  <2>5. At(t, "rmdir")' /\ Of(t)' = <<r.ws, p>>
    <3>1. TaskType(tasks'[t])
      BY <1>2, <2>3, SteppedTask DEF Steps
    <3> QED BY <2>4, <3>1, TaskIsBusy DEF At, Busy, Of
  <2>6. \A u \in Workers \ {t} : tasks'[u] = tasks[u]
    BY <2>3 DEF OthersKeep
  <2>7. ASSUME NEW d \in Scopes, Home(d)
        PROVE  Home(d)'
    <3>1. CASE \E u \in Tasks : At(u, "rmdir") /\ Of(u) = d
      <4>1. PICK u \in Tasks : At(u, "rmdir") /\ Of(u) = d
        BY <3>1
      <4>2. u # t /\ u \in Workers
        BY <1>0, <4>1 DEF At, Workers
      <4> QED BY <2>6, <4>1, <4>2 DEF Home, At, Busy, Of
    <3>2. CASE ProjectInWorkspace(d[1], d[2]) /\ d[2] # p
      BY <2>2, <3>2 DEF Home
    <3>3. CASE ProjectInWorkspace(d[1], d[2]) /\ d[2] = p
      <4>1. d[1] = r.ws /\ d = <<d[1], d[2]>>
        BY <2>1, <3>3 DEF ProjectInWorkspace, Scopes
      <4> QED BY <1>1, <2>5, <3>3, <4>1 DEF Home
    <3> QED BY <2>7, <3>1, <3>2, <3>3 DEF Home
  <2>8. \A u \in Workers : Restamping(u)' \/ At(u, "restamp")' \/ At(u, "row")' => tasks'[u] = tasks[u]
    BY <2>4, <2>6 DEF Restamping, At, Busy
  <2>9. \A u \in Workers : At(u, "restamp") => At(u, "restamp")' /\ tasks'[u] = tasks[u]
    BY <1>0, <2>6 DEF At, Busy
  <2>10. PageDirs' = PageDirs /\ PageDirs \subseteq Scopes
    BY <1>0 DEF PageDirs, HasPages
  <2>11. DirsOK'
    <3> SUFFICES ASSUME NEW d \in PageDirs, d[2] \notin torn
                 PROVE  Home(d)' \/ \E u \in Tasks : At(u, "restamp")' /\ d = Target(u)'
      BY <1>0, <2>10 DEF DirsOK
    <3>1. Home(d) \/ \E u \in Tasks : At(u, "restamp") /\ d = Target(u)
      BY DEF IInv, DirsOK
    <3> QED BY <2>7, <2>9, <2>10, <3>1 DEF Target, Workers
  <2>11a. ASSUME NEW u \in Workers, tasks'[u] = tasks[u], Busy(u), Home(Of(u))
           PROVE  Home(Of(u))'
    <3>1. Of(u) \in Scopes /\ Of(u)' = Of(u)
      <4>1. TaskType(tasks[u])
        BY <2>11a, TaskOf DEF IInv
      <4> QED BY <2>11a, <4>1 DEF Of, Scopes, TaskType
    <3>2. ASSUME NEW e \in Scopes, e = Of(u), Home(e) PROVE Home(Of(u))'
      <4>1. Home(e)'
        BY <2>7, <3>2
      <4>2. e = Of(u)'
        BY <3>1, <3>2
      <4> QED BY <4>1, <4>2 DEF Home
    <3> QED BY <2>11a, <3>1, <3>2
  <2>12. MovesOK' /\ RowsHome'
    <3>1. ASSUME NEW u \in Tasks, Restamping(u)'
          PROVE  /\ Of(u)' \notin PageDirs'
                 /\ At(u, "restamp")' /\ Target(u)' \in PageDirs' /\ tasks'[u].proj \notin torn' => Home(Of(u))'
      <4>1. u \in Workers /\ tasks'[u] = tasks[u] /\ Restamping(u) /\ Busy(u)
        BY <2>8, <3>1 DEF Workers, Restamping, At, Busy
      <4>2. Of(u)' = Of(u) /\ Target(u)' = Target(u) /\ (At(u, "restamp")' <=> At(u, "restamp"))
        BY <4>1 DEF Of, Target, At, Busy
      <4>3. /\ Of(u) \notin PageDirs
            /\ At(u, "restamp") /\ Target(u) \in PageDirs /\ tasks[u].proj \notin torn => Home(Of(u))
        BY <4>1 DEF IInv, MovesOK
      <4> QED BY <1>0, <2>10, <2>11a, <4>1, <4>2, <4>3
    <3>2. MovesOK'
      BY <3>1 DEF MovesOK, Home, Of, Target, Restamping
    <3>3. ASSUME NEW u \in Workers, At(u, "row")', tasks'[u].proj \notin torn'
          PROVE  Home(Of(u))'
      <4>1. tasks'[u] = tasks[u] /\ Busy(u) /\ Home(Of(u))
        BY <1>0, <2>8, <3>3 DEF At, Busy, IInv, RowsHome
      <4> QED BY <2>11a, <4>1
    <3>4. RowsHome'
      BY <3>3 DEF RowsHome, Home, Of
    <3> QED BY <3>2, <3>4
  <2>13. LockOK'
    <3>1. ~At(t, "row")' /\ ~Restamping(t)'
      BY <2>4 DEF Restamping, At
    <3> QED BY <1>0, <2>1, <2>3, <3>1, LockStep
  <2>14. TypeOK'
    <3>1. rows' \in [ProjectIds \X Paths -> Contents]
      BY <1>4 DEF IInv, TypeOK, Contents
    <3> QED BY <1>0, <2>1, <3>1 DEF IInv, TypeOK, Contents
  <2>15. MergeOK'
    <3>1. CASE ~Merging(t)
      BY <1>0, <1>1, <2>3, <2>4, <3>1, NoMergeLeft DEF Merging
    <3>2. CASE Merging(t)
      <4>1. MergeSound(t)
        BY <1>1, <3>2 DEF IInv, MergeOK
      <4>2. MergeSound(t)'
        BY <2>4, <4>1 DEF MergeSound
      <4> QED BY <1>1, <2>3, <3>2, <4>2, MergeGoesOn
    <3> QED BY <3>1, <3>2
  <2> QED BY <1>0, <2>2, <2>3, <2>11, <2>12, <2>13, <2>14, <2>15 DEF IInv, ScopesOK, FilesHaveDirs
<1> QED BY <1>3, <1>4 DEF PurgeRows

\* Whoever has the exclusive side is alone with the directories.
LEMMA Alone ==
  ASSUME IInv, shared = {}
  PROVE  \A u \in Workers : ~At(u, "row")
BY DEF IInv, LockOK

LEMMA OneMover ==
  ASSUME IInv, NEW t \in Workers \cup {NULL}, exclusive = t
  PROVE  \A u \in Workers : Restamping(u) => u = t
BY DEF IInv, LockOK

\* The types at the end of a move or removal.
LEMMA RelocatedTypes ==
  ASSUME IInv, NEW from \in Scopes, NEW to \in Scopes, RenameDir(from, to), UNCHANGED rows
  PROVE  /\ files' \in [Places -> Contents] /\ dirs' \subseteq Scopes
         /\ rows' \in [ProjectIds \X Paths -> Contents]
         /\ \A c \in Places : files'[c] # NULL => <<c[1], c[2]>> \in dirs'
<1>1. files \in [Places -> Contents] /\ dirs \subseteq Scopes /\ rows \in [ProjectIds \X Paths -> Contents]
  BY DEF IInv, TypeOK, Contents, Scopes
<1>2. \A c \in Places : <<from[1], from[2], c[3]>> \in Places
  BY DEF Places, Scopes
<1>3. files' \in [Places -> Contents]
  BY <1>1, <1>2 DEF RenameDir, Contents
<1>4. ASSUME NEW c \in Places, files'[c] # NULL
      PROVE  <<c[1], c[2]>> \in dirs'
  <2>1. CASE <<c[1], c[2]>> = to
    BY <2>1 DEF RenameDir
  <2>2. CASE <<c[1], c[2]>> # to
    <3>1. <<c[1], c[2]>> # from /\ files[c] # NULL
      BY <1>4, <2>2 DEF RenameDir
    <3> QED BY <3>1 DEF RenameDir, IInv, FilesHaveDirs
  <2> QED BY <2>1, <2>2
<1>5. dirs' \subseteq Scopes
  BY <1>1 DEF RenameDir
<1> QED BY <1>1, <1>3, <1>4, <1>5

\* The pages go where the directory goes.
LEMMA RenamedPages ==
  ASSUME IInv, NEW from \in Scopes, NEW to \in Scopes, RenameDir(from, to), NEW d \in PageDirs'
  PROVE  IF d = to THEN from \in PageDirs ELSE d \in PageDirs /\ d # from
<1>1. d \in Scopes /\ d = <<d[1], d[2]>> /\ HasPages(d)'
  BY DEF PageDirs, Scopes
<1>2. PICK x \in Paths : files'[<<d[1], d[2], x>>] # NULL
  BY <1>1 DEF HasPages
<1>3. <<d[1], d[2], x>> \in Places
  BY <1>1 DEF Scopes, Places
<1>4. CASE d = to
  <2>1. files[<<from[1], from[2], x>>] # NULL
    BY <1>1, <1>2, <1>3, <1>4 DEF RenameDir
  <2> QED BY <1>4, <2>1 DEF PageDirs, HasPages
<1>5. CASE d # to
  <2>1. d # from /\ files[<<d[1], d[2], x>>] # NULL
    BY <1>1, <1>2, <1>3, <1>5 DEF RenameDir
  <2> QED BY <1>1, <1>5, <2>1 DEF PageDirs, HasPages
<1> QED BY <1>4, <1>5

\* A directory that is not there has no pages.
LEMMA PagesHaveDirs ==
  ASSUME IInv
  PROVE  PageDirs \subseteq dirs
<1> SUFFICES ASSUME NEW d \in PageDirs PROVE d \in dirs
  OBVIOUS
<1>1. d \in Scopes /\ d = <<d[1], d[2]>> /\ HasPages(d)
  BY DEF PageDirs, Scopes
<1>2. PICK x \in Paths : files[<<d[1], d[2], x>>] # NULL
  BY <1>1 DEF HasPages
<1>3. <<d[1], d[2], x>> \in Places
  BY <1>1 DEF Scopes, Places
<1>4. <<d[1], d[2]>> \in dirs
  BY <1>2, <1>3 DEF IInv, FilesHaveDirs
<1> QED BY <1>1, <1>4

LEMMA RemoveKeeps ==
  ASSUME IInv, NEW t \in Workers, remove_project_dir(t)
  PROVE  IInv'
<1>0. /\ At(t, "rmdir") /\ Busy(t) /\ shared = {} /\ exclusive = NULL
      /\ tasks' = [tasks EXCEPT ![t] = Idle] /\ Unlock(t)
      /\ files' = [c \in Places |-> IF <<c[1], c[2]>> = Of(t) THEN NULL ELSE files[c]]
      /\ dirs' = dirs \ {Of(t)}
      /\ UNCHANGED <<workspaces, projects, rows, torn, bodies>>
  BY DEF remove_project_dir, NobodyElse, Ends, At, dbVars, scopeVars, boundVars
<1>1. t \in Tasks
  BY <1>0 DEF At, Workers, IInv, TasksOK
<1>2. TasksOK' /\ OthersKeep(t) /\ tasks'[t] = Idle
  BY <1>0, EndsKeeps DEF IInv
<1>3. \A u \in Workers : ~At(u, "row") /\ ~Restamping(u)
  BY <1>0, Alone, OneMover, WorkersAssumption DEF Workers
<1>4. \A u \in Workers : ~At(u, "row")' /\ ~Restamping(u)' /\ ~At(u, "restamp")'
  BY <1>2, <1>3 DEF Restamping, At, Busy, OthersKeep
<1>5. LockOK' /\ MovesOK' /\ RowsHome'
  BY <1>4 DEF LockOK, MovesOK, RowsHome, Workers
<1>6. DirsOK'
  <2> SUFFICES ASSUME NEW d \in PageDirs', d[2] \notin torn
               PROVE  Home(d)'
    BY <1>0 DEF DirsOK
  <2>1. Home(d) /\ d # Of(t)
    <3>1. d \in Scopes /\ d = <<d[1], d[2]>> /\ HasPages(d)'
      BY DEF PageDirs, Scopes
    <3>2. PICK x \in Paths : files'[<<d[1], d[2], x>>] # NULL
      BY <3>1 DEF HasPages
    <3>3. <<d[1], d[2], x>> \in Places
      BY <3>1 DEF Scopes, Places
    <3>4. d # Of(t) /\ files[<<d[1], d[2], x>>] # NULL
      BY <1>0, <3>1, <3>2, <3>3
    <3>5. d \in PageDirs
      BY <3>1, <3>4 DEF PageDirs, HasPages
    <3> QED BY <1>0, <1>3, <3>4, <3>5 DEF IInv, DirsOK, Workers, Restamping
  <2>2. CASE ProjectInWorkspace(d[1], d[2])
    BY <1>0, <2>2 DEF Home, ProjectInWorkspace, LiveProjects
  <2>3. ASSUME NEW u \in Tasks, At(u, "rmdir"), Of(u) = d
        PROVE  Home(d)'
    <3>1. u # t
      BY <2>1, <2>3
    <3>2. tasks'[u] = tasks[u]
      BY <1>2, <3>1 DEF OthersKeep, Workers
    <3> QED BY <2>3, <3>2 DEF Home, At, Busy, Of
  <2> QED BY <2>1, <2>2, <2>3 DEF Home
<1>7. FilesHaveDirs'
  BY <1>0 DEF IInv, FilesHaveDirs
<1>8. MergeOK'
  BY <1>0, <1>1, <1>2, NoMergeLeft DEF Merging, Busy
<1>9. TypeOK'
  BY <1>0, UnlockStep DEF IInv, TypeOK
<1> QED BY <1>0, <1>2, <1>5, <1>6, <1>7, <1>8, <1>9 DEF IInv, ScopesOK, ScopesTypeOK

\* A task on its way to restamp the rows of the directory it moved.
LEMMA MovingTask ==
  ASSUME TasksOK, NEW t \in Tasks, At(t, "mvdir"), NEW s \in {"restamp", "unmoved"}, Goto(t, s)
  PROVE  /\ TasksOK' /\ OthersKeep(t) /\ At(t, s)'
         /\ Of(t)' = Of(t) /\ Target(t)' = Target(t) /\ tasks'[t].proj = tasks[t].proj
         /\ tasks'[t].merge = tasks[t].merge /\ Of(t) \in Scopes /\ Target(t) \in Scopes
<1> DEFINE r == tasks[t]
           q == [r EXCEPT !.step = s]
<1>1. t \in Workers /\ t # Watcher /\ Busy(t) /\ r.step = "mvdir"
  BY WorkersAssumption DEF Workers, At
<1>2. TaskType(r)
  BY <1>1, TaskOf
<1>3. q = [op |-> r.op, step |-> s, ws |-> r.ws, proj |-> r.proj,
           pages |-> r.pages, prev |-> r.prev, merge |-> r.merge]
  BY <1>2 DEF TaskType, Fields
<1>4. tasks' = [tasks EXCEPT ![t] = q]
  BY DEF Goto
<1> HIDE DEF q
<1>5. /\ q.op = r.op /\ q.step = s /\ q.ws = r.ws /\ q.proj = r.proj
      /\ q.pages = r.pages /\ q.prev = r.prev /\ q.merge = r.merge
  BY <1>3
<1>6. Fields(q)
  BY <1>3, <1>5 DEF Fields
<1>7. TaskType(q)
  BY <1>1, <1>2, <1>5, <1>6 DEF TaskType, Steps
<1>8. TasksOK' /\ tasks'[t] = q /\ OthersKeep(t)
  BY <1>1, <1>4, <1>7, Changed DEF Watched
<1>9. At(t, s)'
  BY <1>5, <1>7, <1>8, TaskIsBusy DEF At, Busy
<1>10. Of(t) \in Scopes /\ Target(t) \in Scopes
  BY <1>1, <1>2 DEF Of, Target, Scopes, TaskType
<1> QED BY <1>5, <1>8, <1>9, <1>10 DEF Of, Target

LEMMA MoveDirKeeps ==
  ASSUME IInv, NEW t \in Workers, MoveDir(t)
  PROVE  IInv'
<1> DEFINE from == Of(t)
           to == Target(t)
<1>0. /\ At(t, "mvdir") /\ Busy(t) /\ ~HalfDone(t) /\ ~Restamping(t) /\ shared = {} /\ exclusive = NULL
      /\ UNCHANGED <<workspaces, projects, rows, torn, bodies>>
  BY DEF MoveDir, NobodyElse, At, HalfDone, Restamping, dbVars, scopeVars, boundVars
<1>1. t \in Tasks /\ t # Watcher
  BY <1>0, WorkersAssumption DEF At, Workers, IInv, TasksOK
<1>2. CASE to \in dirs
  <2>1. Ends(t) /\ UNCHANGED <<files, dirs>>
    BY <1>2 DEF MoveDir, diskVars, Target
  <2>2. /\ TasksOK' /\ LockOK' /\ DirsOK' /\ MovesOK' /\ RowsHome' /\ MergeOK'
        /\ shared' \subseteq Workers /\ exclusive' \in Workers \cup {NULL}
        /\ exclusive' # NULL => shared' = {}
    BY <1>0, <1>1, <2>1, NoNewPages, EndsStill
  <2> QED BY <1>0, <2>1, <2>2 DEF IInv, TypeOK, ScopesOK, ScopesTypeOK, FilesHaveDirs
<1>3. ASSUME to \notin dirs, NEW s \in {"restamp", "unmoved"}, Goto(t, s), exclusive' = t, UNCHANGED shared,
             IF s = "restamp" THEN from \in dirs /\ RenameDir(from, to) ELSE from \notin dirs /\ UNCHANGED <<files, dirs>>
      PROVE  IInv'
  <2>2. /\ TasksOK' /\ OthersKeep(t) /\ At(t, s)'
        /\ Of(t)' = from /\ Target(t)' = to /\ tasks'[t].proj = tasks[t].proj
        /\ tasks'[t].merge = tasks[t].merge /\ from \in Scopes /\ to \in Scopes
    BY <1>0, <1>1, <1>3, MovingTask DEF IInv
  <2>3. \A u \in Workers : ~At(u, "row") /\ ~Restamping(u)
    BY <1>0, Alone, OneMover, WorkersAssumption DEF Workers
  <2>4. \A u \in Workers : u # t => tasks'[u] = tasks[u]
    BY <2>2 DEF OthersKeep
  <2>5. \A u \in Workers : /\ ~At(u, "row")' /\ (Restamping(u)' => u = t)
                           /\ At(u, "rmdir") => tasks'[u] = tasks[u]
    BY <1>0, <2>2, <2>3, <2>4 DEF Restamping, At, Busy
  <2>6. ASSUME NEW d, Home(d)
        PROVE  Home(d)'
    BY <1>0, <2>5, <2>6 DEF Home, At, Busy, Of, ProjectInWorkspace, LiveProjects, Workers
  <2>7. /\ files' \in [Places -> Contents] /\ dirs' \subseteq Scopes
        /\ rows' \in [ProjectIds \X Paths -> Contents] /\ FilesHaveDirs'
    <3>1. CASE s = "restamp"
      BY <1>0, <1>3, <2>2, <3>1, RelocatedTypes DEF FilesHaveDirs
    <3>2. CASE s # "restamp"
      BY <1>0, <1>3, <3>2 DEF IInv, TypeOK, Contents, Scopes, FilesHaveDirs
    <3> QED BY <3>1, <3>2
  <2>8. \A d \in PageDirs : Home(d) \/ d[2] \in torn
    BY <2>3 DEF IInv, DirsOK, Workers, Restamping
  <2>9. from \notin PageDirs'
        /\ \A d \in PageDirs' : IF d = to THEN s = "restamp" /\ from \in PageDirs ELSE d \in PageDirs
    <3>1. CASE s = "restamp"
      <4>1. from # to /\ from \in Scopes /\ to \in Scopes /\ RenameDir(from, to)
        BY <1>3, <2>2, <3>1
      <4> HIDE DEF from, to
      <4>2. ASSUME NEW d \in PageDirs'
            PROVE  IF d = to THEN from \in PageDirs ELSE d \in PageDirs /\ d # from
        BY <4>1, RenamedPages
      <4> QED BY <3>1, <4>1, <4>2
    <3>2. CASE s # "restamp"
      <4>1. PageDirs' = PageDirs /\ from \notin PageDirs /\ to \notin PageDirs
        BY <1>3, <3>2, PagesHaveDirs DEF PageDirs, HasPages
      <4> QED BY <4>1
    <3> QED BY <3>1, <3>2
  <2>10. DirsOK'
    <3> SUFFICES ASSUME NEW d \in PageDirs', d[2] \notin torn
                 PROVE  Home(d)' \/ (s = "restamp" /\ d = to)
      BY <1>0, <1>1, <2>2 DEF DirsOK
    <3> QED BY <2>6, <2>8, <2>9
  <2>11. MovesOK' /\ RowsHome'
    <3>1. ASSUME to \in PageDirs', tasks[t].proj \notin torn
          PROVE  Home(from)'
      <4>1. from \in PageDirs /\ from[2] = tasks[t].proj
        BY <2>9, <3>1 DEF Of
      <4>2. Home(from)
        BY <2>8, <3>1, <4>1
      <4>3. ASSUME NEW e, e = Of(t)
            PROVE  Home(Of(t))'
        <5>1. Home(e)'
          BY <2>6, <4>2, <4>3
        <5>2. e = Of(t)'
          BY <2>2, <4>3
        <5> QED BY <5>1, <5>2 DEF Home
      <4> QED BY <2>2, <4>3 DEF Home
    <3>2. \A u \in Tasks : Restamping(u)' \/ At(u, "restamp")' => u = t
      BY <2>5 DEF Workers, Restamping
    <3>3. Home(from)' <=> Home(Of(t))'
      BY <2>2 DEF Home
    <3>4. MovesOK'
      BY <1>0, <2>2, <2>9, <3>1, <3>2, <3>3 DEF MovesOK
    <3> QED BY <2>5, <3>4 DEF RowsHome
  <2>12. LockOK'
    BY <1>3, <2>5 DEF LockOK
  <2>13. TypeOK'
    BY <1>0, <1>3, <2>7 DEF TypeOK, Contents, Scopes, IInv
  <2>14. MergeOK'
    <3>1. ~Merging(t)
      BY <1>0, <1>1 DEF At, IInv, MergeOK, MergeSound
    <3> QED BY <1>0, <1>1, <2>2, <3>1, NoMergeLeft DEF Merging
  <2> QED BY <1>0, <2>2, <2>7, <2>10, <2>11, <2>12, <2>13, <2>14 DEF IInv, ScopesOK, ScopesTypeOK
<1>4. CASE to \notin dirs
  <2>1. exclusive' = t /\ UNCHANGED shared
    BY <1>4 DEF MoveDir, Target
  <2>2. CASE from \in dirs /\ RenameDir(from, to) /\ Goto(t, "restamp")
    BY <1>3, <1>4, <2>1, <2>2
  <2>3. CASE from \notin dirs /\ UNCHANGED <<files, dirs>> /\ Goto(t, "unmoved")
    BY <1>3, <1>4, <2>1, <2>3
  <2> QED BY <1>4, <2>2, <2>3 DEF MoveDir, Target, diskVars
<1> QED BY <1>2, <1>4


LEMMA RestampTypes ==
  ASSUME ScopesTypeOK, NEW p, NEW from, NEW to \in WorkspaceIds, MoveProjectWorkspace(p, from, to)
  PROVE  /\ ScopesTypeOK' /\ ProjectInWorkspace(from, p)
         /\ ProjectInWorkspace(to, p)'
         /\ \A d : d[2] # p /\ ProjectInWorkspace(d[1], d[2]) => ProjectInWorkspace(d[1], d[2])'
<1> DEFINE row == [projects[p] EXCEPT !.ws = to]
<1>1. /\ p \in ProjectIds /\ projects[p] \in ProjectRows /\ projects[p].ws = from
      /\ projects' = [projects EXCEPT ![p] = row] /\ workspaces' = workspaces
      /\ projects \in [ProjectIds -> ProjectRows \cup {Unborn, Gone}]
      /\ workspaces \in [WorkspaceIds -> WsNames \cup {Unborn, Gone}]
  BY DEF MoveProjectWorkspace, ProjectInWorkspace, LiveProjects, ScopesTypeOK
<1>2. row \in ProjectRows /\ row.ws = to
  BY <1>1 DEF ProjectRows
<1> HIDE DEF row
<1>3. row \notin {Unborn, Gone}
  BY <1>2, NamesAssumption
<1>4. projects' \in [ProjectIds -> ProjectRows \cup {Unborn, Gone}] /\ projects'[p] = row
  BY <1>1, <1>2
<1>5. \A q \in ProjectIds : q # p => projects'[q] = projects[q]
  BY <1>1
<1>6. ScopesTypeOK'
  BY <1>1, <1>4 DEF ScopesTypeOK
<1>7. ProjectInWorkspace(to, p)'
  BY <1>1, <1>2, <1>3, <1>4 DEF ProjectInWorkspace, LiveProjects
<1>8. ASSUME NEW d, d[2] # p, ProjectInWorkspace(d[1], d[2])
      PROVE  ProjectInWorkspace(d[1], d[2])'
  BY <1>5, <1>8 DEF ProjectInWorkspace, LiveProjects
<1> QED BY <1>6, <1>7, <1>8 DEF MoveProjectWorkspace

\* When the mover is done, nobody is moving a directory.
LEMMA MoverEnds ==
  ASSUME IInv, NEW t \in Workers, Restamping(t), Ends(t)
  PROVE  /\ TasksOK' /\ OthersKeep(t) /\ tasks'[t] = Idle /\ LockOK' /\ MovesOK' /\ RowsHome' /\ MergeOK'
         /\ t \in Tasks /\ \A u \in Workers : ~Restamping(u)' /\ ~At(u, "row")' /\ (Restamping(u) => u = t)
         /\ \A u \in Tasks : At(u, "rmdir") => At(u, "rmdir")' /\ Of(u)' = Of(u)
         /\ shared' \subseteq Workers /\ exclusive' \in Workers \cup {NULL}
         /\ exclusive' # NULL => shared' = {}
<1>0. tasks' = [tasks EXCEPT ![t] = Idle] /\ Unlock(t) /\ Busy(t) /\ exclusive = t
  BY DEF Ends, Restamping, At, IInv, LockOK
<1>1. TasksOK' /\ OthersKeep(t) /\ tasks'[t] = Idle
  BY <1>0, EndsKeeps DEF IInv
<1>2. t \in Tasks
  BY DEF Restamping, At, Workers, IInv, TasksOK
<1>3. shared = {}
  BY <1>0, <1>2, WorkersAssumption DEF IInv, TypeOK
<1>4. \A u \in Workers : ~At(u, "row") /\ (Restamping(u) => u = t)
  BY <1>0, <1>3, Alone, OneMover
<1>5. \A u \in Workers : ~Restamping(u)' /\ ~At(u, "restamp")' /\ ~At(u, "row")'
  BY <1>1, <1>4 DEF Restamping, At, Busy, OthersKeep
<1>6. LockOK' /\ MovesOK' /\ RowsHome'
  BY <1>5 DEF LockOK, MovesOK, RowsHome, Workers
<1>7. MergeOK'
  BY <1>0, <1>1, <1>2, NoMergeLeft DEF Merging, Busy
<1>8. \A u \in Tasks : At(u, "rmdir") => At(u, "rmdir")' /\ Of(u)' = Of(u)
  BY <1>1 DEF Restamping, At, Busy, OthersKeep, Of, Workers
<1> QED BY <1>0, <1>1, <1>2, <1>4, <1>5, <1>6, <1>7, <1>8, UnlockStep DEF IInv

LEMMA RestampKeeps ==
  ASSUME IInv, NEW t \in Workers, move_project_workspace(t)
  PROVE  IInv'
<1> DEFINE r == tasks[t]
           p == r.proj
<1>0. /\ Restamping(t) /\ r.step \in {"restamp", "unmoved"} /\ Busy(t) /\ Ends(t)
      /\ MoveProjectWorkspace(p, r.ws, r.prev)
      /\ UNCHANGED <<rows, files, dirs, torn, bodies>>
  BY DEF move_project_workspace, Restamping, At, diskVars, boundVars
<1>1. TaskType(r)
  BY <1>0, TaskOf DEF IInv
<1>2. r.prev \in WorkspaceIds /\ Of(t) = <<r.ws, p>> /\ Target(t) = <<r.prev, p>>
  BY <1>0, <1>1 DEF TaskType, Of, Target
<1>3. /\ ScopesTypeOK' /\ ProjectInWorkspace(r.ws, p)
      /\ \A d : d = Target(t) => ProjectInWorkspace(d[1], d[2])'
      /\ \A d : d[2] # p /\ ProjectInWorkspace(d[1], d[2]) => ProjectInWorkspace(d[1], d[2])'
  <2>1. ASSUME NEW to \in WorkspaceIds, NEW q, NEW w, to = r.prev, q = p, w = r.ws
        PROVE  /\ ScopesTypeOK' /\ ProjectInWorkspace(w, q) /\ ProjectInWorkspace(to, q)'
               /\ \A d : d[2] # q /\ ProjectInWorkspace(d[1], d[2]) => ProjectInWorkspace(d[1], d[2])'
    <3>1. MoveProjectWorkspace(q, w, to)
      BY <1>0, <2>1
    <3> QED BY <3>1, RestampTypes DEF IInv, ScopesOK
  <2>2. ASSUME NEW d, d = Target(t)
        PROVE  ProjectInWorkspace(d[1], d[2])'
    <3>1. d[1] \in WorkspaceIds /\ d[1] = r.prev /\ d[2] = p
      BY <1>2, <2>2
    <3> QED BY <2>1, <3>1
  <2> QED BY <1>2, <2>1, <2>2
<1>4. /\ TasksOK' /\ LockOK' /\ MovesOK' /\ RowsHome' /\ MergeOK' /\ t \in Tasks
      /\ \A u \in Workers : Restamping(u) => u = t
      /\ \A u \in Tasks : At(u, "rmdir") => At(u, "rmdir")' /\ Of(u)' = Of(u)
      /\ shared' \subseteq Workers /\ exclusive' \in Workers \cup {NULL}
      /\ exclusive' # NULL => shared' = {}
  BY <1>0, MoverEnds
<1>5. DirsOK'
  <2> SUFFICES ASSUME NEW d \in PageDirs, d[2] \notin torn
               PROVE  Home(d)'
    BY <1>0 DEF DirsOK, PageDirs, HasPages
  <2>1. d \in Scopes /\ d # Of(t)
    BY <1>0, <1>4 DEF IInv, MovesOK, PageDirs
  <2>2. Home(d) \/ d = Target(t)
    BY <1>4 DEF IInv, DirsOK, Workers, Restamping
  <2>3. CASE d = Target(t)
    BY <1>3, <2>3 DEF Home
  <2>4. CASE \E u \in Tasks : At(u, "rmdir") /\ Of(u) = d
    BY <1>4, <2>4 DEF Home
  <2>5. CASE ProjectInWorkspace(d[1], d[2])
    <3>1. d[2] # p
      BY <1>2, <1>3, <2>1, <2>5 DEF ProjectInWorkspace, Scopes
    <3> QED BY <1>3, <2>5, <3>1 DEF Home
  <2> QED BY <2>2, <2>3, <2>4, <2>5 DEF Home
<1> QED BY <1>0, <1>3, <1>4, <1>5 DEF IInv, TypeOK, ScopesOK, FilesHaveDirs

LEMMA MoveBackKeeps ==
  ASSUME IInv, NEW t \in Workers, MoveBack(t)
  PROVE  IInv'
<1> DEFINE home == Of(t)
           to == Target(t)
<1>0. /\ Restamping(t) /\ Busy(t) /\ tasks[t].step \in {"restamp", "unmoved"} /\ Ends(t)
      /\ UNCHANGED <<workspaces, projects, rows, bodies>>
  BY DEF MoveBack, Restamping, At, dbVars, scopeVars
<1>1. TaskType(tasks[t])
  BY <1>0, TaskOf DEF IInv
<1>2. to \in Scopes /\ home \in Scopes /\ to[2] = tasks[t].proj /\ home[2] = tasks[t].proj
  BY <1>0, <1>1 DEF TaskType, Of, Target, Scopes
<1>3. /\ TasksOK' /\ LockOK' /\ MovesOK' /\ RowsHome' /\ MergeOK' /\ t \in Tasks
      /\ \A u \in Workers : Restamping(u) => u = t
      /\ \A u \in Tasks : At(u, "rmdir") => At(u, "rmdir")' /\ Of(u)' = Of(u)
      /\ shared' \subseteq Workers /\ exclusive' \in Workers \cup {NULL}
      /\ exclusive' # NULL => shared' = {}
  BY <1>0, MoverEnds
<1>4. ASSUME NEW d, Home(d)
      PROVE  Home(d)'
  BY <1>0, <1>3, <1>4 DEF Home, ProjectInWorkspace, LiveProjects
<1>5. \A d \in PageDirs : d[2] \notin torn => Home(d) \/ (At(t, "restamp") /\ d = to)
  BY <1>3 DEF IInv, DirsOK, Workers, Restamping
<1>6. ASSUME files' \in [Places -> Contents], dirs' \subseteq Scopes, FilesHaveDirs',
             \A d \in PageDirs' : d[2] \notin torn' => Home(d)
      PROVE  IInv'
  <2>1. DirsOK'
    BY <1>4, <1>6 DEF DirsOK
  <2>2. TypeOK'
    BY <1>0, <1>3, <1>6 DEF IInv, TypeOK, Contents, Scopes
  <2> QED BY <1>0, <1>3, <1>6, <2>1, <2>2 DEF IInv, ScopesOK, ScopesTypeOK
<1>7. CASE UNCHANGED <<files, dirs>> /\ (At(t, "unmoved") \/ torn' = torn \cup {tasks[t].proj}) /\ torn \subseteq torn'
  <2>1. /\ files' \in [Places -> Contents] /\ dirs' \subseteq Scopes /\ FilesHaveDirs'
        /\ PageDirs' = PageDirs
    BY <1>7 DEF IInv, TypeOK, Contents, Scopes, FilesHaveDirs, PageDirs, HasPages
  <2>2. ASSUME NEW d \in PageDirs, d[2] \notin torn'
        PROVE  Home(d)
    <3>1. d[2] \notin torn /\ ~(At(t, "restamp") /\ d = to)
      BY <1>2, <1>7, <2>2 DEF At
    <3> QED BY <1>5, <3>1
  <2> QED BY <1>6, <2>1, <2>2
<1>8. CASE At(t, "restamp") /\ RenameDir(to, home) /\ UNCHANGED torn
  <2>1. files' \in [Places -> Contents] /\ dirs' \subseteq Scopes /\ FilesHaveDirs'
    BY <1>0, <1>2, <1>8, RelocatedTypes DEF FilesHaveDirs
  <2>2. to \in PageDirs /\ tasks[t].proj \notin torn => Home(home)
    BY <1>3, <1>8 DEF IInv, MovesOK
  <2>3. ASSUME NEW d \in PageDirs'
        PROVE  IF d = home THEN to \in PageDirs ELSE d \in PageDirs /\ d # to
    <3> HIDE DEF home, to
    <3> QED BY <1>2, <1>8, RenamedPages
  <2>4. ASSUME NEW d \in PageDirs', d[2] \notin torn'
        PROVE  Home(d)
    <3>1. CASE d = home
      <4>1. Home(home)
        BY <1>2, <1>8, <2>2, <2>3, <2>4, <3>1
      <4> HIDE DEF home
      <4> QED BY <3>1, <4>1
    <3>2. CASE d # home
      BY <1>5, <1>8, <2>3, <2>4, <3>2
    <3> QED BY <3>1, <3>2
  <2> QED BY <1>6, <2>1, <2>4
<1>9. \/ UNCHANGED <<files, dirs>> /\ (At(t, "unmoved") \/ torn' = torn \cup {tasks[t].proj}) /\ torn \subseteq torn'
      \/ At(t, "restamp") /\ RenameDir(to, home) /\ UNCHANGED torn
  BY DEF MoveBack, diskVars, Target, Restamping
<1> QED BY <1>7, <1>8, <1>9


-----------------------------------------------------------------------------
(* The merge.                                                               *)

\* What prepare_source_pages found becomes what is to be copied.
Listed(q, r, prepared) == q = [r EXCEPT !.step = "copy", !.merge.pages = prepared, !.merge.todo = prepared]

MergeNames == {"from", "into", "policy", "pages", "todo", "used", "skipped"}
LEMMA MergeDomain ==
  ASSUME NEW m, MergeType(m)
  PROVE  DOMAIN m = MergeNames /\ m # NULL
BY MergesAssumption DEF MergeType, Merges, MergeNames

ListedIn(n, m, prepared) == n = [[m EXCEPT !.pages = prepared] EXCEPT !.todo = prepared]
LEMMA ListedMerge ==
  ASSUME NEW m, MergeType(m), NEW prepared \in SUBSET Prepared, NEW n, ListedIn(n, m, prepared)
  PROVE  /\ MergeType(n) /\ n # NULL
         /\ n.into = m.into /\ n.pages = prepared /\ n.todo = prepared
<1>1. m \in Merges
  BY DEF MergeType
<1>2. n \in Merges /\ n.into = m.into /\ n.pages = prepared /\ n.todo = prepared
  BY <1>1 DEF Merges, ListedIn
<1> QED BY <1>2, MergesAssumption DEF MergeType

LEMMA ListedTask ==
  ASSUME NEW r, TaskType(r), MergeType(r.merge), NEW prepared \in SUBSET Prepared, NEW q, Listed(q, r, prepared)
  PROVE  /\ TaskType(q) /\ q.step = "copy" /\ q.op = r.op /\ q.ws = r.ws /\ q.proj = r.proj
         /\ MergeType(q.merge) /\ q.merge # NULL
         /\ q.merge.into = r.merge.into /\ q.merge.pages = prepared /\ q.merge.todo = prepared
<1>1. DOMAIN r = Names /\ DOMAIN r.merge = MergeNames
  BY FieldNames, MergeDomain DEF TaskType
<1>2. /\ q.op = r.op /\ q.step = "copy" /\ q.ws = r.ws /\ q.proj = r.proj
      /\ q.pages = r.pages /\ q.prev = r.prev
      /\ ListedIn(q.merge, r.merge, prepared)
  BY <1>1 DEF Names, MergeNames, Listed, ListedIn
<1>3. Fields(q)
  BY <1>1, NamedFields DEF Listed
<1>4. /\ MergeType(q.merge) /\ q.merge # NULL
      /\ q.merge.into = r.merge.into /\ q.merge.pages = prepared /\ q.merge.todo = prepared
  BY <1>2, ListedMerge
<1>5. TaskType(q)
  BY <1>2, <1>3, <1>4 DEF TaskType, Steps
<1> QED BY <1>2, <1>4, <1>5

\* A merge under way: its task is a request, of the destination until the purge.
LEMMA MergingTask ==
  ASSUME IInv, NEW t \in Workers, At(t, "list") \/ At(t, "copy")
  PROVE  /\ t \in Tasks /\ t # Watcher /\ Busy(t) /\ ~HalfDone(t) /\ ~Restamping(t) /\ Merging(t)
         /\ TaskType(tasks[t]) /\ MergeSound(t)
<1>1. t \in Tasks /\ t # Watcher /\ Busy(t) /\ ~HalfDone(t) /\ ~Restamping(t)
  BY WorkersAssumption DEF At, HalfDone, Restamping, Workers, IInv, TasksOK
<1>2. TaskType(tasks[t])
  BY <1>1, TaskOf DEF IInv
<1>3. tasks[t].merge # NULL
  BY <1>2 DEF TaskType, At
<1> QED BY <1>1, <1>2, <1>3 DEF Merging, IInv, MergeOK

\* A step of a merge between its pages changes its task and nothing else.
LEMMA MergeTaskStep ==
  ASSUME IInv, NEW t \in Tasks, Busy(t), Merging(t), ~HalfDone(t), ~Restamping(t), NEW q, TaskType(q),
         q.step \in {"copy", "lock", "purge"}, tasks' = [tasks EXCEPT ![t] = q],
         UNCHANGED <<files, dirs, workspaces, projects, rows, shared, exclusive, torn, bodies>>,
         tasks'[t] = q => MergeSound(t)'
  PROVE  IInv'
<1>1. t \in Workers /\ t # Watcher
  BY WorkersAssumption DEF Workers
<1>2. TasksOK' /\ tasks'[t] = q /\ OthersKeep(t)
  BY <1>1, Changed DEF Watched, IInv
<1>3. Still(t) /\ ~At(t, "row")' /\ ~Restamping(t)'
  BY <1>2 DEF Still, HalfDone, Restamping, At
<1>4. DirsOK' /\ MovesOK' /\ RowsHome'
  BY <1>1, <1>2, <1>3, NoNewPages, StillStep
<1>5. LockOK'
  BY <1>1, <1>2, <1>3, LockStep
<1>6. MergeOK'
  BY <1>2, MergeGoesOn
<1> QED BY <1>2, <1>4, <1>5, <1>6 DEF IInv, TypeOK, ScopesOK, ScopesTypeOK, FilesHaveDirs

\* A merge that stops short.
LEMMA MergeStops ==
  ASSUME IInv, NEW t \in Tasks, Busy(t), ~HalfDone(t), ~Restamping(t), Ends(t),
         UNCHANGED <<files, dirs, workspaces, projects, rows, torn, bodies>>
  PROVE  IInv'
<1>1. t \in Workers /\ t # Watcher
  BY WorkersAssumption DEF Workers
<1>2. /\ TasksOK' /\ LockOK' /\ DirsOK' /\ MovesOK' /\ RowsHome' /\ MergeOK'
      /\ shared' \subseteq Workers /\ exclusive' \in Workers \cup {NULL}
      /\ exclusive' # NULL => shared' = {}
  BY <1>1, NoNewPages, EndsStill
<1> QED BY <1>2 DEF IInv, TypeOK, ScopesOK, ScopesTypeOK, FilesHaveDirs

LEMMA PrepareKeeps ==
  ASSUME IInv, NEW t \in Workers, prepare_source_pages(t)
  PROVE  IInv'
<1> DEFINE r == tasks[t]
           m == r.merge
           found(x) == files[<<m.from[1], m.from[2], x>>]
           prepared == {[path |-> x, body |-> found(x),
                         conflict |-> found(x) # NULL /\ rows[<<m.into[2], x>>] \notin {NULL, found(x)}]
                        : x \in PagesOf(m.from[2])}
           q == [r EXCEPT !.step = "copy", !.merge.pages = prepared, !.merge.todo = prepared]
<1>0. At(t, "list") /\ UNCHANGED <<files, dirs, workspaces, projects, rows, torn, bodies>>
  BY DEF prepare_source_pages, diskVars, dbVars, scopeVars, boundVars
<1>1. /\ t \in Tasks /\ Busy(t) /\ ~HalfDone(t) /\ ~Restamping(t) /\ Merging(t)
      /\ TaskType(r) /\ MergeSound(t) /\ r.step = "list"
  BY <1>0, MergingTask DEF At
<1>2. CASE Ends(t)
  BY <1>0, <1>1, <1>2, MergeStops
<1>3. CASE tasks' = [tasks EXCEPT ![t] = q] /\ UNCHANGED lockVars
  <2>1. MergeType(m) /\ m.from \in Scopes
    BY <1>1, MergeFields DEF MergeSound
  <2>2. prepared \in SUBSET Prepared
    <3>1. ASSUME NEW x \in PagesOf(m.from[2])
          PROVE  x \in Paths /\ found(x) \in 1..MaxBodies \cup {NULL}
      <4>1. x \in Paths
        BY DEF PagesOf
      <4>2. <<m.from[1], m.from[2], x>> \in Places
        BY <2>1, <4>1 DEF Scopes, Places
      <4> QED BY <4>1, <4>2 DEF IInv, TypeOK
    <3>2. ASSUME NEW x \in Paths, NEW b \in 1..MaxBodies \cup {NULL}, NEW k \in BOOLEAN
          PROVE  [path |-> x, body |-> b, conflict |-> k] \in Prepared
      BY DEF Prepared
    <3>3. ASSUME NEW c \in prepared
          PROVE  c \in Prepared
      <4>1. PICK x \in PagesOf(m.from[2]) :
              c = [path |-> x, body |-> found(x),
                   conflict |-> found(x) # NULL /\ rows[<<m.into[2], x>>] \notin {NULL, found(x)}]
        OBVIOUS
      <4> HIDE DEF found, m
      <4> QED BY <3>1, <3>2, <4>1
    <3> QED BY <3>3
  <2>3. tasks' = [tasks EXCEPT ![t] = q] /\ UNCHANGED <<shared, exclusive>>
    BY <1>3 DEF lockVars
  <2> HIDE DEF prepared
  <2>4. Listed(q, r, prepared)
    BY DEF Listed
  <2> HIDE DEF q
  <2>5. TaskType(r) /\ MergeType(r.merge)
    BY <1>1, <2>1
  <2>6. /\ TaskType(q) /\ q.step = "copy" /\ q.op = r.op /\ q.ws = r.ws /\ q.proj = r.proj
        /\ MergeType(q.merge) /\ q.merge # NULL
        /\ q.merge.into = r.merge.into /\ q.merge.pages = prepared /\ q.merge.todo = prepared
    <3> HIDE DEF r
    <3> QED BY <2>2, <2>4, <2>5, ListedTask
  <2>7. tasks'[t] = q => MergeSound(t)'
    BY <1>1, <2>6 DEF MergeSound, Of
  <2> QED BY <1>0, <1>1, <2>3, <2>6, <2>7, MergeTaskStep
<1>4. \/ Ends(t)
      \/ tasks' = [tasks EXCEPT ![t] = q] /\ UNCHANGED lockVars
  BY DEF prepare_source_pages
<1> QED BY <1>2, <1>3, <1>4

\* A page that could not be read is left out, and the merge remembers it.
Skipped(n, m, c) == n = Skip(m, c)
LEMMA SkippedMerge ==
  ASSUME NEW m, MergeType(m), NEW c, NEW n, Skipped(n, m, c)
  PROVE  MergeType(n) /\ n # NULL /\ n.into = m.into /\ n.skipped
<1>1. m \in Merges /\ m.todo \subseteq m.pages /\ m.todo \subseteq Prepared
  BY MergeFields DEF MergeType
<1>2. n \in Merges /\ n.todo = m.todo \ {c} /\ n.pages = m.pages /\ n.into = m.into /\ n.skipped
  BY <1>1 DEF Merges, Skipped, Skip
<1> QED BY <1>1, <1>2, MergesAssumption DEF MergeType

\* A page is taken up, for a destination of its own.
TakenUp(n, m, c, dest) == n = [[m EXCEPT !.todo = @ \ {c}] EXCEPT !.used = @ \cup {dest}]
Advanced(n, m, c, dest) ==
    /\ MergeType(n) /\ n # NULL /\ n.into = m.into /\ n.pages = m.pages /\ n.skipped = m.skipped
    /\ n.todo = m.todo \ {c} /\ n.used = m.used \cup {dest}

LEMMA TakenUpMerge ==
  ASSUME NEW m, MergeType(m), NEW c, NEW dest \in Paths, NEW n, TakenUp(n, m, c, dest)
  PROVE  Advanced(n, m, c, dest)
<1>1. m \in Merges /\ m.todo \subseteq m.pages /\ m.todo \subseteq Prepared
  BY MergeFields DEF MergeType
<1>2. /\ n \in Merges /\ n.todo = m.todo \ {c} /\ n.pages = m.pages /\ n.into = m.into
      /\ n.skipped = m.skipped /\ n.used = m.used \cup {dest}
  BY <1>1 DEF Merges, TakenUp
<1> QED BY <1>1, <1>2, MergesAssumption DEF MergeType, Advanced

\* The task with another merge record.
WithMerge(q, r, n) == q = [r EXCEPT !.merge = n]
LEMMA WithMergeTask ==
  ASSUME NEW r, TaskType(r), NEW n, n # NULL, NEW q, WithMerge(q, r, n)
  PROVE  /\ TaskType(q) /\ q.merge = n /\ q.step = r.step /\ q.op = r.op
         /\ q.ws = r.ws /\ q.proj = r.proj
<1>1. DOMAIN r = Names
  BY FieldNames DEF TaskType
<1>2. /\ q.op = r.op /\ q.step = r.step /\ q.ws = r.ws /\ q.proj = r.proj
      /\ q.pages = r.pages /\ q.prev = r.prev /\ q.merge = n
  BY <1>1 DEF Names, WithMerge
<1>3. Fields(q)
  BY <1>1, NamedFields DEF WithMerge
<1>4. TaskType(q)
  BY <1>2, <1>3 DEF TaskType
<1> QED BY <1>2, <1>4

\* The task that writes one page of the merge.
Writing(q, r, pages, n) == q = [r EXCEPT !.step = "lock", !.pages = pages, !.prev = NoPrev, !.merge = n]
LEMMA WritingTask ==
  ASSUME NEW r, TaskType(r), NEW pages, DOMAIN pages \subseteq Paths, \A x \in DOMAIN pages : pages[x] \in Contents,
         NEW n, NEW q, Writing(q, r, pages, n)
  PROVE  /\ TaskType(q) /\ q.merge = n /\ q.step = "lock" /\ q.op = r.op
         /\ q.ws = r.ws /\ q.proj = r.proj /\ q.pages = pages
<1>1. DOMAIN r = Names
  BY FieldNames DEF TaskType
<1>2. /\ q.op = r.op /\ q.step = "lock" /\ q.ws = r.ws /\ q.proj = r.proj
      /\ q.pages = pages /\ q.prev = NoPrev /\ q.merge = n
  BY <1>1 DEF Names, Writing
<1>3. Fields(q)
  BY <1>1, NamedFields DEF Writing
<1>4. TaskType(q)
  BY <1>2, <1>3 DEF TaskType, Steps
<1> QED BY <1>2, <1>4

\* The merge goes over to the purge of its source.
Purging(q, r, w, p) == q = [r EXCEPT !.op = "purge", !.step = "purge", !.ws = w, !.proj = p]
LEMMA PurgingTask ==
  ASSUME NEW r, TaskType(r), NEW w \in WorkspaceIds, NEW p \in ProjectIds, NEW q, Purging(q, r, w, p)
  PROVE  TaskType(q) /\ q.merge = r.merge /\ q.step = "purge" /\ q.op = "purge"
<1>1. DOMAIN r = Names
  BY FieldNames DEF TaskType
<1>2. /\ q.op = "purge" /\ q.step = "purge" /\ q.ws = w /\ q.proj = p
      /\ q.pages = r.pages /\ q.prev = r.prev /\ q.merge = r.merge
  BY <1>1 DEF Names, Purging
<1>3. Fields(q)
  BY <1>1, NamedFields DEF Purging
<1>4. TaskType(q)
  BY <1>2, <1>3 DEF TaskType, Steps, Ops
<1> QED BY <1>2, <1>4

LEMMA SkipKeeps ==
  ASSUME IInv, NEW t \in Workers, CopyPage(t), NEW c \in tasks[t].merge.todo,
         tasks' = [tasks EXCEPT ![t].merge = Skip(tasks[t].merge, c)]
  PROVE  IInv'
<1> DEFINE r == tasks[t]
           n == Skip(r.merge, c)
           q == [r EXCEPT !.merge = n]
<1>0. At(t, "copy") /\ UNCHANGED <<files, dirs, workspaces, projects, rows, shared, exclusive, torn, bodies>>
  BY DEF CopyPage, diskVars, dbVars, scopeVars, boundVars, lockVars
<1>1. /\ t \in Tasks /\ Busy(t) /\ ~HalfDone(t) /\ ~Restamping(t) /\ Merging(t)
      /\ TaskType(r) /\ MergeSound(t) /\ r.step = "copy"
  BY <1>0, MergingTask DEF At
<1>2. MergeType(n) /\ n # NULL /\ n.into = r.merge.into /\ n.skipped
  <2>1. Skipped(n, r.merge, c) /\ MergeType(r.merge)
    BY <1>1 DEF Skipped, MergeSound
  <2> HIDE DEF n
  <2> QED BY <2>1, SkippedMerge
<1>3. tasks' = [tasks EXCEPT ![t] = q]
  OBVIOUS
<1> HIDE DEF n
<1>4. /\ TaskType(q) /\ q.merge = n /\ q.step = r.step /\ q.op = r.op
      /\ q.ws = r.ws /\ q.proj = r.proj
  <2>1. WithMerge(q, r, n) /\ TaskType(r)
    BY <1>1 DEF WithMerge
  <2> HIDE DEF q, r
  <2> QED BY <1>2, <2>1, WithMergeTask
<1> HIDE DEF q
<1>5. tasks'[t] = q => MergeSound(t)'
  BY <1>1, <1>2, <1>4 DEF MergeSound, Of
<1> QED BY <1>0, <1>1, <1>3, <1>4, <1>5, MergeTaskStep

TakesUp(t, m, c, dest) == tasks' = [tasks EXCEPT ![t] = [@ EXCEPT
    !.step = "lock", !.pages = [x \in {dest} |-> c.body], !.prev = NoPrev,
    !.merge = [m EXCEPT !.todo = @ \ {c}, !.used = @ \cup {dest}]]]

LEMMA TakeUpKeeps ==
  ASSUME IInv, NEW t \in Workers, CopyPage(t), NEW c \in tasks[t].merge.todo, c.body # NULL,
         NEW dest \in Paths, dest \notin tasks[t].merge.used,
         TakesUp(t, tasks[t].merge, c, dest)
  PROVE  IInv'
<1> DEFINE r == tasks[t]
           m == r.merge
           n == [m EXCEPT !.todo = @ \ {c}, !.used = @ \cup {dest}]
           pages == [x \in {dest} |-> c.body]
           q == [r EXCEPT !.step = "lock", !.pages = pages, !.prev = NoPrev, !.merge = n]
<1>0. At(t, "copy") /\ UNCHANGED <<files, dirs, workspaces, projects, rows, shared, exclusive, torn, bodies>>
  BY DEF CopyPage, diskVars, dbVars, scopeVars, boundVars, lockVars
<1>1. /\ t \in Tasks /\ Busy(t) /\ ~HalfDone(t) /\ ~Restamping(t) /\ Merging(t)
      /\ TaskType(r) /\ MergeSound(t) /\ r.step = "copy"
  BY <1>0, MergingTask DEF At
<1>2. MergeType(m) /\ c \in m.pages /\ c.body \in Contents
  BY <1>1, MergeFields DEF MergeSound
<1>3. /\ MergeType(n) /\ n # NULL /\ n.into = m.into /\ n.pages = m.pages /\ n.skipped = m.skipped
      /\ n.todo = m.todo \ {c} /\ n.used = m.used \cup {dest}
  <2>1. TakenUp(n, m, c, dest)
    BY DEF TakenUp
  <2>2. dest \in Paths /\ MergeType(m)
    BY <1>2
  <2>3. Advanced(n, m, c, dest)
    <3> HIDE DEF n, m, r
    <3> QED BY <2>1, <2>2, TakenUpMerge
  <2> QED BY <2>3 DEF Advanced
<1>4. tasks' = [tasks EXCEPT ![t] = q]
  BY DEF TakesUp
<1>5. DOMAIN pages = {dest} /\ pages[dest] = c.body
  OBVIOUS
<1> HIDE DEF n, pages
<1>6. /\ TaskType(q) /\ q.merge = n /\ q.step = "lock" /\ q.op = r.op
      /\ q.ws = r.ws /\ q.proj = r.proj /\ q.pages = pages
  <2>1. Writing(q, r, pages, n) /\ TaskType(r)
    BY <1>1 DEF Writing
  <2>2. DOMAIN pages \subseteq Paths /\ \A x \in DOMAIN pages : pages[x] \in Contents
    BY <1>2, <1>5
  <2> HIDE DEF q, r
  <2> QED BY <2>1, <2>2, WritingTask
<1> HIDE DEF q
<1>7. SUFFICES ASSUME tasks'[t] = q
               PROVE  MergeSound(t)'
  BY <1>0, <1>1, <1>4, <1>6, MergeTaskStep
<1>8. ASSUME ~m.skipped, NEW d \in n.pages \ n.todo
      PROVE  d.body # NULL /\ Copied(t, d)'
  <2>1. CASE d = c
    BY <1>3, <1>5, <1>6, <1>7, <2>1 DEF Copied
  <2>2. CASE d # c
    <3>1. d \in m.pages \ m.todo
      BY <1>3, <1>8, <2>2
    <3>2. d.body # NULL /\ Copied(t, d)
      BY <1>1, <1>8, <3>1 DEF MergeSound
    <3>3. PICK x \in m.used : files[<<m.into[1], m.into[2], x>>] = d.body
      BY <1>1, <3>2 DEF Copied
    <3>4. x \in n.used /\ x \notin DOMAIN pages
      BY <1>3, <1>5, <3>3
    <3> QED BY <1>0, <1>3, <1>6, <1>7, <3>2, <3>3, <3>4 DEF Copied
  <2> QED BY <2>1, <2>2
<1>9. Of(t)' = m.into /\ q.op = "write"
  BY <1>1, <1>6, <1>7 DEF MergeSound, Of
<1> QED BY <1>3, <1>6, <1>7, <1>8, <1>9 DEF MergeSound

LEMMA CopyKeeps ==
  ASSUME IInv, NEW t \in Workers, CopyPage(t)
  PROVE  IInv'
<1> DEFINE m == tasks[t].merge
<1>1. PICK c \in m.todo :
        \/ /\ c.body = NULL
           /\ tasks' = [tasks EXCEPT ![t].merge = Skip(m, c)]
        \/ /\ c.body # NULL
           /\ \E dest \in IF c.path \in m.used \/ (c.conflict /\ m.policy = "duplicate")
                          THEN {d \in Paths \ m.used : rows[<<m.into[2], d>>] = NULL}
                          ELSE {c.path} :
                 tasks' = [tasks EXCEPT ![t] = [@ EXCEPT
                     !.step = "lock", !.pages = [x \in {dest} |-> c.body], !.prev = NoPrev,
                     !.merge = [m EXCEPT !.todo = @ \ {c}, !.used = @ \cup {dest}]]]
  BY DEF CopyPage
<1>2. c.path \in Paths
  <2>1. MergeSound(t)
    BY MergingTask DEF CopyPage
  <2> QED BY <2>1, MergeFields DEF MergeSound
<1>3. CASE tasks' = [tasks EXCEPT ![t].merge = Skip(m, c)]
  BY <1>3, SkipKeeps
<1>4. ASSUME NEW dest \in IF c.path \in m.used \/ (c.conflict /\ m.policy = "duplicate")
                          THEN {d \in Paths \ m.used : rows[<<m.into[2], d>>] = NULL}
                          ELSE {c.path},
             c.body # NULL,
             tasks' = [tasks EXCEPT ![t] = [@ EXCEPT
                     !.step = "lock", !.pages = [x \in {dest} |-> c.body], !.prev = NoPrev,
                     !.merge = [m EXCEPT !.todo = @ \ {c}, !.used = @ \cup {dest}]]]
      PROVE  IInv'
  <2>1. dest \in Paths /\ dest \notin m.used
    BY <1>2
  <2>2. TakesUp(t, m, c, dest)
    BY <1>4 DEF TakesUp
  <2> QED BY <1>4, <2>1, <2>2, TakeUpKeeps
<1> QED BY <1>1, <1>3, <1>4

\* The source is purged once every page of it is copied.
LEMMA CopiesEndKeeps ==
  ASSUME IInv, NEW t \in Workers, CopiesEnd(t)
  PROVE  IInv'
<1> DEFINE r == tasks[t]
           m == r.merge
           q == [r EXCEPT !.op = "purge", !.step = "purge", !.ws = m.from[1], !.proj = m.from[2]]
<1>0. At(t, "copy") /\ m.todo = {} /\ UNCHANGED <<files, dirs, workspaces, projects, rows, torn, bodies>>
  BY DEF CopiesEnd, diskVars, dbVars, scopeVars, boundVars
<1>1. /\ t \in Tasks /\ Busy(t) /\ ~HalfDone(t) /\ ~Restamping(t) /\ Merging(t)
      /\ TaskType(r) /\ MergeSound(t) /\ r.step = "copy"
  BY <1>0, MergingTask DEF At
<1>2. CASE Ends(t)
  BY <1>0, <1>1, <1>2, MergeStops
<1>3. CASE ~m.skipped /\ tasks' = [tasks EXCEPT ![t] = q] /\ UNCHANGED lockVars
  <2>1. UNCHANGED <<shared, exclusive>> /\ ~m.skipped /\ tasks' = [tasks EXCEPT ![t] = q]
    BY <1>3 DEF lockVars
  <2>2. m.from[1] \in WorkspaceIds /\ m.from[2] \in ProjectIds
    BY <1>1, MergeFields DEF MergeSound, Scopes
  <2>3. TaskType(q) /\ q.merge = m /\ q.step = "purge" /\ q.op = "purge"
    <3> DEFINE w == m.from[1]
               p == m.from[2]
    <3>1. Purging(q, r, w, p) /\ TaskType(r)
      BY <1>1 DEF Purging
    <3> HIDE DEF q, r, w, p
    <3>2. w \in WorkspaceIds /\ p \in ProjectIds
      BY <2>2 DEF w, p
    <3> QED BY <3>1, <3>2, PurgingTask
  <2> HIDE DEF q
  <2>4. SUFFICES ASSUME tasks'[t] = q
                 PROVE  MergeSound(t)'
    BY <1>0, <1>1, <2>1, <2>3, MergeTaskStep
  <2>5. \A c : Copied(t, c) => Copied(t, c)'
    BY <1>0, <1>1, <2>3, <2>4 DEF Copied
  <2> QED BY <1>0, <1>1, <2>1, <2>3, <2>4, <2>5 DEF MergeSound
<1> QED BY <1>2, <1>3 DEF CopiesEnd

LEMMA ProceedsKeep ==
  ASSUME IInv, NEW t \in Workers, Proceeds(t)
  PROVE  IInv'
BY AppendKeeps, InstallKeeps, StoreRowsKeeps, StoreFailsKeeps, PurgeRowsKeeps, RemoveKeeps, MoveDirKeeps, RestampKeeps,
   MoveBackKeeps, PrepareKeeps, CopyKeeps, CopiesEndKeeps DEF Proceeds

-----------------------------------------------------------------------------
(* The watcher, people, crashes, and the start.                             *)

LEMMA WatcherTask ==
  ASSUME NEW c \in Places, NEW body \in Contents
  PROVE  LET r == Task("reindex", "row", c[1], c[2], [x \in {c[3]} |-> body])
         IN /\ TaskType(r) /\ r.op = "reindex" /\ r.step = "row" /\ r.merge = NULL
            /\ r.ws = c[1] /\ r.proj = c[2]
<1> DEFINE pages == [x \in {c[3]} |-> body]
           r == Task("reindex", "row", c[1], c[2], pages)
<1>1. DOMAIN pages \subseteq Paths /\ \A x \in DOMAIN pages : pages[x] \in Contents
  BY DEF Places
<1>2. c[1] \in WorkspaceIds /\ c[2] \in ProjectIds
  BY DEF Places
<1>3. r = [op |-> "reindex", step |-> "row", ws |-> c[1], proj |-> c[2],
           pages |-> pages, prev |-> NoPrev, merge |-> NULL]
  BY DEF Task
<1> HIDE DEF pages, r
<1>4. /\ r.op = "reindex" /\ r.step = "row" /\ r.merge = NULL /\ r.ws = c[1] /\ r.proj = c[2]
      /\ r.pages = pages /\ r.prev = NoPrev
  BY <1>3
<1>5. Fields(r)
  BY <1>3, <1>4 DEF Fields
<1>6. TaskType(r)
  BY <1>1, <1>2, <1>4, <1>5, NothingNew DEF TaskType, Ops, Steps
<1> QED BY <1>4, <1>6 DEF r, pages

LEMMA ReindexKeeps ==
  ASSUME IInv, NEW c \in Places, reindex_page(c)
  PROVE  IInv'
<1> DEFINE r == Task("reindex", "row", c[1], c[2], [x \in {c[3]} |-> files[c]])
<1>0. /\ ~Busy(Watcher) /\ exclusive = NULL /\ files[c] # NULL
      /\ tasks' = [tasks EXCEPT ![Watcher] = r] /\ shared' = shared \cup {Watcher}
      /\ ProjectInWorkspace(c[1], c[2])
      /\ UNCHANGED <<files, dirs, workspaces, projects, rows, exclusive, torn, bodies>>
  BY DEF reindex_page, walk_markdown, diskVars, dbVars, scopeVars
<1>1. Watcher \in Workers /\ Watcher \notin Tasks
  BY WorkersAssumption DEF Workers
<1>2. TaskType(r) /\ r.op = "reindex" /\ r.step = "row" /\ r.merge = NULL /\ r.ws = c[1] /\ r.proj = c[2]
  <2>1. files[c] \in Contents
    BY DEF IInv, TypeOK, Contents
  <2> QED BY <2>1, WatcherTask
<1> HIDE DEF r
<1>3. TasksOK' /\ tasks'[Watcher] = r /\ OthersKeep(Watcher)
  BY <1>0, <1>1, <1>2, Changed DEF IInv, Watched
<1>4. Still(Watcher) /\ ~Restamping(Watcher)'
  BY <1>0, <1>2, <1>3 DEF Still, HalfDone, Restamping, At
<1>5. DirsOK' /\ MovesOK' /\ RowsHome'
  <2>1. Home(<<r.ws, r.proj>>)
    BY <1>0, <1>2 DEF Home
  <2> QED BY <1>0, <1>1, <1>3, <1>4, <2>1, NoNewPages, StillStep
<1>6. Of(Watcher)' \in dirs'
  BY <1>0, <1>2, <1>3 DEF IInv, FilesHaveDirs, Of
<1>7. LockOK'
  BY <1>0, <1>1, <1>3, <1>4, <1>6, LockStep
<1>8. MergeOK'
  <2>1. \A u \in Tasks : tasks'[u] = tasks[u]
    BY <1>1, <1>3 DEF OthersKeep, Workers
  <2> QED BY <1>0, <2>1, MergeStays
<1> QED BY <1>0, <1>1, <1>3, <1>5, <1>7, <1>8 DEF IInv, TypeOK, ScopesOK, ScopesTypeOK, FilesHaveDirs

\* What is changed beside the tasks keeps the pages where they may be.
LEMMA SameTasks ==
  ASSUME IInv, UNCHANGED <<projects, tasks, torn>>, PageDirs' \subseteq PageDirs
  PROVE  DirsOK' /\ MovesOK' /\ RowsHome'
<1>1. /\ \A u, s : At(u, s)' <=> At(u, s)
      /\ \A u : Of(u)' = Of(u) /\ Target(u)' = Target(u)
      /\ \A d : ProjectInWorkspace(d[1], d[2])' <=> ProjectInWorkspace(d[1], d[2])
  BY DEF At, Busy, Of, Target, ProjectInWorkspace, LiveProjects
<1>2. ASSUME NEW d, Home(d)
      PROVE  Home(d)'
  BY <1>1, <1>2 DEF Home
<1>3. ASSUME NEW u, Home(Of(u))
      PROVE  Home(Of(u))'
  <2>1. ASSUME NEW d, d = Of(u)
        PROVE  Home(Of(u))'
    <3>1. Home(d)'
      BY <1>2, <1>3, <2>1
    <3>2. d = Of(u)'
      BY <1>1, <2>1
    <3> QED BY <3>1, <3>2 DEF Home
  <2> QED BY <2>1
<1>4. DirsOK'
  BY <1>1, <1>2 DEF IInv, DirsOK
<1>5. MovesOK'
  <2> SUFFICES ASSUME NEW u \in Tasks
               PROVE  /\ Restamping(u)' => Of(u)' \notin PageDirs'
                      /\ At(u, "restamp")' /\ Target(u)' \in PageDirs' /\ tasks'[u].proj \notin torn' => Home(Of(u))'
    BY DEF MovesOK
  <2> QED BY <1>1, <1>3 DEF IInv, MovesOK, Restamping
<1>6. RowsHome'
  <2> SUFFICES ASSUME NEW u \in Workers, At(u, "row")', tasks'[u].proj \notin torn'
               PROVE  Home(Of(u))'
    BY DEF RowsHome
  <2> QED BY <1>1, <1>3 DEF IInv, RowsHome
<1> QED BY <1>4, <1>5, <1>6

LEMMA EditKeeps ==
  ASSUME IInv, NEW c \in Places, EditedByHand(c)
  PROVE  IInv'
<1>0. /\ HasPages(<<c[1], c[2]>>)
      /\ UNCHANGED <<dirs, workspaces, projects, rows, shared, exclusive, tasks, torn>>
      /\ ~\E t \in Tasks : Merging(t) /\ tasks[t].merge.into = <<c[1], c[2]>>
  BY DEF EditedByHand, dbVars, scopeVars, lockVars
<1>1. PICK body \in Contents : files' = [files EXCEPT ![c] = body] /\ bodies' \in Nat
  <2>1. CASE bodies < MaxBodies /\ bodies' = bodies + 1 /\ files' = [files EXCEPT ![c] = bodies']
    <3>1. bodies' \in Contents /\ bodies' \in Nat
      BY <2>1, WorkersAssumption DEF IInv, ScopesOK, Contents
    <3> QED BY <2>1, <3>1
  <2>2. CASE files' = [files EXCEPT ![c] = NULL] /\ UNCHANGED bodies
    BY <2>2 DEF IInv, ScopesOK, Contents
  <2> QED BY <2>1, <2>2 DEF EditedByHand
<1>2. files \in [Places -> Contents]
  BY DEF IInv, TypeOK, Contents
<1>3. files' \in [Places -> Contents] /\ \A d \in Places : d # c => files'[d] = files[d]
  BY <1>1, <1>2
<1>4. MergeOK'
  <2>1. ASSUME NEW u \in Tasks, Merging(u), NEW x \in Paths
        PROVE  files'[<<tasks[u].merge.into[1], tasks[u].merge.into[2], x>>] =
               files[<<tasks[u].merge.into[1], tasks[u].merge.into[2], x>>]
    <3> DEFINE into == tasks[u].merge.into
               d == <<into[1], into[2], x>>
    <3>1. into \in Scopes
      BY <2>1, MergeFields DEF IInv, MergeOK, MergeSound
    <3>2. into # <<c[1], c[2]>>
      BY <1>0, <2>1
    <3> HIDE DEF into
    <3>3. d \in Places /\ d # c
      BY <3>1, <3>2 DEF Scopes, Places
    <3> QED BY <1>3, <3>3 DEF into
  <2> QED BY <1>0, <2>1, MergeStays
<1>5. FilesHaveDirs'
  <2>1. <<c[1], c[2]>> \in dirs
    BY <1>0, PagesHaveDirs DEF PageDirs, Places, Scopes
  <2> QED BY <1>0, <1>3, <2>1 DEF IInv, FilesHaveDirs
<1>6. TasksOK' /\ LockOK' /\ DirsOK' /\ MovesOK' /\ RowsHome' /\ ScopesOK'
  <2>1. TasksOK' /\ LockOK' /\ ScopesOK'
    BY <1>0, <1>1 DEF IInv, TasksOK, Busy, LockOK, Restamping, At, Of, ScopesOK, ScopesTypeOK
  <2>3. PageDirs' \subseteq PageDirs
    <3> SUFFICES ASSUME NEW d \in PageDirs' PROVE d \in PageDirs
      OBVIOUS
    <3>1. d \in Scopes /\ d = <<d[1], d[2]>> /\ HasPages(d)'
      BY DEF PageDirs, Scopes
    <3>2. PICK x \in Paths : files'[<<d[1], d[2], x>>] # NULL
      BY <3>1 DEF HasPages
    <3>3. <<d[1], d[2], x>> \in Places
      BY <3>1 DEF Scopes, Places
    <3>4. CASE <<d[1], d[2], x>> = c
      <4>1. d = <<c[1], c[2]>>
        BY <3>1, <3>4
      <4> QED BY <1>0, <3>1, <4>1 DEF PageDirs
    <3>5. CASE <<d[1], d[2], x>> # c
      BY <1>3, <3>1, <3>2, <3>3, <3>5 DEF PageDirs, HasPages
    <3> QED BY <3>4, <3>5
  <2>4. DirsOK' /\ MovesOK' /\ RowsHome'
    BY <1>0, <2>3, SameTasks
  <2> QED BY <2>1, <2>4
<1> QED BY <1>0, <1>3, <1>4, <1>5, <1>6 DEF IInv, TypeOK, Contents

\* Whatever was half done stays behind, as torn.
LEMMA CrashKeeps ==
  ASSUME IInv, Crashes
  PROVE  IInv'
<1>0. /\ torn' = torn \cup {tasks[t].proj : t \in {u \in Workers : HalfDone(u)}}
      /\ tasks' = [t \in Workers |-> Idle] /\ shared' = {} /\ exclusive' = NULL
      /\ UNCHANGED <<files, dirs, workspaces, projects, rows, bodies>>
  BY DEF Crashes, Torn, diskVars, dbVars, scopeVars
<1>1. \A u \in Workers : ~Busy(u)'
  BY <1>0 DEF Busy
<1>2. TasksOK'
  BY <1>0, <1>1 DEF TasksOK, Workers
<1>3. LockOK' /\ MovesOK' /\ RowsHome' /\ MergeOK'
  BY <1>1 DEF LockOK, MovesOK, RowsHome, MergeOK, Merging, Restamping, At, Workers
<1>4. DirsOK'
  <2> SUFFICES ASSUME NEW d \in PageDirs, d[2] \notin torn'
               PROVE  ProjectInWorkspace(d[1], d[2])'
    BY <1>0, <1>1 DEF DirsOK, Home, PageDirs, HasPages
  <2>1. ~\E u \in Tasks : (At(u, "rmdir") /\ Of(u) = d) \/ (At(u, "restamp") /\ d = Target(u))
    <3> SUFFICES ASSUME NEW u \in Tasks, HalfDone(u), d[2] = tasks[u].proj
                 PROVE  FALSE
      BY DEF HalfDone, Of, Target
    <3> QED BY <1>0 DEF Workers
  <2>2. ProjectInWorkspace(d[1], d[2])
    BY <1>0, <2>1 DEF IInv, DirsOK, Home
  <2> QED BY <1>0, <2>2 DEF ProjectInWorkspace, LiveProjects
<1> QED BY <1>0, <1>2, <1>3, <1>4 DEF IInv, TypeOK, ScopesOK, ScopesTypeOK, FilesHaveDirs

LEMMA InitSound == Init => IInv
<1> SUFFICES ASSUME Init PROVE IInv
  OBVIOUS
<1>1. PICK start \in InitialStates :
        /\ workspaces = start.workspaces /\ projects = start.projects
        /\ rows = start.rows
  BY DEF Init
<1>2. /\ files = [c \in Places |-> IF ProjectInWorkspace(c[1], c[2]) THEN rows[<<c[2], c[3]>>] ELSE NULL]
      /\ dirs = {<<c[1], c[2]>> : c \in {d \in Places : files[d] # NULL}}
      /\ shared = {} /\ exclusive = NULL
      /\ tasks = [t \in Workers |-> Idle]
      /\ bodies = Cardinality({c \in DOMAIN rows : rows[c] # NULL})
  BY DEF Init
<1>3. ScopesOK
  <2>1. bodies \in Nat
    BY <1>1, <1>2, StatesAssumption, FS_CardinalityType
  <2> QED BY <1>1, <2>1, StatesAssumption DEF ScopesOK, ScopesTypeOK
<1>4. rows \in [ProjectIds \X Paths -> Contents]
  BY <1>1, StatesAssumption DEF Contents
<1>5. files \in [Places -> Contents] /\ \A c \in Places : files[c] # NULL => ProjectInWorkspace(c[1], c[2])
  <2>1. \A c \in Places : <<c[2], c[3]>> \in ProjectIds \X Paths
    BY DEF Places
  <2> QED BY <1>2, <1>4, <2>1 DEF Contents
<1>6. \A u \in Workers : ~Busy(u)
  BY <1>2 DEF Busy
<1>7. ASSUME NEW d \in dirs
       PROVE  d \in Scopes /\ ProjectInWorkspace(d[1], d[2])
  <2>1. PICK c \in {e \in Places : files[e] # NULL} : d = <<c[1], c[2]>>
    BY <1>2
  <2>2. c[1] \in WorkspaceIds /\ c[2] \in ProjectIds /\ ProjectInWorkspace(c[1], c[2])
    BY <1>5 DEF Places
  <2>3. d[1] = c[1] /\ d[2] = c[2] /\ d \in Scopes
    BY <2>1, <2>2 DEF Scopes
  <2> QED BY <2>2, <2>3
<1>8. TypeOK
  <2>1. dirs \subseteq Scopes
    BY <1>7
  <2> QED BY <1>2, <1>4, <1>5, <2>1 DEF TypeOK, Contents, Scopes
<1>9. TasksOK
  BY <1>2, <1>6 DEF TasksOK, Workers
<1>10. LockOK /\ MovesOK /\ RowsHome /\ MergeOK
  BY <1>6 DEF LockOK, MovesOK, RowsHome, MergeOK, Merging, Restamping, At, Workers
<1>11. FilesHaveDirs
  BY <1>2 DEF FilesHaveDirs
<1>12. DirsOK
  <2> SUFFICES ASSUME NEW d \in PageDirs PROVE ProjectInWorkspace(d[1], d[2])
    BY DEF DirsOK, Home
  <2>1. PICK x \in Paths : files[<<d[1], d[2], x>>] # NULL
    BY DEF PageDirs, HasPages
  <2>2. <<d[1], d[2], x>> \in Places
    BY DEF PageDirs, Scopes, Places
  <2> QED BY <1>5, <2>1, <2>2
<1> QED BY <1>3, <1>8, <1>9, <1>10, <1>11, <1>12 DEF IInv

LEMMA Stutter == IInv /\ UNCHANGED wikiVars => IInv'
<1> SUFFICES ASSUME IInv, UNCHANGED wikiVars
             PROVE  IInv'
  OBVIOUS
<1>1. UNCHANGED <<files, dirs, workspaces, projects, rows, shared, exclusive, tasks, torn, bodies>>
  BY DEF wikiVars, diskVars, dbVars, scopeVars, lockVars, boundVars
<1>2. TypeOK' /\ ScopesOK' /\ FilesHaveDirs' /\ TasksOK' /\ LockOK'
  BY <1>1 DEF IInv, TypeOK, ScopesOK, ScopesTypeOK, FilesHaveDirs, TasksOK, Busy, LockOK, Restamping, At, Of
<1>3. MergeOK'
  BY <1>1, MergeStays
<1>4. DirsOK' /\ MovesOK' /\ RowsHome'
  <2>1. PageDirs' = PageDirs
    BY <1>1 DEF PageDirs, HasPages
  <2> QED BY <1>1, <2>1, SameTasks
<1> QED BY <1>2, <1>3, <1>4 DEF IInv

LEMMA Inductive == Spec => []IInv
<1>1. IInv /\ [Next]_wikiVars => IInv'
  <2> SUFFICES ASSUME IInv, Next
               PROVE  IInv'
    BY Stutter
  <2>1. CASE \E t \in Tasks : Requests(t)
    BY <2>1, RequestsKeep
  <2>2. CASE \E t \in Workers : Proceeds(t)
    BY <2>2, ProceedsKeep
  <2>3. CASE \E c \in Places : reindex_page(c) \/ EditedByHand(c)
    BY <2>3, ReindexKeeps, EditKeeps
  <2>4. CASE Crashes
    BY <2>4, CrashKeeps
  <2> QED BY <2>1, <2>2, <2>3, <2>4 DEF Next
<1> QED BY <1>1, InitSound, PTL DEF Spec

-----------------------------------------------------------------------------
(* What it shows.                                                           *)

\* Files and rows hold contents, and while a directory is being renamed no page
\* operation holds the shared side of the lock.
THEOREM WikiTypes == Spec => []TypeOK
<1>1. IInv => TypeOK
  BY DEF IInv
<1> QED BY <1>1, Inductive, PTL

\* Whatever requests, log lines, watcher, failures, crashes and people
\* interleave, the file of a page lies under the workspace its project is in,
\* unless its move or removal is under way or was cut short: the lookup under the
\* lock and the exclusive side of the moves keep stale pages out, for any number
\* of requests at a time, though stale log lines make directories anywhere.
THEOREM FilesStayInScope == Spec => []FilesInScope
<1>1. IInv => FilesInScope
  <2> SUFFICES ASSUME IInv, NEW c \in Places, files[c] # NULL, c[2] \notin torn, ~Relocating(c[2])
               PROVE  ProjectInWorkspace(c[1], c[2])
    BY DEF FilesInScope
  <2> DEFINE d == <<c[1], c[2]>>
  <2>1. d \in PageDirs /\ d[1] = c[1] /\ d[2] = c[2]
    BY DEF PageDirs, HasPages, Places, Scopes
  <2>2. Home(d) \/ \E u \in Tasks : At(u, "restamp") /\ d = Target(u)
    BY <2>1 DEF IInv, DirsOK
  <2> HIDE DEF d
  <2>3. ~\E u \in Tasks : (At(u, "rmdir") /\ Of(u) = d) \/ (At(u, "restamp") /\ d = Target(u))
    BY <2>1 DEF Relocating, HalfDone, Of, Target
  <2> QED BY <2>1, <2>2, <2>3 DEF Home
<1> QED BY <1>1, Inductive, PTL

\* When the source of a merge is about to be purged, every page it had when it
\* was listed is in a file of the destination: the destinations are all
\* different, each is written before the next page is taken up, and a page that
\* could not be read keeps the merge from its purge.
THEOREM MergesLoseNothing == Spec => []MergeLosesNothing
<1>1. IInv => MergeLosesNothing
  <2> SUFFICES ASSUME IInv, NEW t \in Tasks, At(t, "purge"), Merging(t), NEW c \in tasks[t].merge.pages
               PROVE  /\ c.body # NULL
                      /\ \E x \in Paths : files[<<tasks[t].merge.into[1], tasks[t].merge.into[2], x>>] = c.body
    BY DEF MergeLosesNothing
  <2>1. MergeSound(t) /\ tasks[t].step = "purge"
    BY DEF IInv, MergeOK, At
  <2>2. c.body # NULL /\ Copied(t, c)
    BY <2>1 DEF MergeSound
  <2>3. tasks[t].merge.used \subseteq Paths
    BY <2>1, MergeFields DEF MergeSound
  <2> QED BY <2>1, <2>2, <2>3 DEF Copied
<1> QED BY <1>1, Inductive, PTL
===============================================================================
