----------------------------- MODULE HookIngestProofs -----------------------------
(***************************************************************************)
(* Theorems of HookIngest, for every set of scopes, sessions, places and   *)
(* tasks, every cache size and every bound: rows stay paired with scopes,  *)
(* an ended session's page has all of it, a session leaves one handoff for *)
(* each stretch of work, and no change of scopes makes a later event fail. *)
(***************************************************************************)
EXTENDS HookIngest, FiniteSetTheorems, TLAPS

-----------------------------------------------------------------------------
(* The inductive invariant.                                                 *)

\* Every row of a workspace or a project is typed, and the default project was
\* there from the start.
ScopesOK == ScopesTypeOK /\ projects[DefaultProj] # Unborn

Steps == {"scope", "lookup", "workspace", "project", "remember", "disposition", "begin",
          "observe", "read", "page", "close", "handoff", "failed", "peek", "accept"}
PlaceRows == [dir : Dirs \cup {NULL}, ws : WsNames \cup {NULL}, proj : ProjNames \cup {NULL}]

Fields(r) == DOMAIN r = {"step", "kind", "s", "place", "ws", "proj", "retried", "seen", "calm"}

Ranges(r) ==
    /\ r.step \in Steps /\ r.kind \in Kinds /\ r.place \in PlaceRows
    /\ r.retried \in BOOLEAN /\ r.calm \in BOOLEAN
    /\ r.kind # "fetch" => r.s \in Sessions

\* Only a request for a handoff comes to take one, and only an end to leave one;
\* what was read was there by now.
Fits(r, now) ==
    /\ r.kind = "fetch" => r.step \in {"lookup", "workspace", "project", "remember", "peek", "accept"}
    /\ r.kind # "fetch" => r.step \notin {"peek", "accept"}
    /\ r.step \in {"close", "handoff"} => r.kind = "end"
    /\ r.step \in {"scope", "disposition"} => ~r.retried
    /\ r.step \in {"workspace", "project"} => ProjName(r.place) # NULL
    /\ r.step \in {"page", "close", "handoff"} => r.seen \subseteq 1..now
TaskType(r) == Fields(r) /\ Ranges(r) /\ Fits(r, clock)

TasksOK ==
    /\ tasks = [t \in Tasks |-> tasks[t]]
    /\ \A t \in Tasks : tasks[t] = Idle \/ TaskType(tasks[t])

PagesOK == summaries \in [ProjectIds \X Sessions -> (SUBSET Nat) \cup {Unwritten}]

TypeInv == ScopesOK /\ RowsTypeOK /\ TasksOK /\ PagesOK

\* A reorganisation that runs alone finds its project where it left it.
PlanOK == ReorgAlone /\ reorg # NULL => admin = NULL /\ ProjectInWorkspace(reorg.ws, reorg.proj)

\* An undisturbed request: every other is, nothing is left to invalidate, and
\* from the second look on it works on scopes that are there.
Sound(t) == ProjectInWorkspace(tasks[t].ws, tasks[t].proj)
CalmTask(t) ==
    /\ tasks[t].step = "remember" => Sound(t)
    /\ tasks[t].retried /\ tasks[t].step \in {"lookup", "workspace", "project", "remember"} =>
           \A e \in cache : e.place = tasks[t].place => ProjectInWorkspace(e.ws, e.proj)
    /\ tasks[t].retried /\ tasks[t].step = "begin" => Sound(t) \/ <<tasks[t].ws, tasks[t].proj>> = Default
    /\ tasks[t].step \in {"observe", "read", "page", "close", "handoff"} => Sound(t) /\ sessions[tasks[t].s] # NULL
    /\ tasks[t].step = "failed" =>
           <<tasks[t].ws, tasks[t].proj>> = Default /\ ~ProjectInWorkspace(DefaultWs, DefaultProj)
Calm(t) == Busy(t) /\ tasks[t].calm
CalmOK == \A t \in Tasks : Calm(t) =>
    /\ admin = NULL /\ \A u \in Tasks : Busy(u) => tasks[u].calm
    /\ CalmTask(t)

\* The events of a session one at a time.
Works(t) == Busy(t) /\ tasks[t].kind # "fetch"
Alone == serial => \A t, u \in Tasks : Works(t) /\ Works(u) /\ tasks[t].s = tasks[u].s => t = u

\* What was read is all there is, and the page has it while its project is there.
Read(t) == \A o \in observations : o.s = tasks[t].s => o.at \in tasks[t].seen
Written(t) ==
    /\ tasks[t].proj \in ProjectIds /\ projects[tasks[t].proj] # Unborn
    /\ tasks[t].proj \in LiveProjects => summaries[<<tasks[t].proj, tasks[t].s>>] = tasks[t].seen
ReadOK == serial => \A t \in Tasks :
    /\ Busy(t) /\ tasks[t].step \in {"page", "close", "handoff"} => Read(t)
    /\ At(t, "close") => Written(t)

\* A session that may be ended (again): it never was, or there is work since.
NewWork(s) ==
    /\ sessions[s] # NULL
    /\ sessions[s].ended = NULL \/ \E o \in observations : o.s = s /\ o.work /\ o.at > sessions[s].ended

\* What was observed since a session's end is not only the marks of later ends.
WorkSince(s) == sessions[s] # NULL /\ sessions[s].ended # NULL =>
    \A o \in observations : o.s = s /\ o.at > sessions[s].ended => NewWork(s)

Ending(t) ==
    /\ Busy(t) /\ tasks[t].kind = "end"
    /\ \/ tasks[t].step \in {"begin", "observe", "read", "page", "close"}
       \/ tasks[t].retried /\ tasks[t].step \in {"lookup", "workspace", "project", "remember"}

\* Covered by a handoff: observations up to the end of its session.
Ended(s, covers) ==
    /\ sessions[s] # NULL /\ sessions[s].ended # NULL
    /\ \A i \in covers : i <= sessions[s].ended

Further(covers, g) == \E o \in observations : o.work /\ o.at \in covers \ g.covers

NoGone == \A p \in ProjectIds : projects[p] # Gone
WorkOK ==
    /\ \A s \in Sessions : WorkSince(s)
    /\ \A t \in Tasks : Ending(t) => NewWork(tasks[t].s)
    /\ \A h \in handoffs : h.from # NULL => Ended(h.from, h.covers)
    /\ \A t \in Tasks : At(t, "handoff") =>
           /\ Ended(tasks[t].s, tasks[t].seen)
           /\ \A g \in handoffs : g.from = tasks[t].s => Further(tasks[t].seen, g)
    /\ \A g, h \in handoffs : g.from # NULL /\ g.from = h.from /\ g.at < h.at => Further(h.covers, g)
HandoffsOK == serial /\ NoGone => WorkOK

-----------------------------------------------------------------------------
(* The scopes. What is there stays as it is, except by the administration's  *)
(* hand, and what is gone stays gone.                                        *)

Kept == \A q \in ProjectIds : projects[q] # Unborn => projects'[q] = projects[q]
Sticks == \A q \in ProjectIds :
    /\ projects[q] # Unborn => projects'[q] # Unborn
    /\ projects[q] = Gone => projects'[q] = Gone

\* A row of a project is neither mark, and its fields are what they are.
LEMMA LiveRow ==
  ASSUME ScopesOK, NEW p \in LiveProjects
  PROVE  projects[p] \in ProjectRows /\ p \in ProjectIds
BY DEF ScopesOK, ScopesTypeOK, LiveProjects

LEMMA KeptSticks == Kept => Sticks
BY NamesAssumption DEF Kept, Sticks

\* A scope that is sound after the step.
StillSound(w, p) == p \in LiveProjects' /\ projects'[p].ws = w

LEMMA KeptSound ==
  ASSUME Kept, NEW w, NEW p, ProjectInWorkspace(w, p)
  PROVE  StillSound(w, p)
BY DEF Kept, ProjectInWorkspace, StillSound, LiveProjects

\* A workspace or a project that is made disturbs none that is there.
LEMMA WorkspaceMade ==
  ASSUME ScopesOK, NEW w \in WorkspaceIds, NEW n \in WsNames, GetOrCreateWorkspace(n, w)
  PROVE  ScopesOK' /\ Kept
BY DEF ScopesOK, ScopesTypeOK, GetOrCreateWorkspace, Kept

LEMMA ProjectMade ==
  ASSUME ScopesOK, NEW w, NEW p \in ProjectIds, NEW n \in ProjNames, NEW r \in RepoPaths \cup {NULL},
         GetOrCreateProject(w, n, r, p)
  PROVE  ScopesOK' /\ Kept /\ StillSound(w, p)
<1> DEFINE row == [ws |-> w, name |-> n, repo |-> r]
<1>1. row \in ProjectRows /\ row \notin {Unborn, Gone}
  BY NamesAssumption DEF GetOrCreateProject, LiveWorkspaces, ProjectRows
<1>2. projects[p] = Unborn /\ projects' = [projects EXCEPT ![p] = row] /\ workspaces' = workspaces
  BY DEF GetOrCreateProject
<1> HIDE DEF row
<1>3. ScopesTypeOK'
  BY <1>1, <1>2 DEF ScopesOK, ScopesTypeOK
<1>4. \A q \in ProjectIds : projects'[q] = IF q = p THEN row ELSE projects[q]
  BY <1>2 DEF ScopesOK, ScopesTypeOK
<1>5. Kept
  BY <1>2, <1>4 DEF Kept
<1>6. projects'[DefaultProj] # Unborn
  BY <1>5, PlacesAssumption DEF Kept, ScopesOK
<1>7. StillSound(w, p)
  BY <1>1, <1>4 DEF StillSound, LiveProjects, row
<1> QED
  BY <1>3, <1>5, <1>6, <1>7 DEF ScopesOK

LEMMA ScopesSame == UNCHANGED scopeVars => Kept /\ (ScopesOK => ScopesOK')
BY DEF scopeVars, Kept, ScopesOK, ScopesTypeOK

\* The row of a project with another name or workspace.
LEMMA RowChanged ==
  ASSUME ScopesOK, NEW p \in LiveProjects, NEW row \in ProjectRows,
         projects' = [projects EXCEPT ![p] = row], workspaces' \in [WorkspaceIds -> WsNames \cup {Unborn, Gone}]
  PROVE  /\ ScopesOK' /\ Sticks
         /\ LiveProjects' = LiveProjects
         /\ \A q \in ProjectIds : projects'[q] = IF q = p THEN row ELSE projects[q]
<1>1. row \notin {Unborn, Gone} /\ p \in ProjectIds /\ projects[p] \notin {Unborn, Gone}
  BY NamesAssumption DEF LiveProjects
<1>2. \A q \in ProjectIds : projects'[q] = IF q = p THEN row ELSE projects[q]
  BY DEF ScopesOK, ScopesTypeOK
<1>3. ScopesTypeOK'
  BY <1>1 DEF ScopesOK, ScopesTypeOK
<1>4. Sticks
  BY <1>1, <1>2 DEF Sticks
<1>5. projects'[DefaultProj] # Unborn
  BY <1>4, PlacesAssumption DEF Sticks, ScopesOK
<1>6. LiveProjects' = LiveProjects
  BY <1>1, <1>2 DEF LiveProjects
<1> QED
  BY <1>2, <1>3, <1>4, <1>5, <1>6 DEF ScopesOK

\* The projects that are dropped are gone, the others are as they were.
LEMMA ProjectsDropped ==
  ASSUME ScopesOK, NEW ps \in SUBSET LiveProjects, DropProjects(ps),
         workspaces' \in [WorkspaceIds -> WsNames \cup {Unborn, Gone}]
  PROVE  /\ ScopesOK' /\ Sticks
         /\ LiveProjects' = LiveProjects \ ps
         /\ \A q \in ProjectIds : projects'[q] = IF q \in ps THEN Gone ELSE projects[q]
<1>1. ps \subseteq ProjectIds /\ \A q \in ps : projects[q] \notin {Unborn, Gone}
  BY DEF LiveProjects
<1>2. \A q \in ProjectIds : projects'[q] = IF q \in ps THEN Gone ELSE projects[q]
  BY DEF DropProjects
<1>3. ScopesTypeOK'
  BY DEF ScopesOK, ScopesTypeOK, DropProjects
<1>4. Sticks
  BY <1>1, <1>2, NamesAssumption DEF Sticks
<1>5. projects'[DefaultProj] # Unborn
  BY <1>4, PlacesAssumption DEF Sticks, ScopesOK
<1>6. LiveProjects' = LiveProjects \ ps
  BY <1>1, <1>2 DEF LiveProjects
<1> QED
  BY <1>2, <1>3, <1>4, <1>5, <1>6 DEF ScopesOK

-----------------------------------------------------------------------------
(* The rows.                                                                *)

\* A session's row, field by field.
LEMMA SessionRow ==
  ASSUME RowsTypeOK, NEW s \in Sessions, sessions[s] # NULL
  PROVE  /\ sessions[s] \in SessionRows
         /\ sessions[s] = [ws |-> sessions[s].ws, proj |-> sessions[s].proj, dir |-> sessions[s].dir,
                           ended |-> sessions[s].ended, page |-> sessions[s].page]
         /\ sessions[s].ws \in WorkspaceIds /\ sessions[s].proj \in ProjectIds
         /\ sessions[s].dir \in Dirs \cup {NULL} /\ sessions[s].ended \in 0..clock \cup {NULL}
         /\ sessions[s].page \in ProjectIds \cup {NULL}
BY DEF RowsTypeOK, SessionRows

LEMMA SoundTypes ==
  ASSUME ScopesOK, NEW w, NEW p, ProjectInWorkspace(w, p)
  PROVE  p \in ProjectIds /\ w \in WorkspaceIds /\ p \in LiveProjects /\ projects[p] # Unborn
<1>1. p \in LiveProjects /\ projects[p].ws = w
  BY DEF ProjectInWorkspace
<1>2. projects[p] \in ProjectRows /\ p \in ProjectIds
  BY <1>1, LiveRow
<1> QED
  BY <1>1, <1>2 DEF ProjectRows, LiveProjects

LEMMA RowsSame == RowsTypeOK /\ UNCHANGED rowVars => RowsTypeOK'
BY DEF RowsTypeOK, rowVars

\* What a new session changes, and what it keeps.
LEMMA SessionBegun ==
  ASSUME ScopesOK, RowsTypeOK, NEW s \in Sessions, NEW w, NEW p, NEW d \in Dirs \cup {NULL}, begin_session(s, w, p, d)
  PROVE  /\ RowsTypeOK'
         /\ sessions'[s] # NULL
         /\ \A x \in Sessions : sessions[x] # NULL => sessions'[x] = sessions[x]
         /\ \A x \in Sessions \ {s} : sessions'[x] = sessions[x]
         /\ sessions[s] = NULL => /\ sessions'[s].ws = w /\ sessions'[s].proj = p
                                  /\ sessions'[s].ended = NULL /\ sessions'[s].page = NULL
         /\ UNCHANGED <<observations, handoffs, clock>>
<1> DEFINE row == [ws |-> w, proj |-> p, dir |-> d, ended |-> NULL, page |-> NULL]
<1>1. p \in ProjectIds /\ w \in WorkspaceIds
  BY SoundTypes DEF begin_session
<1>2. row \in SessionRows /\ row # NULL
  BY <1>1, RowsAssumption DEF SessionRows
<1>3. sessions' = IF sessions[s] # NULL THEN sessions ELSE [sessions EXCEPT ![s] = row]
  BY DEF begin_session
<1>4. UNCHANGED <<observations, handoffs, clock>>
  BY DEF begin_session
<1>5. row.ws = w /\ row.proj = p /\ row.ended = NULL /\ row.page = NULL
  OBVIOUS
<1> HIDE DEF row
<1>6. sessions \in [Sessions -> SessionRows \cup {NULL}]
  BY DEF RowsTypeOK
<1>7. \A x \in Sessions : sessions'[x] = IF x = s /\ sessions[s] = NULL THEN row ELSE sessions[x]
  BY <1>3, <1>6
<1>8. RowsTypeOK'
  BY <1>2, <1>3, <1>4, <1>5, <1>6, <1>7 DEF RowsTypeOK
<1> QED
  BY <1>2, <1>4, <1>5, <1>7, <1>8

\* The observation that is made.
Observed(s, w, p, work) ==
    /\ clock' = clock + 1
    /\ sessions[s] # NULL /\ ProjectInWorkspace(w, p)
    /\ \A o \in observations' \ observations : o.at = clock' /\ o.s = s /\ o.ws = w /\ o.proj = p /\ o.work = work
    /\ observations \subseteq observations' /\ \E o \in observations' : o.at = clock' /\ o.s = s /\ o.work = work
    /\ UNCHANGED <<sessions, handoffs>>
LEMMA ObservationInserted ==
  ASSUME ScopesOK, RowsTypeOK, NEW s \in Sessions, NEW w, NEW p, NEW work \in BOOLEAN, insert_observation(s, w, p, work)
  PROVE  RowsTypeOK' /\ Observed(s, w, p, work)
<1> DEFINE new == [at |-> clock', s |-> s, ws |-> w, proj |-> p, work |-> work]
<1>1. p \in ProjectIds /\ w \in WorkspaceIds
  BY SoundTypes DEF insert_observation
<1>2. clock' = clock + 1 /\ clock \in Nat /\ observations' = observations \cup {new} /\ UNCHANGED <<sessions, handoffs>>
  BY DEF insert_observation, RowsTypeOK
<1>3. 1..clock \subseteq 1..clock' /\ 0..clock \subseteq 0..clock' /\ clock' \in 1..clock' /\ clock' \in Nat
  BY <1>2
<1>4. new \in [at : 1..clock', s : Sessions, ws : WorkspaceIds, proj : ProjectIds, work : BOOLEAN]
  BY <1>1, <1>3
<1>5. new.at = clock' /\ new.s = s /\ new.ws = w /\ new.proj = p /\ new.work = work
  OBVIOUS
<1> HIDE DEF new
<1>6. RowsTypeOK'
  <2>1. observations' \subseteq [at : 1..clock', s : Sessions, ws : WorkspaceIds, proj : ProjectIds, work : BOOLEAN]
    BY <1>2, <1>3, <1>4 DEF RowsTypeOK
  <2>2. handoffs' \subseteq [at : 1..clock', ws : WorkspaceIds, proj : ProjectIds, from : Sessions \cup {NULL},
                           dir : Dirs \cup {NULL}, covers : SUBSET (1..clock'), state : {"open", "accepted", "expired"}]
    BY <1>2, <1>3 DEF RowsTypeOK
  <2>3. \A x \in Sessions : sessions'[x] # NULL => sessions'[x].ended \in 0..clock' \cup {NULL}
    BY <1>2, <1>3 DEF RowsTypeOK
  <2> QED
    BY <1>2, <1>3, <2>1, <2>2, <2>3 DEF RowsTypeOK
<1> QED
  BY <1>2, <1>5, <1>6 DEF insert_observation, Observed

\* A row that is stamped with its end.
Stamped(r, c, p) == [r EXCEPT !.ended = c, !.page = p]
LEMMA RowEnded ==
  ASSUME NEW r \in SessionRows, NEW c \in Nat, NEW p \in ProjectIds
  PROVE  /\ Stamped(r, c, p) \in SessionRows
         /\ Stamped(r, c, p).ws = r.ws /\ Stamped(r, c, p).proj = r.proj
         /\ Stamped(r, c, p).ended = c /\ Stamped(r, c, p).page = p
<1> DEFINE h == [r EXCEPT !.ended = c]
<1>1. h \in SessionRows /\ h.ws = r.ws /\ h.proj = r.proj /\ h.ended = c
  BY DEF SessionRows
<1>2. Stamped(r, c, p) = [h EXCEPT !.page = p]
  BY DEF Stamped
<1> HIDE DEF h
<1> DEFINE e == [h EXCEPT !.page = p]
<1>3. e \in SessionRows /\ e.ws = h.ws /\ e.proj = h.proj /\ e.ended = h.ended /\ e.page = p
  BY <1>1 DEF SessionRows
<1> QED
  BY <1>1, <1>2, <1>3

LEMMA SessionEnded ==
  ASSUME ScopesOK, RowsTypeOK, NEW s \in Sessions, NEW p, end_session(s, p)
  PROVE  /\ RowsTypeOK'
         /\ \A x \in Sessions \ {s} : sessions'[x] = sessions[x]
         /\ sessions[s] = NULL => sessions'[s] = NULL
         /\ sessions[s] # NULL => /\ p \in LiveProjects
                                  /\ sessions'[s] # NULL
                                  /\ sessions'[s].ws = sessions[s].ws /\ sessions'[s].proj = sessions[s].proj
                                  /\ sessions'[s].ended = clock /\ sessions'[s].page = p
         /\ UNCHANGED <<observations, handoffs, clock>>
<1>1. CASE sessions[s] = NULL
  BY <1>1, RowsSame DEF end_session, rowVars
<1>2. CASE sessions[s] # NULL
  <2> DEFINE row == Stamped(sessions[s], clock, p)
  <2>1. p \in LiveProjects /\ p \in ProjectIds /\ clock \in Nat
    BY <1>2, LiveRow DEF end_session, RowsTypeOK
  <2>3. sessions' = [sessions EXCEPT ![s] = row] /\ UNCHANGED <<observations, handoffs, clock>>
    BY <1>2 DEF end_session, Stamped
  <2>4. sessions[s] \in SessionRows
    BY <1>2, SessionRow
  <2>5. /\ row \in SessionRows /\ row # NULL
        /\ row.ws = sessions[s].ws /\ row.proj = sessions[s].proj /\ row.ended = clock /\ row.page = p
    BY <2>1, <2>4, RowEnded, RowsAssumption
  <2> HIDE DEF row
  <2>6. sessions \in [Sessions -> SessionRows \cup {NULL}]
    BY DEF RowsTypeOK
  <2>7. \A x \in Sessions : sessions'[x] = IF x = s THEN row ELSE sessions[x]
    BY <2>3, <2>6
  <2>8. RowsTypeOK'
    BY <2>1, <2>3, <2>5, <2>6, <2>7 DEF RowsTypeOK
  <2> QED
    BY <1>2, <2>1, <2>3, <2>5, <2>7, <2>8
<1> QED
  BY <1>1, <1>2

\* The handoff that is made.
HandedOver(w, p, from, covers) ==
    /\ clock' = clock + 1 /\ ProjectInWorkspace(w, p)
    /\ from # NULL => sessions[from] # NULL
    /\ \A h \in handoffs' \ handoffs : h.at = clock' /\ h.ws = w /\ h.proj = p /\ h.from = from /\ h.covers = covers
    /\ handoffs \subseteq handoffs'
    /\ UNCHANGED <<sessions, observations>>

LEMMA HandoffInserted ==
  ASSUME ScopesOK, RowsTypeOK, NEW w, NEW p, NEW from \in Sessions \cup {NULL}, NEW d \in Dirs \cup {NULL},
         NEW covers \in SUBSET (1..clock), insert_handoff(w, p, from, d, covers)
  PROVE  RowsTypeOK' /\ HandedOver(w, p, from, covers)
<1> DEFINE new == [at |-> clock', ws |-> w, proj |-> p, from |-> from, dir |-> d, covers |-> covers, state |-> "open"]
<1>1. p \in ProjectIds /\ w \in WorkspaceIds
  BY SoundTypes DEF insert_handoff
<1>2. clock' = clock + 1 /\ clock \in Nat /\ handoffs' = handoffs \cup {new} /\ UNCHANGED <<sessions, observations>>
  BY DEF insert_handoff, RowsTypeOK
<1>3. 1..clock \subseteq 1..clock' /\ 0..clock \subseteq 0..clock' /\ clock' \in 1..clock' /\ clock' \in Nat
  BY <1>2
<1>4. new \in [at : 1..clock', ws : WorkspaceIds, proj : ProjectIds, from : Sessions \cup {NULL},
               dir : Dirs \cup {NULL}, covers : SUBSET (1..clock'), state : {"open", "accepted", "expired"}]
  BY <1>1, <1>3
<1>5. new.at = clock' /\ new.ws = w /\ new.proj = p /\ new.from = from /\ new.covers = covers
  OBVIOUS
<1> HIDE DEF new
<1>6. RowsTypeOK'
  <2>1. observations' \subseteq [at : 1..clock', s : Sessions, ws : WorkspaceIds, proj : ProjectIds, work : BOOLEAN]
    BY <1>2, <1>3 DEF RowsTypeOK
  <2>2. handoffs' \subseteq [at : 1..clock', ws : WorkspaceIds, proj : ProjectIds, from : Sessions \cup {NULL},
                           dir : Dirs \cup {NULL}, covers : SUBSET (1..clock'), state : {"open", "accepted", "expired"}]
    BY <1>2, <1>3, <1>4 DEF RowsTypeOK
  <2>3. \A x \in Sessions : sessions'[x] # NULL => sessions'[x].ended \in 0..clock' \cup {NULL}
    BY <1>2, <1>3 DEF RowsTypeOK
  <2> QED
    BY <1>2, <1>3, <2>1, <2>2, <2>3 DEF RowsTypeOK
<1> QED
  BY <1>2, <1>5, <1>6 DEF insert_handoff, HandedOver

\* Handoffs that were there before, but for what a step may change in them.
Descend(g, h) == g.at = h.at /\ g.proj = h.proj /\ g.covers = h.covers

LEMMA HandoffSettled ==
  ASSUME RowsTypeOK, NEW h \in handoffs, NEW state \in {"open", "accepted", "expired"}, Settle(h, state)
  PROVE  /\ RowsTypeOK'
         /\ \A x \in handoffs' : \E y \in handoffs : Descend(x, y) /\ x.ws = y.ws /\ x.from = y.from
         /\ UNCHANGED <<sessions, observations, clock>>
<1> DEFINE Settled(x) == IF x.at = h.at /\ x.state = "open" THEN [x EXCEPT !.state = state] ELSE x
<1>1. handoffs' = {Settled(x) : x \in handoffs} /\ UNCHANGED <<sessions, observations, clock>>
  BY DEF Settle
<1>2. ASSUME NEW x \in handoffs
      PROVE  /\ Settled(x) \in [at : 1..clock, ws : WorkspaceIds, proj : ProjectIds, from : Sessions \cup {NULL},
                    dir : Dirs \cup {NULL}, covers : SUBSET (1..clock), state : {"open", "accepted", "expired"}]
             /\ Descend(Settled(x), x) /\ Settled(x).ws = x.ws /\ Settled(x).from = x.from
  BY DEF RowsTypeOK, Descend
<1> HIDE DEF Settled
<1>3. handoffs' \subseteq [at : 1..clock, ws : WorkspaceIds, proj : ProjectIds, from : Sessions \cup {NULL},
                    dir : Dirs \cup {NULL}, covers : SUBSET (1..clock), state : {"open", "accepted", "expired"}]
  BY <1>1, <1>2
<1>4. RowsTypeOK'
  BY <1>1, <1>3 DEF RowsTypeOK
<1> QED
  BY <1>1, <1>2, <1>4

\* The rows that go with some projects.
Dropped(ps) == {s \in Sessions : sessions[s] # NULL /\ sessions[s].proj \in ps}

LEMMA RowsDropped ==
  ASSUME RowsTypeOK, NEW ps \in SUBSET ProjectIds, DropRows(ps)
  PROVE  /\ RowsTypeOK'
         /\ \A s \in Sessions :
                IF s \in Dropped(ps) \/ sessions[s] = NULL THEN sessions'[s] = NULL
                ELSE /\ sessions'[s] # NULL
                     /\ sessions'[s].ws = sessions[s].ws /\ sessions'[s].proj = sessions[s].proj
                     /\ sessions'[s].ended = sessions[s].ended
                     /\ sessions'[s].page \in ({sessions[s].page} \ ps) \cup {NULL}
         /\ observations' = {o \in observations : o.proj \notin ps /\ o.s \notin Dropped(ps)}
         /\ \A h \in handoffs' : /\ h.proj \notin ps /\ h.from \notin Dropped(ps)
                                 /\ \E g \in handoffs : Descend(h, g) /\ h.ws = g.ws /\ h.from \in {g.from, NULL}
         /\ clock' = clock
<1> DEFINE row(s) == IF s \in Dropped(ps) THEN NULL
           ELSE IF sessions[s] # NULL /\ sessions[s].page \in ps THEN [sessions[s] EXCEPT !.page = NULL]
           ELSE sessions[s]
           kept(h) == IF h.from \in Dropped(ps) THEN [h EXCEPT !.from = NULL] ELSE h
<1>1. /\ sessions' = [s \in Sessions |-> row(s)]
      /\ observations' = {o \in observations : o.proj \notin ps /\ o.s \notin Dropped(ps)}
      /\ handoffs' = {kept(h) : h \in {x \in handoffs : x.proj \notin ps}}
      /\ clock' = clock
  BY DEF DropRows, Dropped
<1>2. ASSUME NEW s \in Sessions, s \notin Dropped(ps), sessions[s] # NULL
      PROVE  /\ row(s) \in SessionRows
             /\ row(s).ws = sessions[s].ws /\ row(s).proj = sessions[s].proj
             /\ row(s).ended = sessions[s].ended /\ row(s).page \in ({sessions[s].page} \ ps) \cup {NULL}
  <2>1. sessions[s] \in SessionRows
    BY <1>2, SessionRow
  <2> QED
    BY <1>2, <2>1 DEF SessionRows
<1>3. ASSUME NEW s \in Sessions, s \in Dropped(ps) \/ sessions[s] = NULL PROVE row(s) = NULL
  BY <1>3
<1>4. ASSUME NEW h \in handoffs, h.proj \notin ps
      PROVE  /\ kept(h) \in [at : 1..clock, ws : WorkspaceIds, proj : ProjectIds, from : Sessions \cup {NULL},
                    dir : Dirs \cup {NULL}, covers : SUBSET (1..clock), state : {"open", "accepted", "expired"}]
             /\ Descend(kept(h), h) /\ kept(h).ws = h.ws /\ kept(h).from \in {h.from, NULL}
             /\ kept(h).from \notin Dropped(ps)
  BY <1>4, RowsAssumption DEF RowsTypeOK, Descend, Dropped
<1> HIDE DEF row, kept
<1>5. handoffs' \subseteq [at : 1..clock, ws : WorkspaceIds, proj : ProjectIds, from : Sessions \cup {NULL},
                    dir : Dirs \cup {NULL}, covers : SUBSET (1..clock), state : {"open", "accepted", "expired"}]
  BY <1>1, <1>4
<1>6. \A s \in Sessions : sessions'[s] = row(s)
  BY <1>1
<1>7. sessions' \in [Sessions -> SessionRows \cup {NULL}]
  BY <1>1, <1>2, <1>3
<1>8. \A s \in Sessions : sessions'[s] # NULL => sessions'[s].ended \in 0..clock' \cup {NULL}
  BY <1>1, <1>2, <1>3, <1>6 DEF RowsTypeOK
<1>9. RowsTypeOK'
  BY <1>1, <1>5, <1>7, <1>8 DEF RowsTypeOK
<1>10. \A s \in Sessions :
                IF s \in Dropped(ps) \/ sessions[s] = NULL THEN sessions'[s] = NULL
                ELSE /\ sessions'[s] # NULL
                     /\ sessions'[s].ws = sessions[s].ws /\ sessions'[s].proj = sessions[s].proj
                     /\ sessions'[s].ended = sessions[s].ended
                     /\ sessions'[s].page \in ({sessions[s].page} \ ps) \cup {NULL}
  BY <1>2, <1>3, <1>6, RowsAssumption
<1>11. \A h \in handoffs' : /\ h.proj \notin ps /\ h.from \notin Dropped(ps)
                                 /\ \E g \in handoffs : Descend(h, g) /\ h.ws = g.ws /\ h.from \in {g.from, NULL}
  BY <1>1, <1>4 DEF Descend
<1> QED
  BY <1>1, <1>9, <1>10, <1>11

\* Observations of the same sessions at the same times, in both directions.
SameObservations ==
    /\ \A o \in observations' : \E x \in observations : o.at = x.at /\ o.s = x.s /\ o.work = x.work
    /\ \A o \in observations : \E x \in observations' : o.at = x.at /\ o.s = x.s /\ o.work = x.work

\* A project's rows take its new workspace.
LEMMA RowsRestamped ==
  ASSUME RowsTypeOK, NEW p, NEW w \in WorkspaceIds, RestampRows(p, w)
  PROVE  /\ RowsTypeOK'
         /\ \A s \in Sessions :
                IF sessions[s] = NULL THEN sessions'[s] = NULL
                ELSE /\ sessions'[s] # NULL
                     /\ sessions'[s].ws = (IF sessions[s].proj = p THEN w ELSE sessions[s].ws)
                     /\ sessions'[s].proj = sessions[s].proj
                     /\ sessions'[s].ended = sessions[s].ended /\ sessions'[s].page = sessions[s].page
         /\ \A o \in observations' : \E x \in observations :
                o.s = x.s /\ o.proj = x.proj /\ o.ws = IF x.proj = p THEN w ELSE x.ws
         /\ SameObservations
         /\ \A h \in handoffs' : \E g \in handoffs :
                Descend(h, g) /\ h.from = g.from /\ h.ws = IF g.proj = p THEN w ELSE g.ws
         /\ clock' = clock
<1> DEFINE row(s) == IF sessions[s] # NULL /\ sessions[s].proj = p THEN [sessions[s] EXCEPT !.ws = w] ELSE sessions[s]
           obs(o) == IF o.proj = p THEN [o EXCEPT !.ws = w] ELSE o
           hand(h) == IF h.proj = p THEN [h EXCEPT !.ws = w] ELSE h
<1>1. /\ sessions' = [s \in Sessions |-> row(s)]
      /\ observations' = {obs(o) : o \in observations}
      /\ handoffs' = {hand(h) : h \in handoffs}
      /\ clock' = clock
  BY DEF RestampRows
<1>2. ASSUME NEW s \in Sessions, sessions[s] # NULL
      PROVE  /\ row(s) \in SessionRows
             /\ row(s).ws = (IF sessions[s].proj = p THEN w ELSE sessions[s].ws)
             /\ row(s).proj = sessions[s].proj
             /\ row(s).ended = sessions[s].ended /\ row(s).page = sessions[s].page
  <2>1. sessions[s] \in SessionRows
    BY <1>2, SessionRow
  <2> QED
    BY <1>2, <2>1 DEF SessionRows
<1>3. ASSUME NEW s \in Sessions, sessions[s] = NULL PROVE row(s) = NULL
  BY <1>3
<1>4. ASSUME NEW o \in observations
      PROVE  /\ obs(o) \in [at : 1..clock, s : Sessions, ws : WorkspaceIds, proj : ProjectIds, work : BOOLEAN]
             /\ obs(o).at = o.at /\ obs(o).s = o.s /\ obs(o).work = o.work /\ obs(o).proj = o.proj
             /\ obs(o).ws = IF o.proj = p THEN w ELSE o.ws
  BY DEF RowsTypeOK
<1>5. ASSUME NEW h \in handoffs
      PROVE  /\ hand(h) \in [at : 1..clock, ws : WorkspaceIds, proj : ProjectIds, from : Sessions \cup {NULL},
                    dir : Dirs \cup {NULL}, covers : SUBSET (1..clock), state : {"open", "accepted", "expired"}]
             /\ Descend(hand(h), h) /\ hand(h).from = h.from /\ hand(h).ws = IF h.proj = p THEN w ELSE h.ws
  BY DEF RowsTypeOK, Descend
<1> HIDE DEF row, obs, hand
<1>6. \A s \in Sessions : sessions'[s] = row(s)
  BY <1>1
<1>7. RowsTypeOK'
  <2>1. sessions' \in [Sessions -> SessionRows \cup {NULL}]
    BY <1>1, <1>2, <1>3
  <2>2. \A s \in Sessions : sessions'[s] # NULL => sessions'[s].ended \in 0..clock' \cup {NULL}
    BY <1>1, <1>2, <1>3, <1>6 DEF RowsTypeOK
  <2>3. observations' \subseteq [at : 1..clock, s : Sessions, ws : WorkspaceIds, proj : ProjectIds, work : BOOLEAN]
    BY <1>1, <1>4
  <2>4. handoffs' \subseteq [at : 1..clock, ws : WorkspaceIds, proj : ProjectIds, from : Sessions \cup {NULL},
                    dir : Dirs \cup {NULL}, covers : SUBSET (1..clock), state : {"open", "accepted", "expired"}]
    BY <1>1, <1>5
  <2> QED
    BY <1>1, <2>1, <2>2, <2>3, <2>4 DEF RowsTypeOK
<1>8. \A s \in Sessions :
                IF sessions[s] = NULL THEN sessions'[s] = NULL
                ELSE /\ sessions'[s] # NULL
                     /\ sessions'[s].ws = (IF sessions[s].proj = p THEN w ELSE sessions[s].ws)
                     /\ sessions'[s].proj = sessions[s].proj
                     /\ sessions'[s].ended = sessions[s].ended /\ sessions'[s].page = sessions[s].page
  BY <1>2, <1>3, <1>6, RowsAssumption
<1>9. SameObservations
  <2>1. \A o \in observations' : \E x \in observations : o = obs(x)
    BY <1>1
  <2>2. \A o \in observations : obs(o) \in observations'
    BY <1>1
  <2> QED
    BY <2>1, <2>2, <1>4 DEF SameObservations
<1>10. \A o \in observations' : \E x \in observations :
                o.s = x.s /\ o.proj = x.proj /\ o.ws = IF x.proj = p THEN w ELSE x.ws
  BY <1>1, <1>4
<1>11. \A h \in handoffs' : \E g \in handoffs :
                Descend(h, g) /\ h.from = g.from /\ h.ws = IF g.proj = p THEN w ELSE g.ws
  BY <1>1, <1>5
<1> QED
  BY <1>1, <1>7, <1>8, <1>9, <1>10, <1>11

\* Sessions of a workspace get another project.
LEMMA RowsReorganised ==
  ASSUME ScopesOK, RowsTypeOK, NEW p, NEW w, NEW moved, reorg_sessions(w, p, moved)
  PROVE  /\ RowsTypeOK'
         /\ \A s \in Sessions :
                IF sessions[s] = NULL THEN sessions'[s] = NULL
                ELSE /\ sessions'[s] # NULL
                     /\ sessions'[s].ws = sessions[s].ws
                     /\ sessions'[s].proj = (IF s \in moved /\ sessions[s].ws = w THEN p ELSE sessions[s].proj)
                     /\ sessions'[s].ended = sessions[s].ended /\ sessions'[s].page = sessions[s].page
         /\ \A o \in observations' : \E x \in observations :
                o.s = x.s /\ o.ws = x.ws /\ ((o.proj = x.proj) \/ (x.ws = w /\ o.proj = p))
         /\ SameObservations
         /\ UNCHANGED <<handoffs, clock>>
<1> DEFINE row(s) == IF s \in moved /\ sessions[s] # NULL /\ sessions[s].ws = w
                     THEN [sessions[s] EXCEPT !.proj = p] ELSE sessions[s]
           obs(o) == IF o.s \in moved /\ o.ws = w THEN [o EXCEPT !.proj = p] ELSE o
<1>1. /\ sessions' = [s \in Sessions |-> row(s)]
      /\ observations' = {obs(o) : o \in observations}
      /\ UNCHANGED <<handoffs, clock>>
      /\ p \in ProjectIds
  BY DEF reorg_sessions, LiveProjects
<1>2. ASSUME NEW s \in Sessions, sessions[s] # NULL
      PROVE  /\ row(s) \in SessionRows
             /\ row(s).ws = sessions[s].ws
             /\ row(s).proj = (IF s \in moved /\ sessions[s].ws = w THEN p ELSE sessions[s].proj)
             /\ row(s).ended = sessions[s].ended /\ row(s).page = sessions[s].page
  <2>1. sessions[s] \in SessionRows
    BY <1>2, SessionRow
  <2> QED
    BY <1>1, <1>2, <2>1 DEF SessionRows
<1>3. ASSUME NEW s \in Sessions, sessions[s] = NULL PROVE row(s) = NULL
  BY <1>3
<1>4. ASSUME NEW o \in observations
      PROVE  /\ obs(o) \in [at : 1..clock, s : Sessions, ws : WorkspaceIds, proj : ProjectIds, work : BOOLEAN]
             /\ obs(o).at = o.at /\ obs(o).s = o.s /\ obs(o).work = o.work /\ obs(o).ws = o.ws
             /\ (obs(o).proj = o.proj) \/ (o.ws = w /\ obs(o).proj = p)
  <2>1. o \in [at : 1..clock, s : Sessions, ws : WorkspaceIds, proj : ProjectIds, work : BOOLEAN]
    BY DEF RowsTypeOK
  <2>2. CASE o.s \in moved /\ o.ws = w
    BY <1>1, <2>1, <2>2
  <2>3. CASE ~(o.s \in moved /\ o.ws = w)
    BY <2>1, <2>3
  <2> QED
    BY <2>2, <2>3
<1> HIDE DEF row, obs
<1>6. \A s \in Sessions : sessions'[s] = row(s)
  BY <1>1
<1>7. RowsTypeOK'
  <2>1. sessions' \in [Sessions -> SessionRows \cup {NULL}]
    BY <1>1, <1>2, <1>3
  <2>2. \A s \in Sessions : sessions'[s] # NULL => sessions'[s].ended \in 0..clock' \cup {NULL}
    BY <1>1, <1>2, <1>3, <1>6 DEF RowsTypeOK
  <2>3. observations' \subseteq [at : 1..clock, s : Sessions, ws : WorkspaceIds, proj : ProjectIds, work : BOOLEAN]
    BY <1>1, <1>4
  <2> QED
    BY <1>1, <2>1, <2>2, <2>3 DEF RowsTypeOK
<1>8. \A s \in Sessions :
                IF sessions[s] = NULL THEN sessions'[s] = NULL
                ELSE /\ sessions'[s] # NULL
                     /\ sessions'[s].ws = sessions[s].ws
                     /\ sessions'[s].proj = (IF s \in moved /\ sessions[s].ws = w THEN p ELSE sessions[s].proj)
                     /\ sessions'[s].ended = sessions[s].ended /\ sessions'[s].page = sessions[s].page
  BY <1>2, <1>3, <1>6, RowsAssumption
<1>9. SameObservations
  <2>1. \A o \in observations' : \E x \in observations : o = obs(x)
    BY <1>1
  <2>2. \A o \in observations : obs(o) \in observations'
    BY <1>1
  <2> QED
    BY <2>1, <2>2, <1>4 DEF SameObservations
<1>10. \A o \in observations' : \E x \in observations :
                o.s = x.s /\ o.ws = x.ws /\ ((o.proj = x.proj) \/ (x.ws = w /\ o.proj = p))
  <2>1. \A o \in observations' : \E x \in observations : o = obs(x)
    BY <1>1
  <2> QED
    BY <2>1, <1>4
<1> QED
  BY <1>1, <1>7, <1>8, <1>9, <1>10

-----------------------------------------------------------------------------
(* The tasks. A step of a request changes nothing of the others.            *)

Others(t) == \A u \in Tasks \ {t} : tasks'[u] = tasks[u]

\* The same request, at another step.
Same(t) ==
    /\ tasks' = [u \in Tasks |-> tasks'[u]] /\ Others(t)
    /\ tasks'[t] # Idle /\ Fields(tasks'[t])
    /\ tasks'[t].kind = tasks[t].kind /\ tasks'[t].s = tasks[t].s
    /\ tasks'[t].place = tasks[t].place /\ tasks'[t].calm = tasks[t].calm
Left(t) == tasks' = [u \in Tasks |-> tasks'[u]] /\ Others(t) /\ tasks'[t] = Idle
SameScope(t) == tasks'[t].ws = tasks[t].ws /\ tasks'[t].proj = tasks[t].proj
SameRead(t) == tasks'[t].seen = tasks[t].seen
SameTry(t) == tasks'[t].retried = tasks[t].retried

LEMMA BusyType ==
  ASSUME TasksOK, NEW t \in Tasks, Busy(t)
  PROVE  TaskType(tasks[t]) /\ Fields(tasks[t]) /\ tasks = [u \in Tasks |-> tasks[u]]
BY DEF TasksOK, Busy, TaskType

LEMMA EndsTask ==
  ASSUME TasksOK, NEW t \in Tasks, Ends(t)
  PROVE  Left(t)
BY DEF TasksOK, Ends, Left, Others

LEMMA GotoTask ==
  ASSUME TasksOK, NEW t \in Tasks, Busy(t), NEW step \in Steps, Goto(t, step)
  PROVE  Same(t) /\ SameScope(t) /\ SameRead(t) /\ SameTry(t) /\ tasks'[t].step = step
<1>1. Fields(tasks[t]) /\ tasks = [u \in Tasks |-> tasks[u]]
  BY BusyType
<1>2. tasks' = [tasks EXCEPT ![t] = [tasks[t] EXCEPT !.step = step]]
  BY DEF Goto
<1> DEFINE r == [tasks[t] EXCEPT !.step = step]
<1>3. Fields(r) /\ r.step = step /\ r.kind = tasks[t].kind /\ r.s = tasks[t].s /\ r.place = tasks[t].place
      /\ r.calm = tasks[t].calm /\ r.ws = tasks[t].ws /\ r.proj = tasks[t].proj /\ r.seen = tasks[t].seen
      /\ r.retried = tasks[t].retried
  BY <1>1 DEF Fields
<1> HIDE DEF r
<1>4. r # Idle
  BY <1>3 DEF Idle, Steps
<1> QED
  BY <1>1, <1>2, <1>3, <1>4 DEF Same, Others, SameScope, SameRead, SameTry, r

LEMMA ResolvedTask ==
  ASSUME TasksOK, NEW t \in Tasks, Busy(t), NEW scope, Resolved(t, scope)
  PROVE  /\ Same(t) /\ SameRead(t) /\ SameTry(t)
         /\ tasks'[t].step = AfterScope(t) /\ tasks'[t].ws = scope[1] /\ tasks'[t].proj = scope[2]
<1>1. Fields(tasks[t]) /\ tasks = [u \in Tasks |-> tasks[u]]
  BY BusyType
<1> DEFINE r == [tasks[t] EXCEPT !.step = AfterScope(t), !.ws = scope[1], !.proj = scope[2]]
<1>2. tasks' = [tasks EXCEPT ![t] = r]
  BY DEF Resolved
<1>3. Fields(r) /\ r.step = AfterScope(t) /\ r.kind = tasks[t].kind /\ r.s = tasks[t].s /\ r.place = tasks[t].place
      /\ r.calm = tasks[t].calm /\ r.ws = scope[1] /\ r.proj = scope[2] /\ r.seen = tasks[t].seen
      /\ r.retried = tasks[t].retried
  BY <1>1 DEF Fields
<1> HIDE DEF r
<1>4. r # Idle
  BY <1>3 DEF Idle, AfterScope
<1> QED
  BY <1>1, <1>2, <1>3, <1>4 DEF Same, Others, SameRead, SameTry

\* Likewise with a workspace, a project, another try, or what was read.
LEMMA WorkspaceTask ==
  ASSUME TasksOK, NEW t \in Tasks, Busy(t), NEW w,
         tasks' = [tasks EXCEPT ![t] = [@ EXCEPT !.step = "project", !.ws = w]]
  PROVE  Same(t) /\ SameRead(t) /\ SameTry(t) /\ tasks'[t].step = "project" /\ tasks'[t].ws = w
<1>1. Fields(tasks[t]) /\ tasks = [u \in Tasks |-> tasks[u]]
  BY BusyType
<1> DEFINE r == [tasks[t] EXCEPT !.step = "project", !.ws = w]
<1>2. tasks' = [tasks EXCEPT ![t] = r]
  OBVIOUS
<1>3. Fields(r) /\ r.step = "project" /\ r.kind = tasks[t].kind /\ r.s = tasks[t].s /\ r.place = tasks[t].place
      /\ r.calm = tasks[t].calm /\ r.ws = w /\ r.seen = tasks[t].seen /\ r.retried = tasks[t].retried
  BY <1>1 DEF Fields
<1> HIDE DEF r
<1>4. r # Idle
  BY <1>3 DEF Idle
<1> QED
  BY <1>1, <1>2, <1>3, <1>4 DEF Same, Others, SameRead, SameTry

LEMMA ProjectTask ==
  ASSUME TasksOK, NEW t \in Tasks, Busy(t), NEW p,
         tasks' = [tasks EXCEPT ![t] = [@ EXCEPT !.step = "remember", !.proj = p]]
  PROVE  Same(t) /\ SameRead(t) /\ SameTry(t) /\ tasks'[t].step = "remember"
         /\ tasks'[t].ws = tasks[t].ws /\ tasks'[t].proj = p
<1>1. Fields(tasks[t]) /\ tasks = [u \in Tasks |-> tasks[u]]
  BY BusyType
<1> DEFINE r == [tasks[t] EXCEPT !.step = "remember", !.proj = p]
<1>2. tasks' = [tasks EXCEPT ![t] = r]
  OBVIOUS
<1>3. Fields(r) /\ r.step = "remember" /\ r.kind = tasks[t].kind /\ r.s = tasks[t].s /\ r.place = tasks[t].place
      /\ r.calm = tasks[t].calm /\ r.ws = tasks[t].ws /\ r.proj = p /\ r.seen = tasks[t].seen
      /\ r.retried = tasks[t].retried
  BY <1>1 DEF Fields
<1> HIDE DEF r
<1>4. r # Idle
  BY <1>3 DEF Idle
<1> QED
  BY <1>1, <1>2, <1>3, <1>4 DEF Same, Others, SameRead, SameTry

LEMMA RetryTask ==
  ASSUME TasksOK, NEW t \in Tasks, Busy(t),
         tasks' = [tasks EXCEPT ![t] = [@ EXCEPT !.step = "lookup", !.retried = TRUE]]
  PROVE  Same(t) /\ SameRead(t) /\ SameScope(t) /\ tasks'[t].step = "lookup" /\ tasks'[t].retried
<1>1. Fields(tasks[t]) /\ tasks = [u \in Tasks |-> tasks[u]]
  BY BusyType
<1> DEFINE r == [tasks[t] EXCEPT !.step = "lookup", !.retried = TRUE]
<1>2. tasks' = [tasks EXCEPT ![t] = r]
  OBVIOUS
<1>3. Fields(r) /\ r.step = "lookup" /\ r.kind = tasks[t].kind /\ r.s = tasks[t].s /\ r.place = tasks[t].place
      /\ r.calm = tasks[t].calm /\ r.ws = tasks[t].ws /\ r.proj = tasks[t].proj /\ r.seen = tasks[t].seen
      /\ r.retried = TRUE
  BY <1>1 DEF Fields
<1> HIDE DEF r
<1>4. r # Idle
  BY <1>3 DEF Idle
<1> QED
  BY <1>1, <1>2, <1>3, <1>4 DEF Same, Others, SameRead, SameScope

LEMMA SeenTask ==
  ASSUME TasksOK, NEW t \in Tasks, Busy(t), NEW step \in Steps, NEW seen,
         tasks' = [tasks EXCEPT ![t] = [@ EXCEPT !.step = step, !.seen = seen]]
  PROVE  Same(t) /\ SameScope(t) /\ SameTry(t) /\ tasks'[t].step = step /\ tasks'[t].seen = seen
<1>1. Fields(tasks[t]) /\ tasks = [u \in Tasks |-> tasks[u]]
  BY BusyType
<1> DEFINE r == [tasks[t] EXCEPT !.step = step, !.seen = seen]
<1>2. tasks' = [tasks EXCEPT ![t] = r]
  OBVIOUS
<1>3. Fields(r) /\ r.step = step /\ r.kind = tasks[t].kind /\ r.s = tasks[t].s /\ r.place = tasks[t].place
      /\ r.calm = tasks[t].calm /\ r.ws = tasks[t].ws /\ r.proj = tasks[t].proj /\ r.seen = seen
      /\ r.retried = tasks[t].retried
  BY <1>1 DEF Fields
<1> HIDE DEF r
<1>4. r # Idle
  BY <1>3 DEF Idle, Steps
<1>5. tasks' = [u \in Tasks |-> tasks'[u]] /\ tasks'[t] = r /\ \A u \in Tasks \ {t} : tasks'[u] = tasks[u]
  BY <1>1, <1>2
<1> QED
  BY <1>3, <1>4, <1>5 DEF Same, Others, SameScope, SameTry

-----------------------------------------------------------------------------
(* The cache.                                                               *)

\* An entry for the same place and scope.
Alike(x, y) == x.place = y.place /\ x.ws = y.ws /\ x.proj = y.proj
Entry(x, place, w, p) == x.place = place /\ x.ws = w /\ x.proj = p

\* What the cache holds after a step, it held before, but for one scope at most.
CacheFrom(place, w, p) ==
    \A x \in cache' : (\E y \in cache : Alike(x, y)) \/ Entry(x, place, w, p)
CacheShrinks == \A x \in cache' : \E y \in cache : Alike(x, y)

LEMMA AgedAlike ==
  ASSUME NEW S
  PROVE  \A x \in Aged(S) : \E y \in S : Alike(x, y)
BY DEF Aged, Alike

LEMMA InsertedFrom ==
  ASSUME NEW place, NEW scope, cache' = CacheInsert(place, scope)
  PROVE  CacheFrom(place, scope[1], scope[2])
<1> DEFINE all == (cache \ Cached(place)) \cup {Latest(place, scope)}
<1>1. \A y \in all : y \in cache \/ Entry(y, place, scope[1], scope[2])
  BY DEF Latest, Entry
<1> HIDE DEF all
<1>2. \E S \in SUBSET all : cache' = Aged(S)
  BY DEF CacheInsert, all
<1>3. PICK S \in SUBSET all : cache' = Aged(S)
  BY <1>2
<1>4. ASSUME NEW x \in cache' PROVE (\E y \in cache : Alike(x, y)) \/ Entry(x, place, scope[1], scope[2])
  <2>1. PICK y \in S : Alike(x, y)
    BY <1>3, AgedAlike
  <2> QED
    BY <1>1, <2>1 DEF Alike, Entry
<1> QED
  BY <1>4 DEF CacheFrom

LEMMA TouchedShrinks ==
  ASSUME NEW e \in cache,
         cache' = Aged((cache \ {e}) \cup {Latest(e.place, <<e.ws, e.proj>>)})
  PROVE  CacheShrinks
<1>1. \A y \in (cache \ {e}) \cup {Latest(e.place, <<e.ws, e.proj>>)} : \E z \in cache : Alike(y, z)
  BY DEF Latest, Alike
<1>2. ASSUME NEW x \in cache' PROVE \E y \in cache : Alike(x, y)
  <2>1. PICK y \in (cache \ {e}) \cup {Latest(e.place, <<e.ws, e.proj>>)} : Alike(x, y)
    BY AgedAlike
  <2> QED
    BY <1>1, <2>1 DEF Alike
<1> QED
  BY <1>2 DEF CacheShrinks

LEMMA EvictedShrinks ==
  ASSUME NEW place, cache' = Evicted(place)
  PROVE  CacheShrinks /\ \A x \in cache' : x.place # place
<1>1. ASSUME NEW x \in cache' PROVE x.place # place /\ \E y \in cache : Alike(x, y)
  <2>1. PICK y \in cache \ Cached(place) : Alike(x, y)
    BY AgedAlike DEF Evicted
  <2> QED
    BY <2>1 DEF Alike, Cached
<1> QED
  BY <1>1 DEF CacheShrinks

-----------------------------------------------------------------------------
(* What the steps of a request do.                                          *)

Quiet == UNCHANGED <<scopeVars, rowVars, summaries, admin, reorg, serial>>
RowsStay == UNCHANGED <<rowVars, summaries, admin, reorg, serial>>
ScopesStay == UNCHANGED <<scopeVars, admin, reorg, serial>>

LEMMA AfterScopeStep ==
  ASSUME NEW t \in Tasks
  PROVE  /\ tasks[t].kind = "fetch" => AfterScope(t) = "peek"
         /\ tasks[t].kind = "end" /\ ~tasks[t].retried => AfterScope(t) = "disposition"
         /\ tasks[t].kind = "end" /\ tasks[t].retried => AfterScope(t) = "begin"
         /\ tasks[t].kind \notin {"fetch", "end"} => AfterScope(t) = "begin"
BY DEF AfterScope

LEMMA StickyScopeDoes ==
  ASSUME TasksOK, NEW t \in Tasks, StickyScope(t)
  PROVE  /\ Busy(t) /\ tasks[t].step = "scope"
         /\ Same(t) /\ SameRead(t) /\ SameTry(t)
         /\ tasks'[t].step \in {"lookup", AfterScope(t)}
         /\ Quiet /\ cache' = cache
<1>1. Busy(t) /\ tasks[t].step = "scope" /\ Quiet /\ cache' = cache
  BY DEF StickyScope, At, Quiet, storeVars
<1> DEFINE place == tasks[t].place
           scope == IF place.ws = NULL /\ place.proj = NULL THEN find_session_scope(tasks[t].s, place.dir) ELSE NULL
<1>2. IF scope = NULL THEN Goto(t, "lookup") ELSE Resolved(t, scope)
  BY DEF StickyScope
<1> HIDE DEF scope
<1>3. CASE scope = NULL
  BY <1>1, <1>2, <1>3, GotoTask DEF Steps
<1>4. CASE scope # NULL
  BY <1>1, <1>2, <1>4, ResolvedTask
<1> QED
  BY <1>3, <1>4

LEMMA LookupDoes ==
  ASSUME TasksOK, NEW t \in Tasks, Lookup(t)
  PROVE  /\ Busy(t) /\ tasks[t].step = "lookup"
         /\ Same(t) /\ SameRead(t) /\ SameTry(t)
         /\ Quiet /\ CacheShrinks
         /\ \/ tasks'[t].step = AfterScope(t) /\ <<tasks'[t].ws, tasks'[t].proj>> = Default
            \/ /\ tasks'[t].step = AfterScope(t)
               /\ \E e \in cache : Entry(e, tasks[t].place, tasks'[t].ws, tasks'[t].proj)
            \/ tasks'[t].step = "workspace" /\ ProjName(tasks[t].place) # NULL
<1>1. Busy(t) /\ tasks[t].step = "lookup" /\ Quiet
  BY DEF Lookup, At, Quiet, storeVars
<1> DEFINE place == tasks[t].place
<1>2. Default[1] = DefaultWs /\ Default[2] = DefaultProj
  BY DEF Default
<1>3. CASE Resolved(t, Default) /\ cache' = cache
  <2>1. CacheShrinks
    BY <1>3 DEF CacheShrinks, Alike
  <2> QED
    BY <1>1, <1>2, <1>3, <2>1, ResolvedTask DEF Default
<1>4. ASSUME NEW e \in Cached(place), Resolved(t, <<e.ws, e.proj>>),
             cache' = Aged((cache \ {e}) \cup {Latest(place, <<e.ws, e.proj>>)})
      PROVE  /\ Same(t) /\ SameRead(t) /\ SameTry(t) /\ CacheShrinks
             /\ tasks'[t].step = AfterScope(t)
             /\ \E x \in cache : Entry(x, tasks[t].place, tasks'[t].ws, tasks'[t].proj)
  <2>1. e \in cache /\ e.place = place
    BY DEF Cached
  <2>2. CacheShrinks
    BY <1>4, <2>1, TouchedShrinks
  <2>3. Entry(e, tasks[t].place, tasks'[t].ws, tasks'[t].proj)
    BY <1>1, <1>4, <2>1, ResolvedTask DEF Entry
  <2> QED
    BY <1>1, <1>4, <2>1, <2>2, <2>3, ResolvedTask
<1>5. CASE Goto(t, "workspace") /\ cache' = cache /\ ProjName(place) # NULL
  <2>1. CacheShrinks
    BY <1>5 DEF CacheShrinks, Alike
  <2> QED
    BY <1>1, <1>5, <2>1, GotoTask DEF Steps
<1>6. \/ Resolved(t, Default) /\ cache' = cache
      \/ \E e \in Cached(place) : /\ Resolved(t, <<e.ws, e.proj>>)
                                  /\ cache' = Aged((cache \ {e}) \cup {Latest(place, <<e.ws, e.proj>>)})
      \/ Goto(t, "workspace") /\ cache' = cache /\ ProjName(place) # NULL
  BY DEF Lookup
<1> QED
  BY <1>1, <1>3, <1>4, <1>5, <1>6

LEMMA MakeWorkspaceDoes ==
  ASSUME TypeInv, NEW t \in Tasks, MakeWorkspace(t)
  PROVE  /\ Busy(t) /\ tasks[t].step = "workspace"
         /\ Same(t) /\ SameRead(t) /\ SameTry(t) /\ tasks'[t].step = "project"
         /\ RowsStay /\ cache' = cache /\ ScopesOK' /\ Kept
<1>1. Busy(t) /\ tasks[t].step = "workspace" /\ RowsStay /\ cache' = cache
  BY DEF MakeWorkspace, At, RowsStay
<1>2. WsName(tasks[t].place) \in WsNames
  BY <1>1, BusyType, PlacesAssumption DEF WsName, TypeInv, TaskType, Ranges, PlaceRows
<1>3. PICK w \in WorkspaceIds :
          /\ GetOrCreateWorkspace(WsName(tasks[t].place), w) \/ UNCHANGED scopeVars
          /\ tasks' = [tasks EXCEPT ![t] = [@ EXCEPT !.step = "project", !.ws = w]]
  BY DEF MakeWorkspace
<1>4. ScopesOK' /\ Kept
  BY <1>2, <1>3, WorkspaceMade, ScopesSame DEF TypeInv
<1> QED
  BY <1>1, <1>3, <1>4, WorkspaceTask DEF TypeInv

LEMMA MakeProjectDoes ==
  ASSUME TypeInv, NEW t \in Tasks, MakeProject(t)
  PROVE  /\ Busy(t) /\ tasks[t].step = "project"
         /\ RowsStay /\ cache' = cache /\ ScopesOK' /\ Kept
         /\ \/ Left(t)
            \/ /\ Same(t) /\ SameRead(t) /\ SameTry(t) /\ tasks'[t].step = "remember"
               /\ StillSound(tasks'[t].ws, tasks'[t].proj)
<1> DEFINE place == tasks[t].place
           w == tasks[t].ws
           outer == IF place.proj = NULL THEN find_project_by_cwd_prefix(w, place.dir) ELSE {}
           named == ProjectNamed(w, ProjName(place))
           found == IF outer # {} THEN outer ELSE named
           gets(p) == tasks' = [tasks EXCEPT ![t] = [@ EXCEPT !.step = "remember", !.proj = p]]
<1>1. Busy(t) /\ tasks[t].step = "project" /\ RowsStay /\ cache' = cache
  BY DEF MakeProject, At, RowsStay
<1>2. \A p \in found : ProjectInWorkspace(w, p)
  <2>1. \A p \in outer : ProjectInWorkspace(w, p)
    BY DEF find_project_by_cwd_prefix, ProjectsOf, ProjectInWorkspace
  <2>2. \A p \in named : ProjectInWorkspace(w, p)
    BY DEF ProjectNamed, ProjectInWorkspace
  <2> QED
    BY <2>1, <2>2
<1>3. ProjName(place) \in ProjNames /\ RootOf(place.dir) \in RepoPaths \cup {NULL}
  <2>1. ProjName(place) # NULL /\ place.dir \in Dirs \cup {NULL} /\ place.proj \in ProjNames \cup {NULL}
    BY <1>1, BusyType DEF TypeInv, TaskType, Ranges, Fits, PlaceRows
  <2> QED
    BY <2>1, PlacesAssumption DEF ProjName
<1>4. \/ \E p \in found : gets(p) /\ UNCHANGED scopeVars
      \/ \E p \in ProjectIds : GetOrCreateProject(w, ProjName(place), RootOf(place.dir), p) /\ gets(p)
      \/ Ends(t) /\ UNCHANGED scopeVars
  BY DEF MakeProject
<1> HIDE DEF outer, named, found, w, place
<1>5. ASSUME NEW p \in found, gets(p), UNCHANGED scopeVars
      PROVE  /\ ScopesOK' /\ Kept
             /\ Same(t) /\ SameRead(t) /\ SameTry(t) /\ tasks'[t].step = "remember"
             /\ StillSound(tasks'[t].ws, tasks'[t].proj)
  <2>1. ScopesOK' /\ Kept
    BY <1>5, ScopesSame DEF TypeInv
  <2>2. /\ Same(t) /\ SameRead(t) /\ SameTry(t) /\ tasks'[t].step = "remember"
        /\ tasks'[t].ws = tasks[t].ws /\ tasks'[t].proj = p
    BY <1>1, <1>5, ProjectTask DEF TypeInv
  <2>3. StillSound(w, p)
    BY <1>2, <2>1, KeptSound
  <2> QED
    BY <2>1, <2>2, <2>3 DEF w
<1>6. ASSUME NEW p \in ProjectIds, GetOrCreateProject(w, ProjName(place), RootOf(place.dir), p), gets(p)
      PROVE  /\ ScopesOK' /\ Kept
             /\ Same(t) /\ SameRead(t) /\ SameTry(t) /\ tasks'[t].step = "remember"
             /\ StillSound(tasks'[t].ws, tasks'[t].proj)
  <2>1. ScopesOK' /\ Kept /\ StillSound(w, p)
    BY <1>3, <1>6, ProjectMade DEF TypeInv
  <2>2. /\ Same(t) /\ SameRead(t) /\ SameTry(t) /\ tasks'[t].step = "remember"
        /\ tasks'[t].ws = tasks[t].ws /\ tasks'[t].proj = p
    BY <1>1, <1>6, ProjectTask DEF TypeInv
  <2> QED
    BY <2>1, <2>2 DEF w
<1>7. CASE Ends(t) /\ UNCHANGED scopeVars
  BY <1>1, <1>7, EndsTask, ScopesSame DEF TypeInv
<1> QED
  BY <1>1, <1>4, <1>5, <1>6, <1>7

\* Nothing of the request changes but its step.
Moved(t, step) == Same(t) /\ SameScope(t) /\ SameRead(t) /\ SameTry(t) /\ tasks'[t].step = step

LEMMA GotoMoves ==
  ASSUME TasksOK, NEW t \in Tasks, Busy(t), NEW step \in Steps, Goto(t, step)
  PROVE  Moved(t, step)
BY GotoTask DEF Moved

LEMMA RememberDoes ==
  ASSUME TasksOK, NEW t \in Tasks, Remember(t)
  PROVE  /\ Busy(t) /\ tasks[t].step = "remember"
         /\ Moved(t, AfterScope(t))
         /\ Quiet /\ CacheFrom(tasks[t].place, tasks[t].ws, tasks[t].proj)
<1>1. Busy(t) /\ tasks[t].step = "remember" /\ Quiet /\ Goto(t, AfterScope(t))
  BY DEF Remember, At, Quiet, storeVars
<1>2. AfterScope(t) \in Steps
  BY DEF AfterScope, Steps
<1>3. cache' = CacheInsert(tasks[t].place, <<tasks[t].ws, tasks[t].proj>>)
  BY DEF Remember
<1>4. CacheFrom(tasks[t].place, tasks[t].ws, tasks[t].proj)
  BY <1>3, InsertedFrom
<1> QED
  BY <1>1, <1>2, <1>4, GotoMoves

LEMMA DispositionDoes ==
  ASSUME TasksOK, NEW t \in Tasks, Disposition(t)
  PROVE  /\ Busy(t) /\ tasks[t].step = "disposition"
         /\ Quiet /\ cache' = cache
         /\ \/ Left(t)
            \/ /\ Moved(t, "begin")
               /\ session_end_disposition(tasks[t].s, tasks[t].ws, tasks[t].proj) # "DropStale"
<1>1. Busy(t) /\ tasks[t].step = "disposition" /\ Quiet /\ cache' = cache
  BY DEF Disposition, At, Quiet, storeVars
<1>2. \/ Ends(t)
      \/ Goto(t, "begin") /\ session_end_disposition(tasks[t].s, tasks[t].ws, tasks[t].proj) # "DropStale"
  BY DEF Disposition
<1> QED
  BY <1>1, <1>2, GotoMoves, EndsTask DEF Steps

LEMMA BeginDoes ==
  ASSUME TasksOK, NEW t \in Tasks, Begin(t)
  PROVE  /\ Busy(t) /\ tasks[t].step = "begin"
         /\ ScopesStay /\ summaries' = summaries
         /\ \/ /\ begin_session(tasks[t].s, tasks[t].ws, tasks[t].proj, tasks[t].place.dir)
               /\ Moved(t, "observe") /\ cache' = cache
            \/ /\ ~tasks[t].retried
               /\ Same(t) /\ SameScope(t) /\ SameRead(t) /\ tasks'[t].step = "lookup" /\ tasks'[t].retried
               /\ CacheShrinks /\ \A e \in cache' : e.place # tasks[t].place
               /\ UNCHANGED rowVars
            \/ /\ ~Sound(t) /\ tasks[t].retried
               /\ Moved(t, "failed")
               /\ UNCHANGED <<rowVars, cache>>
<1>1. Busy(t) /\ tasks[t].step = "begin" /\ ScopesStay /\ summaries' = summaries
  BY DEF Begin, At, ScopesStay
<1>2. \/ /\ begin_session(tasks[t].s, tasks[t].ws, tasks[t].proj, tasks[t].place.dir)
         /\ Goto(t, "observe") /\ cache' = cache
      \/ /\ ~tasks[t].retried /\ cache' = Evicted(tasks[t].place)
         /\ tasks' = [tasks EXCEPT ![t] = [@ EXCEPT !.step = "lookup", !.retried = TRUE]]
         /\ UNCHANGED rowVars
      \/ ~Sound(t) /\ tasks[t].retried /\ Goto(t, "failed") /\ UNCHANGED <<rowVars, cache>>
  BY DEF Begin, Sound
<1>3. CASE /\ begin_session(tasks[t].s, tasks[t].ws, tasks[t].proj, tasks[t].place.dir)
           /\ Goto(t, "observe") /\ cache' = cache
  BY <1>1, <1>3, GotoMoves DEF Steps
<1>4. CASE /\ ~tasks[t].retried /\ cache' = Evicted(tasks[t].place)
           /\ tasks' = [tasks EXCEPT ![t] = [@ EXCEPT !.step = "lookup", !.retried = TRUE]]
           /\ UNCHANGED rowVars
  <2>1. Same(t) /\ SameRead(t) /\ SameScope(t) /\ tasks'[t].step = "lookup" /\ tasks'[t].retried
    BY <1>1, <1>4, RetryTask
  <2>2. CacheShrinks /\ \A e \in cache' : e.place # tasks[t].place
    BY <1>4, EvictedShrinks
  <2> QED
    BY <1>1, <1>4, <2>1, <2>2
<1>5. CASE ~Sound(t) /\ tasks[t].retried /\ Goto(t, "failed") /\ UNCHANGED <<rowVars, cache>>
  BY <1>1, <1>5, GotoMoves DEF Steps
<1> QED
  BY <1>2, <1>3, <1>4, <1>5

LEMMA ObserveDoes ==
  ASSUME TasksOK, NEW t \in Tasks, Observe(t)
  PROVE  /\ Busy(t) /\ tasks[t].step = "observe"
         /\ ScopesStay /\ summaries' = summaries /\ cache' = cache
         /\ \/ /\ insert_observation(tasks[t].s, tasks[t].ws, tasks[t].proj, tasks[t].kind # "end")
               /\ Left(t) \/ (Moved(t, "read") /\ tasks[t].kind # "work")
            \/ /\ sessions[tasks[t].s] = NULL \/ ~Sound(t)
               /\ Moved(t, "failed") /\ UNCHANGED rowVars
<1>1. Busy(t) /\ tasks[t].step = "observe" /\ ScopesStay /\ summaries' = summaries /\ cache' = cache
  BY DEF Observe, At, ScopesStay
<1>2. \/ /\ insert_observation(tasks[t].s, tasks[t].ws, tasks[t].proj, tasks[t].kind # "end")
         /\ Ends(t) \/ (Goto(t, "read") /\ tasks[t].kind # "work")
      \/ (sessions[tasks[t].s] = NULL \/ ~Sound(t)) /\ Goto(t, "failed") /\ UNCHANGED rowVars
  BY DEF Observe, Sound
<1> QED
  BY <1>1, <1>2, GotoMoves, EndsTask DEF Steps

LEMMA ReadObservationsDoes ==
  ASSUME TasksOK, NEW t \in Tasks, ReadObservations(t)
  PROVE  /\ Busy(t) /\ tasks[t].step = "read"
         /\ Quiet /\ cache' = cache
         /\ \/ Left(t)
            \/ /\ Same(t) /\ SameScope(t) /\ SameTry(t) /\ tasks'[t].step = "page"
               /\ tasks'[t].seen = observations_for_session(tasks[t].s)
<1>1. Busy(t) /\ tasks[t].step = "read" /\ Quiet /\ cache' = cache
  BY DEF ReadObservations, At, Quiet, storeVars
<1> DEFINE seen == observations_for_session(tasks[t].s)
<1>2. Ends(t) \/ tasks' = [tasks EXCEPT ![t] = [@ EXCEPT !.step = "page", !.seen = seen]]
  BY DEF ReadObservations
<1> HIDE DEF seen
<1>3. CASE Ends(t)
  BY <1>1, <1>3, EndsTask
<1>4. CASE tasks' = [tasks EXCEPT ![t] = [@ EXCEPT !.step = "page", !.seen = seen]]
  <2>1. "page" \in Steps
    BY DEF Steps
  <2>2. Same(t) /\ SameScope(t) /\ SameTry(t) /\ tasks'[t].step = "page" /\ tasks'[t].seen = seen
    BY <1>1, <1>4, <2>1, SeenTask
  <2> QED
    BY <1>1, <2>2 DEF seen
<1> QED
  BY <1>2, <1>3, <1>4

LEMMA WritePageDoes ==
  ASSUME TasksOK, NEW t \in Tasks, WritePage(t)
  PROVE  /\ Busy(t) /\ tasks[t].step = "page"
         /\ ScopesStay /\ UNCHANGED rowVars /\ cache' = cache
         /\ \/ /\ Sound(t) /\ summaries' = [summaries EXCEPT ![<<tasks[t].proj, tasks[t].s>>] = tasks[t].seen]
               /\ Left(t) \/ (Moved(t, "close") /\ tasks[t].kind = "end")
            \/ /\ ~Sound(t) /\ summaries' = summaries
               /\ Left(t) \/ Moved(t, "failed")
<1>1. Busy(t) /\ tasks[t].step = "page" /\ ScopesStay /\ UNCHANGED rowVars /\ cache' = cache
  BY DEF WritePage, At, ScopesStay, storeVars
<1>2. \/ /\ Sound(t) /\ summaries' = [summaries EXCEPT ![<<tasks[t].proj, tasks[t].s>>] = tasks[t].seen]
         /\ Ends(t) \/ (Goto(t, "close") /\ tasks[t].kind = "end")
      \/ ~Sound(t) /\ summaries' = summaries /\ (Ends(t) \/ Goto(t, "failed"))
  BY DEF WritePage, Sound
<1>3. /\ Goto(t, "close") => Moved(t, "close")
      /\ Goto(t, "failed") => Moved(t, "failed")
      /\ Ends(t) => Left(t)
  BY <1>1, GotoMoves, EndsTask DEF Steps
<1> QED
  BY <1>1, <1>2, <1>3

LEMMA CloseDoes ==
  ASSUME TasksOK, NEW t \in Tasks, Close(t)
  PROVE  /\ Busy(t) /\ tasks[t].step = "close"
         /\ ScopesStay /\ summaries' = summaries /\ cache' = cache
         /\ \/ end_session(tasks[t].s, tasks[t].proj) /\ Moved(t, "handoff")
            \/ tasks[t].proj \notin LiveProjects /\ Moved(t, "failed") /\ UNCHANGED rowVars
<1>1. Busy(t) /\ tasks[t].step = "close" /\ ScopesStay /\ summaries' = summaries /\ cache' = cache
  BY DEF Close, At, ScopesStay
<1>2. \/ end_session(tasks[t].s, tasks[t].proj) /\ Goto(t, "handoff")
      \/ tasks[t].proj \notin LiveProjects /\ Goto(t, "failed") /\ UNCHANGED rowVars
  BY DEF Close
<1> QED
  BY <1>1, <1>2, GotoMoves DEF Steps

LEMMA AutoHandoffDoes ==
  ASSUME TasksOK, NEW t \in Tasks, AutoHandoff(t)
  PROVE  /\ Busy(t) /\ tasks[t].step = "handoff"
         /\ ScopesStay /\ summaries' = summaries /\ cache' = cache
         /\ \/ /\ insert_handoff(tasks[t].ws, tasks[t].proj, tasks[t].s, tasks[t].place.dir, tasks[t].seen)
               /\ Left(t)
            \/ /\ sessions[tasks[t].s] = NULL \/ ~Sound(t)
               /\ Moved(t, "failed") /\ UNCHANGED rowVars
<1>1. Busy(t) /\ tasks[t].step = "handoff" /\ ScopesStay /\ summaries' = summaries /\ cache' = cache
  BY DEF AutoHandoff, At, ScopesStay
<1>2. \/ /\ insert_handoff(tasks[t].ws, tasks[t].proj, tasks[t].s, tasks[t].place.dir, tasks[t].seen)
         /\ Ends(t)
      \/ (sessions[tasks[t].s] = NULL \/ ~Sound(t)) /\ Goto(t, "failed") /\ UNCHANGED rowVars
  BY DEF AutoHandoff, Sound
<1> QED
  BY <1>1, <1>2, GotoMoves, EndsTask DEF Steps

LEMMA LeavingDoes ==
  ASSUME TasksOK, NEW t \in Tasks, Fails(t) \/ Dies(t)
  PROVE  Busy(t) /\ Left(t) /\ Quiet /\ cache' = cache
<1>1. Busy(t) /\ Ends(t) /\ Quiet /\ cache' = cache
  BY DEF Fails, Dies, At, Quiet, storeVars
<1> QED
  BY <1>1, EndsTask

LEMMA PeekDoes ==
  ASSUME TasksOK, NEW t \in Tasks, Peek(t)
  PROVE  /\ Busy(t) /\ tasks[t].step = "peek"
         /\ Quiet /\ cache' = cache
         /\ Left(t) \/ (Same(t) /\ SameScope(t) /\ SameTry(t) /\ tasks'[t].step = "accept")
<1>1. Busy(t) /\ tasks[t].step = "peek" /\ Quiet /\ cache' = cache
  BY DEF Peek, At, Quiet, storeVars
<1>2. Ends(t) \/ \E x : tasks' = [tasks EXCEPT ![t] = [@ EXCEPT !.step = "accept", !.seen = x]]
  BY DEF Peek
<1>3. CASE Ends(t)
  BY <1>1, <1>3, EndsTask
<1>4. ASSUME NEW x, tasks' = [tasks EXCEPT ![t] = [@ EXCEPT !.step = "accept", !.seen = x]]
      PROVE  Same(t) /\ SameScope(t) /\ SameTry(t) /\ tasks'[t].step = "accept"
  <2>1. "accept" \in Steps
    BY DEF Steps
  <2> QED
    BY <1>1, <1>4, <2>1, SeenTask
<1> QED
  BY <1>1, <1>2, <1>3, <1>4

LEMMA AcceptDoes ==
  ASSUME TasksOK, NEW t \in Tasks, Accept(t)
  PROVE  /\ Busy(t) /\ tasks[t].step = "accept"
         /\ Left(t) /\ ScopesStay /\ summaries' = summaries /\ cache' = cache
         /\ (\E h \in handoffs : Settle(h, "accepted")) \/ UNCHANGED rowVars
<1>1. Busy(t) /\ tasks[t].step = "accept" /\ Ends(t) /\ ScopesStay /\ summaries' = summaries /\ cache' = cache
  BY DEF Accept, At, ScopesStay
<1>2. (\E h \in handoffs : Settle(h, "accepted")) \/ UNCHANGED rowVars
  BY DEF Accept, accept_handoff
<1> QED
  BY <1>1, <1>2, EndsTask

-----------------------------------------------------------------------------
(* Types.                                                                   *)

Later == clock \in Nat /\ clock' \in Nat /\ clock <= clock'

LEMMA FitsLater ==
  ASSUME NEW r, Later, Fits(r, clock)
  PROVE  Fits(r, clock')
<1>1. 1..clock \subseteq 1..clock'
  BY DEF Later
<1> QED
  BY <1>1 DEF Fits

TypeNext(r) == Fields(r) /\ Ranges(r) /\ Fits(r, clock')

LEMMA TypedNext ==
  ASSUME tasks' = [u \in Tasks |-> tasks'[u]], \A u \in Tasks : tasks'[u] = Idle \/ TypeNext(tasks'[u])
  PROVE  TasksOK'
BY DEF TasksOK, TaskType, TypeNext, Idle

LEMMA StillTyped ==
  ASSUME TasksOK, Later, NEW u \in Tasks, tasks'[u] = tasks[u]
  PROVE  tasks'[u] = Idle \/ TypeNext(tasks'[u])
BY FitsLater DEF TasksOK, TypeNext, TaskType

LEMMA TasksMoved ==
  ASSUME TasksOK, Later, NEW t \in Tasks, Busy(t), Same(t),
         tasks'[t].step \in Steps, tasks'[t].retried \in BOOLEAN, Fits(tasks'[t], clock')
  PROVE  TasksOK'
<1>1. TaskType(tasks[t])
  BY BusyType
<1>2. Ranges(tasks'[t])
  BY <1>1 DEF TaskType, Same, Ranges
<1>3. TypeNext(tasks'[t])
  BY <1>2 DEF TypeNext, Same
<1>4. \A u \in Tasks : tasks'[u] = Idle \/ TypeNext(tasks'[u])
  BY <1>3, StillTyped DEF Same, Others
<1> QED
  BY <1>4, TypedNext DEF Same

LEMMA TasksLeft ==
  ASSUME TasksOK, Later, NEW t \in Tasks, Left(t)
  PROVE  TasksOK'
<1>1. \A u \in Tasks : tasks'[u] = Idle \/ TypeNext(tasks'[u])
  BY StillTyped DEF Left, Others
<1> QED
  BY <1>1, TypedNext DEF Left

LEMMA TasksStay ==
  ASSUME TasksOK, Later, UNCHANGED tasks
  PROVE  TasksOK'
<1>1. \A u \in Tasks : tasks'[u] = Idle \/ TypeNext(tasks'[u])
  BY StillTyped
<1>2. tasks' = [u \in Tasks |-> tasks'[u]]
  BY DEF TasksOK
<1> QED
  BY <1>1, <1>2, TypedNext

\* Rows that do not change do not age either.
LEMMA StillLater == RowsTypeOK /\ UNCHANGED rowVars => Later
BY DEF RowsTypeOK, rowVars, Later

LEMMA PagesStay == PagesOK /\ UNCHANGED summaries => PagesOK'
BY DEF PagesOK

LEMMA QuietTypes ==
  ASSUME TypeInv, Quiet
  PROVE  ScopesOK' /\ RowsTypeOK' /\ PagesOK' /\ Later /\ Kept
BY ScopesSame, RowsSame, StillLater, PagesStay DEF TypeInv, Quiet

LEMMA ScopeTypes ==
  ASSUME TypeInv, ScopesStay
  PROVE  ScopesOK' /\ Kept
BY ScopesSame DEF TypeInv, ScopesStay

LEMMA AfterScopeFits ==
  ASSUME TasksOK, NEW t \in Tasks, Busy(t), Same(t), SameTry(t), tasks'[t].step = AfterScope(t), NEW now
  PROVE  tasks'[t].step \in Steps /\ tasks'[t].retried \in BOOLEAN /\ Fits(tasks'[t], now)
<1>1. TaskType(tasks[t])
  BY BusyType
<1>2. tasks[t].kind \in {"fetch", "end", "work", "compact"} /\ tasks[t].retried \in BOOLEAN
  BY <1>1 DEF TaskType, Ranges, Kinds
<1> QED
  BY <1>2, AfterScopeStep DEF Same, SameTry, Fits, Steps

LEMMA StickyScopeTypes ==
  ASSUME TypeInv, NEW t \in Tasks, StickyScope(t)
  PROVE  TypeInv' /\ Kept
<1>1. /\ Busy(t) /\ tasks[t].step = "scope" /\ Same(t) /\ SameRead(t) /\ SameTry(t)
      /\ tasks'[t].step \in {"lookup", AfterScope(t)} /\ Quiet
  BY StickyScopeDoes DEF TypeInv
<1>2. ScopesOK' /\ RowsTypeOK' /\ PagesOK' /\ Later /\ Kept
  BY <1>1, QuietTypes
<1>3. TaskType(tasks[t])
  BY <1>1, BusyType DEF TypeInv
<1>4. tasks'[t].step = "lookup" => Fits(tasks'[t], clock')
  BY <1>1, <1>3 DEF Same, SameTry, Fits, TaskType
<1>5. tasks'[t].step \in Steps /\ tasks'[t].retried \in BOOLEAN /\ Fits(tasks'[t], clock')
  BY <1>1, <1>3, <1>4, AfterScopeFits DEF TypeInv, Steps, SameTry, TaskType, Ranges
<1>6. TasksOK'
  BY <1>1, <1>2, <1>5, TasksMoved DEF TypeInv
<1> QED
  BY <1>2, <1>6 DEF TypeInv

LEMMA LookupTypes ==
  ASSUME TypeInv, NEW t \in Tasks, Lookup(t)
  PROVE  TypeInv' /\ Kept
<1>1. /\ Busy(t) /\ tasks[t].step = "lookup" /\ Same(t) /\ SameRead(t) /\ SameTry(t) /\ Quiet
      /\ tasks'[t].step = AfterScope(t) \/ (tasks'[t].step = "workspace" /\ ProjName(tasks[t].place) # NULL)
  BY LookupDoes DEF TypeInv
<1>2. ScopesOK' /\ RowsTypeOK' /\ PagesOK' /\ Later /\ Kept
  BY <1>1, QuietTypes
<1>3. TaskType(tasks[t])
  BY <1>1, BusyType DEF TypeInv
<1>4. CASE tasks'[t].step = "workspace" /\ ProjName(tasks[t].place) # NULL
  <2>1. Fits(tasks'[t], clock')
    BY <1>1, <1>3, <1>4 DEF Same, SameTry, Fits, TaskType
  <2>2. tasks'[t].step \in Steps /\ tasks'[t].retried \in BOOLEAN
    BY <1>1, <1>3, <1>4 DEF Steps, SameTry, TaskType, Ranges
  <2> QED
    BY <1>1, <1>2, <2>1, <2>2, TasksMoved DEF TypeInv
<1>5. CASE tasks'[t].step = AfterScope(t)
  <2>1. tasks'[t].step \in Steps /\ tasks'[t].retried \in BOOLEAN /\ Fits(tasks'[t], clock')
    BY <1>1, <1>5, AfterScopeFits DEF TypeInv
  <2> QED
    BY <1>1, <1>2, <2>1, TasksMoved DEF TypeInv
<1> QED
  BY <1>1, <1>2, <1>4, <1>5 DEF TypeInv

LEMMA MakeWorkspaceTypes ==
  ASSUME TypeInv, NEW t \in Tasks, MakeWorkspace(t)
  PROVE  TypeInv' /\ Kept
<1>1. /\ Busy(t) /\ tasks[t].step = "workspace" /\ Same(t) /\ SameRead(t) /\ SameTry(t)
      /\ tasks'[t].step = "project" /\ RowsStay /\ ScopesOK' /\ Kept
  BY MakeWorkspaceDoes
<1>2. RowsTypeOK' /\ PagesOK' /\ Later
  BY <1>1, RowsSame, StillLater, PagesStay DEF RowsStay, TypeInv
<1>3. TaskType(tasks[t])
  BY <1>1, BusyType DEF TypeInv
<1>4. Fits(tasks'[t], clock')
  BY <1>1, <1>3 DEF Same, SameTry, Fits, TaskType
<1>5. tasks'[t].step \in Steps /\ tasks'[t].retried \in BOOLEAN
  BY <1>1, <1>3 DEF Steps, SameTry, TaskType, Ranges
<1>6. TasksOK'
  BY <1>1, <1>2, <1>4, <1>5, TasksMoved DEF TypeInv
<1> QED
  BY <1>1, <1>2, <1>6 DEF TypeInv

LEMMA MakeProjectTypes ==
  ASSUME TypeInv, NEW t \in Tasks, MakeProject(t)
  PROVE  TypeInv' /\ Kept
<1>1. /\ Busy(t) /\ tasks[t].step = "project" /\ RowsStay /\ ScopesOK' /\ Kept
      /\ Left(t) \/ (Same(t) /\ SameRead(t) /\ SameTry(t) /\ tasks'[t].step = "remember")
  BY MakeProjectDoes
<1>2. RowsTypeOK' /\ PagesOK' /\ Later
  BY <1>1, RowsSame, StillLater, PagesStay DEF RowsStay, TypeInv
<1>3. CASE Left(t)
  BY <1>1, <1>2, <1>3, TasksLeft DEF TypeInv
<1>4. CASE Same(t) /\ SameRead(t) /\ SameTry(t) /\ tasks'[t].step = "remember"
  <2>1. TaskType(tasks[t])
    BY <1>1, BusyType DEF TypeInv
  <2>2. Fits(tasks'[t], clock')
    BY <1>1, <1>4, <2>1 DEF Same, SameTry, Fits, TaskType
  <2>3. tasks'[t].step \in Steps /\ tasks'[t].retried \in BOOLEAN
    BY <1>4, <2>1 DEF Steps, SameTry, TaskType, Ranges
  <2>4. TasksOK'
    BY <1>1, <1>2, <1>4, <2>2, <2>3, TasksMoved DEF TypeInv
  <2> QED
    BY <1>1, <1>2, <2>4 DEF TypeInv
<1> QED
  BY <1>1, <1>3, <1>4

\* A request at one of these steps is an event of a session.
EventSteps == {"scope", "disposition", "begin", "observe", "read", "page", "close", "handoff", "failed"}
LEMMA EventTask ==
  ASSUME TasksOK, NEW t \in Tasks, Busy(t), tasks[t].step \in EventSteps
  PROVE  /\ tasks[t].kind # "fetch" /\ tasks[t].s \in Sessions
         /\ tasks[t].place.dir \in Dirs \cup {NULL} /\ tasks[t].retried \in BOOLEAN
<1>1. TaskType(tasks[t])
  BY BusyType
<1> QED
  BY <1>1 DEF TaskType, Ranges, Fits, EventSteps, PlaceRows

LEMMA MovedOn ==
  ASSUME TasksOK, Later, NEW t \in Tasks, Busy(t), tasks[t].step \in EventSteps,
         NEW step \in {"begin", "observe", "read", "failed"}, Moved(t, step)
  PROVE  TasksOK'
<1>1. tasks[t].kind # "fetch" /\ tasks[t].retried \in BOOLEAN
  BY EventTask
<1>2. Fits(tasks'[t], clock') /\ tasks'[t].step \in Steps /\ tasks'[t].retried \in BOOLEAN
  BY <1>1 DEF Moved, Same, SameTry, Fits, Steps
<1> QED
  BY <1>2, TasksMoved DEF Moved

LEMMA MovedOut ==
  ASSUME TasksOK, Later, NEW t \in Tasks, Busy(t), tasks[t].step \in {"page", "close"}, tasks[t].kind = "end",
         NEW step \in {"close", "handoff"}, Moved(t, step)
  PROVE  TasksOK'
<1>1. tasks[t].retried \in BOOLEAN
  BY EventTask DEF EventSteps
<1>2. TaskType(tasks[t])
  BY BusyType
<1>3. tasks[t].seen \subseteq 1..clock /\ 1..clock \subseteq 1..clock'
  BY <1>2 DEF TaskType, Fits, Later
<1>4. Fits(tasks'[t], clock') /\ tasks'[t].step \in Steps /\ tasks'[t].retried \in BOOLEAN
  BY <1>1, <1>3 DEF Moved, Same, SameTry, SameRead, Fits, Steps
<1> QED
  BY <1>4, TasksMoved DEF Moved

LEMMA RememberTypes ==
  ASSUME TypeInv, NEW t \in Tasks, Remember(t)
  PROVE  TypeInv' /\ Kept
<1>1. Busy(t) /\ tasks[t].step = "remember" /\ Moved(t, AfterScope(t)) /\ Quiet
  BY RememberDoes DEF TypeInv
<1>2. ScopesOK' /\ RowsTypeOK' /\ PagesOK' /\ Later /\ Kept
  BY <1>1, QuietTypes
<1>3. tasks'[t].step \in Steps /\ tasks'[t].retried \in BOOLEAN /\ Fits(tasks'[t], clock')
  BY <1>1, AfterScopeFits DEF TypeInv, Moved
<1>4. TasksOK'
  BY <1>1, <1>2, <1>3, TasksMoved DEF TypeInv, Moved
<1> QED
  BY <1>2, <1>4 DEF TypeInv

LEMMA DispositionTypes ==
  ASSUME TypeInv, NEW t \in Tasks, Disposition(t)
  PROVE  TypeInv' /\ Kept
<1>1. Busy(t) /\ tasks[t].step = "disposition" /\ Quiet /\ (Left(t) \/ Moved(t, "begin"))
  BY DispositionDoes DEF TypeInv
<1>2. ScopesOK' /\ RowsTypeOK' /\ PagesOK' /\ Later /\ Kept
  BY <1>1, QuietTypes
<1>3. TasksOK'
  BY <1>1, <1>2, TasksLeft, MovedOn DEF TypeInv, EventSteps
<1> QED
  BY <1>2, <1>3 DEF TypeInv

LEMMA BeginTypes ==
  ASSUME TypeInv, NEW t \in Tasks, Begin(t)
  PROVE  TypeInv' /\ Kept
<1>1. /\ Busy(t) /\ tasks[t].step = "begin"
      /\ ScopesStay /\ summaries' = summaries
  BY BeginDoes DEF TypeInv
<1>2. ScopesOK' /\ Kept /\ PagesOK'
  BY <1>1, ScopeTypes, PagesStay DEF TypeInv
<1>3. tasks[t].kind # "fetch" /\ tasks[t].s \in Sessions /\ tasks[t].place.dir \in Dirs \cup {NULL}
  BY <1>1, EventTask DEF TypeInv, EventSteps
<1>4. CASE begin_session(tasks[t].s, tasks[t].ws, tasks[t].proj, tasks[t].place.dir) /\ Moved(t, "observe")
  <2>1. RowsTypeOK' /\ UNCHANGED clock
    BY <1>3, <1>4, SessionBegun DEF TypeInv
  <2>2. Later
    BY <2>1 DEF Later, TypeInv, RowsTypeOK
  <2>3. TasksOK'
    BY <1>1, <1>4, <2>2, MovedOn DEF TypeInv, EventSteps
  <2> QED
    BY <1>2, <2>1, <2>3 DEF TypeInv
<1>5. CASE Same(t) /\ tasks'[t].step = "lookup" /\ tasks'[t].retried /\ UNCHANGED rowVars
  <2>1. RowsTypeOK' /\ Later
    BY <1>5, RowsSame, StillLater DEF TypeInv
  <2>2. Fits(tasks'[t], clock') /\ tasks'[t].step \in Steps /\ tasks'[t].retried \in BOOLEAN
    BY <1>3, <1>5 DEF Same, Fits, Steps
  <2>3. TasksOK'
    BY <1>1, <1>5, <2>1, <2>2, TasksMoved DEF TypeInv
  <2> QED
    BY <1>2, <2>1, <2>3 DEF TypeInv
<1>6. CASE Moved(t, "failed") /\ UNCHANGED rowVars
  <2>1. RowsTypeOK' /\ Later
    BY <1>6, RowsSame, StillLater DEF TypeInv
  <2>2. TasksOK'
    BY <1>1, <1>6, <2>1, MovedOn DEF TypeInv, EventSteps
  <2> QED
    BY <1>2, <2>1, <2>2 DEF TypeInv
<1> QED
  BY <1>4, <1>5, <1>6, BeginDoes DEF TypeInv

LEMMA ObserveTypes ==
  ASSUME TypeInv, NEW t \in Tasks, Observe(t)
  PROVE  TypeInv' /\ Kept
<1>1. /\ Busy(t) /\ tasks[t].step = "observe" /\ ScopesStay /\ summaries' = summaries
      /\ \/ /\ insert_observation(tasks[t].s, tasks[t].ws, tasks[t].proj, tasks[t].kind # "end")
            /\ Left(t) \/ Moved(t, "read")
         \/ Moved(t, "failed") /\ UNCHANGED rowVars
  BY ObserveDoes DEF TypeInv
<1>2. ScopesOK' /\ Kept /\ PagesOK'
  BY <1>1, ScopeTypes, PagesStay DEF TypeInv
<1>3. tasks[t].s \in Sessions
  BY <1>1, EventTask DEF TypeInv, EventSteps
<1>4. CASE insert_observation(tasks[t].s, tasks[t].ws, tasks[t].proj, tasks[t].kind # "end")
           /\ (Left(t) \/ Moved(t, "read"))
  <2>1. RowsTypeOK' /\ clock' = clock + 1
    BY <1>3, <1>4, ObservationInserted DEF TypeInv, Observed
  <2>2. Later
    BY <2>1 DEF Later, TypeInv, RowsTypeOK
  <2>3. TasksOK'
    BY <1>1, <1>4, <2>2, TasksLeft, MovedOn DEF TypeInv, EventSteps
  <2> QED
    BY <1>2, <2>1, <2>3 DEF TypeInv
<1>5. CASE Moved(t, "failed") /\ UNCHANGED rowVars
  <2>1. RowsTypeOK' /\ Later
    BY <1>5, RowsSame, StillLater DEF TypeInv
  <2>2. TasksOK'
    BY <1>1, <1>5, <2>1, MovedOn DEF TypeInv, EventSteps
  <2> QED
    BY <1>2, <2>1, <2>2 DEF TypeInv
<1> QED
  BY <1>1, <1>4, <1>5

LEMMA ReadObservationsTypes ==
  ASSUME TypeInv, NEW t \in Tasks, ReadObservations(t)
  PROVE  TypeInv' /\ Kept
<1>1. /\ Busy(t) /\ tasks[t].step = "read" /\ Quiet
      /\ \/ Left(t)
         \/ /\ Same(t) /\ SameTry(t) /\ tasks'[t].step = "page"
            /\ tasks'[t].seen = observations_for_session(tasks[t].s)
  BY ReadObservationsDoes DEF TypeInv
<1>2. ScopesOK' /\ RowsTypeOK' /\ PagesOK' /\ Later /\ Kept
  BY <1>1, QuietTypes
<1>3. CASE Left(t)
  BY <1>2, <1>3, TasksLeft DEF TypeInv
<1>4. CASE /\ Same(t) /\ SameTry(t) /\ tasks'[t].step = "page"
           /\ tasks'[t].seen = observations_for_session(tasks[t].s)
  <2>1. tasks[t].kind # "fetch" /\ tasks[t].retried \in BOOLEAN
    BY <1>1, EventTask DEF TypeInv, EventSteps
  <2>2. \A o \in observations : o.at \in 1..clock
    BY DEF TypeInv, RowsTypeOK
  <2>3. observations_for_session(tasks[t].s) \subseteq 1..clock
    BY <2>2 DEF observations_for_session
  <2>4. 1..clock \subseteq 1..clock'
    BY <1>2 DEF Later
  <2>5. Fits(tasks'[t], clock') /\ tasks'[t].step \in Steps /\ tasks'[t].retried \in BOOLEAN
    BY <1>4, <2>1, <2>3, <2>4 DEF Same, SameTry, Fits, Steps
  <2>6. TasksOK'
    BY <1>1, <1>2, <1>4, <2>5, TasksMoved DEF TypeInv
  <2> QED
    BY <1>2, <2>6 DEF TypeInv
<1> QED
  BY <1>1, <1>3, <1>4

LEMMA PageWritten ==
  ASSUME PagesOK, NEW p \in ProjectIds, NEW s \in Sessions, NEW seen \in SUBSET Nat,
         summaries' = [summaries EXCEPT ![<<p, s>>] = seen]
  PROVE  /\ PagesOK' /\ summaries'[<<p, s>>] = seen
         /\ \A q \in ProjectIds, x \in Sessions : <<q, x>> # <<p, s>> => summaries'[<<q, x>>] = summaries[<<q, x>>]
BY DEF PagesOK

LEMMA WritePageTypes ==
  ASSUME TypeInv, NEW t \in Tasks, WritePage(t)
  PROVE  TypeInv' /\ Kept
<1>1. /\ Busy(t) /\ tasks[t].step = "page" /\ ScopesStay /\ UNCHANGED rowVars
      /\ \/ Sound(t) /\ summaries' = [summaries EXCEPT ![<<tasks[t].proj, tasks[t].s>>] = tasks[t].seen]
         \/ summaries' = summaries
      /\ Left(t) \/ (Moved(t, "close") /\ tasks[t].kind = "end") \/ Moved(t, "failed")
  BY WritePageDoes DEF TypeInv
<1>2. ScopesOK' /\ Kept /\ RowsTypeOK' /\ Later
  BY <1>1, ScopeTypes, RowsSame, StillLater DEF TypeInv
<1>3. TaskType(tasks[t]) /\ tasks[t].s \in Sessions
  BY <1>1, BusyType, EventTask DEF TypeInv, EventSteps
<1>4. tasks[t].seen \in SUBSET Nat
  BY <1>1, <1>3 DEF TaskType, Fits, TypeInv, RowsTypeOK
<1>5. Sound(t) => tasks[t].proj \in ProjectIds
  BY SoundTypes DEF Sound, TypeInv
<1>6. PagesOK'
  BY <1>1, <1>3, <1>4, <1>5, PageWritten, PagesStay DEF TypeInv
<1>7. CASE Left(t)
  BY <1>2, <1>6, <1>7, TasksLeft DEF TypeInv
<1>8. CASE Moved(t, "close") /\ tasks[t].kind = "end"
  <2>1. TasksOK'
    BY <1>1, <1>2, <1>8, MovedOut DEF TypeInv
  <2> QED
    BY <1>2, <1>6, <2>1 DEF TypeInv
<1>9. CASE Moved(t, "failed")
  <2>1. TasksOK'
    BY <1>1, <1>2, <1>9, MovedOn DEF TypeInv, EventSteps
  <2> QED
    BY <1>2, <1>6, <2>1 DEF TypeInv
<1> QED
  BY <1>1, <1>7, <1>8, <1>9

LEMMA CloseTypes ==
  ASSUME TypeInv, NEW t \in Tasks, Close(t)
  PROVE  TypeInv' /\ Kept
<1>1. /\ Busy(t) /\ tasks[t].step = "close" /\ ScopesStay /\ summaries' = summaries
      /\ \/ end_session(tasks[t].s, tasks[t].proj) /\ Moved(t, "handoff")
         \/ Moved(t, "failed") /\ UNCHANGED rowVars
  BY CloseDoes DEF TypeInv
<1>2. ScopesOK' /\ Kept /\ PagesOK'
  BY <1>1, ScopeTypes, PagesStay DEF TypeInv
<1>3. tasks[t].s \in Sessions /\ TaskType(tasks[t])
  BY <1>1, EventTask, BusyType DEF TypeInv, EventSteps
<1>4. tasks[t].kind = "end"
  BY <1>1, <1>3 DEF TaskType, Fits
<1>5. RowsTypeOK' /\ clock' = clock
  BY <1>1, <1>3, SessionEnded, RowsSame DEF TypeInv, rowVars
<1>6. Later
  BY <1>5 DEF Later, TypeInv, RowsTypeOK
<1>7. CASE Moved(t, "handoff")
  <2>1. TasksOK'
    BY <1>1, <1>4, <1>6, <1>7, MovedOut DEF TypeInv
  <2> QED
    BY <1>2, <1>5, <2>1 DEF TypeInv
<1>8. CASE Moved(t, "failed")
  <2>1. TasksOK'
    BY <1>1, <1>6, <1>8, MovedOn DEF TypeInv, EventSteps
  <2> QED
    BY <1>2, <1>5, <2>1 DEF TypeInv
<1> QED
  BY <1>1, <1>7, <1>8

LEMMA AutoHandoffTypes ==
  ASSUME TypeInv, NEW t \in Tasks, AutoHandoff(t)
  PROVE  TypeInv' /\ Kept
<1>1. /\ Busy(t) /\ tasks[t].step = "handoff" /\ ScopesStay /\ summaries' = summaries
      /\ \/ /\ insert_handoff(tasks[t].ws, tasks[t].proj, tasks[t].s, tasks[t].place.dir, tasks[t].seen)
            /\ Left(t)
         \/ Moved(t, "failed") /\ UNCHANGED rowVars
  BY AutoHandoffDoes DEF TypeInv
<1>2. ScopesOK' /\ Kept /\ PagesOK'
  BY <1>1, ScopeTypes, PagesStay DEF TypeInv
<1>3. tasks[t].s \in Sessions /\ tasks[t].place.dir \in Dirs \cup {NULL} /\ TaskType(tasks[t])
  BY <1>1, EventTask, BusyType DEF TypeInv, EventSteps
<1>4. tasks[t].seen \in SUBSET (1..clock)
  BY <1>1, <1>3 DEF TaskType, Fits
<1>5. CASE /\ insert_handoff(tasks[t].ws, tasks[t].proj, tasks[t].s, tasks[t].place.dir, tasks[t].seen)
           /\ Left(t)
  <2>1. RowsTypeOK' /\ clock' = clock + 1
    BY <1>3, <1>4, <1>5, HandoffInserted DEF TypeInv, HandedOver
  <2>2. Later
    BY <2>1 DEF Later, TypeInv, RowsTypeOK
  <2> QED
    BY <1>2, <1>5, <2>1, <2>2, TasksLeft DEF TypeInv
<1>6. CASE Moved(t, "failed") /\ UNCHANGED rowVars
  <2>1. RowsTypeOK' /\ Later
    BY <1>6, RowsSame, StillLater DEF TypeInv
  <2>2. TasksOK'
    BY <1>1, <1>6, <2>1, MovedOn DEF TypeInv, EventSteps
  <2> QED
    BY <1>2, <2>1, <2>2 DEF TypeInv
<1> QED
  BY <1>1, <1>5, <1>6

LEMMA LeavingTypes ==
  ASSUME TypeInv, NEW t \in Tasks, Fails(t) \/ Dies(t)
  PROVE  TypeInv' /\ Kept
<1>1. Left(t) /\ Quiet
  BY LeavingDoes DEF TypeInv
<1>2. ScopesOK' /\ RowsTypeOK' /\ PagesOK' /\ Later /\ Kept
  BY <1>1, QuietTypes
<1> QED
  BY <1>1, <1>2, TasksLeft DEF TypeInv

LEMMA PeekTypes ==
  ASSUME TypeInv, NEW t \in Tasks, Peek(t)
  PROVE  TypeInv' /\ Kept
<1>1. /\ Busy(t) /\ tasks[t].step = "peek" /\ Quiet
      /\ Left(t) \/ (Same(t) /\ SameTry(t) /\ tasks'[t].step = "accept")
  BY PeekDoes DEF TypeInv
<1>2. ScopesOK' /\ RowsTypeOK' /\ PagesOK' /\ Later /\ Kept
  BY <1>1, QuietTypes
<1>3. CASE Left(t)
  BY <1>2, <1>3, TasksLeft DEF TypeInv
<1>4. CASE Same(t) /\ SameTry(t) /\ tasks'[t].step = "accept"
  <2>1. TaskType(tasks[t])
    BY <1>1, BusyType DEF TypeInv
  <2>2. Fits(tasks'[t], clock') /\ tasks'[t].step \in Steps /\ tasks'[t].retried \in BOOLEAN
    BY <1>1, <1>4, <2>1 DEF Same, SameTry, Fits, Steps, TaskType, Ranges
  <2>3. TasksOK'
    BY <1>1, <1>2, <1>4, <2>2, TasksMoved DEF TypeInv
  <2> QED
    BY <1>2, <2>3 DEF TypeInv
<1> QED
  BY <1>1, <1>3, <1>4

LEMMA SettleTypes ==
  ASSUME RowsTypeOK, NEW state \in {"open", "accepted", "expired"},
         (\E h \in handoffs : Settle(h, state)) \/ UNCHANGED rowVars
  PROVE  RowsTypeOK' /\ clock' = clock /\ sessions' = sessions /\ observations' = observations /\ Later
<1>1. RowsTypeOK' /\ clock' = clock /\ sessions' = sessions /\ observations' = observations
  BY HandoffSettled, RowsSame DEF rowVars
<1> QED
  BY <1>1 DEF Later, RowsTypeOK

LEMMA AcceptTypes ==
  ASSUME TypeInv, NEW t \in Tasks, Accept(t)
  PROVE  TypeInv' /\ Kept
<1>1. /\ Left(t) /\ ScopesStay /\ summaries' = summaries
      /\ (\E h \in handoffs : Settle(h, "accepted")) \/ UNCHANGED rowVars
  BY AcceptDoes DEF TypeInv
<1>2. ScopesOK' /\ Kept /\ PagesOK' /\ RowsTypeOK' /\ Later
  BY <1>1, ScopeTypes, PagesStay, SettleTypes DEF TypeInv
<1> QED
  BY <1>1, <1>2, TasksLeft DEF TypeInv

LEMMA ProcessTypes ==
  ASSUME TypeInv, NEW t \in Tasks, Process(t)
  PROVE  TypeInv' /\ Kept
BY StickyScopeTypes, LookupTypes, MakeWorkspaceTypes, MakeProjectTypes, RememberTypes, DispositionTypes,
   BeginTypes, ObserveTypes, ReadObservationsTypes, WritePageTypes, CloseTypes, AutoHandoffTypes, PeekTypes,
   AcceptTypes, LeavingTypes DEF Process

-----------------------------------------------------------------------------
(* Requests that come, and the tools.                                       *)

\* A request that is taken on, at its first step.
Begun(t, step) ==
    /\ ~Busy(t) /\ Others(t) /\ tasks' = [u \in Tasks |-> tasks'[u]]
    /\ tasks'[t] # Idle /\ TypeNext(tasks'[t])
    /\ tasks'[t].step = step /\ ~tasks'[t].retried /\ tasks'[t].calm = Undisturbed

LEMMA BegunTasks ==
  ASSUME TasksOK, Later, NEW t \in Tasks, NEW r, r # Idle, TypeNext(r), tasks' = [tasks EXCEPT ![t] = r]
  PROVE  TasksOK' /\ Others(t) /\ tasks' = [u \in Tasks |-> tasks'[u]] /\ tasks'[t] = r
<1>1. Others(t) /\ tasks' = [u \in Tasks |-> tasks'[u]] /\ tasks'[t] = r
  BY DEF TasksOK, Others
<1>2. \A u \in Tasks : tasks'[u] = Idle \/ TypeNext(tasks'[u])
  BY <1>1, StillTyped DEF Others
<1> QED
  BY <1>1, <1>2, TypedNext

LEMMA ArrivesDoes ==
  ASSUME TypeInv, NEW t \in Tasks, NEW kind \in Kinds, NEW s \in Sessions, NEW place \in Places(kind),
         Arrives(t, kind, s, place)
  PROVE  /\ TypeInv' /\ Kept /\ Quiet /\ cache' = cache
         /\ tasks'[t].kind = kind /\ tasks'[t].s = s
         /\ Begun(t, "scope") \/ Begun(t, "lookup")
         /\ serial /\ kind # "fetch" => \A u \in Tasks : Busy(u) => tasks[u].s # s
<1> DEFINE step == IF kind = "fetch" THEN "lookup" ELSE "scope"
           r == [step |-> step, kind |-> kind, s |-> s, place |-> place, ws |-> NULL, proj |-> NULL,
                 retried |-> FALSE, seen |-> {}, calm |-> Undisturbed]
<1>1. /\ ~Busy(t) /\ Quiet /\ cache' = cache /\ tasks' = [tasks EXCEPT ![t] = r]
      /\ serial /\ kind # "fetch" => \A u \in Tasks : Busy(u) => tasks[u].s # s
  BY DEF Arrives, Quiet, storeVars
<1>2. ScopesOK' /\ RowsTypeOK' /\ PagesOK' /\ Later /\ Kept
  BY <1>1, QuietTypes
<1>3. place \in PlaceRows /\ Undisturbed \in BOOLEAN
  BY PlacesAssumption DEF PlaceRows, Undisturbed
<1>4. TypeNext(r)
  BY <1>3 DEF TypeNext, Fields, Ranges, Fits, Steps, Kinds
<1>5. r # Idle /\ r.step = step /\ ~r.retried /\ r.calm = Undisturbed /\ r.kind = kind /\ r.s = s
  BY DEF Idle
<1> HIDE DEF r
<1>6. TasksOK' /\ Others(t) /\ tasks' = [u \in Tasks |-> tasks'[u]] /\ tasks'[t] = r
  BY <1>1, <1>2, <1>4, <1>5, BegunTasks DEF TypeInv
<1> QED
  BY <1>1, <1>2, <1>4, <1>5, <1>6 DEF Begun, TypeInv

LEMMA FetchDoes ==
  ASSUME TypeInv, NEW t \in Tasks, NEW dir \in Dirs \cup {NULL}, memory_handoff_accept(t, dir)
  PROVE  /\ TypeInv' /\ Kept /\ Quiet /\ cache' = cache
         /\ Begun(t, "peek") /\ tasks'[t].kind = "fetch"
<1> DEFINE r == [step |-> "peek", kind |-> "fetch", s |-> NULL, place |-> [dir |-> dir, ws |-> NULL, proj |-> NULL],
            ws |-> ToolScope[1], proj |-> ToolScope[2], retried |-> FALSE, seen |-> {}, calm |-> Undisturbed]
<1>1. ~Busy(t) /\ Quiet /\ cache' = cache /\ tasks' = [tasks EXCEPT ![t] = r]
  BY DEF memory_handoff_accept, Quiet, storeVars
<1>2. ScopesOK' /\ RowsTypeOK' /\ PagesOK' /\ Later /\ Kept
  BY <1>1, QuietTypes
<1>3. [dir |-> dir, ws |-> NULL, proj |-> NULL] \in PlaceRows /\ Undisturbed \in BOOLEAN
  BY DEF PlaceRows, Undisturbed
<1>4. TypeNext(r)
  BY <1>3 DEF TypeNext, Fields, Ranges, Fits, Steps, Kinds
<1>5. r # Idle /\ r.step = "peek" /\ ~r.retried /\ r.calm = Undisturbed /\ r.kind = "fetch"
  BY DEF Idle
<1> HIDE DEF r
<1>6. TasksOK' /\ Others(t) /\ tasks' = [u \in Tasks |-> tasks'[u]] /\ tasks'[t] = r
  BY <1>1, <1>2, <1>4, <1>5, BegunTasks DEF TypeInv
<1> QED
  BY <1>1, <1>2, <1>4, <1>5, <1>6 DEF Begun, TypeInv

LEMMA ManualDoes ==
  ASSUME TypeInv, memory_handoff_begin
  PROVE  /\ TypeInv' /\ Kept /\ ScopesStay /\ UNCHANGED <<tasks, cache, summaries, sessions, observations>>
         /\ insert_handoff(ToolScope[1], ToolScope[2], NULL, NULL, {})
<1>1. /\ ScopesStay /\ UNCHANGED <<tasks, cache, summaries>>
      /\ insert_handoff(ToolScope[1], ToolScope[2], NULL, NULL, {})
  BY DEF memory_handoff_begin, ScopesStay
<1>0. {} \in SUBSET (1..clock)
  OBVIOUS
<1>2. RowsTypeOK' /\ clock' = clock + 1 /\ UNCHANGED <<sessions, observations>>
  BY <1>0, <1>1, HandoffInserted DEF TypeInv, HandedOver
<1>3. Later
  BY <1>2 DEF Later, TypeInv, RowsTypeOK
<1> QED
  BY <1>1, <1>2, <1>3, ScopeTypes, PagesStay, TasksStay DEF TypeInv

LEMMA CancelDoes ==
  ASSUME TypeInv, NEW h \in handoffs, memory_handoff_cancel(h)
  PROVE  /\ TypeInv' /\ Kept /\ ScopesStay /\ UNCHANGED <<tasks, cache, summaries, sessions, observations>>
         /\ Settle(h, "expired")
<1>1. ScopesStay /\ UNCHANGED <<tasks, cache, summaries>> /\ Settle(h, "expired")
  BY DEF memory_handoff_cancel, ScopesStay, cancel_handoff
<1>2. RowsTypeOK' /\ sessions' = sessions /\ observations' = observations /\ Later
  BY <1>1, SettleTypes DEF TypeInv
<1> QED
  BY <1>1, <1>2, ScopeTypes, PagesStay, TasksStay DEF TypeInv

-----------------------------------------------------------------------------
(* The administration.                                                      *)

\* What an operation does that drops the projects in ps: it makes no row, and
\* takes none but theirs; what it keeps of a session, an observation or a
\* handoff is when it was and what it covers.
SessionsLess(ps) == \A s \in Sessions : sessions'[s] # NULL =>
    /\ sessions[s] # NULL /\ sessions'[s].ended = sessions[s].ended
    /\ sessions'[s].page \in ({sessions[s].page} \ ps) \cup {NULL}
ObservationsLess == \A o \in observations' : \E x \in observations : o.at = x.at /\ o.s = x.s /\ o.work = x.work
HandoffsLess == \A h \in handoffs' : \E g \in handoffs : Descend(h, g) /\ h.from \in {g.from, NULL}
PagesLess(ps) == \A p \in ProjectIds \ ps, s \in Sessions : summaries'[<<p, s>>] = summaries[<<p, s>>]
Lost(ps) == ps # {} => \E p \in ProjectIds : projects'[p] = Gone
NothingLost == SameObservations /\ \A s \in Sessions : sessions[s] # NULL => sessions'[s] # NULL

Administers(ps) ==
    /\ ps \subseteq ProjectIds /\ ps \cap LiveProjects' = {} /\ Sticks
    /\ SessionsLess(ps) /\ ObservationsLess /\ HandoffsLess /\ PagesLess(ps) /\ clock' = clock
    /\ ps = {} => NothingLost
    /\ Lost(ps)

\* No request rests on what an operation has changed.
Unsettled == \A t \in Tasks :
    IF Busy(t)
    THEN /\ tasks'[t] # Idle /\ ~tasks'[t].calm
         /\ tasks'[t].step = tasks[t].step /\ tasks'[t].kind = tasks[t].kind /\ tasks'[t].s = tasks[t].s
         /\ tasks'[t].place = tasks[t].place /\ tasks'[t].retried = tasks[t].retried
         /\ SameScope(t) /\ SameRead(t)
    ELSE tasks'[t] = Idle

LEMMA CommitsDoes ==
  ASSUME TasksOK, Later, NEW pending, NEW plan, Commits(pending, plan)
  PROVE  /\ TasksOK' /\ Unsettled
         /\ admin = NULL /\ admin' = pending /\ reorg' = plan /\ UNCHANGED <<cache, serial>>
         /\ ReorgAlone => reorg = NULL
<1>1. /\ tasks' = [t \in Tasks |-> IF Busy(t) THEN [tasks[t] EXCEPT !.calm = FALSE] ELSE Idle]
      /\ admin = NULL /\ admin' = pending /\ reorg' = plan /\ UNCHANGED <<cache, serial>>
      /\ ReorgAlone => reorg = NULL
  BY DEF Commits
<1>2. ASSUME NEW t \in Tasks, Busy(t)
      PROVE  /\ tasks'[t] # Idle /\ ~tasks'[t].calm
             /\ tasks'[t].step = tasks[t].step /\ tasks'[t].kind = tasks[t].kind /\ tasks'[t].s = tasks[t].s
             /\ tasks'[t].place = tasks[t].place /\ tasks'[t].retried = tasks[t].retried
             /\ SameScope(t) /\ SameRead(t) /\ TypeNext(tasks'[t])
    <2> DEFINE r == [tasks[t] EXCEPT !.calm = FALSE]
    <2>1. TaskType(tasks[t])
      BY <1>2, BusyType
    <2>2. /\ Fields(r) /\ r.calm = FALSE /\ r.step = tasks[t].step /\ r.kind = tasks[t].kind /\ r.s = tasks[t].s
          /\ r.place = tasks[t].place /\ r.ws = tasks[t].ws /\ r.proj = tasks[t].proj /\ r.seen = tasks[t].seen
          /\ r.retried = tasks[t].retried
      BY <2>1 DEF TaskType, Fields
    <2>3. tasks'[t] = r
      BY <1>1, <1>2
    <2> HIDE DEF r
    <2>4. r # Idle
      BY <2>2 DEF Fields, Idle
    <2>5. Ranges(r) /\ Fits(r, clock)
      BY <2>1, <2>2 DEF TaskType, Ranges, Fits
    <2>6. TypeNext(r)
      BY <2>2, <2>5, FitsLater DEF TypeNext
    <2> QED
      BY <2>2, <2>3, <2>4, <2>6 DEF SameScope, SameRead
<1>3. \A t \in Tasks : ~Busy(t) => tasks'[t] = Idle
  BY <1>1
<1>4. tasks' = [t \in Tasks |-> tasks'[t]] /\ \A t \in Tasks : tasks'[t] = Idle \/ TypeNext(tasks'[t])
  BY <1>1, <1>2, <1>3
<1> QED
  BY <1>1, <1>2, <1>3, <1>4, TypedNext DEF Unsettled

\* Pairs of the rows after a step.
PairedNext ==
    /\ \A s \in Sessions : sessions'[s] # NULL => StillSound(sessions'[s].ws, sessions'[s].proj)
    /\ \A o \in observations' : StillSound(o.ws, o.proj) /\ sessions'[o.s] # NULL
    /\ \A h \in handoffs' : StillSound(h.ws, h.proj) /\ (h.from # NULL => sessions'[h.from] # NULL)

LEMMA PairedThen == PairedNext => ScopesPaired'
BY DEF PairedNext, ScopesPaired, StillSound, ProjectInWorkspace

\* The projects of the database that are dropped, with their rows and pages.
LEMMA Purges ==
  ASSUME TypeInv, NEW ps \in SUBSET LiveProjects, DropProjects(ps), DropRows(ps), NoPages(ps),
         workspaces' \in [WorkspaceIds -> WsNames \cup {Unborn, Gone}]
  PROVE  /\ ScopesOK' /\ RowsTypeOK' /\ PagesOK' /\ Later /\ Administers(ps)
         /\ ScopesPaired => ScopesPaired'
<1>1. ps \subseteq ProjectIds
  BY DEF LiveProjects
<1>2. /\ ScopesOK' /\ Sticks /\ LiveProjects' = LiveProjects \ ps
      /\ \A q \in ProjectIds : projects'[q] = IF q \in ps THEN Gone ELSE projects[q]
  BY ProjectsDropped DEF TypeInv
<1>3. /\ RowsTypeOK' /\ clock' = clock
      /\ observations' = {o \in observations : o.proj \notin ps /\ o.s \notin Dropped(ps)}
  BY <1>1, RowsDropped DEF TypeInv
<1>4. \A s \in Sessions :
          IF s \in Dropped(ps) \/ sessions[s] = NULL THEN sessions'[s] = NULL
          ELSE /\ sessions'[s] # NULL
               /\ sessions'[s].ws = sessions[s].ws /\ sessions'[s].proj = sessions[s].proj
               /\ sessions'[s].ended = sessions[s].ended
               /\ sessions'[s].page \in ({sessions[s].page} \ ps) \cup {NULL}
  BY <1>1, RowsDropped DEF TypeInv
<1>5. \A h \in handoffs' : /\ h.proj \notin ps /\ h.from \notin Dropped(ps)
                           /\ \E g \in handoffs : Descend(h, g) /\ h.ws = g.ws /\ h.from \in {g.from, NULL}
  BY <1>1, RowsDropped DEF TypeInv
<1>6. PagesOK' /\ PagesLess(ps)
  <2>1. \A p \in ProjectIds, s \in Sessions :
            summaries'[<<p, s>>] = IF p \in ps THEN Unwritten ELSE summaries[<<p, s>>]
    BY DEF TypeInv, PagesOK, NoPages
  <2>2. PagesOK'
    BY DEF TypeInv, PagesOK, NoPages
  <2> QED
    BY <2>1, <2>2 DEF PagesLess
<1>7. SessionsLess(ps)
  BY <1>4 DEF SessionsLess
<1>8. ObservationsLess
  BY <1>3 DEF ObservationsLess
<1>9. HandoffsLess
  BY <1>5 DEF HandoffsLess
<1>10. Lost(ps)
  BY <1>1, <1>2 DEF Lost
<1>11. ASSUME ps = {} PROVE NothingLost
  <2>1. Dropped(ps) = {}
    BY <1>11 DEF Dropped
  <2>2. observations' = observations
    BY <1>3, <1>11, <2>1
  <2> QED
    BY <1>4, <2>1, <2>2 DEF NothingLost, SameObservations
<1>12. Later
  BY <1>3 DEF Later, TypeInv, RowsTypeOK
<1>13. ps \cap LiveProjects' = {}
  BY <1>2
<1>14. Administers(ps)
  BY <1>1, <1>2, <1>3, <1>6, <1>7, <1>8, <1>9, <1>10, <1>11, <1>13 DEF Administers
<1>15. ASSUME ScopesPaired PROVE PairedNext
  <2>1. ASSUME NEW w, NEW p, ProjectInWorkspace(w, p), p \notin ps
        PROVE  StillSound(w, p)
    BY <1>2, <2>1 DEF ProjectInWorkspace, StillSound, LiveProjects
  <2>2. ASSUME NEW s \in Sessions, sessions'[s] # NULL
        PROVE  StillSound(sessions'[s].ws, sessions'[s].proj)
    <3>1. /\ s \notin Dropped(ps) /\ sessions[s] # NULL
          /\ sessions'[s].ws = sessions[s].ws /\ sessions'[s].proj = sessions[s].proj
      BY <1>4, <2>2
    <3>2. ProjectInWorkspace(sessions[s].ws, sessions[s].proj) /\ sessions[s].proj \notin ps
      BY <1>15, <3>1 DEF ScopesPaired, Dropped
    <3> QED
      BY <2>1, <3>1, <3>2
  <2>3. ASSUME NEW o \in observations'
        PROVE  StillSound(o.ws, o.proj) /\ sessions'[o.s] # NULL
    <3>1. o \in observations /\ o.proj \notin ps /\ o.s \notin Dropped(ps) /\ o.s \in Sessions
      BY <1>3, <2>3 DEF TypeInv, RowsTypeOK
    <3>2. ProjectInWorkspace(o.ws, o.proj) /\ sessions[o.s] # NULL
      BY <1>15, <3>1 DEF ScopesPaired
    <3> QED
      BY <1>4, <2>1, <3>1, <3>2
  <2>4. ASSUME NEW h \in handoffs'
        PROVE  StillSound(h.ws, h.proj) /\ (h.from # NULL => sessions'[h.from] # NULL)
    <3>1. h.proj \notin ps /\ h.from \notin Dropped(ps)
      BY <1>5
    <3>2. PICK g \in handoffs : Descend(h, g) /\ h.ws = g.ws /\ h.from \in {g.from, NULL}
      BY <1>5
    <3>3. ProjectInWorkspace(g.ws, g.proj) /\ (g.from # NULL => sessions[g.from] # NULL)
      BY <1>15 DEF ScopesPaired
    <3>4. h.proj = g.proj /\ g.from \in Sessions \cup {NULL}
      BY <3>2 DEF Descend, TypeInv, RowsTypeOK
    <3>5. StillSound(h.ws, h.proj)
      BY <2>1, <3>1, <3>2, <3>3, <3>4
    <3> QED
      BY <1>4, <3>1, <3>2, <3>3, <3>4, <3>5
  <2> QED
    BY <2>2, <2>3, <2>4 DEF PairedNext
<1> QED
  BY <1>2, <1>3, <1>6, <1>12, <1>14, <1>15, PairedThen

\* No row changes with the scopes.
LEMMA RowsUnmoved ==
  ASSUME TypeInv, Sticks, ScopesOK', UNCHANGED rowVars, UNCHANGED summaries
  PROVE  /\ RowsTypeOK' /\ PagesOK' /\ Later /\ Administers({})
         /\ Kept /\ ScopesPaired => ScopesPaired'
<1>1. RowsTypeOK' /\ PagesOK' /\ Later
  BY RowsSame, PagesStay, StillLater DEF TypeInv
<1>2. sessions' = sessions /\ observations' = observations /\ handoffs' = handoffs /\ clock' = clock
  BY DEF rowVars
<1>3. SessionsLess({}) /\ ObservationsLess /\ HandoffsLess /\ PagesLess({}) /\ NothingLost /\ Lost({})
  BY <1>2 DEF SessionsLess, ObservationsLess, HandoffsLess, PagesLess, NothingLost, SameObservations, Lost, Descend
<1>4. Administers({})
  BY <1>2, <1>3 DEF Administers
<1>5. ASSUME Kept, ScopesPaired PROVE PairedNext
  BY <1>2, <1>5, KeptSound DEF ScopesPaired, PairedNext
<1> QED
  BY <1>1, <1>4, <1>5, PairedThen

\* A request rests on nothing that a committed operation has changed, and there
\* is a plan of a reorganisation only if another may overlap.
Committed(plan) ==
    /\ TypeInv' /\ Unsettled /\ admin = NULL /\ reorg' = plan /\ UNCHANGED <<cache, serial>>
    /\ \E ps \in SUBSET ProjectIds : Administers(ps)
    /\ ReorgAlone => reorg = NULL
    /\ ScopesPaired => ScopesPaired'

LEMMA Commitment ==
  ASSUME TypeInv, NEW pending, NEW plan, Commits(pending, plan), Later, ScopesOK', RowsTypeOK', PagesOK',
         NEW ps \in SUBSET ProjectIds, Administers(ps), ScopesPaired => ScopesPaired'
  PROVE  Committed(plan) /\ admin' = pending
BY CommitsDoes DEF TypeInv, Committed

LEMMA PurgeDoes ==
  ASSUME TypeInv, NEW p \in ProjectIds, NEW pending,
         ProjectInWorkspace(projects[p].ws, p), PurgeProject(projects[p].ws, p), DropRows({p}), NoPages({p}),
         Commits(pending, reorg)
  PROVE  Committed(reorg)
<1>1. {p} \in SUBSET LiveProjects /\ DropProjects({p}) /\ workspaces' = workspaces
  BY DEF ProjectInWorkspace, PurgeProject
<1>2. workspaces' \in [WorkspaceIds -> WsNames \cup {Unborn, Gone}]
  BY <1>1 DEF TypeInv, ScopesOK, ScopesTypeOK
<1>3. /\ ScopesOK' /\ RowsTypeOK' /\ PagesOK' /\ Later /\ Administers({p})
      /\ ScopesPaired => ScopesPaired'
  BY <1>1, <1>2, Purges
<1> QED
  BY <1>3, Commitment

LEMMA DeleteDoes ==
  ASSUME TypeInv, NEW w \in WorkspaceIds, NEW force, handle_delete_workspace(w, force)
  PROVE  Committed(reorg)
<1> DEFINE ps == ProjectsOf(w)
<1>1. /\ DropProjects(ps) /\ DropRows(ps) /\ NoPages(ps) /\ workspaces' = [workspaces EXCEPT ![w] = Gone]
      /\ Commits([kind |-> "deleted", id |-> w], reorg)
  BY DEF handle_delete_workspace, DeleteWorkspace
<1>2. workspaces' \in [WorkspaceIds -> WsNames \cup {Unborn, Gone}]
  BY <1>1 DEF TypeInv, ScopesOK, ScopesTypeOK
<1>3. ps \in SUBSET LiveProjects /\ ps \in SUBSET ProjectIds
  BY DEF ProjectsOf, LiveProjects
<1> HIDE DEF ps
<1>4. /\ ScopesOK' /\ RowsTypeOK' /\ PagesOK' /\ Later /\ Administers(ps)
      /\ ScopesPaired => ScopesPaired'
  BY <1>1, <1>2, <1>3, Purges
<1> QED
  BY <1>1, <1>3, <1>4, Commitment

LEMMA RenameWorkspaceDoes ==
  ASSUME TypeInv, NEW w \in WorkspaceIds, NEW n \in WsNames, handle_rename_workspace(w, n)
  PROVE  Committed(reorg)
<1>1. /\ workspaces' = [workspaces EXCEPT ![w] = n] /\ projects' = projects
      /\ UNCHANGED rowVars /\ UNCHANGED summaries
      /\ Commits([kind |-> "renamed", id |-> w], reorg)
  BY DEF handle_rename_workspace, RenameWorkspace
<1>2. ScopesOK' /\ Kept
  BY <1>1 DEF TypeInv, ScopesOK, ScopesTypeOK, Kept
<1>3. /\ RowsTypeOK' /\ PagesOK' /\ Later /\ Administers({})
      /\ ScopesPaired => ScopesPaired'
  BY <1>1, <1>2, KeptSticks, RowsUnmoved
<1> QED
  BY <1>1, <1>2, <1>3, Commitment

LEMMA RenameProjectDoes ==
  ASSUME TypeInv, NEW p \in ProjectIds, NEW n \in ProjNames, handle_rename_project(p, n)
  PROVE  Committed(reorg)
<1> DEFINE row == [projects[p] EXCEPT !.name = n]
<1>1. /\ p \in LiveProjects /\ workspaces' = workspaces
      /\ projects' = [projects EXCEPT ![p] = row]
      /\ UNCHANGED rowVars /\ UNCHANGED summaries
      /\ Commits(NULL, reorg)
  BY DEF handle_rename_project, RenameProject
<1>2. row \in ProjectRows /\ row.ws = projects[p].ws
  BY <1>1, LiveRow DEF TypeInv, ProjectRows
<1> HIDE DEF row
<1>3. workspaces' \in [WorkspaceIds -> WsNames \cup {Unborn, Gone}]
  BY <1>1 DEF TypeInv, ScopesOK, ScopesTypeOK
<1>4. /\ ScopesOK' /\ Sticks /\ LiveProjects' = LiveProjects
      /\ \A q \in ProjectIds : projects'[q] = IF q = p THEN row ELSE projects[q]
  BY <1>1, <1>2, <1>3, RowChanged DEF TypeInv
<1>5. RowsTypeOK' /\ PagesOK' /\ Later /\ Administers({})
  BY <1>1, <1>4, RowsUnmoved
<1>6. ASSUME NEW v, NEW q, ProjectInWorkspace(v, q)
      PROVE  StillSound(v, q)
  BY <1>2, <1>4, <1>6 DEF ProjectInWorkspace, StillSound, LiveProjects
<1>7. ASSUME ScopesPaired PROVE PairedNext
  BY <1>1, <1>6, <1>7 DEF ScopesPaired, PairedNext, rowVars
<1>8. ScopesPaired => ScopesPaired'
  BY <1>7, PairedThen
<1> QED
  BY <1>1, <1>4, <1>5, <1>8, Commitment

LEMMA PlanDoes ==
  ASSUME TypeInv, NEW s \in Sessions, handle_reorg(s)
  PROVE  \E plan : Committed(plan) /\ admin' = NULL /\ StillSound(plan.ws, plan.proj)
<1> DEFINE w == sessions[s].ws
           n == IF NameOf(sessions[s].dir) = NULL THEN Unknown ELSE NameOf(sessions[s].dir)
<1>1. /\ sessions[s] # NULL /\ UNCHANGED rowVars /\ UNCHANGED summaries
      /\ \E p \in ProjectIds \ {sessions[s].proj} :
            /\ \/ ProjectNamed(w, n) = {p} /\ UNCHANGED scopeVars
               \/ GetOrCreateProject(w, n, RootOf(sessions[s].dir), p)
            /\ Commits(NULL, [ws |-> w, s |-> s, proj |-> p])
  BY DEF handle_reorg
<1>2. n \in ProjNames /\ RootOf(sessions[s].dir) \in RepoPaths \cup {NULL}
  BY <1>1, SessionRow, PlacesAssumption DEF TypeInv
<1> HIDE DEF w, n
<1>3. PICK p \in ProjectIds :
         /\ \/ ProjectNamed(w, n) = {p} /\ UNCHANGED scopeVars
            \/ GetOrCreateProject(w, n, RootOf(sessions[s].dir), p)
         /\ Commits(NULL, [ws |-> w, s |-> s, proj |-> p])
  BY <1>1
<1>4. ScopesOK' /\ Kept /\ StillSound(w, p)
  <2>1. CASE ProjectNamed(w, n) = {p} /\ UNCHANGED scopeVars
    <3>1. ProjectInWorkspace(w, p)
      BY <2>1 DEF ProjectNamed, ProjectInWorkspace
    <3> QED
      BY <2>1, <3>1, ScopesSame, KeptSound DEF TypeInv
  <2>2. CASE GetOrCreateProject(w, n, RootOf(sessions[s].dir), p)
    BY <1>2, <2>2, ProjectMade DEF TypeInv
  <2> QED
    BY <1>3, <2>1, <2>2
<1>5. /\ RowsTypeOK' /\ PagesOK' /\ Later /\ Administers({})
      /\ ScopesPaired => ScopesPaired'
  BY <1>1, <1>4, KeptSticks, RowsUnmoved
<1> DEFINE plan == [ws |-> w, s |-> s, proj |-> p]
<1>6. Committed(plan) /\ admin' = NULL
  BY <1>3, <1>4, <1>5, Commitment
<1>7. plan.ws = w /\ plan.proj = p
  OBVIOUS
<1> QED
  BY <1>4, <1>6, <1>7

LEMMA MoveDoes ==
  ASSUME TypeInv, NEW p \in ProjectIds, NEW n \in WsNames, NEW force, handle_move_project(p, n, force)
  PROVE  Committed(reorg)
<1>1. p \in LiveProjects /\ ProjectInWorkspace(projects[p].ws, p)
  BY DEF handle_move_project, ProjectInWorkspace
<1>2. CASE /\ PurgeProject(projects[p].ws, p) /\ DropRows({p}) /\ NoPages({p})
           /\ Commits([kind |-> "purged", id |-> p], reorg)
  BY <1>1, <1>2, PurgeDoes
<1>3. CASE /\ \E w \in WorkspaceIds :
                /\ UNCHANGED scopeVars \/ GetOrCreateWorkspace(n, w)
                /\ Commits([kind |-> "moving", id |-> p, from |-> projects[p].ws, to |-> w], reorg)
           /\ UNCHANGED <<rowVars, summaries>>
  <2>1. PICK w \in WorkspaceIds :
            /\ UNCHANGED scopeVars \/ GetOrCreateWorkspace(n, w)
            /\ Commits([kind |-> "moving", id |-> p, from |-> projects[p].ws, to |-> w], reorg)
    BY <1>3
  <2>2. ScopesOK' /\ Kept
    BY <2>1, ScopesSame, WorkspaceMade DEF TypeInv
  <2>3. /\ RowsTypeOK' /\ PagesOK' /\ Later /\ Administers({})
        /\ ScopesPaired => ScopesPaired'
    BY <1>3, <2>2, KeptSticks, RowsUnmoved
  <2> QED
    BY <2>1, <2>2, <2>3, Commitment
<1> QED
  BY <1>2, <1>3 DEF handle_move_project

\* The steps after a commit.
Settles ==
    /\ TypeInv' /\ UNCHANGED <<tasks, serial>> /\ (admin' = admin \/ admin # NULL)
    /\ \E ps \in SUBSET ProjectIds : Administers(ps)

LEMMA ReorgCommitsDoes ==
  ASSUME TypeInv, ReorgCommits
  PROVE  /\ Settles /\ reorg # NULL /\ reorg' = NULL /\ UNCHANGED <<scopeVars, admin, cache>>
         /\ \A s \in Sessions : sessions[s] # NULL => sessions'[s] # NULL
         /\ ProjectInWorkspace(reorg.ws, reorg.proj) /\ ScopesPaired => ScopesPaired'
<1> DEFINE w == reorg.ws
           p == reorg.proj
           moved == {reorg.s}
<1>1. /\ reorg # NULL /\ reorg' = NULL /\ UNCHANGED scopeVars /\ UNCHANGED <<summaries, tasks, serial, admin, cache>>
      /\ reorg_sessions(w, p, moved) \/ UNCHANGED rowVars
  BY DEF ReorgCommits
<1> HIDE DEF w, p, moved
<1>2. ScopesOK' /\ Kept /\ Sticks /\ PagesOK'
  BY <1>1, ScopesSame, KeptSticks, PagesStay DEF TypeInv
<1>3. CASE UNCHANGED rowVars
  <2>1. RowsTypeOK' /\ Later /\ Administers({}) /\ (ScopesPaired => ScopesPaired')
    BY <1>1, <1>2, <1>3, RowsUnmoved
  <2>2. TasksOK'
    BY <1>1, <2>1, TasksStay DEF TypeInv
  <2>3. \A s \in Sessions : sessions[s] # NULL => sessions'[s] # NULL
    BY <1>3 DEF rowVars
  <2> QED
    BY <1>1, <1>2, <2>1, <2>2, <2>3 DEF Settles, TypeInv
<1>4. CASE reorg_sessions(w, p, moved)
  <2>1. RowsTypeOK' /\ SameObservations /\ UNCHANGED <<handoffs, clock>>
    BY <1>4, RowsReorganised DEF TypeInv
  <2>2. \A s \in Sessions :
            IF sessions[s] = NULL THEN sessions'[s] = NULL
            ELSE /\ sessions'[s] # NULL
                 /\ sessions'[s].ws = sessions[s].ws
                 /\ sessions'[s].proj = (IF s \in moved /\ sessions[s].ws = w THEN p ELSE sessions[s].proj)
                 /\ sessions'[s].ended = sessions[s].ended /\ sessions'[s].page = sessions[s].page
    BY <1>4, RowsReorganised DEF TypeInv
  <2>3. \A o \in observations' : \E x \in observations :
            o.s = x.s /\ o.ws = x.ws /\ ((o.proj = x.proj) \/ (x.ws = w /\ o.proj = p))
    BY <1>4, RowsReorganised DEF TypeInv
  <2>4. SessionsLess({}) /\ NothingLost
    BY <2>1, <2>2 DEF SessionsLess, NothingLost
  <2>5. ObservationsLess /\ HandoffsLess /\ PagesLess({}) /\ Lost({})
    BY <1>1, <2>1 DEF ObservationsLess, SameObservations, HandoffsLess, PagesLess, Lost, Descend
  <2>6. Administers({})
    BY <1>2, <2>1, <2>4, <2>5 DEF Administers
  <2>7. Later
    BY <2>1 DEF Later, TypeInv, RowsTypeOK
  <2>8. TasksOK'
    BY <1>1, <2>7, TasksStay DEF TypeInv
  <2>9. ASSUME ProjectInWorkspace(w, p), ScopesPaired PROVE PairedNext
    <3>1. \A v, q : ProjectInWorkspace(v, q) => StillSound(v, q)
      BY <1>2, KeptSound
    <3>2. \A s \in Sessions : sessions'[s] # NULL => StillSound(sessions'[s].ws, sessions'[s].proj)
      BY <2>2, <2>9, <3>1 DEF ScopesPaired
    <3>3. ASSUME NEW o \in observations'
          PROVE  StillSound(o.ws, o.proj) /\ sessions'[o.s] # NULL
      <4>1. PICK x \in observations :
                o.s = x.s /\ o.ws = x.ws /\ ((o.proj = x.proj) \/ (x.ws = w /\ o.proj = p))
        BY <2>3
      <4>2. ProjectInWorkspace(x.ws, x.proj) /\ sessions[x.s] # NULL /\ x.s \in Sessions
        BY <2>9 DEF ScopesPaired, TypeInv, RowsTypeOK
      <4>3. StillSound(o.ws, o.proj)
        BY <2>9, <3>1, <4>1, <4>2
      <4> QED
        BY <2>2, <4>1, <4>2, <4>3
    <3>4. ASSUME NEW h \in handoffs'
          PROVE  StillSound(h.ws, h.proj) /\ (h.from # NULL => sessions'[h.from] # NULL)
      <4>1. h \in handoffs /\ h.from \in Sessions \cup {NULL}
        BY <2>1 DEF TypeInv, RowsTypeOK
      <4>2. ProjectInWorkspace(h.ws, h.proj) /\ (h.from # NULL => sessions[h.from] # NULL)
        BY <2>9, <4>1 DEF ScopesPaired
      <4> QED
        BY <2>2, <3>1, <4>1, <4>2
    <3> QED
      BY <3>2, <3>3, <3>4 DEF PairedNext
  <2> QED
    BY <1>1, <1>2, <2>1, <2>2, <2>6, <2>8, <2>9, PairedThen DEF Settles, TypeInv, w, p
<1> QED
  BY <1>1, <1>3, <1>4

LEMMA TrueMoveDoes ==
  ASSUME TypeInv, true_move_project
  PROVE  Settles /\ admin # NULL /\ reorg' = reorg /\ (ScopesPaired => ScopesPaired')
<1> DEFINE p == admin.id
           to == admin.to
           row == [projects[p] EXCEPT !.ws = to]
<1>1. /\ admin # NULL /\ UNCHANGED <<summaries, tasks, reorg, serial>>
      /\ \/ MoveProjectWorkspace(p, admin.from, to) /\ RestampRows(p, to)
         \/ UNCHANGED rowVars /\ UNCHANGED scopeVars
  BY DEF true_move_project
<1>2. CASE UNCHANGED rowVars /\ UNCHANGED scopeVars
  <2>1. ScopesOK' /\ Kept /\ Sticks
    BY <1>2, ScopesSame, KeptSticks DEF TypeInv
  <2>2. RowsTypeOK' /\ PagesOK' /\ Later /\ Administers({}) /\ (ScopesPaired => ScopesPaired')
    BY <1>1, <1>2, <2>1, RowsUnmoved
  <2>3. TasksOK'
    BY <1>1, <2>2, TasksStay DEF TypeInv
  <2> QED
    BY <1>1, <2>1, <2>2, <2>3 DEF Settles, TypeInv
<1>3. CASE MoveProjectWorkspace(p, admin.from, to) /\ RestampRows(p, to)
  <2>1. /\ p \in LiveProjects /\ to \in WorkspaceIds /\ workspaces' = workspaces
        /\ projects' = [projects EXCEPT ![p] = row]
    BY <1>3 DEF MoveProjectWorkspace, ProjectInWorkspace, LiveWorkspaces
  <2>2. row \in ProjectRows /\ row.ws = to
    BY <2>1, LiveRow DEF TypeInv, ProjectRows
  <2> HIDE DEF row, p, to
  <2>3. workspaces' \in [WorkspaceIds -> WsNames \cup {Unborn, Gone}]
    BY <2>1 DEF TypeInv, ScopesOK, ScopesTypeOK
  <2>4. /\ ScopesOK' /\ Sticks /\ LiveProjects' = LiveProjects
        /\ \A q \in ProjectIds : projects'[q] = IF q = p THEN row ELSE projects[q]
    BY <2>1, <2>2, <2>3, RowChanged DEF TypeInv
  <2>5. RowsTypeOK' /\ SameObservations /\ clock' = clock
    BY <1>3, <2>1, RowsRestamped DEF TypeInv
  <2>6. \A s \in Sessions :
            IF sessions[s] = NULL THEN sessions'[s] = NULL
            ELSE /\ sessions'[s] # NULL
                 /\ sessions'[s].ws = (IF sessions[s].proj = p THEN to ELSE sessions[s].ws)
                 /\ sessions'[s].proj = sessions[s].proj
                 /\ sessions'[s].ended = sessions[s].ended /\ sessions'[s].page = sessions[s].page
    BY <1>3, <2>1, RowsRestamped DEF TypeInv
  <2>7. \A o \in observations' : \E x \in observations :
            o.s = x.s /\ o.proj = x.proj /\ o.ws = IF x.proj = p THEN to ELSE x.ws
    BY <1>3, <2>1, RowsRestamped DEF TypeInv
  <2>8. \A h \in handoffs' : \E g \in handoffs :
            Descend(h, g) /\ h.from = g.from /\ h.ws = IF g.proj = p THEN to ELSE g.ws
    BY <1>3, <2>1, RowsRestamped DEF TypeInv
  <2>9. SessionsLess({}) /\ NothingLost
    BY <2>5, <2>6 DEF SessionsLess, NothingLost
  <2>10. ObservationsLess /\ PagesLess({}) /\ Lost({})
    BY <1>1, <2>5 DEF ObservationsLess, SameObservations, PagesLess, Lost
  <2>11. HandoffsLess
    BY <2>8 DEF HandoffsLess
  <2>12. Administers({})
    BY <2>4, <2>5, <2>9, <2>10, <2>11 DEF Administers
  <2>13. Later
    BY <2>5 DEF Later, TypeInv, RowsTypeOK
  <2>14. TasksOK' /\ PagesOK'
    BY <1>1, <2>13, TasksStay, PagesStay DEF TypeInv
  <2>15. ASSUME ScopesPaired PROVE PairedNext
    <3>1. ASSUME NEW v, NEW q, ProjectInWorkspace(v, q)
          PROVE  StillSound(IF q = p THEN to ELSE v, q)
      BY <2>2, <2>4, <3>1 DEF ProjectInWorkspace, StillSound, LiveProjects
    <3>2. \A s \in Sessions : sessions'[s] # NULL => StillSound(sessions'[s].ws, sessions'[s].proj)
      BY <2>6, <2>15, <3>1 DEF ScopesPaired
    <3>3. ASSUME NEW o \in observations'
          PROVE  StillSound(o.ws, o.proj) /\ sessions'[o.s] # NULL
      <4>1. PICK x \in observations : o.s = x.s /\ o.proj = x.proj /\ o.ws = IF x.proj = p THEN to ELSE x.ws
        BY <2>7
      <4>2. ProjectInWorkspace(x.ws, x.proj) /\ sessions[x.s] # NULL /\ x.s \in Sessions
        BY <2>15 DEF ScopesPaired, TypeInv, RowsTypeOK
      <4>3. StillSound(o.ws, o.proj)
        BY <3>1, <4>1, <4>2
      <4> QED
        BY <2>6, <4>1, <4>2, <4>3
    <3>4. ASSUME NEW h \in handoffs'
          PROVE  StillSound(h.ws, h.proj) /\ (h.from # NULL => sessions'[h.from] # NULL)
      <4>1. PICK g \in handoffs : Descend(h, g) /\ h.from = g.from /\ h.ws = IF g.proj = p THEN to ELSE g.ws
        BY <2>8
      <4>2. /\ ProjectInWorkspace(g.ws, g.proj) /\ (g.from # NULL => sessions[g.from] # NULL)
            /\ g.from \in Sessions \cup {NULL} /\ h.proj = g.proj
        BY <2>15, <4>1 DEF ScopesPaired, TypeInv, RowsTypeOK, Descend
      <4>3. StillSound(h.ws, h.proj)
        BY <3>1, <4>1, <4>2
      <4> QED
        BY <2>6, <4>1, <4>2, <4>3
    <3> QED
      BY <3>2, <3>3, <3>4 DEF PairedNext
  <2> QED
    BY <1>1, <2>4, <2>5, <2>12, <2>14, <2>15, PairedThen DEF Settles, TypeInv
<1> QED
  BY <1>1, <1>2, <1>3

LEMMA InvalidateDoes ==
  ASSUME TypeInv, invalidate_scope_cache
  PROVE  Settles /\ admin # NULL /\ reorg' = reorg /\ (ScopesPaired => ScopesPaired')
<1>1. /\ admin # NULL /\ UNCHANGED scopeVars /\ UNCHANGED rowVars
      /\ UNCHANGED <<summaries, tasks, reorg, serial>>
  BY DEF invalidate_scope_cache, storeVars
<1>2. ScopesOK' /\ Kept /\ Sticks
  BY <1>1, ScopesSame, KeptSticks DEF TypeInv
<1>3. RowsTypeOK' /\ PagesOK' /\ Later /\ Administers({}) /\ (ScopesPaired => ScopesPaired')
  BY <1>1, <1>2, RowsUnmoved
<1>4. TasksOK'
  BY <1>1, <1>3, TasksStay DEF TypeInv
<1> QED
  BY <1>1, <1>2, <1>3, <1>4 DEF Settles, TypeInv

-----------------------------------------------------------------------------
(* What a request leaves alone: everything of another session.              *)

Untouched(x) ==
    /\ sessions'[x] = sessions[x]
    /\ \A p \in ProjectIds : summaries'[<<p, x>>] = summaries[<<p, x>>]
    /\ \A o \in observations' : o.s = x => o \in observations
    /\ \A h \in handoffs' : h.from = x => \E g \in handoffs : Descend(h, g) /\ g.from = x

Grows ==
    /\ observations \subseteq observations'
    /\ \A x \in Sessions : sessions[x] # NULL => sessions'[x] # NULL

Carries(t) ==
    /\ Busy(t) /\ (Same(t) \/ Left(t))
    /\ TypeInv' /\ Kept /\ UNCHANGED <<admin, reorg, serial>> /\ Grows
    /\ \A x \in Sessions : (Works(t) => tasks[t].s # x) => Untouched(x)
    /\ ScopesPaired => ScopesPaired'

\* Rows that are there stay paired; those that are new are.
LEMMA PairedGrows ==
  ASSUME RowsTypeOK, Kept, ScopesPaired, \A x \in Sessions : sessions[x] # NULL => sessions'[x] # NULL,
         \A s \in Sessions : sessions'[s] # NULL =>
             \/ StillSound(sessions'[s].ws, sessions'[s].proj)
             \/ sessions[s] # NULL /\ sessions'[s].ws = sessions[s].ws /\ sessions'[s].proj = sessions[s].proj,
         \A o \in observations' : o \in observations \/ (StillSound(o.ws, o.proj) /\ sessions'[o.s] # NULL),
         \A h \in handoffs' :
             \/ \E g \in handoffs : Descend(h, g) /\ h.ws = g.ws /\ h.from = g.from
             \/ StillSound(h.ws, h.proj) /\ (h.from # NULL => sessions'[h.from] # NULL)
  PROVE  ScopesPaired'
<1>1. \A v, q : ProjectInWorkspace(v, q) => StillSound(v, q)
  BY KeptSound
<1>2. \A s \in Sessions : sessions'[s] # NULL => StillSound(sessions'[s].ws, sessions'[s].proj)
  BY <1>1 DEF ScopesPaired
<1>3. ASSUME NEW o \in observations' PROVE StillSound(o.ws, o.proj) /\ sessions'[o.s] # NULL
  <2>1. ASSUME o \in observations
        PROVE  StillSound(o.ws, o.proj) /\ sessions'[o.s] # NULL
    <3>1. ProjectInWorkspace(o.ws, o.proj) /\ sessions[o.s] # NULL /\ o.s \in Sessions
      BY <2>1 DEF ScopesPaired, RowsTypeOK
    <3> QED
      BY <1>1, <3>1
  <2> QED
    BY <2>1
<1>4. ASSUME NEW h \in handoffs'
      PROVE  StillSound(h.ws, h.proj) /\ (h.from # NULL => sessions'[h.from] # NULL)
  <2>1. ASSUME NEW g \in handoffs, Descend(h, g), h.ws = g.ws, h.from = g.from
        PROVE  StillSound(h.ws, h.proj) /\ (h.from # NULL => sessions'[h.from] # NULL)
    <3>1. ProjectInWorkspace(g.ws, g.proj) /\ (g.from # NULL => sessions[g.from] # NULL)
      BY DEF ScopesPaired
    <3>2. g.from \in Sessions \cup {NULL} /\ h.proj = g.proj
      BY <2>1 DEF RowsTypeOK, Descend
    <3> QED
      BY <1>1, <2>1, <3>1, <3>2
  <2> QED
    BY <2>1
<1>5. PairedNext
  BY <1>2, <1>3, <1>4 DEF PairedNext
<1> QED
  BY <1>5, PairedThen

LEMMA RowsAlone ==
  ASSUME TypeInv, Kept, UNCHANGED rowVars
  PROVE  /\ Grows /\ sessions' = sessions /\ observations' = observations /\ handoffs' = handoffs
         /\ ScopesPaired => ScopesPaired'
         /\ UNCHANGED summaries => \A x \in Sessions : Untouched(x)
<1>1. sessions' = sessions /\ observations' = observations /\ handoffs' = handoffs
  BY DEF rowVars
<1>2. \A h \in handoffs' : \E g \in handoffs : Descend(h, g) /\ h.ws = g.ws /\ h.from = g.from
  BY <1>1 DEF Descend
<1>3. Grows
  BY <1>1 DEF Grows
<1>4. UNCHANGED summaries => \A x \in Sessions : Untouched(x)
  BY <1>1, <1>2 DEF Untouched
<1>5. ScopesPaired => ScopesPaired'
  BY <1>1, <1>2, PairedGrows DEF TypeInv
<1> QED
  BY <1>1, <1>3, <1>4, <1>5

\* A step that changes no row and no page.
LEMMA CarriesQuietly ==
  ASSUME TypeInv, NEW t \in Tasks, Busy(t), (Same(t) \/ Left(t)), TypeInv', Kept,
         UNCHANGED rowVars, UNCHANGED summaries, UNCHANGED <<admin, reorg, serial>>
  PROVE  Carries(t)
BY RowsAlone DEF Carries

LEMMA QuietParts ==
  Quiet => UNCHANGED rowVars /\ UNCHANGED summaries /\ UNCHANGED <<admin, reorg, serial>>
BY DEF Quiet

LEMMA EventWorks ==
  ASSUME TypeInv, NEW t \in Tasks, Busy(t), tasks[t].step \in EventSteps
  PROVE  Works(t) /\ tasks[t].s \in Sessions
BY EventTask DEF Works, TypeInv

LEMMA ScopeCarries ==
  ASSUME TypeInv, NEW t \in Tasks,
         StickyScope(t) \/ Lookup(t) \/ MakeWorkspace(t) \/ MakeProject(t) \/ Remember(t)
  PROVE  Carries(t)
<1>1. TypeInv' /\ Kept
  BY StickyScopeTypes, LookupTypes, MakeWorkspaceTypes, MakeProjectTypes, RememberTypes
<1>2. CASE StickyScope(t)
  <2>1. Busy(t) /\ Same(t) /\ Quiet
    BY <1>2, StickyScopeDoes DEF TypeInv
  <2> QED
    BY <1>1, <2>1, QuietParts, CarriesQuietly
<1>3. CASE Lookup(t)
  <2>1. Busy(t) /\ Same(t) /\ Quiet
    BY <1>3, LookupDoes DEF TypeInv
  <2> QED
    BY <1>1, <2>1, QuietParts, CarriesQuietly
<1>4. CASE MakeWorkspace(t)
  <2>1. Busy(t) /\ Same(t) /\ RowsStay
    BY <1>4, MakeWorkspaceDoes
  <2>2. UNCHANGED rowVars /\ UNCHANGED summaries /\ UNCHANGED <<admin, reorg, serial>>
    BY <2>1 DEF RowsStay
  <2> QED
    BY <1>1, <2>1, <2>2, CarriesQuietly
<1>5. CASE MakeProject(t)
  <2>1. Same(t) \/ Left(t)
    BY <1>5, MakeProjectDoes
  <2>2. Busy(t) /\ RowsStay
    BY <1>5, MakeProjectDoes
  <2>3. UNCHANGED rowVars /\ UNCHANGED summaries /\ UNCHANGED <<admin, reorg, serial>>
    BY <2>2 DEF RowsStay
  <2> QED
    BY <1>1, <2>1, <2>2, <2>3, CarriesQuietly
<1>6. CASE Remember(t)
  <2>1. Busy(t) /\ Same(t) /\ Quiet
    BY <1>6, RememberDoes DEF TypeInv, Moved
  <2> QED
    BY <1>1, <2>1, QuietParts, CarriesQuietly
<1> QED
  BY <1>2, <1>3, <1>4, <1>5, <1>6

LEMMA LookingCarries ==
  ASSUME TypeInv, NEW t \in Tasks, Disposition(t) \/ ReadObservations(t) \/ Peek(t) \/ Fails(t) \/ Dies(t)
  PROVE  Carries(t)
<1>1. TypeInv' /\ Kept
  BY DispositionTypes, ReadObservationsTypes, PeekTypes, LeavingTypes
<1>2. Busy(t) /\ (Same(t) \/ Left(t)) /\ Quiet
  BY DispositionDoes, ReadObservationsDoes, PeekDoes, LeavingDoes DEF TypeInv, Moved
<1> QED
  BY <1>1, <1>2, QuietParts, CarriesQuietly

LEMMA BeginCarries ==
  ASSUME TypeInv, NEW t \in Tasks, Begin(t)
  PROVE  Carries(t)
<1>1. TypeInv' /\ Kept
  BY BeginTypes
<1>2. Busy(t) /\ tasks[t].step = "begin" /\ ScopesStay /\ summaries' = summaries
  BY BeginDoes DEF TypeInv
<1>3. CASE UNCHANGED rowVars /\ Same(t)
  BY <1>1, <1>2, <1>3, CarriesQuietly DEF ScopesStay
<1>4. CASE begin_session(tasks[t].s, tasks[t].ws, tasks[t].proj, tasks[t].place.dir) /\ Same(t)
  <2>1. tasks[t].s \in Sessions /\ tasks[t].place.dir \in Dirs \cup {NULL} /\ Works(t)
    BY <1>2, EventTask, EventWorks DEF TypeInv, EventSteps
  <2> DEFINE s == tasks[t].s
  <2>2. /\ sessions'[s] # NULL
        /\ \A x \in Sessions : sessions[x] # NULL => sessions'[x] = sessions[x]
        /\ \A x \in Sessions \ {s} : sessions'[x] = sessions[x]
        /\ sessions[s] = NULL => sessions'[s].ws = tasks[t].ws /\ sessions'[s].proj = tasks[t].proj
        /\ UNCHANGED <<observations, handoffs, clock>>
    BY <1>4, <2>1, SessionBegun DEF TypeInv
  <2>3. StillSound(tasks[t].ws, tasks[t].proj)
    BY <1>1, <1>4, KeptSound DEF begin_session
  <2>4. Grows
    BY <2>2 DEF Grows
  <2>5. \A x \in Sessions \ {s} : Untouched(x)
    BY <1>2, <2>2 DEF Untouched, Descend
  <2>6. \A h \in handoffs' : \E g \in handoffs : Descend(h, g) /\ h.ws = g.ws /\ h.from = g.from
    BY <2>2 DEF Descend
  <2>7. \A x \in Sessions : sessions'[x] # NULL =>
             \/ StillSound(sessions'[x].ws, sessions'[x].proj)
             \/ sessions[x] # NULL /\ sessions'[x].ws = sessions[x].ws /\ sessions'[x].proj = sessions[x].proj
    BY <2>1, <2>2, <2>3
  <2>8. ScopesPaired => ScopesPaired'
    BY <1>1, <2>2, <2>4, <2>6, <2>7, PairedGrows DEF TypeInv, Grows
  <2> QED
    BY <1>1, <1>2, <1>4, <2>1, <2>4, <2>5, <2>8 DEF Carries, ScopesStay
<1> QED
  BY <1>3, <1>4, BeginDoes DEF TypeInv, Moved

LEMMA ObserveCarries ==
  ASSUME TypeInv, NEW t \in Tasks, Observe(t)
  PROVE  Carries(t)
<1>1. TypeInv' /\ Kept
  BY ObserveTypes
<1>2. Busy(t) /\ tasks[t].step = "observe" /\ ScopesStay /\ summaries' = summaries /\ (Same(t) \/ Left(t))
  BY ObserveDoes DEF TypeInv, Moved
<1>3. CASE UNCHANGED rowVars
  BY <1>1, <1>2, <1>3, CarriesQuietly DEF ScopesStay
<1>4. CASE insert_observation(tasks[t].s, tasks[t].ws, tasks[t].proj, tasks[t].kind # "end")
  <2>1. tasks[t].s \in Sessions /\ Works(t)
    BY <1>2, EventWorks DEF EventSteps
  <2> DEFINE s == tasks[t].s
  <2>2. /\ sessions[s] # NULL /\ ProjectInWorkspace(tasks[t].ws, tasks[t].proj)
        /\ \A o \in observations' \ observations : o.s = s /\ o.ws = tasks[t].ws /\ o.proj = tasks[t].proj
        /\ observations \subseteq observations' /\ UNCHANGED <<sessions, handoffs>>
    <3>1. (tasks[t].kind # "end") \in BOOLEAN
      OBVIOUS
    <3>2. Observed(tasks[t].s, tasks[t].ws, tasks[t].proj, tasks[t].kind # "end")
      BY <1>4, <2>1, <3>1, ObservationInserted DEF TypeInv
    <3> QED
      BY <3>2 DEF Observed
  <2>3. StillSound(tasks[t].ws, tasks[t].proj)
    BY <1>1, <2>2, KeptSound
  <2>4. Grows
    BY <2>2 DEF Grows
  <2>5. \A x \in Sessions \ {s} : Untouched(x)
    BY <1>2, <2>2 DEF Untouched, Descend
  <2>6. \A h \in handoffs' : \E g \in handoffs : Descend(h, g) /\ h.ws = g.ws /\ h.from = g.from
    BY <2>2 DEF Descend
  <2>7. \A o \in observations' : o \in observations \/ (StillSound(o.ws, o.proj) /\ sessions'[o.s] # NULL)
    BY <2>2, <2>3
  <2>8. ScopesPaired => ScopesPaired'
    BY <1>1, <2>2, <2>6, <2>7, PairedGrows DEF TypeInv
  <2> QED
    BY <1>1, <1>2, <2>1, <2>4, <2>5, <2>8 DEF Carries, ScopesStay
<1> QED
  BY <1>3, <1>4, ObserveDoes DEF TypeInv

LEMMA WritePageCarries ==
  ASSUME TypeInv, NEW t \in Tasks, WritePage(t)
  PROVE  Carries(t)
<1>1. TypeInv' /\ Kept
  BY WritePageTypes
<1>2. /\ Busy(t) /\ tasks[t].step = "page" /\ ScopesStay /\ UNCHANGED rowVars /\ (Same(t) \/ Left(t))
      /\ \/ Sound(t) /\ summaries' = [summaries EXCEPT ![<<tasks[t].proj, tasks[t].s>>] = tasks[t].seen]
         \/ summaries' = summaries
  BY WritePageDoes DEF TypeInv, Moved
<1>3. tasks[t].s \in Sessions /\ Works(t)
  BY <1>2, EventWorks DEF EventSteps
<1>4. /\ Grows /\ sessions' = sessions /\ observations' = observations /\ handoffs' = handoffs
      /\ ScopesPaired => ScopesPaired'
  BY <1>1, <1>2, RowsAlone
<1>5. \A q \in ProjectIds, x \in Sessions \ {tasks[t].s} : summaries'[<<q, x>>] = summaries[<<q, x>>]
  BY <1>2 DEF TypeInv, PagesOK
<1>6. \A x \in Sessions \ {tasks[t].s} : Untouched(x)
  BY <1>4, <1>5 DEF Untouched, Descend
<1> QED
  BY <1>1, <1>2, <1>3, <1>4, <1>6 DEF Carries, ScopesStay

LEMMA CloseCarries ==
  ASSUME TypeInv, NEW t \in Tasks, Close(t)
  PROVE  Carries(t)
<1>1. TypeInv' /\ Kept
  BY CloseTypes
<1>2. Busy(t) /\ tasks[t].step = "close" /\ ScopesStay /\ summaries' = summaries /\ Same(t)
  BY CloseDoes DEF TypeInv, Moved
<1>3. CASE UNCHANGED rowVars
  BY <1>1, <1>2, <1>3, CarriesQuietly DEF ScopesStay
<1>4. CASE end_session(tasks[t].s, tasks[t].proj)
  <2>1. tasks[t].s \in Sessions /\ Works(t)
    BY <1>2, EventWorks DEF EventSteps
  <2> DEFINE s == tasks[t].s
  <2>2. /\ \A x \in Sessions \ {s} : sessions'[x] = sessions[x]
        /\ sessions[s] = NULL => sessions'[s] = NULL
        /\ sessions[s] # NULL => /\ sessions'[s] # NULL
                                 /\ sessions'[s].ws = sessions[s].ws /\ sessions'[s].proj = sessions[s].proj
        /\ UNCHANGED <<observations, handoffs, clock>>
    BY <1>4, <2>1, SessionEnded DEF TypeInv
  <2>4. Grows
    BY <2>1, <2>2 DEF Grows
  <2>5. \A x \in Sessions \ {s} : Untouched(x)
    BY <1>2, <2>2 DEF Untouched, Descend
  <2>6. \A h \in handoffs' : \E g \in handoffs : Descend(h, g) /\ h.ws = g.ws /\ h.from = g.from
    BY <2>2 DEF Descend
  <2>7. \A x \in Sessions : sessions'[x] # NULL =>
            sessions[x] # NULL /\ sessions'[x].ws = sessions[x].ws /\ sessions'[x].proj = sessions[x].proj
    BY <2>1, <2>2
  <2>8. ScopesPaired => ScopesPaired'
    BY <1>1, <2>2, <2>4, <2>6, <2>7, PairedGrows DEF TypeInv, Grows
  <2> QED
    BY <1>1, <1>2, <2>1, <2>4, <2>5, <2>8 DEF Carries, ScopesStay
<1> QED
  BY <1>3, <1>4, CloseDoes DEF TypeInv

LEMMA AutoHandoffCarries ==
  ASSUME TypeInv, NEW t \in Tasks, AutoHandoff(t)
  PROVE  Carries(t)
<1>1. TypeInv' /\ Kept
  BY AutoHandoffTypes
<1>2. Busy(t) /\ tasks[t].step = "handoff" /\ ScopesStay /\ summaries' = summaries /\ (Same(t) \/ Left(t))
  BY AutoHandoffDoes DEF TypeInv, Moved
<1>3. CASE UNCHANGED rowVars
  BY <1>1, <1>2, <1>3, CarriesQuietly DEF ScopesStay
<1>4. CASE insert_handoff(tasks[t].ws, tasks[t].proj, tasks[t].s, tasks[t].place.dir, tasks[t].seen)
  <2>1. tasks[t].s \in Sessions /\ Works(t) /\ TaskType(tasks[t]) /\ tasks[t].place.dir \in Dirs \cup {NULL}
    BY <1>2, EventWorks, EventTask, BusyType DEF EventSteps, TypeInv
  <2>2. tasks[t].seen \in SUBSET (1..clock)
    BY <1>2, <2>1 DEF TaskType, Fits
  <2> DEFINE s == tasks[t].s
  <2>3. /\ sessions[s] # NULL /\ ProjectInWorkspace(tasks[t].ws, tasks[t].proj)
        /\ \A h \in handoffs' \ handoffs : h.from = s /\ h.ws = tasks[t].ws /\ h.proj = tasks[t].proj
        /\ UNCHANGED <<sessions, observations>>
    <3>1. HandedOver(tasks[t].ws, tasks[t].proj, tasks[t].s, tasks[t].seen)
      BY <1>4, <2>1, <2>2, HandoffInserted DEF TypeInv
    <3> QED
      BY <2>1, <3>1, RowsAssumption DEF HandedOver
  <2>4. StillSound(tasks[t].ws, tasks[t].proj)
    BY <1>1, <2>3, KeptSound
  <2>5. Grows
    BY <2>3 DEF Grows
  <2>6. \A x \in Sessions \ {s} : Untouched(x)
    BY <1>2, <2>3 DEF Untouched, Descend
  <2>7. \A h \in handoffs' :
             \/ \E g \in handoffs : Descend(h, g) /\ h.ws = g.ws /\ h.from = g.from
             \/ StillSound(h.ws, h.proj) /\ (h.from # NULL => sessions'[h.from] # NULL)
    BY <2>3, <2>4 DEF Descend
  <2>8. ScopesPaired => ScopesPaired'
    BY <1>1, <2>3, <2>7, PairedGrows DEF TypeInv
  <2> QED
    BY <1>1, <1>2, <2>1, <2>5, <2>6, <2>8 DEF Carries, ScopesStay
<1> QED
  BY <1>3, <1>4, AutoHandoffDoes DEF TypeInv

\* A handoff that is settled is the same handoff.
LEMMA SettledAlike ==
  ASSUME TypeInv, Kept, NEW state \in {"open", "accepted", "expired"},
         (\E h \in handoffs : Settle(h, state)) \/ UNCHANGED rowVars
  PROVE  /\ sessions' = sessions /\ observations' = observations
         /\ \A x \in handoffs' : \E y \in handoffs : Descend(x, y) /\ x.ws = y.ws /\ x.from = y.from
         /\ ScopesPaired => ScopesPaired'
<1>1. /\ sessions' = sessions /\ observations' = observations
      /\ \A x \in handoffs' : \E y \in handoffs : Descend(x, y) /\ x.ws = y.ws /\ x.from = y.from
  BY HandoffSettled DEF TypeInv, rowVars, Descend
<1>2. ScopesPaired => ScopesPaired'
  BY <1>1, PairedGrows DEF TypeInv
<1> QED
  BY <1>1, <1>2

LEMMA AcceptCarries ==
  ASSUME TypeInv, NEW t \in Tasks, Accept(t)
  PROVE  Carries(t)
<1>1. TypeInv' /\ Kept
  BY AcceptTypes
<1>2. /\ Busy(t) /\ Left(t) /\ ScopesStay /\ summaries' = summaries
      /\ (\E h \in handoffs : Settle(h, "accepted")) \/ UNCHANGED rowVars
  BY AcceptDoes DEF TypeInv
<1>3. /\ sessions' = sessions /\ observations' = observations
      /\ \A x \in handoffs' : \E y \in handoffs : Descend(x, y) /\ x.ws = y.ws /\ x.from = y.from
      /\ ScopesPaired => ScopesPaired'
  BY <1>1, <1>2, SettledAlike
<1>4. Grows /\ \A x \in Sessions : Untouched(x)
  BY <1>2, <1>3 DEF Grows, Untouched
<1> QED
  BY <1>1, <1>2, <1>3, <1>4 DEF Carries, ScopesStay

LEMMA ProcessCarries ==
  ASSUME TypeInv, NEW t \in Tasks, Process(t)
  PROVE  Carries(t)
BY ScopeCarries, LookingCarries, BeginCarries, ObserveCarries, WritePageCarries, CloseCarries, AutoHandoffCarries,
   AcceptCarries DEF Process

-----------------------------------------------------------------------------
(* The kinds of step.                                                       *)

\* A request that comes.
Arrived(t) ==
    /\ TypeInv' /\ Kept /\ Quiet /\ cache' = cache
    /\ \E step \in {"scope", "lookup", "peek"} : Begun(t, step)
    /\ serial /\ tasks'[t].kind # "fetch" => \A u \in Tasks : Busy(u) => tasks[u].s # tasks'[t].s

\* A handoff of nobody's session that is left, or one that is settled.
Handed ==
    /\ TypeInv' /\ Kept /\ ScopesStay /\ UNCHANGED <<tasks, cache, summaries, sessions, observations>>
    /\ \A h \in handoffs' : h.from # NULL => \E g \in handoffs : Descend(h, g) /\ h.from = g.from
    /\ ScopesPaired => ScopesPaired'

\* A change of the scopes, the plan of a reorganisation, and what comes after a
\* commit.
Planned(plan) == Committed(plan) /\ admin' = NULL /\ StillSound(plan.ws, plan.proj)
Reorganised ==
    /\ Settles /\ reorg # NULL /\ reorg' = NULL /\ UNCHANGED <<scopeVars, admin, cache>>
    /\ \A s \in Sessions : sessions[s] # NULL => sessions'[s] # NULL
    /\ ProjectInWorkspace(reorg.ws, reorg.proj) /\ ScopesPaired => ScopesPaired'
Finished == Settles /\ admin # NULL /\ reorg' = reorg /\ (ScopesPaired => ScopesPaired')

LEMMA RequestsArrive ==
  ASSUME TypeInv, NEW t \in Tasks,
         \/ \E kind \in Kinds, s \in Sessions : \E place \in Places(kind) : Arrives(t, kind, s, place)
         \/ \E dir \in Dirs \cup {NULL} : memory_handoff_accept(t, dir)
  PROVE  Arrived(t)
<1>1. ASSUME NEW kind \in Kinds, NEW s \in Sessions, NEW place \in Places(kind), Arrives(t, kind, s, place)
      PROVE  Arrived(t)
  BY <1>1, ArrivesDoes DEF Arrived
<1>2. ASSUME NEW dir \in Dirs \cup {NULL}, memory_handoff_accept(t, dir)
      PROVE  Arrived(t)
  BY <1>2, FetchDoes DEF Arrived
<1> QED
  BY <1>1, <1>2

LEMMA ToolsHand ==
  ASSUME TypeInv, memory_handoff_begin \/ \E h \in handoffs : memory_handoff_cancel(h)
  PROVE  Handed
<1>1. CASE memory_handoff_begin
  <2>1. /\ TypeInv' /\ Kept /\ ScopesStay /\ UNCHANGED <<tasks, cache, summaries, sessions, observations>>
        /\ insert_handoff(ToolScope[1], ToolScope[2], NULL, NULL, {})
    BY <1>1, ManualDoes
  <2>2. {} \in SUBSET (1..clock)
    OBVIOUS
  <2>3. HandedOver(ToolScope[1], ToolScope[2], NULL, {})
    BY <2>1, <2>2, HandoffInserted DEF TypeInv
  <2>4. /\ ProjectInWorkspace(ToolScope[1], ToolScope[2])
        /\ \A h \in handoffs' \ handoffs : h.ws = ToolScope[1] /\ h.proj = ToolScope[2] /\ h.from = NULL
    BY <2>3 DEF HandedOver
  <2>5. StillSound(ToolScope[1], ToolScope[2])
    BY <2>1, <2>4, KeptSound
  <2>6. \A h \in handoffs' :
             \/ \E g \in handoffs : Descend(h, g) /\ h.ws = g.ws /\ h.from = g.from
             \/ StillSound(h.ws, h.proj) /\ h.from = NULL
    BY <2>4, <2>5 DEF Descend
  <2>7. ScopesPaired => ScopesPaired'
    BY <2>1, <2>6, PairedGrows DEF TypeInv
  <2> QED
    BY <2>1, <2>6, <2>7 DEF Handed
<1>2. ASSUME NEW h \in handoffs, memory_handoff_cancel(h) PROVE Handed
  <2>1. /\ TypeInv' /\ Kept /\ ScopesStay /\ UNCHANGED <<tasks, cache, summaries, sessions, observations>>
        /\ Settle(h, "expired")
    BY <1>2, CancelDoes
  <2>2. /\ \A x \in handoffs' : \E y \in handoffs : Descend(x, y) /\ x.ws = y.ws /\ x.from = y.from
        /\ ScopesPaired => ScopesPaired'
    BY <2>1, SettledAlike
  <2> QED
    BY <2>1, <2>2 DEF Handed
<1> QED
  BY <1>1, <1>2

LEMMA AdministrationDoes ==
  ASSUME TypeInv, Administration
  PROVE  Committed(reorg) \/ (\E plan : Planned(plan)) \/ Reorganised \/ Finished
<1>1. ASSUME NEW p \in ProjectIds, handle_purge_project(p) PROVE Committed(reorg)
  <2>1. ProjectInWorkspace(projects[p].ws, p)
    BY <1>1 DEF handle_purge_project, ProjectInWorkspace
  <2> QED
    BY <1>1, <2>1, PurgeDoes DEF handle_purge_project
<1>2. ASSUME NEW s \in Sessions, handle_reorg(s) PROVE \E plan : Planned(plan)
  BY <1>2, PlanDoes DEF Planned
<1>3. ReorgCommits => Reorganised
  BY ReorgCommitsDoes DEF Reorganised
<1>4. true_move_project \/ invalidate_scope_cache => Finished
  BY TrueMoveDoes, InvalidateDoes DEF Finished
<1>5. ASSUME NEW p \in ProjectIds, NEW n \in ProjNames, handle_rename_project(p, n) PROVE Committed(reorg)
  BY <1>5, RenameProjectDoes
<1>6. ASSUME NEW p \in ProjectIds, NEW n \in WsNames, NEW force \in BOOLEAN, handle_move_project(p, n, force)
      PROVE  Committed(reorg)
  BY <1>6, MoveDoes
<1>7. ASSUME NEW w \in WorkspaceIds, NEW force \in BOOLEAN, handle_delete_workspace(w, force) PROVE Committed(reorg)
  BY <1>7, DeleteDoes
<1>8. ASSUME NEW w \in WorkspaceIds, NEW n \in WsNames, handle_rename_workspace(w, n) PROVE Committed(reorg)
  BY <1>8, RenameWorkspaceDoes
<1> QED
  BY <1>1, <1>2, <1>3, <1>4, <1>5, <1>6, <1>7, <1>8 DEF Administration

LEMMA NextDoes ==
  ASSUME TypeInv, Next
  PROVE  \/ \E t \in Tasks : Arrived(t) \/ Process(t)
         \/ Handed
         \/ Committed(reorg) \/ (\E plan : Planned(plan)) \/ Reorganised \/ Finished
BY RequestsArrive, ToolsHand, AdministrationDoes DEF Next, Tools

-----------------------------------------------------------------------------
(* Types.                                                                   *)

LEMMA InitTypes == Init => TypeInv
<1> SUFFICES ASSUME Init PROVE TypeInv
  OBVIOUS
<1> DEFINE first == [ws |-> DefaultWs, name |-> "scratch", repo |-> NULL]
<1>1. first \in ProjectRows /\ first # Unborn
  BY PlacesAssumption, NamesAssumption DEF ProjectRows
<1>2. projects = [p \in ProjectIds |-> IF p = DefaultProj THEN first ELSE Unborn]
  BY DEF Init
<1> HIDE DEF first
<1>3. ScopesOK
  BY <1>1, <1>2, PlacesAssumption DEF Init, ScopesOK, ScopesTypeOK
<1>4. RowsTypeOK
  BY DEF Init, RowsInit, RowsTypeOK
<1>5. TasksOK
  BY DEF Init, TasksOK
<1>6. PagesOK
  BY DEF Init, PagesOK
<1> QED
  BY <1>3, <1>4, <1>5, <1>6 DEF TypeInv

LEMMA StutterStays ==
  ASSUME TypeInv, UNCHANGED ingestVars
  PROVE  /\ TypeInv' /\ Kept /\ Quiet /\ UNCHANGED <<tasks, cache>>
         /\ sessions' = sessions /\ observations' = observations /\ handoffs' = handoffs
         /\ projects' = projects /\ summaries' = summaries /\ admin' = admin /\ reorg' = reorg /\ serial' = serial
<1>1. /\ Quiet /\ UNCHANGED <<tasks, cache>>
      /\ sessions' = sessions /\ observations' = observations /\ handoffs' = handoffs
      /\ projects' = projects /\ summaries' = summaries /\ admin' = admin /\ reorg' = reorg /\ serial' = serial
  BY DEF ingestVars, serverVars, storeVars, scopeVars, rowVars, Quiet
<1>2. ScopesOK' /\ RowsTypeOK' /\ PagesOK' /\ Later /\ Kept
  BY <1>1, QuietTypes
<1>3. TasksOK'
  BY <1>1, <1>2, TasksStay DEF TypeInv
<1> QED
  BY <1>1, <1>2, <1>3 DEF TypeInv

LEMMA NextTypes ==
  ASSUME TypeInv, [Next]_ingestVars
  PROVE  TypeInv'
<1>1. CASE UNCHANGED ingestVars
  BY <1>1, StutterStays
<1>2. CASE Next
  <2>1. \A plan : Planned(plan) => TypeInv'
    BY DEF Planned, Committed
  <2>2. \A t \in Tasks : Arrived(t) \/ Process(t) => TypeInv'
    BY ProcessTypes DEF Arrived
  <2> QED
    BY <1>2, <2>1, <2>2, NextDoes DEF Handed, Committed, Reorganised, Finished, Settles
<1> QED
  BY <1>1, <1>2

\* Every row, page and request is of its type, and a request is at no step its
\* kind does not come to.
THEOREM IngestTypes == Spec => []TypeInv
<1> QED
  BY InitTypes, NextTypes, PTL DEF Spec

-----------------------------------------------------------------------------
(* Rows stay paired with scopes.                                            *)

PairsInv == ReorgAlone => ScopesPaired
PlanInv == TypeInv /\ PlanOK /\ PairsInv

LEMMA PlanStays ==
  ASSUME PlanOK, Kept, reorg' = reorg, admin' = admin
  PROVE  PlanOK'
BY KeptSound DEF PlanOK, StillSound, ProjectInWorkspace

LEMMA NextPairs ==
  ASSUME PlanInv, [Next]_ingestVars
  PROVE  PlanOK' /\ PairsInv'
<1>1. CASE UNCHANGED ingestVars
  <2>1. Kept /\ Quiet /\ UNCHANGED rowVars
    BY <1>1, StutterStays DEF PlanInv, Quiet
  <2> QED
    BY <2>1, PlanStays, RowsAlone DEF PlanInv, PairsInv, Quiet
<1>2. ASSUME NEW t \in Tasks, Arrived(t) PROVE PlanOK' /\ PairsInv'
  <2>1. Kept /\ Quiet /\ UNCHANGED rowVars
    BY <1>2 DEF Arrived, Quiet
  <2> QED
    BY <2>1, PlanStays, RowsAlone DEF PlanInv, PairsInv, Quiet
<1>3. ASSUME NEW t \in Tasks, Process(t) PROVE PlanOK' /\ PairsInv'
  BY <1>3, ProcessCarries, PlanStays DEF PlanInv, PairsInv, Carries
<1>4. CASE Handed
  BY <1>4, PlanStays DEF PlanInv, PairsInv, Handed, ScopesStay
<1>5. CASE Committed(reorg)
  <2>1. ReorgAlone => reorg' = NULL
    BY <1>5 DEF Committed
  <2> QED
    BY <1>5, <2>1 DEF PlanInv, PlanOK, PairsInv, Committed
<1>6. ASSUME NEW plan, Planned(plan) PROVE PlanOK' /\ PairsInv'
  <2>1. admin' = NULL /\ reorg' = plan /\ StillSound(plan.ws, plan.proj) /\ (ScopesPaired => ScopesPaired')
    BY <1>6 DEF Planned, Committed
  <2>2. PlanOK'
    BY <2>1 DEF PlanOK, StillSound, ProjectInWorkspace
  <2> QED
    BY <2>1, <2>2 DEF PlanInv, PairsInv
<1>7. CASE Reorganised
  <2>1. PlanOK'
    BY <1>7 DEF Reorganised, PlanOK
  <2>2. PairsInv'
    BY <1>7 DEF Reorganised, PlanInv, PlanOK, PairsInv
  <2> QED
    BY <2>1, <2>2
<1>8. CASE Finished
  <2>1. ReorgAlone => reorg' = NULL
    BY <1>8 DEF Finished, PlanInv, PlanOK
  <2> QED
    BY <1>8, <2>1 DEF PlanInv, PlanOK, PairsInv, Finished
<1>9. CASE Next
  BY <1>2, <1>3, <1>4, <1>5, <1>6, <1>7, <1>8, <1>9, NextDoes DEF PlanInv
<1> QED
  BY <1>1, <1>9

LEMMA InitPairs == Init => PlanOK /\ PairsInv
BY DEF Init, RowsInit, PlanOK, PairsInv, ScopesPaired

LEMMA PlansHold == Spec => []PlanInv
<1>1. Init => PlanInv
  BY InitTypes, InitPairs DEF PlanInv
<1>2. PlanInv /\ [Next]_ingestVars => PlanInv'
  <2> SUFFICES ASSUME PlanInv, [Next]_ingestVars PROVE PlanInv'
    OBVIOUS
  <2>1. TypeInv'
    BY NextTypes DEF PlanInv
  <2> QED
    BY <2>1, NextPairs DEF PlanInv
<1> QED
  BY <1>1, <1>2, PTL DEF Spec

\* ScopesPaired: unless another operation overlaps a reorganisation, every row
\* is of a project that is there and names the workspace it is in, and what it
\* refers to is there.
THEOREM RowsStayPaired == Spec => [](ReorgAlone => ScopesPaired)
<1>1. PlanInv => (ReorgAlone => ScopesPaired)
  BY DEF PlanInv, PairsInv
<1> QED
  BY <1>1, PlansHold, PTL

-----------------------------------------------------------------------------
(* No later event fails for a change of scopes.                             *)

\* What an undisturbed request is after a step.
CalmNext(t) ==
    /\ tasks'[t].step = "remember" => StillSound(tasks'[t].ws, tasks'[t].proj)
    /\ tasks'[t].retried /\ tasks'[t].step \in {"lookup", "workspace", "project", "remember"} =>
           \A e \in cache' : e.place = tasks'[t].place => StillSound(e.ws, e.proj)
    /\ tasks'[t].retried /\ tasks'[t].step = "begin" =>
           StillSound(tasks'[t].ws, tasks'[t].proj) \/ <<tasks'[t].ws, tasks'[t].proj>> = Default
    /\ tasks'[t].step \in {"observe", "read", "page", "close", "handoff"} =>
           StillSound(tasks'[t].ws, tasks'[t].proj) /\ sessions'[tasks'[t].s] # NULL
    /\ tasks'[t].step = "failed" =>
           <<tasks'[t].ws, tasks'[t].proj>> = Default /\ ~StillSound(DefaultWs, DefaultProj)

LEMMA CalmThen ==
  ASSUME NEW t \in Tasks, CalmNext(t)
  PROVE  CalmTask(t)'
BY DEF CalmNext, CalmTask, Sound, StillSound, ProjectInWorkspace, Default

\* A default project that is not there does not come back.
LEMMA DefaultLost ==
  ASSUME TypeInv, Kept, ~ProjectInWorkspace(DefaultWs, DefaultProj)
  PROVE  ~StillSound(DefaultWs, DefaultProj)
BY PlacesAssumption DEF TypeInv, ScopesOK, Kept, ProjectInWorkspace, StillSound, LiveProjects

CacheSound == \A e \in cache' : (\E y \in cache : Alike(e, y)) \/ StillSound(e.ws, e.proj)

LEMMA CacheStill ==
  ASSUME Kept, NEW place, \A y \in cache : y.place = place => ProjectInWorkspace(y.ws, y.proj), CacheSound
  PROVE  \A e \in cache' : e.place = place => StillSound(e.ws, e.proj)
<1>1. ASSUME NEW e \in cache', e.place = place, NEW y \in cache, Alike(e, y)
      PROVE  StillSound(e.ws, e.proj)
  <2>1. ProjectInWorkspace(e.ws, e.proj)
    BY <1>1 DEF Alike
  <2> QED
    BY <2>1, KeptSound
<1> QED
  BY <1>1 DEF CacheSound

\* A request that does not move stays as undisturbed as it was.
LEMMA CalmStays ==
  ASSUME TypeInv, Kept, CacheSound, NEW u \in Tasks, tasks'[u] = tasks[u], CalmTask(u), Busy(u),
         \A x \in Sessions : sessions[x] # NULL => sessions'[x] # NULL
  PROVE  CalmNext(u)
<1>1. Sound(u) => StillSound(tasks[u].ws, tasks[u].proj)
  BY KeptSound DEF Sound
<1>2. tasks[u].step \in {"observe", "read", "page", "close", "handoff"} => tasks[u].s \in Sessions
  BY EventTask DEF TypeInv, EventSteps
<1>3. tasks[u].retried /\ tasks[u].step \in {"lookup", "workspace", "project", "remember"} =>
          \A e \in cache' : e.place = tasks[u].place => StillSound(e.ws, e.proj)
  BY CacheStill DEF CalmTask
<1>4. tasks[u].step = "failed" => <<tasks[u].ws, tasks[u].proj>> = Default /\ ~StillSound(DefaultWs, DefaultProj)
  BY DefaultLost DEF CalmTask
<1>5. tasks[u].step = "remember" => StillSound(tasks[u].ws, tasks[u].proj)
  BY <1>1 DEF CalmTask
<1>6. tasks[u].retried /\ tasks[u].step = "begin" =>
           StillSound(tasks[u].ws, tasks[u].proj) \/ <<tasks[u].ws, tasks[u].proj>> = Default
  BY <1>1 DEF CalmTask
<1>7. tasks[u].step \in {"observe", "read", "page", "close", "handoff"} =>
           StillSound(tasks[u].ws, tasks[u].proj) /\ sessions'[tasks[u].s] # NULL
  BY <1>1, <1>2 DEF CalmTask
<1> QED
  BY <1>3, <1>4, <1>5, <1>6, <1>7 DEF CalmNext

\* Nothing is asked of a request at its first look, or of one for a handoff.
LEMMA CalmAtFirst ==
  ASSUME NEW t \in Tasks,
         \/ ~tasks'[t].retried /\ tasks'[t].step \in {"scope", "lookup", "workspace", "project", "disposition", "begin"}
         \/ tasks'[t].step \in {"peek", "accept", "disposition"}
  PROVE  CalmNext(t)
BY DEF CalmNext

LEMMA SameCache == UNCHANGED cache => CacheSound
BY DEF CacheSound, Alike

LEMMA ShrunkCache == CacheShrinks => CacheSound
BY DEF CacheShrinks, CacheSound

LEMMA StickyScopeCalm ==
  ASSUME TypeInv, NEW t \in Tasks, StickyScope(t)
  PROVE  CalmNext(t) /\ CacheSound
<1>1. /\ Busy(t) /\ tasks[t].step = "scope" /\ Same(t) /\ SameTry(t)
      /\ tasks'[t].step \in {"lookup", AfterScope(t)} /\ cache' = cache
  BY StickyScopeDoes DEF TypeInv
<1>2. TaskType(tasks[t])
  BY <1>1, BusyType DEF TypeInv
<1>3. ~tasks'[t].retried /\ AfterScope(t) \in {"peek", "disposition", "begin"}
  BY <1>1, <1>2 DEF TaskType, Fits, SameTry, AfterScope
<1> QED
  BY <1>1, <1>3, CalmAtFirst, SameCache

LEMMA LookupCalm ==
  ASSUME TypeInv, NEW t \in Tasks, Lookup(t), CalmTask(t)
  PROVE  CalmNext(t) /\ CacheSound
<1>1. /\ Busy(t) /\ tasks[t].step = "lookup" /\ Same(t) /\ SameTry(t) /\ CacheShrinks
      /\ \/ tasks'[t].step = AfterScope(t) /\ <<tasks'[t].ws, tasks'[t].proj>> = Default
         \/ /\ tasks'[t].step = AfterScope(t)
            /\ \E e \in cache : Entry(e, tasks[t].place, tasks'[t].ws, tasks'[t].proj)
         \/ tasks'[t].step = "workspace"
  BY LookupDoes DEF TypeInv
<1>2. Kept /\ CacheSound
  BY <1>1, LookupTypes, ShrunkCache
<1>3. AfterScope(t) \in {"peek", "disposition", "begin"}
  BY DEF AfterScope
<1>4. CASE ~tasks'[t].retried \/ tasks'[t].step \in {"peek", "disposition"}
  BY <1>1, <1>2, <1>3, <1>4, CalmAtFirst
<1>5. CASE tasks'[t].retried /\ tasks'[t].step \in {"begin", "workspace"}
  <2>1. \A y \in cache : y.place = tasks[t].place => ProjectInWorkspace(y.ws, y.proj)
    BY <1>1, <1>5 DEF CalmTask, SameTry
  <2>2. \A e \in cache' : e.place = tasks[t].place => StillSound(e.ws, e.proj)
    BY <1>2, <2>1, CacheStill
  <2>3. tasks'[t].step = "begin" =>
            StillSound(tasks'[t].ws, tasks'[t].proj) \/ <<tasks'[t].ws, tasks'[t].proj>> = Default
    <3>1. ASSUME NEW e \in cache, Entry(e, tasks[t].place, tasks'[t].ws, tasks'[t].proj)
          PROVE  StillSound(tasks'[t].ws, tasks'[t].proj)
      BY <1>2, <2>1, <3>1, KeptSound DEF Entry
    <3> QED
      BY <1>1, <3>1
  <2> QED
    BY <1>1, <1>2, <1>5, <2>2, <2>3 DEF CalmNext, Same
<1> QED
  BY <1>1, <1>3, <1>4, <1>5

LEMMA MakeWorkspaceCalm ==
  ASSUME TypeInv, NEW t \in Tasks, MakeWorkspace(t), CalmTask(t)
  PROVE  CalmNext(t) /\ CacheSound
<1>1. /\ Busy(t) /\ tasks[t].step = "workspace" /\ Same(t) /\ SameTry(t) /\ tasks'[t].step = "project"
      /\ cache' = cache /\ Kept
  BY MakeWorkspaceDoes
<1>2. CacheSound
  BY <1>1, SameCache
<1>3. tasks[t].retried => \A e \in cache' : e.place = tasks[t].place => StillSound(e.ws, e.proj)
  BY <1>1, <1>2, CacheStill DEF CalmTask
<1> QED
  BY <1>1, <1>2, <1>3 DEF CalmNext, Same, SameTry

LEMMA MakeProjectCalm ==
  ASSUME TypeInv, NEW t \in Tasks, MakeProject(t), CalmTask(t)
  PROVE  (Left(t) \/ CalmNext(t)) /\ CacheSound
<1>1. /\ Busy(t) /\ tasks[t].step = "project" /\ cache' = cache /\ Kept
      /\ \/ Left(t)
         \/ /\ Same(t) /\ SameTry(t) /\ tasks'[t].step = "remember"
            /\ StillSound(tasks'[t].ws, tasks'[t].proj)
  BY MakeProjectDoes
<1>2. CacheSound
  BY <1>1, SameCache
<1>3. tasks[t].retried => \A e \in cache' : e.place = tasks[t].place => StillSound(e.ws, e.proj)
  BY <1>1, <1>2, CacheStill DEF CalmTask
<1> QED
  BY <1>1, <1>2, <1>3 DEF CalmNext, Same, SameTry

LEMMA RememberCalm ==
  ASSUME TypeInv, NEW t \in Tasks, Remember(t), CalmTask(t)
  PROVE  CalmNext(t) /\ CacheSound
<1>1. /\ Busy(t) /\ tasks[t].step = "remember" /\ Moved(t, AfterScope(t))
      /\ CacheFrom(tasks[t].place, tasks[t].ws, tasks[t].proj)
  BY RememberDoes DEF TypeInv
<1>2. StillSound(tasks[t].ws, tasks[t].proj)
  BY <1>1, RememberTypes, KeptSound DEF CalmTask, Sound
<1>3. CacheSound
  BY <1>1, <1>2 DEF CacheFrom, CacheSound, Entry
<1>4. AfterScope(t) \in {"peek", "disposition", "begin"}
  BY DEF AfterScope
<1>5. tasks'[t].step = AfterScope(t) /\ tasks'[t].ws = tasks[t].ws /\ tasks'[t].proj = tasks[t].proj
  BY <1>1 DEF Moved, SameScope
<1>6. CalmNext(t)
  BY <1>2, <1>4, <1>5 DEF CalmNext
<1> QED
  BY <1>3, <1>6

LEMMA DispositionCalm ==
  ASSUME TypeInv, NEW t \in Tasks, Disposition(t)
  PROVE  (Left(t) \/ CalmNext(t)) /\ CacheSound
<1>1. Busy(t) /\ tasks[t].step = "disposition" /\ cache' = cache /\ (Left(t) \/ Moved(t, "begin"))
  BY DispositionDoes DEF TypeInv
<1>2. TaskType(tasks[t])
  BY <1>1, BusyType DEF TypeInv
<1>3. ASSUME Moved(t, "begin") PROVE CalmNext(t)
  <2>1. ~tasks'[t].retried /\ tasks'[t].step = "begin"
    BY <1>1, <1>2, <1>3 DEF TaskType, Fits, Moved, SameTry
  <2> QED
    BY <2>1, CalmAtFirst
<1> QED
  BY <1>1, <1>3, SameCache

LEMMA BeginCalm ==
  ASSUME TypeInv, NEW t \in Tasks, Begin(t), CalmTask(t)
  PROVE  CalmNext(t) /\ CacheSound
<1>1. Busy(t) /\ tasks[t].step = "begin" /\ Kept
  BY BeginDoes, BeginTypes DEF TypeInv
<1>2. tasks[t].s \in Sessions /\ tasks[t].place.dir \in Dirs \cup {NULL}
  BY <1>1, EventTask DEF TypeInv, EventSteps
<1>3. CASE /\ begin_session(tasks[t].s, tasks[t].ws, tasks[t].proj, tasks[t].place.dir)
           /\ Moved(t, "observe") /\ cache' = cache
  <2>1. sessions'[tasks[t].s] # NULL
    BY <1>2, <1>3, SessionBegun DEF TypeInv
  <2>2. StillSound(tasks[t].ws, tasks[t].proj)
    BY <1>1, <1>3, KeptSound DEF begin_session
  <2>3. /\ tasks'[t].step = "observe" /\ tasks'[t].ws = tasks[t].ws /\ tasks'[t].proj = tasks[t].proj
        /\ tasks'[t].s = tasks[t].s
    BY <1>3 DEF Moved, SameScope, Same
  <2> QED
    BY <1>3, <2>1, <2>2, <2>3, SameCache DEF CalmNext
<1>4. CASE /\ Same(t) /\ SameScope(t) /\ tasks'[t].step = "lookup" /\ tasks'[t].retried
           /\ CacheShrinks /\ \A e \in cache' : e.place # tasks[t].place
  <2>1. tasks'[t].place = tasks[t].place
    BY <1>4 DEF Same
  <2> QED
    BY <1>4, <2>1, ShrunkCache DEF CalmNext
<1>5. CASE ~Sound(t) /\ tasks[t].retried /\ Moved(t, "failed") /\ UNCHANGED <<rowVars, cache>>
  <2>1. <<tasks[t].ws, tasks[t].proj>> = Default
    BY <1>1, <1>5 DEF CalmTask
  <2>2. ~ProjectInWorkspace(DefaultWs, DefaultProj)
    BY <1>5, <2>1 DEF Sound, Default
  <2>3. ~StillSound(DefaultWs, DefaultProj)
    BY <1>1, <2>2, DefaultLost
  <2>4. tasks'[t].step = "failed" /\ tasks'[t].ws = tasks[t].ws /\ tasks'[t].proj = tasks[t].proj
    BY <1>5 DEF Moved, SameScope
  <2> QED
    BY <1>5, <2>1, <2>3, <2>4, SameCache DEF CalmNext
<1> QED
  BY <1>3, <1>4, <1>5, BeginDoes DEF TypeInv

\* From the first row on, a request works on a scope that is there.
LEMMA CalmOnward ==
  ASSUME TypeInv, Kept, Grows, NEW t \in Tasks, Busy(t), Same(t), SameScope(t), CalmTask(t),
         tasks[t].step \in {"observe", "read", "page", "close"}, tasks'[t].step \in {"read", "page", "close", "handoff"}
  PROVE  CalmNext(t)
<1>1. Sound(t) /\ sessions[tasks[t].s] # NULL /\ tasks[t].s \in Sessions
  BY EventTask DEF CalmTask, TypeInv, EventSteps
<1>2. StillSound(tasks[t].ws, tasks[t].proj) /\ sessions'[tasks[t].s] # NULL
  BY <1>1, KeptSound DEF Sound, Grows
<1>3. tasks'[t].ws = tasks[t].ws /\ tasks'[t].proj = tasks[t].proj /\ tasks'[t].s = tasks[t].s
  BY DEF SameScope, Same
<1> QED
  BY <1>2, <1>3 DEF CalmNext

LEMMA EventCalm ==
  ASSUME TypeInv, NEW t \in Tasks, CalmTask(t),
         Observe(t) \/ ReadObservations(t) \/ WritePage(t) \/ Close(t) \/ AutoHandoff(t)
  PROVE  (Left(t) \/ CalmNext(t)) /\ CacheSound
<1>1. Kept /\ Grows
  BY ObserveCarries, LookingCarries, WritePageCarries, CloseCarries, AutoHandoffCarries DEF Carries
<1>2. CASE Observe(t)
  <2>1. Busy(t) /\ tasks[t].step = "observe" /\ cache' = cache
    BY <1>2, ObserveDoes DEF TypeInv
  <2>2. Sound(t) /\ sessions[tasks[t].s] # NULL
    BY <2>1 DEF CalmTask
  <2>3. Left(t) \/ Moved(t, "read")
    BY <1>2, <2>2, ObserveDoes DEF TypeInv
  <2> QED
    BY <1>1, <2>1, <2>3, CalmOnward, SameCache DEF Moved
<1>3. CASE ReadObservations(t)
  <2>1. /\ Busy(t) /\ tasks[t].step = "read" /\ cache' = cache
        /\ Left(t) \/ (Same(t) /\ SameScope(t) /\ tasks'[t].step = "page")
    BY <1>3, ReadObservationsDoes DEF TypeInv
  <2> QED
    BY <1>1, <2>1, CalmOnward, SameCache
<1>4. CASE WritePage(t)
  <2>1. Busy(t) /\ tasks[t].step = "page" /\ cache' = cache
    BY <1>4, WritePageDoes DEF TypeInv
  <2>2. Sound(t)
    BY <2>1 DEF CalmTask
  <2>3. Left(t) \/ Moved(t, "close")
    BY <1>4, <2>2, WritePageDoes DEF TypeInv
  <2> QED
    BY <1>1, <2>1, <2>3, CalmOnward, SameCache DEF Moved
<1>5. CASE Close(t)
  <2>1. Busy(t) /\ tasks[t].step = "close" /\ cache' = cache
    BY <1>5, CloseDoes DEF TypeInv
  <2>2. tasks[t].proj \in LiveProjects
    BY <2>1 DEF CalmTask, Sound, ProjectInWorkspace
  <2>3. Moved(t, "handoff")
    BY <1>5, <2>2, CloseDoes DEF TypeInv
  <2> QED
    BY <1>1, <2>1, <2>3, CalmOnward, SameCache DEF Moved
<1>6. CASE AutoHandoff(t)
  <2>1. Busy(t) /\ tasks[t].step = "handoff" /\ cache' = cache
    BY <1>6, AutoHandoffDoes DEF TypeInv
  <2>2. Sound(t) /\ sessions[tasks[t].s] # NULL
    BY <2>1 DEF CalmTask
  <2>3. Left(t)
    BY <1>6, <2>2, AutoHandoffDoes DEF TypeInv
  <2> QED
    BY <2>1, <2>3, SameCache
<1> QED
  BY <1>2, <1>3, <1>4, <1>5, <1>6

LEMMA LeavingCalm ==
  ASSUME TypeInv, NEW t \in Tasks, Peek(t) \/ Accept(t) \/ Fails(t) \/ Dies(t)
  PROVE  (Left(t) \/ CalmNext(t)) /\ CacheSound
<1>1. (Left(t) \/ tasks'[t].step = "accept") /\ cache' = cache
  BY PeekDoes, AcceptDoes, LeavingDoes DEF TypeInv
<1> QED
  BY <1>1, CalmAtFirst, SameCache

LEMMA ProcessCalm ==
  ASSUME TypeInv, NEW t \in Tasks, Process(t), CalmTask(t)
  PROVE  (Left(t) \/ CalmNext(t)) /\ CacheSound
BY StickyScopeCalm, LookupCalm, MakeWorkspaceCalm, MakeProjectCalm, RememberCalm, DispositionCalm, BeginCalm,
   EventCalm, LeavingCalm DEF Process

CalmOKNext == \A t \in Tasks : tasks'[t] # Idle /\ tasks'[t].calm =>
    /\ admin' = NULL /\ \A u \in Tasks : tasks'[u] # Idle => tasks'[u].calm
    /\ CalmNext(t)

LEMMA CalmOKThen == CalmOKNext => CalmOK'
BY CalmThen DEF CalmOKNext, CalmOK, Calm, Busy, Idle

LEMMA NoneCalm ==
  (\A t \in Tasks : tasks'[t] = Idle \/ ~tasks'[t].calm) => CalmOK'
BY CalmOKThen DEF CalmOKNext

LEMMA UnsettledCalm == Unsettled => CalmOK'
BY NoneCalm DEF Unsettled

\* No request moves.
LEMMA StandingCalm ==
  ASSUME TypeInv, CalmOK, Kept, CacheSound, UNCHANGED tasks, UNCHANGED admin,
         \A x \in Sessions : sessions[x] # NULL => sessions'[x] # NULL
  PROVE  CalmOK'
<1>1. ASSUME NEW t \in Tasks, tasks'[t] # Idle, tasks'[t].calm
      PROVE  /\ admin' = NULL /\ \A u \in Tasks : tasks'[u] # Idle => tasks'[u].calm
             /\ CalmNext(t)
  <2>1. Calm(t) /\ Busy(t)
    BY <1>1 DEF Calm, Busy
  <2>2. admin = NULL /\ (\A u \in Tasks : Busy(u) => tasks[u].calm) /\ CalmTask(t)
    BY <2>1 DEF CalmOK
  <2>3. CalmNext(t)
    BY <2>1, <2>2, CalmStays
  <2> QED
    BY <2>2, <2>3 DEF Busy
<1>2. CalmOKNext
  BY <1>1 DEF CalmOKNext
<1> QED
  BY <1>2, CalmOKThen

LEMMA ArrivedCalm ==
  ASSUME TypeInv, CalmOK, NEW t \in Tasks, Arrived(t)
  PROVE  CalmOK'
<1>1. /\ Kept /\ admin' = admin /\ sessions' = sessions /\ CacheSound
      /\ ~Busy(t) /\ Others(t) /\ ~tasks'[t].retried /\ tasks'[t].calm = Undisturbed
      /\ tasks'[t].step \in {"scope", "lookup", "peek"}
  BY SameCache DEF Arrived, Quiet, rowVars, Begun
<1>2. ASSUME NEW v \in Tasks, tasks'[v] # Idle, tasks'[v].calm
      PROVE  /\ admin' = NULL /\ \A u \in Tasks : tasks'[u] # Idle => tasks'[u].calm
             /\ CalmNext(v)
  <2>1. CASE v = t
    <3>1. Undisturbed
      BY <1>1, <1>2, <2>1
    <3>2. \A u \in Tasks : tasks'[u] # Idle => tasks'[u].calm
      BY <1>1, <1>2, <2>1, <3>1 DEF Undisturbed, Others, Busy
    <3>3. CalmNext(t)
      BY <1>1, CalmAtFirst
    <3> QED
      BY <1>1, <2>1, <3>1, <3>2, <3>3 DEF Undisturbed
  <2>2. CASE v # t
    <3>1. tasks'[v] = tasks[v] /\ Busy(v) /\ Calm(v)
      BY <1>1, <1>2, <2>2 DEF Others, Busy, Calm
    <3>2. admin = NULL /\ (\A u \in Tasks : Busy(u) => tasks[u].calm) /\ CalmTask(v)
      BY <3>1 DEF CalmOK
    <3>3. Undisturbed
      BY <3>2 DEF Undisturbed
    <3>4. CalmNext(v)
      BY <1>1, <3>1, <3>2, CalmStays
    <3>5. \A u \in Tasks : tasks'[u] # Idle => tasks'[u].calm
      BY <1>1, <3>2, <3>3 DEF Others, Busy
    <3> QED
      BY <1>1, <3>2, <3>4, <3>5
  <2> QED
    BY <2>1, <2>2
<1>3. CalmOKNext
  BY <1>2 DEF CalmOKNext
<1> QED
  BY <1>3, CalmOKThen

LEMMA ProcessKeepsCalm ==
  ASSUME TypeInv, CalmOK, NEW t \in Tasks, Process(t)
  PROVE  CalmOK'
<1>1. /\ Busy(t) /\ (Same(t) \/ Left(t)) /\ Kept /\ admin' = admin /\ Grows
  BY ProcessCarries DEF Carries
<1>2. Others(t) /\ (tasks'[t] # Idle => tasks'[t].calm = tasks[t].calm)
  BY <1>1 DEF Same, Left
<1>3. ASSUME NEW v \in Tasks, tasks'[v] # Idle, tasks'[v].calm
      PROVE  /\ admin' = NULL /\ \A u \in Tasks : tasks'[u] # Idle => tasks'[u].calm
             /\ CalmNext(v)
  <2>1. Calm(v) /\ Busy(v)
    BY <1>1, <1>2, <1>3 DEF Others, Calm, Busy
  <2>2. admin = NULL /\ (\A u \in Tasks : Busy(u) => tasks[u].calm) /\ CalmTask(v)
    BY <2>1 DEF CalmOK
  <2>3. tasks[t].calm /\ CalmTask(t)
    BY <1>1, <2>2 DEF CalmOK, Calm
  <2>4. CacheSound /\ (Left(t) \/ CalmNext(t))
    BY <2>3, ProcessCalm
  <2>5. \A u \in Tasks : tasks'[u] # Idle => tasks'[u].calm
    BY <1>2, <2>2, <2>3 DEF Others, Busy
  <2>6. CalmNext(v)
    <3>1. CASE v = t
      BY <1>3, <2>4, <3>1 DEF Left
    <3>2. CASE v # t
      BY <1>1, <1>2, <2>1, <2>2, <2>4, <3>2, CalmStays DEF Others, Grows
    <3> QED
      BY <3>1, <3>2
  <2> QED
    BY <1>1, <2>2, <2>5, <2>6
<1>4. CalmOKNext
  BY <1>3 DEF CalmOKNext
<1> QED
  BY <1>4, CalmOKThen

LEMMA NextCalm ==
  ASSUME TypeInv, CalmOK, [Next]_ingestVars
  PROVE  CalmOK'
<1>1. CASE UNCHANGED ingestVars
  <2>1. Kept /\ tasks' = tasks /\ cache' = cache /\ admin' = admin /\ sessions' = sessions
    BY <1>1, StutterStays
  <2> QED
    BY <2>1, SameCache, StandingCalm
<1>2. CASE Handed
  <2>1. Kept /\ tasks' = tasks /\ cache' = cache /\ admin' = admin /\ sessions' = sessions
    BY <1>2 DEF Handed, ScopesStay
  <2> QED
    BY <2>1, SameCache, StandingCalm
<1>3. CASE Reorganised
  <2>1. /\ UNCHANGED scopeVars /\ tasks' = tasks /\ cache' = cache /\ admin' = admin
        /\ \A s \in Sessions : sessions[s] # NULL => sessions'[s] # NULL
    BY <1>3 DEF Reorganised, Settles
  <2> QED
    BY <2>1, ScopesSame, SameCache, StandingCalm
<1>4. CASE Finished
  <2>1. admin # NULL /\ tasks' = tasks
    BY <1>4 DEF Finished, Settles
  <2>2. \A t \in Tasks : ~Calm(t)
    BY <2>1 DEF CalmOK
  <2> QED
    BY <2>1, <2>2, NoneCalm DEF Calm, Busy
<1>5. ASSUME NEW plan, Planned(plan) PROVE CalmOK'
  BY <1>5, UnsettledCalm DEF Planned, Committed
<1>6. CASE Committed(reorg)
  BY <1>6, UnsettledCalm DEF Committed
<1>7. CASE Next
  BY <1>2, <1>3, <1>4, <1>5, <1>6, <1>7, NextDoes, ArrivedCalm, ProcessKeepsCalm
<1> QED
  BY <1>1, <1>7

CalmInv == TypeInv /\ CalmOK

\* NoStaleFailure: a request that no change of scopes overlaps fails only where
\* it falls to the default project and that one is gone.
THEOREM NothingFailsStale == Spec => []NoStaleFailure
<1>1. Init => CalmInv
  BY InitTypes DEF Init, CalmInv, CalmOK, Calm, Busy
<1>2. CalmInv /\ [Next]_ingestVars => CalmInv'
  BY NextTypes, NextCalm DEF CalmInv
<1>3. CalmInv => NoStaleFailure
  BY DEF CalmInv, CalmOK, Calm, CalmTask, NoStaleFailure, At, Busy, Default
<1> QED
  BY <1>1, <1>2, <1>3, PTL DEF Spec

-----------------------------------------------------------------------------
(* An ended session's page has all of it.                                   *)

\* Of a session a step takes nothing but its row, its observations or its page.
Spared(s) ==
    /\ sessions'[s] # NULL =>
           /\ sessions[s] # NULL /\ sessions'[s].ended = sessions[s].ended
           /\ sessions'[s].page \in {sessions[s].page, NULL}
           /\ sessions'[s].page # NULL =>
                  summaries'[<<sessions'[s].page, s>>] = summaries[<<sessions'[s].page, s>>]
    /\ \A o \in observations' : o.s = s => \E x \in observations : x.at = o.at /\ x.s = s
    /\ \A p \in ProjectIds : projects[p] # Unborn /\ p \in LiveProjects' =>
           p \in LiveProjects /\ summaries'[<<p, s>>] = summaries[<<p, s>>]

LEMMA AdministersSpares ==
  ASSUME TypeInv, NEW ps, Administers(ps), NEW s \in Sessions
  PROVE  Spared(s)
<1>1. ps \subseteq ProjectIds /\ ps \cap LiveProjects' = {} /\ Sticks
      /\ SessionsLess(ps) /\ ObservationsLess /\ PagesLess(ps)
  BY DEF Administers
<1>2. ASSUME sessions'[s] # NULL
      PROVE  /\ sessions[s] # NULL /\ sessions'[s].ended = sessions[s].ended
             /\ sessions'[s].page \in {sessions[s].page, NULL}
             /\ sessions'[s].page # NULL =>
                    summaries'[<<sessions'[s].page, s>>] = summaries[<<sessions'[s].page, s>>]
  <2>1. /\ sessions[s] # NULL /\ sessions'[s].ended = sessions[s].ended
        /\ sessions'[s].page \in ({sessions[s].page} \ ps) \cup {NULL}
    BY <1>1, <1>2 DEF SessionsLess
  <2>2. sessions[s].page \in ProjectIds \cup {NULL}
    BY <2>1, SessionRow DEF TypeInv
  <2> QED
    BY <1>1, <2>1, <2>2 DEF PagesLess
<1>3. \A o \in observations' : o.s = s => \E x \in observations : x.at = o.at /\ x.s = s
  BY <1>1 DEF ObservationsLess
<1>4. ASSUME NEW p \in ProjectIds, projects[p] # Unborn, p \in LiveProjects'
      PROVE  p \in LiveProjects /\ summaries'[<<p, s>>] = summaries[<<p, s>>]
  <2>1. projects'[p] # Gone
    BY <1>4 DEF LiveProjects
  <2> QED
    BY <1>1, <1>4, <2>1 DEF Sticks, LiveProjects, PagesLess
<1> QED
  BY <1>2, <1>3, <1>4 DEF Spared

LEMMA UntouchedSpares ==
  ASSUME TypeInv, Kept, NEW s \in Sessions, Untouched(s)
  PROVE  Spared(s)
<1>1. sessions[s] # NULL => sessions[s].page \in ProjectIds \cup {NULL}
  BY SessionRow DEF TypeInv
<1>2. \A p \in ProjectIds : projects[p] # Unborn /\ p \in LiveProjects' => p \in LiveProjects
  BY DEF Kept, LiveProjects
<1> QED
  BY <1>1, <1>2 DEF Untouched, Spared

\* What is asked of one session, and of one request, before and after a step.
EndedOne(s) ==
    sessions[s] # NULL /\ sessions[s].ended # NULL /\ sessions[s].page # NULL =>
        /\ summaries[<<sessions[s].page, s>>] # Unwritten
        /\ \A o \in observations : o.s = s /\ o.at <= sessions[s].ended => o.at \in summaries[<<sessions[s].page, s>>]
EndedNext(s) ==
    sessions'[s] # NULL /\ sessions'[s].ended # NULL /\ sessions'[s].page # NULL =>
        /\ summaries'[<<sessions'[s].page, s>>] # Unwritten
        /\ \A o \in observations' :
               o.s = s /\ o.at <= sessions'[s].ended => o.at \in summaries'[<<sessions'[s].page, s>>]
ReadTask(t) ==
    /\ tasks[t].step \in {"page", "close", "handoff"} => Read(t)
    /\ tasks[t].step = "close" => Written(t)
ReadNext(t) ==
    /\ tasks'[t].step \in {"page", "close", "handoff"} =>
           \A o \in observations' : o.s = tasks'[t].s => o.at \in tasks'[t].seen
    /\ tasks'[t].step = "close" =>
           /\ tasks'[t].proj \in ProjectIds /\ projects'[tasks'[t].proj] # Unborn
           /\ tasks'[t].proj \in LiveProjects' => summaries'[<<tasks'[t].proj, tasks'[t].s>>] = tasks'[t].seen

LEMMA EndedThen == (\A s \in Sessions : EndedNext(s)) => EndedSummarised'
BY DEF EndedNext, EndedSummarised, Unwritten

LEMMA EndedEach == EndedSummarised /\ serial => \A s \in Sessions : EndedOne(s)
BY DEF EndedSummarised, EndedOne

LEMMA ReadThen == (\A t \in Tasks : tasks'[t] # Idle => ReadNext(t)) => ReadOK'
BY DEF ReadNext, ReadOK, Read, Written, At, Busy, Idle

LEMMA ReadEach == ReadOK /\ serial => \A t \in Tasks : Busy(t) => ReadTask(t)
BY DEF ReadOK, ReadTask, At

LEMMA EndedSpared ==
  ASSUME TypeInv, NEW s \in Sessions, Spared(s), EndedOne(s)
  PROVE  EndedNext(s)
BY DEF Spared, EndedOne, EndedNext

\* A request that stands where it did.
Stands(t) ==
    /\ Busy(t) /\ tasks'[t].step = tasks[t].step /\ tasks'[t].kind = tasks[t].kind /\ tasks'[t].s = tasks[t].s
    /\ SameScope(t) /\ SameRead(t)

LEMMA ReadSpared ==
  ASSUME TypeInv, Sticks, NEW t \in Tasks, Stands(t), ReadTask(t),
         tasks[t].step \in {"page", "close", "handoff"} => Spared(tasks[t].s)
  PROVE  ReadNext(t)
<1>1. ASSUME tasks[t].step \in {"page", "close", "handoff"}
      PROVE  \A o \in observations' : o.s = tasks[t].s => o.at \in tasks[t].seen
  BY <1>1 DEF ReadTask, Read, Spared
<1>2. ASSUME tasks[t].step = "close"
      PROVE  /\ tasks[t].proj \in ProjectIds /\ projects'[tasks[t].proj] # Unborn
             /\ tasks[t].proj \in LiveProjects' => summaries'[<<tasks[t].proj, tasks[t].s>>] = tasks[t].seen
  <2>1. /\ tasks[t].proj \in ProjectIds /\ projects[tasks[t].proj] # Unborn
        /\ tasks[t].proj \in LiveProjects => summaries[<<tasks[t].proj, tasks[t].s>>] = tasks[t].seen
    BY <1>2 DEF ReadTask, Written
  <2>2. projects'[tasks[t].proj] # Unborn
    BY <2>1 DEF Sticks
  <2> QED
    BY <1>2, <2>1, <2>2 DEF Spared
<1> QED
  BY <1>1, <1>2 DEF Stands, SameScope, SameRead, ReadNext

\* Requests stay those of their sessions.
Together == \A t \in Tasks : tasks'[t] # Idle => Busy(t) /\ tasks'[t].kind = tasks[t].kind /\ tasks'[t].s = tasks[t].s

LEMMA AloneTogether ==
  ASSUME Alone, Together, UNCHANGED serial
  PROVE  Alone'
BY DEF Alone, Together, Works, Busy, Idle

\* The first lines of an operation on the scopes: all requests stand.
AllStand == \A t \in Tasks : tasks'[t] # Idle => Stands(t)

LEMMA UnsettledStand == Unsettled => AllStand
BY DEF Unsettled, AllStand, Stands

LEMMA StillStand == UNCHANGED tasks => AllStand
BY DEF AllStand, Stands, SameScope, SameRead, Busy

SerialInv == TypeInv /\ Alone /\ ReadOK /\ EndedSummarised

LEMMA AllSpared ==
  ASSUME SerialInv, Sticks, AllStand, UNCHANGED serial, \A s \in Sessions : Spared(s)
  PROVE  Alone' /\ ReadOK' /\ EndedSummarised'
<1>1. Alone'
  BY AloneTogether DEF SerialInv, AllStand, Stands, Together
<1>2. CASE serial
  <2>1. \A s \in Sessions : EndedNext(s)
    BY <1>2, EndedEach, EndedSpared DEF SerialInv
  <2>2. ASSUME NEW t \in Tasks, tasks'[t] # Idle PROVE ReadNext(t)
    <3>1. Stands(t) /\ Busy(t)
      BY <2>2 DEF AllStand, Stands
    <3>2. tasks[t].step \in {"page", "close", "handoff"} => tasks[t].s \in Sessions
      BY <3>1, EventTask DEF SerialInv, TypeInv, EventSteps
    <3> QED
      BY <1>2, <3>1, <3>2, ReadEach, ReadSpared DEF SerialInv
  <2> QED
    BY <1>1, <2>1, <2>2, EndedThen, ReadThen
<1>3. CASE ~serial
  BY <1>1, <1>3 DEF ReadOK, EndedSummarised
<1> QED
  BY <1>2, <1>3

LEMMA AdministersSerial ==
  ASSUME SerialInv, NEW ps, Administers(ps), AllStand, UNCHANGED serial
  PROVE  Alone' /\ ReadOK' /\ EndedSummarised'
<1>1. Sticks /\ \A s \in Sessions : Spared(s)
  BY AdministersSpares DEF SerialInv, Administers
<1> QED
  BY <1>1, AllSpared

\* What a step owes the session it works for, and the request itself.
Acted(t) ==
    /\ tasks[t].kind # "fetch" => EndedNext(tasks[t].s)
    /\ Left(t) \/ ReadNext(t)
Owed(t) ==
    /\ Busy(t) /\ ReadTask(t)
    /\ tasks[t].kind # "fetch" => tasks[t].s \in Sessions /\ EndedOne(tasks[t].s)

\* No observation, session or page changes, and the request is not at its page.
LEMMA ActedElsewhere ==
  ASSUME TypeInv, NEW t \in Tasks, Owed(t), sessions' = sessions, observations' = observations, summaries' = summaries,
         Left(t) \/ tasks'[t].step \notin {"page", "close", "handoff"}
  PROVE  Acted(t)
BY DEF Acted, Owed, EndedOne, EndedNext, ReadNext

LEMMA ScopeActs ==
  ASSUME TypeInv, NEW t \in Tasks, Owed(t),
         StickyScope(t) \/ Lookup(t) \/ MakeWorkspace(t) \/ MakeProject(t) \/ Remember(t)
  PROVE  Acted(t)
<1>1. AfterScope(t) \in {"peek", "disposition", "begin"}
  BY DEF AfterScope
<1>2. CASE StickyScope(t) \/ Lookup(t) \/ Remember(t)
  <2>1. Quiet /\ tasks'[t].step \in {"lookup", "workspace", AfterScope(t)}
    BY <1>2, StickyScopeDoes, LookupDoes, RememberDoes DEF TypeInv, Moved
  <2>2. sessions' = sessions /\ observations' = observations /\ summaries' = summaries
    BY <2>1 DEF Quiet, rowVars
  <2> QED
    BY <1>1, <2>1, <2>2, ActedElsewhere
<1>3. CASE MakeWorkspace(t)
  <2>1. RowsStay /\ tasks'[t].step = "project"
    BY <1>3, MakeWorkspaceDoes
  <2>2. sessions' = sessions /\ observations' = observations /\ summaries' = summaries
    BY <2>1 DEF RowsStay, rowVars
  <2> QED
    BY <2>1, <2>2, ActedElsewhere
<1>4. CASE MakeProject(t)
  <2>1. RowsStay /\ (Left(t) \/ tasks'[t].step = "remember")
    BY <1>4, MakeProjectDoes
  <2>2. sessions' = sessions /\ observations' = observations /\ summaries' = summaries
    BY <2>1 DEF RowsStay, rowVars
  <2> QED
    BY <2>1, <2>2, ActedElsewhere
<1> QED
  BY <1>2, <1>3, <1>4

LEMMA LeavingActs ==
  ASSUME TypeInv, NEW t \in Tasks, Owed(t), Disposition(t) \/ Peek(t) \/ Fails(t) \/ Dies(t) \/ Accept(t)
  PROVE  Acted(t)
<1>1. CASE Disposition(t) \/ Peek(t) \/ Fails(t) \/ Dies(t)
  <2>1. Quiet /\ (Left(t) \/ tasks'[t].step \in {"begin", "accept"})
    BY <1>1, DispositionDoes, PeekDoes, LeavingDoes DEF TypeInv, Moved
  <2>2. sessions' = sessions /\ observations' = observations /\ summaries' = summaries
    BY <2>1 DEF Quiet, rowVars
  <2> QED
    BY <2>1, <2>2, ActedElsewhere
<1>2. CASE Accept(t)
  <2>1. Left(t) /\ summaries' = summaries /\ ((\E h \in handoffs : Settle(h, "accepted")) \/ UNCHANGED rowVars)
    BY <1>2, AcceptDoes DEF TypeInv
  <2>2. sessions' = sessions /\ observations' = observations
    BY <2>1, SettleTypes DEF TypeInv
  <2> QED
    BY <2>1, <2>2, ActedElsewhere
<1> QED
  BY <1>1, <1>2

LEMMA BeginActs ==
  ASSUME TypeInv, NEW t \in Tasks, Owed(t), Begin(t)
  PROVE  Acted(t)
<1>1. Busy(t) /\ tasks[t].step = "begin" /\ summaries' = summaries
  BY BeginDoes DEF TypeInv
<1>2. tasks[t].s \in Sessions /\ tasks[t].place.dir \in Dirs \cup {NULL} /\ tasks[t].kind # "fetch"
  BY <1>1, EventTask DEF TypeInv, EventSteps
<1>3. CASE UNCHANGED rowVars /\ tasks'[t].step \in {"lookup", "failed"}
  BY <1>1, <1>3, ActedElsewhere DEF rowVars
<1>4. CASE begin_session(tasks[t].s, tasks[t].ws, tasks[t].proj, tasks[t].place.dir) /\ Moved(t, "observe")
  <2>1. /\ sessions[tasks[t].s] # NULL => sessions'[tasks[t].s] = sessions[tasks[t].s]
        /\ sessions[tasks[t].s] = NULL => sessions'[tasks[t].s].ended = NULL
        /\ observations' = observations
    BY <1>2, <1>4, SessionBegun DEF TypeInv
  <2>2. EndedNext(tasks[t].s)
    BY <1>1, <1>2, <2>1 DEF Owed, EndedOne, EndedNext
  <2>3. ReadNext(t)
    BY <1>4 DEF Moved, ReadNext
  <2> QED
    BY <2>2, <2>3 DEF Acted
<1> QED
  BY <1>3, <1>4, BeginDoes DEF TypeInv, Moved

LEMMA ObserveActs ==
  ASSUME TypeInv, NEW t \in Tasks, Owed(t), Observe(t)
  PROVE  Acted(t)
<1>1. Busy(t) /\ tasks[t].step = "observe" /\ summaries' = summaries
  BY ObserveDoes DEF TypeInv
<1>2. tasks[t].s \in Sessions /\ tasks[t].kind # "fetch"
  BY <1>1, EventTask DEF TypeInv, EventSteps
<1>3. CASE UNCHANGED rowVars /\ Moved(t, "failed")
  BY <1>1, <1>3, ActedElsewhere DEF rowVars, Moved
<1>4. CASE /\ insert_observation(tasks[t].s, tasks[t].ws, tasks[t].proj, tasks[t].kind # "end")
           /\ Left(t) \/ Moved(t, "read")
  <2>1. (tasks[t].kind # "end") \in BOOLEAN
    OBVIOUS
  <2>2. Observed(tasks[t].s, tasks[t].ws, tasks[t].proj, tasks[t].kind # "end")
    BY <1>2, <1>4, <2>1, ObservationInserted DEF TypeInv
  <2>3. /\ clock' = clock + 1 /\ clock \in Nat /\ sessions' = sessions
        /\ \A o \in observations' : o \in observations \/ o.at = clock'
    BY <2>2 DEF Observed, TypeInv, RowsTypeOK
  <2>4. sessions[tasks[t].s] # NULL => sessions[tasks[t].s].ended \in 0..clock \cup {NULL}
    BY <1>2, SessionRow DEF TypeInv
  <2>5. EndedNext(tasks[t].s)
    BY <1>1, <1>2, <2>3, <2>4 DEF Owed, EndedOne, EndedNext
  <2>6. Left(t) \/ ReadNext(t)
    BY <1>4 DEF Moved, ReadNext
  <2> QED
    BY <2>5, <2>6 DEF Acted
<1> QED
  BY <1>3, <1>4, ObserveDoes DEF TypeInv

LEMMA ReadObservationsActs ==
  ASSUME TypeInv, NEW t \in Tasks, Owed(t), ReadObservations(t)
  PROVE  Acted(t)
<1>1. /\ Busy(t) /\ Quiet
      /\ \/ Left(t)
         \/ Same(t) /\ tasks'[t].step = "page" /\ tasks'[t].seen = observations_for_session(tasks[t].s)
  BY ReadObservationsDoes DEF TypeInv
<1>2. sessions' = sessions /\ observations' = observations /\ summaries' = summaries
  BY <1>1 DEF Quiet, rowVars
<1>3. CASE Left(t)
  BY <1>2, <1>3, ActedElsewhere
<1>4. CASE Same(t) /\ tasks'[t].step = "page" /\ tasks'[t].seen = observations_for_session(tasks[t].s)
  <2>1. ReadNext(t)
    BY <1>2, <1>4 DEF Same, ReadNext, observations_for_session
  <2>2. tasks[t].kind # "fetch" => EndedNext(tasks[t].s)
    BY <1>2 DEF Owed, EndedOne, EndedNext
  <2> QED
    BY <2>1, <2>2 DEF Acted
<1> QED
  BY <1>1, <1>3, <1>4

LEMMA WritePageActs ==
  ASSUME TypeInv, NEW t \in Tasks, Owed(t), WritePage(t)
  PROVE  Acted(t)
<1>1. Busy(t) /\ tasks[t].step = "page" /\ UNCHANGED rowVars /\ Kept
  BY WritePageDoes, WritePageTypes DEF TypeInv
<1>2. sessions' = sessions /\ observations' = observations
  BY <1>1 DEF rowVars
<1>3. tasks[t].s \in Sessions /\ tasks[t].kind # "fetch" /\ TaskType(tasks[t])
  BY <1>1, EventTask, BusyType DEF TypeInv, EventSteps
<1>4. tasks[t].seen \in SUBSET Nat
  BY <1>1, <1>3 DEF TaskType, Fits, TypeInv, RowsTypeOK
<1>5. Read(t)
  BY <1>1 DEF Owed, ReadTask
<1>6. CASE summaries' = summaries /\ (Left(t) \/ Moved(t, "failed"))
  BY <1>2, <1>6, ActedElsewhere DEF Moved
<1>7. CASE /\ Sound(t) /\ summaries' = [summaries EXCEPT ![<<tasks[t].proj, tasks[t].s>>] = tasks[t].seen]
           /\ Left(t) \/ Moved(t, "close")
  <2>1. tasks[t].proj \in ProjectIds /\ projects[tasks[t].proj] # Unborn
    BY <1>7, SoundTypes DEF Sound, TypeInv
  <2>2. /\ summaries'[<<tasks[t].proj, tasks[t].s>>] = tasks[t].seen
        /\ \A q \in ProjectIds : q # tasks[t].proj => summaries'[<<q, tasks[t].s>>] = summaries[<<q, tasks[t].s>>]
    <3> DEFINE p == tasks[t].proj
               s == tasks[t].s
    <3>1. p \in ProjectIds /\ s \in Sessions /\ <<p, s>> \in ProjectIds \X Sessions
      BY <1>3, <2>1
    <3>2. DOMAIN summaries = ProjectIds \X Sessions
      BY DEF TypeInv, PagesOK
    <3>3. summaries' = [summaries EXCEPT ![<<p, s>>] = tasks[t].seen]
      BY <1>7
    <3>4. summaries'[<<p, s>>] = tasks[t].seen
      BY <3>1, <3>2, <3>3
    <3>5. ASSUME NEW q \in ProjectIds, q # p PROVE summaries'[<<q, s>>] = summaries[<<q, s>>]
      <4>1. <<q, s>> \in DOMAIN summaries /\ <<q, s>> # <<p, s>>
        BY <3>1, <3>2, <3>5
      <4> HIDE DEF p, s
      <4> QED
        BY <3>3, <4>1
    <3> QED
      BY <3>4, <3>5
  <2>3. tasks[t].seen # Unwritten
    BY <1>4, RowsAssumption DEF Unwritten
  <2>4. sessions[tasks[t].s] # NULL => sessions[tasks[t].s].page \in ProjectIds \cup {NULL}
    BY <1>3, SessionRow DEF TypeInv
  <2>5. EndedNext(tasks[t].s)
    BY <1>2, <1>3, <1>5, <2>2, <2>3, <2>4 DEF Owed, EndedOne, EndedNext, Read
  <2>6. ASSUME Moved(t, "close") PROVE ReadNext(t)
    <3>1. /\ tasks'[t].step = "close" /\ tasks'[t].s = tasks[t].s /\ tasks'[t].seen = tasks[t].seen
          /\ tasks'[t].proj = tasks[t].proj
      BY <2>6 DEF Moved, Same, SameScope, SameRead
    <3>2. projects'[tasks[t].proj] # Unborn
      BY <1>1, <2>1 DEF Kept
    <3> QED
      BY <1>2, <1>5, <2>1, <2>2, <3>1, <3>2 DEF ReadNext, Read
  <2> QED
    BY <1>7, <2>5, <2>6 DEF Acted
<1> QED
  BY <1>6, <1>7, WritePageDoes DEF TypeInv

LEMMA CloseActs ==
  ASSUME TypeInv, NEW t \in Tasks, Owed(t), Close(t)
  PROVE  Acted(t)
<1>1. Busy(t) /\ tasks[t].step = "close" /\ summaries' = summaries
  BY CloseDoes DEF TypeInv
<1>2. tasks[t].s \in Sessions /\ tasks[t].kind # "fetch" /\ TaskType(tasks[t])
  BY <1>1, EventTask, BusyType DEF TypeInv, EventSteps
<1>3. tasks[t].seen \in SUBSET Nat
  BY <1>1, <1>2 DEF TaskType, Fits, TypeInv, RowsTypeOK
<1>4. Read(t) /\ Written(t)
  BY <1>1 DEF Owed, ReadTask
<1>5. CASE Moved(t, "failed") /\ UNCHANGED rowVars
  BY <1>1, <1>5, ActedElsewhere DEF rowVars, Moved
<1>6. CASE end_session(tasks[t].s, tasks[t].proj) /\ Moved(t, "handoff")
  <2>1. /\ sessions[tasks[t].s] = NULL => sessions'[tasks[t].s] = NULL
        /\ sessions[tasks[t].s] # NULL => /\ tasks[t].proj \in LiveProjects
                                          /\ sessions'[tasks[t].s].page = tasks[t].proj
        /\ observations' = observations
    BY <1>2, <1>6, SessionEnded DEF TypeInv
  <2>2. sessions[tasks[t].s] # NULL => summaries'[<<tasks[t].proj, tasks[t].s>>] = tasks[t].seen
    BY <1>1, <1>4, <2>1 DEF Written
  <2>3. tasks[t].seen # Unwritten
    BY <1>3, RowsAssumption DEF Unwritten
  <2>4. EndedNext(tasks[t].s)
    BY <1>4, <2>1, <2>2, <2>3 DEF EndedNext, Read
  <2>5. ReadNext(t)
    BY <1>4, <1>6, <2>1 DEF Moved, Same, SameRead, ReadNext, Read
  <2> QED
    BY <2>4, <2>5 DEF Acted
<1> QED
  BY <1>5, <1>6, CloseDoes DEF TypeInv

LEMMA AutoHandoffActs ==
  ASSUME TypeInv, NEW t \in Tasks, Owed(t), AutoHandoff(t)
  PROVE  Acted(t)
<1>1. /\ Busy(t) /\ tasks[t].step = "handoff" /\ summaries' = summaries
      /\ \/ /\ insert_handoff(tasks[t].ws, tasks[t].proj, tasks[t].s, tasks[t].place.dir, tasks[t].seen)
            /\ Left(t)
         \/ Moved(t, "failed") /\ UNCHANGED rowVars
  BY AutoHandoffDoes DEF TypeInv
<1>2. sessions' = sessions /\ observations' = observations
  BY <1>1 DEF insert_handoff, rowVars
<1> QED
  BY <1>1, <1>2, ActedElsewhere DEF Moved

LEMMA ProcessActs ==
  ASSUME TypeInv, NEW t \in Tasks, Owed(t), Process(t)
  PROVE  Acted(t)
BY ScopeActs, LeavingActs, BeginActs, ObserveActs, ReadObservationsActs, WritePageActs, CloseActs, AutoHandoffActs
   DEF Process

LEMMA ProcessSerial ==
  ASSUME SerialInv, NEW t \in Tasks, Process(t)
  PROVE  Alone' /\ ReadOK' /\ EndedSummarised'
<1>1. /\ Busy(t) /\ (Same(t) \/ Left(t)) /\ Kept /\ serial' = serial
      /\ \A x \in Sessions : (Works(t) => tasks[t].s # x) => Untouched(x)
  BY ProcessCarries DEF Carries, SerialInv
<1>2. Others(t) /\ (tasks'[t] # Idle => tasks'[t].kind = tasks[t].kind /\ tasks'[t].s = tasks[t].s)
  BY <1>1 DEF Same, Left
<1>3. Alone'
  <2>1. Together
    BY <1>1, <1>2 DEF Together, Others, Busy
  <2> QED
    BY <1>1, <2>1, AloneTogether DEF SerialInv
<1>4. CASE ~serial
  BY <1>1, <1>3, <1>4 DEF ReadOK, EndedSummarised
<1>5. CASE serial
  <2>1. \A x \in Sessions : (Works(t) => tasks[t].s # x) => Spared(x)
    BY <1>1, UntouchedSpares DEF SerialInv
  <2>2. tasks[t].kind # "fetch" => tasks[t].s \in Sessions
    BY <1>1, BusyType DEF SerialInv, TypeInv, TaskType, Ranges
  <2>3. Owed(t)
    BY <1>1, <1>5, <2>2, ReadEach, EndedEach DEF SerialInv, Owed
  <2>4. Acted(t)
    BY <2>3, ProcessActs DEF SerialInv
  <2>5. ASSUME NEW x \in Sessions PROVE EndedNext(x)
    <3>1. CASE Works(t) /\ tasks[t].s = x
      BY <2>4, <3>1 DEF Acted, Works
    <3>2. CASE Works(t) => tasks[t].s # x
      BY <1>5, <2>1, <3>2, EndedEach, EndedSpared DEF SerialInv
    <3> QED
      BY <3>1, <3>2
  <2>6. ASSUME NEW u \in Tasks, tasks'[u] # Idle PROVE ReadNext(u)
    <3>1. CASE u = t
      BY <2>4, <2>6, <3>1 DEF Acted, Left
    <3>2. CASE u # t
      <4>1. Stands(u) /\ Busy(u) /\ ReadTask(u)
        BY <1>2, <1>5, <2>6, <3>2, ReadEach DEF Others, Stands, Busy, SameScope, SameRead, SerialInv
      <4>2. ASSUME tasks[u].step \in {"page", "close", "handoff"} PROVE Spared(tasks[u].s)
        <5>1. Works(u) /\ tasks[u].s \in Sessions
          BY <4>1, <4>2, EventWorks DEF EventSteps, SerialInv
        <5>2. Works(t) => tasks[t].s # tasks[u].s
          BY <1>5, <3>2, <5>1 DEF SerialInv, Alone
        <5> QED
          BY <2>1, <5>1, <5>2
      <4> QED
        BY <1>1, <4>1, <4>2, KeptSticks, ReadSpared DEF SerialInv
    <3> QED
      BY <3>1, <3>2
  <2> QED
    BY <1>3, <2>5, <2>6, EndedThen, ReadThen
<1> QED
  BY <1>4, <1>5

LEMMA QuietSpares ==
  ASSUME TypeInv, Kept, sessions' = sessions, observations' = observations, summaries' = summaries
  PROVE  Sticks /\ \A s \in Sessions : Spared(s)
<1>1. ASSUME NEW s \in Sessions PROVE Spared(s)
  <2>1. sessions[s] # NULL => sessions[s].page \in ProjectIds \cup {NULL}
    BY SessionRow DEF TypeInv
  <2>2. \A p \in ProjectIds : projects[p] # Unborn /\ p \in LiveProjects' => p \in LiveProjects
    BY DEF Kept, LiveProjects
  <2> QED
    BY <2>1, <2>2 DEF Spared
<1> QED
  BY <1>1, KeptSticks

LEMMA ArrivedSerial ==
  ASSUME SerialInv, NEW t \in Tasks, Arrived(t)
  PROVE  Alone' /\ ReadOK' /\ EndedSummarised'
<1>1. /\ Kept /\ sessions' = sessions /\ observations' = observations /\ summaries' = summaries /\ serial' = serial
      /\ ~Busy(t) /\ Others(t) /\ tasks'[t].step \in {"scope", "lookup", "peek"}
      /\ serial /\ tasks'[t].kind # "fetch" => \A u \in Tasks : Busy(u) => tasks[u].s # tasks'[t].s
  BY DEF Arrived, Quiet, rowVars, Begun
<1>2. Sticks /\ \A s \in Sessions : Spared(s)
  BY <1>1, QuietSpares DEF SerialInv
<1>3. \A u \in Tasks : u # t => tasks'[u] = tasks[u]
  BY <1>1 DEF Others
<1>4. Alone'
  <2>1. ASSUME serial, NEW u \in Tasks, NEW v \in Tasks, tasks'[u] # Idle, tasks'[u].kind # "fetch",
               tasks'[v] # Idle, tasks'[v].kind # "fetch", tasks'[u].s = tasks'[v].s, u # v
        PROVE  FALSE
    <3>1. CASE u # t /\ v # t
      BY <1>3, <2>1, <3>1 DEF SerialInv, Alone, Works, Busy
    <3>2. CASE u = t
      BY <1>1, <1>3, <2>1, <3>2 DEF Busy
    <3>3. CASE v = t
      BY <1>1, <1>3, <2>1, <3>3 DEF Busy
    <3> QED
      BY <3>1, <3>2, <3>3
  <2> QED
    BY <1>1, <2>1 DEF Alone, Works, Busy, Idle
<1>5. CASE ~serial
  BY <1>1, <1>4, <1>5 DEF ReadOK, EndedSummarised
<1>6. CASE serial
  <2>1. \A s \in Sessions : EndedNext(s)
    BY <1>2, <1>6, EndedEach, EndedSpared DEF SerialInv
  <2>2. ASSUME NEW u \in Tasks, tasks'[u] # Idle PROVE ReadNext(u)
    <3>1. CASE u = t
      BY <1>1, <3>1 DEF ReadNext
    <3>2. CASE u # t
      <4>1. Stands(u) /\ Busy(u)
        BY <1>3, <2>2, <3>2 DEF Stands, Busy, SameScope, SameRead
      <4>2. tasks[u].step \in {"page", "close", "handoff"} => tasks[u].s \in Sessions
        BY <4>1, EventTask DEF SerialInv, TypeInv, EventSteps
      <4> QED
        BY <1>2, <1>6, <4>1, <4>2, ReadEach, ReadSpared DEF SerialInv
    <3> QED
      BY <3>1, <3>2
  <2> QED
    BY <1>4, <2>1, <2>2, EndedThen, ReadThen
<1> QED
  BY <1>5, <1>6

LEMMA NextSerial ==
  ASSUME SerialInv, [Next]_ingestVars
  PROVE  Alone' /\ ReadOK' /\ EndedSummarised'
<1>1. CASE UNCHANGED ingestVars
  <2>1. /\ Kept /\ sessions' = sessions /\ observations' = observations /\ summaries' = summaries
        /\ serial' = serial /\ tasks' = tasks
    BY <1>1, StutterStays DEF SerialInv
  <2> QED
    BY <2>1, QuietSpares, StillStand, AllSpared DEF SerialInv
<1>2. CASE Handed
  <2>1. /\ Kept /\ sessions' = sessions /\ observations' = observations /\ summaries' = summaries
        /\ serial' = serial /\ tasks' = tasks
    BY <1>2 DEF Handed, ScopesStay
  <2> QED
    BY <2>1, QuietSpares, StillStand, AllSpared DEF SerialInv
<1>3. CASE Reorganised \/ Finished
  <2>1. UNCHANGED tasks /\ UNCHANGED serial /\ \E ps \in SUBSET ProjectIds : Administers(ps)
    BY <1>3 DEF Reorganised, Finished, Settles
  <2> QED
    BY <2>1, StillStand, AdministersSerial
<1>4. ASSUME NEW plan, Committed(plan) PROVE Alone' /\ ReadOK' /\ EndedSummarised'
  <2>1. Unsettled /\ UNCHANGED serial /\ \E ps \in SUBSET ProjectIds : Administers(ps)
    BY <1>4 DEF Committed
  <2> QED
    BY <2>1, UnsettledStand, AdministersSerial
<1>5. CASE Next
  BY <1>2, <1>3, <1>4, <1>5, NextDoes, ArrivedSerial, ProcessSerial DEF SerialInv, Planned
<1> QED
  BY <1>1, <1>5

\* EndedSummarised: whatever died on the way, an ended session's page is of all
\* that was observed in it up to its end.
THEOREM EndsAreSummarised == Spec => []EndedSummarised
<1>1. Init => SerialInv
  <2>1. Init => Alone /\ ReadOK /\ EndedSummarised
    BY DEF Init, RowsInit, Alone, ReadOK, EndedSummarised, Works, Busy, At
  <2> QED
    BY <2>1, InitTypes DEF SerialInv
<1>2. SerialInv /\ [Next]_ingestVars => SerialInv'
  BY NextTypes, NextSerial DEF SerialInv
<1>3. SerialInv => EndedSummarised
  BY DEF SerialInv
<1> QED
  BY <1>1, <1>2, <1>3, PTL DEF Spec

-----------------------------------------------------------------------------
(* One handoff for each stretch of work.                                    *)

\* The same after a step.
NoGoneNext == \A p \in ProjectIds : projects'[p] # Gone
NewWorkNext(s) ==
    /\ sessions'[s] # NULL
    /\ sessions'[s].ended = NULL \/ \E o \in observations' : o.s = s /\ o.work /\ o.at > sessions'[s].ended
FurtherNext(covers, g) == \E o \in observations' : o.work /\ o.at \in covers \ g.covers
CoveredNext(s, covers) ==
    /\ sessions'[s] # NULL /\ sessions'[s].ended # NULL
    /\ \A i \in covers : i <= sessions'[s].ended
EndingNext(t) ==
    /\ tasks'[t] # Idle /\ tasks'[t].kind = "end"
    /\ \/ tasks'[t].step \in {"begin", "observe", "read", "page", "close"}
       \/ tasks'[t].retried /\ tasks'[t].step \in {"lookup", "workspace", "project", "remember"}

\* What WorkOK says of one session, and of one request.
SessionWork(s) ==
    /\ WorkSince(s)
    /\ \A h \in handoffs : h.from = s => Ended(s, h.covers)
    /\ \A g, h \in handoffs : g.from = s /\ h.from = s /\ g.at < h.at => Further(h.covers, g)
SessionWorkNext(s) ==
    /\ sessions'[s] # NULL /\ sessions'[s].ended # NULL =>
           \A o \in observations' : o.s = s /\ o.at > sessions'[s].ended => NewWorkNext(s)
    /\ \A h \in handoffs' : h.from = s => CoveredNext(s, h.covers)
    /\ \A g, h \in handoffs' : g.from = s /\ h.from = s /\ g.at < h.at => FurtherNext(h.covers, g)
TaskWork(t) ==
    /\ Ending(t) => NewWork(tasks[t].s)
    /\ tasks[t].step = "handoff" =>
           /\ Ended(tasks[t].s, tasks[t].seen)
           /\ \A g \in handoffs : g.from = tasks[t].s => Further(tasks[t].seen, g)
TaskWorkNext(t) ==
    /\ EndingNext(t) => NewWorkNext(tasks'[t].s)
    /\ tasks'[t].step = "handoff" =>
           /\ CoveredNext(tasks'[t].s, tasks'[t].seen)
           /\ \A g \in handoffs' : g.from = tasks'[t].s => FurtherNext(tasks'[t].seen, g)

LEMMA WorkEach ==
  WorkOK => (\A s \in Sessions : SessionWork(s)) /\ (\A t \in Tasks : Busy(t) => TaskWork(t))
<1> SUFFICES ASSUME WorkOK
             PROVE  (\A s \in Sessions : SessionWork(s)) /\ (\A t \in Tasks : Busy(t) => TaskWork(t))
  OBVIOUS
<1>1. ASSUME NEW s \in Sessions PROVE SessionWork(s)
  BY RowsAssumption DEF WorkOK, SessionWork
<1>2. ASSUME NEW t \in Tasks, Busy(t) PROVE TaskWork(t)
  BY <1>2 DEF WorkOK, TaskWork, At
<1> QED
  BY <1>1, <1>2

LEMMA WorkThen ==
  ASSUME RowsTypeOK', \A s \in Sessions : SessionWorkNext(s), \A t \in Tasks : tasks'[t] # Idle => TaskWorkNext(t)
  PROVE  WorkOK'
<1>1. \A s \in Sessions : WorkSince(s)'
  BY DEF SessionWorkNext, WorkSince, NewWork, NewWorkNext
<1>2. ASSUME NEW h \in handoffs', h.from # NULL PROVE h.from \in Sessions
  BY <1>2 DEF RowsTypeOK
<1>3. \A h \in handoffs' : h.from # NULL => CoveredNext(h.from, h.covers)
  BY <1>2 DEF SessionWorkNext
<1>4. \A g, h \in handoffs' : g.from # NULL /\ g.from = h.from /\ g.at < h.at => FurtherNext(h.covers, g)
  BY <1>2 DEF SessionWorkNext
<1>5. \A t \in Tasks : EndingNext(t) => NewWorkNext(tasks'[t].s)
  BY DEF TaskWorkNext, EndingNext
<1>6. \A t \in Tasks : tasks'[t] # Idle /\ tasks'[t].step = "handoff" =>
          /\ CoveredNext(tasks'[t].s, tasks'[t].seen)
          /\ \A g \in handoffs' : g.from = tasks'[t].s => FurtherNext(tasks'[t].seen, g)
  BY DEF TaskWorkNext
<1> QED
  BY <1>1, <1>3, <1>4, <1>5, <1>6
     DEF WorkOK, Ended, CoveredNext, Further, FurtherNext, EndingNext, Ending, NewWork, NewWorkNext, At, Busy, Idle

\* Of a session a step neither takes nor adds anything, but for what becomes of
\* its handoffs.
Rests(s) ==
    /\ sessions[s] = NULL <=> sessions'[s] = NULL
    /\ sessions[s] # NULL => sessions'[s].ended = sessions[s].ended
    /\ \A o \in observations' : o.s = s => \E x \in observations : x.at = o.at /\ x.s = s
    /\ \A h \in handoffs' : h.from = s => \E g \in handoffs : Descend(h, g) /\ g.from = s
ObservationsKept == \A o \in observations : \E x \in observations' : x.at = o.at /\ x.s = o.s /\ x.work = o.work

LEMMA FurtherKept ==
  ASSUME ObservationsKept, NEW covers, NEW g, NEW h, h.covers = g.covers, Further(covers, g)
  PROVE  FurtherNext(covers, h)
BY DEF ObservationsKept, Further, FurtherNext

LEMMA NewWorkKept ==
  ASSUME ObservationsKept, NEW s, NewWork(s), sessions'[s] # NULL, sessions'[s].ended = sessions[s].ended
  PROVE  NewWorkNext(s)
BY DEF ObservationsKept, NewWork, NewWorkNext

LEMMA SessionRests ==
  ASSUME NEW s \in Sessions, Rests(s), ObservationsKept, SessionWork(s)
  PROVE  SessionWorkNext(s)
<1>1. NewWork(s) => NewWorkNext(s)
  BY NewWorkKept DEF Rests, NewWork
<1>2. \A covers : Ended(s, covers) => CoveredNext(s, covers)
  BY DEF Rests, Ended, CoveredNext
<1>3. ASSUME sessions'[s] # NULL, sessions'[s].ended # NULL, NEW o \in observations', o.s = s, o.at > sessions'[s].ended
      PROVE  NewWorkNext(s)
  <2>1. sessions[s] # NULL /\ sessions'[s].ended = sessions[s].ended
    BY <1>3 DEF Rests
  <2>2. PICK x \in observations : x.at = o.at /\ x.s = s
    BY <1>3 DEF Rests
  <2>3. NewWork(s)
    BY <1>3, <2>1, <2>2 DEF SessionWork, WorkSince
  <2> QED
    BY <1>1, <2>3
<1>4. ASSUME NEW h \in handoffs', h.from = s PROVE CoveredNext(s, h.covers)
  BY <1>2, <1>4 DEF Rests, SessionWork, Descend
<1>5. ASSUME NEW g \in handoffs', NEW h \in handoffs', g.from = s, h.from = s, g.at < h.at
      PROVE  FurtherNext(h.covers, g)
  <2>1. PICK x \in handoffs : Descend(g, x) /\ x.from = s
    BY <1>5 DEF Rests
  <2>2. PICK y \in handoffs : Descend(h, y) /\ y.from = s
    BY <1>5 DEF Rests
  <2>3. Further(y.covers, x)
    BY <1>5, <2>1, <2>2 DEF SessionWork, Descend
  <2> QED
    BY <2>1, <2>2, <2>3, FurtherKept DEF Descend
<1> QED
  BY <1>3, <1>4, <1>5 DEF SessionWorkNext

\* A request that stands where it did, with its session at rest.
StandsOn(t) == Stands(t) /\ SameTry(t)

LEMMA TaskRests ==
  ASSUME NEW t \in Tasks, StandsOn(t), TaskWork(t), ObservationsKept,
         Ending(t) \/ tasks[t].step = "handoff" => Rests(tasks[t].s)
  PROVE  TaskWorkNext(t)
<1>1. /\ Busy(t) /\ tasks'[t].step = tasks[t].step /\ tasks'[t].kind = tasks[t].kind /\ tasks'[t].s = tasks[t].s
      /\ tasks'[t].seen = tasks[t].seen /\ tasks'[t].retried = tasks[t].retried
  BY DEF StandsOn, Stands, SameRead, SameTry
<1>2. ASSUME EndingNext(t) PROVE NewWorkNext(tasks[t].s)
  <2>1. Ending(t)
    BY <1>1, <1>2 DEF EndingNext, Ending
  <2> QED
    BY <2>1, NewWorkKept DEF TaskWork, Rests, NewWork
<1>3. ASSUME tasks[t].step = "handoff"
      PROVE  /\ CoveredNext(tasks[t].s, tasks[t].seen)
             /\ \A g \in handoffs' : g.from = tasks[t].s => FurtherNext(tasks[t].seen, g)
  <2>1. CoveredNext(tasks[t].s, tasks[t].seen)
    BY <1>3 DEF TaskWork, Rests, Ended, CoveredNext
  <2>2. ASSUME NEW g \in handoffs', g.from = tasks[t].s PROVE FurtherNext(tasks[t].seen, g)
    <3>1. PICK x \in handoffs : Descend(g, x) /\ x.from = tasks[t].s
      BY <1>3, <2>2 DEF Rests
    <3>2. Further(tasks[t].seen, x)
      BY <1>3, <3>1 DEF TaskWork
    <3> QED
      BY <3>1, <3>2, FurtherKept DEF Descend
  <2> QED
    BY <2>1, <2>2
<1> QED
  BY <1>1, <1>2, <1>3 DEF TaskWorkNext

\* What a step owes the session it works for, and the request itself.
Owes(t) ==
    /\ Busy(t) /\ ReadTask(t) /\ TaskWork(t)
    /\ tasks[t].kind # "fetch" => tasks[t].s \in Sessions /\ SessionWork(tasks[t].s)
Worked(t) ==
    /\ tasks[t].kind # "fetch" => SessionWorkNext(tasks[t].s)
    /\ Left(t) \/ TaskWorkNext(t)

\* No row changes, or only what became of a handoff.
SameRows ==
    /\ sessions' = sessions /\ observations' = observations
    /\ \A h \in handoffs' : \E g \in handoffs : Descend(h, g) /\ h.from = g.from

LEMMA RowsKept == UNCHANGED rowVars => SameRows
BY DEF rowVars, SameRows, Descend

LEMMA SameRowsRest ==
  ASSUME SameRows
  PROVE  ObservationsKept /\ \A s : Rests(s)
BY DEF SameRows, ObservationsKept, Rests

LEMMA WorkedQuietly ==
  ASSUME NEW t \in Tasks, Owes(t), SameRows,
         \/ Left(t)
         \/ /\ tasks'[t].s = tasks[t].s /\ tasks'[t].step # "handoff"
            /\ EndingNext(t) => NewWork(tasks[t].s)
  PROVE  Worked(t)
<1>1. ObservationsKept /\ \A s : Rests(s)
  BY SameRowsRest
<1>2. tasks[t].kind # "fetch" => SessionWorkNext(tasks[t].s)
  BY <1>1, SessionRests DEF Owes
<1>3. NewWork(tasks[t].s) => NewWorkNext(tasks[t].s)
  BY DEF SameRows, NewWork, NewWorkNext
<1> QED
  BY <1>2, <1>3 DEF Worked, TaskWorkNext

\* An end that is under way stays under way.
LEMMA StillEnding ==
  ASSUME NEW t \in Tasks, Owes(t), Ending(t)
  PROVE  NewWork(tasks[t].s)
BY DEF Owes, TaskWork

LEMMA ScopeWorks ==
  ASSUME TypeInv, NEW t \in Tasks, Owes(t),
         StickyScope(t) \/ Lookup(t) \/ MakeWorkspace(t) \/ MakeProject(t) \/ Remember(t)
  PROVE  Worked(t)
<1>1. /\ tasks[t].kind = "end" /\ ~tasks[t].retried => AfterScope(t) = "disposition"
      /\ AfterScope(t) \in {"peek", "disposition", "begin"}
  BY DEF AfterScope
<1>2. Busy(t) /\ tasks[t].retried \in BOOLEAN /\ (tasks[t].step = "scope" => ~tasks[t].retried)
  BY BusyType DEF Owes, TypeInv, TaskType, Ranges, Fits
<1>3. ASSUME UNCHANGED rowVars, Same(t), SameTry(t),
             tasks[t].step \in {"scope", "lookup", "workspace", "project", "remember"},
             tasks'[t].step \in {"lookup", "workspace", "project", "remember", AfterScope(t)}
      PROVE  Worked(t)
  <2>1. SameRows /\ tasks'[t].s = tasks[t].s /\ tasks'[t].kind = tasks[t].kind /\ tasks'[t].retried = tasks[t].retried
    BY <1>3, RowsKept DEF Same, SameTry
  <2>2. tasks'[t].step # "handoff"
    BY <1>1, <1>3
  <2>3. ASSUME EndingNext(t) PROVE NewWork(tasks[t].s)
    <3>1. tasks[t].kind = "end" /\ tasks[t].retried
      BY <1>1, <1>2, <1>3, <2>1, <2>3 DEF EndingNext
    <3>2. Ending(t)
      BY <1>2, <1>3, <3>1 DEF Ending
    <3> QED
      BY <3>2, StillEnding
  <2> QED
    BY <2>1, <2>2, <2>3, WorkedQuietly
<1>4. CASE StickyScope(t)
  <2>1. /\ tasks[t].step = "scope" /\ Same(t) /\ SameTry(t) /\ tasks'[t].step \in {"lookup", AfterScope(t)} /\ Quiet
    BY <1>4, StickyScopeDoes DEF TypeInv
  <2> QED
    BY <1>3, <2>1 DEF Quiet
<1>5. CASE Lookup(t)
  <2>1. tasks[t].step = "lookup" /\ Same(t) /\ SameTry(t) /\ Quiet
    BY <1>5, LookupDoes DEF TypeInv
  <2>2. tasks'[t].step \in {"workspace", AfterScope(t)}
    BY <1>5, LookupDoes DEF TypeInv
  <2> QED
    BY <1>3, <2>1, <2>2 DEF Quiet
<1>6. CASE MakeWorkspace(t)
  <2>1. tasks[t].step = "workspace" /\ Same(t) /\ SameTry(t) /\ tasks'[t].step = "project" /\ RowsStay
    BY <1>6, MakeWorkspaceDoes
  <2> QED
    BY <1>3, <2>1 DEF RowsStay
<1>7. CASE MakeProject(t)
  <2>1. /\ tasks[t].step = "project" /\ RowsStay
        /\ Left(t) \/ (Same(t) /\ SameTry(t) /\ tasks'[t].step = "remember")
    BY <1>7, MakeProjectDoes
  <2>2. UNCHANGED rowVars
    BY <2>1 DEF RowsStay
  <2> QED
    BY <1>3, <2>1, <2>2, RowsKept, WorkedQuietly
<1>8. CASE Remember(t)
  <2>1. tasks[t].step = "remember" /\ Moved(t, AfterScope(t)) /\ Quiet
    BY <1>8, RememberDoes DEF TypeInv
  <2> QED
    BY <1>3, <2>1 DEF Quiet, Moved
<1> QED
  BY <1>4, <1>5, <1>6, <1>7, <1>8

LEMMA DispositionWorks ==
  ASSUME TypeInv, NEW t \in Tasks, Owes(t), Disposition(t)
  PROVE  Worked(t)
<1>1. Busy(t) /\ tasks[t].step = "disposition" /\ Quiet
  BY DispositionDoes DEF TypeInv
<1>2. tasks[t].s \in Sessions /\ tasks[t].kind # "fetch" /\ SameRows
  BY <1>1, EventTask, RowsKept DEF TypeInv, EventSteps, Quiet
<1>3. CASE Left(t)
  BY <1>2, <1>3, WorkedQuietly
<1>4. CASE Moved(t, "begin") /\ session_end_disposition(tasks[t].s, tasks[t].ws, tasks[t].proj) # "DropStale"
  <2>1. /\ sessions[tasks[t].s] # NULL
        /\ \/ sessions[tasks[t].s].ended = NULL
           \/ \E o \in observations : o.s = tasks[t].s /\ o.at > sessions[tasks[t].s].ended
    BY <1>4 DEF session_end_disposition
  <2>2. NewWork(tasks[t].s)
    <3>1. CASE sessions[tasks[t].s].ended = NULL
      BY <2>1, <3>1 DEF NewWork
    <3>2. CASE sessions[tasks[t].s].ended # NULL
      BY <1>2, <2>1, <3>2 DEF Owes, SessionWork, WorkSince
    <3> QED
      BY <3>1, <3>2
  <2> QED
    BY <1>2, <1>4, <2>2, WorkedQuietly DEF Moved, Same
<1> QED
  BY <1>3, <1>4, DispositionDoes DEF TypeInv

LEMMA LeavingWorks ==
  ASSUME TypeInv, NEW t \in Tasks, Owes(t), Peek(t) \/ Fails(t) \/ Dies(t) \/ Accept(t)
  PROVE  Worked(t)
<1>1. CASE Peek(t) \/ Fails(t) \/ Dies(t)
  <2>1. Quiet /\ (Left(t) \/ (Same(t) /\ tasks'[t].step = "accept"))
    BY <1>1, PeekDoes, LeavingDoes DEF TypeInv
  <2>2. SameRows
    BY <2>1, RowsKept DEF Quiet
  <2>3. tasks'[t].step = "accept" => ~EndingNext(t)
    BY DEF EndingNext
  <2> QED
    BY <2>1, <2>2, <2>3, WorkedQuietly DEF Same
<1>2. CASE Accept(t)
  <2>1. Left(t) /\ ((\E h \in handoffs : Settle(h, "accepted")) \/ UNCHANGED rowVars)
    BY <1>2, AcceptDoes DEF TypeInv
  <2>2. Kept
    BY <1>2, ProcessCarries DEF Process, Carries
  <2>3. SameRows
    BY <2>1, <2>2, SettledAlike DEF SameRows
  <2> QED
    BY <2>1, <2>3, WorkedQuietly
<1> QED
  BY <1>1, <1>2

LEMMA BeginWorks ==
  ASSUME TypeInv, NEW t \in Tasks, Owes(t), Begin(t)
  PROVE  Worked(t)
<1> DEFINE s == tasks[t].s
<1>1. Busy(t) /\ tasks[t].step = "begin"
  BY BeginDoes DEF TypeInv
<1>2. s \in Sessions /\ tasks[t].place.dir \in Dirs \cup {NULL} /\ tasks[t].kind # "fetch"
  BY <1>1, EventTask DEF TypeInv, EventSteps
<1>3. tasks[t].kind = "end" => NewWork(s)
  BY <1>1, StillEnding DEF Ending
<1>4. CASE UNCHANGED rowVars /\ Same(t) /\ tasks'[t].step \in {"lookup", "failed"}
  <2>1. SameRows /\ tasks'[t].s = s /\ tasks'[t].kind = tasks[t].kind
    BY <1>4, RowsKept DEF Same
  <2>2. EndingNext(t) => NewWork(s)
    BY <1>3, <2>1 DEF EndingNext
  <2> QED
    BY <1>4, <2>1, <2>2, WorkedQuietly
<1>5. CASE begin_session(s, tasks[t].ws, tasks[t].proj, tasks[t].place.dir) /\ Moved(t, "observe")
  <2>1. /\ sessions'[s] # NULL
        /\ sessions[s] # NULL => sessions'[s] = sessions[s]
        /\ sessions[s] = NULL => sessions'[s].ended = NULL
        /\ UNCHANGED <<observations, handoffs, clock>>
    BY <1>2, <1>5, SessionBegun DEF TypeInv
  <2>2. SessionWork(s)
    BY <1>2 DEF Owes
  <2>3. SessionWorkNext(s)
    <3>1. CASE sessions[s] = NULL
      <4>1. \A h \in handoffs : h.from # s
        BY <2>2, <3>1 DEF SessionWork, Ended
      <4> QED
        BY <2>1, <3>1, <4>1 DEF SessionWorkNext
    <3>2. CASE sessions[s] # NULL
      <4>1. Rests(s) /\ ObservationsKept
        BY <2>1, <3>2 DEF Rests, ObservationsKept, Descend
      <4> QED
        BY <1>2, <2>2, <4>1, SessionRests
    <3> QED
      BY <3>1, <3>2
  <2>4. TaskWorkNext(t)
    <3>1. tasks'[t].step = "observe" /\ tasks'[t].s = s /\ tasks'[t].kind = tasks[t].kind
      BY <1>5 DEF Moved, Same
    <3>2. NewWork(s) => NewWorkNext(s)
      BY <2>1 DEF NewWork, NewWorkNext
    <3> QED
      BY <1>3, <3>1, <3>2 DEF TaskWorkNext, EndingNext
  <2> QED
    BY <2>3, <2>4 DEF Worked
<1> QED
  BY <1>4, <1>5, BeginDoes DEF TypeInv, Moved

LEMMA ObserveWorks ==
  ASSUME TypeInv, NEW t \in Tasks, Owes(t), Observe(t)
  PROVE  Worked(t)
<1> DEFINE s == tasks[t].s
           work == tasks[t].kind # "end"
<1>1. Busy(t) /\ tasks[t].step = "observe"
  BY ObserveDoes DEF TypeInv
<1>2. s \in Sessions /\ tasks[t].kind # "fetch"
  BY <1>1, EventTask DEF TypeInv, EventSteps
<1>3. tasks[t].kind = "end" => NewWork(s)
  BY <1>1, StillEnding DEF Ending
<1>4. CASE UNCHANGED rowVars /\ Moved(t, "failed")
  <2>1. SameRows /\ tasks'[t].s = s /\ tasks'[t].step = "failed"
    BY <1>4, RowsKept DEF Moved, Same
  <2> QED
    BY <2>1, WorkedQuietly DEF EndingNext
<1>5. CASE insert_observation(s, tasks[t].ws, tasks[t].proj, work) /\ (Left(t) \/ Moved(t, "read"))
  <2>1. work \in BOOLEAN
    OBVIOUS
  <2>2. Observed(s, tasks[t].ws, tasks[t].proj, work)
    BY <1>2, <1>5, <2>1, ObservationInserted DEF TypeInv
  <2>3. /\ clock' = clock + 1 /\ clock \in Nat /\ sessions' = sessions /\ handoffs' = handoffs
        /\ observations \subseteq observations' /\ sessions[s] # NULL
    BY <2>2 DEF Observed, TypeInv, RowsTypeOK
  <2>4. sessions[s].ended \in 0..clock \cup {NULL} /\ NULL \notin Nat
    BY <1>2, <2>3, SessionRow, RowsAssumption DEF TypeInv
  <2>5. NewWorkNext(s)
    <3>1. CASE tasks[t].kind = "end"
      BY <1>3, <2>3, <3>1 DEF NewWork, NewWorkNext
    <3>2. CASE tasks[t].kind # "end"
      <4>1. PICK o \in observations' : o.at = clock' /\ o.s = s /\ o.work
        BY <2>2, <3>2 DEF Observed
      <4>2. sessions'[s].ended = NULL \/ o.at > sessions'[s].ended
        BY <2>3, <2>4, <4>1
      <4> QED
        BY <2>3, <4>1, <4>2 DEF NewWorkNext
    <3> QED
      BY <3>1, <3>2
  <2>6. SessionWorkNext(s)
    <3>1. \A h \in handoffs' : h.from = s => CoveredNext(s, h.covers)
      BY <1>2, <2>3 DEF Owes, SessionWork, Ended, CoveredNext
    <3>2. \A g, h \in handoffs' : g.from = s /\ h.from = s /\ g.at < h.at => FurtherNext(h.covers, g)
      BY <1>2, <2>3 DEF Owes, SessionWork, Further, FurtherNext
    <3> QED
      BY <2>5, <3>1, <3>2 DEF SessionWorkNext
  <2>7. Left(t) \/ TaskWorkNext(t)
    BY <1>5, <2>5 DEF Moved, Same, TaskWorkNext
  <2> QED
    BY <2>6, <2>7 DEF Worked
<1> QED
  BY <1>4, <1>5, ObserveDoes DEF TypeInv

LEMMA ReadingWorks ==
  ASSUME TypeInv, NEW t \in Tasks, Owes(t), ReadObservations(t) \/ WritePage(t)
  PROVE  Worked(t)
<1>1. /\ Busy(t) /\ tasks[t].step \in {"read", "page"} /\ UNCHANGED rowVars
      /\ Left(t) \/ (Same(t) /\ tasks'[t].step \in {"page", "close", "failed"})
  BY ReadObservationsDoes, WritePageDoes DEF TypeInv, Quiet, Moved
<1>2. SameRows
  BY <1>1, RowsKept
<1>3. ASSUME Same(t), EndingNext(t) PROVE NewWork(tasks[t].s)
  <2>1. Ending(t)
    BY <1>1, <1>3 DEF Same, Ending, EndingNext
  <2> QED
    BY <2>1, StillEnding
<1> QED
  BY <1>1, <1>2, <1>3, WorkedQuietly DEF Same

\* All that was observed in the session is read: also the work since its end,
\* which no handoff of it covers.
LEMMA CloseWorks ==
  ASSUME TypeInv, NEW t \in Tasks, Owes(t), Close(t)
  PROVE  Worked(t)
<1> DEFINE s == tasks[t].s
           seen == tasks[t].seen
<1>1. Busy(t) /\ tasks[t].step = "close"
  BY CloseDoes DEF TypeInv
<1>2. s \in Sessions /\ tasks[t].kind = "end" /\ seen \subseteq 1..clock /\ clock \in Nat
  BY <1>1, EventTask, BusyType DEF TypeInv, EventSteps, TaskType, Fits, RowsTypeOK
<1>3. Read(t) /\ NewWork(s) /\ SessionWork(s)
  BY <1>1, <1>2, StillEnding DEF Owes, ReadTask, Ending
<1>4. CASE UNCHANGED rowVars /\ Moved(t, "failed")
  <2>1. SameRows /\ tasks'[t].s = s /\ tasks'[t].step = "failed"
    BY <1>4, RowsKept DEF Moved, Same
  <2> QED
    BY <2>1, WorkedQuietly DEF EndingNext
<1>5. CASE end_session(s, tasks[t].proj) /\ Moved(t, "handoff")
  <2>1. /\ sessions[s] # NULL /\ sessions'[s] # NULL /\ sessions'[s].ended = clock
        /\ UNCHANGED <<observations, handoffs, clock>>
    BY <1>2, <1>3, <1>5, SessionEnded DEF TypeInv, NewWork
  <2>2. clock # NULL
    BY <1>2, RowsAssumption
  <2>3. sessions[s].ended \in 0..clock \cup {NULL}
    BY <1>2, <2>1, SessionRow DEF TypeInv
  <2>4. \A o \in observations : o.at \in 1..clock
    BY DEF TypeInv, RowsTypeOK
  <2>5. \A h \in handoffs : h.covers \subseteq 1..clock
    BY DEF TypeInv, RowsTypeOK
  <2>6. ASSUME NEW g \in handoffs, g.from = s PROVE Further(seen, g)
    <3>1. sessions[s].ended # NULL /\ \A i \in g.covers : i <= sessions[s].ended
      BY <1>3, <2>6 DEF SessionWork, Ended
    <3>2. PICK o \in observations : o.s = s /\ o.work /\ o.at > sessions[s].ended
      BY <1>3, <3>1 DEF NewWork
    <3>3. o.at \in seen
      BY <1>3, <3>2 DEF Read
    <3>4. o.at \notin g.covers
      BY <1>2, <2>3, <2>4, <3>1, <3>2
    <3> QED
      BY <3>2, <3>3, <3>4 DEF Further
  <2>7. ASSUME NEW covers \in SUBSET (1..clock) PROVE CoveredNext(s, covers)
    <3>1. sessions'[s] # NULL /\ sessions'[s].ended = clock
      BY <2>1
    <3>2. \A i \in covers : i <= clock
      BY <1>2
    <3> HIDE DEF s
    <3> QED
      BY <2>2, <3>1, <3>2 DEF CoveredNext
  <2>8. SessionWorkNext(s)
    <3>1. \A o \in observations' : ~(o.at > sessions'[s].ended)
      BY <1>2, <2>1, <2>4
    <3>2. \A h \in handoffs' : CoveredNext(s, h.covers)
      BY <2>1, <2>5, <2>7
    <3>3. \A g, h \in handoffs' : g.from = s /\ h.from = s /\ g.at < h.at => FurtherNext(h.covers, g)
      BY <1>3, <2>1 DEF SessionWork, Further, FurtherNext
    <3> QED
      BY <3>1, <3>2, <3>3 DEF SessionWorkNext
  <2>9. TaskWorkNext(t)
    <3>1. tasks'[t].step = "handoff" /\ tasks'[t].s = s /\ tasks'[t].seen = seen
      BY <1>5 DEF Moved, Same, SameRead
    <3>2. CoveredNext(s, seen)
      BY <1>2, <2>7
    <3>3. \A g \in handoffs' : g.from = s => FurtherNext(seen, g)
      BY <2>1, <2>6 DEF Further, FurtherNext
    <3>4. ~EndingNext(t)
      BY <3>1 DEF EndingNext
    <3> QED
      BY <3>1, <3>2, <3>3, <3>4 DEF TaskWorkNext
  <2> QED
    BY <2>8, <2>9 DEF Worked
<1> QED
  BY <1>4, <1>5, CloseDoes DEF TypeInv

LEMMA AutoHandoffWorks ==
  ASSUME TypeInv, NEW t \in Tasks, Owes(t), AutoHandoff(t)
  PROVE  Worked(t)
<1> DEFINE s == tasks[t].s
           seen == tasks[t].seen
<1>1. Busy(t) /\ tasks[t].step = "handoff"
  BY AutoHandoffDoes DEF TypeInv
<1>2. /\ s \in Sessions /\ tasks[t].kind # "fetch" /\ seen \in SUBSET (1..clock) /\ clock \in Nat
      /\ tasks[t].place.dir \in Dirs \cup {NULL} /\ s # NULL
  BY <1>1, EventTask, BusyType, RowsAssumption DEF TypeInv, EventSteps, TaskType, Fits, RowsTypeOK
<1>3. CASE UNCHANGED rowVars /\ Moved(t, "failed")
  <2>1. SameRows /\ tasks'[t].s = s /\ tasks'[t].step = "failed"
    BY <1>3, RowsKept DEF Moved, Same
  <2> QED
    BY <2>1, WorkedQuietly DEF EndingNext
<1>4. CASE insert_handoff(tasks[t].ws, tasks[t].proj, s, tasks[t].place.dir, seen) /\ Left(t)
  <2>1. HandedOver(tasks[t].ws, tasks[t].proj, s, seen)
    BY <1>2, <1>4, HandoffInserted DEF TypeInv
  <2>2. /\ clock' = clock + 1 /\ sessions' = sessions /\ observations' = observations
        /\ \A h \in handoffs' : h \in handoffs \/ (h.at = clock' /\ h.from = s /\ h.covers = seen)
    BY <2>1 DEF HandedOver
  <2>3. SessionWork(s) /\ TaskWork(t)
    BY <1>2 DEF Owes
  <2>4. \A h \in handoffs : h.at \in 1..clock
    BY DEF TypeInv, RowsTypeOK
  <2>5. \A o \in observations' : o.s = s /\ sessions'[s] # NULL /\ sessions'[s].ended # NULL
            /\ o.at > sessions'[s].ended => NewWorkNext(s)
    BY <2>2, <2>3 DEF SessionWork, WorkSince, NewWork, NewWorkNext
  <2>6. \A h \in handoffs' : h.from = s => CoveredNext(s, h.covers)
    BY <1>1, <2>2, <2>3 DEF SessionWork, TaskWork, Ended, CoveredNext
  <2>7. ASSUME NEW g \in handoffs', NEW h \in handoffs', g.from = s, h.from = s, g.at < h.at
        PROVE  FurtherNext(h.covers, g)
    <3>1. g \in handoffs
      BY <1>2, <2>2, <2>4, <2>7
    <3>2. CASE h \in handoffs
      BY <2>2, <2>3, <2>7, <3>1, <3>2 DEF SessionWork, Further, FurtherNext
    <3>3. CASE h.covers = seen
      BY <1>1, <2>2, <2>3, <2>7, <3>1, <3>3 DEF TaskWork, Further, FurtherNext
    <3> QED
      BY <2>2, <3>2, <3>3
  <2> QED
    BY <1>4, <2>5, <2>6, <2>7 DEF Worked, SessionWorkNext
<1> QED
  BY <1>3, <1>4, AutoHandoffDoes DEF TypeInv

LEMMA ProcessWorks ==
  ASSUME TypeInv, NEW t \in Tasks, Owes(t), Process(t)
  PROVE  Worked(t)
BY ScopeWorks, DispositionWorks, LeavingWorks, BeginWorks, ObserveWorks, ReadingWorks, CloseWorks, AutoHandoffWorks
   DEF Process

LEMMA UntouchedRests ==
  ASSUME NEW s \in Sessions, Untouched(s)
  PROVE  Rests(s)
BY DEF Untouched, Rests

LEMMA GrowsKeeps == Grows => ObservationsKept
BY DEF Grows, ObservationsKept

LEMMA ProcessWork ==
  ASSUME SerialInv, serial, WorkOK, NEW t \in Tasks, Process(t)
  PROVE  WorkOK'
<1>1. /\ Busy(t) /\ (Same(t) \/ Left(t)) /\ TypeInv' /\ ObservationsKept
      /\ \A x \in Sessions : (Works(t) => tasks[t].s # x) => Rests(x)
  BY ProcessCarries, UntouchedRests, GrowsKeeps DEF Carries, SerialInv
<1>2. Others(t)
  BY <1>1 DEF Same, Left
<1>3. tasks[t].kind # "fetch" => tasks[t].s \in Sessions
  BY <1>1, BusyType DEF SerialInv, TypeInv, TaskType, Ranges
<1>4. Owes(t)
  BY <1>1, <1>3, ReadEach, WorkEach DEF SerialInv, Owes
<1>5. Worked(t)
  BY <1>4, ProcessWorks DEF SerialInv
<1>6. ASSUME NEW x \in Sessions PROVE SessionWorkNext(x)
  <2>1. CASE Works(t) /\ tasks[t].s = x
    BY <1>5, <2>1 DEF Worked, Works
  <2>2. CASE Works(t) => tasks[t].s # x
    BY <1>1, <2>2, WorkEach, SessionRests
  <2> QED
    BY <2>1, <2>2
<1>7. ASSUME NEW u \in Tasks, tasks'[u] # Idle PROVE TaskWorkNext(u)
  <2>1. CASE u = t
    BY <1>5, <1>7, <2>1 DEF Worked, Left
  <2>2. CASE u # t
    <3>1. StandsOn(u) /\ TaskWork(u) /\ Busy(u)
      BY <1>2, <1>7, <2>2, WorkEach DEF Others, StandsOn, Stands, Busy, SameScope, SameRead, SameTry
    <3>2. ASSUME Ending(u) \/ tasks[u].step = "handoff" PROVE Rests(tasks[u].s)
      <4>1. TaskType(tasks[u])
        BY <3>1, BusyType DEF SerialInv, TypeInv
      <4>2. tasks[u].kind # "fetch" /\ tasks[u].s \in Sessions
        BY <3>2, <4>1 DEF Ending, TaskType, Fits, Ranges
      <4>3. Works(t) => tasks[t].s # tasks[u].s
        BY <2>2, <3>1, <4>2 DEF SerialInv, Alone, Works
      <4> QED
        BY <1>1, <4>2, <4>3
    <3> QED
      BY <1>1, <3>1, <3>2, TaskRests
  <2> QED
    BY <2>1, <2>2
<1> QED
  BY <1>1, <1>6, <1>7, WorkThen DEF TypeInv

\* A step after which all requests stand and all sessions rest.
AllStandOn == \A t \in Tasks : tasks'[t] # Idle => StandsOn(t)

LEMMA AllRest ==
  ASSUME TypeInv, TypeInv', WorkOK, AllStandOn, ObservationsKept, \A s \in Sessions : Rests(s)
  PROVE  WorkOK'
<1>1. \A s \in Sessions : SessionWorkNext(s)
  BY WorkEach, SessionRests
<1>2. ASSUME NEW t \in Tasks, tasks'[t] # Idle PROVE TaskWorkNext(t)
  <2>1. StandsOn(t) /\ Busy(t) /\ TaskWork(t)
    BY <1>2, WorkEach DEF AllStandOn, StandsOn, Stands
  <2>2. TaskType(tasks[t])
    BY <2>1, BusyType DEF TypeInv
  <2>3. Ending(t) \/ tasks[t].step = "handoff" => tasks[t].s \in Sessions
    BY <2>2 DEF Ending, TaskType, Fits, Ranges
  <2> QED
    BY <2>1, <2>3, TaskRests
<1> QED
  BY <1>1, <1>2, WorkThen DEF TypeInv

LEMMA UnsettledStandOn == Unsettled => AllStandOn
BY DEF Unsettled, AllStandOn, StandsOn, Stands, SameTry

LEMMA StillStandOn == UNCHANGED tasks => AllStandOn
BY DEF AllStandOn, StandsOn, Stands, SameScope, SameRead, SameTry, Busy

\* Where no project was purged nothing was lost.
LEMMA AdministersRests ==
  ASSUME NEW ps, Administers(ps), NoGoneNext
  PROVE  ObservationsKept /\ \A s \in Sessions : Rests(s)
<1>1. ps = {} /\ SessionsLess(ps) /\ ObservationsLess /\ HandoffsLess /\ NothingLost
  BY DEF Administers, Lost, NoGoneNext
<1>2. ObservationsKept
  BY <1>1 DEF NothingLost, SameObservations, ObservationsKept
<1>3. ASSUME NEW s \in Sessions PROVE Rests(s)
  <2>1. /\ sessions[s] = NULL <=> sessions'[s] = NULL
        /\ sessions[s] # NULL => sessions'[s].ended = sessions[s].ended
    BY <1>1 DEF SessionsLess, NothingLost
  <2>2. \A o \in observations' : o.s = s => \E x \in observations : x.at = o.at /\ x.s = s
    BY <1>1 DEF ObservationsLess
  <2>3. \A h \in handoffs' : h.from = s => \E g \in handoffs : Descend(h, g) /\ g.from = s
    BY <1>1, RowsAssumption DEF HandoffsLess
  <2> QED
    BY <2>1, <2>2, <2>3 DEF Rests
<1> QED
  BY <1>2, <1>3

LEMMA NoneGoneBefore ==
  ASSUME Sticks, NoGoneNext
  PROVE  NoGone
BY DEF Sticks, NoGoneNext, NoGone

WorkInv == SerialInv /\ HandoffsOK

LEMMA AdministersWork ==
  ASSUME WorkInv, serial, NoGoneNext, TypeInv', AllStandOn, NEW ps, Administers(ps)
  PROVE  WorkOK'
<1>1. NoGone
  BY NoneGoneBefore DEF Administers
<1>2. ObservationsKept /\ \A s \in Sessions : Rests(s)
  BY AdministersRests
<1> QED
  BY <1>1, <1>2, AllRest DEF WorkInv, SerialInv, HandoffsOK

LEMMA SameRowsWork ==
  ASSUME WorkInv, serial, NoGoneNext, Kept, TypeInv', AllStandOn, sessions' = sessions, observations' = observations,
         \A h \in handoffs' : h.from # NULL => \E g \in handoffs : Descend(h, g) /\ h.from = g.from
  PROVE  WorkOK'
<1>1. NoGone
  BY KeptSticks, NoneGoneBefore
<1>2. ObservationsKept /\ \A s \in Sessions : Rests(s)
  BY RowsAssumption DEF ObservationsKept, Rests
<1> QED
  BY <1>1, <1>2, AllRest DEF WorkInv, SerialInv, HandoffsOK

\* A request that comes has nothing done yet.
LEMMA ArrivedWork ==
  ASSUME WorkInv, serial, NoGoneNext, NEW t \in Tasks, Arrived(t)
  PROVE  WorkOK'
<1>1. /\ TypeInv' /\ Kept /\ SameRows
      /\ Others(t) /\ tasks'[t].step \in {"scope", "lookup", "peek"} /\ ~tasks'[t].retried
  BY RowsKept DEF Arrived, Quiet, Begun
<1>2. WorkOK /\ TypeInv
  BY <1>1, KeptSticks, NoneGoneBefore DEF WorkInv, SerialInv, HandoffsOK
<1>3. ObservationsKept /\ \A s : Rests(s)
  BY <1>1, SameRowsRest
<1>4. \A s \in Sessions : SessionWorkNext(s)
  BY <1>2, <1>3, WorkEach, SessionRests
<1>5. ASSUME NEW u \in Tasks, tasks'[u] # Idle PROVE TaskWorkNext(u)
  <2>1. CASE u = t
    BY <1>1, <2>1 DEF TaskWorkNext, EndingNext
  <2>2. CASE u # t
    <3>1. StandsOn(u) /\ Busy(u)
      BY <1>1, <1>5, <2>2 DEF Others, StandsOn, Stands, Busy, SameScope, SameRead, SameTry
    <3> QED
      BY <1>2, <1>3, <3>1, WorkEach, TaskRests
  <2> QED
    BY <2>1, <2>2
<1> QED
  BY <1>1, <1>4, <1>5, WorkThen DEF TypeInv

LEMMA NextWork ==
  ASSUME WorkInv, [Next]_ingestVars
  PROVE  HandoffsOK'
<1> SUFFICES ASSUME serial', NoGone' PROVE WorkOK'
  BY DEF HandoffsOK
<1>1. NoGoneNext
  BY DEF NoGone, NoGoneNext
<1>2. CASE UNCHANGED ingestVars
  <2>1. /\ TypeInv' /\ Kept /\ sessions' = sessions /\ observations' = observations /\ handoffs' = handoffs
        /\ serial' = serial /\ tasks' = tasks
    BY <1>2, StutterStays DEF WorkInv, SerialInv
  <2>2. \A h \in handoffs' : h.from # NULL => \E g \in handoffs : Descend(h, g) /\ h.from = g.from
    BY <2>1 DEF Descend
  <2> QED
    BY <1>1, <2>1, <2>2, StillStandOn, SameRowsWork
<1>3. CASE Handed
  <2>1. /\ TypeInv' /\ Kept /\ sessions' = sessions /\ observations' = observations /\ serial' = serial /\ tasks' = tasks
        /\ \A h \in handoffs' : h.from # NULL => \E g \in handoffs : Descend(h, g) /\ h.from = g.from
    BY <1>3 DEF Handed, ScopesStay
  <2> QED
    BY <1>1, <2>1, StillStandOn, SameRowsWork
<1>4. CASE Reorganised \/ Finished
  <2>1. TypeInv' /\ UNCHANGED tasks /\ UNCHANGED serial /\ \E ps \in SUBSET ProjectIds : Administers(ps)
    BY <1>4 DEF Reorganised, Finished, Settles
  <2> QED
    BY <1>1, <2>1, StillStandOn, AdministersWork
<1>5. ASSUME NEW plan, Committed(plan) PROVE WorkOK'
  <2>1. TypeInv' /\ Unsettled /\ UNCHANGED serial /\ \E ps \in SUBSET ProjectIds : Administers(ps)
    BY <1>5 DEF Committed
  <2> QED
    BY <1>1, <2>1, UnsettledStandOn, AdministersWork
<1>6. ASSUME NEW t \in Tasks, Arrived(t) PROVE WorkOK'
  <2>1. serial' = serial
    BY <1>6 DEF Arrived, Quiet
  <2> QED
    BY <1>1, <1>6, <2>1, ArrivedWork
<1>7. ASSUME NEW t \in Tasks, Process(t) PROVE WorkOK'
  <2>1. serial' = serial /\ Kept
    BY <1>7, ProcessCarries DEF Carries, WorkInv, SerialInv
  <2>2. WorkOK
    BY <1>1, <2>1, KeptSticks, NoneGoneBefore DEF WorkInv, HandoffsOK
  <2> QED
    BY <1>7, <2>1, <2>2, ProcessWork DEF WorkInv
<1>8. CASE Next
  BY <1>3, <1>4, <1>5, <1>6, <1>7, <1>8, NextDoes DEF WorkInv, SerialInv, Planned
<1> QED
  BY <1>2, <1>8

\* OneHandoffPerWork: repeated, retried or late ends of a session leave one
\* handoff for each stretch of work in it, as long as no project was purged.
THEOREM HandoffsArePerWork == Spec => []OneHandoffPerWork
<1>1. Init => WorkInv
  <2>1. Init => Alone /\ ReadOK /\ EndedSummarised
    BY DEF Init, RowsInit, Alone, ReadOK, EndedSummarised, Works, Busy, At
  <2>2. Init => HandoffsOK
    BY DEF Init, RowsInit, HandoffsOK, WorkOK, WorkSince, Ending, At, Busy
  <2> QED
    BY <2>1, <2>2, InitTypes DEF WorkInv, SerialInv
<1>2. WorkInv /\ [Next]_ingestVars => WorkInv'
  BY NextTypes, NextSerial, NextWork DEF WorkInv, SerialInv
<1>3. WorkInv => OneHandoffPerWork
  BY DEF WorkInv, HandoffsOK, WorkOK, NoGone, Further, OneHandoffPerWork
<1> QED
  BY <1>1, <1>2, <1>3, PTL DEF Spec
=============================================================================
