--------------------------- MODULE MemorySessions ---------------------------
(***************************************************************************)
(* Sessions, observations and handoffs of the memory server's database:    *)
(* ai-memory-store/src/ops.rs for the writes, reader.rs for the queries.   *)
(*                                                                         *)
(* Every row names a workspace and a project; triggers refuse an insertion *)
(* whose pair is not sound, foreign keys take the rows with what they      *)
(* depend on.                                                              *)
(***************************************************************************)
EXTENDS MemoryScopes

CONSTANTS
    Sessions,       \* session ids
    Dirs,           \* directories events come from
    Within,         \* pairs <<a, d>>: directory d is a or lies in it
    TooBroad,       \* the root and the home directory
    Length(_)       \* the length of a directory's path, 0 for NULL

SessionRows == [ws : WorkspaceIds, proj : ProjectIds, dir : Dirs \cup {NULL},
                ended : Nat \cup {NULL}, page : ProjectIds \cup {NULL}]

ASSUME RowsAssumption ==
    NULL \notin SessionRows /\ NULL \notin Sessions /\ NULL \notin Nat

VARIABLES
    sessions,       \* id -> NULL or [ws, proj, dir, ended, page]
    observations,   \* set of [at, s, ws, proj, work]
    handoffs,       \* set of [at, ws, proj, from, dir, covers, state]
    clock           \* ticks with every row that is dated: created_at, ended_at

rowVars == <<sessions, observations, handoffs, clock>>
storeVars == <<scopeVars, rowVars>>

RowsInit ==
    /\ sessions = [s \in Sessions |-> NULL]
    /\ observations = {} /\ handoffs = {} /\ clock = 0

-----------------------------------------------------------------------------
(* Queries.                                                                *)

\* Mutant: only what was attributed to the session's present project.
ObservationsInProject(s) ==
    {o.at : o \in {x \in observations : x.s = s /\ x.proj = sessions[s].proj}}

observations_for_session(s) == {o.at : o \in {x \in observations : x.s = s}}

\* Mutant: an ended session is ended again.
DispositionAgain(s, w, p) ==
    IF sessions[s] = NULL \/ sessions[s].ws # w \/ sessions[s].proj # p THEN "DropStale"
    ELSE IF sessions[s].ended = NULL THEN "Open" ELSE "ReEndWithNewWork"

\* What a SessionEnd means: nothing for a session that is unknown, in another
\* scope, or ended with no observation since.
session_end_disposition(s, w, p) ==
    LET row == sessions[s] IN
    IF row = NULL \/ row.ws # w \/ row.proj # p THEN "DropStale"
    ELSE IF row.ended = NULL THEN "Open"
    ELSE IF \E o \in observations : o.s = s /\ o.at > row.ended THEN "ReEndWithNewWork"
    ELSE "DropStale"

\* The scope of a session, for an event from inside its directory; a session
\* rooted at the root or at home holds nothing together.
find_session_scope(s, dir) ==
    LET row == sessions[s] IN
    IF /\ row # NULL /\ row.dir # NULL /\ row.dir \notin TooBroad
       /\ dir = NULL \/ <<row.dir, dir>> \in Within
    THEN <<row.ws, row.proj>> ELSE NULL

\* The project whose repository holds the directory, the innermost of several.
find_project_by_cwd_prefix(w, dir) ==
    LET holding == {p \in ProjectsOf(w) : /\ projects[p].repo \notin TooBroad \cup {NULL}
                                          /\ <<projects[p].repo, dir>> \in Within}
    IN {p \in holding : \A q \in holding : <<projects[q].repo, projects[p].repo>> \in Within}

\* A manual handoff is for everyone, an automatic one for sessions at or
\* below its directory.
is_handoff_candidate(h, dir) ==
    h.from = NULL \/ dir = NULL \/ h.dir = NULL \/ <<h.dir, dir>> \in Within

\* Manual before automatic, then the more specific directory, then the newer.
Preferred(g, h) ==
    LET specificity(x) == IF x.from = NULL THEN 0 ELSE Length(x.dir) IN
    IF (g.from = NULL) # (h.from = NULL) THEN g.from = NULL
    ELSE IF specificity(g) # specificity(h) THEN specificity(g) > specificity(h)
    ELSE g.at >= h.at

latest_open_handoff(w, p, dir) ==
    LET open == {h \in handoffs : /\ h.ws = w /\ h.proj = p /\ h.state = "open"
                                  /\ is_handoff_candidate(h, dir)}
    IN {h \in open : \A g \in open : Preferred(h, g)}

-----------------------------------------------------------------------------
(* Writes.                                                                 *)

\* An existing row is kept; the pair is checked even then.
begin_session(s, w, p, dir) ==
    /\ ProjectInWorkspace(w, p)
    /\ sessions' = IF sessions[s] # NULL THEN sessions
                   ELSE [sessions EXCEPT ![s] = [ws |-> w, proj |-> p, dir |-> dir, ended |-> NULL, page |-> NULL]]
    /\ UNCHANGED <<observations, handoffs, clock>>

insert_observation(s, w, p, work) ==
    /\ sessions[s] # NULL /\ ProjectInWorkspace(w, p)
    /\ clock' = clock + 1
    /\ observations' = observations \cup {[at |-> clock', s |-> s, ws |-> w, proj |-> p, work |-> work]}
    /\ UNCHANGED <<sessions, handoffs>>

\* Without a row nothing is updated and nothing is said.
end_session(s, page) ==
    /\ sessions[s] # NULL => page \in LiveProjects
    /\ sessions' = IF sessions[s] = NULL THEN sessions
                   ELSE [sessions EXCEPT ![s] = [@ EXCEPT !.ended = clock, !.page = page]]
    /\ UNCHANGED <<observations, handoffs, clock>>

\* The session a handoff comes from must exist.
insert_handoff(w, p, from, dir, covers) ==
    /\ ProjectInWorkspace(w, p)
    /\ from # NULL => sessions[from] # NULL
    /\ clock' = clock + 1
    /\ handoffs' = handoffs \cup {[at |-> clock', ws |-> w, proj |-> p, from |-> from,
                                   dir |-> dir, covers |-> covers, state |-> "open"]}
    /\ UNCHANGED <<sessions, observations>>

\* Only an open handoff is settled; another one is left as it is, silently.
Settle(h, state) ==
    /\ handoffs' = {IF x.at = h.at /\ x.state = "open" THEN [x EXCEPT !.state = state] ELSE x : x \in handoffs}
    /\ UNCHANGED <<sessions, observations, clock>>

accept_handoff(h) == Settle(h, "accepted")
cancel_handoff(h) == Settle(h, "expired")

\* The rows that go with the projects in ps: theirs, and the observations of
\* their sessions. A handoff elsewhere forgets the session it came from.
DropRows(ps) ==
    LET gone == {s \in Sessions : sessions[s] # NULL /\ sessions[s].proj \in ps} IN
    /\ sessions' = [s \in Sessions |->
           IF s \in gone THEN NULL
           ELSE IF sessions[s] # NULL /\ sessions[s].page \in ps THEN [sessions[s] EXCEPT !.page = NULL]
           ELSE sessions[s]]
    /\ observations' = {o \in observations : o.proj \notin ps /\ o.s \notin gone}
    /\ handoffs' = {IF h.from \in gone THEN [h EXCEPT !.from = NULL] ELSE h
                       : h \in {x \in handoffs : x.proj \notin ps}}
    /\ UNCHANGED clock

\* Mutant: the handoffs stay behind.
RestampWithoutHandoffs(p, w) ==
    /\ sessions' = [s \in Sessions |->
           IF sessions[s] # NULL /\ sessions[s].proj = p THEN [sessions[s] EXCEPT !.ws = w] ELSE sessions[s]]
    /\ observations' = {IF o.proj = p THEN [o EXCEPT !.ws = w] ELSE o : o \in observations}
    /\ UNCHANGED <<handoffs, clock>>

\* A project that moves takes its rows along.
RestampRows(p, w) ==
    /\ sessions' = [s \in Sessions |->
           IF sessions[s] # NULL /\ sessions[s].proj = p THEN [sessions[s] EXCEPT !.ws = w] ELSE sessions[s]]
    /\ observations' = {IF o.proj = p THEN [o EXCEPT !.ws = w] ELSE o : o \in observations}
    /\ handoffs' = {IF h.proj = p THEN [h EXCEPT !.ws = w] ELSE h : h \in handoffs}
    /\ UNCHANGED clock

\* Sessions given to another project of their workspace, with what was
\* observed in them in that workspace. Nothing asks which workspace the project
\* is in: the pairing triggers look at insertions only.
reorg_sessions(w, p, moved) ==
    /\ p \in LiveProjects
    /\ sessions' = [s \in Sessions |->
           IF s \in moved /\ sessions[s] # NULL /\ sessions[s].ws = w
           THEN [sessions[s] EXCEPT !.proj = p] ELSE sessions[s]]
    /\ observations' = {IF o.s \in moved /\ o.ws = w THEN [o EXCEPT !.proj = p] ELSE o : o \in observations}
    /\ UNCHANGED <<handoffs, clock>>

-----------------------------------------------------------------------------
RowsTypeOK ==
    /\ clock \in Nat /\ sessions \in [Sessions -> SessionRows \cup {NULL}]
    /\ \A s \in Sessions : sessions[s] # NULL => sessions[s].ended \in 0..clock \cup {NULL}
    /\ observations \subseteq [at : 1..clock, s : Sessions, ws : WorkspaceIds, proj : ProjectIds, work : BOOLEAN]
    /\ handoffs \subseteq [at : 1..clock, ws : WorkspaceIds, proj : ProjectIds, from : Sessions \cup {NULL},
                           dir : Dirs \cup {NULL}, covers : SUBSET (1..clock), state : {"open", "accepted", "expired"}]

\* "(workspace_id, project_id) pairing invariant" (V20 migration): every row is
\* of a project that exists and names the workspace that project is in, after
\* any purge, move, merge and reorganisation; an observation's session exists.
\* The triggers only look at insertions.
ScopesPaired ==
    /\ \A s \in Sessions : sessions[s] # NULL => ProjectInWorkspace(sessions[s].ws, sessions[s].proj)
    /\ \A o \in observations : ProjectInWorkspace(o.ws, o.proj) /\ sessions[o.s] # NULL
    /\ \A h \in handoffs : ProjectInWorkspace(h.ws, h.proj) /\ (h.from # NULL => sessions[h.from] # NULL)
=============================================================================
