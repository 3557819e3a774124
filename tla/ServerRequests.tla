----------------------------- MODULE ServerRequests -----------------------------
(***************************************************************************)
(* What the requests of the server share: its pool of readers and the rows *)
(* they make of what is stored (ai-memory-store/src/reader.rs), the tools  *)
(* of maintenance and of handoffs (ai-memory-mcp/src/server.rs), and the   *)
(* roads of administration (ai-memory-mcp/src/admin.rs) not in MemoryTools, *)
(* ServerAccess and PageRoads.                                             *)
(*                                                                         *)
(* What may be missing is a set of at most one. Times and sizes are        *)
(* numbers.                                                                *)
(***************************************************************************)
EXTENDS Naturals, Integers, Sequences, FiniteSets, FiniteSetsExt, SequencesExt, Functions

Floor(a, b) == IF a > b THEN a - b ELSE 0
The(option, default) == IF option = {} THEN default ELSE CHOOSE x \in option : TRUE

-----------------------------------------------------------------------------
(* The pool: idle connections, of which no more than a number are kept.    *)

checkout(idle) == IF idle > 0 THEN [idle |-> idle - 1, opened |-> 0] ELSE [idle |-> 0, opened |-> 1]
checkin(idle, cap) == IF idle < Max({cap, 1}) THEN idle + 1 ELSE idle

\* Two uses at once, in the order their connections are taken and given back; one that panics
\* gives nothing back.
with_conn(idle, cap, outcomes) ==
    LET taken == FoldLeft(LAMBDA pool, o : [idle |-> checkout(pool.idle).idle, opened |-> pool.opened + checkout(pool.idle).opened],
                          [idle |-> idle, opened |-> 0], outcomes)
    IN [idle |-> FoldLeft(LAMBDA i, o : IF o = "panics" THEN i ELSE checkin(i, cap), taken.idle, outcomes),
        opened |-> taken.opened,
        results |-> [i \in DOMAIN outcomes |-> IF outcomes[i] = "panics" THEN "pool panic" ELSE outcomes[i]]]

-----------------------------------------------------------------------------
(* Rows: one that cannot be read fails the whole list.                     *)

Newest(rows, time) == SetToSortSeq(rows, LAMBDA a, b : a[time] > b[time] \/ (a[time] = b[time] /\ a.id > b.id))
Limited(rows, limit) == SubSeq(rows, 1, Min({Len(rows), limit}))

open_sessions_for_scope_agent(sessions, scope, agent, limit) ==
    LET open == Newest({s \in sessions : s.scope = scope /\ s.agent = agent /\ s.ended = {}}, "started")
    IN [i \in DOMAIN Limited(open, Max({The(limit, Len(open)), 1})) |-> [session_id |-> open[i].id, cwd |-> open[i].cwd]]

session_project_ids(sessions, id) == {s.scope : s \in {t \in sessions : t.id = id}}

handoff_by_id(handoffs, id) == {h \in handoffs : h.id = id}

latest_open_handoff_for_workspace(handoffs, workspace) ==
    ToSet(Limited(Newest({h \in handoffs : h.workspace = workspace /\ h.state = "open"}, "created"), 1))

workspace_name_by_id(workspaces, id) == {w.name : w \in {v \in workspaces : v.id = id}}
project_name_by_id(projects, workspace, id) == {p.name : p \in {q \in projects : q.id = id /\ q.workspace = workspace}}

\* The words of a query are looked for in the observations of one project, the best first.
search_observations_for_project(observations, scope, words, limit) ==
    LET hits == {o \in observations : o.scope = scope /\ words \subseteq o.words}
    IN IF words = {} THEN <<>> ELSE Limited(SetToSortSeq(hits, LAMBDA a, b : a.rank < b.rank), limit)

TargetTables == <<"workspaces", "projects", "pages", "links", "page_embeddings", "sessions", "observations",
                  "handoffs", "users", "audit_log">>
reindex_target_status(db) == [t \in Range(TargetTables) |-> Cardinality(db[t])]
is_clean(status) == \A t \in DOMAIN status : status[t] = 0
nonzero_summary(status) == SelectSeq(TargetTables, LAMBDA t : status[t] # 0)

\* The author of a page is known by a user's name only.
page_meta_from_row(row) ==
    IF ~row.ids THEN {} ELSE {[path |-> row.path, pinned |-> row.pinned # 0, updated_at |-> row.updated_at, author |-> row.author]}

Clamp(n, low, high) == Min({Max({n, low}), high})
materialise_observation(row, kinds) ==
    IF row.ids /\ row.kind \in kinds /\ row.time_ok
    THEN {[kind |-> row.kind, importance |-> Clamp(row.importance, 1, 10)]} ELSE {}

materialise_decay_candidate(row, tiers) ==
    IF row.ids /\ row.path_ok /\ row.tier \in tiers
    THEN {[tier |-> row.tier, pinned |-> row.pinned # 0, access_count |-> Max({row.access_count, 0})]} ELSE {}

\* A vector of another size than the one expected is an error, never cut or filled.
bytes_to_f32_vec(bytes, dim) == IF Len(bytes) = dim THEN {bytes} ELSE {}
dot_embedding_bytes(query, bytes, dim) ==
    IF Len(query) # dim \/ Len(bytes) # dim THEN {}
    ELSE {FoldLeft(LAMBDA sum, i : sum + query[i] * bytes[i], 0, [i \in 1..dim |-> i])}

-----------------------------------------------------------------------------
(* Handoffs: a list is capped item by item, then as a whole. An item is    *)
(* the length of its text; one too long ends in a marker within the limit. *)

HANDOFF_LIMITS == [summary |-> 3000, item |-> 1500, file |-> 512, texts |-> 6000, files |-> 4096, items |-> 20]
CapText(length, max) == Min({length, max})

push_handoff_omission_marker(list, total_max, omitted, marker) ==
    LET available == Floor(total_max, list.used + (IF list.items = <<>> THEN 0 ELSE 1))
        length == Min({marker, available})
    IN IF omitted = 0 \/ available = 0 THEN list
       ELSE [items |-> Append(list.items, [marker |-> omitted, length |-> length]),
             used |-> list.used + (IF list.items = <<>> THEN 0 ELSE 1) + length]

RECURSIVE CapFrom(_, _, _, _, _)
CapFrom(list, rest, total_max, max_items, marker) ==
    LET separator == IF list.items = <<>> THEN 0 ELSE 1
        full == \/ Len(list.items) >= max_items
                \/ list.items # <<>> /\ list.used + separator + Head(rest) > total_max
    IN IF rest = <<>> THEN list
       ELSE IF full THEN push_handoff_omission_marker(list, total_max, Len(rest), marker)
       ELSE CapFrom([items |-> Append(list.items, [marker |-> 0, length |-> Head(rest)]),
                     used |-> list.used + separator + Head(rest)], Tail(rest), total_max, max_items, marker)

cap_handoff_list(items, item_max, total_max, max_items, marker) ==
    CapFrom([items |-> <<>>, used |-> 0], [i \in DOMAIN items |-> CapText(items[i], item_max)], total_max, max_items, marker)

-----------------------------------------------------------------------------
(* The tools: who asks, and what is done for them.                         *)

\* The session of the identity counts first, then the actor's header, then the transport's.
actor_key_from_parts(parts) ==
    IF parts = {} THEN [user |-> {}, session_id |-> {}]
    ELSE LET p == CHOOSE q \in parts : TRUE
             Header(name) == {h \in p.headers[name] : h # ""}
             named == <<p.session_id, Header("x-memory-actor-session-id"), Header("mcp-session-id")>>
             there == SelectSeq(named, LAMBDA s : s # {})
         IN [user |-> p.user, session_id |-> IF there = <<>> THEN {} ELSE Head(there)]

resolve_query_scopes(scopes, known, max) ==
    IF Len(scopes) > max \/ \E i \in DOMAIN scopes : scopes[i] \notin known THEN {} ELSE {scopes}

scope_label(workspaces, projects, workspace, project) ==
    <<The(workspace_name_by_id(workspaces, workspace), "<unknown-workspace>"),
      The(project_name_by_id(projects, workspace, project), "<unknown-project>")>>

\* Without an embedding the words alone are searched for: that is no error.
embed_query(embedder, answers) == {v \in answers : embedder /\ v # "fails"}

\* What a tool of maintenance does: scope is {} where the one named does not exist.
memory_forget_sweep(scope, dry_run) ==
    {[tool |-> "sweep", scope |-> s, dry_run |-> The(dry_run, FALSE)] : s \in scope}

memory_lint(wiki, scope, dry_run, no_llm, llm) ==
    {[tool |-> "lint", scope |-> s, dry_run |-> The(dry_run, FALSE), llm |-> llm /\ ~The(no_llm, FALSE)] :
        s \in {t \in scope : wiki}}

\* The session says which project it is: the caller's own does not come into it.
memory_consolidate(consolidator, sessions, id, multi_page, dry_run) ==
    {[tool |-> IF The(multi_page, FALSE) THEN "consolidate_session_multi" ELSE "consolidate_session",
      scope |-> s, dry_run |-> The(dry_run, FALSE)] : s \in {t \in session_project_ids(sessions, id) : consolidator}}

RoutingTargets ==
    [filenames |-> [claude_code |-> "CLAUDE.md", codex |-> "AGENTS.md", opencode |-> "AGENTS.md", cursor |-> "AGENTS.md",
                    gemini_cli |-> "AGENTS.md", antigravity_cli |-> "AGENTS.md", zero |-> "AGENTS.md",
                    devin |-> "AGENTS.md", default |-> "AGENTS.md"],
     project |-> [claude_code |-> ".claude/skills", agents |-> ".agents/skills", devin |-> ".devin/skills"]]
memory_install_self_routing(agent, block, skills) ==
    LET names == RoutingTargets.filenames
        roots == RoutingTargets.project
    IN [file |-> names[IF agent \in DOMAIN names THEN agent ELSE "default"],
        root |-> roots[IF agent \in DOMAIN roots THEN agent ELSE "agents"], block |-> block, skills |-> skills]

\* The gap since the last observation, in hours; a time that cannot be read is no activity.
explore_gap_from_snapshot(last, now) ==
    LET hours == now - CHOOSE t \in last : TRUE
    IN IF last = {} THEN "none"
       ELSE CASE hours < 1 -> "fresh" [] hours < 24 -> "today" [] hours < 24 * 7 -> "recent"
              [] hours < 24 * 30 -> "dormant" [] OTHER -> "stale"

build_explore_request(snapshot, gap, focus) ==
    <<[part |-> "snapshot", of |-> snapshot], [part |-> "gap", of |-> gap]>>
      \o (IF focus = {} THEN <<>> ELSE <<[part |-> "focus", of |-> CHOOSE f \in focus : TRUE]>>)

-----------------------------------------------------------------------------
(* Administration.                                                         *)

Posts == {"backup", "bootstrap", "auto-improve", "auto-improve/report", "curator", "pending-writes/{id}/approve",
          "pending-writes/{id}/reject", "reorg", "lint", "forget-sweep", "embed", "commit", "restore-page",
          "purge-project", "rename-project", "move-project", "delete-workspace", "rename-workspace", "write-page",
          "delete-page", "users", "users/{username}/expire", "users/{username}/revive", "users/{username}/rotate-token"}
Gets == {"pending-writes", "pending-writes/{id}", "pending-writes/{id}/diff", "status", "projects",
         "audit-contamination", "search", "read-page", "checkpoints", "users"}
\* Every road is behind the guard of a server with users.
admin_router(method, path, root) ==
    CASE path \notin Posts \cup Gets -> 404
      [] path \notin (IF method = "POST" THEN Posts ELSE Gets) -> 405
      [] ~root -> 403
      [] OTHER -> 200

\* The body is sent while it is read: an error after the first byte is no error of the answer.
handle_backup(tarball) == IF tarball = {} THEN [status |-> 500, body |-> {"error"}] ELSE [status |-> 200, body |-> tarball]

handle_lint(scope, dry_run, no_llm, llm, fails) ==
    IF scope = {} THEN [status |-> 404, did |-> {}]
    ELSE IF fails THEN [status |-> 500, did |-> {}]
    ELSE [status |-> 200, did |-> memory_lint(TRUE, scope, {dry_run}, {no_llm}, llm)]

handle_forget_sweep(scope, dry_run, fails) ==
    IF scope = {} THEN [status |-> 404, did |-> {}]
    ELSE IF fails THEN [status |-> 500, did |-> {}] ELSE [status |-> 200, did |-> memory_forget_sweep(scope, {dry_run})]

\* A request with one of the fields that are gone is refused before anything is looked up.
handle_auto_improve(req, scope, llm, require_approval) ==
    CASE req.removed # {} -> [status |-> 422, policy |-> "none"]
      [] scope = {} -> [status |-> 404, policy |-> "none"]
      [] ~llm -> [status |-> 503, policy |-> "none"]
      [] OTHER -> [status |-> 200, policy |-> IF require_approval THEN "manual" ELSE "auto_approve"]

\* The first sidecar that cannot be written ends it; those before stay.
write_auto_improve_sidecars(ids, failing) ==
    LET bad == {i \in DOMAIN ids : ids[i] \in failing}
    IN [ok |-> bad = {}, written |-> IF bad = {} THEN ids ELSE SubSeq(ids, 1, Min(bad) - 1)]

list_sessions_with_cwd(sessions, workspace) ==
    SetToSortSeq({s \in sessions : s.scope[1] = workspace /\ s.cwd \notin {{}, {""}}},
                 LAMBDA a, b : a.started < b.started)

flush_embedding_batch(counts, pending, fails) ==
    IF pending = 0 THEN counts
    ELSE IF fails THEN [counts EXCEPT !.failed = @ + pending] ELSE [counts EXCEPT !.embedded = @ + pending]

\* A path that cannot be read is taken for a free one, and a name that is no path for a taken one.
dedup_dest_path(path, slug, used, stored, unreadable, invalid) ==
    LET Candidate(n) == [stem |-> path.stem, from |-> slug, n |-> n, ext |-> path.ext]
        Free(n) == /\ Candidate(n) \notin used /\ (Candidate(n) \notin stored \/ Candidate(n) \in unreadable)
                   /\ Candidate(n) \notin invalid
        last == Cardinality(used) + Cardinality(stored) + Cardinality(invalid)
    IN Candidate(Min({n \in 0..last : Free(n)}))

page_copy_differs(existing, source) ==
    \E part \in {"body", "frontmatter", "title", "tier", "pinned"} : existing[part] # source[part]
=============================================================================
