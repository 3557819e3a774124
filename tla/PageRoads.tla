------------------------------ MODULE PageRoads ------------------------------
(***************************************************************************)
(* What one request does to a page, from the road it comes by to the       *)
(* checkpoint it leaves: the admin routes (ai-memory-mcp/src/admin.rs),    *)
(* the MCP tools (server.rs), the admission webhooks (ai-memory-wiki/src/  *)
(* admission.rs), the metadata a page carries (wiki.rs) and the git        *)
(* history behind the files (git.rs).                                      *)
(*                                                                         *)
(* A request is a function from a world to an answer and the world it      *)
(* leaves: nothing else runs meanwhile; MemoryWiki interleaves requests.   *)
(* A world is [scopes, files, rows, commits]: the <<workspace, project>>   *)
(* pairs that exist, what each <<scope, path>> holds on disk and in the    *)
(* store (partial functions), and the trees committed so far. The set      *)
(* "fails" names the steps that break: "tip" (git before the change),      *)
(* "store", "tree" (git after it).                                         *)
(***************************************************************************)
EXTENDS Naturals, FiniteSets, Sequences, SequencesExt

None == "none"

-----------------------------------------------------------------------------
(* The history.                                                            *)

\* Everything on disk becomes a commit, unless it is what the last one holds;
\* an empty tree starts no history.
commit_all(commits, files) ==
    IF IF commits = <<>> THEN DOMAIN files = {} ELSE Last(commits) = files
    THEN commits ELSE Append(commits, files)

\* Only a wiki without history is committed when the server starts.
ensure_upgrade_baseline_checkpoint(commits, files) ==
    IF commits = <<>> THEN commit_all(commits, files) ELSE commits

Smaller(a, b) == IF a < b THEN a ELSE b
Larger(a, b)  == IF a > b THEN a ELSE b
Clamp(n, low, high) == Larger(low, Smaller(n, high))

\* The newest first, between one and a hundred of them.
recent_checkpoints(commits, limit) ==
    SubSeq(Reverse([n \in DOMAIN commits |-> n]), 1, Smaller(Clamp(limit, 1, 100), Len(commits)))

\* What a file held in a commit: a set, empty when the commit or the file is unknown.
file_at_rev(commits, rev, place) ==
    {commits[n][place] : n \in {m \in DOMAIN commits : m = rev /\ place \in DOMAIN commits[m]}}

Checkpoint(world) == [world EXCEPT !.commits = commit_all(@, world.files)]

\* A change whose checkpoint breaks beforehand is refused; one whose checkpoint
\* breaks afterwards has happened all the same.
CheckpointAfter(world, fails) == IF "tree" \in fails THEN world ELSE Checkpoint(world)

handle_commit(world, fails) ==
    IF "tip" \in fails THEN [status |-> 500, world |-> world]
    ELSE [status |-> 200, world |-> Checkpoint(world)]

-----------------------------------------------------------------------------
(* The webhooks.                                                           *)

\* A hook is [name, events, blocking, reject]. Its reply is "quiet" (no content,
\* unreadable, too long, not JSON or without a page), "error" (refused, unreachable or
\* late) or the [frontmatter, body] it wants, each possibly left out.
Concerned(hook, ctx) == hook.name \notin ctx.skip /\ ctx.op \in hook.events

Mutated(page, reply) ==
    [frontmatter |-> IF reply.frontmatter = [kind |-> None] THEN page.frontmatter ELSE reply.frontmatter,
     body        |-> IF reply.body = None THEN page.body ELSE reply.body]

\* In the order of the configuration, each hook is shown what the hooks before it
\* made of the page; an error ends the chain if its hook rejects.
run(hooks, replies, ctx, page) ==
    LET Ask(acc, hook) ==
            LET reply == replies[hook.name] IN
            IF ~acc.ok \/ ~hook.blocking \/ ~Concerned(hook, ctx) THEN acc
            ELSE IF reply = [kind |-> "quiet"] THEN acc
            ELSE IF reply.kind = "error" THEN [acc EXCEPT !.ok = ~hook.reject]
            ELSE [acc EXCEPT !.page = Mutated(@, reply)]
    IN FoldLeft(Ask, [ok |-> TRUE, page |-> page], hooks)

\* Without a page to change: for removals and moves.
notify(hooks, replies, ctx) ==
    \A n \in DOMAIN hooks :
        hooks[n].blocking /\ Concerned(hooks[n], ctx) /\ replies[hooks[n].name].kind = "error" => ~hooks[n].reject

\* After the change, the observers there is a permit for; the others hear nothing.
dispatch_async(hooks, ctx, permits) ==
    LET observers == SelectSeq(hooks, LAMBDA h : ~h.blocking /\ Concerned(h, ctx))
    IN SubSeq(observers, 1, Smaller(permits, Len(observers)))

\* Names the caller left out are filled in, where the store knows them.
resolve_admission_names(ctx, names) ==
    [ctx EXCEPT !.workspace = IF @ = None THEN names[1] ELSE @,
                !.project   = IF @ = None THEN names[2] ELSE @]

\* A purge and a move take the operation and the names the code gives them,
\* whatever the caller put; a workspace has no project.
admit_purge_project(ctx, names) == resolve_admission_names([ctx EXCEPT !.op = "purge_project"], names)
admit_purge_workspace(ctx, names) ==
    [resolve_admission_names([ctx EXCEPT !.op = "purge_workspace"], names) EXCEPT !.project = None]

\* The list of hooks to pass over is taken from those who may: the root token, or
\* anybody on a server without users.
skip_webhooks_for_request(level, header) == IF level = "user" THEN {} ELSE header

-----------------------------------------------------------------------------
(* The metadata of a page. Frontmatter is "null", "other" or an "object"   *)
(* with a function from keys to values; a pin that is set is "true".       *)

Tiers == {"working", "episodic", "semantic", "procedural"}

Field(fm, key) == IF fm.kind = "object" /\ key \in DOMAIN fm.map THEN fm.map[key] ELSE None
With(fm, key, value) ==
    [kind |-> "object",
     map  |-> [k \in (IF fm.kind = "object" THEN DOMAIN fm.map ELSE {}) \cup {key} |->
                  IF k = key THEN value ELSE fm.map[k]]]
Without(fm, key) == [fm EXCEPT !.map = [k \in DOMAIN fm.map \ {key} |-> fm.map[k]]]

\* What a request of the admin route or of the tool puts in front of the body.
Frontmatter(asked) ==
    LET given == {k \in DOMAIN asked : asked[k] # None}
    IN IF given = {} THEN [kind |-> "null"]
       ELSE [kind |-> "object", map |-> [k \in given |-> asked[k]]]

\* The author of a change is part of the page; an anonymous change leaves the last one.
stamp_last_modified_by(fm, user) ==
    IF user = None \/ fm.kind = "other" THEN fm ELSE With(fm, "last_modified_by", user)

\* A file without a tier is semantic; one with an unknown tier is not indexed.
derive_index_metadata(slot, fm) ==
    LET tier == Field(fm, "tier")
    IN IF tier \notin Tiers \cup {None} THEN [error |-> "tier"]
       ELSE [tier |-> IF tier = None THEN "semantic" ELSE tier, pinned |-> slot \/ Field(fm, "pinned") = "true"]

\* The file says what the row says.
canonicalize_index_frontmatter(fm, tier, pinned) ==
    IF fm.kind = "other" THEN fm
    ELSE LET tiered == With(fm, "tier", tier)
         IN IF pinned THEN With(tiered, "pinned", "true")
            ELSE IF Field(tiered, "pinned") = "true" THEN Without(tiered, "pinned") ELSE tiered

\* A page as write_page leaves it in the file and in the row.
WrittenPage(asked, slot, user, hooks, replies, ctx) ==
    LET admitted == run(hooks, replies, ctx, [frontmatter |-> stamp_last_modified_by(asked.frontmatter, user),
                                              body |-> asked.body])
        pinned == asked.pinned \/ slot \/ Field(admitted.page.frontmatter, "pinned") = "true"
    IN [ok   |-> admitted.ok,
        page |-> [admitted.page EXCEPT !.frontmatter = canonicalize_index_frontmatter(@, asked.tier, pinned)],
        row  |-> [tier |-> asked.tier, pinned |-> pinned]]

\* A proposal that is approved: its file is what the hooks made of it, its row is
\* semantic and pinned only in a slot.
ApprovedPage(asked, slot, user, hooks, replies, ctx) ==
    LET admitted == run(hooks, replies, ctx, [frontmatter |-> stamp_last_modified_by(asked.frontmatter, user),
                                              body |-> asked.body])
    IN [ok |-> admitted.ok, page |-> admitted.page, row |-> [tier |-> "semantic", pinned |-> slot]]

-----------------------------------------------------------------------------
(* The roads to a page.                                                    *)

Put(f, key, value) == [k \in DOMAIN f \cup {key} |-> IF k = key THEN value ELSE f[k]]
Drop(f, key) == [k \in DOMAIN f \ {key} |-> f[k]]

Stored(world, place, page) == [world EXCEPT !.files = Put(@, place, page), !.rows = Put(@, place, page)]

Answer(status, world) == [status |-> status, world |-> world]

\* A file is put back when the store refuses its row.
Write(world, place, page, admitted, fails) ==
    IF ~admitted \/ "store" \in fails THEN Answer(500, world)
    ELSE Answer(200, CheckpointAfter(Stored(world, place, page), fails))

\* The scope is created before anybody is asked, and stays when the write is refused.
handle_write_page(world, req, admitted, fails) ==
    IF ~req.valid THEN Answer(422, world)
    ELSE Write([world EXCEPT !.scopes = @ \cup {req.scope}], <<req.scope, req.path>>, req.page, admitted, fails)

\* "global" names the scope of the standing preferences, beside no other name.
memory_write_page(world, req, active, global, admitted, fails) ==
    LET scope == IF req.global THEN global ELSE IF req.scope = None THEN active ELSE req.scope
    IN IF ~req.valid \/ (req.global /\ req.scope # None) THEN Answer(422, world)
       ELSE Write([world EXCEPT !.scopes = @ \cup {scope}], <<scope, req.path>>, req.page, admitted, fails)

\* The file, or the row when there is no file.
ReadPlace(world, place) ==
    IF place \in DOMAIN world.files THEN [status |-> 200, page |-> world.files[place]]
    ELSE IF place \in DOMAIN world.rows THEN [status |-> 200, page |-> world.rows[place]]
    ELSE [status |-> 404]

\* By path, or the best hit of a search; a path goes before a query.
handle_read_page(world, req, hit) ==
    IF req.path = None /\ ~req.query THEN [status |-> 400]
    ELSE IF req.scope \notin world.scopes THEN [status |-> 404]
    ELSE IF req.path # None THEN ReadPlace(world, <<req.scope, req.path>>)
    ELSE IF hit = None THEN [status |-> 404] ELSE ReadPlace(world, <<req.scope, hit>>)

memory_read_page(world, req, active, hit) ==
    LET scope == IF req.scope = None THEN active ELSE req.scope
    IN handle_read_page(world, [req EXCEPT !.scope = scope], hit)

\* Nothing is removed that could not be committed first. A page that is not there
\* is deleted, too.
Delete(world, place, admitted, fails) ==
    IF "tip" \in fails THEN Answer(500, world)
    ELSE LET kept == Checkpoint(world)
         IN IF ~admitted \/ "store" \in fails THEN Answer(500, kept)
            ELSE Answer(200, CheckpointAfter([kept EXCEPT !.files = Drop(@, place), !.rows = Drop(@, place)], fails))

handle_delete_page(world, req, admitted, fails) ==
    IF ~req.valid THEN Answer(422, world)
    ELSE IF req.scope \notin world.scopes THEN Answer(404, world)
    ELSE Delete(world, <<req.scope, req.path>>, admitted, fails)

memory_delete_page(world, req, active, admitted, fails) ==
    handle_delete_page(world, [req EXCEPT !.scope = IF @ = None THEN active ELSE @], admitted, fails)

\* An older version over the present one; the hooks are not asked.
handle_restore_page(world, req, rev, fails) ==
    LET place == <<req.scope, req.path>> IN
    IF ~req.valid THEN Answer(422, world)
    ELSE IF req.scope \notin world.scopes THEN Answer(404, world)
    ELSE IF "tip" \in fails THEN Answer(500, world)
    ELSE LET kept == Checkpoint(world)
             found == file_at_rev(kept.commits, rev, place)
         IN IF found = {} \/ "store" \in fails THEN Answer(500, kept)
            ELSE Answer(200, CheckpointAfter(Stored(kept, place, CHOOSE c \in found : TRUE), fails))

-----------------------------------------------------------------------------
(* The vectors of a project's pages, made on demand. A page is "blank",    *)
(* "unreadable", "refused" by the provider, or "good".                     *)

\* Each page is counted once. Vectors are stored in batches: one that fails
\* fails all its pages.
embed_project_pages(pages, embedded, reembed, dry_run, batch, broken) ==
    LET todo == SelectSeq(pages, LAMBDA c : reembed \/ c.id \notin embedded)
        good == SelectSeq(todo, LAMBDA c : c.kind = "good")
        lost == {n \in DOMAIN good : ((n - 1) \div batch) + 1 \in broken}
        Kind(k) == Len(SelectSeq(todo, LAMBDA c : c.kind \in k))
    IN IF dry_run THEN [embedded |-> 0, failed |-> 0, skipped |-> Len(pages) - Len(todo), would |-> Len(todo)]
       ELSE [embedded |-> Len(good) - Cardinality(lost),
             failed   |-> Kind({"unreadable", "refused"}) + Cardinality(lost),
             skipped  |-> Len(pages) - Len(todo) + Kind({"blank"}),
             would    |-> 0]

\* "all" takes the projects of one workspace, and finds none in an unknown one.
\* Vectors of other models are dropped before the new ones are made.
handle_embed(provider, req, found, projects) ==
    LET status == IF ~provider THEN 503 ELSE IF found \/ req.all THEN 200 ELSE 404
    IN [status   |-> status,
        purged   |-> status = 200 /\ found /\ req.reembed /\ ~req.dry_run,
        projects |-> IF status = 200 /\ found THEN projects ELSE {}]

-----------------------------------------------------------------------------
(* A backup, and a database made anew from the files.                      *)

\* The database is copied first, the files after it: what is written between the two
\* is in the files only, and so are the pages a reindex would find.
build_backup_tarball_file(rowsFirst, filesThen) == [rows |-> rowsFirst, files |-> filesThen]

\* The directories say their names in a manifest: one that is missing, or without
\* its name, stops the rebuild where it is, and so does a page that cannot be indexed.
reindex_all(dirs) ==
    LET Take(acc, dir) ==
            IF ~acc.ok \/ ~dir.named THEN [acc EXCEPT !.ok = FALSE]
            ELSE [rows |-> acc.rows \cup dir.pages, ok |-> dir.sound]
    IN FoldLeft(Take, [ok |-> TRUE, rows |-> {}], dirs)

\* A manifest is rewritten only when it says something else; a link is never followed.
write_scope_manifest(found, wanted) ==
    IF found = "link" THEN [ok |-> FALSE, written |-> FALSE, now |-> found]
    ELSE [ok |-> TRUE, written |-> found # wanted, now |-> wanted]

\* Every workspace and project of the store says its name on disk; the first link
\* that is met ends it.
backfill_scope_manifests(manifests, wanted) ==
    LET Say(acc, scope) ==
            LET w == write_scope_manifest(acc.on[scope], wanted[scope])
            IN IF ~acc.ok \/ ~w.ok THEN [acc EXCEPT !.ok = FALSE]
               ELSE [acc EXCEPT !.on[scope] = w.now, !.written = @ + IF w.written THEN 1 ELSE 0]
    IN FoldLeft(Say, [ok |-> TRUE, on |-> manifests, written |-> 0], SetToSeq(DOMAIN wanted))

=============================================================================
