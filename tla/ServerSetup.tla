------------------------------ MODULE ServerSetup ------------------------------
(***************************************************************************)
(* The settings of ai-memory (ai-memory-cli/src/config.rs), the start of   *)
(* its server and its scheduled jobs (commands/serve.rs), the addresses a  *)
(* client calls (http_client.rs) and the thread that writes the database   *)
(* (ai-memory-store/src/writer.rs).                                        *)
(*                                                                         *)
(* The environment maps the variables that are set to their values, ""     *)
(* being blank; a variable of the settings has the name of its setting.    *)
(* A path or an address is the sequence of its segments between slashes,   *)
(* so that "/wiki/" is <<"", "wiki", "">>; a prefix has no empty one.      *)
(***************************************************************************)
EXTENDS Naturals, Sequences, FiniteSets, FiniteSetsExt, SequencesExt, TLC, Providers

-----------------------------------------------------------------------------
(* Settings: defaults, under the file, under the environment. The layer of *)
(* the environment takes a blank variable for a value; the readers that    *)
(* come after it take it for a missing one.                                *)

env_string(env, name) == IF name \in DOMAIN env /\ env[name] # "" THEN env[name] ELSE None

from_process(env) ==
    LET First(names) == FirstKnown([i \in DOMAIN names |-> env_string(env, names[i])])
    IN [data_dir |-> env_string(env, "data_dir"), server_url |-> env_string(env, "server_url"),
        auth_token |-> env_string(env, "auth_token"), home_dir |-> First(<<"home", "HOME">>),
        anthropic |-> env_string(env, "ANTHROPIC_API_KEY"),
        anthropic_oauth |-> First(<<"ANTHROPIC_OAUTH_TOKEN", "CLAUDE_CODE_OAUTH_TOKEN">>),
        openai |-> env_string(env, "OPENAI_API_KEY"),
        gemini |-> First(<<"GEMINI_API_KEY", "GOOGLE_API_KEY">>),
        llm |-> env_string(env, "LLM_API_KEY"), llm_base_url |-> env_string(env, "LLM_BASE_URL"),
        github |-> First(<<"COPILOT_GITHUB_TOKEN", "GH_TOKEN", "GITHUB_TOKEN">>),
        copilot |-> env_string(env, "GITHUB_COPILOT_API_TOKEN"),
        copilot_url |-> env_string(env, "COPILOT_API_URL"),
        voyage |-> env_string(env, "VOYAGE_API_KEY"), opencode |-> env_string(env, "OPENCODE_API_KEY")]

DEFAULT_SERVER_URL == "http://127.0.0.1:49374"

Defaults ==
    [data_dir |-> "default", server_url |-> DEFAULT_SERVER_URL, bearer_token |-> None, llm_provider |-> None,
     llm_model |-> None, llm_base_url |-> None, llm_compat_strict |-> None, embedding_provider |-> None,
     embedding_model |-> None, embedding_base_url |-> None]

\* The sections that the lookups above do not read: what they are without a file. Confidence
\* and deltas are in hundredths.
AuthSettings == [bearer_token |-> None, root_username |-> None, root_email |-> None, root_name |-> None, token_pepper |-> None]

AutoImproveSettings ==
    [enabled |-> TRUE, interval_secs |-> 3600, max_sessions_per_tick |-> 1, min_session_age_secs |-> 600,
     require_approval |-> FALSE, on_session_end |-> FALSE,
     min_observations |-> 8, min_session_duration_secs |-> 120, min_confidence |-> 75, max_input_tokens |-> 24000,
     max_proposals_per_run |-> 5, max_patchable_pages |-> 8, max_patchable_body_chars |-> 8000,
     max_edits_per_proposal |-> 5, max_edit_content_chars |-> 4000, max_changed_chars_per_proposal |-> 12000,
     max_patch_edits_per_run |-> 8, max_rejection_context |-> 50, rejection_context_days |-> 180,
     max_final_body_chars |-> 32000, max_rule_page_tokens |-> 2000, max_procedure_page_tokens |-> 2000,
     include_raw_fallback |-> FALSE, proposal_actor |-> "auto_improve", pending_path |-> "_pending/auto-improve",
     eval_enabled |-> FALSE, eval_command |-> "", eval_timeout_secs |-> 120, eval_targets |-> {"_rules", "procedures"},
     eval_min_delta |-> 0]

\* What a review is configured with: all but what says when it runs and what becomes of it.
auto_improve_review_config_from_settings(settings) ==
    Restrict(settings, DOMAIN settings \ {"enabled", "interval_secs", "max_sessions_per_tick", "min_session_age_secs",
                                            "require_approval", "on_session_end"})

\* A list is taken as it is, and a text cut at its commas, of which the blank parts go.
deserialize_string_or_vec(value) == IF value.text THEN SelectSeq(value.parts, LAMBDA p : p # "") ELSE value.parts

Layered(file, env) ==
    [k \in DOMAIN Defaults |->
        CASE k \in DOMAIN env -> env[k] [] k \notin DOMAIN env /\ k \in DOMAIN file -> file[k] [] OTHER -> Defaults[k]]

\* files maps a directory to the settings in it. The file is looked for where the command
\* or the environment says, and what it says of the directory itself moves the data alone.
load(cli_dir, env, files) ==
    LET runtime == from_process(env)
        probe == FirstKnown(<<cli_dir, runtime.data_dir, "default">>)
        layered == Layered(IF probe \in DOMAIN files THEN files[probe] ELSE <<>>, env)
    IN [layered EXCEPT !.bearer_token = FirstKnown(<<runtime.auth_token, @>>),
                       !.server_url = FirstKnown(<<runtime.server_url, @>>),
                       !.data_dir = FirstKnown(<<cli_dir, runtime.data_dir, @>>)]

server_url_configured(settings, env) ==
    settings.server_url # DEFAULT_SERVER_URL \/ from_process(env).server_url # None

non_empty(text) == IF text = "" THEN None ELSE text

Aliases ==
    [anthropic |-> "anthropic", openai |-> "openai", gemini |-> "gemini", google |-> "gemini",
     openai_compat |-> "openai-compat", openai_oauth |-> "openai-oauth", copilot |-> "copilot",
     github_copilot |-> "copilot", anthropic_oauth |-> "anthropic-oauth", opencode |-> "opencode",
     opencode_zen |-> "opencode"]

provider_api_key(provider, runtime) ==
    CASE provider = "anthropic" -> runtime.anthropic
      [] provider = "openai" -> runtime.openai
      [] provider = "gemini" -> runtime.gemini
      [] provider = "openai-compat" -> runtime.llm
      [] provider = "opencode" -> runtime.opencode
      [] OTHER -> None

provider_auth(provider, settings, env, override) ==
    LET runtime == from_process(env)
        needs == auth_requirement(provider)
    IN CASE needs = "openai-oauth" -> openai_oauth_token_file("auth.json")
         [] needs = "copilot" ->
                CopilotCredential([github |-> runtime.github, direct |-> runtime.copilot,
                                   base |-> FirstKnown(<<runtime.copilot_url, settings.llm_base_url>>)])
         [] needs = "anthropic-oauth" -> anthropic_oauth_token(runtime.anthropic_oauth)
         [] OTHER -> with_cli_api_key_override(from_api_key(needs, provider_api_key(provider, runtime)), override)

DefaultModel(provider) ==
    CASE provider \in {"anthropic", "anthropic-oauth"} -> "claude-sonnet-4-6"
      [] provider = "openai" -> "gpt-4o-mini"
      [] provider = "gemini" -> "gemini-2.5-flash"
      [] provider \in {"openai-oauth", "copilot"} -> "gpt-5.5"
      [] provider = "openai-compat" -> None
      [] provider = "opencode" -> "claude-sonnet-4-6"

\* No provider, one that is wrong, or what it is to be built from.
llm_provider_config(settings, env) ==
    LET named == non_empty(settings.llm_provider)
        provider == Aliases[named]
        model == FirstKnown(<<non_empty(settings.llm_model), DefaultModel(provider)>>)
    IN CASE named = None -> Done({})
         [] named \notin DOMAIN Aliases -> Failed("not_configured", 0)
         [] model = None -> Failed("not_configured", 0)
         [] OTHER -> Done({[provider |-> provider, model |-> model,
                            auth |-> provider_auth(provider, settings, env, None),
                            base |-> FirstKnown(<<settings.llm_base_url, from_process(env).llm_base_url>>),
                            strict |-> settings.llm_compat_strict # None]})

\* A key for what is only compatible with OpenAI does where the address is another's.
openai_embedding_api_key(settings, runtime) ==
    IF non_empty(settings.embedding_base_url) = None THEN runtime.openai ELSE FirstKnown(<<runtime.openai, runtime.llm>>)

embedder_config(settings, env) ==
    LET named == non_empty(settings.embedding_provider)
        provider == IF named = "gemini" THEN "google" ELSE named
        runtime == from_process(env)
        model == FirstKnown(<<non_empty(settings.embedding_model),
                              CASE provider = "openai" -> "text-embedding-3-small"
                                [] provider = "voyage" -> "voyage-3"
                                [] OTHER -> "gemini-embedding-001">>)
        key == CASE provider = "openai" -> openai_embedding_api_key(settings, runtime)
                 [] provider = "voyage" -> runtime.voyage
                 [] OTHER -> runtime.gemini
    IN CASE named = None -> Done({})
         [] provider \notin {"openai", "voyage", "google"} \/ key = None -> Failed("not_configured", 0)
         [] OTHER -> Done({[provider |-> provider, model |-> model, dim |-> default_embedding_dim(provider, model),
                            base |-> settings.embedding_base_url]})

-----------------------------------------------------------------------------
(* The start of the server: the steps in their order. Those of the         *)
(* arguments come before anything is touched; what a later one that fails  *)
(* leaves behind is what those before it did.                              *)

StartSteps ==
    <<"web_ui", "cors", "store", "heal", "migrations", "scope", "sanitizer", "wiki", "webhooks", "embedder",
      "manifests", "baseline", "watcher", "llm", "scheduler", "bind">>

\* The steps that write something that lasts, and those whose failure is only a warning.
Lasting == {"store", "heal", "migrations", "scope", "manifests", "baseline", "scheduler"}
Optional == {"manifests", "baseline", "scheduler"}

\* world is what has lasted of earlier starts, bad the steps that fail in this one.
start(world, bad) ==
    LET fatal == {i \in DOMAIN StartSteps : StartSteps[i] \in bad \ Optional}
        reached == Min(fatal \cup {Len(StartSteps) + 1}) - 1
    IN [serving |-> fatal = {},
        world |-> world \cup {s \in Lasting \ bad : \E i \in 1..reached : StartSteps[i] = s}]

\* The order in which the settings of the providers are found to be wrong.
configure_embedder(settings, env) ==
    LET config == embedder_config(settings, env)
    IN Then(config, Done({build_embedder(c) : c \in config.value}))

configure_consolidator(settings, env) ==
    LET config == llm_provider_config(settings, env)
    IN Then(config, IF config.value = {} THEN Done({})
                    ELSE LET built == build_provider(CHOOSE c \in config.value : TRUE)
                         IN Then(built, Done({built.value})))

BadProviders(settings, env) ==
    (IF configure_embedder(settings, env).ok THEN {} ELSE {"embedder"})
        \cup (IF configure_consolidator(settings, env).ok THEN {} ELSE {"llm"})

\* The jobs that are started.
start_maintenance_scheduler(settings, embedder, llm) ==
    {job \in {"sweep", "hollow", "lint", "embed", "auto_improve"} :
        CASE job = "auto_improve" -> /\ settings.auto_improve /\ settings.auto_improve_secs > 0
                                     /\ settings.sessions_per_tick > 0 /\ llm
          [] job = "hollow" -> settings.enabled
          [] job = "sweep"  -> settings.enabled /\ settings.sweep_secs > 0
          [] job = "lint"   -> settings.enabled /\ settings.lint_secs > 0
          [] job = "embed"  -> settings.enabled /\ settings.embed_secs > 0 /\ embedder}

\* A tick over all scopes: one that fails is counted and passed over.
Tick(scopes, Ok, work) ==
    [errors |-> Cardinality({s \in scopes : s \notin Ok}), done |-> UNION {work[s] : s \in scopes \cap Ok}]

\* pages are the candidates in their order; those without a vector are read and embedded,
\* and stored in batches of that size, each of which is stored whole or not at all.
run_embedding_backfill(pages, already, readable, embeds, batch, Stores) ==
    LET todo == SelectSeq(pages, LAMBDA p : p \notin already)
        ready == SelectSeq(todo, LAMBDA p : p \in readable /\ p \in embeds)
        stored == {ready[i] : i \in {j \in DOMAIN ready : (j - 1) \div batch + 1 \in Stores}}
    IN [stored |-> stored, embedded |-> Cardinality(stored), failed |-> Len(todo) - Cardinality(stored)]

run_scheduled_embedding_backfill_tick(scopes, Ok, outcomes) ==
    [scopes |-> Cardinality(scopes), errors |-> Cardinality(scopes \ Ok),
     embedded |-> MapThenSumSet(LAMBDA s : outcomes[s].embedded, scopes \cap Ok),
     failed |-> MapThenSumSet(LAMBDA s : outcomes[s].failed, scopes \cap Ok)]

-----------------------------------------------------------------------------
(* What the server shares between its surfaces once it is built.           *)

\* Over the standard streams there is only the server of the tools.
Surfaces(transport) == IF transport = "stdio" THEN {"mcp"} ELSE {"mcp", "hook", "admin", "web"}

\* A changed project or workspace is dropped from the cache that the hooks look their directories up in.
scope_invalidator(cache, target) ==
    {entry \in cache : IF target.kind = "project" THEN entry.project # target.id ELSE entry.workspace # target.id}

ingest_rate(settings) ==
    LET per_sec == settings.hook_rate_per_sec
    IN [per_sec |-> IF per_sec > 0 THEN per_sec ELSE 0,
        burst |-> IF settings.hook_rate_burst > 0 THEN settings.hook_rate_burst ELSE IF per_sec > 1 THEN per_sec ELSE 1]

\* A blank pepper is none, for the guard as for the administration of users.
TokenPepper(auth) == non_empty(auth.token_pepper)
admin_state(auth) == [token_pepper |-> TokenPepper(auth)]
auth_state(auth) ==
    [expected |-> auth.bearer_token,
     root_actor |-> IF non_empty(auth.root_username) = None THEN {}
                    ELSE {[user |-> auth.root_username, name |-> auth.root_name, email |-> auth.root_email]},
     multiuser |-> TokenPepper(auth)]

bind_warning(auth, loopback) ==
    CASE loopback -> "none" [] auth_state(auth).expected = None -> "anyone" [] OTHER -> "cleartext"

-----------------------------------------------------------------------------
(* Where the server answers.                                               *)

Safe == {"a", "wiki", "web", "mcp", "hook", "admin", "api", ".a"}

normalize_prefix(raw) ==
    LET segments == SelectSeq(raw, LAMBDA s : s # "")
    IN IF \A i \in DOMAIN segments : segments[i] \in Safe THEN segments ELSE <<>>

web_base_href(base_path, web_slug) == normalize_prefix(base_path) \o normalize_prefix(web_slug)

mount_web_router(serve, rest) ==
    CASE ~serve.enable_web -> "404"
      [] IsPrefix(<<"api", "v1">>, rest) -> "api"
      [] IsPrefix(normalize_prefix(serve.web_slug), rest) -> "web"
      [] OTHER -> "404"

\* What answers a path: everything lies under the base path but the icon.
Surface(serve, path) ==
    LET base == normalize_prefix(serve.base_path)
        rest == SubSeq(path, Len(base) + 1, Len(path))
    IN CASE path = <<"favicon.ico">> /\ serve.enable_web -> "icon"
         [] ~IsPrefix(base, path) -> "404"
         [] rest # <<>> /\ rest[1] \in {"mcp", "hook", "admin"} -> rest[1]
         [] OTHER -> mount_web_router(serve, rest)

validate_web_ui_args(enable_web, web_ui) ==
    \/ web_ui = {}
    \/ enable_web /\ \A dir \in web_ui : dir.exists /\ dir.index

validate_cors_origins(origins) ==
    \A i \in DOMAIN origins : ~origins[i].star /\ origins[i].scheme /\ ~origins[i].slash

merge_cors_origins(from_config, from_cli) ==
    LET all == from_config \o from_cli
        first == SetToSortSeq({i \in DOMAIN all : \A j \in 1..(i - 1) : all[j] # all[i]}, LAMBDA i, j : i < j)
    IN [k \in DOMAIN first |-> all[first[k]]]

\* The layer of CORS parses what was accepted, and stops the server at what is no header.
build_api_router(origins) == \A i \in DOMAIN origins : origins[i].header

\* A host is its characters: the part in brackets, or what is before a port.
host_without_port(host) ==
    LET close == {i \in DOMAIN host : host[i] = "]"}
        colons == {i \in DOMAIN host : host[i] = ":"}
        ported == Cardinality(colons) = 1 /\ \A i \in (Max(colons) + 1)..Len(host) : host[i] \in {"1", "2"}
    IN CASE host # <<>> /\ host[1] = "[" /\ close # {} -> SubSeq(host, 2, Min(close) - 1)
         [] colons # {} /\ ported -> SubSeq(host, 1, Max(colons) - 1)
         [] OTHER -> host

host_allowed(host, allowed) == \E name \in allowed : host = name \/ host_without_port(host) = name

\* The snippet goes after the first tag that begins as a head does, outside comments.
RECURSIVE HeadEnd(_, _)
HeadEnd(html, at) ==
    LET After(token) == {i \in at..Len(html) : html[i] = token}
    IN CASE at > Len(html) -> 0
         [] html[at] = "<!--" /\ After("-->") = {} -> 0
         [] html[at] = "<!--" -> HeadEnd(html, Min(After("-->")) + 1)
         [] html[at] \in {"<head", "<header"} /\ After(">") # {} -> Min(After(">"))
         [] OTHER -> HeadEnd(html, at + 1)

inject_into_head(html, snippet) ==
    LET end == HeadEnd(html, 1)
    IN SubSeq(html, 1, end) \o <<snippet>> \o SubSeq(html, end + 1, Len(html))

-----------------------------------------------------------------------------
(* A client: an address is [scheme, host, path].                           *)

split_origin_and_path(url) ==
    IF url.scheme THEN [origin |-> [url EXCEPT !.path = <<>>], path |-> SelectSeq(url.path, LAMBDA s : s # "")]
    ELSE [origin |-> url, path |-> <<>>]

\* An address that has a path of its own does not get the one of the settings.
build(url, base_path) ==
    LET split == split_origin_and_path(url)
    IN [url |-> split.origin,
        base_path |-> normalize_prefix(IF split.path = <<>> THEN base_path ELSE split.path)]

build_url(endpoint, path) == endpoint.base_path \o path

\* The file is opened once the server has agreed, and written as the answer comes.
post_to_file(fate, file) ==
    CASE fate.sent # "answered" \/ fate.status \notin 200..299 -> [ok |-> FALSE, file |-> file]
      [] OTHER -> [ok |-> fate.cut = Len(fate.body), file |-> SubSeq(fate.body, 1, fate.cut)]

-----------------------------------------------------------------------------
(* What the handle of the writer offers: the command that each call sends. *)

ScopeCalls ==
    [get_or_create_workspace |-> "GetOrCreateWorkspace", get_or_create_project |-> "GetOrCreateProject",
     ensure_project_workspace |-> "EnsureProjectWorkspace",
     ensure_workspace_with_id |-> "EnsureWorkspaceWithId", ensure_project_with_id |-> "EnsureProjectWithId",
     begin_session |-> "BeginSession", end_session |-> "EndSession",
     sweep_hollow_projects |-> "SweepHollowProjects"]

RecordCalls ==
    [insert_observation |-> "InsertObservation", insert_handoff |-> "InsertHandoff",
     accept_handoff |-> "AcceptHandoff", cancel_handoff |-> "CancelHandoff",
     store_embedding |-> "StoreEmbedding", store_embeddings |-> "StoreEmbeddingBatch",
     delete_stale_page_embeddings |-> "DeleteStalePageEmbeddings"]

UpkeepCalls ==
    [bump_access |-> "BumpAccess", soft_delete_for_decay |-> "SoftDeleteForDecay",
     hard_delete_decayed |-> "HardDeleteDecayed", heal_catch_all_repo_paths |-> "HealCatchAllRepoPaths",
     purge_project |-> "PurgeProject", delete_workspace |-> "DeleteWorkspace",
     rename_workspace |-> "RenameWorkspace"]

ProjectCalls ==
    [move_project_workspace |-> "MoveProjectWorkspace", rename_project |-> "RenameProject",
     insert_wiki_migration |-> "InsertWikiMigration", reorg_sessions |-> "Reorg",
     upsert_pages_batch |-> "UpsertPageBatch", upsert_page |-> "UpsertPage", delete_page |-> "DeletePage"]

UserCalls ==
    [create_user |-> "CreateUser", rotate_user_token |-> "RotateUserToken",
     expire_user_token |-> "ExpireUserToken", revive_user_token |-> "ReviveUserToken",
     touch_user_last_seen |-> "TouchUserLastSeen", stage_auto_improve_run |-> "StageAutoImproveRun",
     reject_auto_improve_proposal |-> "RejectAutoImproveProposal",
     fail_auto_improve_proposal |-> "FailAutoImproveProposal",
     approve_auto_improve_proposal |-> "ApproveAutoImproveProposal",
     ensure_auto_improve_scheduler_state |-> "EnsureAutoImproveSchedulerState",
     claim_auto_improve_scheduler_session |-> "ClaimAutoImproveSchedulerSession"]

WriterCalls == ScopeCalls @@ RecordCalls @@ UpkeepCalls @@ ProjectCalls @@ UserCalls

\* What the thread executes for a command.
PageOperations ==
    [GetOrCreateWorkspace |-> "get_or_create_workspace", GetOrCreateProject |-> "get_or_create_project",
     EnsureProjectWorkspace |-> "ensure_project_workspace", EnsureWorkspaceWithId |-> "ensure_workspace_with_id",
     EnsureProjectWithId |-> "ensure_project_with_id", UpsertPage |-> "upsert_page", DeletePage |-> "delete_page",
     UpsertPageBatch |-> "upsert_pages_batch", BeginSession |-> "begin_session", EndSession |-> "end_session",
     SweepHollowProjects |-> "sweep_hollow_projects", InsertObservation |-> "insert_observation",
     InsertHandoff |-> "insert_handoff", AcceptHandoff |-> "accept_handoff", CancelHandoff |-> "cancel_handoff",
     Reorg |-> "reorg_sessions", BumpAccess |-> "bump_access_for_pages",
     SoftDeleteForDecay |-> "soft_delete_for_decay", HardDeleteDecayed |-> "hard_delete_decayed_pages",
     HealCatchAllRepoPaths |-> "heal_catch_all_repo_paths"]

ScopeOperations ==
    [StoreEmbedding |-> "store_embedding", StoreEmbeddingBatch |-> "store_embeddings",
     DeleteStalePageEmbeddings |-> "delete_stale_page_embeddings", PurgeProject |-> "purge_project",
     DeleteWorkspace |-> "delete_workspace", RenameWorkspace |-> "rename_workspace",
     MoveProjectWorkspace |-> "move_project_workspace", RenameProject |-> "rename_project",
     InsertWikiMigration |-> "insert_wiki_migration", CreateUser |-> "insert_user",
     RotateUserToken |-> "rotate_user_token", ExpireUserToken |-> "expire_user_token",
     ReviveUserToken |-> "revive_user_token", TouchUserLastSeen |-> "touch_user_last_seen",
     StageAutoImproveRun |-> "stage_run", RejectAutoImproveProposal |-> "reject_proposal",
     FailAutoImproveProposal |-> "fail_proposal", ApproveAutoImproveProposal |-> "approve_proposal",
     EnsureAutoImproveSchedulerState |-> "ensure_scheduler_state",
     ClaimAutoImproveSchedulerSession |-> "claim_scheduler_session"]

PageCommands == DOMAIN PageOperations
ScopeCommands == DOMAIN ScopeOperations \cup {"Shutdown"}
WriteCmd == PageCommands \cup ScopeCommands
Operation(command) == (PageOperations @@ ScopeOperations)[command]

-----------------------------------------------------------------------------
(* The thread that writes, as its states and steps: the queue of commands, *)
(* what was executed, who waits for an answer and who got one. Callers     *)
(* hold the handle while they wait; the last one to let go of it joins the *)
(* thread.                                                                 *)

spawn == [queue |-> <<>>, sent |-> <<>>, executed |-> <<>>, waiting |-> {}, answered |-> {},
          handle |-> "held", thread |-> "running"]

send(w, c, capacity) ==
    IF w.handle = "held" /\ c \notin Range(w.sent) /\ Len(w.queue) < capacity
    THEN {[w EXCEPT !.queue = Append(@, c), !.sent = Append(@, c), !.waiting = @ \cup {c}]} ELSE {}

\* A caller that gives up does not take its command back.
GiveUp(w, c) == IF c \in w.waiting THEN {[w EXCEPT !.waiting = @ \ {c}]} ELSE {}

send_or_warn(w, c) == [w EXCEPT !.waiting = @ \ {c}, !.answered = IF c \in w.waiting THEN @ \cup {c} ELSE @]

worker_loop(w) ==
    CASE w.thread = "ended" \/ w.queue = <<>> -> {}
      [] Head(w.queue) = "Shutdown" -> {[w EXCEPT !.queue = Tail(@), !.thread = "ended"]}
      [] OTHER -> {send_or_warn([w EXCEPT !.queue = Tail(@), !.executed = Append(@, Head(w.queue))], Head(w.queue))}

\* The handle's end asks for a shutdown only if the queue has room for it.
drop(w, capacity) ==
    IF w.handle = "held" /\ w.waiting = {}
    THEN {[w EXCEPT !.handle = "joining",
                    !.queue = IF Len(@) < capacity THEN Append(@, "Shutdown") ELSE @]} ELSE {}

joined(w) == IF w.handle = "joining" /\ w.thread = "ended" THEN {[w EXCEPT !.handle = "dropped"]} ELSE {}

WriterSteps(w, commands, capacity) ==
    worker_loop(w) \cup drop(w, capacity) \cup joined(w)
        \cup UNION {send(w, c, capacity) \cup GiveUp(w, c) : c \in commands}
===============================================================================
