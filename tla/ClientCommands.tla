----------------------------- MODULE ClientCommands -----------------------------
(***************************************************************************)
(* The commands of the client (ai-memory-cli): the options they take, what *)
(* they ask of the server, and those that work on the data directory while *)
(* no server runs.                                                         *)
(*                                                                         *)
(* What may be missing is a set of at most one. A command that sends       *)
(* nothing returns the empty set of requests.                              *)
(***************************************************************************)
EXTENDS Naturals, Sequences, FiniteSets, FiniteSetsExt, SequencesExt, TLC

LOCAL Req == INSTANCE ServerRequests
LOCAL Access == INSTANCE ServerAccess

The(option, default) == IF option = {} THEN default ELSE CHOOSE x \in option : TRUE

-----------------------------------------------------------------------------
(* Options: the ones that must be given, the switches, the ones that may   *)
(* be given, those with a default, and the values of those with a choice.  *)

Opt(needs, flags, takes, defaults, closed) ==
    [needs |-> needs, flags |-> flags, takes |-> takes, defaults |-> defaults, closed |-> closed]
None == <<>>
Workspace == "workspace" :> "default"
Scoped(o) == [o EXCEPT !.takes = @ \cup {"project"}, !.defaults = @ @@ Workspace]
Switches(flags) == Opt({}, flags, {}, None, None)

parse(o, given) ==
    LET defaults == DOMAIN o.defaults
        known == o.needs \cup o.flags \cup o.takes \cup defaults
        Value(n) == CASE n \in o.flags -> n \in DOMAIN given
                      [] n \in o.takes -> IF n \in DOMAIN given THEN {given[n]} ELSE {}
                      [] OTHER -> IF n \in DOMAIN given THEN given[n] ELSE o.defaults[n]
    IN IF /\ o.needs \subseteq DOMAIN given /\ DOMAIN given \subseteq known
          /\ \A n \in DOMAIN given \cap DOMAIN o.closed : given[n] \in o.closed[n]
       THEN {[n \in known |-> Value(n)]} ELSE {}

\* The names of an agent that are not its own.
AgentAliases == "opencode" :> "open-code" @@ "oh-my-pi" :> "omp" @@ "antigravity" :> "antigravity-cli" @@ "agy" :> "antigravity-cli"
AgentChoice == {"claude-code", "codex", "cursor", "gemini-cli", "open-code", "pi", "omp", "openclaw", "antigravity-cli",
                "grok", "zero", "devin"}
kind(agent) == IF agent \in DOMAIN AgentAliases THEN AgentAliases[agent] ELSE agent
script_hook_subdir(agent) == {kind(agent)} \ {"open-code", "pi", "omp", "openclaw", "zero"}
McpClient == (AgentChoice \ {"grok"}) \cup {"claude-desktop", "vscode-copilot"}
McpAliases == AgentAliases @@ "copilot" :> "vscode-copilot" @@ "github-copilot" :> "vscode-copilot"

Agents == AgentChoice \cup DOMAIN AgentAliases
Clients == McpClient \cup DOMAIN McpAliases
LlmProviderChoice == {"anthropic", "anthropic-oauth", "openai", "gemini", "openai-compat", "openai-oauth", "copilot", "opencode"}

UserOptions ==
    "user add" :> Opt({"username"}, {"json"}, {"name", "email"}, None, None)
    @@ "user list" :> Switches({"json"})
    @@ "user expire" :> Opt({"username"}, {"yes"}, {}, None, None)
    @@ "user revive" :> Opt({"username"}, {}, {}, None, None)
    @@ "user rotate-token" :> Opt({"username"}, {"yes", "json"}, {}, None, None)

AuthOptions ==
    LET closed == "provider" :> {"openai-oauth", "copilot", "oidc-device"}
    IN "auth login" :> Opt({"provider"}, {}, {"github_token", "client_id", "issuer"}, "timeout_secs" :> 600, closed)
       @@ "auth logout" :> Opt({"provider"}, {}, {}, None, closed)
       @@ "auth status" :> Switches({})

ProjectOptions ==
    "uninstall" :> Opt({}, {"apply", "purge_data", "yes"}, {"only", "mcp_name"}, "mcp_url" :> "http://127.0.0.1:49374/mcp",
                       "only" :> {"hooks", "mcp", "instructions", "skills"})
    @@ "reorg" :> Switches({"dry_run"})
    @@ "purge-project" :> Scoped(Switches({"confirm"}))
    @@ "rename-project" :> Opt({"to"}, {}, {"from"}, Workspace, None)
    @@ "move-project" :> Opt({"to_workspace"}, {"confirm", "force"}, {"project"},
                             "from_workspace" :> "default" @@ "on_conflict" :> "block",
                             "on_conflict" :> {"block", "overwrite", "duplicate"})

SkillScopes == {"project", "global"}
SkillAgents == {"claude-code", "agents", "devin", "both"}
InstructionOptions ==
    "install-instructions" :> Opt({}, {"print", "no_skills", "skills_force"},
                                  {"target", "skills_scope", "skills_agent", "skills_target_dir"}, None,
                                  "skills_scope" :> SkillScopes @@ "skills_agent" :> SkillAgents)
    @@ "install-skills" :> Opt({}, {"print", "force"}, {"target_dir"}, "scope" :> "project" @@ "agent" :> "claude-code",
                               "scope" :> SkillScopes @@ "agent" :> SkillAgents)

BootstrapOptions ==
    "bootstrap" :> Scoped(Opt({}, {"exclude_git", "exclude_readme", "exclude_docs", "exclude_code", "dry_run", "force"},
                              {"repo_path", "since"}, "max_input_tokens" :> 150000 @@ "chunk_input_tokens" :> 24000, None))
    @@ "setup-agent" :> Opt({"to"}, {}, {"host_prefix", "auth_token", "source"},
                            "agent" :> "claude-code" @@ "server_url" :> "http://127.0.0.1:49374", "agent" :> Agents)

PlainOptions ==
    "generate-auth-token" :> Opt({}, {}, {}, "bytes" :> 32, None)
    @@ "init" :> Switches({"force"}) @@ "status" :> Switches({"json"}) @@ "reset" :> Switches({"confirm"})
    @@ "audit-contamination" :> Opt({}, {"json"}, {"workspace", "project"}, None, None)
    @@ "search" :> Scoped(Opt({"query"}, {"json"}, {}, "limit" :> 10, None))
    @@ "read-page" :> Scoped(Opt({}, {"json"}, {"query", "path"}, None, None))
    @@ "delete-page" :> Scoped(Opt({"path"}, {}, {}, None, None))
    @@ "backup" :> Opt({"to"}, {}, {}, None, None) @@ "restore" :> Opt({"from"}, {"force"}, {}, None, None)
    @@ "checkpoints" :> Opt({}, {"json"}, {}, "limit" :> 20, None) @@ "reindex" :> Switches({})
    @@ "restore-page" :> Scoped(Opt({"path", "from"}, {"json"}, {}, None, None))

FinalizeOptions == "finalize-session" :> Scoped(Opt({}, {"all", "json"}, {}, "agent" :> "codex", "agent" :> Agents))

MaintenanceOptions ==
    "commit" :> Opt({}, {}, {}, "message" :> "manual commit", None)
    @@ "embed" :> Scoped(Switches({"dry_run", "force"})) @@ "forget-sweep" :> Scoped(Switches({"dry_run"}))
    @@ "lint" :> Scoped(Switches({"dry_run", "no_llm"})) @@ "curator" :> Scoped(Switches({"dry_run", "stage", "json"}))
    @@ "auto-improve-report" :> Scoped(Opt({}, {"stage", "json"}, {}, "days" :> 30 @@ "limit" :> 10, None))
    @@ "auto-improve" :> Scoped(Opt({"session_id"}, {"include_raw_fallback", "json"},
                                    {"min_observations", "min_session_duration_secs", "min_confidence", "max_input_tokens",
                                     "max_proposals"}, None, None))

PendingOptions ==
    LET OfOne == Scoped(Opt({"id"}, {"json"}, {}, None, None))
    IN "pending-writes list" :> Scoped(Opt({}, {"json"}, {"status"}, "limit" :> 50, None))
       @@ "pending-writes show" :> OfOne @@ "pending-writes diff" :> OfOne @@ "pending-writes approve" :> OfOne
       @@ "pending-writes reject" :> [OfOne EXCEPT !.defaults = @ @@ "reason" :> "rejected by reviewer"]
       @@ "llm-test" :> Opt({"provider", "model", "prompt"}, {}, {"base_url", "api_key"}, None, "provider" :> LlmProviderChoice)

ProjectStrategyArg == {"basename", "repo-root"}
baked(strategy) == {strategy} \ {"basename"}
HookOptions ==
    "hook" :> Opt({"event", "agent", "server_url"}, {}, {"auth_token", "project_strategy"}, None,
                  "project_strategy" :> ProjectStrategyArg)
    @@ "hook-drain" :> Switches({})
    @@ "install-hooks" :> Opt({}, {"apply"}, {"hooks_dir", "server_url", "auth_token", "as_user", "config_file"},
                              "agent" :> "claude-code" @@ "project_strategy" :> "basename",
                              "agent" :> Agents @@ "project_strategy" :> ProjectStrategyArg)

ServeOptions ==
    "install-mcp" :> Opt({}, {"apply"}, {"server_url", "auth_token", "config_file"},
                         "client" :> "claude-code" @@ "name" :> "ai-memory", "client" :> Clients)
    @@ "serve" :> Opt({}, {"no_watcher", "enable_web", "http_stateful"}, {"bind", "web_ui_dir", "cors_allow_origin"},
                      Workspace @@ "project" :> "scratch" @@ "transport" :> "stdio" @@ "base_path" :> "" @@ "web_slug" :> "/web",
                      "transport" :> {"stdio", "http"})
    @@ "write-page" :> Scoped(Opt({"path", "body"}, {"pinned"}, {"title", "kind", "tag"}, "tier" :> "semantic", None))

Commands == UserOptions @@ AuthOptions @@ ProjectOptions @@ InstructionOptions @@ BootstrapOptions @@ PlainOptions
            @@ FinalizeOptions @@ MaintenanceOptions @@ PendingOptions @@ HookOptions @@ ServeOptions

\* A hook runs without the settings and without a log; everything else needs the settings.
main(command, settings) ==
    IF command \in {"hook", "hook-drain"} THEN [runs |-> TRUE, logs |-> FALSE]
    ELSE [runs |-> settings, logs |-> settings]

\* A log that cannot be written goes to the directory for temporary files, or nowhere.
resolve_file_appender(writable) == IF "log" \in writable THEN {"log"} ELSE {"temp"} \cap writable
init_logging(writable) == {"stderr"} \cup resolve_file_appender(writable)

-----------------------------------------------------------------------------
(* Requests. env is where the command runs: the directory the wrapper      *)
(* names, the process's own and the name derived from it, what is typed,   *)
(* and the settings.                                                       *)

resolve_project_name(env, explicit) ==
    LET named == SelectSeq(<<explicit \ {""}, env.host \ {""}>>, LAMBDA n : n # {})
    IN IF named # <<>> THEN Head(named) ELSE IF env.cwd = "/work" THEN {} ELSE env.derived

Ask(method, path, body) == {[method |-> method, path |-> path, body |-> body]}
AskIn(env, workspace, project, method, path, body) ==
    UNION {Ask(method, path, [workspace |-> workspace, project |-> p] @@ body) : p \in resolve_project_name(env, project)}
GetIn(env, a, path, body) == AskIn(env, a.workspace, a.project, "GET", path, body)
PostIn(env, a, path, body) == AskIn(env, a.workspace, a.project, "POST", path, body)
Fields(a, names) == [n \in names |-> a[n]]

purge_project(env, a) == {r \in PostIn(env, a, "purge-project", [confirm |-> TRUE]) : a.confirm}
move_project(env, a) ==
    {r \in AskIn(env, a.from_workspace, a.project, "POST", "move-project",
                 [to_workspace |-> a.to_workspace, confirm |-> TRUE, force |-> a.force, on_conflict |-> a.on_conflict]) : a.confirm}
rename_project(env, a) == AskIn(env, a.workspace, a.from, "POST", "rename-project", [to |-> a.to])
reorg(a) == Ask("POST", "reorg", Fields(a, {"dry_run"}))

read_page(env, a) ==
    CASE a.path # {} -> GetIn(env, a, "read-page", [path |-> The(a.path, "")])
      [] a.path = {} /\ a.query # {} -> GetIn(env, a, "read-page", [q |-> The(a.query, "")])
      [] OTHER -> {}
write_page(env, a) ==
    PostIn(env, a, "write-page", Fields(a, {"path", "title", "kind", "tier", "tag", "pinned"})
                                 @@ [body |-> IF a.body = "-" THEN env.typed ELSE a.body])
search(env, a) == GetIn(env, a, "search", [q |-> a.query, limit |-> a.limit])
delete_page(env, a) == PostIn(env, a, "delete-page", Fields(a, {"path"}))
restore_page(env, a) == PostIn(env, a, "restore-page", [path |-> a.path, rev |-> a.from])

\* Everything is embedded again where no project is named, the empty name being one.
embed(env, a) ==
    LET all == a.force /\ a.project = {}
        body == [reembed |-> a.force, dry_run |-> a.dry_run, all_projects |-> all]
    IN IF all THEN Ask("POST", "embed", [workspace |-> a.workspace, project |-> ""] @@ body) ELSE PostIn(env, a, "embed", body)

forget_sweep(env, a) == PostIn(env, a, "forget-sweep", Fields(a, {"dry_run"}))
lint(env, a) == PostIn(env, a, "lint", Fields(a, {"dry_run", "no_llm"}))
curator(env, a) ==
    {r \in PostIn(env, a, "curator", [dry_run |-> a.dry_run \/ ~a.stage, stage |-> a.stage]) : ~(a.dry_run /\ a.stage)}
commit(a) == Ask("POST", "commit", Fields(a, {"message"}))
checkpoints(a) == Ask("GET", "checkpoints", Fields(a, {"limit"}))

\* The settings that go as they are, and the ones an option replaces.
Carried == {"max_patchable_pages", "max_patchable_body_chars", "max_edits_per_proposal", "max_edit_content_chars",
            "max_changed_chars_per_proposal", "max_patch_edits_per_run", "max_rejection_context", "rejection_context_days",
            "max_final_body_chars", "max_rule_page_tokens", "max_procedure_page_tokens", "proposal_actor", "pending_path", "eval"}
Replaced == "min_observations" :> "min_observations" @@ "min_session_duration_secs" :> "min_session_duration_secs"
            @@ "min_confidence" :> "min_confidence" @@ "max_input_tokens" :> "max_input_tokens"
            @@ "max_proposals_per_run" :> "max_proposals"
auto_improve(env, a) ==
    PostIn(env, a, "auto-improve",
           Fields(env.settings, Carried) @@ Fields(a, {"session_id"})
           @@ [f \in DOMAIN Replaced |-> The(a[Replaced[f]], env.settings[f])]
           @@ [include_raw_fallback |-> a.include_raw_fallback \/ env.settings.include_raw_fallback])
auto_improve_report(env, a) == PostIn(env, a, "auto-improve/report", [since_days |-> a.days, limit |-> a.limit, stage |-> a.stage])

list_pending(env, a) == GetIn(env, a, "pending-writes", [limit |-> a.limit, status |-> a.status])
show_pending(env, a) == GetIn(env, a, "pending-writes/{id}", Fields(a, {"id"}))
diff_pending(env, a) == GetIn(env, a, "pending-writes/{id}/diff", Fields(a, {"id"}))
approve_pending(env, a) == PostIn(env, a, "pending-writes/{id}/approve", Fields(a, {"id"}))
reject_pending(env, a) == PostIn(env, a, "pending-writes/{id}/reject", Fields(a, {"id", "reason"}))

\* Both names or neither: half a scope is refused.
audit_contamination(a) ==
    {r \in Ask("GET", "audit-contamination", [workspace |-> a.workspace, project |-> a.project]) :
        (a.workspace = {}) <=> (a.project = {})}

add_user(a) == Ask("POST", "users", [username |-> a.username, name |-> a.name \ {""}, email |-> a.email \ {""}])
list_users(a) == Ask("GET", "users", None)
UserRow(user) == [username |-> user.username, name |-> The(user.name, "-"), email |-> The(user.email, "-"),
                  status |-> IF user.expired THEN "expired" ELSE "active"]
expire_user(env, a) ==
    {r \in Ask("POST", "users/{username}/expire", Fields(a, {"username"})) : Access!confirm("expire", a.yes, env.typed)}
revive_user(a) == Ask("POST", "users/{username}/revive", Fields(a, {"username"}))
rotate_token(env, a) ==
    {r \in Ask("POST", "users/{username}/rotate-token", Fields(a, {"username"})) : Access!confirm("rotate-token", a.yes, env.typed)}

\* What a command of one request asks of the server.
Asked(command, env, a) ==
    CASE command = "purge-project" -> purge_project(env, a)
      [] command = "move-project" -> move_project(env, a)
      [] command = "rename-project" -> rename_project(env, a)
      [] command = "reorg" -> reorg(a)
      [] command = "read-page" -> read_page(env, a)
      [] command = "write-page" -> write_page(env, a)
      [] command = "search" -> search(env, a)
      [] command = "delete-page" -> delete_page(env, a)
      [] command = "restore-page" -> restore_page(env, a)
      [] command = "embed" -> embed(env, a)
      [] command = "forget-sweep" -> forget_sweep(env, a)
      [] command = "lint" -> lint(env, a)
      [] command = "curator" -> curator(env, a)
      [] command = "commit" -> commit(a)
      [] command = "checkpoints" -> checkpoints(a)
      [] command = "auto-improve" -> auto_improve(env, a)
      [] command = "auto-improve-report" -> auto_improve_report(env, a)
      [] command = "pending-writes list" -> list_pending(env, a)
      [] command = "pending-writes show" -> show_pending(env, a)
      [] command = "pending-writes diff" -> diff_pending(env, a)
      [] command = "pending-writes approve" -> approve_pending(env, a)
      [] command = "pending-writes reject" -> reject_pending(env, a)
      [] command = "audit-contamination" -> audit_contamination(a)
      [] command = "user add" -> add_user(a)
      [] command = "user list" -> list_users(a)
      [] command = "user expire" -> expire_user(env, a)
      [] command = "user revive" -> revive_user(a)
      [] command = "user rotate-token" -> rotate_token(env, a)
      [] command = "status" -> Ask("GET", "status", None)
      [] command = "backup" -> Ask("POST", "backup", None)

\* What the client says of an answer: a refused connection is told by whether an address was set.
augment_connect_error(refused, configured) ==
    CASE ~refused -> "failed" [] refused /\ configured -> "nothing answered" [] OTHER -> "no address set"
answered(reply, configured) ==
    CASE reply.sent /\ reply.status \in 200..299 -> IF reply.json THEN "ok" ELSE "parsing"
      [] reply.sent /\ reply.status \notin 200..299 -> "server returned"
      [] OTHER -> augment_connect_error(reply.refused, configured)

-----------------------------------------------------------------------------
(* Sessions that stay open are ended one by one, each by a request of its  *)
(* own; the first that is not taken ends the command without a report.     *)

effective_cwd(env) == The(env.host_path \ {""}, env.cwd)
session_end_hook_url(env, session, a, project) ==
    [event |-> "session-end", agent |-> kind(a.agent), cwd |-> The(session.cwd, effective_cwd(env)),
     workspace |-> a.workspace, project |-> project]
post_session_end_batch(reply) == reply.status \in 200..299 /\ reply.accepted = 1

finalize_session(env, sessions, a, reply) ==
    LET project == The(resolve_project_name(env, a.project), "")
        open == Req!open_sessions_for_scope_agent(sessions, <<a.workspace, project>>, kind(a.agent), IF a.all THEN {} ELSE {1})
        bad == {i \in DOMAIN open : ~post_session_end_batch(reply[open[i].session_id])}
        last == IF bad = {} THEN Len(open) ELSE Min(bad)
    IN [sent |-> [i \in 1..last |-> [session_id |-> open[i].session_id, url |-> session_end_hook_url(env, open[i], a, project)]],
        report |-> IF bad = {} THEN {[i \in DOMAIN open |-> open[i].session_id]} ELSE {}]

-----------------------------------------------------------------------------
(* The data directory: its pages, its database and its settings, each a    *)
(* set of what is there.                                                   *)

sibling_processes(processes, me, exempt) ==
    IF exempt THEN {} ELSE {p.pid : p \in {q \in processes : q.name = "ai-memory" /\ ~q.thread}} \ {me}

\* Settings that are there are kept, unless the command is forced.
init(config, force, pepper) == IF config # {} /\ ~force THEN config ELSE {[pepper |-> pepper, own |-> FALSE]}

Roads == {"wiki", "wiki/", "db", "db/memory.sqlite", "config.toml", "elsewhere"}
validate_restore_entry(entry) ==
    /\ entry.plain /\ entry.type \in {"file", "dir"}
    /\ entry.road \in (IF entry.type = "dir" THEN {"wiki", "wiki/", "db"} ELSE {"config.toml", "db/memory.sqlite", "wiki/"})

\* The entries are checked as they come: those before the first that is refused are written.
Unpacked(data, entry) ==
    IF entry.type = "dir" THEN data
    ELSE [data EXCEPT ![entry.road] = IF entry.road = "wiki/" THEN @ \cup {entry.holds} ELSE {entry.holds}]
unpack_checked_archive(data, entries) ==
    LET bad == {i \in DOMAIN entries : ~validate_restore_entry(entries[i])}
        taken == IF bad = {} THEN entries ELSE SubSeq(entries, 1, Min(bad) - 1)
    IN [ok |-> bad = {}, data |-> FoldLeft(Unpacked, data, taken)]

\* A forced restore empties the directory before it looks at the archive.
restore(data, archive, force, siblings) ==
    LET full == data["wiki/"] # {} \/ data["db/memory.sqlite"] # {}
        empty == IF full THEN [data EXCEPT !["wiki/"] = {}, !["db/memory.sqlite"] = {}] ELSE data
        unpacked == unpack_checked_archive(empty, archive.entries)
    IN IF siblings # {} \/ ~archive.there \/ (full /\ ~force) THEN [ok |-> FALSE, data |-> data]
       ELSE IF ~archive.opens THEN [ok |-> FALSE, data |-> empty]
       ELSE unpacked

reindex(status, pages, siblings) ==
    IF siblings # {} \/ ~Req!is_clean(status) THEN {} ELSE {pages}

-----------------------------------------------------------------------------
(* What the status command says of a provider.                             *)

provider_label(role) ==
    CASE role.provider # {} /\ role.model # {} -> <<role.provider, role.model, role.dim>>
      [] role.provider # {} /\ role.model = {} -> <<role.provider>>
      [] OTHER -> <<{"provider"}>>
error_detail(role) ==
    LET parts == SelectSeq(<<role.error_status, role.error_message \ {""}, role.error_at>>, LAMBDA p : p # {})
    IN IF parts = <<>> THEN <<{"last call failed"}>> ELSE parts
provider_health_line(role) ==
    CASE role.status = "disabled" -> <<>>
      [] role.status = "unknown" -> provider_label(role)
      [] role.status = "ok" -> provider_label(role) \o <<IF role.called_at = {} THEN {"unknown time"} ELSE role.called_at>>
      [] OTHER -> provider_label(role) \o error_detail(role)
=============================================================================
