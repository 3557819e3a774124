----------------------------- MODULE AgentSetup -----------------------------
(* The rest of wiring ai-memory into an agent, and of taking it out again    *)
(* (ai-memory-cli: install_mcp.rs, install_hooks.rs, install_instructions.rs, *)
(* install_skills.rs, uninstall.rs, reset.rs): the servers' addresses, the   *)
(* MCP entries, the instruction block, the skills, the plan of an uninstall. *)
(*                                                                         *)
(* An address is its origin, its path prefix and whether `/mcp` ends it.     *)
EXTENDS Sequences, SequencesExt, FiniteSets, TLC

None == "none"

----------------------------------------------------------------------------
(* Addresses. *)

Url(host, path, mcp) == [host |-> host, path |-> path, mcp |-> mcp]

NoUrl == Url(None, "", FALSE)

DEFAULT_SERVER_URL == Url("localhost", "", FALSE)

DEFAULT_MCP_URL == Url("localhost", "", TRUE)

mcp_server_url_from_base(url) == [url EXCEPT !.mcp = TRUE]

hook_server_url_from_mcp_url(url) == [url EXCEPT !.mcp = FALSE]

\* The flag, the configuration, the default.
effective_mcp_server_url(flag, configured) ==
    IF flag # NoUrl THEN flag
    ELSE IF configured # NoUrl THEN mcp_server_url_from_base(configured)
    ELSE DEFAULT_MCP_URL

\* A base path is added only to an address without a path of its own.
apply_base_path_to_hook_url(url, base) ==
    IF url.path # "" \/ url.mcp THEN url ELSE [url EXCEPT !.path = base]

\* The flag, the configuration, the MCP entry installed before, the default.
effective_hook_server_url(flag, configured, inferred, base) ==
    LET raw == IF flag # NoUrl THEN flag ELSE IF configured # NoUrl THEN configured ELSE inferred
    IN IF raw = NoUrl THEN DEFAULT_SERVER_URL ELSE apply_base_path_to_hook_url(raw, base)

\* `--as-user` needs a token to say who that is.
validate_as_user(user, token) == user = None \/ token # None

----------------------------------------------------------------------------
(* MCP entries. A document is what its container of servers is and holds.    *)

Clients == {"claude-code", "claude-desktop", "cursor", "gemini-cli", "omp", "antigravity-cli",
            "devin", "opencode", "openclaw", "zero", "vscode-copilot", "codex"}

json_mcp_location(client) ==
    CASE client \in {"claude-code", "claude-desktop", "cursor", "gemini-cli", "omp",
                     "antigravity-cli", "devin"} -> <<"mcpServers">>
      [] client = "opencode" -> <<"mcp">>
      [] client \in {"openclaw", "zero"} -> <<"mcp", "servers">>
      [] client = "vscode-copilot" -> <<"servers">>
      [] client = "codex" -> <<"mcp_servers">>

mcp_servers_path(client) == json_mcp_location(client)

\* The key under which an entry of the client names the address; Claude Desktop bridges
\* through `mcp-remote` and has it among the arguments.
UrlField(client) ==
    CASE client = "gemini-cli" -> "httpUrl"
      [] client = "antigravity-cli" -> "serverUrl"
      [] client = "claude-desktop" -> "args"
      [] OTHER -> "url"

build_mcp_entry(client, url, token) ==
    [field |-> UrlField(client), url |-> url, token |-> token, inline |-> FALSE]

\* servers: the entries by name; container: "absent", "object", or "other". Codex's may
\* also be an inline table.
upsert_json_mcp_entry(doc, client, name, url, token) ==
    IF doc.container = "other" THEN doc
    ELSE [container |-> "object",
          servers |-> (name :> build_mcp_entry(client, url, token)) @@ doc.servers]

\* Codex: what is neither a table nor an inline table is dropped.
codex_upsert_mcp_server(doc, name, url, token) ==
    [container |-> "object",
     servers |-> (name :> build_mcp_entry("codex", url, token))
                 @@ (IF doc.container = "other" THEN <<>> ELSE doc.servers)]

install_mcp(doc, client, name, url, token) ==
    IF client = "codex" THEN codex_upsert_mcp_server(doc, name, url, token)
    ELSE upsert_json_mcp_entry(doc, client, name, url, token)

\* An entry is ours by its address, and by its name only if one is given.
mcp_entry_is_ours(key, entry, name, url) == (name = None \/ key = name) /\ entry.url = url

Remaining(doc, Ours(_)) ==
    [key \in {k \in DOMAIN doc.servers : ~Ours(k)} |-> doc.servers[key]]

strip_mcp_json(doc, name, url) ==
    LET left == Remaining(doc, LAMBDA k : mcp_entry_is_ours(k, doc.servers[k], name, url))
    IN IF doc.container # "object" THEN doc
       ELSE [container |-> IF left = <<>> THEN "absent" ELSE "object", servers |-> left]

\* Codex: only an entry written as the container is (a table in a table, an inline table
\* in an inline table) is looked at, and an emptied table stays.
strip_mcp_toml(doc, name, url) ==
    LET left == Remaining(doc, LAMBDA k :
                    /\ mcp_entry_is_ours(k, doc.servers[k], name, url)
                    /\ doc.servers[k].inline = (doc.container = "inline"))
    IN IF doc.container \notin {"object", "inline"} THEN doc
       ELSE [container |-> IF doc.container = "inline" /\ left = <<>> THEN "absent"
                           ELSE doc.container,
             servers |-> left]

uninstall_mcp(doc, client, name, url) ==
    IF client = "codex" THEN strip_mcp_toml(doc, name, url) ELSE strip_mcp_json(doc, name, url)

\* The entry hooks are inferred from: the one named ai-memory, for the clients that are an
\* agent with hooks, looked up under the key its client uses.
mcp_client_for_agent(agent) ==
    IF agent \in {"claude-code", "codex", "cursor", "gemini-cli", "opencode", "omp", "openclaw",
                  "antigravity-cli", "zero"}
    THEN agent ELSE None

infer_json_mcp_config(doc, client) ==
    LET entry == doc.servers["ai-memory"]
    IN [url |-> IF entry.field = UrlField(client) THEN hook_server_url_from_mcp_url(entry.url)
                ELSE NoUrl,
        token |-> entry.token]

infer_codex_mcp_config(doc) ==
    LET entry == doc.servers["ai-memory"]
    IN [url |-> hook_server_url_from_mcp_url(entry.url), token |-> entry.token]

infer_installed_mcp_config(doc, agent) ==
    LET client == mcp_client_for_agent(agent)
    IN IF client = None \/ "ai-memory" \notin DOMAIN doc.servers THEN [url |-> NoUrl, token |-> None]
       ELSE IF client = "codex" THEN infer_codex_mcp_config(doc)
       ELSE infer_json_mcp_config(doc, client)

\* Where the hooks send, and with which token, when they are installed.
HookTarget(agent, doc, flag, configured, base, tokenFlag, tokenConfigured) ==
    LET inferred == IF flag = NoUrl THEN infer_installed_mcp_config(doc, agent)
                    ELSE [url |-> NoUrl, token |-> None]
    IN [url |-> effective_hook_server_url(flag, configured, inferred.url, base),
        token |-> IF tokenFlag # None THEN tokenFlag
                  ELSE IF tokenConfigured # None THEN tokenConfigured ELSE inferred.token]

----------------------------------------------------------------------------
(* The instruction block: lines of a CLAUDE.md or AGENTS.md. "start" and     *)
(* "end" are lines that hold nothing but the marker; "frag" is the fragment  *)
(* an early release left behind a block, which an end marker closes.         *)

find_marker_line(lines, marker, from) ==
    LET at == {i \in DOMAIN lines : i >= from /\ lines[i] = marker}
    IN IF at = {} THEN 0 ELSE CHOOSE i \in at : \A k \in at : i <= k

full_block(body) == <<"start", body, "end">>

\* Fragments are at most as many as there are lines.
strip_legacy_orphan_tail(lines) ==
    LET Fragments(n) == \A i \in 1..n : lines[2 * i - 1] = "frag" /\ lines[2 * i] = "end"
        counts == {n \in 0..Len(lines) : 2 * n <= Len(lines) /\ Fragments(n)}
        most == CHOOSE n \in counts : \A k \in counts : k <= n
    IN SubSeq(lines, 2 * most + 1, Len(lines))

Block(lines) ==
    LET start == find_marker_line(lines, "start", 1)
        end == find_marker_line(lines, "end", start)
    IN IF start = 0 \/ end = 0 THEN <<>> ELSE <<start, end>>

\* The block in place of the one there is, or after an empty line at the end.
merge_instructions_block(lines, block) ==
    LET at == Block(lines)
    IN IF at # <<>>
       THEN SubSeq(lines, 1, at[1] - 1) \o block
            \o strip_legacy_orphan_tail(SubSeq(lines, at[2] + 1, Len(lines)))
       ELSE lines \o (IF lines = <<>> THEN <<>> ELSE <<"blank">>) \o block

strip_instructions_block(lines) ==
    LET at == Block(lines)
        head == SubSeq(lines, 1, at[1] - 1)
        tail == strip_legacy_orphan_tail(SubSeq(lines, at[2] + 1, Len(lines)))
    IN IF at = <<>> THEN lines
       ELSE IF tail = <<>> /\ Len(head) > 1 /\ Last(head) = "blank" THEN Front(head)
       ELSE head \o tail

\* The files of the working directory, CLAUDE.md if there is neither.
resolve_targets(explicit, there) ==
    IF explicit # None THEN {explicit}
    ELSE IF there = {} THEN {"CLAUDE.md"} ELSE there

infer_skills_agent_from_instruction_targets(targets) ==
    CASE {"CLAUDE.md", "AGENTS.md"} \subseteq targets -> {"claude", "agents"}
      [] "AGENTS.md" \in targets /\ "CLAUDE.md" \notin targets -> {"agents"}
      [] OTHER -> {"claude"}

----------------------------------------------------------------------------
(* Skills: files that are "absent", "managed" (they carry the marker, of any *)
(* release) or "user".                                                       *)

validate_overwrite_safety(plan, skills, force) == force \/ \A f \in plan : skills[f] # "user"

apply_prepared_install(plan, skills) ==
    [f \in DOMAIN skills |-> IF f \in plan THEN "managed" ELSE skills[f]]

\* The skills are vetted before the instructions are written, and written after them.
install_instructions(disk, targets, plan, block, force) ==
    IF ~validate_overwrite_safety(plan, disk.skills, force) THEN disk
    ELSE [instructions |-> [f \in DOMAIN disk.instructions |->
              IF f \in targets THEN merge_instructions_block(disk.instructions[f], block)
              ELSE disk.instructions[f]],
          skills |-> apply_prepared_install(plan, disk.skills)]

\* Only files that carry the marker are planned, and they are looked at again before
\* they are deleted.
generated_file_is_ours(skills, f) == skills[f] = "managed"

apply_change(f, skills) ==
    IF generated_file_is_ours(skills, f) THEN [skills EXCEPT ![f] = "absent"] ELSE skills

----------------------------------------------------------------------------
(* The plan of an uninstall: one rewrite for each file, with its operations. *)

push_rewrite(plan, path, removed, op) ==
    LET at == {i \in DOMAIN plan : plan[i].path = path}
    IN IF removed = {} THEN plan
       ELSE IF at = {} THEN Append(plan, [path |-> path, removed |-> removed, ops |-> <<op>>])
       ELSE [i \in DOMAIN plan |->
                IF i \notin at THEN plan[i]
                ELSE [path |-> path, removed |-> plan[i].removed \cup removed,
                      ops |-> IF \E k \in DOMAIN plan[i].ops : plan[i].ops[k] = op
                              THEN plan[i].ops ELSE Append(plan[i].ops, op)]]

\* What a run does: say what it would, refuse, ask, or remove.
uninstall_run(args, plan, siblings, answer) ==
    IF ~args.apply THEN "dry-run"
    ELSE IF plan = <<>> /\ ~args.purge_data THEN "nothing"
    ELSE IF args.purge_data /\ siblings # {} THEN "busy"
    ELSE IF args.terminal /\ ~args.yes /\ answer # "yes" THEN "aborted"
    ELSE "removed"

WIPE_SUBDIRS == {"wiki", "db", "raw"}

\* The directories are emptied and kept; the others are not touched.
purge_data_dirs(data) == [d \in DOMAIN data |-> IF d \in WIPE_SUBDIRS THEN {} ELSE data[d]]

reset_run(data, confirm, siblings) ==
    IF siblings # {} \/ ~confirm THEN data ELSE purge_data_dirs(data)
=============================================================================
