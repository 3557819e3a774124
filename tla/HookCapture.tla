------------------------------ MODULE HookCapture ------------------------------
(***************************************************************************)
(* What a hook of an agent sends (ai-memory-cli/src/commands/hook.rs,      *)
(* hook_capture.rs, hook_drain_process.rs), what the server understands of *)
(* it (ai-memory-hooks/src/payload.rs), and what is kept out of what it    *)
(* stores (ai-memory-core/src/sanitize.rs).                                *)
(*                                                                         *)
(* A text is a sequence of characters, or of words nothing cuts; what may  *)
(* be missing is a set of at most one.  A JSON value is a record with its  *)
(* type.  Lengths the code fixes are parameters.                           *)
(***************************************************************************)
EXTENDS Naturals, Sequences, FiniteSets, FiniteSetsExt, SequencesExt, Functions

\* The first of a sequence of options that is there.
FirstOf(options) ==
    LET there == SelectSeq(options, LAMBDA o : o # {}) IN IF there = <<>> THEN {} ELSE Head(there)

Blank(text) == \A i \in DOMAIN text : text[i] = " "
Trim(text) ==
    LET ink == {i \in DOMAIN text : text[i] # " "} IN IF ink = {} THEN <<>> ELSE SubSeq(text, Min(ink), Max(ink))
Before(text, c) == SubSeq(text, 1, Min({i \in DOMAIN text : text[i] = c} \cup {Len(text) + 1}) - 1)
Width(c) == CASE c = "eacute" -> 2 [] c = "ellipsis" -> 3 [] OTHER -> 1

-----------------------------------------------------------------------------
(* The server: what is looked for in a body, and where.                    *)

At(value, key) == IF value.type = "object" /\ key \in DOMAIN value.fields THEN {value.fields[key]} ELSE {}
NonEmptyString(value) == IF value.type = "string" /\ value.text # <<>> THEN {value.text} ELSE {}

value_at_path(value, path) ==
    FoldLeft(LAMBDA found, key : UNION {At(v, key) : v \in found}, {value}, path)

Inner(values) == SetToSeq(values)
push_candidates(value) ==
    LET properties == At(value, "properties")
    IN <<value>> \o Inner(properties) \o Inner(UNION {At(p, "info") : p \in properties})
         \o Inner(At(value, "info")) \o Inner(At(value, "path"))

extraction_candidates(value) ==
    push_candidates(value)
      \o FlattenSeq([i \in DOMAIN Inner(At(value, "payload")) |-> push_candidates(Inner(At(value, "payload"))[i])])
      \o FlattenSeq([i \in DOMAIN Inner(At(value, "event")) |-> push_candidates(Inner(At(value, "event"))[i])])

\* The values of the keys, those of the first key in every candidate first.
Found(value, keys) ==
    LET candidates == extraction_candidates(value)
    IN FlattenSeq(FlattenSeq([k \in DOMAIN keys |->
                     [c \in DOMAIN candidates |-> Inner(At(candidates[c], keys[k]))]]))

extract_string(value, keys) ==
    LET found == Found(value, keys) IN FirstOf([i \in DOMAIN found |-> NonEmptyString(found[i])])

extract_string_path(value, paths) ==
    FirstOf([i \in DOMAIN paths |-> UNION {NonEmptyString(v) : v \in value_at_path(value, paths[i])}])

extract_scalar_string(value, keys) ==
    LET found == Found(value, keys)
    IN FirstOf([i \in DOMAIN found |-> IF found[i].type = "integer" THEN {found[i].text}
                                       ELSE NonEmptyString(found[i])])

extract_first_string_array_item(value, keys) ==
    LET items == FlattenSeq([i \in DOMAIN Found(value, keys) |->
                     IF Found(value, keys)[i].type = "array" THEN Found(value, keys)[i].items ELSE <<>>])
    IN FirstOf([i \in DOMAIN items |-> NonEmptyString(items[i])])

\* An object's text counts even where it is empty, and its content else.
RECURSIVE value_to_text(_)
value_to_text(value) ==
    LET texts == [i \in DOMAIN value.items |-> value_to_text(value.items[i])]
        there == SelectSeq(texts, LAMBDA t : t # {})
        lines == FlattenSeq([i \in DOMAIN there |-> (IF i = 1 THEN <<>> ELSE <<"nl">>) \o CHOOSE t \in there[i] : TRUE])
    IN CASE value.type = "string" -> NonEmptyString(value)
         [] value.type = "array" -> IF lines = <<>> THEN {} ELSE {lines}
         [] value.type = "object" ->
                FirstOf(<<{v.text : v \in {t \in At(value, "text") : t.type = "string"}},
                          UNION {value_to_text(v) : v \in At(value, "content")},
                          IF value.fields = <<>> THEN {} ELSE {<<"json">>}>>)
         [] value.type \in {"integer", "number", "boolean"} -> {value.text}
         [] value.type = "null" -> {}

extract_content(value, keys) ==
    LET found == Found(value, keys)
    IN FirstOf([i \in DOMAIN found |-> {t \in value_to_text(found[i]) : t # <<>>}])

-----------------------------------------------------------------------------
(* The server: the envelope made of a query and a body.                    *)

Spellings ==
    [SessionStart |-> {"session-start", "session_start", "SessionStart", "sessionStart"},
     UserPrompt |-> {"user-prompt", "user_prompt", "user-prompt-submit", "user_prompt_submit",
                     "UserPromptSubmit", "beforeSubmitPrompt"},
     PreToolUse |-> {"pre-tool-use", "pre_tool_use", "PreToolUse", "preToolUse", "BeforeTool"},
     PostToolUse |-> {"post-tool-use", "post_tool_use", "PostToolUse", "postToolUse",
                      "postToolUseFailure", "PostToolUseFailure", "AfterTool"},
     PreCompact |-> {"pre-compact", "pre_compact", "PreCompact", "preCompact", "PreCompress"},
     PostCompaction |-> {"post-compaction", "post_compaction", "PostCompaction"},
     Notification |-> {"notification", "Notification"},
     Stop |-> {"stop", "Stop"},
     SessionEnd |-> {"session-end", "session_end", "SessionEnd", "sessionEnd"},
     SubagentStart |-> {"subagent-start", "subagent_start", "SubagentStart", "subagentStart"},
     SubagentStop |-> {"subagent-stop", "subagent_stop", "SubagentStop", "subagentStop",
                       "subagent-end", "SubagentEnd"}]
HookEvents == DOMAIN Spellings \cup {"Other"}

parse_event(name) ==
    IF \E e \in DOMAIN Spellings : name \in Spellings[e]
    THEN CHOOSE e \in DOMAIN Spellings : name \in Spellings[e] ELSE "Other"

\* A subagent's comings and goings are observations of no kind of their own.
to_observation_kind(event) == IF event \in {"SubagentStart", "SubagentStop"} THEN "Other" ELSE event

ProjectStrategy(value) == IF value \in {{"repo-root"}, {"repo_root"}} THEN "RepoRoot" ELSE "Basename"

body_is_subagent(raw) ==
    \E key \in {"subagentType", "agent_type", "agent_id"} :
        \E v \in At(raw, key) : v.type = "string" /\ ~Blank(v.text)

\* The flag as it reads in lower case without the spaces around it.
query_flag_truthy(flag) == flag \in {{"1"}, {"true"}, {"yes"}, {"on"}}

truncate_for_title(text, max) ==
    LET line == Before(text, "nl") IN IF Len(line) <= max THEN line ELSE SubSeq(line, 1, max - 1) \o <<"ellipsis">>

Bytes(text) == FoldLeft(LAMBDA sum, c : sum + Width(c), 0, text)
truncate_excerpt(text, max) ==
    IF Bytes(text) <= max THEN text
    ELSE SubSeq(text, 1, Max({n \in 0..Len(text) : Bytes(SubSeq(text, 1, n)) <= max})) \o <<"ellipsis">>

\* Letters, digits, dots, dashes, colons and underscores within the length.
Strange == {" ", "nl", "/", "eacute", "ellipsis", "&", "=", "#", "?", "%", "+"}
normalize_token(value, max) ==
    LET trimmed == Trim(value)
    IN IF trimmed # <<>> /\ Bytes(trimmed) <= max /\ \A i \in DOMAIN trimmed : trimmed[i] \notin Strange
       THEN {trimmed} ELSE {}

ToolOf(raw) ==
    FirstOf(<<extract_string(raw, <<"tool", "tool_name", "name">>),
              extract_string_path(raw, <<<<"toolCall", "name">>>>),
              {<<"step">> \o s : s \in extract_scalar_string(raw, <<"stepIdx">>)}>>)

best_title_hint(event, raw, max) ==
    CASE event = "SessionStart" -> extract_string(raw, <<"model", "title">>)
      [] event = "UserPrompt" -> {truncate_for_title(s, max) : s \in extract_string(raw, <<"prompt", "message", "text">>)}
      [] event \in {"PreToolUse", "PostToolUse"} -> ToolOf(raw)
      [] event = "Notification" -> extract_string(raw, <<"message", "text">>)
      [] event = "PostCompaction" -> extract_string(raw, <<"summary">>)
      [] OTHER -> {}

\* The output of a tool without a name is not kept, and only a tool's output is cut.
best_body_excerpt(event, raw, max) ==
    LET output == FirstOf(<<extract_content(raw, <<"tool_response", "tool_output", "output", "result">>),
                            extract_content(raw, <<"error">>), {<<"(no output captured)">>}>>)
    IN CASE event = "UserPrompt" -> extract_content(raw, <<"prompt", "message", "text">>)
         [] event = "PostToolUse" ->
                {tool \o <<"nl">> \o truncate_excerpt(o, max) : tool \in ToolOf(raw), o \in output}
         [] event = "Notification" -> extract_content(raw, <<"message", "text">>)
         [] event = "PostCompaction" -> extract_content(raw, <<"summary">>)
         [] OTHER -> {}

extension_title_hint(raw, source_event, max) ==
    LET title == extract_string(raw, <<"title", "summary", "subject", "name">>)
    IN IF title = {} THEN source_event ELSE truncate_for_title(CHOOSE s \in title : TRUE, max)

extension_body_excerpt(raw, max) ==
    {truncate_excerpt(s, max) :
        s \in extract_string(raw, <<"body", "message", "text", "description", "summary", "details">>)}

SessionKeys == <<"session_id", "sessionId", "sessionID", "session", "conversationId">>
SessionPaths ==
    <<<<"info", "id">>, <<"properties", "sessionID">>, <<"properties", "info", "id">>,
      <<"event", "properties", "sessionID">>, <<"event", "properties", "info", "id">>,
      <<"payload", "info", "id">>, <<"payload", "properties", "sessionID">>,
      <<"payload", "properties", "info", "id">>>>
CwdPaths ==
    <<<<"path", "cwd">>, <<"info", "directory">>, <<"properties", "info", "directory">>,
      <<"event", "properties", "info", "directory">>, <<"payload", "path", "cwd">>,
      <<"payload", "info", "directory">>, <<"payload", "properties", "info", "directory">>>>
NonEmpty(option) == {s \in option : s # <<>>}

\* The body speaks before the query; an extension counts only with the event it reports.
from_query_and_body(query, raw, title_max, excerpt_max) ==
    LET event == parse_event(query.event)
        named == UNION {normalize_token(e, 64) : e \in query.extension}
        reported == IF query.source_event # {} THEN query.source_event
                    ELSE {<<query.event>> : e \in {"Other"} \cap {event}}
        source == IF named = {} THEN {} ELSE UNION {normalize_token(e, 128) : e \in reported}
    IN [event |-> event,
        session_id |-> FirstOf(<<extract_string(raw, SessionKeys), extract_string_path(raw, SessionPaths),
                                 NonEmpty(query.session_id)>>),
        cwd |-> FirstOf(<<extract_string(raw, <<"cwd", "current_dir", "working_dir", "directory">>),
                          extract_first_string_array_item(raw, <<"workspacePaths">>),
                          extract_string_path(raw, CwdPaths), NonEmpty(query.cwd)>>),
        workspace_override |-> NonEmpty(query.workspace),
        project_override |-> NonEmpty(query.project),
        project_strategy |-> ProjectStrategy(query.project_strategy),
        drop_subagent_requested |-> query_flag_truthy(query.drop_subagent),
        recall_default_global_requested |-> query_flag_truthy(query.default_global),
        extension |-> IF source = {} THEN {} ELSE named,
        source_event |-> source,
        title_hint |-> FirstOf(<<best_title_hint(event, raw, title_max),
                                 {extension_title_hint(raw, s, title_max) : s \in source}>>),
        body_excerpt |-> FirstOf(<<best_body_excerpt(event, raw, excerpt_max),
                                   UNION {extension_body_excerpt(raw, excerpt_max) : s \in source}>>)]

-----------------------------------------------------------------------------
(* The client: what it adds to the address of a hook.                      *)

extract_cwd(payload) == {v.text : v \in {c \in At(payload, "cwd") : c.type = "string"}}
non_empty(option) == {s \in option : ~Blank(s)}

resolve_cwd_with_fallbacks(payload, project_dir, current_dir) ==
    FirstOf(<<non_empty(extract_cwd(payload)), non_empty(project_dir), non_empty(current_dir)>>)

Escapes == [c \in {"%", "+", "&", "=", "?", "#", " ", "/"} |-> <<"%", c>>]
url_encode(text) == FlattenSeq([i \in DOMAIN text |-> IF text[i] \in DOMAIN Escapes THEN Escapes[text[i]] ELSE <<text[i]>>])

\* A directory is the sequence of its names; the search goes up to home, or to the root.
find_marker(cwd, home, markers) ==
    LET above == {n \in 0..Len(cwd) : \A m \in (n + 1)..Len(cwd) : {SubSeq(cwd, 1, m)} # home}
        found == {n \in above : SubSeq(cwd, 1, n) \in DOMAIN markers}
    IN IF found = {} THEN {} ELSE {SubSeq(cwd, 1, Max(found))}

\* A line of a marker is [key, quote, text], quote being closed, open or none.
parse_toml_key(lines, key) ==
    FirstOf([i \in DOMAIN lines |->
                {line.text : line \in {l \in {lines[i]} : l.key = key /\ l.quote = "closed"}}])

parse_toml_flag(lines, key) ==
    FirstOf([i \in DOMAIN lines |->
                {Before(l.text, "#") : l \in {k \in {lines[i]} : k.key = key /\ Before(k.text, "#") # <<>>}}])

\* repo_root is the name of the main repository's directory, where there is one.
marker_query_suffix(cwd, default_strategy, home, markers, repo_root) ==
    LET marker == find_marker(cwd, home, markers)
        Key(key) == UNION {parse_toml_key(markers[m], key) : m \in marker}
        Flag(key) == UNION {parse_toml_flag(markers[m], key) : m \in marker}
        strategy == IF Key("project_strategy") # {} THEN Key("project_strategy") ELSE default_strategy
        named == Key("project") # {} \/ strategy \notin {{<<"repo-root">>}, {<<"repo_root">>}}
    IN [workspace |-> Key("workspace"),
        project |-> IF named THEN Key("project") ELSE {<<name>> : name \in repo_root},
        project_strategy |-> strategy,
        drop_subagent |-> NonEmpty(Key("drop_subagent_captures")),
        default_global |-> Flag("default_global"),
        briefing |-> Flag("inject_on_session_start"),
        briefing_budget |-> Flag("max_chars")]

\* Only Devin's hooks look beyond the payload; without a directory nothing is added.
cwd_query_suffix(agent, raw, project_dir, current_dir) ==
    IF agent = "devin" THEN resolve_cwd_with_fallbacks(raw, project_dir, current_dir) ELSE non_empty(extract_cwd(raw))

payload_has_session_id(raw) ==
    \E key \in Range(SessionKeys) : \E v \in At(raw, key) : v.type = "string" /\ ~Blank(v.text)

\* The id in the state file of Devin: a session's start renews it, another hook takes it as
\* it is, trimmed, or makes one where there is none.
session_id_query_suffix(stored, agent, event, raw, fresh) ==
    LET kept == {id \in {Trim(s) : s \in stored} : id # <<>>}
    IN IF agent # "devin" \/ payload_has_session_id(raw) THEN [sent |-> {}, stored |-> stored]
       ELSE IF event # "session-start" /\ kept # {} THEN [sent |-> kept, stored |-> stored]
       ELSE [sent |-> {fresh}, stored |-> {fresh}]

\* One hook of an agent, as far as the id goes: the end of a session forgets it.
run_with_payload(stored, agent, event, raw, fresh) ==
    LET sent == session_id_query_suffix(stored, agent, event, raw, fresh)
    IN IF agent = "devin" /\ event = "session-end" THEN [sent EXCEPT !.stored = {}] ELSE sent

MAX_OVERRIDE_MINUTES == 60
\* {} stands for what is not a number.
parse_minutes(raw, default) ==
    LET minutes == {n \in raw : n > 0} IN IF minutes = {} THEN default ELSE 60 * Min(minutes \cup {MAX_OVERRIDE_MINUTES})
Timeouts == [drain |-> 3, handoff |-> 3, start |-> 3, background |-> 300]
env_minutes(env) == [name \in DOMAIN Timeouts |-> parse_minutes(env[name], Timeouts[name])]
incremental_drain_threshold(raw) ==
    LET n == {k \in raw : k > 0} IN IF n = {} THEN 32 ELSE CHOOSE k \in n : TRUE

\* An empty variable is a directory of its own.
resolve_data_dir(arg, env, default) ==
    LET dir == CHOOSE d \in FirstOf(<<arg, env, {default}>>) : TRUE
    IN IF dir # <<>> /\ dir[1] = "verbatim" THEN Tail(dir) ELSE dir

-----------------------------------------------------------------------------
(* The client: the process that drains in the background, which no error   *)
(* of its start may turn into an error of the hook.                        *)

rotate_oversized_log(log, max) == IF log.size > max THEN [size |-> 0, old |-> log.size] ELSE log

detach_config(os, setsid, breakaway) ==
    CASE os = "unix" -> [session |-> IF setsid = {} THEN "process_group" ELSE "setsid", breakaway |-> FALSE]
      [] os = "windows" -> [session |-> "detached", breakaway |-> breakaway]
      [] OTHER -> [session |-> "none", breakaway |-> FALSE]

should_retry_without_breakaway(os, failure) == os = "windows" /\ failure = "denied"

\* outcomes[breakaway] is what starting the process comes to.
spawn_spec(os, setsid, log, max, outcomes) ==
    LET rotated == rotate_oversized_log(log, max)
        First == detach_config(os, setsid, TRUE)
        Second == detach_config(os, setsid, FALSE)
        line == [rotated EXCEPT !.size = @ + 1]
    IN IF outcomes[First.breakaway] = "started" THEN [ok |-> TRUE, how |-> {First}, log |-> rotated]
       ELSE IF ~should_retry_without_breakaway(os, outcomes[First.breakaway])
       THEN [ok |-> FALSE, how |-> {}, log |-> rotated]
       ELSE IF outcomes[Second.breakaway] = "started" THEN [ok |-> TRUE, how |-> {Second}, log |-> line]
       ELSE [ok |-> FALSE, how |-> {}, log |-> line]

-----------------------------------------------------------------------------
(* The sanitizer: a pattern is the set of the texts it matches.            *)

BUILTIN_PATTERNS ==
    <<"bearer", "sk-", "sk_live_", "ghp_", "github_pat_", "AKIA", "AIza", "xox", "xapp", "jwt", "private key",
      "url with password", "known variable", "variable", ".ssh", ".aws", ".kube", ".config/gcloud", ".gnupg">>

\* matches[p] is {} where p is no regular expression at all.
NewSanitizer(extra, allowlist, matches) ==
    LET patterns == BUILTIN_PATTERNS \o extra
    IN IF \E i \in DOMAIN patterns : matches[patterns[i]] = {} THEN {}
       ELSE {[patterns |-> [i \in DOMAIN patterns |-> CHOOSE m \in matches[patterns[i]] : TRUE], allowlist |-> allowlist]}

HasPart(text, part) == \E i \in 1..(Len(text) + 1 - Len(part)) : SubSeq(text, i, i + Len(part) - 1) = part

\* From left to right, the longest match first; what is put in its place is not looked at again.
RECURSIVE replace_all(_, _, _)
replace_all(pattern, allowlist, text) ==
    LET here == {n \in 1..Len(text) : SubSeq(text, 1, n) \in pattern}
        match == SubSeq(text, 1, Max(here))
    IN IF text = <<>> THEN <<>>
       ELSE IF here = {} THEN <<Head(text)>> \o replace_all(pattern, allowlist, Tail(text))
       ELSE (IF \E a \in allowlist : HasPart(match, a) THEN match ELSE <<"[REDACTED]">>)
              \o replace_all(pattern, allowlist, SubSeq(text, Max(here) + 1, Len(text)))

scrub(sanitizer, text) ==
    FoldLeft(LAMBDA out, pattern : replace_all(pattern, sanitizer.allowlist, out), text, sanitizer.patterns)

Sanitized(obs, sanitizer) ==
    [obs EXCEPT !.title = scrub(sanitizer, @), !.body = scrub(sanitizer, @)]

-----------------------------------------------------------------------------
(* Beside the ingestion of hooks (HookIngest), what the router of          *)
(* ai-memory-hooks keeps and tells: the subagents whose events it drops, the *)
(* allowance of each sender, the project a directory stands for, the brief *)
(* an agent is given when a session starts (src/router.rs), the page of a  *)
(* session (src/synth.rs) and the log of a project (src/log.rs).           *)
(*                                                                         *)
(* Lengths are in bytes and sizes the code fixes are parameters.           *)
Without(order, key) == SelectSeq(order, LAMBDA k : k # key)

-----------------------------------------------------------------------------
(* The subagents being dropped: the order of their last mark, the oldest   *)
(* first.                                                                  *)

insert(order, key, max) ==
    LET marked == Append(Without(order, key), key)
    IN SubSeq(marked, 1 + (IF Len(marked) > max THEN Len(marked) - max ELSE 0), Len(marked))

\* An event is [requested, session, scope, marked, end]: a session or a scope that cannot be
\* found out lets it through. The answer says whether it is dropped and who is tracked then.
should_drop_subagent(order, env, max) ==
    LET key == <<env.scope, env.session>>
        tracked == key \in ToSet(order)
    IN IF ~env.requested \/ "none" \in {env.session, env.scope} THEN [drop |-> FALSE, order |-> order]
       ELSE IF env.marked THEN [drop |-> TRUE, order |-> insert(order, key, max)]
       ELSE [drop |-> tracked, order |-> IF tracked /\ env.end THEN Without(order, key) ELSE order]

-----------------------------------------------------------------------------
(* The allowance of a sender: a bucket of at most burst tokens, filled by  *)
(* refill a tick.  When there are too many buckets the one that was made   *)
(* first goes.                                                             *)

NewLimiter(refill, burst, max) ==
    [buckets |-> <<>>, order |-> <<>>, refill |-> refill, burst |-> Max({burst, 1}), max |-> max]

bounded_rate_key(key, max) == IF key.size <= max THEN key ELSE [id |-> key.id, size |-> 18]

\* A sender is a user's session, or the whole event where there is none.
ingest_rate_key(env, user) ==
    IF env.session_id # "" THEN <<user, "s", env.session_id>>
    ELSE <<user, "missing", env.agent, env.event, env.cwd, env.workspace, env.project, env.strategy, env.raw>>

try_take(limiter, key, now) ==
    LET known == key \in DOMAIN limiter.buckets
        order == IF known THEN limiter.order ELSE Append(limiter.order, key)
        kept == SubSeq(order, 1 + (IF Len(order) > limiter.max THEN Len(order) - limiter.max ELSE 0), Len(order))
        Bucket(k) == IF k \in DOMAIN limiter.buckets THEN limiter.buckets[k] ELSE [tokens |-> limiter.burst, at |-> now]
        elapsed == IF now > Bucket(key).at THEN now - Bucket(key).at ELSE 0
        tokens == Min({Bucket(key).tokens + elapsed * limiter.refill, limiter.burst})
        taken == [tokens |-> IF tokens > 0 THEN tokens - 1 ELSE tokens, at |-> now]
    IN IF limiter.refill = 0 THEN [ok |-> TRUE, limiter |-> limiter]
       ELSE [ok |-> key \notin ToSet(kept) \/ tokens > 0,
             limiter |-> [limiter EXCEPT !.order = kept,
                                         !.buckets = [k \in ToSet(kept) |-> IF k = key THEN taken ELSE Bucket(k)]]]

-----------------------------------------------------------------------------
(* The project of a directory.  A path is a sequence of names; canonical   *)
(* gives the paths that exist the place they are, and repo is what git     *)
(* says of the directory: its root and its main root, or {}.               *)

cwd_is_repo_root(cwd, root, canonical) ==
    IF {cwd, root} \subseteq DOMAIN canonical THEN canonical[cwd] = canonical[root] ELSE cwd = root

\* The root as the directory's own name would have it, or as git does where no part of it is the root.
repo_root_in_cwd_namespace(cwd, root, canonical) ==
    LET same == {n \in 0..Len(cwd) : /\ {SubSeq(cwd, 1, n), root} \subseteq DOMAIN canonical
                                     /\ canonical[SubSeq(cwd, 1, n)] = canonical[root]}
    IN IF same = {} THEN root ELSE SubSeq(cwd, 1, Max(same))

repo_path_from_cwd(cwd, repo, canonical) ==
    {repo_root_in_cwd_namespace(cwd, root, canonical) :
        root \in {r \in repo.root : cwd_is_repo_root(cwd, r, canonical)}}

derive_project_from_cwd(cwd, strategy, repo, canonical) ==
    LET roots == {r \in repo.main : strategy = "RepoRoot" /\ r # <<>>}
    IN IF roots # {} THEN {[name |-> Last(r), repo_path |-> {repo_root_in_cwd_namespace(cwd, r, canonical)}] : r \in roots}
       ELSE IF cwd = <<>> THEN {}
       ELSE {[name |-> Last(cwd), repo_path |-> repo_path_from_cwd(cwd, repo, canonical)]}

repo_path_from_project_override(cwd, project, strategy, repo, canonical) ==
    LET visible == {v \in {repo_root_in_cwd_namespace(cwd, r, canonical) : r \in repo.main} :
                      strategy = "RepoRoot" /\ v # <<>> /\ Last(v) = project}
    IN IF visible # {} THEN visible ELSE repo_path_from_cwd(cwd, repo, canonical)

-----------------------------------------------------------------------------
(* What an agent is told: texts are the lengths of their parts.            *)

BriefPageLimits == [core |-> 24, recent |-> 10]

brief_budget(asked, default, min, max) ==
    LET budget == IF asked = {} THEN default ELSE CHOOSE n \in asked : TRUE
    IN CASE budget < min -> min [] budget > max -> max [] OTHER -> budget

truncate_at_char_boundary(widths, max) ==
    LET Size(n) == FoldLeft(LAMBDA sum, w : sum + w, 0, SubSeq(widths, 1, n))
    IN SubSeq(widths, 1, CHOOSE n \in 0..Len(widths) : /\ Size(n) <= max
                                                       /\ n < Len(widths) => Size(n + 1) > max)

\* A page is [path, header, body], the lengths of both.
RECURSIVE BriefPages(_, _, _, _)
BriefPages(core, used, budget, note) ==
    IF core = <<>> THEN [shown |-> <<>>, omitted |-> <<>>, used |-> used]
    ELSE LET page == Head(core)
             fits == used + page.header < budget
             remaining == budget - used - page.header
             cut == page.body > remaining
             after == used + page.header + (IF cut THEN remaining + note ELSE page.body + 1)
             rest == BriefPages(Tail(core), IF fits THEN after ELSE used, budget, note)
             entry == [path |-> page.path, cut |-> cut]
         IN [rest EXCEPT !.shown = IF fits THEN <<entry>> \o @ ELSE @,
                         !.omitted = IF fits THEN @ ELSE <<page.path>> \o @]

\* What is omitted, the titles of recent pages and the last words are outside of the budget.
render_session_brief(core, recent, budget, intro, note) ==
    IF core = <<>> /\ recent = <<>> THEN {}
    ELSE LET pages == BriefPages(core, intro, budget, note)
         IN {[shown |-> pages.shown, omitted |-> pages.omitted, recent |-> recent, used |-> pages.used]}

render_handoff_markdown(h) ==
    LET lists == <<"open_questions", "next_steps", "files_touched">>
    IN SelectSeq(lists, LAMBDA section : h[section] # <<>>) \o <<"summary">>

\* A failure to find a handoff or the brief's pages is the same as having none to the agent,
\* though what was found first may be accepted by then.
handle_handoff(handoff, accepted, briefing, brief) ==
    LET parts == (IF handoff = {} THEN <<>> ELSE <<"handoff">>)
                   \o (IF briefing /\ brief = "pages" THEN <<"brief">> ELSE <<>>)
    IN CASE handoff # {} /\ ~accepted -> [body |-> <<>>, consumed |-> FALSE]
         [] briefing /\ brief = "fails" -> [body |-> <<>>, consumed |-> handoff # {}]
         [] OTHER -> [body |-> parts, consumed |-> handoff # {}]

-----------------------------------------------------------------------------
(* The page of a session and the log: an observation is [kind, title,      *)
(* extension, source_event].                                               *)

derive_title(observations) ==
    LET titled == SelectSeq(observations, LAMBDA o : o.title # "")
        prompts == SelectSeq(titled, LAMBDA o : o.kind = "user-prompt")
    IN CASE prompts # <<>> -> Head(prompts).title [] titled # <<>> -> Head(titled).title [] OTHER -> "session"

render_raw_observations(observations, head, tail) ==
    LET n == Len(observations)
    IN IF n <= head + tail THEN [lines |-> observations, omitted |-> 0]
       ELSE [lines |-> SubSeq(observations, 1, head) \o SubSeq(observations, n - tail + 1, n),
             omitted |-> n - head - tail]

observation_kind_label(o) ==
    IF "" \in {o.extension, o.source_event} THEN <<o.kind>> ELSE <<o.kind, o.extension, o.source_event>>

\* The last start and the last end count, and a tool counts when it has run.
render_body(observations, head, tail) ==
    LET OfKind(kind) == {i \in DOMAIN observations : observations[i].kind = kind}
        LastOf(kind) == IF OfKind(kind) = {} THEN 0 ELSE Max(OfKind(kind))
        ran == {i \in OfKind("post-tool-use") : observations[i].title # ""}
        tools == {observations[i].title : i \in ran}
        prompts == SelectSeq(observations, LAMBDA o : o.kind = "user-prompt")
    IN [started |-> LastOf("session-start"), ended |-> LastOf("session-end"),
        prompts |-> [i \in DOMAIN prompts |-> prompts[i].title],
        tools |-> [t \in tools |-> Cardinality({i \in ran : observations[i].title = t})],
        raw |-> render_raw_observations(observations, head, tail)]

synthesize_session_page(session, observations, head, tail) ==
    [path |-> <<"sessions", session>>, title |-> derive_title(observations),
     body |-> render_body(observations, head, tail), tier |-> "episodic", pinned |-> FALSE]

format_line(event, title, max) ==
    LET line == [i \in DOMAIN title |-> IF title[i] \in {"nl", "cr"} THEN " " ELSE title[i]]
    IN <<event>> \o SubSeq(line, 1, Min({Len(line), max}))

\* A line goes to the log of its month, after those that are there.
append_event(logs, month, event, title, max) ==
    [m \in DOMAIN logs \cup {month} |->
        LET old == IF m \in DOMAIN logs THEN logs[m] ELSE <<>>
        IN IF m = month THEN Append(old, format_line(event, title, max)) ELSE old]
=============================================================================
