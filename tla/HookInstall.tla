---------------------------- MODULE HookInstall ----------------------------
(* What `ai-memory install-hooks` writes into an agent's hook settings and   *)
(* what `ai-memory uninstall` takes out of them (ai-memory-cli:             *)
(* install_hooks.rs, render_shared.rs, apply_shared.rs, uninstall.rs).       *)
(*                                                                         *)
(* A command is what the two recognisers look at: the marks its text carries *)
(* ("name": ai-memory is mentioned, "env": AI_MEMORY_HOOK_URL is set, "cli": *)
(* `hook --event .. --agent .. --server-url ..`), whether it has an argument *)
(* list ("none", "cli", "other"), and what it runs. An entry of an event is  *)
(* a command or a group of commands. The object of hooks of a settings file  *)
(* maps each event to a value, which may be no array.                        *)
EXTENDS Sequences, SequencesExt, FiniteSets, TLC

----------------------------------------------------------------------------
(* The events of each agent and the hook each of them runs. *)

CLAUDE_CODE_EVENTS ==
    [SessionStart |-> "session-start", UserPromptSubmit |-> "user-prompt-submit",
     PreToolUse |-> "pre-tool-use", PostToolUse |-> "post-tool-use",
     PreCompact |-> "pre-compact", Stop |-> "stop", SessionEnd |-> "session-end",
     SubagentStart |-> "subagent-start", SubagentStop |-> "subagent-stop"]

DEVIN_EVENTS ==
    [SessionStart |-> "session-start", UserPromptSubmit |-> "user-prompt-submit",
     PreToolUse |-> "pre-tool-use", PostToolUse |-> "post-tool-use",
     PostCompaction |-> "post-compaction", Stop |-> "stop", SessionEnd |-> "session-end"]

\* Codex has no event for the end of a session.
CODEX_EVENTS ==
    [SessionStart |-> "session-start", UserPromptSubmit |-> "user-prompt-submit",
     PreToolUse |-> "pre-tool-use", PostToolUse |-> "post-tool-use",
     PreCompact |-> "pre-compact", Stop |-> "stop"]

CURSOR_EVENTS ==
    [sessionStart |-> "session-start", sessionEnd |-> "session-end",
     beforeSubmitPrompt |-> "user-prompt-submit", preToolUse |-> "pre-tool-use",
     postToolUse |-> "post-tool-use", postToolUseFailure |-> "post-tool-use",
     preCompact |-> "pre-compact", stop |-> "stop"]

GEMINI_EVENTS ==
    [SessionStart |-> "session-start", SessionEnd |-> "session-end",
     BeforeTool |-> "pre-tool-use", AfterTool |-> "post-tool-use",
     PreCompress |-> "pre-compact"]

ANTIGRAVITY_TOOL_EVENTS == [PreToolUse |-> "pre-tool-use", PostToolUse |-> "post-tool-use"]

ANTIGRAVITY_LIFECYCLE_EVENTS == [PreInvocation |-> "session-start", Stop |-> "stop"]

ZERO_EVENTS ==
    [sessionStart |-> "session-start", sessionEnd |-> "session-end",
     beforeTool |-> "pre-tool-use", afterTool |-> "post-tool-use",
     specialistStart |-> "subagent-start", specialistStop |-> "subagent-stop"]

----------------------------------------------------------------------------
(* The payload: one command per event. *)

\* Agents whose runner is a shell run the binary, the others the staged script;
\* a platform named by the environment wins.
HookPlatform(agent, override, windows) ==
    IF override # "none" THEN override
    ELSE IF agent \in {"claude-code", "grok", "devin"}
         THEN IF windows THEN "windows-native" ELSE "posix-native"
         ELSE IF windows THEN "windows" ELSE "posix"

Native(platform) == platform \in {"windows-native", "posix-native"}

\* A script's command sets AI_MEMORY_HOOK_URL; a native one spells the subcommand.
\* `named`: the path of the running binary mentions ai-memory.
hook_command(platform, agent, stem, url, named) ==
    [says |-> IF Native(platform) THEN {"cli"} \cup (IF named THEN {"name"} ELSE {})
              ELSE {"env", "name"},
     args |-> "none", runs |-> stem, agent |-> agent, url |-> url]

windows_native_exec_spec(agent, stem, url, named) ==
    [says |-> IF named THEN {"name"} ELSE {},
     args |-> "cli", runs |-> stem, agent |-> agent, url |-> url]

\* Only Claude Code on Windows gets the executable and its arguments apart.
hook_handler_spec(platform, agent, stem, url, named) ==
    IF agent = "claude-code" /\ platform = "windows-native"
    THEN windows_native_exec_spec(agent, stem, url, named)
    ELSE hook_command(platform, agent, stem, url, named)

NoCommand == [says |-> {}, args |-> "none", runs |-> "nothing", agent |-> "none", url |-> "none"]

Flat(command) == [nested |-> FALSE, command |-> command, hooks |-> <<>>]

Group(hooks) == [nested |-> TRUE, command |-> NoCommand, hooks |-> hooks]

Array(entries) == [array |-> TRUE, entries |-> entries]

HookShape(agent) == IF agent = "cursor" THEN "flat" ELSE "nested"

EventsOf(agent) ==
    CASE agent \in {"claude-code", "grok"} -> CLAUDE_CODE_EVENTS
      [] agent = "devin" -> DEVIN_EVENTS
      [] agent = "codex" -> CODEX_EVENTS
      [] agent = "cursor" -> CURSOR_EVENTS
      [] agent = "gemini-cli" -> GEMINI_EVENTS
      [] agent = "antigravity-cli" ->
            ANTIGRAVITY_TOOL_EVENTS @@ ANTIGRAVITY_LIFECYCLE_EVENTS

build_hook_payload_for_platform(agent, platform, url, named) ==
    [event \in DOMAIN EventsOf(agent) |->
        LET handler == hook_handler_spec(platform, agent, EventsOf(agent)[event], url, named)
        IN Array(<<IF HookShape(agent) = "flat" THEN Flat(handler) ELSE Group(<<handler>>)>>)]

\* Antigravity groups its tool events and lists its lifecycle events flat.
build_antigravity_payload_for_platform(platform, url, named) ==
    LET Command(stem) == hook_command(platform, "antigravity-cli", stem, url, named)
    IN [event \in DOMAIN ANTIGRAVITY_TOOL_EVENTS |->
            Array(<<Group(<<Command(ANTIGRAVITY_TOOL_EVENTS[event])>>)>>)]
       @@ [event \in DOMAIN ANTIGRAVITY_LIFECYCLE_EVENTS |->
            Array(<<Flat(Command(ANTIGRAVITY_LIFECYCLE_EVENTS[event]))>>)]

Payload(agent, platform, url, named) ==
    IF agent = "antigravity-cli"
    THEN build_antigravity_payload_for_platform(platform, url, named)
    ELSE build_hook_payload_for_platform(agent, platform, url, named)

----------------------------------------------------------------------------
(* Installing. *)

Named(command) == command.says \cap {"name", "env"} # {}

mentions_ai_memory(command) == Named(command) /\ command.args # "other"

\* An entry is ours as soon as one of its commands is.
is_ai_memory_hook_entry(entry) ==
    \/ mentions_ai_memory(entry.command)
    \/ \E i \in DOMAIN entry.hooks : mentions_ai_memory(entry.hooks[i])

NotOurs(entry) == ~is_ai_memory_hook_entry(entry)

\* Our entries of the event are replaced; a value that is no array is dropped.
overlay_event_hooks(map, event, ours) ==
    LET kept == IF event \in DOMAIN map /\ map[event].array
                THEN SelectSeq(map[event].entries, NotOurs) ELSE <<>>
    IN (event :> Array(kept \o ours.entries)) @@ map

\* The events of the payload, one after the other.
Overlay(map, payload) ==
    [event \in DOMAIN map \cup DOMAIN payload |->
        IF event \in DOMAIN payload
        THEN overlay_event_hooks(map, event, payload[event])[event] ELSE map[event]]

\* A file: there or not, well-formed or not, the key that holds the hooks ("absent",
\* "object" or something "other"), its events, and the backups by the second.
Absent == [exists |-> FALSE, valid |-> TRUE, key |-> "absent", events |-> <<>>]

\* mutate_json and the `hooks` lookup refuse what is not JSON or not an object.
Refused(file) == ~file.valid \/ file.key = "other"

\* A changed file is backed up under the second of the change, then replaced at once.
apply_atomic(disk, new, now) ==
    IF disk.file.exists /\ new = disk.file THEN disk
    ELSE [file |-> new,
          backups |-> IF disk.file.exists THEN (now :> disk.file) @@ disk.backups
                      ELSE disk.backups]

Merged(file, payload) ==
    [file EXCEPT !.exists = TRUE, !.key = "object", !.events = Overlay(file.events, payload)]

DropEvent(map, event) == [e \in DOMAIN map \ {event} |-> map[e]]

apply_to_claude_code_settings(file, payload) == Merged(file, payload)

apply_to_grok_settings(file, payload) == Merged(file, payload)

\* hooks.v1.json holds the events at its root, config.json under `hooks`: the same events.
apply_to_devin_settings(file, payload) == Merged(file, payload)

\* A SessionEnd entry of an older install is never heard by Codex: it goes, whoever wrote it.
merge_codex_hooks(file, payload) ==
    Merged([file EXCEPT !.events = DropEvent(file.events, "SessionEnd")], payload)

merge_cursor_hooks(file, payload) == Merged(file, payload)

merge_gemini_hooks(file, payload) == Merged(file, payload)

merge_antigravity_hooks(file, payload) == Merged(file, payload)

InstalledFile(agent, file, payload) ==
    CASE agent = "claude-code" -> apply_to_claude_code_settings(file, payload)
      [] agent = "grok" -> apply_to_grok_settings(file, payload)
      [] agent = "devin" -> apply_to_devin_settings(file, payload)
      [] agent = "codex" -> merge_codex_hooks(file, payload)
      [] agent = "cursor" -> merge_cursor_hooks(file, payload)
      [] agent = "gemini-cli" -> merge_gemini_hooks(file, payload)
      [] agent = "antigravity-cli" -> merge_antigravity_hooks(file, payload)

install_hooks(disk, agent, platform, url, named, now) ==
    IF Refused(disk.file) THEN disk
    ELSE apply_atomic(disk, InstalledFile(agent, disk.file, Payload(agent, platform, url, named)),
                      now)

----------------------------------------------------------------------------
(* Uninstalling. *)

hook_command_is_ours(command) ==
    "env" \in command.says \/ {"name", "cli"} \subseteq command.says

hook_entry_is_ours(command) ==
    hook_command_is_ours(command) \/ (Named(command) /\ command.args = "cli")

ForeignCommand(command) == ~hook_entry_is_ours(command)

\* What is left of an entry: its foreign commands, or nothing (an empty group goes too).
strip_hook_entry(entry) ==
    IF hook_entry_is_ours(entry.command) THEN <<>>
    ELSE IF ~entry.nested THEN <<entry>>
    ELSE LET kept == SelectSeq(entry.hooks, ForeignCommand)
         IN IF kept = <<>> THEN <<>> ELSE <<[entry EXCEPT !.hooks = kept]>>

Stripped(entries) ==
    FoldLeft(LAMBDA kept, entry : kept \o strip_hook_entry(entry), <<>>, entries)

\* An event without entries goes with them; a value that is no array stays.
strip_hook_events(events) ==
    LET Left(event) == IF events[event].array THEN Array(Stripped(events[event].entries))
                       ELSE events[event]
    IN [event \in {e \in DOMAIN events : Left(e) # Array(<<>>)} |-> Left(event)]

removed_events(events) ==
    {event \in DOMAIN events :
        events[event].array /\ \E i \in DOMAIN events[event].entries :
            LET entry == events[event].entries[i]
            IN \/ hook_entry_is_ours(entry.command)
               \/ \E k \in DOMAIN entry.hooks : hook_entry_is_ours(entry.hooks[k])}

strip_ai_memory_hooks(file) ==
    IF file.key # "object" THEN file
    ELSE LET left == strip_hook_events(file.events)
         IN [file EXCEPT !.events = left, !.key = IF left = <<>> THEN "absent" ELSE "object"]

\* The key is the group `ai-memory`.
strip_antigravity_hooks(file) == strip_ai_memory_hooks(file)

\* The file is read for the plan and rewritten only if something of ours was found; one
\* that is not JSON stops the whole run.
uninstall_hooks(disk, agent, now) ==
    IF ~disk.file.exists \/ ~disk.file.valid \/ disk.file.key # "object" THEN disk
    ELSE IF removed_events(disk.file.events) = {} THEN disk
    ELSE apply_atomic(disk, IF agent = "antigravity-cli" THEN strip_antigravity_hooks(disk.file)
                            ELSE strip_ai_memory_hooks(disk.file), now)

----------------------------------------------------------------------------
(* Zero keeps one list of hooks with ids, and a switch for all of them. *)

ZeroEntry(id, agent) == [id |-> id, agent |-> agent]

OurIds == {"session-start", "session-end", "pre-tool-use", "post-tool-use",
           "subagent-start", "subagent-stop"}

build_zero_hooks_config ==
    [i \in 1..6 |-> ZeroEntry(<<"session-start", "session-end", "pre-tool-use",
        "post-tool-use", "subagent-start", "subagent-stop">>[i], "ai-memory")]

\* An id that begins with `ai-memory-` is ours.
ZeroForeign(hook) == hook.agent # "ai-memory"

\* The switch is set only when it is missing: hooks the user turned off stay off.
apply_to_zero_hooks(file) ==
    [enabled |-> IF file.enabled = "absent" THEN "true" ELSE file.enabled,
     hooks |-> SelectSeq(file.hooks, ZeroForeign) \o build_zero_hooks_config]

strip_zero_hooks(file) == [file EXCEPT !.hooks = SelectSeq(file.hooks, ZeroForeign)]

----------------------------------------------------------------------------
(* Staging the scripts the commands point at. *)

\* The scripts staged before are removed first and the source's copied; a source without
\* scripts is refused only after that. The source may be the staging directory itself.
stage_hook_scripts_in(source, dest, same) ==
    [ok |-> source # {}, dest |-> IF same THEN dest ELSE source]

\* The first directory that exists: the repository, beside the binary, /usr/local, /usr
\* and the user's data; an explicit one is the only candidate.
resolve_hooks_dir(explicit, candidates, existing) ==
    LET found == SelectSeq(IF explicit # "none" THEN <<explicit>> ELSE candidates, LAMBDA d : d \in existing)
    IN IF found = <<>> THEN <<>> ELSE <<found[1]>>

=============================================================================
