--------------------------- MODULE InstallChecks ---------------------------
(* What installing and uninstalling keep and remove: for the hooks, over every *)
(* settings file built from the values below, every agent and every platform. *)
EXTENDS HookInstall, AgentSetup, Integers

Agents == {"claude-code", "grok", "devin", "codex", "cursor", "gemini-cli", "antigravity-cli"}

LOCAL Said(marks, args) ==
    [says |-> marks, args |-> args, runs |-> "theirs", agent |-> "none", url |-> "none"]

\* Commands a user wrote: one of their own, a wrapper kept in a directory named after
\* ai-memory, and an executable of that name with other arguments.
LOCAL Theirs == Said({}, "none")
LOCAL Wrapper == Said({"name"}, "none")
LOCAL Other == Said({"name"}, "other")

\* What an earlier release left behind.
LOCAL Old == hook_command("posix", "claude-code", "stop", "old", TRUE)

LOCAL Values ==
    {Array(<<Group(<<Theirs>>)>>), Array(<<Flat(Theirs), Flat(Old)>>),
     Array(<<Group(<<Theirs, Old>>), Group(<<Other>>)>>), Array(<<Group(<<Wrapper>>)>>),
     Array(<<Group(<<Old>>), Flat(Other)>>)}

LOCAL EventOf(agent) ==
    CASE agent = "cursor" -> "stop"
      [] agent = "gemini-cli" -> "BeforeTool"
      [] OTHER -> "Stop"

LOCAL File(events) ==
    [exists |-> TRUE, valid |-> TRUE, key |-> "object", events |-> events]

LOCAL Disk(file) == [file |-> file, backups |-> <<>>]

\* Files with values under an event of the agent and under one it does not know.
LOCAL Files(agent) ==
    {Absent} \cup {File(EventOf(agent) :> v) : v \in Values}
        \cup {File((EventOf(agent) :> v) @@ ("Notification" :> w)) : v \in Values, w \in Values}

\* Platforms an agent's commands can be written for; a native one needs the binary's name.
LOCAL Platforms(agent) ==
    {HookPlatform(agent, override, windows) :
        override \in {"none", "posix", "posix-native"}, windows \in BOOLEAN}

LOCAL Commands(entry) ==
    (IF entry.nested THEN <<>> ELSE <<entry.command>>) \o entry.hooks

LOCAL CommandsAt(file, event) ==
    IF event \notin DOMAIN file.events THEN <<>>
    ELSE FoldLeft(LAMBDA all, entry : all \o Commands(entry), <<>>, file.events[event].entries)

LOCAL Ours(file, event) == SelectSeq(CommandsAt(file, event), hook_entry_is_ours)

LOCAL Foreign(file, event) == SelectSeq(CommandsAt(file, event), ForeignCommand)

\* Installing again changes nothing, and writes no second backup.
ASSUME InstallIdempotent ==
    \A agent \in Agents : \A file \in Files(agent), platform \in Platforms(agent) :
        LET once == install_hooks(Disk(file), agent, platform, "new", TRUE, 1)
        IN install_hooks(once, agent, platform, "new", TRUE, 2) = once

\* After an upgrade from any platform and server to any other, each event of the agent has
\* exactly one command of ours, the new one: nothing is captured twice.
ASSUME UpgradeLeavesOneCommand ==
    \A agent \in Agents : \A file \in Files(agent) :
        \A before, after \in Platforms(agent) :
            LET old == install_hooks(Disk(file), agent, before, "old", TRUE, 1)
                new == install_hooks(old, agent, after, "new", TRUE, 2)
            IN \A event \in DOMAIN Payload(agent, after, "new", TRUE) :
                /\ Len(Ours(new.file, event)) = 1
                /\ Ours(new.file, event)[1].url = "new"

\* The recogniser needs the binary's path to mention ai-memory: a renamed binary that
\* installs its native commands twice, for two servers, is captured twice, and the
\* removal does not find them.
ASSUME RenamedBinaryDuplicates ==
    LET old == install_hooks(Disk(Absent), "claude-code", "posix-native", "old", FALSE, 1)
        new == install_hooks(old, "claude-code", "posix-native", "new", FALSE, 2)
    IN /\ Len(CommandsAt(new.file, "Stop")) = 2
       /\ uninstall_hooks(new, "claude-code", 3) = new

\* Of the events it writes, an install keeps, in their order, the entries of which no
\* command mentions ai-memory; the others it leaves alone.
ASSUME InstallKeepsForeignEntries ==
    \A agent \in Agents : \A file \in Files(agent), platform \in Platforms(agent) :
        LET after == install_hooks(Disk(file), agent, platform, "new", TRUE, 1).file
        IN \A event \in DOMAIN file.events :
            IF event \in DOMAIN EventsOf(agent)
            THEN IsPrefix(SelectSeq(file.events[event].entries, NotOurs),
                          after.events[event].entries)
            ELSE after.events[event] = file.events[event]

\* It does not keep a foreign command that shares a group with one of ours, nor a
\* SessionEnd hook of Codex.
ASSUME InstallDropsForeignCommands ==
    /\ LET file == File("Stop" :> Array(<<Group(<<Theirs, Old>>)>>))
       IN Foreign(install_hooks(Disk(file), "claude-code", "posix", "new", TRUE, 1).file,
                  "Stop") = <<>>
    /\ LET file == File("SessionEnd" :> Array(<<Group(<<Theirs>>)>>))
       IN "SessionEnd" \notin DOMAIN install_hooks(Disk(file), "codex", "posix", "new", TRUE,
                                                   1).file.events

\* Uninstalling removes every command of ours and no other, mixed groups included.
ASSUME UninstallRemovesOursOnly ==
    \A agent \in Agents : \A file \in Files(agent) :
        LET after == uninstall_hooks(Disk(file), agent, 1).file
        IN \A event \in DOMAIN file.events :
            /\ Ours(after, event) = <<>>
            /\ Foreign(after, event) = Foreign(file, event)

\* Uninstalling what was installed gives back the entries the install kept.
ASSUME RoundTrip ==
    \A agent \in Agents : \A file \in Files(agent), platform \in Platforms(agent) :
        LET after == uninstall_hooks(install_hooks(Disk(file), agent, platform, "new", TRUE, 1),
                                     agent, 2).file
        IN \A event \in DOMAIN file.events \cup DOMAIN after.events :
            CommandsAt(after, event) =
                SelectSeq(CommandsAt([file EXCEPT !.events = [e \in DOMAIN file.events |->
                    Array(SelectSeq(file.events[e].entries,
                        LAMBDA entry : e \notin DOMAIN Payload(agent, platform, "new", TRUE)
                                       \/ NotOurs(entry)))]], event), ForeignCommand)

\* Changes of different seconds keep every earlier content of the file; two changes within
\* a second keep only the later one's.
ASSUME BackupsBySecond ==
    \A file \in Files("claude-code") \ {Absent}, later \in {1, 2} :
        LET first == install_hooks(Disk(file), "claude-code", "posix", "old", TRUE, 1)
            second == install_hooks(first, "claude-code", "posix", "new", TRUE, later)
            kept == {second.backups[t] : t \in DOMAIN second.backups}
        IN /\ first.file \in kept
           /\ file \in kept <=> later = 2

\* Zero: the merge is idempotent, respects the switch and is undone by the removal.
ASSUME ZeroMerge ==
    \A enabled \in {"absent", "true", "false"} :
        \A hooks \in SeqOf({ZeroEntry("session-start", "user"),
                            ZeroEntry("session-start", "ai-memory"),
                            ZeroEntry("lint", "user")}, 3) :
            LET file == [enabled |-> enabled, hooks |-> hooks]
                installed == apply_to_zero_hooks(file)
            IN /\ apply_to_zero_hooks(installed) = installed
               /\ enabled = "false" => installed.enabled = "false"
               /\ strip_zero_hooks(installed).hooks = strip_zero_hooks(file).hooks
               /\ {installed.hooks[i].id : i \in {k \in DOMAIN installed.hooks :
                       installed.hooks[k].agent = "ai-memory"}} = OurIds

\* A source without scripts is refused, but only after the scripts staged by an earlier
\* install are gone: the commands already installed point at nothing.
ASSUME RefusedStagingEmpties ==
    \A before \in SUBSET {"stop", "session-start"} :
        LET staged == stage_hook_scripts_in({}, before, FALSE)
        IN ~staged.ok /\ staged.dest = {}

----------------------------------------------------------------------------
(* The MCP entries. *)

LOCAL Urls == {Url("a", "", TRUE), Url("b", "/x", TRUE)}

LOCAL Entry(url, inline) ==
    [field |-> "url", url |-> url, token |-> "theirs", inline |-> inline]

LOCAL Docs(client) ==
    {[container |-> "absent", servers |-> <<>>], [container |-> "other", servers |-> <<>>]}
    \cup {[container |-> "object", servers |-> ("linear" :> Entry(u, FALSE))] : u \in Urls}
    \cup IF client # "codex" THEN {}
         ELSE {[container |-> "inline", servers |-> ("linear" :> Entry(u, TRUE))] : u \in Urls}

\* Installing an entry again changes nothing; the entries of other names stay, and are there
\* after the uninstall of ours by name.
ASSUME McpEntries ==
    \A client \in Clients, url \in Urls : \A doc \in Docs(client) :
        LET once == install_mcp(doc, client, "ai-memory", url, "t")
            after == uninstall_mcp(once, client, "ai-memory", url)
        IN /\ install_mcp(once, client, "ai-memory", url, "t") = once
           /\ once.container = "object" =>
                /\ once.servers["ai-memory"].url = url
                /\ "ai-memory" \notin DOMAIN after.servers
           /\ \A key \in DOMAIN doc.servers : after.servers[key] = doc.servers[key]

\* Without a name the uninstall takes every entry of the address, whoever wrote it.
ASSUME UninstallByAddress ==
    \A client \in Clients \ {"codex"}, url \in Urls : \A doc \in Docs(client) :
        LET after == uninstall_mcp(doc, client, None, url)
        IN DOMAIN after.servers = {k \in DOMAIN doc.servers : doc.servers[k].url # url}

\* Hooks installed after the MCP entry, with nothing else said, go to its server with its
\* token, for every agent whose entry is read back.
ASSUME HooksFollowTheEntry ==
    \A client \in Clients, url \in Urls :
        LET doc == install_mcp([container |-> "absent", servers |-> <<>>], client, "ai-memory",
                               url, "t")
            target == HookTarget(client, doc, NoUrl, NoUrl, "", None, None)
        IN IF mcp_client_for_agent(client) = None
           THEN target = [url |-> DEFAULT_SERVER_URL, token |-> None]
           ELSE target = [url |-> hook_server_url_from_mcp_url(url), token |-> "t"]

\* With a configured server and a base path the hooks find the server under its base path;
\* the MCP entry written from the same configuration does not carry it.
ASSUME McpEntryMissesBasePath ==
    LET configured == Url("a", "", FALSE)
        doc == install_mcp([container |-> "absent", servers |-> <<>>], "cursor", "ai-memory",
                           effective_mcp_server_url(NoUrl, configured), None)
    IN /\ HookTarget("cursor", doc, NoUrl, configured, "/wiki", None, None).url.path = "/wiki"
       /\ doc.servers["ai-memory"].url.path = ""

----------------------------------------------------------------------------
(* The instruction block and the skills. *)

LOCAL Lines == {"text", "blank", "start", "old", "end", "frag"}

LOCAL Documents == SeqOf(Lines, 4)

\* Every start marker is closed before the next one.
LOCAL Balanced(lines) ==
    \A i \in DOMAIN lines : lines[i] = "start" =>
        \E k \in (i + 1)..Len(lines) : lines[k] = "end" /\ "start" \notin {lines[j] : j \in (i + 1)..k}

LOCAL UserText(lines) ==
    LET at == Block(lines)
        Text(l) == SelectSeq(l, LAMBDA line : line = "text")
    IN IF at = <<>> THEN Text(lines)
       ELSE Text(SubSeq(lines, 1, at[1] - 1) \o SubSeq(lines, at[2] + 1, Len(lines)))

\* The block is there once more is merged, merging again changes nothing, and neither the
\* merge nor the removal loses a line of the user outside the block.
ASSUME InstructionsMerge ==
    \A lines \in Documents :
        LET once == merge_instructions_block(lines, full_block("new"))
            out == strip_instructions_block(lines)
        IN /\ Balanced(lines) =>
                /\ merge_instructions_block(once, full_block("new")) = once
                /\ UserText(once) = UserText(lines)
           /\ Block(lines) # <<>> =>
                SelectSeq(out, LAMBDA line : line = "text") = UserText(lines)

\* What has no marker comes back from an install and an uninstall as it was.
ASSUME InstructionsRoundTrip ==
    \A lines \in SeqOf({"text", "blank"}, 4) :
        strip_instructions_block(merge_instructions_block(lines, full_block("new"))) = lines

\* A start marker left without its end swallows, at the second install, the lines of the
\* user between it and the block the first one appended.
ASSUME StrayMarkerLosesText ==
    LET once == merge_instructions_block(<<"start", "text">>, full_block("new"))
    IN merge_instructions_block(once, full_block("new")) = full_block("new")

LOCAL SkillFiles == {"claude/handoff", "claude/search", "agents/handoff"}

\* A refused install writes neither instructions nor skills; one that runs leaves no user's
\* skill overwritten unless forced; and the uninstall deletes managed files only.
ASSUME SkillsAreVetted ==
    \A skills \in [SkillFiles -> {"absent", "managed", "user"}], plan \in SUBSET SkillFiles,
       force \in BOOLEAN :
        LET disk == [instructions |-> ("CLAUDE.md" :> <<"text">>), skills |-> skills]
            after == install_instructions(disk, {"CLAUDE.md"}, plan, full_block("new"), force)
            removed == FoldSet(apply_change, after.skills, SkillFiles)
        IN /\ ~validate_overwrite_safety(plan, skills, force) => after = disk
           /\ \A f \in SkillFiles : skills[f] = "user" /\ ~force => removed[f] = "user"
           /\ \A f \in SkillFiles : removed[f] # "managed"

\* A plan has each file once and each operation of a file once, and forgets nothing that
\* was found.
ASSUME PlanMergesByFile ==
    \A steps \in SeqOf({"gemini", "devin"} \X {"hooks", "mcp"} \X BOOLEAN, 3) :
        LET plan == FoldLeft(LAMBDA p, s : push_rewrite(p, s[1], IF s[3] THEN {s[2]} ELSE {}, s[2]),
                             <<>>, steps)
            found == {<<steps[i][1], steps[i][2]>> : i \in {k \in DOMAIN steps : steps[k][3]}}
        IN /\ \A i, k \in DOMAIN plan : plan[i].path = plan[k].path => i = k
           /\ \A i \in DOMAIN plan : IsInjective(plan[i].ops)
           /\ found = UNION {{<<plan[i].path, plan[i].ops[k]>> : k \in DOMAIN plan[i].ops} : i \in DOMAIN plan}

\* A reset needs its confirmation and to be alone, empties the data and keeps the logs.
ASSUME ResetKeepsLogs ==
    \A confirm \in BOOLEAN, siblings \in {{}, {1}} :
        LET data == [wiki |-> {1}, db |-> {1}, raw |-> {}, logs |-> {1}]
            after == reset_run(data, confirm, siblings)
        IN /\ after.logs = data.logs
           /\ after # data => confirm /\ siblings = {} /\ after.wiki \cup after.db = {}
=============================================================================
