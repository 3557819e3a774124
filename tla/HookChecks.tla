------------------------------ MODULE HookChecks ------------------------------
(* What the hooks capture and the server understands of it, and what the       *)
(* router keeps within bounds and tells an agent, over every small input.      *)
EXTENDS Naturals, Sequences, FiniteSets, FiniteSetsExt, SequencesExt, TLC

LOCAL H == INSTANCE HookCapture

LOCAL Object(fields) == [type |-> "object", fields |-> fields]
LOCAL Text(s) == [type |-> "string", text |-> s]
LOCAL Array(items) == [type |-> "array", items |-> items]
LOCAL Nothing == [type |-> "null"]
LOCAL Number(n) == [type |-> "integer", text |-> <<n>>]
LOCAL Query(event) ==
    [event |-> event, extension |-> {}, source_event |-> {}, session_id |-> {}, cwd |-> {}, workspace |-> {},
     project |-> {}, project_strategy |-> {}, drop_subagent |-> {}, default_global |-> {}]
LOCAL Envelope(query, raw) == H!from_query_and_body(query, raw, 4, 5)
LOCAL TextsOf(characters, n) == UNION {[1..k -> characters] : k \in 0..n}

-----------------------------------------------------------------------------
(* The server's reading of a body.                                         *)

LOCAL Places == {<<>>, <<"properties">>, <<"properties", "info">>, <<"info">>, <<"path">>, <<"payload">>,
                 <<"payload", "properties">>, <<"payload", "info">>, <<"payload", "path">>, <<"event">>,
                 <<"event", "properties">>, <<"event", "properties", "info">>}
RECURSIVE PutAt(_, _, _)
PutAt(value, path, fields) ==
    LET under == IF Len(path) > 0 /\ path[1] \in DOMAIN value THEN value[path[1]].fields ELSE <<>>
    IN IF path = <<>> THEN fields @@ value
       ELSE (path[1] :> Object(PutAt(under, Tail(path), fields))) @@ value
LOCAL Body(path, fields) == PutAt(<<>>, path, fields)

\* Every place a body may name its session at is found, and no empty or other value is taken
\* for one; what the query adds is used only then.
ASSUME SessionFoundAnywhere ==
    \A place \in Places, key \in {"session_id", "sessionID", "conversationId"} :
        LET with == [Query("stop") EXCEPT !.session_id = {<<"q">>}]
        IN /\ Envelope(with, Object(Body(place, key :> Text(<<"b">>)))).session_id = {<<"b">>}
           /\ Envelope(with, Object(Body(place, key :> Text(<<>>)))).session_id = {<<"q">>}
           /\ Envelope(with, Object(Body(place, key :> Number("7")))).session_id = {<<"q">>}

\* The name of a key counts before the place it is at: a body that names an outer session by
\* a later key and an inner one by an earlier key is read as the inner session's.
ASSUME KeyBeforePlace ==
    \A place \in Places \ {<<>>} :
        Envelope(Query("stop"), Object(PutAt(Body(place, "session_id" :> Text(<<"inner">>)), <<>>,
                                             "sessionId" :> Text(<<"outer">>)))).session_id = {<<"inner">>}

\* A spelling belongs to one event, and an event that is not known is kept as one of another kind.
ASSUME SpellingsApart ==
    /\ \A a, b \in DOMAIN H!Spellings : a # b => H!Spellings[a] \cap H!Spellings[b] = {}
    /\ H!parse_event("PostToolBatch") = "Other" /\ H!parse_event("Session-Start") = "Other"
    /\ \A e \in H!HookEvents : H!to_observation_kind(e) \in H!HookEvents \ {"SubagentStart", "SubagentStop"}

\* An extension is named exactly where the event it reports is; a hook of an event the
\* server knows loses its extension unless the query says what it reports.
ASSUME ExtensionWithItsEvent ==
    \A event \in {"stop", "custom"}, extension \in {{}, {<<"x">>}, {<<" ", "x">>}, {<<"x", "/">>}},
       source \in {{}, {<<"s">>}, {<<" ">>}} :
        LET e == Envelope([Query(event) EXCEPT !.extension = extension, !.source_event = source], Object(<<>>))
        IN /\ (e.extension = {}) = (e.source_event = {})
           /\ e.extension # {} => e.extension = {<<"x">>} /\ e.title_hint = e.source_event
           /\ (e.extension # {}) = (extension \in {{<<"x">>}, {<<" ", "x">>}}
                                      /\ (source = {<<"s">>} \/ (source = {} /\ event = "custom")))

LOCAL Outputs == {Text(<<>>), Text(<<"a", "b", "c", "d", "eacute">>), Nothing, Number("7"), Array(<<>>), Array(<<Nothing, Text(<<"a">>)>>),
                  Array(<<Text(<<"a">>), Text(<<"b">>)>>), Object(<<>>), Object("text" :> Text(<<>>)),
                  Object("text" :> Nothing @@ "content" :> Array(<<Text(<<"a">>)>>)),
                  Object("other" :> Nothing)}

\* A tool whose name is found is always recorded with some output, cut to the limit; without a
\* name nothing of it is, whatever it put out.
ASSUME ToolsKeepSomething ==
    \A output \in Outputs :
        LET named == Envelope(Query("post-tool-use"), Object("tool_name" :> Text(<<"t">>) @@ "output" :> output))
            step == Envelope(Query("post-tool-use"), Object("stepIdx" :> Number("0") @@ "output" :> output))
            nameless == Envelope(Query("post-tool-use"), Object("output" :> output))
        IN /\ \A body \in named.body_excerpt :
                 /\ SubSeq(body, 1, 2) = <<"t", "nl">> /\ Len(body) > 2
                 /\ H!Bytes(SubSeq(body, 3, Len(body))) <= 5 + 3
           /\ named.body_excerpt # {} /\ step.title_hint = {<<"step", "0">>}
           /\ nameless.body_excerpt = {} /\ nameless.title_hint = {}
           /\ (output \in {o \in Outputs : H!value_to_text(o) \in {{}, {<<>>}}})
                  => named.body_excerpt = {<<"t", "nl", "(no output captured)">>}

\* An error is what a failed tool is recorded with, where it has no output.
ASSUME ErrorWithoutOutput ==
    /\ Envelope(Query("postToolUseFailure"), Object("name" :> Text(<<"t">>) @@ "error" :> Text(<<"e">>))).body_excerpt
           = {<<"t", "nl", "e">>}
    /\ Envelope(Query("AfterTool"), Object("name" :> Text(<<"t">>) @@ "error" :> Text(<<"e">>)
                                             @@ "result" :> Text(<<"r">>))).body_excerpt = {<<"t", "nl", "r">>}

\* A prompt is recorded whole: its title alone is cut to a line.
ASSUME PromptsWhole ==
    \A prompt \in TextsOf({"a", "nl"}, 6) \ {<<>>} :
        LET e == Envelope(Query("user-prompt"), Object("prompt" :> Text(prompt)))
        IN /\ e.body_excerpt = {prompt}
           /\ \A title \in e.title_hint : Len(title) <= 4 /\ \A i \in DOMAIN title : title[i] # "nl"

\* Cutting keeps whole characters and never more than the limit and its mark.
ASSUME CutsAtCharacters ==
    \A text \in TextsOf({"a", "eacute"}, 6), max \in 0..6 :
        LET cut == H!truncate_excerpt(text, max)
            kept == SubSeq(cut, 1, Len(cut) - 1)
        IN \/ cut = text /\ H!Bytes(text) <= max
           \/ /\ Last(cut) = "ellipsis" /\ IsPrefix(kept, text) /\ H!Bytes(kept) <= max
              /\ H!Bytes(SubSeq(text, 1, Len(kept) + 1)) > max

-----------------------------------------------------------------------------
(* The client's hooks.                                                     *)

\* Whatever a directory or a marker holds is one value of the query and is read back as it was:
\* the model of an escape is its character marked, so nothing else of it may be left unmarked.
ASSUME QueriesReadBack ==
    \A text \in TextsOf({"a", " ", "+", "&", "/"}, 4) :
        LET sent == H!url_encode(text)
            bare == {i \in DOMAIN sent : i > 1 => sent[i - 1] # "%"} \ {i \in DOMAIN sent : sent[i] = "%"}
        IN /\ \A i \in bare : sent[i] \notin {"+", "&", "=", "?", "#", " ", "/"}
           /\ SelectSeq(sent, LAMBDA c : c # "%") = text

LOCAL DevinHooks == {"session-start", "stop", "session-end"}
RECURSIVE DevinRun(_, _)
DevinRun(stored, hooks) ==   \* the ids the hooks are sent with; hook n would make id n
    IF hooks = <<>> THEN <<>>
    ELSE LET r == H!run_with_payload(stored, "devin", Head(hooks), Object(<<>>), <<ToString(Len(hooks))>>)
         IN <<r.sent>> \o DevinRun(r.stored, Tail(hooks))

LOCAL Starts(hooks) == {i \in DOMAIN hooks : hooks[i] = "session-start"}
LOCAL Ends(hooks) == {i \in DOMAIN hooks : hooks[i] = "session-end"}
\* Hooks without ids of their own: what lies between two starts or ends has one id, no two such
\* stretches share one, and every hook has one, the one after an end too.
ASSUME OneIdPerStretch ==
    \A hooks \in UNION {[1..k -> DevinHooks] : k \in 1..5} :
        LET ids == DevinRun({}, hooks)
            Stretch(i) == {j \in Starts(hooks) : j <= i} \cup {j + 1 : j \in {k \in Ends(hooks) : k < i}} \cup {1}
        IN /\ \A i \in DOMAIN hooks : Cardinality(ids[i]) = 1
           /\ \A i, j \in DOMAIN hooks : (ids[i] = ids[j]) = (Max(Stretch(i)) = Max(Stretch(j)))

\* Two sessions of Devin at once share the state file: what the first does after the second's
\* start is recorded as the second's, and its end leaves the second without its id.
ASSUME OverlappingSessionsMix ==
    LET ids == DevinRun({}, <<"session-start", "session-start", "stop", "session-end", "stop">>)
    IN ids[1] # ids[2] /\ ids[3] = ids[2] /\ ids[4] = ids[2] /\ ids[5] # ids[2]

\* The id a client adds is the one the server uses, unless the body names one where only the
\* server looks; an id of blanks is none to the client, and the session's to the server.
ASSUME ClientAndServerIds ==
    /\ \A place \in Places :
           LET raw == Object(Body(place, "session_id" :> Text(<<"b">>)))
               sent == H!session_id_query_suffix({<<"s">>}, "devin", "stop", raw, <<"f">>).sent
           IN /\ (sent = {}) = (place = <<>>)
              /\ Envelope([Query("stop") EXCEPT !.session_id = sent], raw).session_id = {<<"b">>}
    /\ LET raw == Object("session_id" :> Text(<<" ">>))
           sent == H!session_id_query_suffix({<<"s">>}, "devin", "stop", raw, <<"f">>).sent
       IN sent = {<<"s">>} /\ Envelope([Query("stop") EXCEPT !.session_id = sent], raw).session_id = {<<" ">>}

LOCAL Dirs == {<<>>, <<"h">>, <<"h", "p">>, <<"h", "p", "s">>, <<"o">>, <<"o", "p">>}
\* The marker nearest to the directory is the one that counts, and none above the home
\* directory does for what is under it.
ASSUME NearestMarker ==
    \A cwd \in Dirs, marked \in SUBSET Dirs :
        LET found == H!find_marker(cwd, {<<"h">>}, [m \in marked |-> <<>>])
            above == {m \in marked : IsPrefix(m, cwd)}
        IN /\ \A m \in found : m \in above /\ \A n \in above : Len(n) <= Len(m)
           /\ found = {} => \A n \in above : n = <<>> /\ IsPrefix(<<"h">>, cwd)

LOCAL Line(key, quote, text) == [key |-> key, quote |-> quote, text |-> text]
LOCAL Suffix(lines, default) ==
    H!marker_query_suffix(<<"h", "p">>, default, {<<"h">>}, (<<"h", "p">> :> lines), {"repo"})
\* A marker's word counts before the installed default; a name needs its quotes where a flag
\* does not; a project that is named, even by nothing, is not taken from the repository.
ASSUME MarkersRead ==
    /\ \A default \in {{}, {<<"repo-root">>}, {<<"basename">>}} :
           /\ Suffix(<<>>, default).project_strategy = default
           /\ Suffix(<<>>, default).project = IF default = {<<"repo-root">>} THEN {<<"repo">>} ELSE {}
           /\ Suffix(<<Line("project_strategy", "closed", <<"basename">>)>>, default).project = {}
           /\ Suffix(<<Line("project", "closed", <<>>)>>, default).project = {<<>>}
    /\ \A quote \in {"closed", "open", "none"} :
           /\ (Suffix(<<Line("workspace", quote, <<"w">>)>>, {}).workspace = {<<"w">>}) = (quote = "closed")
           /\ (Suffix(<<Line("drop_subagent_captures", quote, <<"true">>)>>, {}).drop_subagent # {}) = (quote = "closed")
           /\ Suffix(<<Line("default_global", quote, <<"true", "#", "x">>)>>, {}).default_global = {<<"true">>}
    /\ Suffix(<<Line("max_chars", "none", <<"#", "x">>), Line("max_chars", "none", <<"9">>)>>, {}).briefing_budget = {<<"9">>}
    /\ Suffix(<<Line("drop_subagent_captures", "closed", <<>>), Line("drop_subagent_captures", "closed", <<"on">>)>>, {}).drop_subagent = {}

\* Only Devin's hooks are placed without a payload that says where they ran.
ASSUME OnlyDevinFallsBack ==
    \A cwd \in {{}, {<<" ">>}, {<<"c">>}}, agent \in {"devin", "codex"} :
        LET raw == Object([k \in {"cwd" : c \in cwd} |-> Text(CHOOSE c \in cwd : TRUE)])
            placed == H!cwd_query_suffix(agent, raw, {<<"d">>}, {<<"w">>})
        IN placed = IF cwd = {<<"c">>} THEN {<<"c">>} ELSE IF agent = "devin" THEN {<<"d">>} ELSE {}

\* An override is of at least a minute and at most an hour, and what is no such number is none.
ASSUME MinutesBounded ==
    \A env \in [DOMAIN H!Timeouts -> {{}, {0}, {1}, {60}, {61}}], name \in DOMAIN H!Timeouts :
        LET seconds == H!env_minutes(env)[name]
        IN IF env[name] \in {{}, {0}} THEN seconds = H!Timeouts[name] ELSE seconds \in {60, 3600}

-----------------------------------------------------------------------------
(* The process that drains, and the sanitizer.                             *)

\* The drainer is started at most once; it is started the second way only where the first was
\* refused, and a log is rotated before, so that it outgrows its limit by one run's lines only.
ASSUME StartedOnce ==
    \A os \in {"unix", "windows", "other"}, setsid \in {{}, {"/usr/bin/setsid"}}, size \in 0..3,
       outcomes \in [BOOLEAN -> {"started", "denied", "missing"}] :
        LET r == H!spawn_spec(os, setsid, [size |-> size, old |-> 0], 2, outcomes)
        IN /\ Cardinality(r.how) = IF r.ok THEN 1 ELSE 0
           /\ \A how \in r.how : outcomes[how.breakaway] = "started"
           /\ r.log.size <= 3 /\ (size <= 2 => r.log.old = 0)
           /\ (os = "windows" /\ outcomes[TRUE] = "denied" /\ outcomes[FALSE] = "started") => r.ok

LOCAL Never == {{<<"never">>}}
LOCAL Built(custom) ==
    [p \in {H!BUILTIN_PATTERNS[i] : i \in DOMAIN H!BUILTIN_PATTERNS} \cup {"extra", "bad"} |->
        CASE p = "sk-" -> {{<<"k">>, <<"k", "k">>}} [] p = "variable" -> {{<<"V", "k">>, <<"V", "a">>, <<"V", "[REDACTED]">>}}
          [] p = "extra" -> {custom} [] p = "bad" -> {} [] OTHER -> Never]
LOCAL Sanitizer(extra, allowlist) == CHOOSE s \in H!NewSanitizer(extra, allowlist, Built({<<"a", "a">>})) : TRUE
LOCAL Secrets == {<<"k">>, <<"k", "k">>, <<"V", "k">>, <<"V", "a">>, <<"a", "a">>}

\* What is scrubbed holds nothing a pattern matches, those the pattern before changed included;
\* what was redacted may be part of a match the second time.
ASSUME ScrubbedClean ==
    \A text \in TextsOf({"k", "V", "a", "-"}, 5) :
        \A secret \in Secrets : ~H!HasPart(H!scrub(Sanitizer(<<"extra">>, {}), text), secret)

\* A word allowed in a match lets the whole match through, the secret beside it too, but not
\* the same secret elsewhere.
ASSUME AllowedMatchWhole ==
    LET s == Sanitizer(<<>>, {<<"V">>})
    IN /\ H!scrub(s, <<"V", "a", "-", "k">>) = <<"V", "a", "-", "[REDACTED]">>
       /\ H!scrub(s, <<"V", "k">>) = <<"V", "[REDACTED]">>
       /\ H!scrub(Sanitizer(<<>>, {<<"k">>}), <<"V", "k", "k">>) = <<"V", "k", "k">>

\* A pattern that does not compile makes no sanitizer, not one without it; and the title and
\* the body of an observation are all of it that is scrubbed.
ASSUME SanitizedParts ==
    /\ H!NewSanitizer(<<"extra", "bad">>, {}, Built({})) = {}
    /\ H!Sanitized([title |-> <<"k">>, body |-> <<"V", "k">>, source |-> <<"k">>], Sanitizer(<<>>, {}))
           = [title |-> <<"[REDACTED]">>, body |-> <<"[REDACTED]">>, source |-> <<"k">>]

LOCAL SeqsOf(S, n) == UNION {[1..k -> S] : k \in 0..n}

-----------------------------------------------------------------------------
(* The subagents that are dropped.                                         *)

LOCAL SubagentEvents ==
    {e \in [requested : BOOLEAN, session : {"s1", "s2", "s3"}, scope : {"p"}, marked : BOOLEAN, end : BOOLEAN] :
        (e.requested \/ (~e.marked /\ ~e.end)) /\ ~(e.marked /\ e.end)}
RECURSIVE SubagentRun(_, _)
SubagentRun(order, events) ==
    IF events = <<>> THEN <<>>
    ELSE LET r == H!should_drop_subagent(order, Head(events), 2)
         IN <<r>> \o SubagentRun(r.order, Tail(events))

\* Once marked, all of a subagent's events are dropped up to its end, and none after it but its
\* marks; unless more subagents than are tracked were marked since, when its tail is captured.
ASSUME DroppedToItsEnd ==
    \A events \in SeqsOf(SubagentEvents, 4) :
        LET run == SubagentRun(<<>>, events)
            Marks(s, i) == {j \in 1..(i - 1) : events[j].requested /\ events[j].session = s /\ events[j].marked}
            EndsOf(s, i) == {j \in 1..(i - 1) : /\ events[j].requested /\ events[j].session = s /\ events[j].end}
            OthersSince(s, j, i) == {events[k].session : k \in {m \in (j + 1)..(i - 1) : events[m].requested /\ events[m].marked}} \ {s}
        IN \A i \in DOMAIN events :
              LET s == events[i].session
                  marks == Marks(s, i)
                  open == marks # {} /\ \A e \in EndsOf(s, i) : e < Max(marks)
              IN /\ Len(run[i].order) <= 2 /\ Cardinality(ToSet(run[i].order)) = Len(run[i].order)
                 /\ run[i].drop => events[i].requested /\ (events[i].marked \/ open)
                 /\ events[i].requested /\ open /\ Cardinality(OthersSince(s, Max(marks), i)) < 2 => run[i].drop

\* A mark renews the place of a subagent: of three, the one marked longest ago is forgotten.
ASSUME MarkRenews ==
    LET Mark(s) == [requested |-> TRUE, session |-> s, scope |-> "p", marked |-> TRUE, end |-> FALSE]
        run == SubagentRun(<<>>, <<Mark("s1"), Mark("s2"), Mark("s1"), Mark("s3")>>)
    IN run[4].order = <<<<"p", "s1">>, <<"p", "s3">>>>

\* The end of a subagent that bears its mark itself does not make the subagent forgotten.
ASSUME MarkedEndStays ==
    LET End(marked) == [requested |-> TRUE, session |-> "s1", scope |-> "p", marked |-> marked, end |-> TRUE]
        run == SubagentRun(<<>>, <<End(TRUE), End(FALSE), End(FALSE)>>)
    IN run[1].order # <<>> /\ run[2].drop /\ run[2].order = <<>> /\ ~run[3].drop

\* A subagent whose session or project is not found is not dropped, however it is marked.
ASSUME UnknownIsKept ==
    \A session \in {"none", "s1"}, scope \in {"none", "p"}, marked, end \in BOOLEAN :
        LET r == H!should_drop_subagent(<<>>, [requested |-> TRUE, session |-> session, scope |-> scope,
                                               marked |-> marked, end |-> end], 1)
        IN r.drop = (marked /\ session = "s1" /\ scope = "p")

-----------------------------------------------------------------------------
(* The allowance.                                                          *)

RECURSIVE Takes(_, _, _)
Takes(limiter, keys, times) ==
    IF keys = <<>> THEN <<>>
    ELSE LET r == H!try_take(limiter, Head(keys), Head(times))
         IN <<r>> \o Takes(r.limiter, Tail(keys), Tail(times))
LOCAL Passed(run, keys, key) == Cardinality({i \in DOMAIN keys : keys[i] = key /\ run[i].ok})
LOCAL Times == {t \in [1..5 -> 0..2] : \A i \in 1..4 : t[i] <= t[i + 1]}

\* While its bucket is kept a sender passes at most its burst and what the time between has
\* refilled, and one that asks for no more than that always passes.
ASSUME AllowanceKept ==
    \A keys \in [1..5 -> {"a", "b"}], times \in Times, burst \in 0..2 :
        LET run == Takes(H!NewLimiter(1, burst, 2), keys, times)
        IN \A key \in {"a", "b"} :
              LET mine == {i \in DOMAIN keys : keys[i] = key}
              IN /\ mine # {} => Passed(run, keys, key) <= Max({burst, 1}) + times[Max(mine)] - times[Min(mine)]
                 /\ mine # {} => run[Min(mine)].ok
                 /\ \A t \in 0..2 : Cardinality({i \in mine : times[i] = t /\ run[i].ok}) <= Max({burst, 1})
                 /\ \A i, j \in mine : i < j /\ times[i] < times[j] => run[j].ok \/ \E k \in mine : i < k /\ k < j /\ times[k] = times[j]

\* The buckets stay within their number, and the one made first is the one that goes: a sender
\* that is busy all the time gets a full burst again as soon as enough others have come.
ASSUME EvictedStartsAnew ==
    /\ \A keys \in [1..5 -> {"a", "b", "c"}], times \in {[i \in 1..5 |-> 0]} :
           \A i \in 1..5 : LET l == Takes(H!NewLimiter(1, 1, 2), keys, times)[i].limiter
                           IN Len(l.order) <= 2 /\ ToSet(l.order) = DOMAIN l.buckets /\ keys[i] \in DOMAIN l.buckets
    /\ LET keys == <<"a", "a", "b", "c", "a">>
           run == Takes(H!NewLimiter(1, 1, 2), keys, [i \in 1..5 |-> 0])
       IN run[1].ok /\ ~run[2].ok /\ run[5].ok

\* Without a session every event is a sender of its own, so that only its repetition is held back.
ASSUME SendersApart ==
    LET Env(session, raw) == [session_id |-> session, agent |-> "a", event |-> "stop", cwd |-> "", workspace |-> "",
                              project |-> "", strategy |-> "basename", raw |-> raw]
    IN /\ \A r1, r2 \in {"x", "y"}, s1, s2 \in {"", "s"}, u1, u2 \in {"", "u"} :
              (H!ingest_rate_key(Env(s1, r1), u1) = H!ingest_rate_key(Env(s2, r2), u2))
                = (u1 = u2 /\ s1 = s2 /\ (s1 = "" => r1 = r2))
       /\ H!try_take(H!NewLimiter(0, 0, 1), "a", 0).ok /\ H!try_take(H!NewLimiter(0, 0, 1), "a", 0).limiter.buckets = <<>>
       /\ H!bounded_rate_key([id |-> "k", size |-> 200], 128).size <= 128

-----------------------------------------------------------------------------
(* The project of a directory.                                             *)

LOCAL Root == <<"real", "r">>
LOCAL Canonical == (Root :> Root) @@ (<<"link">> :> Root) @@ (<<"link", "sub">> :> Append(Root, "sub"))
                     @@ (Append(Root, "sub") :> Append(Root, "sub")) @@ (<<>> :> <<>>) @@ (<<"real">> :> <<"real">>)
                     @@ (<<"link", "again">> :> Root)
LOCAL Repo == [root |-> {Root}, main |-> {Root}]

\* A project's path is spelled as the directory it was found from, so that a directory reached
\* through a link is under it: git's spelling is used only where the directory shares no root.
ASSUME PathAsSeen ==
    /\ \A cwd \in {<<"link">>, <<"link", "sub">>, Root, Append(Root, "sub")} :
           \A p \in H!derive_project_from_cwd(cwd, "RepoRoot", Repo, Canonical) :
               /\ p.name = "r"
               /\ \A path \in p.repo_path : IsPrefix(path, cwd) /\ Canonical[path] = Root
    /\ H!derive_project_from_cwd(<<"gone", "sub">>, "RepoRoot", Repo, Canonical)
           = {[name |-> "r", repo_path |-> {Root}]}
    /\ H!repo_root_in_cwd_namespace(<<"link", "again">>, Root, Canonical) = <<"link", "again">>

\* By its own name, a directory has a path only where it is the root itself, so that one below
\* does not claim the repository for a project of its own name.
ASSUME BelowRootClaimsNothing ==
    \A cwd \in {<<"link">>, <<"link", "sub">>, Root, Append(Root, "sub"), <<"gone">>} :
        LET derived == H!derive_project_from_cwd(cwd, "Basename", Repo, Canonical)
            override(s) == H!repo_path_from_project_override(cwd, "link", s, Repo, Canonical)
        IN /\ \A p \in derived : p.name = Last(cwd) /\ (p.repo_path # {}) = (cwd \in {<<"link">>, Root})
           /\ override("Basename") = IF cwd \in {<<"link">>, Root} THEN {cwd} ELSE {}
           /\ override("RepoRoot") = IF cwd = <<"link", "sub">> THEN {<<"link">>} ELSE override("Basename")

-----------------------------------------------------------------------------
(* What an agent is told.                                                  *)

LOCAL BriefPage(path, header, body) == [path |-> path, header |-> header, body |-> body]
LOCAL Cores == SeqsOf({BriefPage(p, h, b) : p \in {"p"}, h \in {2, 4}, b \in {0, 3, 9}}, 3)

\* Every core page is shown or named as omitted, in its order; the pages shown are within the
\* budget but for the notes of what was cut, and at most one is cut.
ASSUME BriefWithinBudget ==
    \A core \in Cores, budget \in {1, 6, 12} :
        \A brief \in H!render_session_brief(core, <<>>, budget, 2, 1) :
            LET cuts == {i \in DOMAIN brief.shown : brief.shown[i].cut}
            IN /\ Len(brief.shown) + Len(brief.omitted) = Len(core)
               /\ Cardinality(cuts) <= 1
               /\ brief.shown # <<>> => brief.used <= budget + 1
               /\ \A i \in cuts : i = Len(brief.shown)

\* A page that does not fit does not keep a later, shorter one out.
ASSUME LaterPageMayFit ==
    \E core \in Cores : \E brief \in H!render_session_brief(core, <<>>, 10, 3, 1) :
        Len(core) = 3 /\ Len(brief.shown) = 2 /\ core[2].header > core[3].header

ASSUME BriefOnlyWithPages ==   \* no brief without pages, and one where there are recent pages only
    /\ H!render_session_brief(<<>>, <<>>, 12, 2, 1) = {}
    /\ H!render_session_brief(<<>>, <<"r">>, 12, 2, 1) # {}
    /\ \A asked \in {{}, {0}, {7}, {99}} : H!brief_budget(asked, 4, 2, 20) \in 2..20

\* Characters are not cut through.
ASSUME BoundaryKept ==
    \A widths \in SeqsOf({1, 2, 3}, 4), max \in 0..5 :
        LET cut == H!truncate_at_char_boundary(widths, max)
        IN IsPrefix(cut, widths) /\ FoldLeft(LAMBDA s, w : s + w, 0, cut) <= max

\* A handoff is in the answer only where it was consumed; but it may be consumed and lost when
\* the pages of the brief cannot be read.
ASSUME HandoffToldOrLost ==
    LET All == {H!handle_handoff(h, a, b, p) : h \in {{}, {"h"}}, a, b \in BOOLEAN, p \in {"pages", "none", "fails"}}
    IN /\ \A r \in All : "handoff" \in ToSet(r.body) => r.consumed
       /\ \E r \in All : r.consumed /\ r.body = <<>>
       /\ \A a \in BOOLEAN, p \in {"pages", "none", "fails"} :
              LET r == H!handle_handoff({"h"}, a, FALSE, p) IN r.consumed = (r.body = <<"handoff">>) /\ r.consumed = a

-----------------------------------------------------------------------------
(* The page of a session and the log.                                      *)

LOCAL Observation(kind, title) == [kind |-> kind, title |-> title, extension |-> "", source_event |-> ""]
LOCAL Observed == SeqsOf({Observation(k, t) : k \in {"user-prompt", "pre-tool-use", "post-tool-use"}, t \in {"", "x"}}
                           \cup {Observation("session-end", "y")}, 4)

\* The first and the last observations are on the page and the others are counted; a tool
\* counts once however it is announced; the title is a prompt's where any has one.
ASSUME SessionPageAccounts ==
    \A observations \in Observed :
        LET page == H!synthesize_session_page("s", observations, 1, 2)
            body == page.body
        IN /\ Len(body.raw.lines) + body.raw.omitted = Len(observations)
           /\ observations # <<>> => Head(body.raw.lines) = Head(observations) /\ Last(body.raw.lines) = Last(observations)
           /\ \A t \in DOMAIN body.tools : body.tools[t] = Len(SelectSeq(observations, LAMBDA o : o = Observation("post-tool-use", t)))
           /\ "" \notin DOMAIN body.tools /\ page.title # ""
           /\ (\E i \in DOMAIN observations : observations[i] = Observation("user-prompt", "x")) => page.title = "x"

\* Adding an event keeps what every log has and adds one line, whatever the title holds.
ASSUME OneLinePerEvent ==
    \A title \in SeqsOf({"nl", "cr", "a"}, 4), month \in {"may", "june"} :
        LET logs == H!append_event(("may" :> <<<<"stop">>>>), month, "stop", title, 3)
        IN /\ IsPrefix(<<<<"stop">>>>, logs["may"])
           /\ FoldSet(LAMBDA m, n : n + Len(logs[m]), 0, DOMAIN logs) = 2
           /\ \A i \in DOMAIN Last(logs[month]) : Last(logs[month])[i] \notin {"nl", "cr"}
           /\ Len(Last(logs[month])) <= 4
ASSUME LabelsNameExtensions ==
    /\ H!observation_kind_label(Observation("other", "x")) = <<"other">>
    /\ H!observation_kind_label([Observation("other", "x") EXCEPT !.extension = "e", !.source_event = "s"]) = <<"other", "e", "s">>
===============================================================================
