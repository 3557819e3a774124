----------------------------- MODULE ServiceChecks -----------------------------
(* What the pure parts of the server promise, over every small input: who may  *)
(* do what, whose project is answered, and what a request leaves of a page;    *)
(* its credentials, providers, settings and start; the first filling of a      *)
(* wiki, the consolidation of sessions, lint, reports, and patches of pages.   *)
EXTENDS Naturals, Sequences, FiniteSets, FiniteSetsExt, SequencesExt, TLC

LOCAL Roads == INSTANCE PageRoads
LOCAL Access == INSTANCE ServerAccess
LOCAL Creds == INSTANCE Credentials
LOCAL Llm == INSTANCE Providers
LOCAL Setup == INSTANCE ServerSetup
LOCAL K == INSTANCE Consolidation
LOCAL Reports == INSTANCE MemoryReports
LOCAL Cli == INSTANCE ClientCommands

LOCAL None == "none"

-----------------------------------------------------------------------------
(* Access. Two users, two tokens of users and the server's.                *)

LOCAL User(token, expired) ==
    [username |-> token, email |-> None, token |-> token, expired |-> expired, seen |-> FALSE]
LOCAL AllUsers ==
    {(1 :> User("t1", e1)) @@ (2 :> User("t2", e2)) : e1, e2 \in BOOLEAN}
LOCAL Servers == [expected : {None, "root"}, multi : BOOLEAN]
LOCAL Shown == {None, "t1", "t2", "t3", "root"}
LOCAL Requests == [get : BOOLEAN, bearer : Shown, basic : Shown, cookie : Shown]
LOCAL Levels == {"anonymous", "user", "root"}
LOCAL LevelOf(server, req, users) == Access!require_bearer(server, req, users).level

\* A token that was taken away, or replaced, opens nothing; the replacement does.
ASSUME ReplacedTokenIsRefused ==
    \A users \in AllUsers, u \in {1, 2}, get \in BOOLEAN :
        LET Shows(t) == [get |-> get, bearer |-> t, basic |-> None, cookie |-> None]
            server == [expected |-> "root", multi |-> TRUE]
            old == users[u].token
            rotated == Access!rotate_user_token(users, u, "t3")
            expired == Access!expire_user_token(users, u)
        IN /\ LevelOf(server, Shows(old), rotated) = "refused"
           /\ LevelOf(server, Shows("t3"), rotated) = "user"
           /\ LevelOf(server, Shows(old), expired) = "refused"
           /\ LevelOf(server, Shows(old), Access!revive_user_token(expired, u)) = "user"

\* What a browser sends by itself never changes anything: a request that is not a GET
\* is as good as its bearer token.
ASSUME OnlyBearersWrite ==
    \A server \in Servers, req \in Requests, users \in AllUsers :
        ~req.get => LevelOf(server, req, users)
                        = LevelOf(server, [req EXCEPT !.basic = None, !.cookie = None], users)

\* Users are changed by root alone, and by it on a server that has them or by name.
ASSUME RootManagesUsers ==
    \A server \in Servers, level \in Levels, users \in AllUsers, name \in {"t1", "t3"} :
        \A answer \in {Access!handle_create_user(server, level, users, 3,
                           [username |-> name, email |-> None, token |-> "t4", valid |-> TRUE]),
                       Access!handle_expire_user(server, level, users, name),
                       Access!handle_revive_user(server, level, users, name),
                       Access!handle_rotate_user_token(server, level, users, name, "t4")} :
            /\ answer.users # users => level = "root" /\ answer.status = 200
            /\ level # "root" => answer.status \in {401, 403}

\* No two users have one name or one token, whoever is created.
ASSUME UsersApart ==
    \A users \in AllUsers, name, token \in {"t1", "t3"} :
        LET after == Access!insert_user(users, 3, [username |-> name, email |-> None, token |-> token]).users
        IN \A a, b \in DOMAIN after :
               a # b => after[a].username # after[b].username /\ after[a].token # after[b].token

\* With users but without a token of its own, the server's administration is out of
\* everybody's reach.
ASSUME UsersNeedAServerToken ==
    \A req \in Requests, users \in AllUsers :
        LET server == [expected |-> None, multi |-> TRUE]
        IN Access!require_root_for_multiuser_admin(server, LevelOf(server, req, users)) = 401

-----------------------------------------------------------------------------
(* Active projects: every sequence of three hooks of two users' sessions.  *)

LOCAL Actors == {None, "u1", "u2"} \X {None, "s1", "s2"}
LOCAL Modes == {"single", "per_session", "per_actor"}
LOCAL Memos(mode, cap, a, b) ==
    UNION {Access!set_for(m, b, <<"w2", "p2">>, TRUE, 2) :
               m \in Access!set_for(Access!with_config(mode, 3, cap), a, <<"w1", "p1">>, FALSE, 1)}

\* Where callers are told apart, one with a key of its own is never answered the
\* project of another user's session, and never the shared one.
ASSUME SessionsApart ==
    \A mode \in Modes \ {"single"}, cap \in 1..3, a, b \in Actors : \A memo \in Memos(mode, cap, a, b) :
        \A reader \in Actors, now \in 2..5 :
            LET key == Access!scoped_key(mode, reader)
                heard == {h \in {a, b} : \/ Access!scoped_key(mode, h) = key
                                         \/ mode = "per_actor" /\ h[1] # None /\ <<h[1], None>> = key}
            IN key # Access!Nobody /\ heard = {} => Access!get_for(memo, reader, now) = <<None, None>>

\* The last hook of a caller is what the caller is answered, until it is too old, and
\* a request that says the user alone is answered the user's last session.
ASSUME LastHookAnswered ==
    \A mode \in Modes, cap \in 2..3, a, b \in Actors : \A memo \in Memos(mode, cap, a, b) :
        /\ Access!get_for(memo, b, 4) = <<"w2", "p2">>
        /\ mode = "per_actor" /\ b[1] # None => Access!get_for(memo, <<b[1], None>>, 4) = <<"w2", "p2">>
        /\ Access!scoped_key(mode, b) # Access!Nobody => Access!get_for(memo, b, 5) = <<None, None>>


\* There are never more entries than the limit, a limit of nothing being one.
ASSUME EntriesBounded ==
    \A mode \in Modes, cap \in 0..3, a, b \in Actors : \A memo \in Memos(mode, cap, a, b) :
        Cardinality(DOMAIN memo.entries) <= (IF cap = 0 THEN 1 ELSE cap)

\* A project, or a workspace, that is gone is nobody's active project.
ASSUME GoneProjectForgotten ==
    \A mode \in Modes, cap \in 1..3, a, b \in Actors : \A memo \in Memos(mode, cap, a, b) :
        /\ ~Access!contains_project(Access!clear_project(memo, "p2", 3), "p2", 3)
        /\ ~Access!contains_workspace(Access!clear_workspace(memo, "w1", 3), "w1", 3)
        /\ \A reader \in Actors :
               /\ Access!get_for(Access!clear_project(memo, "p2", 3), reader, 3) # <<"w2", "p2">>
               /\ Access!get_for(Access!retarget_project_workspace(memo, "p1", "w2", 3), reader, 3) # <<"w1", "p1">>
               /\ Access!get_for(Access!clear(memo), reader, 3) = <<None, None>>

-----------------------------------------------------------------------------
(* Pages: two scopes, two paths, worlds with or without a history.         *)

LOCAL Scopes == {"A", "B"}
LOCAL PagePaths == {"x", "y"}
LOCAL Places == Scopes \X PagePaths
LOCAL Contents(dom) == [dom -> {"v1", "v2"}]
LOCAL Trees == UNION {Contents(dom) : dom \in {{}, {<<"A", "x">>}, {<<"A", "x">>, <<"A", "y">>}}}
LOCAL Worlds ==
    [scopes : {{}, {"A"}}, files : Trees, rows : {t \in Trees : Cardinality(DOMAIN t) < 2},
     commits : {<<>>} \cup {<<t>> : t \in {u \in Trees : Cardinality(DOMAIN u) = 1}}]
LOCAL Asks == [valid : BOOLEAN, scope : Scopes, path : PagePaths, page : {"v1", "v3"}]
LOCAL Faults == SUBSET {"tip", "store", "tree"}
LOCAL Answers(world, req, admitted, fails) ==
    {Roads!handle_write_page(world, req, admitted, fails), Roads!handle_delete_page(world, req, admitted, fails),
     Roads!handle_restore_page(world, req, 1, fails)}

\* A page that was deleted can be restored: some checkpoint holds what it held.
ASSUME DeletedIsRecoverable ==
    \A world \in Worlds, req \in Asks, fails \in Faults :
        LET place == <<req.scope, req.path>>
            deleted == Roads!handle_delete_page(world, req, TRUE, fails)
        IN deleted.status = 200 /\ place \in DOMAIN world.files =>
               \E rev \in DOMAIN deleted.world.commits :
                   LET restored == Roads!handle_restore_page(deleted.world, req, rev, {})
                   IN /\ restored.status = 200
                      /\ restored.world.files = Roads!Put(deleted.world.files, place, world.files[place])

\* A request that is refused, by whomever and whenever, changes no page; only the
\* scope of a write may be new.
ASSUME RefusedChangesNoPage ==
    \A world \in Worlds, req \in Asks, admitted \in BOOLEAN, fails \in Faults :
        \A answer \in Answers(world, req, admitted, fails) :
            /\ answer.status # 200 => answer.world.files = world.files /\ answer.world.rows = world.rows
            /\ answer.world.scopes # world.scopes =>
                   answer = Roads!handle_write_page(world, req, admitted, fails)

\* Whatever steps break, what a request committed is not uncommitted, and the next
\* checkpoint holds all that is on disk.
ASSUME HistoryOnlyGrows ==
    \A world \in Worlds, req \in Asks, fails \in Faults : \A answer \in Answers(world, req, TRUE, fails) :
        LET later == Roads!Checkpoint(answer.world)
        IN /\ IsPrefix(world.commits, answer.world.commits)
           /\ later.commits # <<>> => Last(later.commits) = later.files
           /\ answer.status = 200 /\ "tree" \notin fails => later = answer.world

\* What was written is what is read, by the route and by the tool; what was deleted is not.
ASSUME ReadsFollowWrites ==
    \A world \in Worlds, req \in Asks, fails \in Faults, active \in Scopes :
        LET asks == [scope |-> None, path |-> req.path, query |-> FALSE]
            wrote == Roads!memory_write_page(world, [valid |-> TRUE, global |-> FALSE, scope |-> None,
                         path |-> req.path, page |-> req.page], active, "B", TRUE, fails)
            deleted == Roads!memory_delete_page(world, [req EXCEPT !.scope = None], active, TRUE, fails)
        IN /\ wrote.status = 200 => Roads!memory_read_page(wrote.world, asks, active, None) = [status |-> 200, page |-> req.page]
           /\ deleted.status = 200 => Roads!memory_read_page(deleted.world, asks, active, None).status = 404

\* The tool and the route do the same to the same page.
ASSUME RoadsAgree ==
    \A world \in Worlds, req \in Asks, admitted \in BOOLEAN, fails \in Faults, active \in Scopes :
        /\ Roads!handle_write_page(world, req, admitted, fails)
               = Roads!memory_write_page(world, [valid |-> req.valid, global |-> FALSE, scope |-> req.scope,
                     path |-> req.path, page |-> req.page], active, "B", admitted, fails)
        /\ Roads!handle_delete_page(world, req, admitted, fails)
               = Roads!memory_delete_page(world, req, active, admitted, fails)

-----------------------------------------------------------------------------
(* Webhooks and metadata.                                                  *)

LOCAL Hook(name, blocking, reject) ==
    [name |-> name, events |-> {"write"}, blocking |-> blocking, reject |-> reject]
LOCAL Chains == {<<Hook("h1", b1, r1), Hook("h2", b2, r2)>> : b1, b2, r1, r2 \in BOOLEAN}
LOCAL ObjectValues == {[kind |-> "object", map |-> m] :
    m \in {"title" :> "T", "pinned" :> "true", "tier" :> "working", ("tier" :> "working") @@ ("pinned" :> "false")}}
LOCAL Metadata == {[kind |-> "null"]} \cup ObjectValues
LOCAL HookReplies ==
    {[kind |-> "quiet"], [kind |-> "error"]}
        \cup {[kind |-> "page", frontmatter |-> f, body |-> b] : f \in ObjectValues \cup {[kind |-> None]}, b \in {None, "b2"}}
LOCAL Context(skip) == [op |-> "write", skip |-> skip, workspace |-> None, project |-> None]
LOCAL AskedPage(fm) == [frontmatter |-> fm, body |-> "b1", tier |-> "episodic", pinned |-> FALSE]
LOCAL ReplyPairs == {("h1" :> a) @@ ("h2" :> b) : a, b \in HookReplies}

\* Hooks that only observe, or are passed over, neither veto nor change a page; a page
\* is refused exactly when one that may reject it failed to answer.
ASSUME OnlyRejectingHooksVeto ==
    \A hooks \in Chains, replies \in ReplyPairs, skip \in SUBSET {"h1", "h2"} :
        LET page == [frontmatter |-> [kind |-> "null"], body |-> "b1"]
            answer == Roads!run(hooks, replies, Context(skip), page)
            heard == {n \in {1, 2} : hooks[n].blocking /\ hooks[n].name \notin skip}
        IN /\ heard = {} => answer = [ok |-> TRUE, page |-> page]
           /\ answer.ok <=> \A n \in heard : replies[hooks[n].name].kind = "error" => ~hooks[n].reject
           /\ answer.ok = Roads!notify(hooks, replies, Context(skip))

\* The file of a page says what its row says, so that a reindex changes nothing,
\* whatever the hooks made of its metadata.
ASSUME FilesSayWhatRowsSay ==
    \A hooks \in Chains, replies \in ReplyPairs, fm \in Metadata, slot \in BOOLEAN, user \in {None, "u"} :
        LET written == Roads!WrittenPage(AskedPage(fm), slot, user, hooks, replies, Context({}))
        IN written.ok => Roads!derive_index_metadata(slot, written.page.frontmatter) = written.row

\* An approved proposal's file says so only where no hook adds a tier or a pin.
ASSUME ApprovedFilesSayWhatRowsSay ==
    \A hooks \in Chains, replies \in ReplyPairs, slot \in BOOLEAN :
        LET fm == [kind |-> "object", map |-> "title" :> "T"]
            approved == Roads!ApprovedPage(AskedPage(fm), slot, None, hooks, replies, Context({}))
            derived == Roads!derive_index_metadata(slot, approved.page.frontmatter)
        IN /\ Roads!Field(approved.page.frontmatter, "tier") = None /\ Roads!Field(approved.page.frontmatter, "pinned") = None
                  => derived = approved.row
           /\ Roads!Field(approved.page.frontmatter, "tier") = "working" => derived # approved.row

\* Anonymous callers and root may pass hooks over, a user may not.
ASSUME UsersSkipNothing ==
    \A level \in Levels : Roads!skip_webhooks_for_request(level, {"h1"}) = {} <=> level = "user"

-----------------------------------------------------------------------------
(* The rest.                                                               *)

LOCAL PagesToEmbed ==
    [id : 1..2, kind : {"blank", "unreadable", "refused", "good"}]

\* Every page is counted once, whatever breaks.
ASSUME EmbedCountsAddUp ==
    \A a, b, c \in PagesToEmbed, embedded \in SUBSET (1..2), reembed, dry \in BOOLEAN,
       batch \in 1..2, broken \in SUBSET (1..2) :
        LET n == Roads!embed_project_pages(<<a, b, c>>, embedded, reembed, dry, batch, broken)
        IN n.embedded + n.failed + n.skipped + n.would = 3

\* Saying the names twice writes nothing the second time, unless a link stopped the first.
ASSUME ManifestsSettle ==
    \A found \in [{"A", "B"} -> {"nothing", "A", "B", "link"}] :
        LET wanted == [s \in {"A", "B"} |-> s]
            once == Roads!backfill_scope_manifests(found, wanted)
        IN /\ once.ok => once.on = wanted /\ Roads!backfill_scope_manifests(once.on, wanted).written = 0
           /\ once.ok <=> \A s \in {"A", "B"} : found[s] # "link"

\* A rebuild that ends well has every page of every directory; one that does not has
\* none of the directories after the one that broke it.
ASSUME RebuildIsWholeOrStops ==
    \A n1, n2, s1, s2 \in BOOLEAN :
        LET dirs == <<[named |-> n1, sound |-> s1, pages |-> {"p1"}], [named |-> n2, sound |-> s2, pages |-> {"p2"}]>>
            built == Roads!reindex_all(dirs)
        IN /\ built.ok <=> n1 /\ n2 /\ s1 /\ s2
           /\ built.ok => built.rows = {"p1", "p2"}
           /\ ~(n1 /\ s1) => "p2" \notin built.rows

\* A list of checkpoints begins with the last one and is never longer than asked, or
\* than a hundred.
ASSUME NewestCheckpointsFirst ==
    \A n \in {0, 1, 5, 101}, limit \in {0, 1, 3, 1000} :
        LET listed == Roads!recent_checkpoints([k \in 1..n |-> <<>>], limit)
        IN /\ Len(listed) <= 100 /\ (limit > 0 => Len(listed) <= limit)
           /\ n > 0 => listed # <<>> /\ listed[1] = n
           /\ \A i, j \in DOMAIN listed : i < j => listed[i] > listed[j]

-----------------------------------------------------------------------------
(* Credentials.                                                            *)

LOCAL Token(id, account) == [id |-> id, claims |-> <<None, account, None>>]
LOCAL OpenAi(id, expires) ==
    [access |-> Token(id, None), refresh |-> "r0", expires |-> expires, account |-> "acct"]
LOCAL Copilots ==
    [github : {None, "g1"}, github_expires : {0, 200}, access : {None, "c1"}, expires : {0, 200}, base : {None}]
LOCAL Object(entries) == [kind |-> "object", entries |-> entries]
LOCAL Files ==
    {Object(<<>>), [kind |-> "broken", entries |-> <<>>], [kind |-> "other", entries |-> <<>>]}
        \cup {Object("openai" :> Creds!Entry(OpenAi("a1", 100))),
              Object("oidc" :> [type |-> "oauth", valid |-> FALSE, token |-> Creds!NoCopilot]),
              Object("copilot" :> [type |-> "key", valid |-> TRUE, token |-> Creds!NoCopilot])}
        \cup {Object("copilot" :> Creds!Entry(c)) : c \in Copilots}
        \cup {Object("openai" :> Creds!Entry(OpenAi("a1", 100)) @@ "copilot" :> Creds!Entry(c)) : c \in Copilots}
LOCAL Keys == {"openai", "copilot", "oidc"}
LOCAL Replies(statuses) ==
    [status : statuses, access : {Token("a2", None), Token("a2", "acct2")}, refresh : {None, "r1"},
     expires_in : {0, 30, 900}, id_token : {Token(None, None)}]
LOCAL Exchanges == [status : {200, 401}, token : {"c2"}, expires_at : {300, 900}, named : {None, "named"}]

\* A login, a logout or a renewal of one provider's token leaves what is kept for the
\* others, and what cannot be written or read as an object is left as it was.
ASSUME OthersKept ==
    \A file \in Files, reply \in Replies({200, 401}), writable \in BOOLEAN :
        LET answers == {<<"openai", Creds!login_openai_oauth(file, reply, 10, writable)>>,
                        <<"copilot", Creds!login_copilot(file, None, "g2", None, writable)>>,
                        <<"oidc", Creds!login_oidc_device(file, reply, "issuer", 10, writable)>>,
                        <<"openai", Creds!Logout(file, "openai")>>, <<"copilot", Creds!Logout(file, "copilot")>>}
        IN \A answer \in answers :
               /\ ~answer[2].ok => answer[2].file = file
               /\ file.kind # "object" => ~answer[2].ok
               /\ \A key \in Keys \ {answer[1]} :
                      Creds!load_entry(answer[2].file, key) = Creds!load_entry(file, key)

\* Logging in is seen by the next process, and out of everything leaves no file.
ASSUME LoginsSeen ==
    \A file \in {f \in Files : f.kind = "object"} :
        LET login == Creds!login_copilot(file, "g2", "g3", None, TRUE)
            Out(f, key) == Creds!Logout(f, key).file
        IN /\ Creds!CopilotStored(login.file) = Creds!from_github_token("g2")
           /\ Creds!CopilotStatus(login.file, 10) = "in"
           /\ Creds!load_entry(Out(login.file, "copilot"), "copilot").status = None
           /\ Out(Out(Out(login.file, "copilot"), "openai"), "oidc") = Creds!NoFile

\* Nothing guards the file between reading and replacing it: of two processes that read
\* the same file, the one that replaces it last undoes the other's login.
ASSUME LastSaverForgetsOther ==
    LET one == Creds!write_auth_file(Creds!NoFile, "openai", OpenAi("a1", 100), TRUE)
        two == Creds!write_auth_file(Creds!NoFile, "copilot", Creds!from_github_token("g1"), TRUE)
    IN one.ok /\ two.ok /\ Creds!load_entry(two.file, "openai").status = None

\* A token that is used is the one a restart would load, and one that is not near its end
\* unless the service gave no better.
ASSUME UsedTokenIsKept ==
    \A reply \in Replies({200, 401}), writable \in BOOLEAN, now \in {10, 39, 40, 100}, expires \in {100, 500} :
        LET token == OpenAi("a1", expires)
            file == Object("openai" :> Creds!Entry(token))
            used == Creds!current_token(Creds!OpenAiProvider(file).provider, file, now, reply, writable)
        IN /\ used.ok => Creds!OpenAiProvider(used.file).provider = used.provider
           /\ used.ok /\ Creds!needs_refresh(used.provider.token, now) => reply.expires_in = 30
           /\ used.ok \/ used.file = file

\* A service that takes a refresh token once only: renewing fails for good when the new
\* one could not be saved, and never when each stays good.
ASSUME UnsavedRenewalLosesLogin ==
    \A rotates \in BOOLEAN, restarts \in BOOLEAN :
        LET Service(good, refresh) ==
                [status |-> IF refresh \in good THEN 200 ELSE 401, access |-> Token("a2", None),
                 refresh |-> IF rotates THEN "r1" ELSE None, expires_in |-> 900, id_token |-> Token(None, None)]
            file == Object("openai" :> Creds!Entry(OpenAi("a1", 100)))
            first == Creds!current_token(Creds!OpenAiProvider(file).provider, file, 90, Service({"r0"}, "r0"), FALSE)
            good == IF rotates THEN {"r1"} ELSE {"r0"}
            provider == IF restarts THEN Creds!OpenAiProvider(first.file).provider ELSE first.provider
            second == Creds!current_token(provider, first.file, 91, Service(good, provider.token.refresh), TRUE)
        IN ~first.ok /\ second.ok = ~rotates

\* An account that was once known stays known, until a token names another.
ASSUME AccountKept ==
    \A reply \in Replies({200}) :
        LET token == Creds!refresh_access_token(OpenAi("a1", 100), reply, 10).token
        IN /\ token.account = (IF reply.access = Token("a2", "acct2") THEN "acct2" ELSE "acct")
           /\ token.refresh = (IF reply.refresh = None THEN "r0" ELSE "r1")

\* A token of copilot is exchanged once: the next calls answer it from memory until it is
\* near its end, also when it could not be saved, and after a restart when it could.
ASSUME ExchangedOnce ==
    \A stored \in Copilots, github, direct \in {None, "g2"}, base \in {None, "set"} :
        \A reply \in Exchanges, writable \in BOOLEAN :
            LET auth == [github |-> github, direct |-> direct, base |-> base, named |-> None]
                file == Object("copilot" :> Creds!Entry(stored))
                Call(s, f, now, r) == Creds!current_copilot_token(auth, s, f, now, r, writable)
                refused == [reply EXCEPT !.status = 401]
                first == Call(stored, file, 100, reply)
                again == Call(first.stored, first.file, 150, refused)
                restarted == Call(Creds!CopilotStored(first.file), first.file, 150, refused)
            IN (direct = None /\ first.stored # stored) =>
                   /\ first.ok = writable
                   /\ again.ok /\ again.token.access = "c2"
                   /\ writable => restarted.ok /\ restarted.token = first.token

\* What the status calls logged in can be used without any other credential, as long as
\* GitHub's token is taken; what it calls logged out cannot.
ASSUME StatusIsUsable ==
    \A stored \in Copilots, reply \in Exchanges, now \in {10, 79, 80, 300} :
        LET auth == [github |-> None, direct |-> None, base |-> None, named |-> None]
            file == Object("copilot" :> Creds!Entry(stored))
            used == Creds!current_copilot_token(auth, stored, file, now, reply, TRUE)
        IN /\ Creds!CopilotStatus(file, now) = "in" /\ reply.status = 200 => used.ok
           /\ Creds!CopilotStatus(file, now) = "cached" => used.ok
           /\ Creds!CopilotStatus(file, now) # "out" => Creds!CopilotProvider(auth, file, now).ok
           /\ used.ok /\ Creds!CopilotStatus(file, now) = "out" => stored.github_expires # 0

\* A device that waits asks at no shorter interval than it was told, longer after every
\* time it was asked to slow down, never after its time, and takes what comes in time.
ASSUME DevicesWait ==
    \A replies \in SeqOf({"200", "authorization_pending", "slow_down", "access_denied"}, 4) :
        \A interval \in {0, 2, 5}, expires \in {0, 12, 30}, timeout \in {0, 10, 40} :
            \A wait \in {Creds!poll_oidc_device(replies, interval, expires, timeout),
                         Creds!poll_github_device_authorization(replies, interval, expires, timeout)} :
                LET polls == wait.polls
                    slowed(i) == Cardinality({j \in 1..i : replies[j] = "slow_down"})
                IN /\ \A i \in DOMAIN polls : polls[i] < timeout /\ (expires # 0 => polls[i] < expires)
                   /\ \A i \in 1..(Len(polls) - 1) : polls[i + 1] - polls[i] >= interval + 5 * slowed(i)
                   /\ (\E i \in DOMAIN polls : replies[i] = "200") <=> wait.end = "token"
                   /\ wait.end = "waiting" => Len(polls) = Len(replies)

-----------------------------------------------------------------------------
(* Providers.                                                              *)

LOCAL AllProviders ==
    {"anthropic", "openai", "gemini", "openai-compat", "openai-oauth", "copilot", "anthropic-oauth", "opencode"}
LOCAL Credential(requirement, credential) ==
    [requirement |-> requirement, credential |-> credential, value |-> IF credential = None THEN None ELSE "secret"]
LOCAL Configs ==
    {[provider |-> p, model |-> "gpt-5", base |-> base, strict |-> strict,
      auth |-> Credential(Llm!auth_requirement(p), credential)] :
        p \in AllProviders, base \in {None, "own-url"}, strict \in BOOLEAN,
        credential \in {None, "key", "openai-oauth", "copilot", "anthropic-oauth"}}

\* A provider is built from the credential it requires and from no other; the compatible
\* one asks for an address instead, and only it can be strict on top of a tolerant reading.
ASSUME BuiltFromOwnCredential ==
    \A config \in Configs :
        LET built == Llm!build_provider(config)
            wanted == CASE config.auth.requirement = "required" -> config.auth.credential = "key"
                        [] config.auth.requirement = "optional" -> config.base # None
                        [] OTHER -> config.auth.credential = config.auth.requirement
        IN /\ built.ok <=> wanted
           /\ built.ok => /\ built.value.provider = config.provider
                          /\ built.value.key # None
                          /\ built.value.strict = (config.strict /\ config.provider = "openai-compat")
                          /\ built.value.base = "own-url" =>
                                 config.provider \in {"openai-compat", "anthropic-oauth"}

LOCAL Plain == Llm!Object("type" :> Llm!Word("string"))
LOCAL Shape(properties) == Llm!Object("type" :> Llm!Word("object") @@ "properties" :> Llm!Object(properties))
LOCAL Ref(name) == Llm!Object("$ref" :> Llm!Word(name) @@ "description" :> Llm!Word("x"))
LOCAL Leaves == {Plain, Ref("D"), Llm!Object("type" :> Llm!List(<<Llm!Word("string"), Llm!Word("null")>>))}
LOCAL Level(inner) ==
    inner \cup {Shape("a" :> s) : s \in inner} \cup {Shape("a" :> s @@ "b" :> Plain) : s \in inner}
          \cup {Llm!Object("oneOf" :> Llm!List(<<s, Plain>>)) : s \in inner}
          \cup {Llm!Object("type" :> Llm!Word("array") @@ "items" :> s) : s \in inner}
LOCAL Schemas == Level(Level(Leaves))

\* Every value inside a value, itself included.
RECURSIVE Inside(_)
Inside(value) ==
    {value} \cup (CASE value.kind = "object" -> UNION {Inside(value.fields[k]) : k \in DOMAIN value.fields}
                    [] value.kind = "array"  -> UNION {Inside(value.items[i]) : i \in DOMAIN value.items}
                    [] OTHER -> {})

LOCAL Objects(schema) == {v \in Inside(schema) : v.kind = "object"}

\* What is sent as a strict schema requires every property of every object, lets no other
\* in, offers alternatives in one way only, and is strict already when it is sent again.
ASSUME StrictEverywhere ==
    \A schema \in Schemas :
        LET strict == Llm!enforce_strict_object_schemas(schema)
        IN /\ \A v \in Objects(strict) :
                  LET f == v.fields
                  IN /\ "$ref" \in DOMAIN f => DOMAIN f = {"$ref"}
                     /\ "oneOf" \notin DOMAIN f
                     /\ "properties" \in DOMAIN f =>
                            /\ f["additionalProperties"] = Llm!Word("false")
                            /\ Range(f["required"].items) = {Llm!Word(k) : k \in DOMAIN f["properties"].fields}
           /\ Llm!enforce_strict_object_schemas(strict) = strict

LOCAL WithDefs(schema, def) ==
    Llm!Object(schema.fields @@ "$defs" :> Llm!Object("D" :> def) @@ "additionalProperties" :> Llm!Word("false"))

\* What Gemini is sent names no reference and no keyword it refuses, and no list of types;
\* a definition that refers to itself, or to none, is an error and not an endless schema.
ASSUME GeminiSchemasPlain ==
    \A schema \in {s \in Schemas : "$ref" \notin DOMAIN s.fields}, def \in {Plain, Shape("c" :> Plain), Ref("D"), Ref("E")} :
        LET prepared == Llm!prepare_schema_for_gemini(WithDefs(schema, def))
            refers == \E v \in Objects(schema) : "$ref" \in DOMAIN v.fields
        IN /\ prepared.ok <=> ~(refers /\ def \in {Ref("D"), Ref("E")})
           /\ prepared.ok => \A v \in Objects(prepared.value) :
                  /\ DOMAIN v.fields \cap ({"$ref"} \cup Llm!UNSUPPORTED_KEYS) = {}
                  /\ "type" \in DOMAIN v.fields => v.fields["type"].kind # "array"

RECURSIVE Nested(_)
Nested(n) == IF n = 0 THEN Plain ELSE Shape("a" :> Nested(n - 1))

\* The bound on references counts every level of the schema: eight objects inside each
\* other are too deep although nothing refers to anything.
ASSUME DeepSchemasRefused ==
    \A n \in 0..9 : Llm!prepare_schema_for_gemini(Nested(n)).ok <=> n <= 7

\* A keyword that is dropped is dropped as the name of a property too, also when the
\* property is required.
ASSUME PropertiesWithKeywordNamesLost ==
    LET schema == Llm!Object("properties" :> Llm!Object("default" :> Plain) @@ "required" :> Llm!List(<<Llm!Word("default")>>))
        sent == Llm!prepare_schema_for_gemini(schema).value
    IN sent.fields["properties"] = Llm!Object(<<>>) /\ sent.fields["required"] = schema.fields["required"]

LOCAL JsonString == {<<"q">> \o s \o <<"q">> : s \in {<<>>, <<"a">>, <<"{">>, <<"}", "}">>, <<"\\", "q">>, <<"\\", "\\">>}}
LOCAL Flat == {<<"{", "}">>} \cup {<<"{">> \o s \o <<":">> \o t \o <<"}">> : s \in JsonString, t \in JsonString}
LOCAL Deep == Flat \cup {<<"{", "q", "a", "q", ":">> \o o \o <<"}">> : o \in Flat}
LOCAL Around == SeqOf({"a", "q", "}", "\\"}, 2)

\* The object in an answer is found whatever braces and quotes its strings hold, and
\* whatever stands around it, as long as no other brace opens before it.
ASSUME ObjectFound ==
    /\ \A object \in Deep, before \in Around, after \in {<<>>, <<"}">>, <<"q">>, <<"{", "}">>} :
           Llm!first_json_object(before \o object \o after) = {object}
    /\ \A text \in SeqOf({"{", "}", "q", "\\"}, 6) :
           \A slice \in Llm!first_json_object(text) :
               /\ slice[1] = "{" /\ slice[Len(slice)] = "}"
               /\ \E i \in 0..Len(text) : SubSeq(text, i + 1, i + Len(slice)) = slice /\ \A j \in 1..i : text[j] # "{"

LOCAL Answer(status, text) ==
    [status |-> status, chunks |-> <<10>>, parsed |-> TRUE, body |-> [choices |-> <<text>>, usage |-> None]]
LOCAL Wrapped ==
    {<<>>, <<"a">>, <<"{">>, <<"q">>} \cup
        {before \o <<"{", "}">> \o after :
            before \in {<<>>, <<"a">>, <<"<think>", "{", "</think>">>, <<"fence">>}, after \in {<<>>, <<"a">>, <<"fence">>}}
LOCAL Json == [t \in {<<"{", "}">>, <<"q", "q">>} |-> IF t = <<"{", "}">> THEN Llm!Object(<<>>) ELSE Llm!Word("")]

\* The compatible provider answers an object or an error; it asks twice only when it got
\* an answer that is no object, and then the second answer alone counts.
ASSUME CompatAnswersObjects ==
    \A strict \in BOOLEAN, s1 \in {200, 429, 500}, s2 \in {200, 500}, t1 \in Wrapped \cup {<<"q", "q">>}, t2 \in Wrapped :
        LET run == Llm!complete_structured_compat(strict, Answer(s1, t1), Answer(s2, t2), Json)
            hidden(t) == \E i \in 1..(Len(t) - 1) : SubSeq(t, i, i + 1) = <<"{", "}">>
        IN /\ run.result.ok => run.result.value.kind = "object"
           /\ run.asks = 2 <=> (strict /\ s1 = 200 /\ t1 # <<"{", "}">>)
           /\ run.result.ok <=> LET s == IF run.asks = 1 THEN s1 ELSE s2
                                    t == IF run.asks = 1 THEN t1 ELSE t2
                                IN s = 200 /\ hidden(t)

LOCAL Chats == [system : {None, "s"}, messages : {<<[role |-> "user", content |-> "u"], [role |-> "assistant", content |-> "v"]>>},
                max_tokens : {100, 20000}, temperature : {None, "low"}]

\* What the caller asks for reaches the service: the system's text first or apart, all the
\* messages in order, never more room than asked for, and no temperature the model refuses.
ASSUME RequestsComplete ==
    \A chat \in Chats, model \in {"gpt-5", "o1", "o-other", "gpt-4"}, dialect \in {"official", "compat"} :
        LET sent == Llm!build_request([dialect |-> dialect, model |-> model], chat, {Shape("a" :> Plain)})
            copilot == Llm!CopilotChatRequest(model, chat, {})
        IN /\ \A r \in {sent, copilot} :
                  /\ IsSuffix(chat.messages, r.messages)
                  /\ Len(r.messages) = 3 <=> chat.system # None
                  /\ (r.max_tokens = 0) # (r.max_completion_tokens = 0)
                  /\ r.max_tokens <= chat.max_tokens /\ r.max_completion_tokens <= chat.max_tokens
           /\ sent.temperature # chat.temperature => dialect = "official" /\ model \in {"gpt-5", "o1"}
           /\ copilot.temperature # sent.temperature => model = "o-other" \/ dialect = "compat"

LOCAL Payload(kind, text) ==
    [kind |-> "value", type |-> kind, error |-> FALSE, valid |-> TRUE, text |-> text,
     response |-> [output_text |-> <<>>, output |-> <<>>]]
LOCAL Data(value) == [kind |-> "data", of |-> 1, part |-> 1, value |-> value]
LOCAL Half(value, i) == [kind |-> "data", of |-> 2, part |-> i, value |-> value]
LOCAL Blank == [kind |-> "blank"]
LOCAL Event(name) == [kind |-> "event", name |-> name]
LOCAL Finishes ==
    {<<Data(Payload("completed", <<>>)), Blank>>, <<Half(Payload("completed", <<>>), 1), Half(Payload("completed", <<>>), 2), Blank>>,
     <<Event("completed"), Data(Payload(None, <<>>)), Blank>>, <<Data(Payload("failed", <<>>)), Blank>>,
     <<Data([Payload(None, <<>>) EXCEPT !.error = TRUE]), Blank>>, <<Data([Payload("completed", <<>>) EXCEPT !.valid = FALSE]), Blank>>}

\* A stream that is cut anywhere is an error until its last event is whole, never the half
\* of a text; one that ends in a failure is an error.
ASSUME CutStreamsFail ==
    \A finish \in Finishes :
        LET deltas == <<Data(Payload("delta", <<"a">>)), Blank, Event("ping"), Blank, Data(Payload("delta", <<"b">>)), Blank>>
            stream == deltas \o finish \o <<Data([kind |-> "empty"]), Blank>>
            good == \E i \in DOMAIN finish : finish[i].kind = "data" /\ ~finish[i].value.error /\ finish[i].value.valid
                                              /\ finish[i].value.type # "failed"
        IN \A cut \in 0..Len(stream) :
               LET read == Llm!parse_sse_response(SubSeq(stream, 1, cut))
               IN /\ read.ok <=> good /\ cut >= Len(deltas) + Len(finish) - 1
                  /\ read.ok => Llm!extract_output_text(read.value) = <<"a", "b">>

LOCAL Reply(status, n) ==
    [status |-> status, chunks |-> <<n>>, parsed |-> TRUE,
     body |-> [kind |-> "json", error |-> FALSE, values |-> [i \in 1..n |-> [number |-> TRUE]],
               data |-> <<[list |-> TRUE, embedding |-> [i \in 1..n |-> [number |-> TRUE]]]>>]]
LOCAL Attempts == {[i \in 1..6 |-> Reply(s[i], n)] : s \in [1..6 -> {200, 429, 500}], n \in {2, 3}}

\* An embedder gives up after six attempts, waits twice as long before each, makes another
\* only after being told to slow down, and answers no vector of another length.
ASSUME EmbeddersPersist ==
    \A replies \in Attempts :
        LET at == Llm!AnsweredAt(replies)
            answers == {Llm!OpenAiEmbed(replies, 2), Llm!GoogleEmbed(replies, 2)}
        IN /\ \A i \in 1..(at - 1) : replies[i].status = 429
           /\ FoldSeq(LAMBDA a, b : a + b, 0, Llm!Delays(replies)) = 2^at - 2
           /\ \A answer \in answers :
                  /\ answer.ok <=> replies[at].status = 200 /\ replies[at].chunks = <<2>>
                  /\ answer.ok => Len(answer.value) = 2
           /\ Llm!VoyageEmbed(replies[1], 2).ok <=> replies[1].status = 200 /\ replies[1].chunks = <<2>>

LOCAL CharTexts == SeqOf({1, 2, 4}, 5)

\* A text that is cut keeps whole characters, as many as fit, and a mark that it was cut;
\* what is embedded never exceeds its bytes.
ASSUME CutsFit ==
    \A text \in CharTexts, max \in 0..9 :
        LET head == Llm!truncate_with_ellipsis(text, max)
            tail == Llm!suffix_within_bytes(text, max)
            embedded == Llm!truncate_for_embedding(text, max, 8)
        IN /\ Llm!Bytes(text) <= max => head = text /\ tail = text
           /\ Llm!Bytes(text) > max =>
                  /\ IsPrefix(SubSeq(head, 1, Len(head) - 1), text) /\ Llm!Bytes(head) <= max + 3
                  /\ Llm!Bytes(SubSeq(text, 1, Len(head))) > max
           /\ IsSuffix(tail, text) /\ Llm!Bytes(tail) <= max
           /\ Llm!Bytes(embedded) <= Min({3 * max, 8})

LOCAL Results == {Llm!Done(None), Llm!Failed("provider", 500), Llm!Failed("shape", 0)}

\* The health is that of the last call, keeps the time of the last success across errors,
\* and hints at a remedy only while the last call has failed.
ASSUME HealthFollowsCalls ==
    \A calls \in SeqOf(Results, 4) :
        LET Health[n \in 0..Len(calls)] ==
                IF n = 0 THEN Llm!configure("hint") ELSE Llm!record_result(Health[n - 1], calls[n], n)
            seen == Llm!snapshot(Health[Len(calls)])
            good == {n \in DOMAIN calls : calls[n].ok}
        IN /\ seen.call = Len(calls) /\ seen.success = Max(good \cup {0})
           /\ seen.status = (CASE calls = <<>> -> "unknown" [] Len(calls) \in good -> "ok" [] OTHER -> "error")
           /\ (seen.status = "error") = (seen.hint # None)
           /\ seen.status # "error" => seen.code = 0 /\ seen.error = 0

-----------------------------------------------------------------------------
(* The settings, the start of the server and its surroundings.             *)

LOCAL Maps(keys, values) == UNION {[k -> values] : k \in SUBSET keys}

\* A variable that is not blank wins over the file, and the file over the default; the
\* command wins over both. Nothing that is set is lost.
ASSUME SettingsOrder ==
    \A env \in Maps({"data_dir", "server_url", "llm_model"}, {"env"}),
       file \in Maps({"data_dir", "server_url", "llm_model"}, {"file"}), cli \in {None, "cli"} :
        LET loaded == Setup!load(cli, env, [d \in {"default", "env", "cli"} |-> file])
            Wanted(k) == CASE k = "data_dir" /\ cli # None -> cli
                           [] k \in DOMAIN env -> env[k]
                           [] k \notin DOMAIN env /\ k \in DOMAIN file -> file[k]
                           [] OTHER -> Setup!Defaults[k]
        IN \A k \in {"data_dir", "server_url", "llm_model"} : loaded[k] = Wanted(k)

\* A blank variable is missing to some readers and a value to the others: the file is looked
\* for in the default directory and the data kept in the current one, and a server's address
\* that was blanked counts as configured.
ASSUME BlankVariablesAreValues ==
    /\ Setup!load(None, [data_dir |-> ""], [d \in {"default"} |-> [llm_provider |-> "openai"]]).data_dir = ""
    /\ Setup!load(None, [data_dir |-> ""], [d \in {"default"} |-> [llm_provider |-> "openai"]]).llm_provider = "openai"
    /\ LET env == [server_url |-> ""] IN Setup!server_url_configured(Setup!load(None, env, <<>>), env)

LOCAL Variables ==
    {"ANTHROPIC_API_KEY", "OPENAI_API_KEY", "GEMINI_API_KEY", "GOOGLE_API_KEY", "LLM_API_KEY", "OPENCODE_API_KEY",
     "CLAUDE_CODE_OAUTH_TOKEN", "GH_TOKEN"}
LOCAL Secrets == {[v \in set |-> v] : set \in SUBSET Variables}
LOCAL Suffices ==
    [anthropic |-> {"ANTHROPIC_API_KEY"}, openai |-> {"OPENAI_API_KEY"}, gemini |-> {"GEMINI_API_KEY", "GOOGLE_API_KEY"},
     opencode |-> {"OPENCODE_API_KEY"}, anthropic_oauth |-> {"CLAUDE_CODE_OAUTH_TOKEN"}]

\* A provider that is named is built when one of its own variables is set, and from that one;
\* those that keep their tokens in the file always are, and the compatible one is when it has
\* an address and a model.
ASSUME OwnVariablesSuffice ==
    \A env \in Secrets, name \in DOMAIN Setup!Aliases \cup {"", "wrong"}, model \in {None, "m"}, url \in {None, "url"} :
        LET settings == [Setup!Defaults EXCEPT !.llm_provider = name, !.llm_model = model, !.llm_base_url = url]
            built == Setup!configure_consolidator(settings, env)
            own == IF name = "google" THEN "gemini" ELSE IF name = "opencode_zen" THEN "opencode" ELSE name
        IN /\ built.ok <=> CASE name = "" -> TRUE
                             [] name = "wrong" -> FALSE
                             [] own \in DOMAIN Suffices -> Suffices[own] \cap DOMAIN env # {}
                             [] own = "openai_compat" -> model # None /\ url # None
                             [] OTHER -> TRUE
           /\ built.ok /\ own \in DOMAIN Suffices => \A b \in built.value : b.key \in Suffices[own]
           /\ built.ok /\ own = "openai_compat" => \A b \in built.value : b.key \in {"LLM_API_KEY", "dummy"}

\* The embedder takes the key of the compatible provider only for an address of its own.
ASSUME EmbedderKeys ==
    \A env \in Secrets, url \in {None, "", "url"} :
        LET settings == [Setup!Defaults EXCEPT !.embedding_provider = "openai", !.embedding_base_url = url]
        IN Setup!configure_embedder(settings, env).ok <=>
               \/ "OPENAI_API_KEY" \in DOMAIN env
               \/ url = "url" /\ "LLM_API_KEY" \in DOMAIN env

\* Arguments that are wrong leave the data as it was; a provider that is wrong is found when
\* the store is migrated already.
ASSUME WrongProviderFoundLate ==
    /\ \A bad \in SUBSET {"web_ui", "cors", "manifests", "llm"} :
           bad \cap {"web_ui", "cors"} # {} => Setup!start({}, bad) = [serving |-> FALSE, world |-> {}]
    /\ LET bad == Setup!BadProviders([Setup!Defaults EXCEPT !.llm_provider = "openai"], <<>>)
       IN bad = {"llm"} /\ ~Setup!start({}, bad).serving /\ "migrations" \in Setup!start({}, bad).world

LOCAL Jobs ==
    [enabled : BOOLEAN, sweep_secs : {0, 9}, lint_secs : {0, 9}, embed_secs : {0, 9}, auto_improve : BOOLEAN,
     auto_improve_secs : {0, 9}, sessions_per_tick : {0, 1}]

\* No job runs without what it needs; turning maintenance off leaves the auto-improvement.
ASSUME JobsHaveTheirMeans ==
    \A settings \in Jobs, embedder, llm \in BOOLEAN :
        LET jobs == Setup!start_maintenance_scheduler(settings, embedder, llm)
        IN /\ "embed" \in jobs => embedder
           /\ "auto_improve" \in jobs => llm
           /\ Setup!start_maintenance_scheduler([settings EXCEPT !.enabled = FALSE], embedder, llm) = jobs \cap {"auto_improve"}

LOCAL Candidates == <<"q1", "q2", "q3", "q4">>

\* A tick counts every page that lacks a vector once, as embedded or failed; the next tick
\* attempts those that failed, and nothing stored is lost or made again.
ASSUME BackfillResumes ==
    \A already, readable, embeds \in SUBSET Range(Candidates), stores \in SUBSET {1, 2}, batch \in {2, 3} :
        LET first == Setup!run_embedding_backfill(Candidates, already, readable, embeds, batch, stores)
            second == Setup!run_embedding_backfill(Candidates, already \cup first.stored, Range(Candidates), Range(Candidates), batch, {1, 2})
        IN /\ first.stored \cap already = {}
           /\ first.embedded + first.failed = Cardinality(Range(Candidates) \ already)
           /\ second.stored = Range(Candidates) \ (already \cup first.stored)
           /\ second.embedded = first.failed /\ second.failed = 0

\* A scope that fails takes no other with it; what is counted is that of those that did not.
ASSUME ScopesFailAlone ==
    \A fine \in SUBSET {"s1", "s2", "s3"} :
        LET tick == Setup!Tick({"s1", "s2", "s3"}, fine, [s \in {"s1", "s2", "s3"} |-> {s}])
            embed == Setup!run_scheduled_embedding_backfill_tick({"s1", "s2", "s3"}, fine,
                         [s \in {"s1", "s2", "s3"} |-> [embedded |-> IF s = "s1" THEN 1 ELSE 0, failed |-> 2]])
        IN /\ tick.done = fine /\ tick.errors = 3 - Cardinality(fine)
           /\ embed.errors + embed.failed \div 2 = embed.scopes
           /\ embed.embedded = 1 <=> "s1" \in fine

LOCAL Raw == SeqOf({"", "wiki", "a", "..", "<"}, 3)
LOCAL Address(path) == [scheme |-> TRUE, host |-> "h", path |-> path]

\* A client that is told the base path reaches the server that is told the same, however the
\* path is written, and also when the path is part of the server's address.
ASSUME ClientReachesServer ==
    \A base \in Raw, slug \in {<<>>, <<"", "web">>}, page \in {<<"mcp">>, <<"hook">>, <<"admin", "read">>} :
        LET serve == [base_path |-> base, web_slug |-> slug, enable_web |-> TRUE]
            Reached(endpoint) == Setup!Surface(serve, Setup!build_url(endpoint, page))
        IN /\ Reached(Setup!build(Address(<<>>), base)) = page[1]
           /\ Reached(Setup!build(Address(base), base)) = page[1]
           /\ Setup!normalize_prefix(base) # <<>> => Reached(Setup!build(Address(<<>>), <<>>)) = "404"

\* The address the pages of the browser resolve against is that of the browser, unless its
\* name is that of another surface; the icon alone is outside the base path.
ASSUME BrowserUnderItsAddress ==
    \A base \in Raw, slug \in SeqOf({"", "web", "mcp", "a", "."}, 2), more \in {<<>>, <<"page">>} :
        LET serve == [base_path |-> base, web_slug |-> slug, enable_web |-> TRUE]
            found == Setup!Surface(serve, Setup!web_base_href(base, slug) \o more)
        IN /\ found = (IF IsPrefix(<<"mcp">>, Setup!normalize_prefix(slug)) THEN "mcp" ELSE "web")
           /\ Setup!Surface(serve, <<"favicon.ico">>) = "icon"
           /\ Setup!Surface([serve EXCEPT !.enable_web = FALSE], <<"favicon.ico">>) = "404"

LOCAL Pages == SeqOf({"<!--", "-->", "<head", "<header", ">", "x"}, 5)
LOCAL Commented(html, i) ==
    \E open \in 1..i : /\ html[open] = "<!--"
                       /\ \A close \in open..i : html[close] # "-->"

\* What is put into a page is put there once, and nothing else of the page changes; it never
\* lands in a comment, and stands at the start of a page that has no head.
ASSUME InjectedOutsideComments ==
    \A html \in Pages :
        LET out == Setup!inject_into_head(html, "base")
            at == Min({i \in DOMAIN out : out[i] = "base"})
        IN /\ SubSeq(out, 1, at - 1) \o SubSeq(out, at + 1, Len(out)) = html
           /\ at = 1 \/ \E tag \in 1..(at - 2) : /\ html[tag] \in {"<head", "<header"} /\ ~Commented(html, tag)
                                           /\ Min({i \in tag..Len(html) : html[i] = ">"}) = at - 1
           /\ Range(html) \cap {"<head", "<header"} = {} => at = 1

LOCAL Origins == [star : {FALSE}, scheme : BOOLEAN, slash : BOOLEAN, header : BOOLEAN]

\* Every origin is allowed once, in its order; but one that is accepted need not be one that
\* can be sent in a header, and stops the server.
ASSUME OriginsMerged ==
    /\ \A a, b \in SeqOf({"o1", "o2"}, 3) :
           LET all == Setup!merge_cors_origins(a, b)
           IN Range(all) = Range(a \o b) /\ IsInjective(all) /\ (IsInjective(a) => IsPrefix(a, all))
    /\ \E o \in Origins : Setup!validate_cors_origins(<<o>>) /\ ~Setup!build_api_router(<<o>>)

\* A host that is allowed is allowed with any port, in brackets where it has colons.
ASSUME HostsWithPorts ==
    /\ \A port \in SeqOf({"1", "2"}, 2) : Setup!host_allowed(<<"l", ":">> \o port, {<<"l">>})
    /\ \A port \in {<<>>, <<":", "1">>} : Setup!host_allowed(<<"[", ":", ":", "1", "]">> \o port, {<<":", ":", "1">>})
    /\ \A host \in SeqOf({"l", ":", "1", "x"}, 4) :
           Setup!host_allowed(host, {<<"l">>}) => host[1] = "l" /\ (Len(host) > 1 => host[2] = ":")

\* A download that is refused leaves the file that was there; one that is cut replaces it by
\* its part, and is an error.
ASSUME CutDownloadsReplaceFile ==
    \A sent \in {"answered", "refused"}, code \in {200, 500}, cut \in 0..2 :
        LET got == Setup!post_to_file([sent |-> sent, status |-> code, body |-> <<"b1", "b2">>, cut |-> cut], <<"old">>)
        IN /\ got.ok => got.file = <<"b1", "b2">>
           /\ sent = "refused" \/ code = 500 => ~got.ok /\ got.file = <<"old">>
           /\ sent = "answered" /\ code = 200 /\ cut < 2 => ~got.ok /\ got.file # <<"old">>

RECURSIVE Reached(_, _, _)
Reached(seen, commands, capacity) ==
    LET next == UNION {Setup!WriterSteps(w, commands, capacity) : w \in seen}
    IN IF next \subseteq seen THEN seen ELSE Reached(seen \cup next, commands, capacity)

\* The thread executes what was sent once, in order, whether or not anybody still waits, and
\* before it ends. It ends when the handle does, except when the queue was full of commands
\* that nobody waited for any more: then there is no shutdown in it, and the join never ends.
ASSUME WriterKeepsOrder ==
    \A capacity \in 1..3 :
        LET all == Reached({Setup!spawn}, {"c1", "c2", "c3"}, capacity)
            Stuck(w) == Setup!WriterSteps(w, {"c1", "c2", "c3"}, capacity) = {}
        IN /\ \A w \in all : /\ IsPrefix(w.executed, w.sent) /\ IsInjective(w.executed)
                              /\ w.answered \subseteq Range(w.executed) /\ w.waiting \cap w.answered = {}
                              /\ (w.thread = "ended" => w.executed = w.sent)
                              /\ (Stuck(w) => w.executed = w.sent /\ w.waiting = {})
           /\ \E w \in all : Stuck(w) /\ w.handle = "joining"
           /\ \A w \in all : Stuck(w) /\ w.handle = "joining" => Len(w.sent) >= capacity

-----------------------------------------------------------------------------
(* Bootstrap: the sources and their chunks.                                *)

LOCAL Kinds == {"ProjectRules", "DocFile", "GitCommit"}
LOCAL Source(kind, label, text) == [kind |-> kind, label |-> label, text |-> text]
LOCAL SourcesOf(kinds, labels, texts) == {Source(k, l, t) : k \in kinds, l \in labels, t \in texts}
LOCAL Numbered(sources) == [i \in DOMAIN sources |-> sources[i] @@ "id" :> i]
LOCAL Texts == {<<1, 2, 1>>, [i \in 1..21 |-> 3 + (i % 2)]}
LOCAL SomeSources ==
    {Numbered(s) : s \in {<<>>} \cup {<<a>> : a \in SourcesOf(Kinds, {4}, Texts)}
                           \cup {<<a, b, c>> : a \in SourcesOf(Kinds, {4}, Texts),
                                               b, c \in SourcesOf({"ProjectRules", "GitCommit"}, {4}, Texts)}}
LOCAL TextOf(pieces) == FlattenSeq([i \in DOMAIN pieces |-> pieces[i].text])
LOCAL OfId(chunks, id) == SelectSeq(FlattenSeq(chunks), LAMBDA s : s.id = id)

\* Cutting the sources into chunks sends the whole text of each, in order and once.
ASSUME ChunksKeepTexts ==
    \A sources \in SomeSources, budget \in {0, 20, 24} :
        LET chunks == K!plan_bootstrap_chunks(sources, budget, 3)
        IN /\ \A i \in DOMAIN sources : TextOf(OfId(chunks, i)) = sources[i].text
           /\ \A c \in DOMAIN chunks : chunks[c] # <<>>

\* No chunk is over its budget where the label of every source leaves room for text, and a
\* label that leaves none makes a chunk that is.
ASSUME ChunksWithinBudget ==
    /\ \A sources \in SomeSources, budget \in {24, 30} :
           LET chunks == K!plan_bootstrap_chunks(sources, budget, 3)
           IN \A c \in DOMAIN chunks : K!Tokens(chunks[c]) <= K!usable_chunk_tokens(budget, 3)
    /\ LET long == <<Source("DocFile", 80, [i \in 1..9 |-> 1])>>
       IN \E c \in DOMAIN K!plan_bootstrap_chunks(long, 24, 3) :
              K!Tokens(K!plan_bootstrap_chunks(long, 24, 3)[c]) > K!usable_chunk_tokens(24, 3)

\* A source without text is lost by the cutting when its label alone is over the budget.
ASSUME LongLabelIsLost ==
    /\ K!plan_bootstrap_chunks(<<Source("DocFile", 80, <<>>), Source("DocFile", 4, <<1>>)>>, 24, 3)
           = <<<<Source("DocFile", 4, <<1>>)>>>>
    /\ K!plan_bootstrap_chunks(<<Source("DocFile", 80, <<>>)>>, 24, 3) = <<>>

\* The rules are in the first chunks: no chunk holds a source that matters more than one of
\* an earlier chunk, once the sources have been cut to the budget.
ASSUME ImportantFirst ==
    \A sources \in SomeSources, budget \in {24} :
        LET chunks == K!chunk_sources_greedy(K!prune_sources_to_budget(sources, 200, 3), budget)
            flat == FlattenSeq(chunks)
        IN \A i, j \in DOMAIN flat : i < j => K!drop_priority[flat[i].kind] <= K!drop_priority[flat[j].kind]

\* The client cuts before it sends and the server cuts what it got: the second time drops
\* nothing more under the same budget, both count alike, and the local answer of a dry run
\* is the answer of the server's.
ASSUME PrunedTwiceIsOnce ==
    \A sources \in SomeSources, budget \in {0, 10, 20, 30, 200} :
        LET cfg == [budget |-> budget, chunk_budget |-> 20, reserve |-> 3, collected |-> {}]
            sent == K!Posted(cfg, sources)
            kept == K!prune_sources_to_budget(sent.sources, budget, 3)
        IN /\ kept = sent.sources
           /\ K!Tokens(kept) <= K!Floor(budget, 3)
           /\ K!dry_run_outcome([cfg EXCEPT !.collected = sent.collected], sent.sources) = K!local_dry_run(cfg, sources)
           /\ LET counts == K!bootstrap_source_counts(Len(sent.sources), sent.collected, kept)
              IN counts.sent + counts.dropped = Len(sources) /\ counts.collected = Len(sources)

\* Commits are collected from the newest on, and within the budget it is the newest that
\* are dropped first.
ASSUME NewestCommitsDroppedFirst ==
    \A times \in [1..3 -> 1..3], since \in {{}, {2}} :
        LET commits == [i \in 1..3 |-> [time |-> times[i], size |-> 200, conventional |-> FALSE]]
            collected == K!collect_git_commits(commits, since)
            sources == [i \in DOMAIN collected |-> Source("GitCommit", i, [j \in 1..8 |-> 1])]
            kept == K!prune_sources_to_budget(sources, 17, 3)
        IN /\ \A i \in DOMAIN collected : since # {} => collected[i].time >= 2
           /\ (\A i, j \in 1..3 : i < j => times[i] >= times[j]) =>
                  collected = SelectSeq(commits, LAMBDA c : since = {} \/ c.time >= 2)
           /\ Len(sources) = 3 => kept = SubSeq(sources, 3 - Len(kept) + 1, 3) /\ Len(kept) < 3

\* What cannot be understood as a time in the past is no limit at all.
ASSUME BadSinceIsNoLimit ==
    /\ K!parse_since_to_epoch([unit |-> "weeks", n |-> 2], 1000) = {}
    /\ K!parse_since_to_epoch([unit |-> "months", n |-> 2], 1000) = {940}
    /\ K!parse_since_to_epoch([unit |-> "date", n |-> 7], 1000) = {7}

\* A file that cannot be read: the README fails the whole collection, a rule is left out.
ASSUME UnreadableReadmeFails ==
    \A readme \in {"text", "unreadable"}, rules \in {"text", "unreadable"}, walkable \in BOOLEAN,
       include \in SUBSET {"readme", "git"} :
        LET repo == [files |-> "README" :> readme @@ "AGENTS.md" :> rules, walkable |-> walkable,
                     commits |-> <<>>, entries |-> {}]
            found == K!collect_sources(repo, {}, include)
        IN /\ found.ok <=> ("readme" \in include => readme = "text") /\ ("git" \in include => walkable)
           /\ found.rules = (IF rules = "text" THEN <<"AGENTS.md">> ELSE <<>>)

\* Every directory and every worktree of a repository gives its project one name, and a
\* submodule the name "modules".
ASSUME WorktreesShareProject ==
    LET common == <<"src", "app", ".git">>
        Repo(workdir) == [found |-> TRUE, bare |-> FALSE, workdir |-> workdir, commondir |-> common]
        submodule == [Repo(<<"src", "app", "lib">>) EXCEPT !.commondir = <<"src", "app", ".git", "modules", "lib">>]
    IN /\ \A cwd \in {<<"src", "app">>, <<"src", "app", "deep">>, <<"tmp", "worktree">>} :
              K!derive_project_name(cwd, Repo(cwd), "MainRepoRoot") = "app"
       /\ K!derive_project_name(<<"tmp", "worktree">>, Repo(<<"tmp", "worktree">>), "Basename") = "worktree"
       /\ K!derive_project_name(<<"src", "app", "lib">>, submodule, "MainRepoRoot") = "modules"
       /\ K!discover_repo_root(Repo(<<"tmp", "worktree">>)) = {<<"tmp", "worktree">>}

-----------------------------------------------------------------------------
(* Bootstrap: the pages and the requests.                                  *)

LOCAL Page(path, valid, serial, body) == [path |-> path, valid |-> valid, serial |-> serial, body |-> body]
LOCAL LlmPages ==
    {Page("a", TRUE, 0, "1"), Page("a", TRUE, 0, "2"), Page("d", TRUE, 3, "1"),
     Page("bootstrap.md", TRUE, 0, "llm"), Page("../x", FALSE, 0, "1")}
LOCAL BootstrapAnswers ==
    [ok : BOOLEAN, pages : {<<>>} \cup {<<p>> : p \in LlmPages} \cup {<<p, q>> : p, q \in LlmPages}]
LOCAL TwoChunks ==
    <<Source("DocFile", 4, [i \in 1..30 |-> 1]), Source("DocFile", 5, [i \in 1..30 |-> 1])>>
LOCAL BootstrapCfg == [budget |-> 100, chunk_budget |-> 20, reserve |-> 3, collected |-> {}, force |-> FALSE, dry_run |-> FALSE]
LOCAL Before == [p \in {"a", "hand"} |-> "old"]

\* A wiki is bootstrapped whole or not at all: the manifest is there with every page it
\* names, the first body an LLM gave a path is the one kept, whatever the LLM answers for
\* the manifest itself is replaced, other pages stay, and nothing is written otherwise.
ASSUME BootstrapAllOrNothing ==
    \A one \in {a \in BootstrapAnswers : Len(a.pages) < 2 \/ a.ok},
       two \in {a \in BootstrapAnswers : Len(a.pages) < 2}, written \in BOOLEAN :
        LET end == K!process_sources(Before, Before, BootstrapCfg, TwoChunks, <<one, two>>, written)
            pages == one.pages \o two.pages
            First(path) == pages[Min({i \in DOMAIN pages : pages[i].path = path})]
        IN /\ end.chunks = 2
           /\ end.result = "ok" <=> one.ok /\ two.ok /\ written
           /\ end.result # "ok" => end.wiki = Before
           /\ end.result = "ok" =>
                  /\ end.wiki["bootstrap.md"].pages \subseteq DOMAIN end.wiki
                  /\ end.wiki["hand"] = "old"
                  /\ "../x" \notin DOMAIN end.wiki
                  /\ \A p \in end.wiki["bootstrap.md"].pages \ {"bootstrap.md"} : end.wiki[p] = First(p).body

\* A page edited while the LLM answers is kept, unless the LLM writes that page.
ASSUME EditsDuringBootstrap ==
    \A edited \in {"a", "hand", "new"} :
        LET after == [p \in {"a", "hand", edited} |-> IF p = edited THEN "edited" ELSE "old"]
            answer == [ok |-> TRUE, pages |-> <<Page("a", TRUE, 0, "1")>>]
            end == K!process_sources(Before, after, BootstrapCfg, TwoChunks, <<answer, answer>>, TRUE)
        IN end.wiki[edited] = (IF edited = "a" THEN "1" ELSE "edited")

\* A second bootstrap writes nothing unless it is forced, and one that drops everything
\* for its budget writes nothing and asks no LLM.
ASSUME SecondBootstrapRefused ==
    \A force, dry \in BOOLEAN, budget \in {3, 100} :
        LET cfg == [BootstrapCfg EXCEPT !.force = force, !.dry_run = dry, !.budget = budget]
            answer == [ok |-> TRUE, pages |-> <<Page("a", TRUE, 0, "1")>>]
            first == K!process_sources(Before, Before, BootstrapCfg, TwoChunks, <<answer, answer>>, TRUE)
            again == K!process_sources(first.wiki, first.wiki, cfg, TwoChunks, <<answer, answer>>, TRUE)
        IN /\ again.wiki = first.wiki
           /\ again.result = (IF ~force THEN "already_bootstrapped" ELSE IF budget = 3 THEN "no_sources"
                              ELSE IF dry THEN "dry" ELSE "ok")

\* The decisions of later chunks are numbered after those of earlier ones.
ASSUME DecisionsNumberedOn ==
    \A pages \in SUBSET LlmPages, n \in 1..2 :
        LET request == K!build_chunk_request([i \in 1..n |-> TwoChunks], n, pages)
        IN /\ \A p \in pages : request.next # 0 => p.serial < request.next
           /\ request.next = 0 <=> n = 1 \/ pages = {}
           /\ request.prior = {p.path : p \in pages}

RECURSIVE BootstrapsReached(_, _, _)
BootstrapsReached(seen, new, llm) ==
    IF new = {} THEN seen
    ELSE LET next == UNION {K!RequestSteps(s, llm) : s \in new} \ seen IN BootstrapsReached(seen \cup next, next, llm)

\* Of requests to bootstrap one wiki that run at once, at most one writes and at most one at
\* a time has the LLM work; whoever is refused or fails or goes away lets the others on, so
\* all come to an end; and one after a failure may still succeed.
ASSUME OneBootstrapAtOnce ==
    LET start == K!Requests({"r1", "r2", "r3"})
        states == BootstrapsReached({start}, {start}, TRUE)
        Over == {"done", "refused", "failed", "gone"}
    IN /\ \A s \in states :
              /\ Cardinality({r \in {"r1", "r2", "r3"} : s.pc[r] = "done"}) <= 1
              /\ {r \in {"r1", "r2", "r3"} : s.pc[r] \in {"check", "llm"}} = s.lock /\ Cardinality(s.lock) <= 1
              /\ (\E r \in {"r1", "r2", "r3"} : s.pc[r] = "done") <=> "bootstrap.md" \in DOMAIN s.wiki
              /\ (\E r \in {"r1", "r2", "r3"} : s.pc[r] = "refused") => \E r \in {"r1", "r2", "r3"} : s.pc[r] = "done"
              /\ K!RequestSteps(s, TRUE) = {} <=> \A r \in {"r1", "r2", "r3"} : s.pc[r] \in Over
       /\ \E s \in states : s.pc["r1"] = "failed" /\ s.pc["r2"] = "gone" /\ s.pc["r3"] = "done"

\* Without an LLM no request gets further, and a scope exists even where one was refused.
ASSUME ScopeMadeBeforeRefusal ==
    /\ \A s \in BootstrapsReached({K!Requests({"r1", "r2"})}, {K!Requests({"r1", "r2"})}, FALSE) : ~s.scope /\ s.asked = {}
    /\ \E s \in BootstrapsReached({K!Requests({"r1", "r2"})}, {K!Requests({"r1", "r2"})}, TRUE) :
           s.scope /\ s.pc["r1"] \in {"failed", "gone"} /\ s.pc["r2"] = "gone" /\ s.wiki = <<>>

-----------------------------------------------------------------------------
(* The projection of observations.                                         *)

LOCAL Observation(kind, importance, signal, body) ==
    [kind |-> kind, importance |-> importance, signal |-> signal, code |-> FALSE, setup |-> FALSE, title |-> 3, body |-> body]
LOCAL SmallObs ==
    {Observation("UserPrompt", 5, FALSE, 6), Observation("PostToolUse", 9, TRUE, 30), Observation("PreToolUse", 1, FALSE, 2),
     [Observation("Stop", 5, FALSE, 2) EXCEPT !.title = 12, !.setup = TRUE]}
LOCAL ObsLists == UNION {[1..n -> SmallObs] : n \in 1..4}
LOCAL Projection(total, limit) ==
    [recency |-> 80, buckets |-> 3, even |-> 20, header |-> 4, title |-> 5, body |-> 12, marker |-> 3,
     total |-> total, limit |-> limit, current |-> 10, slot |-> 5, slug |-> 4, cluster |-> 2, stale |-> 30]

\* A projection is within its budget; what is missing from it is told, by a warning or by a
\* marker in it; and the whole of what is selected is in it otherwise.
ASSUME ProjectionTellsLoss ==
    \A obs \in ObsLists, total \in {1, 20, 40, 100}, limit \in {0, 1, 2, 3, 5} :
        LET p == K!project_observations(obs, Projection(total, limit))
            bodies == {x.of : x \in {y \in Range(p.text) : y.is = "body"}}
        IN /\ limit > 0 => K!Size(p.text) <= total
           /\ p.warnings = {} => bodies = DOMAIN obs /\ p.selected = DOMAIN obs
           /\ bodies \subseteq p.selected
           /\ (\E piece \in Range(p.text) : piece.is = "cut") =>
                 p.warnings # {} \/ \E piece \in Range(p.text) : piece.is = "marker"

\* The first and the last observation are selected wherever two are, one alone is the last,
\* and no more than were asked for.
ASSUME AnchorsSelected ==
    \A obs \in ObsLists, total \in {1, 20, 40}, limit \in 1..4 :
        LET p == K!project_observations(obs, Projection(total, limit))
        IN /\ Cardinality(p.selected) <= limit
           /\ Len(obs) \in p.selected
           /\ limit >= 2 => 1 \in p.selected

\* More is selected with a higher limit, and more is kept with a larger budget: what a
\* smaller projection holds is in the larger.
ASSUME ProjectionsNest ==
    \A obs \in [1..4 -> SmallObs], limit \in 2..4 :
        LET Kept(total, n) == K!project_observations(obs, Projection(total, n)).selected
        IN /\ K!select_observation_indices(obs, limit, Projection(40, limit))
                  \subseteq K!select_observation_indices(obs, limit + 1, Projection(40, limit))
           /\ Kept(20, limit) \subseteq Kept(40, limit) /\ Kept(40, limit) \subseteq Kept(70, limit)

\* Pruning stops where the observations fit, before what it says of those left out is added:
\* the end of the last observation, though never pruned, can be what is cut for it.
ASSUME LastObservationCanBeCut ==
    \E obs \in ObsLists, total \in 20..40 :
        LET p == K!project_observations(obs, Projection(total, 2))
        IN /\ Len(obs) \in p.selected /\ ~\E x \in Range(p.text) : x.is = "body" /\ x.of = Len(obs)
           /\ obs[Len(obs)].body <= 12
           /\ K!Size(K!render_projection(obs, p.selected, Projection(total, 2)).text) <= total
           /\ "exceeded" \in p.warnings

\* A body that is taken up again has no raw observations, unless it had two sections of them.
ASSUME RawObservationsLeftOut ==
    \A n \in 0..3 : \A body \in [1..n -> {K!Piece("raw", 4), K!Piece("text", 3)}] :
        LET elided == K!elide_raw_observations_section(body, 2)
            Raws(text) == Cardinality({i \in DOMAIN text : text[i].is = "raw"})
        IN /\ Raws(elided) = (IF Raws(body) = 0 THEN 0 ELSE Raws(body) - 1)
           /\ SelectSeq(elided, LAMBDA x : x.is = "text") = SelectSeq(body, LAMBDA x : x.is = "text")
           /\ K!Size(K!clip_current_body_for_prompt(elided, Projection(10, 2))) <= 10 + 3

-----------------------------------------------------------------------------
(* The pages of a consolidation.                                           *)

LOCAL WikiPage(title, slot_kind, pinned) ==
    [title |-> title, body |-> <<K!Piece("text", 3)>>, tier |-> "semantic", pinned |-> pinned, kind |-> "fact", slot_kind |-> slot_kind]
LOCAL Titles == {<<"A", " ", "b">>, <<"a", "b">>, <<"!">>, <<"a", "a", "a", " ", "b">>, <<"a", "a", "a", "!", "a">>}
LOCAL Update(path, title, kind, slot_kind, valid) ==
    [path |-> path, title |-> title, body |-> <<K!Piece("new", 2)>>, tier |-> "semantic", kind |-> kind, slot_kind |-> slot_kind, valid |-> valid]
LOCAL Updates ==
    {Update(<<"concepts", "c">>, t, k, "state", v) : t \in {<<"a">>, <<"!">>}, k \in {"fact", "rule"}, v \in BOOLEAN}
        \cup {Update(<<"_slots", n>>, <<"a">>, "fact", k, TRUE) : n \in {"inv", "state", "new"}, k \in {"state", "invariant"}}
LOCAL SlotFiles ==
    [p \in {<<"_slots", "inv">>, <<"_slots", "state">>, <<"sessions", "s1">>} |->
        WikiPage(<<"a">>, IF p[2] = "inv" THEN "invariant" ELSE "none", p[1] = "sessions")]
LOCAL ConsolidationWorld ==
    [obs |-> <<Observation("Stop", 1, FALSE, 2)>>, sessions |-> [x \in {"s1"} |-> "here"], default |-> "there",
     wiki |-> [x \in {"here", "there"} |-> SlotFiles], later |-> [x \in {"here", "there"} |-> SlotFiles]]
LOCAL SlotRows == {<<"_slots", "inv">>, <<"_slots", "state">>}

\* A batch is written whole or not at all, in the session's scope only; a page of an
\* invariant slot changes only for an update that calls itself invariant; a rule is kept
\* with the rules whatever path the LLM named.
ASSUME BatchAllOrNothing ==
    \A one, two \in Updates, ok, dry, written \in BOOLEAN, session \in {"s1", "s2"} :
        LET end == K!consolidate_session_multi(ConsolidationWorld, session, SlotRows,
                       [ok |-> ok, updates |-> <<one, two>>], dry, written, Projection(40, 2))
            scope == IF session = "s1" THEN "here" ELSE "there"
            new == end.wiki[scope]
        IN /\ ~end.ok \/ dry => end.wiki = ConsolidationWorld.wiki
           /\ end.ok => ok /\ (one.kind = "rule" \/ one.valid) /\ (two.kind = "rule" \/ two.valid)
           /\ \A other \in {"here", "there"} \ {scope} : end.wiki[other] = SlotFiles
           /\ end.ok /\ ~dry =>
                 /\ DOMAIN new = DOMAIN SlotFiles \cup end.pages
                 /\ new[<<"_slots", "inv">>] # SlotFiles[<<"_slots", "inv">>] =>
                       \E u \in {one, two} : u.path = <<"_slots", "inv">> /\ u.slot_kind = "invariant"
                 /\ \A p \in DOMAIN new : new[p].kind = "rule" <=> p[1] = "_rules"
                 /\ two.path = <<"_slots", "inv">> /\ two.slot_kind = "invariant" => new[two.path].body = two.body
                 /\ new[<<"sessions", "s1">>] = SlotFiles[<<"sessions", "s1">>]

\* Whether an update is skipped is decided by the files alone: of two updates of a slot in
\* one batch the second replaces what the first made invariant.
ASSUME SkipsByFilesOnly ==
    LET Slot(kind) == Update(<<"_slots", "new">>, <<"a">>, "fact", kind, TRUE)
        end == K!consolidate_session_multi(ConsolidationWorld, "s1", SlotRows,
                   [ok |-> TRUE, updates |-> <<Slot("invariant"), Slot("state")>>], FALSE, TRUE, Projection(40, 2))
    IN end.wiki["here"][<<"_slots", "new">>].slot_kind = "state"

\* A slot the store knows without a file fails every consolidation of its project.
ASSUME LostSlotFailsBatches ==
    \A u \in Updates :
        ~K!consolidate_session_multi(ConsolidationWorld, "s1", SlotRows \cup {<<"_slots", "lost">>},
             [ok |-> TRUE, updates |-> <<u>>], FALSE, TRUE, Projection(40, 2)).ok

\* The name of a rule is never empty, no longer than its bound and does not end in a dash;
\* titles of two rules may share it, and the later rule then replaces the earlier.
ASSUME RuleNames ==
    /\ \A t \in Titles, max \in {3, 4, 60} :
           LET slug == K!slugify_for_rule(t, max)
           IN slug # <<>> /\ slug[1] # "-" /\ Last(slug) # "-" /\ (slug # <<"rule">> => Len(slug) <= max)
    /\ K!slugify_for_rule(<<"A", " ", "b">>, 60) = K!slugify_for_rule(<<"a", "!", "b">>, 60)
    /\ K!slugify_for_rule(<<"a", "a", "a", " ", "b">>, 4) = K!slugify_for_rule(<<"a", "a", "a", "!", "a">>, 4)
    /\ LET Rule(t) == Update(<<"concepts", "c">>, t, "rule", "state", TRUE)
           end == K!consolidate_session_multi(ConsolidationWorld, "s1", SlotRows,
                      [ok |-> TRUE, updates |-> <<Rule(<<"!">>), Rule(<<"?">>)>>], FALSE, TRUE, Projection(40, 2))
       IN end.wiki["here"][<<"_rules", <<"rule">>>>].title = <<"?">>

\* The page of a session is replaced whole: it is no longer pinned, and what was written to
\* it while the LLM answered is lost.
ASSUME SessionPageReplaced ==
    \A ok, dry, written \in BOOLEAN :
        LET edited == [ConsolidationWorld EXCEPT !.later["here"][<<"sessions", "s1">>].title = <<"edited">>]
            end == K!consolidate_session(edited, "s1", [ok |-> ok, title |-> <<"new">>, body |-> <<>>], dry, written)
            page == end.wiki["here"][<<"sessions", "s1">>]
        IN IF ok /\ ~dry /\ written THEN end.ok /\ page.title = <<"new">> /\ ~page.pinned
           ELSE page.title = <<"edited">> /\ page.pinned /\ (end.ok <=> ok /\ dry)

-----------------------------------------------------------------------------
(* Lint and curator.                                                       *)

LOCAL Row(path, tier, pinned, age, accesses, title, kind, readable) ==
    [path |-> path, tier |-> tier, pinned |-> pinned, age |-> age, accesses |-> accesses, title |-> title, kind |-> kind,
     readable |-> readable, cold |-> age > 40]
LOCAL LintRows ==
    {Row(<<"sessions", "s1">>, "episodic", p, 50, 0, "t", "none", r) : p, r \in BOOLEAN}
        \cup {Row(<<"_rules", "r">>, "semantic", FALSE, 1, n, "t", "fact", TRUE) : n \in {0, 2}}
        \cup {Row(<<"decisions", "d">>, "procedural", FALSE, 1, 1, "u", "rule", TRUE), Row(<<"concepts", "c">>, "semantic", FALSE, 1, 5, "none", "none", TRUE)}
LOCAL LintSets == {rows \in SUBSET LintRows : \A a, b \in rows : a.path = b.path => a = b}
LOCAL LintFiles == [p \in {<<"_lint", "today">>} |-> [WikiPage("old", "none", FALSE) EXCEPT !.body = {}]]

\* A lint that cannot ask its LLM still reports what its rules find; only one with findings
\* that is not a trial changes the wiki, and then only the report of its day, which stays
\* when a later lint of the day finds nothing more.
ASSUME LintWritesItsReportOnly ==
    \A rows \in LintSets, dangling \in {{}, {[from |-> <<"concepts", "c">>, exists |-> FALSE]}}, dry, use, ok \in BOOLEAN :
        LET llm == [ok |-> ok, findings |-> {K!Found("contradiction", {<<"concepts", "c">>})}]
            end == K!run_lint(rows, dangling, LintFiles, "today", dry, use, llm, Projection(40, 2))
            rules == K!run_lint(rows, dangling, LintFiles, "today", dry, FALSE, llm, Projection(40, 2))
        IN /\ end.ok <=> \A r \in rows : r.readable
           /\ rules.findings \subseteq end.findings
           /\ end.findings # rules.findings => use /\ ok
           /\ end.files # LintFiles => end.ok /\ ~dry /\ end.findings # {} /\ end.files[<<"_lint", "today">>].body = end.findings
           /\ DOMAIN end.files = DOMAIN LintFiles
           /\ end.findings = {} => end.files = LintFiles

\* The LLM compares only lasting pages, at most its bound of them, and none if there is one.
ASSUME ContradictionsOfLasting ==
    \A rows \in LintSets : \A s \in K!contradiction_pass(rows, 2) :
        /\ Cardinality(s) \in {0, 2}
        /\ \A p \in s : p.tier # "episodic"
        /\ \A p, q \in {r \in rows : r.tier # "episodic"} : p \in s /\ p.accesses < q.accesses => q \in s

\* The curator never names a pinned page as cold, nor pending ones as sharing a title, and
\* no more of a kind than its bound; the lint does call a pinned page stale.
ASSUME CuratorConservative ==
    \A rows \in LintSets, max \in {0, 1, 9} :
        LET pages == {[path |-> r.path, title |-> r.title, updated |-> 0] : r \in rows}
                       \cup {[path |-> <<"_pending", "p">>, title |-> "t", updated |-> 0],
                             [path |-> <<"_slots", "current-focus">>, title |-> "f", updated |-> 80]}
            cfg == [max |-> max, focus |-> 7, slots |-> 30]
            end == K!run_curator_report(rows, pages, {}, 90, cfg)
        IN \A report \in end.reports :
              /\ \A kind \in {"cold_episodic", "stale_slot", "duplicate_title"} : Cardinality({f \in report : f.kind = kind}) <= max
              /\ \A f \in report : /\ <<"_pending", "p">> \notin f.pages
                                   /\ f.kind = "cold_episodic" => \A r \in rows : r.path \in f.pages => ~r.pinned
              /\ max = 9 => \E f \in report : f.kind = "stale_slot"
              /\ \A r \in rows : r.pinned => K!Found("stale", {r.path}) \in K!rule_based_findings(rows, 30)

-----------------------------------------------------------------------------
(* Proposals and their reports.                                            *)

LOCAL Words(name, spelled) == [name |-> name, spelled |-> spelled]
LOCAL Stored(run, status, kind, target, staged) ==
    [run |-> run, scope |-> "here", status |-> status, operation |-> "update", kind |-> kind, target |-> target, staged |-> staged,
     edit_mode |-> "full", title |-> Words("t", "T"), rationale |-> Words("r", "R"), body |-> "new", decided |-> 0]
LOCAL Db(proposals, runs) ==
    [runs |-> runs, proposals |-> proposals, rejections |-> <<>>, events |-> <<>>, clock |-> 5, scopes |-> {"here", "there"}]
LOCAL TwoProposals ==
    {Db([id \in {"a", "b"} |-> IF id = "a" THEN Stored("r1", "pending", ka, "x", 2) ELSE Stored("r2", sb, kb, tb, 4)],
        [r \in {"r1", "r2"} |-> [scope |-> "here", at |-> IF r = "r1" THEN 1 ELSE 4]]) :
       ka, kb \in {"note", "curator_report"}, sb \in {"pending", "approved"}, tb \in {"x", "y"}}
LOCAL Reason == Words("bad", "Bad")
LOCAL WriteRequests(db) ==
    UNION {{Reports!handle_pending_write_approve(db, scope, id, changed) : changed \in BOOLEAN}
             \cup {Reports!handle_pending_write_reject(db, scope, id, r) : r \in {Reason, Words("bad", "bad")}} :
           scope \in {"here", "there", "nowhere"}, id \in {"a", "b", "malformed"}}
LOCAL Later(db) == [db EXCEPT !.clock = @ + 1]
LOCAL AfterTwo(db) == UNION {{Later(second.db) : second \in WriteRequests(Later(first.db))} : first \in WriteRequests(db)}

\* Whatever administrators answer, in whatever order and scope: a proposal is decided once,
\* its decision is the last of its events and is kept, it has one rejection if it was
\* rejected and none otherwise, and a second answer is reported as a failure.
ASSUME DecidedOnce ==
    \A db \in TwoProposals : \A after \in AfterTwo(db) :
        /\ \A id \in {"a", "b"} :
              LET p == after.proposals[id]
                  events == SelectSeq(after.events, LAMBDA e : e.proposal = id)
              IN /\ p.status # db.proposals[id].status => events = <<[proposal |-> id, event |-> p.status, at |-> p.decided]>>
                 /\ p.status = db.proposals[id].status => events = <<>>
                 /\ Cardinality({i \in DOMAIN after.rejections : after.rejections[i].proposal = id}) =
                       (IF p.status = "rejected" THEN 1 ELSE 0)
        /\ \A id \in {"a", "b"} : after.proposals[id].status # "pending" =>
              /\ Reports!handle_pending_write_approve(after, "here", id, FALSE) = [status |-> 500, db |-> after]
              /\ Reports!handle_pending_write_reject(after, "here", id, Reason).status = 500
              /\ Reports!pending_detail(after, "there", id).status = 404
        /\ \A id \in {"a", "b"}, changed \in BOOLEAN :
              /\ Reports!handle_pending_write_reject(db, "there", id, Reason).db = db
              /\ Reports!handle_pending_write_approve(db, "there", id, changed).db = db

\* Every count of the report speaks of the same proposals, those of the scope and window
\* that are no reports themselves, and the rates are shares of what was decided.
ASSUME CountsAgree ==
    \A db \in TwoProposals : \A after \in AfterTwo(db), window \in {2, 9}, limit \in {1, 9} :
        \A report \in Reports!run_auto_improve_telemetry_report(after, "here", window, limit) :
            LET a == report.aggregate
                learning == {id \in {"a", "b"} : after.proposals[id].kind = "note" /\ after.proposals[id].staged >= after.clock - window}
            IN /\ Reports!SumOf(a.by_status) = Cardinality(learning)
               /\ Reports!SumOf(a.by_operation) = Cardinality(learning) /\ Reports!SumOf(a.by_kind) = Cardinality(learning)
               /\ limit = 9 => Reports!SumOf(a.targets) = Cardinality(learning)
               /\ report.rates.of + Reports!count_for(a.by_status, "pending") = Cardinality(learning)
               /\ Reports!SumOf(report.rates.rates) \in {0, 999, 1000}
               /\ (report.rates.of = 0) = ([kind |-> "no_terminal_learning_proposals", n |-> 1] \in report.findings)

\* A run that was staged late counts as one with proposals though not as a run.
ASSUME LearningRunsMayExceedRuns ==
    \E db \in TwoProposals : \E report \in Reports!run_auto_improve_telemetry_report(db, "here", 3, 9) :
        report.aggregate.learning_runs > report.aggregate.runs

\* Rejections that differ only in how they are spelled are repeated ones; the reasons are
\* counted as they are spelled.
ASSUME SpellingIsNotDifference ==
    LET Reject(db, id, spelled) == Reports!reject_proposal(db, "here", id, Words("bad", spelled)).db
        start == CHOOSE db \in TwoProposals : /\ db.proposals["a"].kind = "note" /\ db.proposals["b"].kind = "note"
                                              /\ db.proposals["b"].status = "pending" /\ db.proposals["b"].target = "x"
        aggregate == CHOOSE a \in Reports!auto_improve_telemetry_aggregate(Reject(Reject(start, "a", "Bad"), "b", "bad"), "here", 0, 9) : TRUE
    IN /\ Reports!SumOf(aggregate.repeated) = 2 /\ Cardinality(DOMAIN aggregate.repeated) = 1
       /\ aggregate.reasons = [r \in {"Bad", "bad"} |-> 1]

LOCAL Candidate(reason, target, path, evidence, is_path) ==
    [reason |-> reason, target_path |-> target, path |-> path, evidence |-> evidence, evidence_is_path |-> is_path,
     kind |-> "note", operation |-> "create", edit_mode |-> "full", summary |-> Reports!Empty]
LOCAL GateReasons == {"eval_gate_failed", "eval_gate_timeout", "eval_gate_error", "other"}

\* A refused candidate is kept if it has a reason; the rejections of the evaluation that the
\* report names are at most those there are, fewer when there are more reasons than its
\* limit lists.
ASSUME EvalGateUndercounted ==
    /\ \A reasons \in [1..3 -> GateReasons], limit \in 1..4 :
           LET candidates == [i \in 1..3 |-> Candidate(Words(reasons[i], reasons[i]), "none", "p", Reports!Empty, FALSE)]
               db == Reports!insert_rejected_candidates_in_tx(Db(<<>>, <<>>), "here", "r1", candidates)
               gates == Cardinality({i \in 1..3 : reasons[i] # "other"})
               named == {f.n : f \in UNION {{g \in r.findings : g.kind = "eval_gate_rejections_seen"} : r \in
                            Reports!run_auto_improve_telemetry_report(db, "here", 9, limit)}}
           IN /\ Len(db.rejections) = 3 /\ (\A i \in 1..3 : db.rejections[i].target = "p")
              /\ \A n \in named : n <= gates
              /\ limit >= Cardinality(Range(reasons)) => named = (IF gates = 0 THEN {} ELSE {gates})
              /\ limit < Cardinality(Range(reasons)) /\ gates = 3 => \A n \in named : n < gates
    /\ Reports!insert_rejected_candidates_in_tx(Db(<<>>, <<>>), "here", "r1", <<Candidate(Reports!Empty, "x", "p", Reports!Empty, FALSE)>>).rejections = <<>>

\* The newest proposals are listed first, at least one and at most 200 of them; a row that is
\* not understood fails the list that would show it; no answer makes a scope.
ASSUME ProposalsListed ==
    \A db \in TwoProposals, limit \in {0, 1, 2}, status \in {"none", "pending", "unknown"}, broken \in BOOLEAN :
        LET seen == IF broken THEN [db EXCEPT !.proposals["a"].operation = "merge"] ELSE db
            ids == {id \in {"a", "b"} : status = "none" \/ db.proposals[id].status = status}
        IN \A answer \in Reports!handle_pending_writes_list(seen, "here", status, limit) :
              IF status = "unknown" THEN answer = [status |-> 400]
              ELSE /\ answer.status = 200 => Len(answer.list) = Min({Max({limit, 1}), Cardinality(ids)})
                   /\ answer.status = 200 /\ "b" \in ids => answer.list[1] = "b"
                   /\ answer.status = 500 <=> broken /\ (limit = 2 \/ "b" \notin ids)

\* The difference is to the page as it is now, not as it was when the proposal was staged.
ASSUME DiffToCurrentPage ==
    \A db \in TwoProposals, pages \in {<<>>, [t \in {"x"} |-> "staged"], [t \in {"x"} |-> "edited"]} :
        LET diff == Reports!handle_pending_write_diff(db, "here", "a", pages)
        IN diff = [status |-> 200, before |-> IF pages = <<>> THEN "" ELSE pages["x"], after |-> "new"]

-----------------------------------------------------------------------------
(* The audit.                                                              *)

LOCAL Dir(names, trailing) == [names |-> names, trailing |-> trailing]
LOCAL Roots == {Dir(<<>>, FALSE), Dir(<<"r">>, FALSE), Dir(<<"r", "s">>, FALSE), Dir(<<"r", "s">>, TRUE), Dir(<<"r", "..">>, FALSE)}
LOCAL ProjectRows ==
    {<<[workspace |-> "w", project |-> "p", root |-> a], [workspace |-> "w", project |-> "q", root |-> b],
       [workspace |-> "v", project |-> "o", root |-> Dir(<<"r">>, FALSE)]>> : a, b \in Roots}
LOCAL SessionRows == {[id |-> "s1", workspace |-> "w", project |-> p, cwd |-> c] : p \in {"p", "q"}, c \in Roots}

\* A session is reported only where a project of its own workspace, other than its own, has
\* a longer or an equal root that holds its directory; the project the audit expects is not
\* one that another would be nearer than; and the home directory is nobody's root.
ASSUME AuditSound ==
    \A projects \in ProjectRows, s \in SessionRows, scoped \in BOOLEAN, home \in {Dir(<<"h">>, FALSE), Dir(<<"r">>, FALSE)} :
        LET scope == IF scoped THEN {<<"w", "p">>} ELSE {}
            findings == Reports!audit_contamination(projects, {s}, scope, home)
            Root(p) == projects[CHOOSE i \in 1..3 : projects[i].project = p].root
            Holds(p) == LET r == Root(p) IN r.names # <<>> /\ ~r.trailing /\ ".." \notin Range(r.names) /\ r # home
                                            /\ IsPrefix(r.names, s.cwd.names)
        IN /\ Cardinality(findings) <= 1 /\ (scoped /\ s.project # "p" => findings = {})
           /\ \A f \in findings : /\ f.expected \in {"p", "q"} \ {s.project} /\ Holds(f.expected)
                                  /\ ~\E p \in {"p", "q"} : Holds(p) /\ Len(Root(p).names) > Len(Root(f.expected).names)
           /\ ~scoped /\ s.cwd.names # <<>> /\ ".." \notin Range(s.cwd.names) /\ ~Holds(s.project)
                /\ (\E p \in {"p", "q"} : Holds(p)) => findings # {}

\* Of two projects with the same root the one whose row comes first is expected: the
\* sessions of the other are all reported.
ASSUME TwinRootsReported ==
    LET Row2(p) == [workspace |-> "w", project |-> p, root |-> Dir(<<"r">>, FALSE)]
        Found(rows, p) == Reports!audit_contamination(rows, {[id |-> "s1", workspace |-> "w", project |-> p, cwd |-> Dir(<<"r">>, FALSE)]}, {}, Dir(<<>>, FALSE))
    IN Found(<<Row2("p"), Row2("q")>>, "p") = {} /\ Found(<<Row2("q"), Row2("p")>>, "p") # {}

-----------------------------------------------------------------------------
(* The patches of bounded pages.                                           *)

LOCAL Lines == {K!Text("t"), K!FenceLine, K!Heading(1, "h"), K!Heading(2, "a"), K!Heading(2, "b"), K!Heading(3, "c")}
LOCAL Bodies(m) == {<<K!Heading(1, "h")>> \o b : b \in UNION {[1..n -> Lines] : n \in 1..m}}
LOCAL SectionContents == {<<K!Text("n")>>, <<K!Heading(2, "a")>>, <<K!Heading(2, "a"), K!Text("n")>>, <<K!Heading(2, "d")>>,
             <<K!Heading(3, "c"), K!Text("n")>>, <<K!FenceLine>>}
LOCAL Edits(body) ==
    {[op |-> op, anchor |-> s.anchor, content |-> c, expected |-> K!SectionText(body, s)] :
        op \in {"append", "add_section", "replace_section"}, s \in K!parse_markdown_sections(body), c \in SectionContents}

\* Whatever one or two edits make of a page without duplicate headings, the
\* lines that no replacement was shown are all there, in their order.
ASSUME PatchesKeepTheRest ==
    /\ \A body \in Bodies(3) : K!has_duplicate_headings(body) \/ \A e \in Edits(body) : K!KeepsTheRest(body, <<e>>)
    /\ \A body \in Bodies(2) : K!has_duplicate_headings(body) \/ \A e, f \in Edits(body) : K!KeepsTheRest(body, <<e, f>>)

\* A patch that is accepted leaves the page its title.
ASSUME PatchesKeepTheTitle ==
    \A body \in Bodies(2) : K!has_duplicate_headings(body) \/
        \A e, f \in Edits(body) : K!PatchProposalValid(body, <<e, f>>, 2, 2, 4, 8) => K!materialize_patch(body, <<e, f>>).body[1] = body[1]

\* Every call of the writer's handle has a command of its own and none stops the thread; what
\* the thread executes for it is the operation of that name, but for the nine that are named
\* otherwise, and no two calls come to the same operation.
ASSUME CallsReachTheirOperation ==
    LET calls == Setup!WriterCalls
        Does(call) == Setup!Operation(calls[call])
        renamed == [bump_access |-> "bump_access_for_pages", hard_delete_decayed |-> "hard_delete_decayed_pages",
                    create_user |-> "insert_user", stage_auto_improve_run |-> "stage_run",
                    reject_auto_improve_proposal |-> "reject_proposal", fail_auto_improve_proposal |-> "fail_proposal",
                    approve_auto_improve_proposal |-> "approve_proposal",
                    ensure_auto_improve_scheduler_state |-> "ensure_scheduler_state",
                    claim_auto_improve_scheduler_session |-> "claim_scheduler_session"]
    IN /\ IsInjective(calls) /\ Range(calls) = Setup!WriteCmd \ {"Shutdown"}
       /\ \A call \in DOMAIN calls : Does(call) = (IF call \in DOMAIN renamed THEN renamed[call] ELSE call)
       /\ IsInjective([call \in DOMAIN calls |-> Does(call)])

\* What a review may propose within the defaults can be stored: an edit fits in what may be
\* changed, the edits of a proposal in those of a run, and a page that is shown in the body
\* that may come of it; and no limit of a review is lost on the way from the settings.
ASSUME LimitsNest ==
    LET settings == Setup!AutoImproveSettings
        review == Setup!auto_improve_review_config_from_settings(settings)
    IN /\ settings.max_edit_content_chars <= settings.max_changed_chars_per_proposal
       /\ settings.max_changed_chars_per_proposal <= settings.max_final_body_chars
       /\ settings.max_patchable_body_chars <= settings.max_final_body_chars
       /\ settings.max_edits_per_proposal <= settings.max_patch_edits_per_run
       /\ \A k \in DOMAIN review : review[k] = settings[k]
       /\ {"min_confidence", "eval_enabled", "max_edit_content_chars", "max_changed_chars_per_proposal", "pending_path"}
              \subseteq DOMAIN review

\* A list written as one text is the list without its blank parts, and one written so is
\* the list of its parts.
ASSUME ListsEitherWay ==
    \A parts \in SeqOf({"", "h1", "h2"}, 3) :
        LET List(text) == Setup!deserialize_string_or_vec([text |-> text, parts |-> parts])
        IN /\ "" \notin Range(List(TRUE)) /\ Range(List(TRUE)) = Range(parts) \ {""}
           /\ List(FALSE) = parts /\ ("" \notin Range(parts) => List(TRUE) = parts)

\* A user that the administration can add is one that the guard knows: either both have the
\* pepper or neither. A server that says anyone can reach it checks no token.
ASSUME UsersOnBothSides ==
    \A token \in {None, "t"}, pepper \in {None, "", "p"}, name \in {None, "", "root"}, loopback \in BOOLEAN :
        LET auth == [Setup!AuthSettings EXCEPT !.bearer_token = token, !.token_pepper = pepper, !.root_username = name]
            guard == Setup!auth_state(auth)
        IN /\ guard.multiuser = Setup!admin_state(auth).token_pepper
           /\ guard.multiuser # "" /\ \A actor \in guard.root_actor : actor.user \notin {"", None}
           /\ Setup!bind_warning(auth, loopback) = "anyone" <=> token = None /\ ~loopback

\* What a change of a project or of a workspace leaves in the cache names neither, and it
\* leaves all that does not.
ASSUME CacheForgetsTheChanged ==
    LET Entries == [cwd : {"d1", "d2"}, workspace : {1, 2}, project : {1, 2}]
    IN \A kind \in {"project", "workspace"}, id \in {1, 2}, cache \in SUBSET Entries :
           Setup!scope_invalidator(cache, [kind |-> kind, id |-> id]) = {e \in cache : e[kind] # id}

\* A limit on the hooks lets a burst of one through at least, and a server that has none
\* keeps none: only the network has them at all.
ASSUME HooksAreLetIn ==
    \A rate, burst \in {-1, 0, 1, 5} :
        LET limit == Setup!ingest_rate([hook_rate_per_sec |-> rate, hook_rate_burst |-> burst])
        IN /\ limit.burst >= 1 /\ limit.per_sec >= 0
           /\ burst > 0 => limit.burst = burst
           /\ limit.per_sec = 0 <=> rate <= 0
           /\ "hook" \notin Setup!Surfaces("stdio") /\ "hook" \in Setup!Surfaces("http")

-----------------------------------------------------------------------------
(* The requests of the server.                                             *)

LOCAL Req == INSTANCE ServerRequests

LOCAL ReqOutcomes == UNION {[1..n -> {"found", "fails", "panics"}] : n \in 0..3}

\* Whatever the uses of the pool come to, it never keeps more connections than its limit, and
\* loses one only to a use that panics: an error gives its connection back.
ASSUME PoolKeepsItsConnections ==
    \A cap \in 0..3, idle \in 0..3, outcomes \in ReqOutcomes :
        LET used == Req!with_conn(idle, cap, outcomes)
            lost == Cardinality({i \in DOMAIN outcomes : outcomes[i] = "panics"})
        IN /\ used.idle <= Max({cap, 1, idle})
           /\ used.opened = (IF Len(outcomes) > idle THEN Len(outcomes) - idle ELSE 0)
           /\ idle + used.opened - lost < Max({cap, 1}) => used.idle = idle + used.opened - lost

LOCAL ReqSession(id, scope, agent, ended, started) ==
    [id |-> id, scope |-> scope, agent |-> agent, ended |-> ended, started |-> started, cwd |-> "d"]

\* A list of open sessions names none of another project, none of another agent and none that
\* has ended; what the limit leaves out began before everything in it.
ASSUME OpenSessionsAreOwn ==
    \A a, b \in {"A", "B"}, x, y \in {"claude", "codex"}, e, f \in {{}, {3}}, limit \in {{}, {0}, {1}, {2}} :
        LET rows == {ReqSession(1, a, x, e, 1), ReqSession(2, b, y, f, 2), ReqSession(3, "A", "claude", {}, 2)}
            list == Req!open_sessions_for_scope_agent(rows, "A", "claude", limit)
            named == {s \in rows : \E i \in DOMAIN list : list[i].session_id = s.id}
            left == {s \in rows : s.scope = "A" /\ s.agent = "claude" /\ s.ended = {}} \ named
        IN /\ \A s \in named : s.scope = "A" /\ s.agent = "claude" /\ s.ended = {}
           /\ \A s \in named, t \in left : t.started <= s.started
           /\ left = {} \/ limit # {}

\* The words of a query find nothing in another project, and no words find nothing.
ASSUME ObservationsAreOwn ==
    \A words \in SUBSET {"u", "v"}, limit \in 0..2 :
        LET rows == {[id |-> 1, scope |-> "A", words |-> {"u"}, rank |-> 2], [id |-> 2, scope |-> "A", words |-> {"u", "v"}, rank |-> 1],
                     [id |-> 3, scope |-> "B", words |-> {"u", "v"}, rank |-> 0]}
            hits == Req!search_observations_for_project(rows, "A", words, limit)
        IN /\ \A i \in DOMAIN hits : hits[i].scope = "A" /\ words \subseteq hits[i].words
           /\ Len(hits) <= limit /\ (words = {} => hits = <<>>)
           /\ limit > 0 /\ words # {} => Head(hits).id = 2

\* A store that a reindex takes for empty holds no row of any kind, users and sessions included,
\* and a refusal names what it found.
ASSUME OnlyEmptyIsClean ==
    LET Rows(t) == [u \in Range(Req!TargetTables) |-> IF u \in t THEN {1, 2} ELSE {}]
    IN \A t \in SUBSET {"workspaces", "pages", "sessions", "handoffs", "users"} :
           LET status == Req!reindex_target_status(Rows(t))
           IN Req!is_clean(status) <=> t = {} /\ Range(Req!nonzero_summary(status)) = t

\* A vector is taken whole or refused, and so is the product: no part of one is compared.
ASSUME VectorsAreWhole ==
    \A dim \in 1..2, query, bytes \in UNION {[1..n -> {1, 2}] : n \in 0..3} :
        /\ Req!bytes_to_f32_vec(bytes, dim) \in {{}, {bytes}}
        /\ Req!dot_embedding_bytes(query, bytes, dim) # {} <=> Len(query) = dim /\ Len(bytes) = dim
        /\ Req!dot_embedding_bytes(query, bytes, dim) = Req!dot_embedding_bytes(bytes, query, dim)

\* What is read of an observation is within its limits, whatever is stored.
ASSUME RowsAreClamped ==
    \A importance \in {-1, 0, 1, 5, 10, 11}, ids, time_ok \in BOOLEAN, kind \in {"note", "odd"} :
        \A o \in Req!materialise_observation([ids |-> ids, kind |-> kind, time_ok |-> time_ok, importance |-> importance], {"note"}) :
            ids /\ time_ok /\ kind = "note" /\ o.importance \in 1..10 /\ (importance \in 1..10 => o.importance = importance)

\* A list of a handoff is never longer than what it may be; its items are those given, in their
\* order and each cut to its own limit, and what is left out is counted unless no room is left
\* to say so.
ASSUME HandoffListsFit ==
    \A lengths \in UNION {[1..n -> {1, 4}] : n \in 0..4}, item_max \in {2, 5}, total \in 5..9, most \in 1..3, marker \in {2, 4} :
        LET list == Req!cap_handoff_list(lengths, item_max, total, most, marker)
            kept == SelectSeq(list.items, LAMBDA i : i.marker = 0)
            told == SelectSeq(list.items, LAMBDA i : i.marker > 0)
        IN /\ list.used <= total /\ Len(kept) <= most /\ Len(told) <= 1
           /\ \A i \in DOMAIN kept : kept[i].length = Min({lengths[i], item_max})
           /\ told # <<>> => told[1].marker = Len(lengths) - Len(kept) /\ Last(list.items) = told[1]
           /\ Len(kept) < Len(lengths) /\ told = <<>> => list.used + 1 >= total

\* Of the names of a session the one of its identity counts, and a blank header counts for none.
ASSUME IdentityBeforeHeaders ==
    LET Headers == [{"x-memory-actor-session-id", "mcp-session-id"} -> {{}, {""}, {"h"}, {"i"}}]
    IN \A id \in {{}, {"s"}}, headers \in Headers :
           LET key == Req!actor_key_from_parts({[user |-> {"u"}, session_id |-> id, headers |-> headers]})
           IN /\ id # {} => key.session_id = id
              /\ key.session_id # {""}
              /\ headers["mcp-session-id"] = {"i"} => key.session_id # {}

\* A query over several projects searches all that were named, or none: one that is
\* unknown is never passed over.
ASSUME ScopesAllOrNone ==
    \A scopes \in UNION {[1..n -> {"A", "B", "Z"}] : n \in 0..3} :
        LET resolved == Req!resolve_query_scopes(scopes, {"A", "B"}, 2)
        IN /\ resolved \in {{}, {scopes}}
           /\ resolved = {} <=> Len(scopes) > 2 \/ "Z" \in Range(scopes)

\* The tools of maintenance do nothing without a project, and nothing but say what they
\* would do in a rehearsal; the road over the network does just what the tool does.
ASSUME MaintenanceAgrees ==
    \A scope \in {{}, {"A"}}, dry, no_llm, llm, fails \in BOOLEAN :
        LET lint == Req!handle_lint(scope, dry, no_llm, llm, fails)
            sweep == Req!handle_forget_sweep(scope, dry, fails)
        IN /\ lint.status = 200 => lint.did = Req!memory_lint(TRUE, scope, {dry}, {no_llm}, llm)
           /\ sweep.status = 200 => sweep.did = Req!memory_forget_sweep(scope, {dry})
           /\ \A done \in lint.did \cup sweep.did : done.scope \in scope /\ done.dry_run = dry
           /\ \A done \in lint.did : done.llm => llm /\ ~no_llm

\* A consolidation is of the project of its session, and of none where the session is unknown.
ASSUME ConsolidatesItsSession ==
    \A id \in 1..3, many \in {{}, {TRUE}, {FALSE}} :
        LET done == Req!memory_consolidate(TRUE, {ReqSession(1, "A", "x", {}, 1), ReqSession(2, "B", "x", {}, 1)}, id, many, {})
        IN {d.scope : d \in done} = (CASE id = 1 -> {"A"} [] id = 2 -> {"B"} [] OTHER -> {})

\* Proposals are put on disk in their order and up to the first that cannot be: a run that
\* fails half way leaves the first of them there.
ASSUME SidecarsInOrder ==
    \A ids \in UNION {[1..n -> 1..3] : n \in 0..3}, failing \in SUBSET (1..3) :
        LET done == Req!write_auto_improve_sidecars(ids, failing)
        IN /\ IsPrefix(done.written, ids) /\ Range(done.written) \cap failing = {}
           /\ done.ok <=> done.written = ids

\* Every page that was embedded is counted once, as kept or as failed.
ASSUME EmbeddingsCounted ==
    \A a, b \in 0..2, f, g \in BOOLEAN :
        LET counts == Req!flush_embedding_batch(Req!flush_embedding_batch([embedded |-> 0, failed |-> 0], a, f), b, g)
        IN counts.embedded + counts.failed = a + b

\* A page merged into another project gets a path that no page merged before it has and that no
\* page there has, unless that page cannot be read: then it is taken for free.
ASSUME MergedPathIsFree ==
    LET Name(n) == [stem |-> "x", from |-> "w", n |-> n, ext |-> ".md"]
        names == {Name(n) : n \in 0..2}
    IN \A used, stored, unreadable, invalid \in SUBSET names :
           LET path == Req!dedup_dest_path([stem |-> "x", ext |-> ".md"], "w", used, stored, unreadable \cap stored, invalid)
           IN /\ path \notin used \cup invalid
              /\ path \in stored => path \in unreadable

\* The time since the last observation is named once for every hour, and the older, the later
\* in the list of names.
ASSUME GapsAreOrdered ==
    LET order == <<"fresh", "today", "recent", "dormant", "stale">>
        Place(hours) == CHOOSE i \in 1..5 : order[i] = Req!explore_gap_from_snapshot({0}, hours)
    IN /\ \A hours \in {0, 1, 23, 24, 167, 168, 719} : Place(hours) <= Place(hours + 1)
       /\ [hours \in {0, 10, 100, 200, 720} |-> Place(hours)] = (0 :> 1 @@ 10 :> 2 @@ 100 :> 3 @@ 200 :> 4 @@ 720 :> 5)
       /\ Req!explore_gap_from_snapshot({}, 0) = "none"

\* Instructions are written to a file that the agent reads and its skills where it looks for them.
ASSUME RoutingKnowsItsAgents ==
    \A agent \in {"claude_code", "devin", "codex", "unheard_of"} :
        LET plan == Req!memory_install_self_routing(agent, "block", <<"skill">>)
        IN (plan.file = "CLAUDE.md" <=> agent = "claude_code") /\ (plan.root = ".claude/skills" <=> agent = "claude_code")

\* A road of administration that changes something is never taken by reading, and none is open
\* to anyone but the server's own.
ASSUME AdministrationIsPosted ==
    \A path \in Req!Posts \cup Req!Gets \cup {"nowhere"}, root \in BOOLEAN :
        /\ Req!admin_router("GET", path, root) = 200 => root /\ path \notin {"restore-page", "purge-project", "write-page", "delete-page", "reorg"}
        /\ Req!admin_router("POST", path, root) = 200 => root /\ path \in Req!Posts

-----------------------------------------------------------------------------
(* The commands of the client.                                             *)

LOCAL Envs ==
    [host : {{}, {""}, {"h"}}, host_path : {{}, {"/h"}}, cwd : {"/work", "/src"}, derived : {{}, {"d"}},
     typed : {"n", "yes"},
     settings : {[f \in Cli!Carried \cup DOMAIN Cli!Replaced |-> <<"settings", f>>] @@ [include_raw_fallback |-> FALSE]}]
LOCAL Asking == {"purge-project", "move-project", "rename-project", "reorg", "read-page", "write-page", "search",
                 "delete-page", "restore-page", "embed", "forget-sweep", "lint", "curator", "commit", "checkpoints",
                 "auto-improve-report", "pending-writes list", "pending-writes show", "pending-writes diff",
                 "pending-writes approve", "pending-writes reject", "audit-contamination", "user add", "user list",
                 "user expire", "user revive", "user rotate-token", "status", "backup"}

\* The values an option is given: what it is closed to, or a name.
LOCAL ValueOf(o, n) ==
    CASE n \in DOMAIN o.closed -> CHOOSE v \in o.closed[n] : TRUE
      [] n \in DOMAIN o.defaults \ (DOMAIN o.closed \cup {"workspace"}) -> o.defaults[n]
      [] OTHER -> "v"
LOCAL GivenTo(command) ==
    LET o == Cli!Commands[command]
    IN {[n \in o.needs \cup s |-> ValueOf(o, n)] : s \in SUBSET (o.flags \cup o.takes \cup DOMAIN o.defaults)}
LOCAL Args(command) == UNION {Cli!parse(Cli!Commands[command], given) : given \in GivenTo(command)}
LOCAL InWork(env) == env.cwd = "/work" /\ env.host \in {{}, {""}}

\* Every command asks one thing at most, by a road of administration that the server has, and of
\* a server with its own token only.
ASSUME CommandsFindTheirRoad ==
    \A command \in Asking : \A a \in Args(command) : \A env \in {e \in Envs : e.host_path = {}} :
        LET asked == Cli!Asked(command, env, a)
        IN /\ Cardinality(asked) <= 1
           /\ \A r \in asked : Req!admin_router(r.method, r.path, TRUE) = 200

\* What cannot be taken back is asked for only when it was confirmed, and then of the server as
\* confirmed; an old wrapper's directory never stands for a project.
ASSUME NothingIsAskedUnconfirmed ==
    \A env \in Envs :
        /\ \A command \in {"purge-project", "move-project"} : \A a \in Args(command) :
              /\ Cli!Asked(command, env, a) # {} => a.confirm
              /\ \A r \in Cli!Asked(command, env, a) : r.body.confirm
        /\ \A command \in {"user expire", "user rotate-token"} : \A a \in Args(command) :
              Cli!Asked(command, env, a) # {} <=> a.yes \/ env.typed = "yes"
        /\ \A command \in {"purge-project", "search", "delete-page", "lint", "pending-writes approve"} :
              \A a \in Args(command) : InWork(env) /\ a.project = {} => Cli!Asked(command, env, a) = {}

\* Commands given the same workspace and the same project, or none, mean the same one, whether
\* they read, write or delete.
ASSUME CommandsMeanOneProject ==
    LET scoped == {"read-page", "write-page", "search", "delete-page", "restore-page", "forget-sweep", "lint",
                   "curator", "purge-project", "pending-writes list", "pending-writes approve", "auto-improve-report"}
        Common == [workspace : {"default", "v"}, project : {{}, {""}, {"v"}}]
        Of(command, common) == {a \in Args(command) : a.workspace = common.workspace}
        Named(env, common) ==
            UNION {UNION {{[workspace |-> r.body.workspace, project |-> r.body.project] :
                              r \in Cli!Asked(command, env, [a EXCEPT !.project = common.project])} :
                          a \in Of(command, common)} : command \in scoped}
    IN \A env \in {e \in Envs : e.host_path = {} /\ e.typed = "n"}, common \in Common :
          /\ Cardinality(Named(env, common)) <= 1
          /\ \A s \in Named(env, common) : s.workspace = common.workspace /\ s.project # ""
          /\ common.project = {"v"} => \A s \in Named(env, common) : s.project = "v"

\* All projects are embedded again only by a forced command that names none, a test run included.
ASSUME EmbeddingFansOutForced ==
    \A a \in Args("embed"), project \in {{}, {""}, {"v"}} :
        \A env \in {e \in Envs : e.host_path = {}} :
            \A r \in Cli!Asked("embed", env, [a EXCEPT !.project = project]) :
                /\ r.body.all_projects <=> a.force /\ project = {}
                /\ r.body.project = "" <=> r.body.all_projects
                /\ r.body.dry_run = a.dry_run

\* The curator either reports or stages, and stages only when it was asked to.
ASSUME CuratorReportsOrStages ==
    \A env \in {e \in Envs : e.host_path = {}} : \A a \in Args("curator") :
        /\ a.dry_run /\ a.stage => Cli!Asked("curator", env, a) = {}
        /\ \A r \in Cli!Asked("curator", env, a) : r.body.stage = a.stage /\ r.body.dry_run = ~r.body.stage

\* A review asked for by hand has every setting of the client's, but for those the command names,
\* and knows each that a scheduled review knows.
ASSUME ReviewKeepsSettings ==
    LET env == CHOOSE e \in Envs : e.cwd = "/src" /\ e.derived = {"d"}
        options == Cli!Commands["auto-improve"]
        Given(s) == [n \in {"session_id"} \cup s |-> <<"given", n>>]
        scheduled == DOMAIN Setup!auto_improve_review_config_from_settings(Setup!AutoImproveSettings)
    IN /\ {Cli!Replaced[f] : f \in DOMAIN Cli!Replaced} = options.takes \ {"project"}
       /\ (Cli!Carried \ {"eval"}) \cup DOMAIN Cli!Replaced \cup {"include_raw_fallback"}
              = scheduled \ {"eval_enabled", "eval_command", "eval_timeout_secs", "eval_targets", "eval_min_delta"}
       /\ \A s \in SUBSET (options.takes \ {"project"}) : \A a \in Cli!parse(options, Given(s)) :
             \A r \in Cli!auto_improve(env, a) :
                /\ \A f \in Cli!Carried : r.body[f] = env.settings[f]
                /\ \A f \in DOMAIN Cli!Replaced :
                      r.body[f] = IF Cli!Replaced[f] \in s THEN <<"given", Cli!Replaced[f]>> ELSE env.settings[f]
                /\ r.body.session_id = <<"given", "session_id">>

\* Each option of a command is of one kind; a command takes what it needs and nothing unknown,
\* and a default is one of the values the option is closed to.
ASSUME OptionsAreClear ==
    \A command \in DOMAIN Cli!Commands :
        LET o == Cli!Commands[command]
            kinds == <<o.needs, o.flags, o.takes, DOMAIN o.defaults>>
            Needed(names) == [n \in names |-> ValueOf(o, n)]
        IN /\ \A i, j \in 1..4 : i # j => kinds[i] \cap kinds[j] = {}
           /\ DOMAIN o.closed \subseteq o.needs \cup o.takes \cup DOMAIN o.defaults
           /\ \A n \in DOMAIN o.closed \cap DOMAIN o.defaults : o.defaults[n] \in o.closed[n]
           /\ Cli!parse(o, Needed(o.needs)) # {}
           /\ \A n \in o.needs : Cli!parse(o, Needed(o.needs \ {n})) = {}
           /\ Cli!parse(o, Needed(o.needs \cup {"unheard_of"})) = {}
           /\ \A n \in DOMAIN o.closed : Cli!parse(o, (n :> "unheard_of") @@ Needed(o.needs)) = {}

\* An agent's other names lead to its own, whose scripts are staged under it or not at all.
ASSUME AgentsHaveOneName ==
    /\ \A agent \in Cli!Agents : Cli!kind(agent) \in Cli!AgentChoice /\ Cli!kind(Cli!kind(agent)) = Cli!kind(agent)
    /\ \A agent \in Cli!Agents : Cli!script_hook_subdir(agent) \subseteq {Cli!kind(agent)}
    /\ \A client \in Cli!Clients \ Cli!McpClient : Cli!McpAliases[client] \in Cli!McpClient

\* Sessions are reported as ended only when each was taken by the server, each in the directory it
\* ran in; a command that stops has ended the ones before and reports none.
ASSUME FinalisedIsAnswered ==
    LET OpenSession(id, agent, ended) ==
            [id |-> id, scope |-> <<"default", "p">>, agent |-> agent, started |-> id, ended |-> ended, cwd |-> IF id = 1 THEN {"/s"} ELSE {}]
        sessions == {OpenSession(1, "codex", {}), OpenSession(2, "codex", {}), OpenSession(3, "codex", {9}), OpenSession(4, "open-code", {})}
        env == CHOOSE e \in Envs : e.cwd = "/src" /\ e.host_path = {} /\ e.host = {} /\ e.derived = {"d"}
    IN \A taken \in SUBSET {1, 2, 4}, all \in BOOLEAN, agent \in {"codex", "opencode"} :
          LET a == [workspace |-> "default", project |-> {"p"}, agent |-> agent, all |-> all]
              acked == [id \in 1..4 |-> [status |-> 200, accepted |-> IF id \in taken THEN 1 ELSE 0]]
              run == Cli!finalize_session(env, sessions, a, acked)
              sent == {run.sent[i].session_id : i \in DOMAIN run.sent}
          IN /\ sent \subseteq (IF agent = "codex" THEN {1, 2} ELSE {4}) /\ sent # {}
             /\ all \/ Cardinality(sent) = 1
             /\ run.report # {} <=> sent \subseteq taken
             /\ \A report \in run.report : ToSet(report) = sent /\ (all => sent = (IF agent = "codex" THEN {1, 2} ELSE {4}))
             /\ Cardinality(sent \ taken) <= 1
             /\ \A i \in DOMAIN run.sent : run.sent[i].url.cwd = IF run.sent[i].session_id = 1 THEN "/s" ELSE "/src"

LOCAL Archived(road, type, holds) == [road |-> road, type |-> type, plain |-> TRUE, holds |-> holds]
LOCAL ArchiveEntries ==
    {Archived("wiki/", "file", "w"), Archived("db/memory.sqlite", "file", "d"), Archived("config.toml", "file", "c"),
     Archived("wiki", "dir", "x"), Archived("elsewhere", "file", "x"), Archived("db", "file", "x"), Archived("wiki/", "link", "x")}
LOCAL DataDirs == [{"wiki/", "db/memory.sqlite", "config.toml"} -> {{}, {"old"}}]

\* A restore that is refused for what runs, or for what is there, changes nothing; one that ends
\* well leaves of the pages and of the database what the archive holds; and none writes anything
\* outside the wiki, the database and the settings.
ASSUME RestoreIsWhole ==
    \A data \in DataDirs, e1, e2 \in ArchiveEntries, force, opens, there \in BOOLEAN, siblings \in {{}, {7}} :
        LET after == Cli!restore(data, [there |-> there, opens |-> opens, entries |-> <<e1, e2>>], force, siblings)
            full == data["wiki/"] \cup data["db/memory.sqlite"] # {}
            held == {e \in {e1, e2} : e.type = "file"}
        IN /\ siblings # {} \/ ~there \/ (full /\ ~force) => ~after.ok /\ after.data = data
           /\ DOMAIN after.data = DOMAIN data
           /\ after.ok => \A road \in {"wiki/", "db/memory.sqlite"} :
                  after.data[road] = {e.holds : e \in {x \in held : x.road = road}}
           /\ after.ok => \A e \in {e1, e2} : e.road # "elsewhere" /\ e.type # "link"
           /\ after.data["config.toml"] \in {data["config.toml"], {"c"}}

\* The pages are indexed anew only into a store that has nothing, while no server runs.
ASSUME ReindexNeedsAnEmptyStore ==
    \A rows \in 0..1, others \in SUBSET {[pid |-> 1, name |-> "ai-memory", thread |-> FALSE],
                                          [pid |-> 2, name |-> "ai-memory", thread |-> FALSE],
                                          [pid |-> 2, name |-> "other", thread |-> FALSE]} :
        LET siblings == Cli!sibling_processes(others, 1, FALSE)
        IN Cli!reindex([t \in {"pages", "users"} |-> IF t = "users" THEN rows ELSE 0], {"p"}, siblings) # {}
             <=> rows = 0 /\ ~\E p \in others : p.pid = 2 /\ p.name = "ai-memory"

\* Settings that are there keep their pepper, and with it every token, unless they are overwritten
\* by force.
ASSUME PepperIsKept ==
    \A config \in {{}, {[pepper |-> "old", own |-> TRUE]}}, force \in BOOLEAN :
        LET after == Cli!init(config, force, "new")
        IN after # {} /\ (config # {} /\ ~force => after = config) /\ (force => \A c \in after : c.pepper = "new")

\* A hook runs whatever the settings are, and a command never fails for want of a log.
ASSUME ClientRunsAnyway ==
    /\ \A settings \in BOOLEAN : Cli!main("hook", settings).runs /\ (Cli!main("search", settings).runs <=> settings)
    /\ \A writable \in SUBSET {"log", "temp"} :
          /\ "stderr" \in Cli!init_logging(writable)
          /\ Cli!init_logging(writable) \ {"stderr"} \subseteq writable
          /\ writable # {} => Cardinality(Cli!init_logging(writable)) = 2

\* A provider that failed is never shown without a reason, nor one that works without a time.
ASSUME HealthIsExplained ==
    \A status \in {"disabled", "unknown", "ok", "error"}, provider, model, text, at \in {{}, {"v"}} :
        LET role == [status |-> status, provider |-> provider, model |-> model, dim |-> {}, error_status |-> {},
                     error_message |-> text, error_at |-> at, called_at |-> at]
            line == Cli!provider_health_line(role)
        IN /\ line = <<>> <=> status = "disabled"
           /\ status \in {"ok", "error"} => Len(line) > Len(Cli!provider_label(role)) /\ Last(line) # {}
===============================================================================
