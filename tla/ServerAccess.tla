----------------------------- MODULE ServerAccess -----------------------------
(***************************************************************************)
(* Who a request comes from and what it may do: the rungs of               *)
(* ai-memory-cli/src/auth.rs, the capabilities of ai-memory-core/src/      *)
(* actor.rs, the users of ai-memory-store/src/users.rs and core/src/       *)
(* user.rs, and the routes and the command that manage them (admin.rs,     *)
(* ai-memory-cli/src/commands/user.rs).                                    *)
(*                                                                         *)
(* A token stands for its peppered hash. The users are a function from ids *)
(* to [username, email, token, expired, seen].                             *)
(***************************************************************************)
EXTENDS Naturals, FiniteSets, Sequences

None == "none"

-----------------------------------------------------------------------------
(* Capabilities.                                                           *)

require_root(level) ==
    CASE level = "root" -> "ok" [] level = "anonymous" -> "authenticate" [] level = "user" -> "forbidden"

\* On a server without users everybody administers; users are managed by root alone.
authorize(level, capability, multi) ==
    CASE capability \in {"read", "write"}     -> "ok"
      [] capability = "skip_admission"        -> IF level = "user" THEN "forbidden" ELSE "ok"
      [] capability = "admin" /\ ~multi       -> "ok"
      [] capability = "admin" /\ multi        -> require_root(level)
      [] capability = "user_management"       -> require_root(level)

authz_status(verdict) == CASE verdict = "ok" -> 200 [] verdict = "authenticate" -> 401 [] verdict = "forbidden" -> 403

-----------------------------------------------------------------------------
(* Users.                                                                  *)

\* A name is [length, chars]: the kinds of characters it has, once trimmed.
validate_username(s) == s.length \in 1..64 /\ s.chars \subseteq {"plain"}

\* An address is [length, chars, parts]: the lengths of what the @ signs part.
validate_email(s) ==
    /\ s.length <= 254 /\ s.chars \cap {"control", "space"} = {}
    /\ Len(s.parts) = 2 /\ s.parts[1] > 0 /\ s.parts[2] > 0

\* Blank fields count as absent, an address is compared in lower case.
validate(new) == validate_username(new.name) /\ (new.address.length > 0 => validate_email(new.address))

\* Names, addresses and tokens are unique.
insert_user(users, id, new) ==
    IF \E u \in DOMAIN users : \/ users[u].username = new.username
                               \/ users[u].token = new.token
                               \/ new.email # None /\ users[u].email = new.email
    THEN [status |-> 409, users |-> users]
    ELSE [status |-> 200, users |-> [u \in DOMAIN users \cup {id} |-> IF u = id
              THEN [username |-> new.username, email |-> new.email, token |-> new.token, expired |-> FALSE, seen |-> FALSE]
              ELSE users[u]]]

\* A new token is an active one, whatever the old one was.
rotate_user_token(users, id, token) == [users EXCEPT ![id].token = token, ![id].expired = FALSE]

expire_user_token(users, id) == [users EXCEPT ![id].expired = TRUE]

revive_user_token(users, id) == [users EXCEPT ![id].expired = FALSE]

touch_user_last_seen(users, id) == [users EXCEPT ![id].seen = TRUE]

find_active_user_by_token_hash(users, token) == {u \in DOMAIN users : users[u].token = token /\ ~users[u].expired}

find_user_by_username(users, name) == {u \in DOMAIN users : users[u].username = name}

-----------------------------------------------------------------------------
(* A request: [get: whether it is a GET, bearer, basic, cookie].           *)

\* Browsers may show the token as a password or as a cookie, when they only read.
Provided(req) ==
    IF req.bearer # None THEN req.bearer
    ELSE IF req.get /\ req.basic # None THEN req.basic
    ELSE IF req.get /\ req.cookie # None THEN req.cookie
    ELSE ""

\* A password that was good becomes a cookie.
GivesCookie(req) == req.get /\ req.basic # None /\ req.cookie = None

\* Without a token on the server everybody is anonymous, users or not. The server's
\* token is root; otherwise the users are asked, where there are any.
require_bearer(server, req, users) ==
    LET token == Provided(req)
        known == IF server.multi /\ token # "" THEN find_active_user_by_token_hash(users, token) ELSE {}
    IN IF server.expected = None THEN [level |-> "anonymous", user |-> None, cookie |-> FALSE]
       ELSE IF token = server.expected THEN [level |-> "root", user |-> None, cookie |-> GivesCookie(req)]
       ELSE IF known # {} THEN [level |-> "user", user |-> CHOOSE u \in known : TRUE, cookie |-> GivesCookie(req)]
       ELSE [level |-> "refused"]

Passes(server, req, users) == require_bearer(server, req, users).level # "refused"

\* Every administrative route, those of the users included, once the request has a level.
require_root_for_multiuser_admin(server, level) == authz_status(authorize(level, "admin", server.multi))

\* An administrative request, by what its handler does to the users.
Administered(server, level, users, status, after) ==
    IF require_root_for_multiuser_admin(server, level) # 200
    THEN [status |-> require_root_for_multiuser_admin(server, level), users |-> users]
    ELSE IF authorize(level, "user_management", server.multi) # "ok"
    THEN [status |-> authz_status(authorize(level, "user_management", server.multi)), users |-> users]
    ELSE [status |-> status, users |-> IF status = 200 THEN after ELSE users]

handle_create_user(server, level, users, id, new) ==
    LET made == insert_user(users, id, new)
    IN Administered(server, level, users,
           IF ~server.multi THEN 503 ELSE IF ~new.valid THEN 400 ELSE made.status, made.users)

handle_list_users(server, level, users) == Administered(server, level, users, 200, users)

\* The other routes name a user: "changes" is what the change to each of them makes of all.
OnUser(server, level, users, name, enabled, changes) ==
    LET found == find_user_by_username(users, name)
    IN Administered(server, level, users,
           IF ~enabled THEN 503 ELSE IF found = {} THEN 404 ELSE 200,
           IF found = {} THEN users ELSE changes[CHOOSE u \in found : TRUE])

handle_expire_user(server, level, users, name) ==
    OnUser(server, level, users, name, TRUE, [u \in DOMAIN users |-> expire_user_token(users, u)])

handle_revive_user(server, level, users, name) ==
    OnUser(server, level, users, name, TRUE, [u \in DOMAIN users |-> revive_user_token(users, u)])

handle_rotate_user_token(server, level, users, name, token) ==
    OnUser(server, level, users, name, server.multi, [u \in DOMAIN users |-> rotate_user_token(users, u, token)])

\* The command asks before it takes a token away, unless told not to.
confirm(command, yes, answer) == command \in {"expire", "rotate-token"} /\ ~yes => answer \in {"y", "yes"}

-----------------------------------------------------------------------------
(* The project each caller of the server is in: ai-memory-core/src/        *)
(* active_project.rs. Hooks set it, tools that name no scope read it.      *)
(*                                                                         *)
(* A memo is [mode, ttl, cap, single, entries]: one slot that everybody    *)
(* shares, and an entry for each actor by the mode. An actor is a pair     *)
(* <<user, session>> with None for what is not known; an entry is          *)
(* [ws, proj, global, at]. The clock is an argument; a lookup that finds   *)
(* nothing answers None. Lookups also drop what has expired, which no later *)
(* lookup can tell.                                                        *)
Nobody == <<None, None>>
NoSlot == [ws |-> None, proj |-> None, global |-> FALSE]

with_config(mode, ttl, cap) ==
    [mode |-> mode, ttl |-> IF ttl = 0 THEN 3600 ELSE ttl, cap |-> IF cap = 0 THEN 1 ELSE cap,
     single |-> NoSlot, entries |-> [a \in {} |-> NoSlot]]

scoped_key(mode, actor) ==
    CASE mode = "single"      -> Nobody
      [] mode = "per_session" -> <<None, actor[2]>>
      [] mode = "per_actor"   -> actor

Keep(memo, actors) == [memo EXCEPT !.entries = [a \in DOMAIN memo.entries \cap actors |-> memo.entries[a]]]

purge_expired(memo, now) ==
    Keep(memo, {a \in DOMAIN memo.entries : now - memo.entries[a].at < memo.ttl})

\* The oldest go first; among entries of one moment any may.
enforce_cap(memo) ==
    LET all == DOMAIN memo.entries
        Older(gone) == \A a \in gone, b \in all \ gone : memo.entries[a].at <= memo.entries[b].at
    IN IF Cardinality(all) <= memo.cap THEN {memo}
       ELSE {Keep(memo, all \ gone) :
                gone \in {g \in SUBSET all : Cardinality(g) = Cardinality(all) - memo.cap /\ Older(g)}}

PerActorInsert(memo, actor, entry, now) ==
    LET live == purge_expired(memo, now)
    IN enforce_cap([live EXCEPT !.entries = [a \in DOMAIN live.entries \cup {actor} |->
                        IF a = actor THEN entry ELSE live.entries[a]]])

\* The shared slot is always set. With both a user and a session, the user's own
\* entry is set as well, for the requests that do not say their session.
set_for(memo, actor, scope, global, now) ==
    LET slot  == [ws |-> scope[1], proj |-> scope[2], global |-> global]
        entry == [ws |-> scope[1], proj |-> scope[2], global |-> global, at |-> now]
        key   == scoped_key(memo.mode, actor)
        told  == [memo EXCEPT !.single = slot]
        users == IF memo.mode = "per_actor" /\ actor[1] # None /\ actor[2] # None
                 THEN PerActorInsert(told, <<actor[1], None>>, entry, now) ELSE {told}
    IN IF key = Nobody THEN {told}
       ELSE UNION {PerActorInsert(m, key, entry, now) : m \in users}

\* Whoever has a key sees the entry of that key or nothing: only requests without
\* one, and servers with one slot, see the shared slot.
Seen(memo, actor, now) ==
    LET key  == scoped_key(memo.mode, actor)
        live == purge_expired(memo, now)
    IN IF key = Nobody THEN memo.single
       ELSE IF key \in DOMAIN live.entries THEN live.entries[key] ELSE NoSlot

get_for(memo, actor, now) == LET e == Seen(memo, actor, now) IN <<e.ws, e.proj>>

default_global_for(memo, actor, now) == Seen(memo, actor, now).global

clear(memo) == [Keep(memo, {}) EXCEPT !.single = [NoSlot EXCEPT !.global = memo.single.global]]

\* A project moved to another workspace.
retarget_project_workspace(memo, p, w, now) ==
    LET Moved(e) == IF e.proj = p THEN [e EXCEPT !.ws = w] ELSE e
        live == purge_expired(memo, now)
    IN [live EXCEPT !.single = Moved(@), !.entries = [a \in DOMAIN @ |-> Moved(@[a])]]

\* The shared slot forgets the scope, but not whether it was a global one.
Forget(memo, part, id, now) ==
    LET live == purge_expired(memo, now)
    IN [Keep(live, {a \in DOMAIN live.entries : live.entries[a][part] # id})
        EXCEPT !.single = IF @[part] = id THEN [NoSlot EXCEPT !.global = memo.single.global] ELSE @]

clear_project(memo, p, now) == Forget(memo, "proj", p, now)

clear_workspace(memo, w, now) == Forget(memo, "ws", w, now)

contains_project(memo, p, now) ==
    memo.single.proj = p \/ LET live == purge_expired(memo, now) IN \E a \in DOMAIN live.entries : live.entries[a].proj = p

contains_workspace(memo, w, now) ==
    memo.single.ws = w \/ LET live == purge_expired(memo, now) IN \E a \in DOMAIN live.entries : live.entries[a].ws = w
=============================================================================
