------------------------------ MODULE Credentials ------------------------------
(***************************************************************************)
(* The credentials of the LLM providers: how a provider's credential is    *)
(* chosen (ai-memory-llm/src/auth.rs), the file that keeps the tokens      *)
(* (auth_file.rs), the tokens that renew themselves (openai_oauth.rs,      *)
(* copilot.rs, oidc.rs) and the commands that log in and out               *)
(* (ai-memory-cli/src/commands/auth.rs).                                   *)
(*                                                                         *)
(* Times are seconds, and a time that is not known is 0. What may be       *)
(* missing is a set of at most one element; a name that may be missing is  *)
(* None. A file is [kind, entries], kind being "object", "broken" or       *)
(* "other"; a file that does not exist is an object without entries. What  *)
(* the services answer is an argument.                                     *)
(***************************************************************************)
EXTENDS Naturals, Sequences, FiniteSetsExt

None == "none"
NoFile == [kind |-> "object", entries |-> <<>>]

FirstKnown(names) ==
    LET known == {i \in DOMAIN names : names[i] # None}
    IN IF known = {} THEN None ELSE names[Min(known)]

-----------------------------------------------------------------------------
(* The credential of a provider.                                           *)

\* A key given to the command replaces whatever credential there is.
with_cli_api_key_override(auth, key) ==
    IF key = None THEN auth ELSE [auth EXCEPT !.credential = "key", !.value = key]

from_api_key(requirement, key) ==
    [requirement |-> requirement, credential |-> IF key = None THEN None ELSE "key", value |-> key]

openai_oauth_token_file(path) ==
    [requirement |-> "openai-oauth", credential |-> "openai-oauth", value |-> path]

CopilotCredential(copilot) ==
    [requirement |-> "copilot", credential |-> "copilot", value |-> copilot]

anthropic_oauth_token(token) ==
    [requirement |-> "anthropic-oauth", credential |-> IF token = None THEN None ELSE "anthropic-oauth",
     value |-> token]

\* An API key is one whatever the provider asked for; the others are not.
require_api_key(auth) == auth.credential = "key"

optional_api_key(auth) == IF auth.credential = "key" THEN auth.value ELSE None

require_token(auth, kind) == auth.requirement = kind /\ auth.credential = kind

-----------------------------------------------------------------------------
(* The file of tokens.                                                     *)

load_entry(file, key) ==
    CASE file.kind = "broken" -> [status |-> "error"]
      [] file.kind = "other" \/ key \notin DOMAIN file.entries -> [status |-> None]
      [] OTHER -> LET entry == file.entries[key]
                  IN CASE entry.type # "oauth" -> [status |-> None]
                       [] ~entry.valid         -> [status |-> "error"]
                       [] OTHER                -> [status |-> "some", token |-> entry.token]

\* Saved is the file as it was read, with the entry put in, or taken out.
save_entry(file, key, entry) ==
    IF file.kind # "object" THEN [ok |-> FALSE, file |-> file]
    ELSE LET keys == (DOMAIN file.entries \ {key}) \cup {key : e \in entry}
         IN [ok |-> TRUE,
             file |-> [file EXCEPT !.entries = [k \in keys |->
                 IF k = key THEN CHOOSE e \in entry : TRUE ELSE file.entries[k]]]]

Entry(token) == [type |-> "oauth", valid |-> TRUE, token |-> token]

\* The file is replaced by renaming: one that cannot be written stays what it was.
write_auth_file(file, key, token, writable) ==
    LET saved == save_entry(file, key, {Entry(token)})
    IN IF saved.ok /\ writable THEN saved ELSE [ok |-> FALSE, file |-> file]

Logout(file, key) == save_entry(file, key, {})

-----------------------------------------------------------------------------
(* The token of openai-oauth. A token's text is [id, claims]: the three    *)
(* places where its account may be said, in the order they are looked at.  *)

RefreshMargin == 60

extract_account_id_from_jwt(text) == FirstKnown(text.claims)

OpenAiToken(reply, refresh, now, previous_account) ==
    [access  |-> reply.access,
     refresh |-> refresh,
     expires |-> now + (IF reply.expires_in = 0 THEN 3600 ELSE reply.expires_in),
     account |-> FirstKnown(<<extract_account_id_from_jwt(reply.id_token),
                              extract_account_id_from_jwt(reply.access), previous_account>>)]

needs_refresh(token, now) == now + RefreshMargin >= token.expires

\* A reply without a refresh token leaves the one that was used.
refresh_access_token(current, reply, now) ==
    IF reply.status # 200 THEN [ok |-> FALSE]
    ELSE [ok |-> TRUE, token |-> OpenAiToken(reply, FirstKnown(<<reply.refresh, current.refresh>>), now, current.account)]

\* Under the lock of the provider: the token is renewed, saved, and only then used.
current_token(provider, file, now, reply, writable) ==
    LET refreshed == refresh_access_token(provider.token, reply, now)
        Failed == [ok |-> FALSE, provider |-> provider, file |-> file]
    IN IF ~needs_refresh(provider.token, now)
       THEN [ok |-> TRUE, provider |-> provider, file |-> file]
       ELSE IF ~refreshed.ok THEN Failed
       ELSE LET saved == write_auth_file(file, "openai", refreshed.token, writable)
            IN IF ~saved.ok THEN Failed
               ELSE [ok |-> TRUE, provider |-> [provider EXCEPT !.token = refreshed.token], file |-> saved.file]

\* A provider is built from what the file holds, and never reads it again.
OpenAiProvider(file) ==
    LET loaded == load_entry(file, "openai")
    IN IF loaded.status = "some" THEN [ok |-> TRUE, provider |-> [token |-> loaded.token]] ELSE [ok |-> FALSE]

login_openai_oauth(file, reply, now, writable) ==
    IF reply.status # 200 \/ reply.refresh = None THEN [ok |-> FALSE, file |-> file]
    ELSE write_auth_file(file, "openai", OpenAiToken(reply, reply.refresh, now, None), writable)

-----------------------------------------------------------------------------
(* The token of copilot: that of GitHub, and the one it is exchanged for.  *)

CopilotMargin == 120
NoCopilot == [github |-> None, github_expires |-> 0, access |-> None, expires |-> 0, base |-> None]

from_github_token(token) == [NoCopilot EXCEPT !.github = token]

cached_copilot_token(stored, now) ==
    IF stored.access = None \/ stored.expires = 0 \/ now + CopilotMargin >= stored.expires THEN {}
    ELSE {[access |-> stored.access, base |-> FirstKnown(<<stored.base, "default">>)]}

has_refreshable_github_token(stored, now) ==
    stored.github # None /\ (stored.github_expires = 0 \/ now + CopilotMargin < stored.github_expires)

\* The address a token names itself is used unless the settings name one.
resolve_copilot_api_base_url(override, named) == FirstKnown(<<override, named, "default">>)

CopilotStored(file) ==
    LET loaded == load_entry(file, "copilot") IN IF loaded.status = "some" THEN loaded.token ELSE NoCopilot

CopilotProvider(auth, file, now) ==
    LET stored == CopilotStored(file)
    IN IF load_entry(file, "copilot").status = "error" THEN [ok |-> FALSE]
       ELSE IF auth.direct = None /\ auth.github = None /\ stored.github = None
               /\ cached_copilot_token(stored, now) = {}
       THEN [ok |-> FALSE]
       ELSE [ok |-> TRUE, stored |-> stored]

exchange_copilot_token(reply) ==
    IF reply.status # 200 THEN {} ELSE {[access |-> reply.token, expires |-> reply.expires_at, named |-> reply.named]}

\* A token given by hand is used as it is, then the cached one, then an exchange. An
\* exchanged token is kept in memory even when it cannot be saved, which is an error.
current_copilot_token(auth, stored, file, now, reply, writable) ==
    LET cached == cached_copilot_token(stored, now)
        github == FirstKnown(<<auth.github, stored.github>>)
        Answer(ok, token, s, f) == [ok |-> ok, token |-> token, stored |-> s, file |-> f]
        NoToken == [access |-> None, base |-> None]
    IN IF auth.direct # None
       THEN Answer(TRUE, [access |-> auth.direct, base |-> resolve_copilot_api_base_url(auth.base, auth.named)], stored, file)
       ELSE IF cached # {}
       THEN LET token == CHOOSE t \in cached : TRUE
            IN Answer(TRUE, [token EXCEPT !.base = FirstKnown(<<auth.base, @>>)], stored, file)
       ELSE IF github = None \/ exchange_copilot_token(reply) = {} THEN Answer(FALSE, NoToken, stored, file)
       ELSE LET new == CHOOSE t \in exchange_copilot_token(reply) : TRUE
                base == resolve_copilot_api_base_url(auth.base, new.named)
                kept == [stored EXCEPT !.access = new.access, !.expires = new.expires, !.base = base]
                saved == write_auth_file(file, "copilot", kept, writable)
            IN IF saved.ok THEN Answer(TRUE, [access |-> new.access, base |-> base], kept, saved.file)
               ELSE Answer(FALSE, NoToken, kept, file)

\* The new login forgets the token that was cached for the old one.
login_copilot(file, given, configured, polled, writable) ==
    LET github == FirstKnown(<<given, configured, polled>>)
    IN IF github = None THEN [ok |-> FALSE, file |-> file]
       ELSE write_auth_file(file, "copilot", from_github_token(github), writable)

-----------------------------------------------------------------------------
(* The token of an OIDC device.                                            *)

OidcToken(reply, issuer, previous_refresh, now) ==
    LET refresh == FirstKnown(<<reply.refresh, previous_refresh>>)
    IN IF refresh = None THEN {}
       ELSE {[access |-> reply.access, refresh |-> refresh, issuer |-> issuer,
              expires |-> now + (IF reply.expires_in = 0 THEN 300 ELSE reply.expires_in)]}

refresh_oidc_token(token, reply, now) ==
    IF reply.status # 200 THEN {} ELSE OidcToken(reply, token.issuer, token.refresh, now)

login_oidc_device(file, reply, issuer, now, writable) ==
    LET token == IF reply.status = 200 THEN OidcToken(reply, issuer, None, now) ELSE {}
    IN IF token = {} THEN [ok |-> FALSE, file |-> file]
       ELSE write_auth_file(file, "oidc", CHOOSE t \in token : TRUE, writable)

-----------------------------------------------------------------------------
(* Waiting for the user to allow a device. The service's answers are taken *)
(* in turn; the times of the polls are kept with how the waiting ends.     *)

PollingSafetyMargin == 3
AtLeastOne(n) == IF n = 0 THEN 1 ELSE n

poll_token_once(reply) ==
    CASE reply = "200"                   -> "token"
      [] reply = "authorization_pending" -> "pending"
      [] reply = "slow_down"             -> "slow_down"
      [] reply = "access_denied"         -> "denied"
      [] reply = "expired_token"         -> "expired"
      [] OTHER                           -> "failed"

RECURSIVE Wait(_, _, _, _)
Wait(outcomes, timeout, interval, elapsed) ==
    IF elapsed >= timeout THEN [end |-> "timed out", polls |-> <<>>]
    ELSE IF outcomes = <<>> THEN [end |-> "waiting", polls |-> <<>>]
    ELSE IF Head(outcomes) \notin {"pending", "slow_down"}
    THEN [end |-> Head(outcomes), polls |-> <<elapsed>>]
    ELSE LET next == IF Head(outcomes) = "slow_down" THEN interval + 5 ELSE interval
             rest == Wait(Tail(outcomes), timeout, next, elapsed + next)
         IN [rest EXCEPT !.polls = <<elapsed>> \o @]

poll_oidc_device(replies, interval, expires_in, timeout) ==
    Wait([i \in DOMAIN replies |-> poll_token_once(replies[i])],
         Min({timeout, AtLeastOne(expires_in)}), AtLeastOne(interval) + PollingSafetyMargin, 0)

\* Every answer that forbids, or does not find, is a device not allowed yet.
poll_device_authorization(replies, interval, timeout) ==
    Wait([i \in DOMAIN replies |->
             CASE replies[i] = "200" -> "token" [] replies[i] \in {"403", "404"} -> "pending" [] OTHER -> "failed"],
         timeout, AtLeastOne(interval) + PollingSafetyMargin, 0)

poll_github_device_authorization(replies, interval, expires_in, timeout) ==
    Wait([i \in DOMAIN replies |-> poll_token_once(replies[i])],
         Min({timeout, AtLeastOne(expires_in)}), AtLeastOne(interval), 0)

-----------------------------------------------------------------------------
(* What the command says.                                                  *)

\* Options of another provider are refused before anything is asked.
LoginRefused(provider, options) ==
    CASE provider = "openai-oauth" -> options \cap {"github-token", "client-id", "issuer"} # {}
      [] provider = "copilot"      -> "issuer" \in options
      [] provider = "oidc-device"  -> "github-token" \in options \/ ~({"issuer", "client-id"} \subseteq options)

\* What "status" says of the logins, until an entry that cannot be read.
CopilotStatus(file, now) ==
    LET stored == CopilotStored(file)
    IN IF load_entry(file, "copilot").status = None THEN "out"
       ELSE IF has_refreshable_github_token(stored, now) THEN "in"
       ELSE IF cached_copilot_token(stored, now) # {} THEN "cached" ELSE "out"

status(file, now) ==
    LET said == <<[of |-> "openai", is |-> IF load_entry(file, "openai").status = "some" THEN "in" ELSE "out"],
                  [of |-> "copilot", is |-> CopilotStatus(file, now)],
                  [of |-> "oidc", is |-> IF load_entry(file, "oidc").status = "some" THEN "in" ELSE "out"]>>
        broken == {i \in DOMAIN said : load_entry(file, said[i].of).status = "error"}
    IN IF broken = {} THEN said ELSE SubSeq(said, 1, Min(broken) - 1)
===============================================================================
