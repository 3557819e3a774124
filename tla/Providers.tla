------------------------------- MODULE Providers -------------------------------
(***************************************************************************)
(* The LLM providers and the embedders (the crate ai-memory-llm): how one  *)
(* is built, what it asks of its service, and what it makes of an answer.  *)
(*                                                                         *)
(* The answer of a service is [status, chunks, parsed, body]: the sizes of *)
(* the chunks it comes in, whether it has the shape that is read, and the  *)
(* value read. A result is [ok, value] or [ok, error, status]. A JSON      *)
(* value is [kind, fields], [kind, items] or [kind, text]. A model is the  *)
(* family its name begins with, and None is what is missing.               *)
(***************************************************************************)
EXTENDS Naturals, Sequences, FiniteSets, FiniteSetsExt, SequencesExt, Functions, Credentials

Done(value) == [ok |-> TRUE, value |-> value]
Failed(error, code) == [ok |-> FALSE, error |-> error, status |-> code]

-----------------------------------------------------------------------------
(* The factory.                                                            *)

auth_requirement(provider) ==
    CASE provider = "openai-compat"   -> "optional"
      [] provider = "openai-oauth"    -> "openai-oauth"
      [] provider = "copilot"         -> "copilot"
      [] provider = "anthropic-oauth" -> "anthropic-oauth"
      [] OTHER                        -> "required"

Native(provider, config, base) ==
    [provider |-> provider, model |-> config.model, key |-> config.auth.value, base |-> base,
     dialect |-> "official", strict |-> FALSE]

\* The compatible provider has a base address and may lack a key.
OpenAiCompatProvider(config, base) ==
    [Native("openai-compat", config, base) EXCEPT !.dialect = "compat",
        !.key = FirstKnown(<<optional_api_key(config.auth), "dummy">>)]

OpenCodeProvider(config) == [OpenAiCompatProvider(config, "zen") EXCEPT !.provider = "opencode"]

build_provider(config) ==
    LET p == config.provider
        NeedsKey(built) == IF require_api_key(config.auth) THEN Done(built) ELSE Failed("auth", 0)
        NeedsToken(kind, built) == IF require_token(config.auth, kind) THEN Done(built) ELSE Failed("auth", 0)
    IN CASE p = "openai-compat" /\ config.base = None -> Failed("not_configured", 0)
         [] p = "openai-compat" -> Done([OpenAiCompatProvider(config, config.base) EXCEPT !.strict = config.strict])
         [] p = "opencode"        -> NeedsKey(OpenCodeProvider(config))
         [] p = "anthropic-oauth" -> NeedsToken(p, Native(p, config, FirstKnown(<<config.base, "own">>)))
         [] p \in {"openai-oauth", "copilot"} -> NeedsToken(p, Native(p, config, "own"))
         [] OTHER                 -> NeedsKey(Native(p, config, "own"))

default_embedding_dim(provider, model) ==
    CASE provider = "openai" /\ model = "text-embedding-3-large" -> 3072
      [] provider = "openai" -> 1536
      [] provider = "voyage" -> 1024
      [] provider = "google" -> 768

build_embedder(config) ==
    [provider |-> config.provider, model |-> config.model, dim |-> config.dim,
     base |-> FirstKnown(<<config.base, "own">>)]

-----------------------------------------------------------------------------
(* Reading an answer.                                                      *)

MAX_PROVIDER_RESPONSE_BYTES == 16777216

response_bytes_limited(resp, max) ==
    IF FoldSeq(LAMBDA a, b : a + b, 0, resp.chunks) > max THEN Failed("provider", resp.status) ELSE Done(resp.body)

response_json_limited(resp) ==
    LET bytes == response_bytes_limited(resp, MAX_PROVIDER_RESPONSE_BYTES)
    IN IF bytes.ok /\ ~resp.parsed THEN Failed("serde", 0) ELSE bytes

post(resp) ==
    IF resp.status \in 200..299 THEN response_json_limited(resp) ELSE Failed("provider", resp.status)

\* A result read further: an error stays what it is.
Then(result, next) == IF result.ok THEN next ELSE result

\* The text of the first choice; what lacks it is an empty text.
FirstChoice(body) == IF body.choices = <<>> THEN None ELSE Head(body.choices)

complete(resp) ==
    LET reply == post(resp)
    IN Then(reply, Done([text |-> FirstChoice(reply.value), usage |-> reply.value.usage]))

-----------------------------------------------------------------------------
(* What is asked of a service of OpenAI's kind. A schema names an object   *)
(* strictly when every property is required and no other is allowed.       *)

Object(fields) == [kind |-> "object", fields |-> fields]
List(items) == [kind |-> "array", items |-> items]
Word(text) == [kind |-> "text", text |-> text]
Without(f, keys) == [k \in DOMAIN f \ keys |-> f[k]]
Has(f, key, text) == key \in DOMAIN f /\ f[key] = Word(text)

StrictFields(fields) ==
    LET moved == IF "oneOf" \notin DOMAIN fields THEN fields
                 ELSE [k \in (DOMAIN fields \ {"oneOf"}) \cup {"anyOf"} |->
                          IF k = "anyOf" THEN fields["oneOf"] ELSE fields[k]]
        named == "properties" \in DOMAIN moved
        added == (IF Has(moved, "type", "object") \/ named THEN {"additionalProperties"} ELSE {})
                     \cup (IF named /\ moved["properties"].kind = "object" THEN {"required"} ELSE {})
        Keys == DOMAIN moved["properties"].fields
    IN [k \in DOMAIN moved \cup added |->
           CASE k = "additionalProperties" /\ k \in added -> Word("false")
             [] k = "required" /\ k \in added -> List(SetToSeq({Word(p) : p \in Keys}))
             [] OTHER -> moved[k]]

RECURSIVE enforce_strict_object_schemas(_)
enforce_strict_object_schemas(value) ==
    CASE value.kind = "array" ->
             List([i \in DOMAIN value.items |-> enforce_strict_object_schemas(value.items[i])])
      [] value.kind = "object" /\ "$ref" \in DOMAIN value.fields ->
             Object([k \in {"$ref"} |-> value.fields[k]])
      [] value.kind = "object" ->
             LET fields == StrictFields(value.fields)
             IN Object([k \in DOMAIN fields |-> enforce_strict_object_schemas(fields[k])])
      [] OTHER -> value

model_requires_max_completion_tokens(model) == model \in {"gpt-5", "o1", "o3", "o4"}

model_uses_default_temperature(model) == model \in {"gpt-5", "o1", "o3", "o4", "o-other"}

build_request(provider, request, schema) ==
    LET official == provider.dialect = "official"
        reasons == official /\ model_requires_max_completion_tokens(provider.model)
        capped == IF official /\ ~reasons THEN Min({request.max_tokens, 16384}) ELSE request.max_tokens
        system == IF request.system = None THEN <<>> ELSE <<[role |-> "system", content |-> request.system]>>
    IN [messages |-> system \o request.messages,
        max_tokens |-> IF reasons THEN 0 ELSE capped,
        max_completion_tokens |-> IF reasons THEN capped ELSE 0,
        temperature |-> IF reasons THEN None ELSE request.temperature,
        schema |-> IF official THEN {enforce_strict_object_schemas(s) : s \in schema} ELSE schema]

CopilotChatRequest(model, request, schema) ==
    LET system == IF request.system = None THEN <<>> ELSE <<[role |-> "system", content |-> request.system]>>
    IN [messages |-> system \o request.messages, max_tokens |-> request.max_tokens, max_completion_tokens |-> 0,
        temperature |-> IF model_uses_default_temperature(model) THEN None ELSE request.temperature,
        schema |-> {enforce_strict_object_schemas(s) : s \in schema}]

CodexRequest(model, request, schema) ==
    [CopilotChatRequest(model, [request EXCEPT !.system = None], schema) EXCEPT !.max_tokens = 0]

-----------------------------------------------------------------------------
(* A structured answer. A text is a sequence of tokens, "q" being the      *)
(* quote; json maps the texts that are JSON to their values.               *)

from_str(text, json) == IF text \in DOMAIN json THEN Done(json[text]) ELSE Failed("serde", 0)

StructuredText(resp, json) ==
    LET reply == complete(resp)
    IN Then(reply, from_str(IF reply.value.text = None THEN <<>> ELSE reply.value.text, json))

\* Blocks of reasoning are taken out, each up to the first end after its start; then a
\* fence around all that is left.
RECURSIVE WithoutReasoning(_)
WithoutReasoning(text) ==
    LET Blocks == {b \in (1..Len(text)) \X (1..Len(text)) :
                      b[1] < b[2] /\ text[b[1]] = "<think>" /\ text[b[2]] = "</think>"}
    IN IF Blocks = {} THEN text
       ELSE LET start == Min({b[1] : b \in Blocks})
                end == Min({b[2] : b \in {c \in Blocks : c[1] = start}})
            IN SubSeq(text, 1, start - 1) \o WithoutReasoning(SubSeq(text, end + 1, Len(text)))

strip_reasoning_blocks(text) ==
    LET plain == WithoutReasoning(text)
        inner == {i \in 2..Len(plain) : plain[i] = "fence"}
    IN IF plain # <<>> /\ plain[1] = "fence" /\ Len(plain) \in inner
       THEN SubSeq(plain, 2, Len(plain) - 1) ELSE plain

\* The text from the first brace to the one that closes it, braces in strings not counted.
first_json_object(text) ==
    LET Step(at, c) ==
            CASE at.depth = 0 /\ (at.found \/ c # "{") -> at
              [] at.string /\ at.escape -> [at EXCEPT !.escape = FALSE, !.slice = Append(@, c)]
              [] at.string -> [at EXCEPT !.escape = (c = "\\"), !.string = (c # "q"), !.slice = Append(@, c)]
              [] OTHER -> [at EXCEPT !.string = (c = "q"), !.found = TRUE, !.slice = Append(@, c),
                                     !.depth = CASE c = "{" -> @ + 1 [] c = "}" -> @ - 1 [] OTHER -> @]
        last == FoldLeft(Step, [depth |-> 0, string |-> FALSE, escape |-> FALSE, found |-> FALSE, slice |-> <<>>], text)
    IN IF last.found /\ last.depth = 0 THEN {last.slice} ELSE {}

IsObject(result) == result.ok /\ result.value.kind = "object"
is_parse_shape_error(result) == ~result.ok /\ result.error \in {"shape", "serde"}

Tolerant(resp, json) ==
    LET reply == complete(resp)
        cleaned == strip_reasoning_blocks(IF reply.value.text = None THEN <<>> ELSE reply.value.text)
        whole == from_str(cleaned, json)
        slices == first_json_object(cleaned)
    IN CASE ~reply.ok       -> reply
         [] IsObject(whole) -> whole
         [] slices = {}     -> Failed("shape", 0)
         [] OTHER           -> from_str(CHOOSE s \in slices : TRUE, json)

\* The strict form is asked for first, and the other one only when what came is no object.
complete_structured_compat(strict, first, second, json) ==
    LET asked == StructuredText(first, json)
    IN CASE ~strict -> [asks |-> 1, result |-> Tolerant(first, json)]
         [] IsObject(asked) \/ (~asked.ok /\ ~is_parse_shape_error(asked)) -> [asks |-> 1, result |-> asked]
         [] OTHER -> [asks |-> 2, result |-> Tolerant(second, json)]

-----------------------------------------------------------------------------
(* Anthropic: blocks of text, or the use of the tool that was forced.      *)

auth_headers(provider) == IF provider = "anthropic-oauth" THEN {"authorization", "anthropic-beta"} ELSE {"x-api-key"}

AnthropicComplete(resp) ==
    LET reply == post(resp)
        texts == SelectSeq(reply.value.content, LAMBDA c : c.kind = "text")
    IN Then(reply, Done([i \in DOMAIN texts |-> texts[i].value]))

AnthropicStructured(resp) ==
    LET reply == post(resp)
        tools == SelectSeq(reply.value.content, LAMBDA c : c.kind = "tool_use")
    IN Then(reply, IF tools = <<>> THEN Failed("shape", 0) ELSE Done(Head(tools).value))

-----------------------------------------------------------------------------
(* Gemini takes no references, few keywords and one type.                  *)

MAX_REF_DEPTH == 16

\* The definitions of both names, those of the second over those of the first.
extract_defs(schema) ==
    LET Of(key) == IF schema.kind = "object" /\ key \in DOMAIN schema.fields /\ schema.fields[key].kind = "object"
                   THEN schema.fields[key].fields ELSE <<>>
    IN [k \in DOMAIN Of("$defs") \cup DOMAIN Of("definitions") |->
           IF k \in DOMAIN Of("definitions") THEN Of("definitions")[k] ELSE Of("$defs")[k]]

\* The depth counts every step into the schema, not the references alone.
RECURSIVE inline_refs(_, _, _)
inline_refs(value, defs, depth) ==
    LET Whole(kids, built) == IF \A k \in DOMAIN kids : kids[k].ok THEN Done(built) ELSE Failed("schema", 0)
        Down(v) == inline_refs(v, defs, depth + 1)
    IN CASE depth > MAX_REF_DEPTH -> Failed("schema", 0)
         [] value.kind = "array" ->
                LET kids == [i \in DOMAIN value.items |-> Down(value.items[i])]
                IN Whole(kids, List([i \in DOMAIN kids |-> kids[i].value]))
         [] value.kind = "object" /\ "$ref" \in DOMAIN value.fields /\ value.fields["$ref"].kind = "text" ->
                LET name == value.fields["$ref"].text
                IN IF name \in DOMAIN defs THEN Down(defs[name]) ELSE Failed("schema", 0)
         [] value.kind = "object" ->
                LET kids == [k \in DOMAIN value.fields |-> Down(value.fields[k])]
                IN Whole(kids, Object([k \in DOMAIN kids |-> kids[k].value]))
         [] OTHER -> Done(value)

UNSUPPORTED_KEYS ==
    {"$schema", "$id", "$comment", "$defs", "definitions", "additionalProperties", "unevaluatedProperties", "allOf",
     "oneOf", "const", "default", "examples", "patternProperties", "readOnly", "writeOnly"}

RECURSIVE strip_unsupported(_)
strip_unsupported(value) ==
    CASE value.kind = "object" ->
             LET kept == Without(value.fields, UNSUPPORTED_KEYS)
             IN Object([k \in DOMAIN kept |-> strip_unsupported(kept[k])])
      [] value.kind = "array" -> List([i \in DOMAIN value.items |-> strip_unsupported(value.items[i])])
      [] OTHER -> value

\* A list of types is one type, or any of several, that may also be null.
OneType(fields) ==
    IF "type" \notin DOMAIN fields \/ fields["type"].kind # "array" THEN fields
    ELSE LET types == SelectSeq(fields["type"].items, LAMBDA t : t.kind = "text")
             real == SelectSeq(types, LAMBDA t : t # Word("null"))
             null == Len(real) < Len(types)
             any == List([i \in DOMAIN real |-> Object([k \in {"type"} |-> real[i]])])
             keys == (DOMAIN fields \ (IF Len(real) = 1 THEN {} ELSE {"type"}))
                         \cup (IF Len(real) > 1 THEN {"anyOf"} ELSE {}) \cup (IF null THEN {"nullable"} ELSE {})
         IN [k \in keys |-> CASE k = "type" -> real[1]
                              [] k = "nullable" /\ null -> Word("true")
                              [] k = "anyOf" /\ Len(real) > 1 -> any
                              [] OTHER -> fields[k]]

RECURSIVE normalize_nullable_types(_)
normalize_nullable_types(value) ==
    CASE value.kind = "object" ->
             LET fields == OneType(value.fields)
             IN Object([k \in DOMAIN fields |-> normalize_nullable_types(fields[k])])
      [] value.kind = "array" -> List([i \in DOMAIN value.items |-> normalize_nullable_types(value.items[i])])
      [] OTHER -> value

prepare_schema_for_gemini(schema) ==
    LET bare == IF schema.kind = "object" THEN Object(Without(schema.fields, {"$defs", "definitions"})) ELSE schema
        inlined == inline_refs(bare, extract_defs(schema), 0)
    IN Then(inlined, Done(normalize_nullable_types(strip_unsupported(inlined.value))))

GeminiRequest(model, request, schema) ==
    [contents |-> [i \in DOMAIN request.messages |->
                      [request.messages[i] EXCEPT !.role = IF @ = "assistant" THEN "model" ELSE @]],
     system |-> request.system, max_tokens |-> request.max_tokens, temperature |-> request.temperature,
     thinking |-> IF model = "gemini-2.5-flash" THEN "off" ELSE None, schema |-> schema]

\* The parts of the first candidate, joined.
first_text(body) ==
    IF body.candidates = <<>> THEN <<>>
    ELSE FlattenSeq(SelectSeq(Head(body.candidates), LAMBDA part : part # <<>>))

GeminiStructured(schema, resp, json) ==
    LET prepared == prepare_schema_for_gemini(schema)
        reply == post(resp)
    IN CASE ~prepared.ok -> prepared
         [] ~reply.ok -> reply
         [] first_text(reply.value) = <<>> -> Failed("shape", 0)
         [] OTHER -> from_str(first_text(reply.value), json)

-----------------------------------------------------------------------------
(* The stream of openai-oauth: lines [kind, name, of, part, value]. A      *)
(* value that is split is the data of several lines, and is read when all  *)
(* of its lines are there.                                                 *)

Joined(lines) ==
    IF /\ Len(lines) = Head(lines).of
       /\ \A i \in DOMAIN lines : lines[i].part = i /\ lines[i].value = Head(lines).value
    THEN Head(lines).value ELSE [kind |-> "broken"]

\* An event is read when its blank line comes, or the stream ends.
flush_event(at) ==
    LET lines == at.data
        value == Joined(lines)
        kind == FirstKnown(<<value.type, at.event>>)
        read == [at EXCEPT !.data = <<>>, !.event = None]
        Bad(error, code) == [read EXCEPT !.failed = {Failed(error, code)}]
    IN CASE lines = <<>> -> read
         [] value.kind = "empty"  -> read
         [] value.kind = "broken" -> Bad("serde", 0)
         [] value.error -> Bad("provider", 502)
         [] kind = "delta" -> [read EXCEPT !.text = @ \o value.text]
         [] kind = "completed" /\ ~value.valid -> Bad("serde", 0)
         [] kind = "completed" -> [read EXCEPT !.completed = {value.response}]
         [] kind \in {"failed", "incomplete", "cancelled", "error"} -> Bad("provider", 502)
         [] OTHER -> read

parse_sse_response(lines) ==
    LET Step(at, line) ==
            CASE at.failed # {}        -> at
              [] line.kind = "blank"   -> flush_event(at)
              [] line.kind = "event"   -> [at EXCEPT !.event = line.name]
              [] line.kind = "data"    -> [at EXCEPT !.data = Append(@, line)]
              [] OTHER                 -> at
        read == FoldLeft(Step, [event |-> None, data |-> <<>>, text |-> <<>>, completed |-> {}, failed |-> {}], lines)
        end == IF read.failed = {} THEN flush_event(read) ELSE read
        cut == read.failed = {} /\ read.completed = {}
    IN CASE end.failed # {} -> LET f == CHOOSE e \in end.failed : TRUE
                               IN IF cut /\ f.error = "serde" THEN Failed("shape", 0) ELSE f
         [] end.completed = {} -> Failed("shape", 0)
         [] OTHER -> LET response == CHOOSE r \in end.completed : TRUE
                     IN Done(IF response.output_text = <<>> /\ end.text # <<>>
                             THEN [response EXCEPT !.output_text = end.text] ELSE response)

extract_output_text(response) ==
    LET texts == SelectSeq(<<response.output_text>> \o response.output, LAMBDA t : t # <<>>)
    IN IF texts = <<>> THEN <<>> ELSE Head(texts)

-----------------------------------------------------------------------------
(* The embedders. A vector is a sequence of numbers, and what is not a     *)
(* number in one is None; what embedders answer is scaled to one length,   *)
(* which is left out here. Replies come in the order of the attempts.      *)

MaxRetries == 5

\* An attempt that was told to slow down is made again, five times.
AnsweredAt(replies) ==
    Min({i \in 1..(MaxRetries + 1) : i = MaxRetries + 1 \/ replies[i].status # 429})

Delays(replies) == [i \in 1..(AnsweredAt(replies) - 1) |-> 2^i]

Measured(values, dim) == IF Len(values) = dim THEN Done(values) ELSE Failed("shape", 0)

\* The body that is read for its vector may hold an error although the status is good.
parse_openai_embedding_values(body, code) ==
    CASE body.kind # "json" -> Failed("provider", code)
      [] body.error         -> Failed("provider", code)
      [] body.data = <<>>   -> Failed("provider", code)
      [] ~Head(body.data).list -> Failed("provider", code)
      [] \E i \in DOMAIN Head(body.data).embedding : ~Head(body.data).embedding[i].number -> Failed("provider", code)
      [] OTHER              -> Done(Head(body.data).embedding)

OpenAiEmbed(replies, dim) ==
    LET resp == replies[AnsweredAt(replies)]
        bytes == response_bytes_limited(resp, MAX_PROVIDER_RESPONSE_BYTES)
        values == parse_openai_embedding_values(bytes.value, resp.status)
    IN CASE resp.status \notin 200..299 -> Failed("provider", resp.status)
         [] ~bytes.ok -> bytes
         [] OTHER     -> Then(values, Measured(values.value, dim))

VoyageEmbed(resp, dim) ==
    LET reply == post(resp)
    IN Then(reply, IF reply.value.data = <<>> THEN Failed("shape", 0)
                   ELSE Measured(Head(reply.value.data).embedding, dim))

GoogleEmbed(replies, dim) ==
    LET reply == post(replies[AnsweredAt(replies)])
    IN Then(reply, Measured(reply.value.values, dim))

\* What the embedder of Google sends: the second model is told the task in the text.
GoogleEmbedder(model, task) ==
    IF model = "embedding-2" THEN [prefix |-> task, task_type |-> None] ELSE [prefix |-> None, task_type |-> task]

SyntheticEmbed(words, dim) == [i \in 0..(dim - 1) |-> Cardinality({w \in DOMAIN words : words[w] % dim = i})]

-----------------------------------------------------------------------------
(* Texts cut to a number of bytes: a text is the widths of its characters. *)

Bytes(text) == FoldSeq(LAMBDA a, b : a + b, 0, text)

truncate_with_ellipsis(text, max) ==
    IF Bytes(text) <= max THEN text
    ELSE Append(SubSeq(text, 1, CHOOSE n \in 0..Len(text) :
             /\ Bytes(SubSeq(text, 1, n)) <= max
             /\ n = Len(text) \/ Bytes(SubSeq(text, 1, n + 1)) > max), 3)

suffix_within_bytes(text, max) ==
    LET from == Min({i \in 1..Len(text) : Bytes(SubSeq(text, i, Len(text))) <= max} \cup {Len(text) + 1})
    IN SubSeq(text, from, Len(text))

truncate_for_embedding(text, max_tokens, hard_max) ==
    LET max == Min({3 * max_tokens, hard_max})
    IN CASE Bytes(text) <= max -> text
         [] max <= 3           -> <<>>
         [] OTHER              -> truncate_with_ellipsis(text, max - 3)

-----------------------------------------------------------------------------
(* The health that is kept of a provider, and of the embedder.             *)

Disabled == [status |-> "disabled", call |-> 0, success |-> 0, error |-> 0, code |-> 0, hint |-> None]

configure(hint) == [Disabled EXCEPT !.status = "unknown", !.hint = hint]

record_success(health, now) ==
    [health EXCEPT !.status = "ok", !.call = now, !.success = now, !.error = 0, !.code = 0]

error_status(result) == IF result.error \in {"http", "provider"} THEN result.status ELSE 0

record_error(health, result, now) ==
    [health EXCEPT !.status = "error", !.call = now, !.error = now, !.code = error_status(result)]

record_result(health, result, now) ==
    IF result.ok THEN record_success(health, now) ELSE record_error(health, result, now)

snapshot(health) == IF health.status = "error" THEN health ELSE [health EXCEPT !.hint = None]
===============================================================================
