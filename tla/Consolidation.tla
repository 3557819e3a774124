----------------------------- MODULE Consolidation -----------------------------
(***************************************************************************)
(* The crate ai-memory-consolidate: what becomes of a session's            *)
(* observations, and of the wiki as it ages. The projection of             *)
(* observations for a prompt (projection.rs), the pages an LLM compiles    *)
(* from it (consolidator.rs), the lint of the wiki (lint.rs), the          *)
(* curator's report (curator.rs), the first filling of a wiki              *)
(* (bootstrap.rs) and the patches of pages (auto_improve.rs).              *)
(*                                                                         *)
(* An observation is [kind, importance, signal, code, setup, title, body]; *)
(* title and body are their lengths. A text is a sequence of pieces        *)
(* [is, of, size], of being the observation of a body; paths are           *)
(* <<directory, name>>. Constants of the code that are only sizes are      *)
(* fields of cfg.                                                          *)
(***************************************************************************)
EXTENDS Integers, Sequences, FiniteSets, FiniteSetsExt, SequencesExt, Naturals

Piece(is, size) == [is |-> is, of |-> 0, size |-> size]
RECURSIVE Size(_)
Size(text) == IF text = <<>> THEN 0 ELSE Head(text).size + Size(Tail(text))

\* The first n characters; a piece that is cut is no longer the whole of what it was.
RECURSIVE Take(_, _)
Take(text, n) ==
    IF text = <<>> \/ n = 0 THEN <<>>
    ELSE IF Head(text).size <= n THEN <<Head(text)>> \o Take(Tail(text), n - Head(text).size)
    ELSE <<Piece("cut", n)>>

cap_text_with_marker(piece, max, marker) ==
    IF piece.size <= max THEN <<piece>> ELSE <<Piece("cut", max), Piece("marker", marker)>>

-----------------------------------------------------------------------------
(* The projection.                                                         *)

recency_score(i, total, cfg) == IF total <= 1 THEN 0 ELSE ((i - 1) * cfg.recency) \div (total - 1)

KindScore ==
    [UserPrompt |-> 100, SessionEnd |-> 95, PreCompact |-> 90, PostCompaction |-> 85, Stop |-> 55,
     PostToolUse |-> 30, Notification |-> 25, SessionStart |-> 20, Other |-> 15, PreToolUse |-> 5]

is_hard_anchor(i, total) == i = 1 \/ i = total

observation_score(obs, i, cfg) ==
    LET o == obs[i]
        If(condition, score) == IF condition THEN score ELSE 0
    IN o.importance + recency_score(i, Len(obs), cfg) + KindScore[o.kind] + If(is_hard_anchor(i, Len(obs)), 100)
         + If(o.signal, 45) + If(o.importance >= 9, 45) + If(o.code, 8) - If(o.setup, 80)

even_sample_indices(total, cfg) ==
    IF total <= 1 THEN 1..total
    ELSE LET buckets == Min({cfg.buckets, total})
         IN {((b * (total - 1)) \div Max({buckets - 1, 1})) + 1 : b \in 0..(buckets - 1)}

select_observation_indices(obs, limit, cfg) ==
    LET total == Len(obs)
        even == even_sample_indices(total, cfg)
        Score(i) == observation_score(obs, i, cfg) + (IF i \in even THEN cfg.even ELSE 0)
        Better(i, j) == Score(i) > Score(j) \/ (Score(i) = Score(j) /\ i > j)
        others == (1..total) \ {1, total}
    IN IF total <= limit THEN 1..total
       ELSE IF limit = 1 THEN {total}
       ELSE {1, total} \cup {i \in others : Cardinality({j \in others : Better(j, i)}) < limit - 2}

\* The bonus of evenly spread observations counts when selecting, not when pruning.
lowest_prunable_index(obs, selected, cfg) ==
    LET prunable == {i \in selected : ~is_hard_anchor(i, Len(obs))}
        Score(i) == observation_score(obs, i, cfg)
    IN {i \in prunable : \A j \in prunable \ {i} : Score(i) < Score(j) \/ (Score(i) = Score(j) /\ i < j)}

excerpt_body(size, max) == [size |-> Min({size, max}), truncated |-> size > max]

render_projection(obs, selected, cfg) ==
    LET order == SetToSortSeq(selected, LAMBDA i, j : i < j)
        One(i) ==
            LET body == excerpt_body(obs[i].body, cfg.body)
            IN <<Piece("header", cfg.header)>> \o cap_text_with_marker(Piece("title", obs[i].title), cfg.title, cfg.marker)
                 \o <<[is |-> IF body.truncated THEN "cut" ELSE "body", of |-> i, size |-> body.size]>>
                 \o IF body.truncated THEN <<Piece("marker", cfg.marker)>> ELSE <<>>
    IN [text |-> FlattenSeq([k \in DOMAIN order |-> One(order[k])]),
        truncated |-> {i \in selected : excerpt_body(obs[i].body, cfg.body).truncated}]

fit_text_to_budget(text, max, marker) ==
    IF Size(text) <= max THEN text
    ELSE IF marker >= max THEN Take(<<Piece("fit", marker)>>, max)
    ELSE Take(text, max - marker) \o <<Piece("fit", marker)>>

\* What is selected when the text is pruned, one observation at a time, to its budget.
RECURSIVE Pruned(_, _, _)
Pruned(obs, selected, cfg) ==
    LET lowest == lowest_prunable_index(obs, selected, cfg)
    IN IF Size(render_projection(obs, selected, cfg).text) <= cfg.total \/ lowest = {} THEN selected
       ELSE Pruned(obs, selected \ lowest, cfg)

project_observations(obs, cfg) ==
    IF obs = <<>> THEN [text |-> <<Piece("none", 6)>>, selected |-> {}, warnings |-> {}]
    ELSE IF cfg.limit = 0 \/ cfg.total = 0
    THEN [text |-> <<Piece("no budget", cfg.marker)>>, selected |-> {}, warnings |-> {"omitted"}]
    ELSE LET selected == Pruned(obs, select_observation_indices(obs, cfg.limit, cfg), cfg)
             rendered == render_projection(obs, selected, cfg)
             omitted == Cardinality(selected) < Len(obs)
             text == rendered.text \o IF omitted THEN <<Piece("omitted", cfg.marker)>> ELSE <<>>
         IN [text |-> fit_text_to_budget(text, cfg.total, cfg.marker), selected |-> selected,
             warnings |-> {w \in {"omitted", "truncated", "exceeded"} :
                             CASE w = "omitted" -> omitted
                               [] w = "truncated" -> rendered.truncated # {}
                               [] OTHER -> Size(text) > cfg.total}]

-----------------------------------------------------------------------------
(* The requests: the body of a page is a sequence of [is: section, size].  *)

\* The first section of raw observations is left out, up to the next section.
elide_raw_observations_section(body, marker) ==
    LET raw == {i \in DOMAIN body : body[i].is = "raw"}
    IN IF raw = {} THEN body ELSE ReplaceAt(body, Min(raw), Piece("elided", marker))

clip_current_body_for_prompt(body, cfg) ==
    IF Size(body) <= cfg.current THEN body ELSE Take(body, cfg.current) \o <<Piece("marker", cfg.marker)>>

build_request(obs, body, cfg) ==
    project_observations(obs, cfg).text
        \o IF Size(body) = 0 THEN <<>>
           ELSE clip_current_body_for_prompt(elide_raw_observations_section(body, cfg.marker), cfg)

\* The slots go in with their kind, their bodies clipped.
build_batch_request_with_slots(obs, slots, cfg) ==
    [text |-> project_observations(obs, cfg).text,
     slots |-> {[path |-> s.path, kind |-> s.slot_kind, body |-> excerpt_body(Size(s.body), cfg.slot).size] : s \in slots}]

-----------------------------------------------------------------------------
(* The pages. files maps the paths of a scope to [title, body, tier,       *)
(* pinned, kind, slot_kind] where slot_kind is none if the page names none.*)

None == "none"
is_slot_path(path) == path[1] = "_slots"
slot_kind_from_frontmatter(page) == IF page.slot_kind = "invariant" THEN "invariant" ELSE "state"

LowerOf == [A |-> "a", B |-> "b", a |-> "a", b |-> "b"]

\* Titles are sequences of characters; those LowerOf does not name are neither letters nor digits.
slugify_for_rule(title, max) ==
    LET Add(out, c) == IF c \in DOMAIN LowerOf THEN Append(out, LowerOf[c])
                       ELSE IF out = <<>> \/ Last(out) = "-" THEN out ELSE Append(out, "-")
        Trimmed(s) == IF s # <<>> /\ Last(s) = "-" THEN Front(s) ELSE s
        slug == Trimmed(FoldLeft(Add, <<>>, title))
    IN IF slug = <<>> THEN <<"rule">> ELSE Trimmed(SubSeq(slug, 1, Min({max, Len(slug)})))

build_frontmatter(page) ==
    [title |-> page.title, body |-> page.body, tier |-> "episodic", pinned |-> FALSE, kind |-> None, slot_kind |-> None]

build_update(upd, cfg) ==
    LET path == IF upd.kind = "rule" THEN <<"_rules", slugify_for_rule(upd.title, cfg.slug)>> ELSE upd.path
    IN [path |-> path, valid |-> upd.kind = "rule" \/ upd.valid,
        page |-> [title |-> upd.title, body |-> upd.body, tier |-> upd.tier, pinned |-> FALSE, kind |-> upd.kind,
                  slot_kind |-> IF is_slot_path(path) THEN upd.slot_kind ELSE None]]

\* What an invariant slot holds is replaced only by what says it is one.
should_skip_high_resistance_slot_update(files, request) ==
    /\ is_slot_path(request.path) /\ request.path \in DOMAIN files
    /\ slot_kind_from_frontmatter(files[request.path]) = "invariant"
    /\ slot_kind_from_frontmatter(request.page) # "invariant"

\* rows are the slots the store knows; one whose file cannot be read is an error.
slot_snapshots(rows, files) == [ok |-> rows \subseteq DOMAIN files, slots |-> {files[p] @@ [path |-> p] : p \in rows \cap DOMAIN files}]

Put(files, path, page) == [p \in DOMAIN files \cup {path} |-> IF p = path THEN page ELSE files[p]]

\* world is [obs, sessions, default, wiki, later]: wiki holds the files of each scope when
\* the work starts, later when the LLM has answered.
Target(world, session) == IF session \in DOMAIN world.sessions THEN world.sessions[session] ELSE world.default

consolidate_session(world, session, answer, dry_run, written) ==
    LET scope == Target(world, session)
        path == <<"sessions", session>>
        End(ok, wiki) == [ok |-> ok, wiki |-> wiki]
    IN CASE world.obs = <<>> \/ ~answer.ok -> End(FALSE, world.later)
         [] ~(world.obs = <<>> \/ ~answer.ok) /\ dry_run -> End(TRUE, world.later)
         [] OTHER -> IF ~written THEN End(FALSE, world.later)
                     ELSE End(TRUE, [world.later EXCEPT ![scope] = Put(@, path, build_frontmatter(answer))])

consolidate_session_multi(world, session, rows, answer, dry_run, written, cfg) ==
    LET scope == Target(world, session)
        requests == [i \in DOMAIN answer.updates |-> build_update(answer.updates[i], cfg)]
        kept == SelectSeq(requests, LAMBDA r : ~should_skip_high_resistance_slot_update(world.later[scope], r))
        End(ok, wiki) == [ok |-> ok, wiki |-> wiki, pages |-> IF ok THEN {r.path : r \in Range(kept)} ELSE {}]
    IN IF \/ world.obs = <<>> \/ ~slot_snapshots(rows, world.wiki[scope]).ok \/ ~answer.ok
          \/ \E i \in DOMAIN requests : ~requests[i].valid
          \/ ~dry_run /\ ~written
       THEN End(FALSE, world.later)
       ELSE IF dry_run THEN End(TRUE, world.later)
       ELSE End(TRUE, [world.later EXCEPT ![scope] = FoldLeft(LAMBDA f, r : Put(f, r.path, r.page), @, kept)])

-----------------------------------------------------------------------------
(* Lint and curator. A candidate is [path, tier, pinned, age, accesses,    *)
(* title, kind, readable, cold]; kind and title are those of its           *)
(* frontmatter, and cold says that its retention score is under the        *)
(* threshold. A dangling link is [from, exists].                           *)

\* One row that is not understood fails whoever asks for the candidates.
decay_candidates(rows) == [ok |-> \A r \in rows : r.readable, pages |-> rows]

Found(kind, paths) == [kind |-> kind, pages |-> paths]
Shared(pages) == {{p.path : p \in {q \in pages : q.title = t}} : t \in {p.title : p \in pages} \ {None}}

rule_based_findings(pages, stale) ==
    {Found("stale", {p.path}) : p \in {q \in pages : q.tier = "episodic" /\ q.age > stale /\ q.accesses = 0}}
        \cup {Found("rule_suggestion", {p.path}) : p \in {q \in pages : q.kind = "rule" \/ q.path[1] = "_rules"}}
        \cup {Found("duplicate", paths) : paths \in {s \in Shared(pages) : Cardinality(s) > 1}}

\* The pages the LLM compares: the most used ones of the lasting tiers.
contradiction_pass(pages, cap) ==
    LET lasting == {p \in pages : p.tier \in {"semantic", "procedural"}}
    IN IF Cardinality(lasting) < 2 THEN {{}}
       ELSE {s \in SUBSET lasting : /\ Cardinality(s) = Min({cap, Cardinality(lasting)})
                                    /\ \A p \in s, q \in lasting \ s : p.accesses >= q.accesses}

render_markdown(findings) == [title |-> "lint", body |-> findings]
write_report_page(files, day, findings) ==
    Put(files, <<"_lint", day>>, render_markdown(findings) @@ [tier |-> "semantic", pinned |-> FALSE, kind |-> "lint-report", slot_kind |-> None])

\* llm is what the LLM finds, or ~ok; where it is not asked it finds nothing.
run_lint(rows, dangling, files, day, dry_run, use_llm, llm, cfg) ==
    LET asked == use_llm /\ contradiction_pass(rows, cfg.cluster) # {{}}
        findings == rule_based_findings(rows, cfg.stale)
                      \cup {Found("broken_link", {d.from}) : d \in dangling}
                      \cup (IF asked /\ llm.ok THEN llm.findings ELSE {})
    IN IF ~decay_candidates(rows).ok THEN [ok |-> FALSE, findings |-> {}, files |-> files]
       ELSE [ok |-> TRUE, findings |-> findings,
             files |-> IF dry_run \/ findings = {} THEN files ELSE write_report_page(files, day, findings)]

age_days(now, then) == Max({now - then, 0})

\* pages are [path, title, updated]; at most cfg.max findings of a kind are reported.
run_curator_report(rows, pages, dangling, now, cfg) ==
    LET cold == {Found("cold_episodic", {p.path}) : p \in {q \in rows : q.tier = "episodic" /\ ~q.pinned /\ q.cold}}
        shown == {p \in pages : p.path[1] # "_pending"}
        Threshold(p) == IF p.path = <<"_slots", "current-focus">> THEN cfg.focus ELSE cfg.slots
        slots == {Found("stale_slot", {p.path}) :
                    p \in {q \in shown : is_slot_path(q.path) /\ age_days(now, q.updated) > Threshold(q)}}
        titles == {Found("duplicate_title", s) : s \in {t \in Shared(shown) : Cardinality(t) > 1}}
        links == {Found("dangling_cross_project_link", {d.from}) : d \in dangling}
        Some(found) == {s \in SUBSET found : Cardinality(s) = Min({cfg.max, Cardinality(found)})}
    IN IF ~decay_candidates(rows).ok THEN [ok |-> FALSE, reports |-> {}]
       ELSE [ok |-> TRUE, reports |-> {a \cup b \cup c \cup d : a \in Some(cold), b \in Some(slots), c \in Some(titles), d \in Some(links)}]

-----------------------------------------------------------------------------
(* The first filling of a project's wiki from its repository               *)
(* (bootstrap.rs): the client collects sources and cuts them to a budget   *)
(* (ai-memory-cli/src/commands/bootstrap.rs), the server sends them to the *)
(* LLM in chunks and writes the pages it answers (ai-memory-mcp/src/       *)
(* admin.rs, handle_bootstrap).                                            *)
(*                                                                         *)
(* A source is [kind, label, text]: label is its length in bytes, text the *)
(* sequence of the widths of its characters. What is reserved for the      *)
(* prompt is a parameter where the code has the constant 1000.             *)
RECURSIVE Total(_)
Total(widths) == IF widths = <<>> THEN 0 ELSE Head(widths) + Total(Tail(widths))
Floor(a, b) == IF a > b THEN a - b ELSE 0

-----------------------------------------------------------------------------
(* The repository: a directory is a sequence of names, and repo says where *)
(* git finds one for it: [found, bare, workdir, commondir].                *)

discover_repo_root(repo) == IF repo.found /\ repo.workdir # None THEN {repo.workdir} ELSE {}

discover_main_repo_root(repo) == IF ~repo.found \/ repo.bare THEN {} ELSE {Front(repo.commondir)}

basename_with_alt_separators(path) ==
    LET names == {i \in DOMAIN path : path[i] # ""} IN IF names = {} THEN None ELSE path[Max(names)]

derive_project_name(cwd, repo, strategy) ==
    LET roots == {root \in discover_main_repo_root(repo) :
                    strategy = "MainRepoRoot" /\ basename_with_alt_separators(root) # None}
    IN IF roots # {} THEN basename_with_alt_separators(CHOOSE root \in roots : TRUE)
       ELSE basename_with_alt_separators(cwd)

\* A date, or some days, months or years ago; anything else is no limit at all.
parse_since_to_epoch(since, now) ==
    LET days == [days |-> 1, months |-> 30, year |-> 365, years |-> 365]
    IN CASE since.unit = "date" -> {since.n}
         [] since.unit \in DOMAIN days -> {now - since.n * days[since.unit]}
         [] OTHER -> {}

\* The commits from the newest on, up to the first that is too old.
collect_git_commits(commits, since) ==
    LET old == {i \in DOMAIN commits : \E epoch \in since : commits[i].time < epoch}
    IN SelectSeq(SubSeq(commits, 1, Min(old \cup {Len(commits) + 1}) - 1),
                 LAMBDA c : c.size >= 120 \/ c.conventional)

collect_readme(files) ==
    LET found == SelectSeq(<<"README.md", "README", "Readme.md", "readme.md">>, LAMBDA name : name \in DOMAIN files)
    IN IF found = <<>> THEN [ok |-> TRUE, sources |-> <<>>]
       ELSE IF files[Head(found)] = "unreadable" THEN [ok |-> FALSE, sources |-> <<>>]
       ELSE [ok |-> TRUE, sources |-> <<Head(found)>>]

\* Links are not followed, and what cannot be read is left out.
collect_docs(entries) ==
    {e \in entries : /\ e.type = "file" /\ e.extension = "md" /\ e.readable
                     /\ e.dirs # <<>> /\ e.dirs[1] = "docs" /\ ~e.linked}

collect_rust_module_headers(entries) ==
    {e \in entries : /\ e.type = "file" /\ e.extension = "rs" /\ e.readable /\ ~e.linked /\ e.header
                     /\ \A i \in DOMAIN e.dirs : e.dirs[i] \notin {"target", "node_modules", ".git", "vendor"}}

collect_project_rules(files) ==
    SelectSeq(<<"CLAUDE.md", "AGENTS.md", "AGENT.md", "claude.md">>,
              LAMBDA name : name \in DOMAIN files /\ files[name] # "unreadable")

\* A README that cannot be read fails it all, as does a history that git cannot walk.
collect_sources(repo, since, include) ==
    LET readme == IF "readme" \in include THEN collect_readme(repo.files) ELSE [ok |-> TRUE, sources |-> <<>>]
    IN [ok |-> readme.ok /\ ("git" \in include => repo.walkable),
        commits |-> IF "git" \in include THEN collect_git_commits(repo.commits, since) ELSE <<>>,
        readme |-> readme.sources,
        docs |-> IF "docs" \in include THEN collect_docs(repo.entries) ELSE {},
        headers |-> IF "code" \in include THEN collect_rust_module_headers(repo.entries) ELSE {},
        rules |-> collect_project_rules(repo.files)]

-----------------------------------------------------------------------------
(* The budget: sources are dropped by their kind, those of one kind in the *)
(* order they were collected in, and the rest is cut into chunks, the      *)
(* kinds that matter most first.                                           *)

drop_priority == [ProjectRules |-> 0, Readme |-> 1, DocFile |-> 2, GitCommit |-> 3, ModuleHeader |-> 4]

estimated_tokens(s) == (s.label + Total(s.text) + 16 + 3) \div 4
Tokens(sources) == FoldSeq(LAMBDA s, sum : estimated_tokens(s) + sum, 0, sources)

DropOrder(sources) ==
    LET order == SetToSortSeq(DOMAIN sources, LAMBDA i, j :
                    LET p == drop_priority[sources[i].kind] q == drop_priority[sources[j].kind]
                    IN p > q \/ (p = q /\ i < j))
    IN [k \in DOMAIN order |-> sources[order[k]]]

prune_sources_to_budget(sources, budget, reserve) ==
    LET ordered == DropOrder(sources)
        Kept(n) == SubSeq(ordered, n + 1, Len(ordered))
        drops == Min({n \in 0..Len(ordered) : Tokens(Kept(n)) <= Floor(budget, reserve)})
    IN Kept(drops)

effective_chunk_budget(chunk_budget, budget) == IF chunk_budget = 0 THEN 0 ELSE Min({chunk_budget, budget})
usable_chunk_tokens(chunk_budget, reserve) == IF chunk_budget > reserve THEN chunk_budget - reserve ELSE chunk_budget

\* The parts of a text: as many whole characters as fit, and one where none does.
RECURSIVE Parts(_, _)
Parts(text, max) ==
    IF text = <<>> THEN <<>>
    ELSE LET fit == Max({n \in 0..Len(text) : Total(SubSeq(text, 1, n)) <= max})
             n == IF fit = 0 THEN 1 ELSE fit
         IN <<SubSeq(text, 1, n)>> \o Parts(SubSeq(text, n + 1, Len(text)), max)

PartLabel == 9   \* the length of " (part n)"

split_oversized_source(s, usable) ==
    IF usable = 0 \/ estimated_tokens(s) <= usable THEN <<s>>
    ELSE LET parts == Parts(s.text, Max({Floor(usable * 4, s.label + 64), 4}))
         IN [i \in DOMAIN parts |-> [s EXCEPT !.label = @ + PartLabel, !.text = parts[i]]]

chunk_sources_greedy(sources, usable) ==
    LET pieces == FlattenSeq([i \in DOMAIN sources |-> split_oversized_source(Reverse(sources)[i], usable)])
        Add(chunks, piece) ==
            IF chunks # <<>> /\ Tokens(Last(chunks)) + estimated_tokens(piece) <= usable
            THEN Front(chunks) \o <<Append(Last(chunks), piece)>>
            ELSE Append(chunks, <<piece>>)
    IN FoldLeft(Add, <<>>, pieces)

plan_bootstrap_chunks(sources, chunk_budget, reserve) ==
    LET usable == usable_chunk_tokens(chunk_budget, reserve)
    IN CASE sources = <<>> -> <<>>
         [] sources # <<>> /\ (chunk_budget = 0 \/ Tokens(sources) <= usable) -> <<sources>>
         [] OTHER -> chunk_sources_greedy(sources, usable)

bootstrap_source_counts(incoming, collected, kept) ==
    LET all == IF collected = {} THEN incoming ELSE CHOOSE n \in collected : TRUE
    IN [collected |-> all, sent |-> Len(kept), dropped |-> Floor(all, Len(kept))]

from_sources(sources) ==
    [kind \in DOMAIN drop_priority |-> Cardinality({i \in DOMAIN sources : sources[i].kind = kind})]

-----------------------------------------------------------------------------
(* The server. A page is [path, valid, serial, body]; serial is the number *)
(* of a decision, 0 for other pages. wiki maps the paths to the bodies.    *)

Manifest == "bootstrap.md"

next_decision_serial(pages) == Max({p.serial : p \in pages} \cup {0}) + 1

\* The first page of a path is kept.
insert_bootstrap_page(pages, page) ==
    IF \E p \in pages : p.path = page.path THEN pages ELSE pages \cup {page}

build_chunk_request(chunks, i, pages) ==
    [sources |-> chunks[i], of |-> Len(chunks), prior |-> {p.path : p \in pages},
     next |-> IF Len(chunks) > 1 /\ pages # {} THEN next_decision_serial(pages) ELSE 0,
     max_tokens |-> IF Len(chunks) > 1 THEN 16000 ELSE 64000]

\* Answers[i] is what the LLM answers to the request of chunk i, and ~ok where it fails.
Merged(answers) ==
    FoldLeft(LAMBDA pages, answer : FoldLeft(insert_bootstrap_page, pages, answer.pages), {}, answers)

render_manifest_body(pages) == [pages |-> {p.path : p \in pages}]

\* The pages of a batch are installed together or not at all, the manifest after the others.
Installed(wiki, pages) ==
    [path \in DOMAIN wiki \cup {p.path : p \in pages} \cup {Manifest} |->
        CASE path = Manifest -> render_manifest_body(pages)
          [] path # Manifest /\ (\E p \in pages : p.path = path) -> (CHOOSE p \in pages : p.path = path).body
          [] OTHER -> wiki[path]]

\* before is the wiki when the work starts, after when the LLM has answered.
process_sources(before, after, cfg, sources, answers, written) ==
    LET kept == prune_sources_to_budget(sources, cfg.budget, cfg.reserve)
        chunks == plan_bootstrap_chunks(kept, effective_chunk_budget(cfg.chunk_budget, cfg.budget), cfg.reserve)
        asked == SubSeq(answers, 1, Len(chunks))
        valid == {p \in Merged(asked) : p.valid}
        End(result, wiki) ==
            [result |-> result, wiki |-> wiki, chunks |-> Len(chunks),
             counts |-> bootstrap_source_counts(Len(sources), cfg.collected, kept), by_kind |-> from_sources(kept)]
    IN CASE ~cfg.force /\ Manifest \in DOMAIN before -> End("already_bootstrapped", after)
         [] ~(~cfg.force /\ Manifest \in DOMAIN before) /\ kept = <<>> -> End("no_sources", after)
         [] ~(~cfg.force /\ Manifest \in DOMAIN before) /\ kept # <<>> /\ cfg.dry_run -> End("dry", after)
         [] OTHER -> IF \E i \in DOMAIN asked : ~asked[i].ok THEN End("llm", after)
                     ELSE IF ~written THEN End("failed", after)
                     ELSE End("ok", Installed(after, valid))

dry_run_outcome(cfg, sources) ==
    LET kept == prune_sources_to_budget(sources, cfg.budget, cfg.reserve)
    IN IF kept = <<>> THEN [result |-> "no_sources"]
       ELSE [result |-> "dry",
             counts |-> bootstrap_source_counts(Len(sources), cfg.collected, kept), by_kind |-> from_sources(kept),
             chunks |-> Len(plan_bootstrap_chunks(kept, effective_chunk_budget(cfg.chunk_budget, cfg.budget), cfg.reserve))]

\* The client: what it says of a dry run, and what it sends.
local_dry_run(cfg, sources) ==
    LET kept == prune_sources_to_budget(sources, cfg.budget, cfg.reserve)
    IN dry_run_outcome([cfg EXCEPT !.collected = {Len(sources)}], kept)

Posted(cfg, sources) ==
    [sources |-> prune_sources_to_budget(sources, cfg.budget, cfg.reserve), collected |-> {Len(sources)}]

-----------------------------------------------------------------------------
(* Requests that run at once, as states and steps: every request is at its *)
(* pc, lock holds who works. A caller that goes away ends its request.     *)

Requests(ids) == [pc |-> [r \in ids |-> "start"], lock |-> {}, scope |-> FALSE, wiki |-> <<>>, asked |-> {}]

handle_bootstrap(s, r, llm) ==
    CASE s.pc[r] = "start" ->
            IF ~llm THEN {[s EXCEPT !.pc[r] = "unavailable"]}
            ELSE {[s EXCEPT !.pc[r] = "waiting", !.scope = TRUE]}
      [] s.pc[r] = "waiting" -> IF s.lock = {} THEN {[s EXCEPT !.pc[r] = "check", !.lock = {r}]} ELSE {}
      [] s.pc[r] = "check" ->
            IF Manifest \in DOMAIN s.wiki THEN {[s EXCEPT !.pc[r] = "refused", !.lock = {}]}
            ELSE {[s EXCEPT !.pc[r] = "llm", !.asked = @ \cup {r}]}
      [] s.pc[r] = "llm" ->
            {[s EXCEPT !.pc[r] = "failed", !.lock = {}],
             [s EXCEPT !.pc[r] = "done", !.lock = {},
                       !.wiki = Installed(@, {[path |-> r, valid |-> TRUE, serial |-> 0, body |-> r]})]}
      [] OTHER -> {}

Leave(s, r) ==
    IF s.pc[r] \in {"start", "waiting", "check", "llm"} THEN {[s EXCEPT !.pc[r] = "gone", !.lock = @ \ {r}]} ELSE {}

RequestSteps(s, llm) == UNION {handle_bootstrap(s, r, llm) \cup Leave(s, r) : r \in DOMAIN s.pc}

-----------------------------------------------------------------------------
(* How the edits of a patch proposal become the body of a page             *)
(* (auto_improve.rs). AutoImprove follows such a body through its review;  *)
(* here is what it is.                                                     *)
(*                                                                         *)
(* A body is a sequence of lines, [kind: "text", "fence" or "heading",     *)
(* lvl, txt]. Anchors are heading lines; the case and the spaces in which  *)
(* two of them may differ are left out, as are blank lines. The hash of a  *)
(* section is the section.                                                 *)
Text(t)       == [kind |-> "text", lvl |-> 0, txt |-> t]
FenceLine     == [kind |-> "fence", lvl |-> 0, txt |-> "fence"]
Heading(n, t) == [kind |-> "heading", lvl |-> n, txt |-> t]

\* A line that looks like a heading is one unless a fence is open before it.
heading_positions(body) ==
    {i \in DOMAIN body : /\ body[i].kind = "heading"
                         /\ Cardinality({j \in 1..i - 1 : body[j].kind = "fence"}) % 2 = 0}

\* A section runs up to the next heading of its level or a higher one; "end"
\* is the position after it.
parse_markdown_sections(body) ==
    {[anchor |-> body[i], level |-> body[i].lvl, start |-> i,
      end |-> Min({j \in heading_positions(body) : j > i /\ body[j].lvl <= body[i].lvl} \cup {Len(body) + 1})]
        : i \in heading_positions(body)}

SectionText(body, s) == SubSeq(body, s.start, s.end - 1)
duplicate_heading_count(body, anchor) == Cardinality({s \in parse_markdown_sections(body) : s.anchor = anchor})
has_duplicate_headings(body) == \E s \in parse_markdown_sections(body) : duplicate_heading_count(body, s.anchor) > 1
h1_count(body) == Cardinality({s \in parse_markdown_sections(body) : s.level = 1})

Done(body)      == [ok |-> TRUE, body |-> body]
Refusal(reason) == [ok |-> FALSE, reason |-> reason]

InsertedAfter(body, s, content) == SubSeq(body, 1, s.end - 1) \o content \o SubSeq(body, s.end, Len(body))

\* Text under a section, after everything it holds.
append(body, s, e) == Done(InsertedAfter(body, s, e.content))

\* A section beside another of its level.
add_section(body, s, e) ==
    IF e.content = <<>> \/ Head(e.content).kind # "heading" THEN Refusal("missing_heading")
    ELSE IF Head(e.content).lvl = 1 \/ Head(e.content).lvl # s.level THEN Refusal("heading_level")
    ELSE Done(InsertedAfter(body, s, e.content))

\* A section for the one that the reviewer was shown, under the same heading.
replace_section(body, s, e) ==
    IF e.expected # SectionText(body, s) THEN Refusal("hash_mismatch")
    ELSE IF e.content = <<>> \/ Head(e.content) # e.anchor THEN Refusal("anchor_mismatch")
    ELSE Done(SubSeq(body, 1, s.start - 1) \o e.content \o SubSeq(body, s.end, Len(body)))

\* One edit, at the one section below the title that its anchor names.
ApplyEdit(body, e) ==
    LET named == {s \in parse_markdown_sections(body) : s.anchor = e.anchor} IN
    IF e.op \notin {"append", "add_section", "replace_section"} THEN Refusal("unsupported_patch_op")
    ELSE IF Cardinality(named) # 1 THEN Refusal("anchor")
    ELSE LET s == CHOOSE s \in named : TRUE IN
         IF s.level = 1 THEN Refusal("h1_anchor")
         ELSE CASE e.op = "append"          -> append(body, s, e)
                [] e.op = "add_section"     -> add_section(body, s, e)
                [] e.op = "replace_section" -> replace_section(body, s, e)

\* The edits in order, each on what the ones before it made; the first that
\* is refused refuses the patch.
materialize_patch(body, edits) ==
    FoldLeft(LAMBDA acc, e : IF acc.ok THEN ApplyEdit(acc.body, e) ELSE acc, Done(body), edits)

\* Bodies of rules and procedures have budgets of their own.
enforce_page_budget(body, budget) == Len(body) <= budget

\* What a patch that is accepted has passed.
PatchProposalValid(base, edits, maxEdits, maxContent, maxChanged, budget) ==
    LET result == materialize_patch(base, edits) IN
    /\ edits # <<>> /\ Len(edits) <= maxEdits
    /\ \A i \in DOMAIN edits : Len(edits[i].content) <= maxContent
    /\ FoldLeft(LAMBDA n, e : n + Len(e.content), 0, edits) <= maxChanged
    /\ ~has_duplicate_headings(base)
    /\ result.ok
    /\ enforce_page_budget(result.body, budget)
    /\ result.body # <<>> /\ result.body[1].kind = "heading" /\ result.body[1].lvl = 1
    /\ h1_count(result.body) = 1
    /\ ~has_duplicate_headings(result.body)

-----------------------------------------------------------------------------
(* What a patch promises.                                                  *)

\* One sequence can be had from another by leaving lines out: the greedy
\* match of s in t has found the first n of its lines.
MatchedIn(s, t) ==
    FoldLeft(LAMBDA n, line : IF n < Len(s) /\ s[n + 1] = line THEN n + 1 ELSE n, 0, t)
IsThinnedOut(s, t) == MatchedIn(s, t) = Len(s)

\* The lines of the page that no replacement was shown are all in the new
\* body, in their order: a patch takes only what its reviewer saw.
KeepsTheRest(base, edits) ==
    LET result == materialize_patch(base, edits)
        taken  == UNION {s.start .. s.end - 1 : s \in {s \in parse_markdown_sections(base) :
                      \E i \in DOMAIN edits : edits[i].op = "replace_section" /\ edits[i].anchor = s.anchor}}
        kept   == SetToSortSeq(DOMAIN base \ taken, <)
    IN result.ok => IsThinnedOut([i \in DOMAIN kept |-> base[kept[i]]], result.body)
=============================================================================
