----------------------------- MODULE MemoryReports -----------------------------
(***************************************************************************)
(* What is told of the proposals for better pages and of where sessions    *)
(* landed: the records kept with a proposal's decision                     *)
(* (ai-memory-store/src/auto_improve.rs), what reader.rs reads of them,    *)
(* the telemetry report (ai-memory-consolidate/src/                        *)
(* auto_improve_telemetry.rs), the administration's requests for pending   *)
(* writes (ai-memory-mcp/src/admin.rs), and the audit of sessions filed    *)
(* under a wrong project.                                                  *)
(*                                                                         *)
(* A database is [runs, proposals, rejections, events, clock]. A name with *)
(* letters of both cases and spaces is [name, spelled]: what it is once    *)
(* they are folded, and how it was written; Empty is no name at all.        *)
(***************************************************************************)
EXTENDS Integers, Sequences, FiniteSets, FiniteSetsExt, SequencesExt

None == "none"
Statuses == {"pending", "approved", "rejected", "conflict", "failed"}
Maintenance == {"curator_report", "auto_improve_report"}

-----------------------------------------------------------------------------
(* Decisions and what they leave behind.                                   *)

Empty == [name |-> "", spelled |-> ""]
normalize_fp(field) == field.name

rejection_fingerprint(r) ==
    <<r.target, r.kind, r.operation, r.edit_mode, normalize_fp(r.reason), normalize_fp(r.summary)>>

insert_rejection_record_in_tx(db, r) ==
    [db EXCEPT !.rejections = Append(@, r @@ [fingerprint |-> rejection_fingerprint(r), at |-> db.clock])]

insert_event_in_tx(db, id, event) == [db EXCEPT !.events = Append(@, [proposal |-> id, event |-> event, at |-> db.clock])]

insert_rejection_for_proposal_in_tx(db, id, reason) ==
    LET p == db.proposals[id]
    IN insert_rejection_record_in_tx(db,
           [scope |-> p.scope, target |-> p.target, kind |-> p.kind, operation |-> p.operation, edit_mode |-> p.edit_mode,
            reason |-> reason, summary |-> IF p.title = Empty THEN p.rationale ELSE p.title, run |-> p.run, proposal |-> id])

\* A candidate that was refused before it became a proposal: one without a reason is not kept.
insert_rejected_candidates_in_tx(db, scope, run, candidates) ==
    LET First(absent, seq) == Head(SelectSeq(seq, LAMBDA x : x # absent) \o <<absent>>)
        Record(c) == [scope |-> scope, kind |-> c.kind, operation |-> c.operation, edit_mode |-> c.edit_mode,
                      target |-> First(None, <<c.target_path, c.path, IF c.evidence_is_path THEN c.evidence.name ELSE None>>),
                      reason |-> c.reason, summary |-> First(Empty, <<c.summary, c.evidence, c.reason>>),
                      run |-> run, proposal |-> None]
    IN FoldLeft(LAMBDA d, c : IF c.reason = Empty THEN d ELSE insert_rejection_record_in_tx(d, Record(c)), db, candidates)

\* Deciding answers no twice: only a pending proposal of the scope changes.
Pending(db, scope, id) == id \in DOMAIN db.proposals /\ db.proposals[id].scope = scope /\ db.proposals[id].status = "pending"

Decided(db, id, status) ==
    [db EXCEPT !.proposals[id] = [@ EXCEPT !.status = status, !.decided = db.clock]]

reject_proposal(db, scope, id, reason) ==
    IF ~Pending(db, scope, id) THEN [ok |-> FALSE, db |-> db]
    ELSE [ok |-> TRUE,
          db |-> insert_event_in_tx(insert_rejection_for_proposal_in_tx(Decided(db, id, "rejected"), id, reason), id, "rejected")]

fail_proposal(db, scope, id, reason) ==
    IF ~Pending(db, scope, id) THEN [ok |-> FALSE, db |-> db]
    ELSE [ok |-> TRUE,
          db |-> insert_event_in_tx(insert_rejection_for_proposal_in_tx(Decided(db, id, "failed"), id, reason), id, "failed")]

\* Where the target has changed since the proposal was staged it ends in a conflict.
approve_proposal(db, scope, id, changed) ==
    LET status == IF changed THEN "conflict" ELSE "approved"
    IN IF ~Pending(db, scope, id) THEN [ok |-> FALSE, db |-> db]
       ELSE [ok |-> TRUE, db |-> insert_event_in_tx(Decided(db, id, status), id, status)]

-----------------------------------------------------------------------------
(* Reading. A row that is not understood is an error for the whole answer. *)

InScope(db, scope) == {id \in DOMAIN db.proposals : db.proposals[id].scope = scope}

summary_from_row(p) == p.status \in Statuses /\ p.operation \in {"create", "update"}

\* The newest first; those staged at the same time in any order.
Newest(ids, At) ==
    {s \in [1..Cardinality(ids) -> ids] : IsInjective(s) /\ \A i, j \in DOMAIN s : i < j => At[s[i]] >= At[s[j]]}

list_auto_improve_proposals(db, scope, status, limit) ==
    LET ids == {id \in InScope(db, scope) : status = None \/ db.proposals[id].status = status}
        lists == {SubSeq(s, 1, Min({limit, Cardinality(ids)})) : s \in Newest(ids, [id \in ids |-> db.proposals[id].staged])}
    IN {IF \A i \in DOMAIN l : summary_from_row(db.proposals[l[i]]) THEN [ok |-> TRUE, list |-> l] ELSE [ok |-> FALSE, list |-> <<>>] : l \in lists}

auto_improve_proposal_detail(db, scope, id) ==
    IF id \notin InScope(db, scope) THEN {}
    ELSE {[id |-> id, status |-> db.proposals[id].status, body |-> db.proposals[id].body,
           events |-> SelectSeq(db.events, LAMBDA e : e.proposal = id)]}

recent_auto_improve_rejections(db, scope, limit, since) ==
    LET recent == SelectSeq(db.rejections, LAMBDA r : r.scope = scope /\ r.at >= since)
    IN SubSeq(Reverse(recent), 1, Min({limit, Len(recent)}))

-----------------------------------------------------------------------------
(* The telemetry report: counts are functions from keys to numbers.        *)

auto_improve_group_counts(db, scope, since, column, maintenance) ==
    LET ids == {id \in InScope(db, scope) : /\ db.proposals[id].staged >= since
                                            /\ db.proposals[id].kind \in Maintenance <=> maintenance}
    IN [key \in {db.proposals[id][column] : id \in ids} |-> Cardinality({id \in ids : db.proposals[id][column] = key})]

\* The keys counted most, which of those counted alike is left to their order as text.
Top(counts, limit) ==
    LET keys == DOMAIN counts
    IN {[k \in s |-> counts[k]] : s \in {t \in SUBSET keys :
          Cardinality(t) = Min({limit, Cardinality(keys)}) /\ \A k \in t, l \in keys \ t : counts[k] >= counts[l]}}

\* A rejection counts unless it is of a maintenance proposal.
Counted(db, scope, since) ==
    {i \in DOMAIN db.rejections :
        LET r == db.rejections[i]
        IN /\ r.scope = scope /\ r.at >= since
           /\ r.proposal \in DOMAIN db.proposals => db.proposals[r.proposal].kind \notin Maintenance}

RejectionCounts(db, scope, since, column) ==
    LET counted == Counted(db, scope, since)
        Key(i) == IF column = "reason" THEN db.rejections[i].reason.spelled ELSE db.rejections[i][column]
    IN [key \in {Key(i) : i \in counted} |-> Cardinality({i \in counted : Key(i) = key})]

auto_improve_rejection_group_counts(db, scope, since, column, limit) == Top(RejectionCounts(db, scope, since, column), limit)

auto_improve_repeated_rejection_fingerprints(db, scope, since, limit) ==
    LET counts == RejectionCounts(db, scope, since, "fingerprint")
    IN Top([k \in {f \in DOMAIN counts : counts[f] > 1} |-> counts[k]], limit)

auto_improve_telemetry_aggregate(db, scope, since, limit) ==
    LET staged == {id \in InScope(db, scope) : db.proposals[id].staged >= since /\ db.proposals[id].kind \notin Maintenance}
        Group(column) == auto_improve_group_counts(db, scope, since, column, FALSE)
    IN {[runs |-> Cardinality({r \in DOMAIN db.runs : db.runs[r].scope = scope /\ db.runs[r].at >= since}),
         learning_runs |-> Cardinality({db.proposals[id].run : id \in staged}),
         by_status |-> Group("status"), by_operation |-> Group("operation"), by_kind |-> Group("kind"),
         maintenance |-> auto_improve_group_counts(db, scope, since, "kind", TRUE),
         targets |-> targets, reasons |-> reasons, repeated |-> repeated] :
        targets \in Top(Group("target"), limit),
        reasons \in auto_improve_rejection_group_counts(db, scope, since, "reason", limit),
        repeated \in auto_improve_repeated_rejection_fingerprints(db, scope, since, limit)}

count_for(counts, key) == IF key \in DOMAIN counts THEN counts[key] ELSE 0
SumOf(counts) == FoldSet(LAMBDA k, sum : counts[k] + sum, 0, DOMAIN counts)

\* The rates, in thousandths.
rate(n, of) == IF of = 0 THEN 0 ELSE (n * 1000) \div of
terminal_rates(by_status) ==
    LET of == SumOf([s \in Statuses \ {"pending"} |-> count_for(by_status, s)])
    IN [of |-> of, rates |-> [s \in Statuses \ {"pending"} |-> rate(count_for(by_status, s), of)]]

build_auto_improve_telemetry_report(aggregate) ==
    LET rates == terminal_rates(aggregate.by_status)
        eval_gate == SumOf([r \in {"eval_gate_failed", "eval_gate_timeout", "eval_gate_error"} |-> count_for(aggregate.reasons, r)])
        Finding(kind, n) == IF n > 0 THEN {[kind |-> kind, n |-> n]} ELSE {}
    IN [rates |-> rates, aggregate |-> aggregate,
        findings |-> Finding("no_terminal_learning_proposals", IF rates.of = 0 THEN 1 ELSE 0)
                       \cup Finding("pending_learning_proposals_excluded", count_for(aggregate.by_status, "pending"))
                       \cup Finding("maintenance_proposals_excluded", SumOf(aggregate.maintenance))
                       \cup Finding("eval_gate_rejections_seen", eval_gate)
                       \cup {[kind |-> "repeated_rejection_fingerprint", n |-> aggregate.repeated[f]] : f \in DOMAIN aggregate.repeated}]

\* The window ends with the clock.
run_auto_improve_telemetry_report(db, scope, window, limit) ==
    {build_auto_improve_telemetry_report(a) : a \in auto_improve_telemetry_aggregate(db, scope, db.clock - window, limit)}

-----------------------------------------------------------------------------
(* The administration's requests. A scope that does not exist is not made. *)

handle_pending_writes_list(db, scope, status, limit) ==
    IF scope \notin db.scopes THEN {[status |-> 404]}
    ELSE IF status \notin Statuses \cup {None} THEN {[status |-> 400]}
    ELSE {IF l.ok THEN [status |-> 200, list |-> l.list] ELSE [status |-> 500] :
            l \in list_auto_improve_proposals(db, scope, status, Min({Max({limit, 1}), 200}))}

pending_detail(db, scope, id) ==
    IF id = "malformed" THEN [status |-> 400]
    ELSE IF scope \notin db.scopes \/ auto_improve_proposal_detail(db, scope, id) = {} THEN [status |-> 404]
    ELSE [status |-> 200] @@ (CHOOSE d \in auto_improve_proposal_detail(db, scope, id) : TRUE)

\* The difference to the page as the store has it now, empty where it has none.
handle_pending_write_diff(db, scope, id, pages) ==
    LET detail == pending_detail(db, scope, id)
        target == db.proposals[id].target
    IN IF detail.status # 200 THEN [status |-> detail.status]
       ELSE [status |-> 200, before |-> IF target \in DOMAIN pages THEN pages[target] ELSE "", after |-> detail.body]

Decision(db, scope, id, answer) ==
    IF id = "malformed" THEN [status |-> 400, db |-> db]
    ELSE IF scope \notin db.scopes THEN [status |-> 404, db |-> db]
    ELSE answer

\* Neither tells a proposal that was decided before from a failure of the server.
handle_pending_write_approve(db, scope, id, changed) ==
    LET answer == approve_proposal(db, scope, id, changed)
    IN Decision(db, scope, id, [status |-> IF ~answer.ok THEN 500 ELSE IF changed THEN 409 ELSE 200, db |-> answer.db])

handle_pending_write_reject(db, scope, id, reason) ==
    LET answer == reject_proposal(db, scope, id, reason)
    IN Decision(db, scope, id, [status |-> IF answer.ok THEN 200 ELSE 500, db |-> answer.db])

-----------------------------------------------------------------------------
(* The audit. A directory is [names, trailing]: the sequence of its names, *)
(* and whether it was written with a separator at its end.                 *)

is_safe_cwd_for_prefix_match(dir) == dir.names # <<>> /\ \A i \in DOMAIN dir.names : dir.names[i] \notin {".", ".."}
has_trailing_path_separator(dir) == dir.trailing
normalize_cwd(dir) == [dir EXCEPT !.trailing = FALSE]
cwd_within(root, dir) == IsPrefix(root.names, dir.names)

\* projects is the sequence of [workspace, project, root] as the rows come, root without names
\* where it is not known; sessions are [id, workspace, project, cwd]. scope is {} or holds the one
\* scope that is audited.
RootsKnown(projects, scope, home) ==
    SelectSeq(projects, LAMBDA p : /\ \A s \in scope : p.workspace = s[1]
                                   /\ ~has_trailing_path_separator(p.root)
                                   /\ is_safe_cwd_for_prefix_match(normalize_cwd(p.root)) /\ normalize_cwd(p.root) # home)

\* The project of the longest root that holds the directory, and the first of those.
Resolved(roots, session) ==
    LET within == {i \in DOMAIN roots : roots[i].workspace = session.workspace /\ cwd_within(roots[i].root, session.cwd)}
        longest == {i \in within : \A j \in within : Len(roots[j].root.names) <= Len(roots[i].root.names)}
    IN IF longest = {} THEN {} ELSE {roots[Min(longest)].project}

audit_contamination(projects, sessions, scope, home) ==
    LET candidates == {s \in sessions : /\ is_safe_cwd_for_prefix_match(normalize_cwd(s.cwd))
                                        /\ \A sc \in scope : <<s.workspace, s.project>> = sc}
        roots == RootsKnown(projects, scope, home)
    IN UNION {{[session |-> s.id, expected |-> p] : p \in Resolved(roots, s) \ {s.project}} : s \in candidates}
===============================================================================
