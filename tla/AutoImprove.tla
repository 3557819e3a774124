----------------------------- MODULE AutoImprove -----------------------------
(***************************************************************************)
(* Auto-improvement of one project's memory: a reviewer reads an ended     *)
(* session and some pages, asks a model for proposals, stages them and has *)
(* them approved, by itself or by a person (ai-memory-consolidate and      *)
(* ai-memory-store auto_improve.rs, ai-memory-wiki/src/wiki.rs, the        *)
(* scheduler of ai-memory-cli/src/commands/serve.rs, ai-memory-mcp/src/    *)
(* admin.rs).                                                              *)
(*                                                                         *)
(* Between any two awaits of a review, which may take minutes, people      *)
(* write the same pages, other reviews run, sessions are resumed, a call   *)
(* fails or the server crashes. Store calls are transactions: one action.  *)
(***************************************************************************)
EXTENDS Naturals, FiniteSets, FiniteSetsExt, Functions

CONSTANTS
    Sessions,
    Patchable, Slot, Fresh,   \* paths: of rules and procedures, the focus slot, of other pages
    Report,                   \* the path of a report that is staged as a proposal
    Evaluated,                \* paths whose proposals a command is asked about
    Pinnable, Edited,         \* bounds: paths whose pages people pin (or make invariant slots); that they or the watcher write
    Proposals,                \* bound: ids of proposals ever staged
    Scheduler, Manual, Curator,   \* who works: the tick, a requested review, a person deciding
    PerTick,                  \* max_sessions_per_tick
    MaxEnds, MaxVersions,     \* bounds: dates at which sessions end; versions of pages
    MaxRecent, MaxPatchable,  \* pages of a briefing; max_patchable_pages
    MaxDrafts,                \* bound: the proposals of one answer
    MaxReviews, MaxFaults,    \* bounds: requests of people; failing calls and crashes
    NULL

ASSUME WorkersAssumption == Cardinality({Scheduler, Manual, Curator}) = 3

ASSUME BoundsAssumption == MaxEnds \in Nat /\ MaxVersions \in Nat \ {0} /\ MaxReviews \in Nat /\ MaxFaults \in Nat
ASSUME FiniteAssumption == IsFiniteSet(Sessions) /\ IsFiniteSet(Proposals)

\* A body is a version's number or a proposal's id.
ASSUME BodiesAssumption == NULL \notin Nat \cup Proposals /\ \A q \in Proposals : q \notin Nat

VARIABLES
    sessions,     \* id -> [ended: NULL or its date, aged: old enough to review]
    watermark,    \* sessions that ended later are the scheduler's; NULL before its first tick
    claims, runs, \* sessions the scheduler claimed; sessions a staged run is about
    rows,         \* path -> NULL or the latest version [v, body, kept: pinned, a slot: of kind invariant]
    files,        \* path -> NULL or the body in the page's file
    proposals,    \* id -> NoProposal or [status, mode, op, path, base, seen]
    tasks,        \* worker -> Idle or what it is at
    policy,       \* require_approval
    torn,         \* paths a crash left with a body no transaction decided on
    ends, versions, reviews, faults

sessionVars == <<sessions, watermark, claims, runs>>
pageVars == <<rows, files, torn>>
boundVars == <<ends, versions, reviews, faults>>
improveVars == <<sessionVars, pageVars, proposals, tasks, policy, boundVars>>

Paths == Patchable \cup {Slot, Report} \cup Fresh
ASSUME EditedAssumption == Edited \subseteq Paths
Workers == {Scheduler, Manual, Curator}
Reviewers == {Scheduler, Manual}
Idle == [step |-> "idle"]
At(a, step) == tasks[a].step = step

NoProposal == [status |-> "none"]
Pending(q) == proposals[q].status = "pending"

Version(path) == IF rows[path] = NULL THEN 0 ELSE rows[path].v
Body(path) == IF rows[path] = NULL THEN NULL ELSE rows[path].body

Init ==
    /\ sessions = [s \in Sessions |-> [ended |-> NULL, aged |-> FALSE]]
    /\ watermark = NULL /\ claims = {} /\ runs = {}
    /\ rows = [x \in Paths |-> IF x \in Patchable THEN [v |-> 1, body |-> 1, kept |-> FALSE] ELSE NULL]
    /\ files = [x \in Paths |-> IF x \in Patchable THEN 1 ELSE NULL]
    /\ proposals = [q \in Proposals |-> NoProposal]
    /\ tasks = [a \in Workers |-> Idle]
    /\ policy \in BOOLEAN
    /\ torn = {}
    /\ ends = 0 /\ versions = 1 /\ reviews = 0 /\ faults = 0

-----------------------------------------------------------------------------
(* Sessions and pages change under the reviewers.                          *)

NextDate == ends < MaxEnds /\ ends' = ends + 1
NextVersion == versions < MaxVersions /\ versions' = versions + 1

SessionEnds(s) ==
    /\ sessions[s].ended = NULL /\ NextDate
    /\ sessions' = [sessions EXCEPT ![s].ended = ends']
    /\ UNCHANGED <<watermark, claims, runs, pageVars, proposals, tasks, policy, versions, reviews, faults>>

\* min_session_age_secs have gone by.
SessionAges(s) ==
    /\ sessions[s].ended # NULL /\ ~sessions[s].aged
    /\ sessions' = [sessions EXCEPT ![s].aged = TRUE]
    /\ UNCHANGED <<watermark, claims, runs, pageVars, proposals, tasks, policy, boundVars>>

\* Work goes on in an ended session, which ends again at a later date.
SessionEndsAgain(s) ==
    /\ sessions[s].ended # NULL /\ NextDate
    /\ sessions' = [sessions EXCEPT ![s] = [ended |-> ends', aged |-> FALSE]]
    /\ UNCHANGED <<watermark, claims, runs, pageVars, proposals, tasks, policy, versions, reviews, faults>>

\* The file of an approval that is not decided: page operations wait for it.
Deciding(a) == At(a, "commit")
Locked == \E a \in Workers : Deciding(a)

\* File and row together: the module MemoryWiki takes them apart.
PageWritten(path, kept) ==
    /\ ~Locked /\ NextVersion
    /\ rows' = [rows EXCEPT ![path] = [v |-> versions', body |-> versions', kept |-> kept]]
    /\ files' = [files EXCEPT ![path] = versions']
    /\ torn' = torn \ {path}
    /\ UNCHANGED <<sessionVars, proposals, tasks, policy, ends, reviews, faults>>

PageDeleted(path) ==
    /\ ~Locked /\ rows[path] # NULL /\ NextVersion
    /\ rows' = [rows EXCEPT ![path] = NULL]
    /\ files' = [files EXCEPT ![path] = NULL]
    /\ torn' = torn \ {path}
    /\ UNCHANGED <<sessionVars, proposals, tasks, policy, ends, reviews, faults>>

\* The watcher.
PageReindexed(path) ==
    /\ ~Locked /\ files[path] # NULL /\ NextVersion
    /\ rows[path] # NULL => rows[path].body # files[path]
    /\ rows' = [rows EXCEPT ![path] = [v |-> versions', body |-> files[path], kept |-> FALSE]]
    /\ UNCHANGED <<sessionVars, files, torn, proposals, tasks, policy, ends, reviews, faults>>

-----------------------------------------------------------------------------
(* The scheduler: candidates are listed, then claimed one by one.          *)

\* Mutant: every tick sets the watermark anew.
WatermarkOfEveryTick ==
    LET dates == {sessions[s].ended : s \in Sessions} \ {NULL}
    IN {n \in dates \cup {0} : \A e \in dates : e <= n}

\* The first tick leaves what ended before it alone.
ensure_scheduler_state ==
    IF watermark # NULL THEN {watermark}
    ELSE LET dates == {sessions[s].ended : s \in Sessions} \ {NULL}
         IN {n \in dates \cup {0} : \A e \in dates : e <= n}

Tick ==
    /\ At(Scheduler, "idle")
    /\ watermark' \in ensure_scheduler_state
    /\ tasks' = [tasks EXCEPT ![Scheduler] = [step |-> "list"]]
    /\ UNCHANGED <<sessions, claims, runs, pageVars, proposals, policy, boundVars>>

Candidate(s) ==
    /\ sessions[s].ended # NULL /\ sessions[s].aged
    /\ sessions[s].ended > watermark
    /\ s \notin claims \cup runs

\* The oldest first, as many as a tick may take.
auto_improve_candidate_sessions ==
    {s \in Sessions : Candidate(s) /\
        Cardinality({r \in Sessions : Candidate(r) /\ sessions[r].ended < sessions[s].ended}) < PerTick}

\* A tick is over with its last candidate.
Claiming(todo) == IF todo = {} THEN Idle ELSE [step |-> "claim", todo |-> todo]

ListCandidates ==
    /\ At(Scheduler, "list")
    /\ tasks' = [tasks EXCEPT ![Scheduler] =
           Claiming({[s |-> s, ended |-> sessions[s].ended] : s \in auto_improve_candidate_sessions})]
    /\ UNCHANGED <<sessionVars, pageVars, proposals, policy, boundVars>>

Review(a, s) ==
    [step |-> "read", session |-> s, known |-> {}, seen |-> NULL, drafts |-> {}, final |-> {}, q |-> NULL, prev |-> NULL,
     todo |-> IF a = Scheduler THEN {c \in tasks[a].todo : c.s # s} ELSE {}]

\* Only a session that still ended when it was listed, that nobody has
\* claimed or reviewed since. The claim comes before the review and stays.
claim_scheduler_session(c) ==
    /\ At(Scheduler, "claim") /\ c \in tasks[Scheduler].todo
    /\ IF sessions[c.s].ended = c.ended /\ c.ended > watermark /\ c.s \notin claims \cup runs
       THEN /\ claims' = claims \cup {c.s}
            /\ tasks' = [tasks EXCEPT ![Scheduler] = Review(Scheduler, c.s)]
       ELSE /\ tasks' = [tasks EXCEPT ![Scheduler] = Claiming(@.todo \ {c})]
            /\ UNCHANGED claims
    /\ UNCHANGED <<sessions, watermark, runs, pageVars, proposals, policy, boundVars>>

\* A person asks for a review of a session, ended or not.
handle_auto_improve(s) ==
    /\ At(Manual, "idle")
    /\ reviews < MaxReviews /\ reviews' = reviews + 1
    /\ tasks' = [tasks EXCEPT ![Manual] = Review(Manual, s)]
    /\ UNCHANGED <<sessionVars, pageVars, proposals, policy, ends, versions, faults>>

latest_completed_session_for_project ==
    {s \in Sessions : /\ sessions[s].ended # NULL
                      /\ \A r \in Sessions : sessions[r].ended # NULL => sessions[r].ended <= sessions[s].ended}

\* An agent names a session, or the one that ended last is meant.
memory_auto_improve ==
    \E s \in Sessions \cup latest_completed_session_for_project : handle_auto_improve(s)

-----------------------------------------------------------------------------
(* A review, the scheduler's or a requested one.                           *)

\* What a failing review or approval leaves as it is, the worker included.
Leaves(a) ==
    tasks' = [tasks EXCEPT ![a] = IF a = Scheduler THEN Claiming(@.todo) ELSE Idle]

\* A short session is not worth a call: its run is staged empty.
preflight_rejection(a) ==
    /\ At(a, "read")
    /\ tasks' = [tasks EXCEPT ![a] = [tasks[a] EXCEPT !.step = "stage"]]
    /\ UNCHANGED <<sessionVars, pageVars, proposals, policy, boundVars>>

Newer(x, S) == {y \in S : rows[y].v > rows[x].v}
RecentPages == LET all == {x \in Paths : rows[x] # NULL} IN {x \in all : Cardinality(Newer(x, all)) < MaxRecent}

\* The pages there are; which of them the reviewer takes for existing.
ReadBriefing(a) ==
    /\ At(a, "read")
    /\ tasks' = [tasks EXCEPT ![a] = [tasks[a] EXCEPT !.step = "pages", !.known = RecentPages]]
    /\ UNCHANGED <<sessionVars, pageVars, proposals, policy, boundVars>>

\* Then the bodies of the newest that may be patched and are still there.
load_patchable_pages(known) ==
    LET all == {x \in Patchable \cap known : rows[x] # NULL}
    IN {x \in all : Cardinality(Newer(x, all)) < MaxPatchable}

\* As many of them as the prompt has room for, the newest first.
render_patchable_pages(pages) ==
    {shown \in SUBSET pages : \A x \in shown : Newer(x, pages) \subseteq shown}

\* The model is asked with what it may patch as it was read.
build_prompt_input(a) ==
    /\ At(a, "pages")
    /\ \E shown \in render_patchable_pages(load_patchable_pages(tasks[a].known)) :
           tasks' = [tasks EXCEPT ![a] =
               [tasks[a] EXCEPT !.step = "llm", !.seen = [x \in Paths |-> IF x \in shown THEN Body(x) ELSE NULL]]]
    /\ UNCHANGED <<sessionVars, pageVars, proposals, policy, boundVars>>

\* A patch must be of a page in the prompt, a whole page of an allowed path
\* that is not known to exist, except the slot's.
validate_patch_proposal(seen) == {[path |-> x, mode |-> "patch"] : x \in {y \in Patchable : seen[y] # NULL}}
validate_full_page_proposal(known) ==
    {[path |-> x, mode |-> "full_page"] : x \in {y \in Paths : y = Slot \/ y \notin known}}

validate_proposal(a) == validate_patch_proposal(tasks[a].seen) \cup validate_full_page_proposal(tasks[a].known)
validate_response(a) == kSubset(MaxDrafts, validate_proposal(a))

\* A command says whether a proposal is an improvement, or fails, or takes too
\* long to say.
EvalOutcomes == {"passed", "failed", "timeout", "error"}
run_eval_for_proposal(d) == IF d.path \in Evaluated THEN EvalOutcomes ELSE {"passed"}

\* Proposals it does not pass are dropped.
apply_eval_gate(drafts) ==
    {{d \in drafts : f[d] = "passed"} : f \in {g \in [drafts -> EvalOutcomes] : \A d \in drafts : g[d] \in run_eval_for_proposal(d)}}

\* What the answer means for a page is settled by whether it is there now.
target_operation_for_page(path) == IF rows[path] # NULL THEN "update" ELSE "create"
Operation(d) ==
    IF d.mode = "patch" THEN "update" ELSE IF d.path = Slot THEN target_operation_for_page(Slot) ELSE "create"
auto_improve_new_proposals(drafts, seen) ==
    {[path |-> d.path, mode |-> d.mode, op |-> Operation(d), expected |-> IF d.mode = "patch" THEN seen[d.path] ELSE NULL]
        : d \in drafts}

ModelAnswers(a) ==
    /\ At(a, "llm")
    /\ \E answer \in validate_response(a) : \E drafts \in apply_eval_gate(answer) :
           tasks' = [tasks EXCEPT ![a] =
               [tasks[a] EXCEPT !.step = "stage", !.known = {}, !.seen = NULL,
                   !.drafts = auto_improve_new_proposals(drafts, tasks[a].seen)]]
    /\ UNCHANGED <<sessionVars, pageVars, proposals, policy, boundVars>>

\* A report is staged as a proposal of no session.
StagesReport ==
    /\ At(Manual, "idle")
    /\ reviews < MaxReviews /\ reviews' = reviews + 1
    /\ LET draft == [path |-> Report, mode |-> "full_page", op |-> target_operation_for_page(Report), expected |-> NULL]
       IN tasks' = [tasks EXCEPT ![Manual] = [Review(Manual, NULL) EXCEPT !.step = "stage", !.drafts = {draft}]]
    /\ UNCHANGED <<sessionVars, pageVars, proposals, policy, ends, versions, faults>>

\* About the project's pages, one a day; about past reviews, always a new one.
handle_curator == StagesReport
handle_auto_improve_report == rows[Report] = NULL /\ StagesReport

\* Mutant: a patch is staged against whatever the page is by then.
StageableAgainstAnything(d) ==
    /\ (d.op = "create") <=> (rows[d.path] = NULL)
    /\ ~\E q \in Proposals : Pending(q) /\ proposals[q].path = d.path

\* Nothing may be at the path of a page to create, the page to patch must be
\* as the reviewer read it, and no other proposal may wait for the path.
Stageable(d) ==
    /\ (d.op = "create") <=> (rows[d.path] = NULL)
    /\ d.mode = "patch" => Body(d.path) = d.expected
    /\ ~\E q \in Proposals : Pending(q) /\ proposals[q].path = d.path

\* Which ids are taken does not matter, as long as there are enough.
Unused == {q \in Proposals : proposals[q].status = "none"}
EnoughIds(drafts) == \E ids \in SUBSET Unused : Cardinality(ids) = Cardinality(drafts)
NewIds(drafts) == CHOOSE ids \in SUBSET Unused : Cardinality(ids) = Cardinality(drafts)

\* One transaction: a proposal that is refused takes the run with it.
stage_run(a) ==
    LET t == tasks[a] IN
    /\ At(a, "stage")
    /\ EnoughIds(t.drafts)
    /\ IF \A d \in t.drafts : Stageable(d)
       THEN /\ runs' = runs \cup ({t.session} \ {NULL})
            /\ LET ids == NewIds(t.drafts) IN \E f \in Bijection(ids, t.drafts) :
                      /\ proposals' = [q \in Proposals |-> IF q \notin ids THEN proposals[q] ELSE
                             [status |-> "pending", mode |-> f[q].mode, op |-> f[q].op, path |-> f[q].path,
                              base |-> Version(f[q].path), seen |-> f[q].expected]]
                      /\ tasks' = [tasks EXCEPT ![a] = [tasks[a] EXCEPT !.step = "final", !.drafts = {}, !.final = ids]]
       ELSE Leaves(a) /\ UNCHANGED <<runs, proposals>>
    /\ UNCHANGED <<sessions, watermark, claims, pageVars, policy, boundVars>>

\* A policy that requires approval leaves the proposals pending, and reports
\* wait for a person whatever the policy.
finalize_auto_improve_proposals(a) ==
    /\ At(a, "final")
    /\ IF policy \/ tasks[a].session = NULL \/ tasks[a].final = {} THEN Leaves(a)
       ELSE \E q \in tasks[a].final :
                tasks' = [tasks EXCEPT ![a] = [tasks[a] EXCEPT !.step = "admit", !.q = q, !.final = @ \ {q}]]
    /\ UNCHANGED <<sessionVars, pageVars, proposals, policy, boundVars>>

-----------------------------------------------------------------------------
(* Decisions.                                                              *)

\* A proposal that is no longer pending is found out later.
handle_pending_write_approve(q) ==
    /\ At(Curator, "idle") /\ q \notin Unused
    /\ reviews < MaxReviews /\ reviews' = reviews + 1
    /\ tasks' = [tasks EXCEPT ![Curator] = [step |-> "admit", q |-> q, prev |-> NULL, final |-> {}]]
    /\ UNCHANGED <<sessionVars, pageVars, proposals, policy, ends, versions, faults>>

reject_proposal(q) ==
    /\ Pending(q)
    /\ reviews < MaxReviews /\ reviews' = reviews + 1
    /\ proposals' = [proposals EXCEPT ![q].status = "rejected"]
    /\ UNCHANGED <<sessionVars, pageVars, tasks, policy, ends, versions, faults>>

\* A curator is done after one proposal, a reviewer after its last.
Decided(a) ==
    tasks' = [tasks EXCEPT ![a] = IF a = Curator THEN Idle ELSE [tasks[a] EXCEPT !.step = "final", !.q = NULL, !.prev = NULL]]

\* The admission chain refuses the page.
fail_proposal(a) ==
    /\ At(a, "admit")
    /\ faults < MaxFaults /\ faults' = faults + 1
    /\ proposals' = IF Pending(tasks[a].q) THEN [proposals EXCEPT ![tasks[a].q].status = "failed"] ELSE proposals
    /\ Leaves(a)
    /\ UNCHANGED <<sessionVars, pageVars, policy, ends, versions, reviews>>

\* Alone in the wiki: the file is replaced before the store is asked.
InstallProposal(a) ==
    LET q == tasks[a].q
        path == proposals[q].path
    IN /\ At(a, "admit") /\ ~Locked
       /\ tasks' = [tasks EXCEPT ![a] = [tasks[a] EXCEPT !.step = "commit", !.prev = files[path]]]
       /\ files' = [files EXCEPT ![path] = q]
       /\ UNCHANGED <<sessionVars, rows, torn, proposals, policy, boundVars>>

pinned_refusal_applies(path) == IF rows[path] = NULL THEN FALSE ELSE rows[path].kept

\* Mutant: a page of the right kind is enough.
KindChanged(p) == (p.op = "create") # (rows[p.path] = NULL)

\* The page is not the version that was there when the proposal was staged.
TargetChanged(p) == IF p.op = "create" THEN rows[p.path] # NULL ELSE rows[p.path] = NULL \/ Version(p.path) # p.base

approve_proposal(a) ==
    LET q == tasks[a].q
        p == proposals[q]
    IN /\ At(a, "commit") /\ Pending(q)
       /\ ~pinned_refusal_applies(p.path) /\ ~TargetChanged(p)
       /\ NextVersion
       /\ rows' = [rows EXCEPT ![p.path] = [v |-> versions', body |-> q, kept |-> FALSE]]
       /\ proposals' = [proposals EXCEPT ![q].status = "approved"]
       /\ torn' = torn \ {p.path}
       /\ Decided(a)
       /\ UNCHANGED <<sessionVars, files, policy, ends, reviews, faults>>

\* Mutant: the file stays.
KeepInstalled(a) == files

rollback_or_inconsistent(a) == [files EXCEPT ![proposals[tasks[a].q].path] = tasks[a].prev]

ApprovalConflicts(a) ==
    LET q == tasks[a].q
        p == proposals[q]
    IN /\ At(a, "commit") /\ Pending(q)
       /\ pinned_refusal_applies(p.path) \/ TargetChanged(p)
       /\ proposals' = [proposals EXCEPT ![q].status = "conflict"]
       /\ files' = rollback_or_inconsistent(a)
       /\ Decided(a)
       /\ UNCHANGED <<sessionVars, rows, torn, policy, boundVars>>

\* Somebody else has decided, or the call fails: a reviewer's other proposals
\* stay pending.
ApprovalFails(a) ==
    /\ At(a, "commit")
    /\ IF Pending(tasks[a].q) THEN faults < MaxFaults /\ faults' = faults + 1 ELSE UNCHANGED faults
    /\ files' = rollback_or_inconsistent(a)
    /\ Leaves(a)
    /\ UNCHANGED <<sessionVars, rows, torn, proposals, policy, ends, versions, reviews>>

-----------------------------------------------------------------------------
\* The model, a reader, the writer or the file of a proposal's copy fails.
ReviewFails(a) ==
    /\ \E step \in {"read", "pages", "llm", "stage", "final"} : At(a, step)
    /\ faults < MaxFaults /\ faults' = faults + 1
    /\ Leaves(a)
    /\ UNCHANGED <<sessionVars, pageVars, proposals, policy, ends, versions, reviews>>

\* The server stops and starts again.
Crashes ==
    /\ faults < MaxFaults /\ faults' = faults + 1
    /\ torn' = torn \cup {proposals[tasks[a].q].path : a \in {b \in Workers : Deciding(b)}}
    /\ tasks' = [a \in Workers |-> Idle]
    /\ UNCHANGED <<sessionVars, rows, files, proposals, policy, ends, versions, reviews>>

SchedulerSteps ==
    \/ Tick \/ ListCandidates
    \/ \E s \in Sessions, n \in 1..MaxEnds : claim_scheduler_session([s |-> s, ended |-> n])

ReviewSteps(a) ==
    \/ preflight_rejection(a) \/ ReadBriefing(a) \/ build_prompt_input(a) \/ ModelAnswers(a)
    \/ stage_run(a) \/ finalize_auto_improve_proposals(a)

DecisionSteps(a) ==
    fail_proposal(a) \/ InstallProposal(a) \/ approve_proposal(a) \/ ApprovalConflicts(a) \/ ApprovalFails(a)

Next ==
    \/ \E s \in Sessions : SessionEnds(s) \/ SessionAges(s) \/ SessionEndsAgain(s) \/ handle_auto_improve(s)
    \/ memory_auto_improve \/ handle_curator \/ handle_auto_improve_report
    \/ \E x \in Edited : PageDeleted(x) \/ PageReindexed(x) \/ \E kept \in {FALSE, (x \in Pinnable)} : PageWritten(x, kept)
    \/ SchedulerSteps
    \/ \E a \in Reviewers : ReviewSteps(a) \/ ReviewFails(a)
    \/ \E a \in Workers : DecisionSteps(a)
    \/ \E q \in Proposals : handle_pending_write_approve(q) \/ reject_proposal(q)
    \/ Crashes

\* The scheduler ticks, calls are answered and sessions grow old.
Spec ==
    /\ Init /\ [][Next]_improveVars
    /\ WF_improveVars(SchedulerSteps \/ ReviewSteps(Scheduler) \/ DecisionSteps(Scheduler))
    /\ WF_improveVars(\E a \in {Manual, Curator} : DecisionSteps(a))
    /\ \A s \in Sessions : WF_improveVars(SessionAges(s))

-----------------------------------------------------------------------------
(* Properties.                                                             *)

\* An approval replaces a page only as the proposal was about it, however long
\* the review and the wait for a decision took: a patch a page that says what
\* its reviewer read, a new page nothing, and nothing a page pinned since.
NoBlindOverwrite ==
    [][\A q \in Proposals : (Pending(q) /\ proposals'[q].status = "approved") =>
          LET p == proposals[q] IN
          /\ rows[p.path] # NULL => ~rows[p.path].kept
          /\ p.op = "create" <=> rows[p.path] = NULL
          /\ IF p.mode = "patch" THEN Body(p.path) = p.seen ELSE Version(p.path) = p.base]_improveVars

\* The index and search never have a body that a model proposed and nobody
\* approved, also beside pages that change, a conflict, a failing store or
\* another's decision. The file has it before that, and whoever reads the page
\* then gets it, for readers take no lock: but only while the decision on that
\* very proposal is under way, which takes the body back unless it approves.
\* A page whose decision a crash cut short is excepted.
OnlyApprovedStays ==
    \A x \in Paths \ torn, q \in Proposals :
        /\ rows[x] # NULL /\ rows[x].body = q => proposals[q].status = "approved"
        /\ files[x] = q =>
              \/ proposals[q].status = "approved"
              \/ proposals[q].path = x /\ \E a \in Workers : Deciding(a) /\ tasks[a].q = q

\* A session that ends after the scheduler's first tick is taken up, by the
\* scheduler or by a review somebody asked for: whether the review it is taken
\* up for finishes is not said, and one that fails is not repeated.
SessionsReached ==
    \A s \in Sessions :
        (IF watermark = NULL \/ sessions[s].ended = NULL THEN FALSE ELSE sessions[s].ended > watermark)
            ~> (s \in claims \cup runs)

TypeOK ==
    /\ sessions \in [Sessions -> [ended : 1..MaxEnds \cup {NULL}, aged : BOOLEAN]]
    /\ watermark \in 0..MaxEnds \cup {NULL}
    /\ claims \subseteq Sessions /\ runs \subseteq Sessions
    /\ files \in [Paths -> 1..MaxVersions \cup Proposals \cup {NULL}]
    /\ torn \subseteq Paths /\ policy \in BOOLEAN
    /\ ends \in 0..MaxEnds /\ versions \in 1..MaxVersions /\ reviews \in 0..MaxReviews /\ faults \in 0..MaxFaults
=============================================================================
