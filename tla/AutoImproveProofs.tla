--------------------------- MODULE AutoImproveProofs ---------------------------
(***************************************************************************)
(* Theorems of AutoImprove, for any sessions, pages, proposals and bounds: *)
(* an approval replaces a page only as its proposal was about it, a body   *)
(* that a model proposed is indexed only once it is approved, the scheduler*)
(* reviews a session once at most, and a tick comes to its end.            *)
(***************************************************************************)
EXTENDS AutoImprove, FiniteSetTheorems, WellFoundedInduction, TLAPS

Staged == {q \in Proposals : proposals[q].status # "none"}
Approved(q) == q \in Staged /\ proposals[q].status = "approved"

\* Bodies and versions: a version's number is never used again.
Shape ==
    /\ DOMAIN rows = Paths /\ DOMAIN files = Paths
    /\ DOMAIN proposals = Proposals /\ DOMAIN tasks = Workers
    /\ versions \in Nat
    /\ \A x \in Paths : rows[x] # NULL => rows[x].v \in 1..versions

\* What a worker has in hand.
TaskOK(t) ==
    /\ t.step \in {"admit", "commit"} => t.q \in Staged
    /\ t.step \in {"final", "admit", "commit"} => t.final \subseteq Staged
    /\ t.step \in {"read", "pages", "llm", "stage"} =>
           \A d \in t.drafts : d.path \in Paths /\ (d.mode = "patch" => d.op = "update")
TasksOK == \A a \in Workers : TaskOK(tasks[a])

\* A proposal remembers the version it is about; if the page is still that
\* version, it says what the reviewer read.
ProposalOK(p) ==
    /\ p.path \in Paths /\ p.base \in 0..versions
    /\ p.op = "create" => p.base = 0
    /\ p.mode = "patch" => p.op = "update"
    /\ p.mode = "patch" /\ rows[p.path] # NULL /\ rows[p.path].v = p.base => rows[p.path].body = p.seen
ProposalsOK == \A q \in Staged : ProposalOK(proposals[q])

\* One worker at a time has installed a file that is not decided on; the file
\* it would bring back is no undecided body either.
OneDecides == \A a, b \in Workers : Deciding(a) /\ Deciding(b) => a = b
Installed ==
    \A a \in Workers : Deciding(a) =>
        LET x == proposals[tasks[a].q].path IN
        files[x] = tasks[a].q /\ (x \notin torn => \A q \in Proposals : tasks[a].prev = q => Approved(q))

FilesOK ==
    \A x \in Paths \ torn, q \in Proposals : files[x] = q =>
        Approved(q) \/ \E a \in Workers : Deciding(a) /\ tasks[a].q = q /\ proposals[q].path = x
RowsOK ==
    \A x \in Paths \ torn, q \in Proposals : rows[x] # NULL /\ rows[x].body = q => Approved(q)

IInv == Shape /\ TasksOK /\ ProposalsOK /\ OneDecides /\ Installed /\ FilesOK /\ RowsOK

-----------------------------------------------------------------------------
LEMMA InitIInv == Init => IInv
<1> SUFFICES ASSUME Init PROVE IInv
  OBVIOUS
<1> USE DEF Init
<1>1. \A q \in Proposals : proposals[q].status = "none"
  BY DEF NoProposal
<1>2. \A a \in Workers : tasks[a].step = "idle"
  BY DEF Idle
<1>3. \A x \in Paths : (rows[x] = NULL \/ (rows[x].v = 1 /\ rows[x].body = 1)) /\ (files[x] = NULL \/ files[x] = 1)
  OBVIOUS
<1>4. \A q \in Proposals : q # NULL /\ q # 1
  BY BodiesAssumption
<1>5. Shape
  BY <1>3 DEF Shape
<1>6. TasksOK /\ OneDecides /\ Installed
  BY <1>2 DEF TasksOK, TaskOK, OneDecides, Installed, Deciding, At
<1>7. ProposalsOK
  BY <1>1 DEF ProposalsOK, Staged
<1>8. FilesOK /\ RowsOK
  BY <1>3, <1>4 DEF FilesOK, RowsOK
<1> QED
  BY <1>5, <1>6, <1>7, <1>8 DEF IInv

-----------------------------------------------------------------------------
(* Steps that change what the workers are at and nothing else.              *)

LEMMA TasksStep ==
  ASSUME IInv, UNCHANGED <<rows, files, torn, proposals, versions>>,
         DOMAIN tasks' = Workers, \A a \in Workers : TaskOK(tasks'[a]),
         \A a \in Workers : tasks[a].step = "commit" \/ tasks'[a].step = "commit" => tasks'[a] = tasks[a]
  PROVE  IInv'
<1>1. \A a \in Workers : Deciding(a) \/ Deciding(a)' => Deciding(a) /\ Deciding(a)' /\ tasks'[a] = tasks[a]
  BY DEF Deciding, At
<1>2. Staged' = Staged /\ (\A q \in Proposals : Approved(q)' <=> Approved(q))
  BY DEF Staged, Approved
<1>3. Shape' /\ RowsOK'
  BY <1>2 DEF IInv, Shape, RowsOK
<1>4. TasksOK'
  BY <1>2 DEF TasksOK, TaskOK
<1>5. ProposalsOK'
  BY <1>2 DEF IInv, ProposalsOK, ProposalOK
<1>6. OneDecides'
  BY <1>1 DEF IInv, OneDecides
<1>7. Installed'
  BY <1>1, <1>2 DEF IInv, Installed
<1>8. FilesOK'
  BY <1>1, <1>2 DEF IInv, FilesOK
<1> QED
  BY <1>3, <1>4, <1>5, <1>6, <1>7, <1>8 DEF IInv

\* A worker that gives up is idle, or claims its tick's next session.
LEMMA LeavesFacts ==
  ASSUME IInv, NEW a \in Workers, Leaves(a)
  PROVE  /\ DOMAIN tasks' = Workers /\ \A b \in Workers \ {a} : tasks'[b] = tasks[b]
         /\ tasks'[a].step \in {"idle", "claim"} /\ TaskOK(tasks'[a])
<1> DEFINE todo == tasks[a].todo
<1>1. \A t : t.step \in {"idle", "claim"} => TaskOK(t)
  BY DEF TaskOK
<1>2. Claiming(todo).step \in {"idle", "claim"} /\ Idle.step = "idle"
  BY DEF Claiming, Idle
<1>3. DOMAIN tasks = Workers
  BY DEF IInv, Shape
<1>4. tasks' = [tasks EXCEPT ![a] = IF a = Scheduler THEN Claiming(todo) ELSE Idle]
  BY DEF Leaves
<1> HIDE DEF todo
<1> QED
  BY <1>1, <1>2, <1>3, <1>4

\* One worker goes on, before or after the time its file is undecided.
LEMMA WorkerStep ==
  ASSUME IInv, UNCHANGED <<rows, files, torn, proposals, versions>>, NEW a \in Workers,
         DOMAIN tasks' = Workers, \A b \in Workers \ {a} : tasks'[b] = tasks[b],
         tasks[a].step # "commit", tasks'[a].step # "commit", TaskOK(tasks'[a])
  PROVE  IInv'
<1>1. \A b \in Workers : TaskOK(tasks'[b])
  BY DEF IInv, TasksOK
<1> QED
  BY <1>1, TasksStep

LEMMA SchedulerIInv ==
  ASSUME IInv, SchedulerSteps
  PROVE  IInv'
<1>1. DOMAIN tasks = Workers /\ Scheduler \in Workers
  BY DEF IInv, Shape, Workers
<1>2. \A t : t.step \in {"idle", "claim", "list"} => TaskOK(t)
  BY DEF TaskOK
<1>3. CASE Tick
  <2>1. tasks' = [tasks EXCEPT ![Scheduler] = [step |-> "list"]] /\ tasks[Scheduler].step = "idle"
        /\ UNCHANGED <<rows, files, torn, proposals, versions>>
    BY <1>3 DEF Tick, At, pageVars, boundVars
  <2>2. /\ DOMAIN tasks' = Workers /\ (\A b \in Workers \ {Scheduler} : tasks'[b] = tasks[b])
        /\ tasks'[Scheduler].step = "list"
    BY <1>1, <2>1
  <2> QED
    BY <1>1, <1>2, <2>1, <2>2, WorkerStep
<1>4. CASE ListCandidates
  <2> DEFINE todo == {[s |-> s, ended |-> sessions[s].ended] : s \in auto_improve_candidate_sessions}
  <2>1. tasks' = [tasks EXCEPT ![Scheduler] = Claiming(todo)] /\ tasks[Scheduler].step = "list"
        /\ UNCHANGED <<rows, files, torn, proposals, versions>>
    BY <1>4 DEF ListCandidates, At, pageVars, boundVars
  <2> HIDE DEF todo
  <2>2. /\ DOMAIN tasks' = Workers /\ (\A b \in Workers \ {Scheduler} : tasks'[b] = tasks[b])
        /\ tasks'[Scheduler].step \in {"idle", "claim"}
    BY <1>1, <2>1 DEF Claiming, Idle
  <2> QED
    BY <1>1, <1>2, <2>1, <2>2, WorkerStep
<1>5. ASSUME NEW c, claim_scheduler_session(c) PROVE IInv'
  <2>1. tasks[Scheduler].step = "claim" /\ UNCHANGED <<rows, files, torn, proposals, versions>>
    BY <1>5 DEF claim_scheduler_session, At, pageVars, boundVars
  <2>2. /\ DOMAIN tasks' = Workers /\ (\A b \in Workers \ {Scheduler} : tasks'[b] = tasks[b])
        /\ tasks'[Scheduler].step # "commit" /\ TaskOK(tasks'[Scheduler])
    <3>1. CASE tasks' = [tasks EXCEPT ![Scheduler] = Review(Scheduler, c.s)]
      <4>1. Review(Scheduler, c.s).step = "read" /\ Review(Scheduler, c.s).drafts = {}
        BY DEF Review
      <4>2. TaskOK(Review(Scheduler, c.s))
        BY <4>1 DEF TaskOK
      <4> QED
        BY <1>1, <3>1, <4>1, <4>2
    <3>2. CASE tasks' = [tasks EXCEPT ![Scheduler] = Claiming(@.todo \ {c})]
      BY <1>1, <1>2, <3>2 DEF Claiming, Idle
    <3> QED
      BY <1>5, <3>1, <3>2 DEF claim_scheduler_session
  <2> QED
    BY <1>1, <2>1, <2>2, WorkerStep
<1> QED
  BY <1>3, <1>4, <1>5 DEF SchedulerSteps

LEMMA AskedIInv ==
  ASSUME IInv, (\E s \in Sessions : handle_auto_improve(s)) \/ memory_auto_improve \/ StagesReport \/ (\E q \in Proposals : handle_pending_write_approve(q))
  PROVE  IInv'
<1>1. DOMAIN tasks = Workers /\ Manual \in Workers /\ Curator \in Workers
  BY DEF IInv, Shape, Workers
<1>2. ASSUME NEW s \in Sessions, handle_auto_improve(s) PROVE IInv'
  <2>1. Review(Manual, s).step = "read" /\ Review(Manual, s).drafts = {}
    BY DEF Review
  <2>2. TaskOK(Review(Manual, s))
    BY <2>1 DEF TaskOK
  <2>3. tasks' = [tasks EXCEPT ![Manual] = Review(Manual, s)] /\ tasks[Manual].step = "idle"
        /\ UNCHANGED <<rows, files, torn, proposals, versions>>
    BY <1>2 DEF handle_auto_improve, At, pageVars
  <2> QED
    BY <1>1, <2>1, <2>2, <2>3, WorkerStep
<1>3. ASSUME NEW q \in Proposals, handle_pending_write_approve(q) PROVE IInv'
  <2> DEFINE t == [step |-> "admit", q |-> q, prev |-> NULL, final |-> {}]
  <2>1. TaskOK(t)
    BY <1>3 DEF TaskOK, handle_pending_write_approve, Staged, Unused
  <2>2. tasks' = [tasks EXCEPT ![Curator] = t] /\ tasks[Curator].step = "idle"
        /\ UNCHANGED <<rows, files, torn, proposals, versions>>
    BY <1>3 DEF handle_pending_write_approve, At, pageVars
  <2>3. t.step = "admit"
    OBVIOUS
  <2> HIDE DEF t
  <2> QED
    BY <1>1, <2>1, <2>2, <2>3, WorkerStep
<1>4. CASE memory_auto_improve
  BY <1>2, <1>4 DEF memory_auto_improve, latest_completed_session_for_project
<1>5. CASE StagesReport
  <2> DEFINE draft == [path |-> Report, mode |-> "full_page", op |-> target_operation_for_page(Report), expected |-> NULL]
             t == [Review(Manual, NULL) EXCEPT !.step = "stage", !.drafts = {draft}]
  <2>1. draft.path \in Paths /\ draft.mode # "patch"
    BY DEF Paths
  <2>2. tasks' = [tasks EXCEPT ![Manual] = t] /\ tasks[Manual].step = "idle"
        /\ UNCHANGED <<rows, files, torn, proposals, versions>>
    BY <1>5 DEF StagesReport, At, pageVars
  <2> HIDE DEF draft
  <2>3. t.step = "stage" /\ t.drafts = {draft}
    BY DEF Review
  <2>4. TaskOK(t)
    BY <2>1, <2>3 DEF TaskOK
  <2> HIDE DEF t
  <2> QED
    BY <1>1, <2>2, <2>3, <2>4, WorkerStep
<1> QED
  BY <1>2, <1>3, <1>4, <1>5

\* What a validated answer is about.
LEMMA DraftsOK ==
  ASSUME IInv, NEW a \in Workers, NEW d \in validate_proposal(a)
  PROVE  d.path \in Paths /\ (d.mode = "patch" => Operation(d) = "update")
<1>1. Patchable \subseteq Paths
  BY DEF Paths
<1> QED
  BY <1>1 DEF validate_proposal, validate_patch_proposal, validate_full_page_proposal, Operation

LEMMA ReviewIInv ==
  ASSUME IInv, NEW a \in Reviewers,
         preflight_rejection(a) \/ ReadBriefing(a) \/ build_prompt_input(a) \/ ModelAnswers(a) \/ finalize_auto_improve_proposals(a) \/ ReviewFails(a)
  PROVE  IInv'
<1>1. DOMAIN tasks = Workers /\ a \in Workers /\ TaskOK(tasks[a])
  BY DEF IInv, Shape, TasksOK, Workers, Reviewers
<1>2. UNCHANGED <<rows, files, torn, proposals, versions>> /\ tasks[a].step \in {"read", "pages", "llm", "stage", "final"}
  BY DEF preflight_rejection, ReadBriefing, build_prompt_input, ModelAnswers, finalize_auto_improve_proposals, ReviewFails, At, pageVars, boundVars
<1>3. CASE preflight_rejection(a)
  <2>1. tasks' = [tasks EXCEPT ![a] = [tasks[a] EXCEPT !.step = "stage"]] /\ tasks[a].step = "read"
    BY <1>3 DEF preflight_rejection, At
  <2>2. TaskOK(tasks'[a]) /\ tasks'[a].step = "stage"
    BY <1>1, <2>1 DEF TaskOK
  <2> QED
    BY <1>1, <1>2, <2>1, <2>2, WorkerStep
<1>4. CASE ReadBriefing(a)
  <2> DEFINE known == RecentPages
  <2>1. tasks' = [tasks EXCEPT ![a] = [tasks[a] EXCEPT !.step = "pages", !.known = known]] /\ tasks[a].step = "read"
    BY <1>4 DEF ReadBriefing, At
  <2> HIDE DEF known
  <2>2. TaskOK(tasks'[a]) /\ tasks'[a].step = "pages"
    BY <1>1, <2>1 DEF TaskOK
  <2> QED
    BY <1>1, <1>2, <2>1, <2>2, WorkerStep
<1>8. CASE build_prompt_input(a)
  <2>1. PICK shown \in render_patchable_pages(load_patchable_pages(tasks[a].known)) :
          tasks' = [tasks EXCEPT ![a] =
              [tasks[a] EXCEPT !.step = "llm", !.seen = [x \in Paths |-> IF x \in shown THEN Body(x) ELSE NULL]]]
    BY <1>8 DEF build_prompt_input
  <2> DEFINE seen == [x \in Paths |-> IF x \in shown THEN Body(x) ELSE NULL]
  <2>2. tasks' = [tasks EXCEPT ![a] = [tasks[a] EXCEPT !.step = "llm", !.seen = seen]] /\ tasks[a].step = "pages"
    BY <1>8, <2>1 DEF build_prompt_input, At
  <2> HIDE DEF seen
  <2>3. TaskOK(tasks'[a]) /\ tasks'[a].step = "llm"
    BY <1>1, <2>2 DEF TaskOK
  <2>4. DOMAIN tasks' = Workers /\ \A b \in Workers \ {a} : tasks'[b] = tasks[b]
    BY <1>1, <2>2
  <2>5. tasks[a].step # "commit" /\ tasks'[a].step # "commit"
    BY <2>2, <2>3
  <2> QED
    BY <1>1, <1>2, <2>3, <2>4, <2>5, WorkerStep
<1>5. CASE ModelAnswers(a)
  <2> DEFINE seen == tasks[a].seen
  <2>1. PICK answer \in validate_response(a) : \E drafts \in apply_eval_gate(answer) :
          tasks' = [tasks EXCEPT ![a] = [tasks[a] EXCEPT !.step = "stage", !.known = {}, !.seen = NULL,
               !.drafts = auto_improve_new_proposals(drafts, seen)]]
    BY <1>5 DEF ModelAnswers
  <2>2. PICK drafts \in SUBSET answer :
          tasks' = [tasks EXCEPT ![a] = [tasks[a] EXCEPT !.step = "stage", !.known = {}, !.seen = NULL,
               !.drafts = auto_improve_new_proposals(drafts, seen)]]
    BY <2>1 DEF apply_eval_gate
  <2> DEFINE new == auto_improve_new_proposals(drafts, seen)
  <2>3. drafts \subseteq validate_proposal(a)
    BY <2>1, <2>2 DEF validate_response, kSubset
  <2>4. \A d \in new : d.path \in Paths /\ (d.mode = "patch" => d.op = "update")
    <3> SUFFICES ASSUME NEW d \in drafts
        PROVE  d.path \in Paths /\ (d.mode = "patch" => Operation(d) = "update")
      BY DEF auto_improve_new_proposals
    <3> QED
      BY <1>1, <2>3, DraftsOK
  <2> HIDE DEF new
  <2>5. tasks'[a].step = "stage" /\ tasks'[a].drafts = new /\ \A b \in Workers \ {a} : tasks'[b] = tasks[b]
    BY <1>1, <2>2 DEF new
  <2>6. TaskOK(tasks'[a]) /\ DOMAIN tasks' = Workers
    BY <1>1, <2>2, <2>4, <2>5 DEF TaskOK
  <2>7. tasks[a].step # "commit"
    BY <1>2
  <2> QED
    BY <1>1, <1>2, <2>5, <2>6, <2>7, WorkerStep
<1>6. CASE finalize_auto_improve_proposals(a)
  <2>1. CASE Leaves(a)
    BY <1>1, <1>2, <2>1, LeavesFacts, WorkerStep
  <2>2. ASSUME NEW q \in tasks[a].final,
               tasks' = [tasks EXCEPT ![a] = [tasks[a] EXCEPT !.step = "admit", !.q = q, !.final = @ \ {q}]]
        PROVE  IInv'
    <3>1. tasks[a].final \subseteq Staged
      BY <1>1, <1>6 DEF TaskOK, finalize_auto_improve_proposals, At
    <3>2. /\ tasks'[a].step = "admit" /\ tasks'[a].q = q /\ tasks'[a].final = tasks[a].final \ {q}
          /\ DOMAIN tasks' = Workers /\ \A b \in Workers \ {a} : tasks'[b] = tasks[b]
      BY <1>1, <2>2
    <3>3. TaskOK(tasks'[a])
      BY <3>1, <3>2 DEF TaskOK
    <3>4. tasks[a].step # "commit"
      BY <1>2
    <3> QED
      BY <1>1, <1>2, <3>2, <3>3, <3>4, WorkerStep
  <2> QED
    BY <1>6, <2>1, <2>2 DEF finalize_auto_improve_proposals
<1>7. CASE ReviewFails(a)
  BY <1>1, <1>2, <1>7, LeavesFacts, WorkerStep DEF ReviewFails
<1> QED
  BY <1>3, <1>4, <1>5, <1>6, <1>7, <1>8

-----------------------------------------------------------------------------
(* Pages change while nothing is being decided.                             *)

\* A page gets a version that is new, or none.
LEMMA PageStep ==
  ASSUME IInv, ~Locked, NEW x \in Paths, UNCHANGED <<proposals, tasks>>,
         versions' = versions + 1, DOMAIN rows' = Paths, DOMAIN files' = Paths,
         \A y \in Paths \ {x} : rows'[y] = rows[y] /\ files'[y] = files[y],
         rows'[x] # NULL => rows'[x].v = versions',
         torn' = torn \/ torn' = torn \ {x},
         x \notin torn' => \A q \in Proposals : (rows'[x] # NULL /\ rows'[x].body = q) \/ files'[x] = q => Approved(q)
  PROVE  IInv'
<1>1. versions \in Nat /\ versions' \in Nat
  BY DEF IInv, Shape
<1>2. \A a \in Workers : ~Deciding(a) /\ ~Deciding(a)'
  BY DEF Locked, Deciding, At
<1>3. Staged' = Staged /\ \A q \in Proposals : Approved(q)' <=> Approved(q)
  BY DEF Staged, Approved
<1>4. Shape'
  BY <1>1 DEF IInv, Shape
<1>5. TasksOK'
  BY <1>3 DEF IInv, TasksOK, TaskOK
<1>6. ProposalsOK'
  <2> SUFFICES ASSUME NEW q \in Staged PROVE ProposalOK(proposals[q])'
    BY <1>3 DEF ProposalsOK
  <2>1. ProposalOK(proposals[q])
    BY DEF IInv, ProposalsOK
  <2>2. CASE proposals[q].path = x
    BY <1>1, <2>1, <2>2 DEF ProposalOK
  <2>3. CASE proposals[q].path # x
    BY <1>1, <2>1, <2>3 DEF ProposalOK
  <2> QED
    BY <2>2, <2>3
<1>7. OneDecides' /\ Installed'
  BY <1>2 DEF OneDecides, Installed
<1>8. FilesOK'
  BY <1>2, <1>3 DEF IInv, FilesOK
<1>9. RowsOK'
  BY <1>2, <1>3 DEF IInv, RowsOK
<1> QED
  BY <1>4, <1>5, <1>6, <1>7, <1>8, <1>9 DEF IInv

LEMMA PagesIInv ==
  ASSUME IInv, NEW x \in Paths,
         PageDeleted(x) \/ PageReindexed(x) \/ \E kept \in {FALSE, (x \in Pinnable)} : PageWritten(x, kept)
  PROVE  IInv'
<1>1. DOMAIN rows = Paths /\ DOMAIN files = Paths /\ versions \in Nat /\ ~Locked
      /\ versions' = versions + 1 /\ UNCHANGED <<proposals, tasks>>
  BY DEF IInv, Shape, PageDeleted, PageReindexed, PageWritten, NextVersion
<1>2. \A q \in Proposals : q # NULL /\ q # versions + 1
  BY <1>1, BodiesAssumption
<1>3. CASE PageDeleted(x)
  <2>1. rows' = [rows EXCEPT ![x] = NULL] /\ files' = [files EXCEPT ![x] = NULL] /\ torn' = torn \ {x}
    BY <1>3 DEF PageDeleted
  <2> QED
    BY <1>1, <1>2, <2>1, PageStep
<1>4. CASE PageReindexed(x)
  <2>1. /\ rows' = [rows EXCEPT ![x] = [v |-> versions', body |-> files[x], kept |-> FALSE]]
        /\ UNCHANGED <<files, torn>>
    BY <1>4 DEF PageReindexed
  <2>2. x \notin torn => \A q \in Proposals : files[x] = q => Approved(q)
    BY <1>1 DEF IInv, FilesOK, Locked
  <2> QED
    BY <1>1, <1>2, <2>1, <2>2, PageStep
<1>5. ASSUME NEW kept, PageWritten(x, kept) PROVE IInv'
  <2>1. /\ rows' = [rows EXCEPT ![x] = [v |-> versions', body |-> versions', kept |-> kept]]
        /\ files' = [files EXCEPT ![x] = versions'] /\ torn' = torn \ {x}
    BY <1>5 DEF PageWritten
  <2> QED
    BY <1>1, <1>2, <2>1, PageStep
<1> QED
  BY <1>3, <1>4, <1>5

-----------------------------------------------------------------------------
(* Proposals.                                                               *)

\* Decisions that leave the rows alone: what is approved stays so, and no
\* worker starts deciding.
LEMMA SettleStep ==
  ASSUME IInv, UNCHANGED <<rows, torn, versions>>,
         DOMAIN proposals' = Proposals, Staged' = Staged,
         \A r \in Proposals : Approved(r) => Approved(r)',
         \A r \in Staged : /\ proposals'[r].path = proposals[r].path /\ proposals'[r].base = proposals[r].base
                          /\ proposals'[r].op = proposals[r].op /\ proposals'[r].mode = proposals[r].mode
                          /\ proposals'[r].seen = proposals[r].seen,
         DOMAIN tasks' = Workers, \A b \in Workers : TaskOK(tasks'[b]),
         \A b \in Workers : tasks'[b].step = "commit" => tasks'[b] = tasks[b],
         DOMAIN files' = Paths, FilesOK',
         \A b \in Workers : tasks'[b].step = "commit" =>
             files'[proposals[tasks[b].q].path] = files[proposals[tasks[b].q].path]
  PROVE  IInv'
<1>1. \A b \in Workers : Deciding(b)' => Deciding(b) /\ tasks'[b] = tasks[b] /\ tasks[b].q \in Staged
  BY DEF Deciding, At, IInv, TasksOK, TaskOK
<1>2. Shape' /\ OneDecides'
  BY <1>1 DEF IInv, Shape, OneDecides
<1>3. TasksOK'
  BY DEF TasksOK, TaskOK
<1>4. ProposalsOK'
  BY DEF IInv, ProposalsOK, ProposalOK
<1>5. Installed'
  <2> SUFFICES ASSUME NEW b \in Workers, Deciding(b)'
      PROVE  LET x == proposals'[tasks'[b].q].path IN
             files'[x] = tasks'[b].q /\ (x \notin torn' => \A q \in Proposals : tasks'[b].prev = q => Approved(q)')
    BY DEF Installed
  <2>1. tasks'[b] = tasks[b] /\ proposals'[tasks[b].q].path = proposals[tasks[b].q].path
    BY <1>1
  <2>2. files'[proposals[tasks[b].q].path] = files[proposals[tasks[b].q].path]
    BY DEF Deciding, At
  <2> DEFINE x == proposals[tasks[b].q].path
  <2>3. files[x] = tasks[b].q /\ (x \notin torn => \A q \in Proposals : tasks[b].prev = q => Approved(q))
    BY <1>1 DEF IInv, Installed
  <2> HIDE DEF x
  <2>4. files'[x] = tasks[b].q /\ (x \notin torn' => \A q \in Proposals : tasks[b].prev = q => Approved(q)')
    BY <2>2, <2>3 DEF x
  <2>5. proposals'[tasks'[b].q].path = x /\ tasks'[b] = tasks[b]
    BY <2>1 DEF x
  <2> QED
    BY <2>4, <2>5
<1>6. RowsOK'
  BY DEF IInv, RowsOK
<1> QED
  BY <1>2, <1>3, <1>4, <1>5, <1>6 DEF IInv

\* The outcome of a proposal that waits.
LEMMA StatusFacts ==
  ASSUME IInv, NEW q \in Proposals, Pending(q), NEW status, status # "none",
         proposals' = [proposals EXCEPT ![q].status = status]
  PROVE  /\ DOMAIN proposals' = Proposals /\ Staged' = Staged /\ \A r \in Proposals : Approved(r) => Approved(r)'
         /\ \A r \in Staged : /\ proposals'[r].path = proposals[r].path /\ proposals'[r].base = proposals[r].base
                             /\ proposals'[r].op = proposals[r].op /\ proposals'[r].mode = proposals[r].mode
                             /\ proposals'[r].seen = proposals[r].seen
<1>1. DOMAIN proposals = Proposals /\ DOMAIN proposals' = Proposals
  BY DEF IInv, Shape
<1>2. Staged' = Staged /\ q \in Staged
  BY <1>1 DEF Staged, Pending
<1>3. \A r \in Proposals : Approved(r) => Approved(r)'
  BY <1>1, <1>2 DEF Approved, Pending
<1> QED
  BY <1>1, <1>2, <1>3 DEF Staged

\* Nothing happens to the files and nobody is done deciding.
LEMMA SameFiles ==
  ASSUME IInv, files' = files, torn' = torn, \A r \in Proposals : Approved(r) => Approved(r)',
         \A r \in Staged : proposals'[r].path = proposals[r].path,
         \A b \in Workers : tasks[b].step = "commit" => tasks'[b] = tasks[b]
  PROVE  FilesOK'
<1>1. \A b \in Workers : Deciding(b) => Deciding(b)' /\ tasks'[b] = tasks[b] /\ tasks[b].q \in Staged
  BY DEF Deciding, At, IInv, TasksOK, TaskOK
<1> QED
  BY <1>1 DEF IInv, FilesOK

LEMMA RejectIInv ==
  ASSUME IInv, NEW q \in Proposals, reject_proposal(q)
  PROVE  IInv'
<1>1. /\ Pending(q) /\ proposals' = [proposals EXCEPT ![q].status = "rejected"]
      /\ UNCHANGED <<rows, files, torn, versions, tasks>>
  BY DEF reject_proposal, pageVars
<1>2. FilesOK'
  BY <1>1, StatusFacts, SameFiles DEF IInv, Shape
<1>3. DOMAIN tasks = Workers /\ DOMAIN files = Paths /\ \A b \in Workers : TaskOK(tasks[b])
  BY DEF IInv, Shape, TasksOK
<1> QED
  BY <1>1, <1>2, <1>3, StatusFacts, SettleStep

LEMMA FailIInv ==
  ASSUME IInv, NEW a \in Workers, fail_proposal(a)
  PROVE  IInv'
<1>1. /\ tasks[a].step = "admit" /\ Leaves(a) /\ UNCHANGED <<rows, files, torn, versions>>
      /\ tasks[a].q \in Proposals
  BY DEF fail_proposal, At, pageVars, IInv, TasksOK, TaskOK, Staged
<1>2. /\ DOMAIN proposals' = Proposals /\ Staged' = Staged /\ \A r \in Proposals : Approved(r) => Approved(r)'
      /\ \A r \in Staged : /\ proposals'[r].path = proposals[r].path /\ proposals'[r].base = proposals[r].base
                          /\ proposals'[r].op = proposals[r].op /\ proposals'[r].mode = proposals[r].mode
                          /\ proposals'[r].seen = proposals[r].seen
  <2>1. CASE Pending(tasks[a].q) /\ proposals' = [proposals EXCEPT ![tasks[a].q].status = "failed"]
    BY <1>1, <2>1, StatusFacts
  <2>2. CASE proposals' = proposals
    BY <2>2 DEF IInv, Shape, Staged, Approved
  <2> QED
    BY <2>1, <2>2 DEF fail_proposal
<1>3. FilesOK'
  BY <1>1, <1>2, LeavesFacts, SameFiles
<1>4. DOMAIN files = Paths /\ \A b \in Workers : TaskOK(tasks[b])
  BY DEF IInv, Shape, TasksOK
<1>5. /\ DOMAIN tasks' = Workers /\ (\A b \in Workers : TaskOK(tasks'[b]))
      /\ \A b \in Workers : tasks'[b].step = "commit" => tasks'[b] = tasks[b]
  BY <1>1, <1>4, LeavesFacts
<1> QED
  BY <1>1, <1>2, <1>3, <1>4, <1>5, SettleStep

LEMMA StageRunIInv ==
  ASSUME IInv, NEW a \in Reviewers, stage_run(a)
  PROVE  IInv'
<1> DEFINE t == tasks[a]
           ids == NewIds(t.drafts)
<1>1. DOMAIN tasks = Workers /\ DOMAIN proposals = Proposals /\ a \in Workers /\ TaskOK(t)
      /\ t.step = "stage" /\ UNCHANGED <<rows, files, torn, versions>>
  BY DEF IInv, Shape, TasksOK, Workers, Reviewers, stage_run, At, pageVars, boundVars
<1>2. CASE Leaves(a) /\ UNCHANGED proposals
  BY <1>1, <1>2, LeavesFacts, WorkerStep
<1>3. ASSUME NEW f \in Bijection(ids, t.drafts), \A d \in t.drafts : Stageable(d),
             proposals' = [q \in Proposals |-> IF q \notin ids THEN proposals[q] ELSE
                             [status |-> "pending", mode |-> f[q].mode, op |-> f[q].op, path |-> f[q].path,
                              base |-> Version(f[q].path), seen |-> f[q].expected]],
             tasks' = [tasks EXCEPT ![a] = [tasks[a] EXCEPT !.step = "final", !.drafts = {}, !.final = ids]]
      PROVE  IInv'
  <2>1. ids \subseteq Unused
    BY DEF stage_run, EnoughIds, NewIds
  <2>2. \A q \in ids : q \in Proposals /\ q \notin Staged /\ f[q] \in t.drafts
    BY <2>1 DEF Unused, Staged, Bijection, Injection
  <2> HIDE DEF ids
  <2>3. /\ DOMAIN proposals' = Proposals
        /\ \A q \in Proposals \ ids : proposals'[q] = proposals[q]
        /\ \A q \in ids : /\ proposals'[q].status = "pending" /\ proposals'[q].path = f[q].path
                         /\ proposals'[q].mode = f[q].mode /\ proposals'[q].op = f[q].op
                         /\ proposals'[q].base = Version(f[q].path) /\ proposals'[q].seen = f[q].expected
    BY <1>3, <2>2
  <2>4. Staged' = Staged \cup ids /\ \A q \in Staged : proposals'[q] = proposals[q]
    BY <2>2, <2>3 DEF Staged
  <2>5. \A q \in Proposals : Approved(q)' <=> Approved(q)
    BY <2>2, <2>3, <2>4 DEF Approved
  <2>6. /\ DOMAIN tasks' = Workers /\ (\A b \in Workers \ {a} : tasks'[b] = tasks[b])
        /\ tasks'[a].step = "final" /\ tasks'[a].final = ids
    BY <1>1, <1>3
  <2>7. \A b \in Workers : Deciding(b) \/ Deciding(b)' => Deciding(b) /\ Deciding(b)' /\ tasks'[b] = tasks[b]
    BY <1>1, <2>6 DEF Deciding, At
  <2>8. \A b \in Workers : Deciding(b) => tasks[b].q \in Staged
    BY DEF IInv, TasksOK, TaskOK, Deciding, At
  <2>9. Shape' /\ OneDecides'
    BY <1>1, <2>3, <2>6, <2>7 DEF IInv, Shape, OneDecides
  <2>10. TasksOK'
    BY <2>4, <2>6 DEF IInv, TasksOK, TaskOK
  <2>11. ProposalsOK'
    <3>1. ASSUME NEW q \in Staged PROVE ProposalOK(proposals[q])'
      BY <1>1, <2>4 DEF IInv, ProposalsOK, ProposalOK
    <3>2. ASSUME NEW q \in ids PROVE ProposalOK(proposals[q])'
      <4> DEFINE d == f[q]
      <4>1. d \in t.drafts /\ d.path \in Paths /\ (d.mode = "patch" => d.op = "update")
        BY <1>1, <2>2 DEF TaskOK
      <4>2. /\ (d.op = "create") <=> (rows[d.path] = NULL)
            /\ d.mode = "patch" => Body(d.path) = d.expected
        BY <1>3, <4>1 DEF Stageable
      <4>3. Version(d.path) \in 0..versions /\ (rows[d.path] = NULL => Version(d.path) = 0)
        BY <4>1 DEF IInv, Shape, Version
      <4> HIDE DEF d, t
      <4>4. /\ proposals'[q].path = d.path /\ proposals'[q].mode = d.mode /\ proposals'[q].op = d.op
            /\ proposals'[q].base = Version(d.path) /\ proposals'[q].seen = d.expected
        BY <2>3 DEF d, t
      <4> QED
        BY <1>1, <4>1, <4>2, <4>3, <4>4 DEF ProposalOK, Body
    <3> QED
      BY <2>4, <3>1, <3>2 DEF ProposalsOK
  <2>12. Installed' /\ FilesOK' /\ RowsOK'
    <3>1. Installed'
      BY <1>1, <2>4, <2>5, <2>7, <2>8 DEF IInv, Installed
    <3>2. FilesOK'
      BY <1>1, <2>4, <2>5, <2>7, <2>8 DEF IInv, FilesOK
    <3>3. RowsOK'
      BY <1>1, <2>5 DEF IInv, RowsOK
    <3> QED
      BY <3>1, <3>2, <3>3
  <2> QED
    BY <2>9, <2>10, <2>11, <2>12 DEF IInv
<1> QED
  BY <1>2, <1>3, Zenon DEF stage_run

-----------------------------------------------------------------------------
(* Decisions.                                                               *)

LEMMA InstallIInv ==
  ASSUME IInv, NEW a \in Workers, InstallProposal(a)
  PROVE  IInv'
<1> DEFINE q == tasks[a].q
           path == proposals[q].path
<1>1. /\ tasks[a].step = "admit" /\ ~Locked /\ UNCHANGED <<rows, torn, proposals, versions>>
      /\ files' = [files EXCEPT ![path] = q]
      /\ tasks' = [tasks EXCEPT ![a] = [tasks[a] EXCEPT !.step = "commit", !.prev = files[path]]]
  BY DEF InstallProposal, At, boundVars
<1>2. DOMAIN files = Paths /\ DOMAIN tasks = Workers /\ TaskOK(tasks[a]) /\ q \in Staged /\ path \in Paths
  BY <1>1 DEF IInv, Shape, TasksOK, TaskOK, ProposalsOK, ProposalOK
<1>3. \A b \in Workers : ~Deciding(b)
  BY <1>1 DEF Locked
<1>4. /\ DOMAIN tasks' = Workers /\ (\A b \in Workers \ {a} : tasks'[b] = tasks[b])
      /\ tasks'[a].step = "commit" /\ tasks'[a].q = q /\ tasks'[a].prev = files[path]
      /\ tasks'[a].final = tasks[a].final
  BY <1>1, <1>2
<1>5. DOMAIN files' = Paths /\ files'[path] = q /\ \A y \in Paths \ {path} : files'[y] = files[y]
  BY <1>1, <1>2
<1> HIDE DEF q, path
<1>6. Staged' = Staged /\ \A r \in Proposals : Approved(r)' <=> Approved(r)
  BY <1>1 DEF Staged, Approved
<1>7. \A b \in Workers : Deciding(b)' <=> b = a
  BY <1>3, <1>4 DEF Deciding, At
<1>8. \A x \in Paths \ torn, r \in Proposals : files[x] = r => Approved(r)
  BY <1>3 DEF IInv, FilesOK
<1>9. Shape' /\ OneDecides'
  BY <1>1, <1>4, <1>5, <1>7 DEF IInv, Shape, OneDecides
<1>10. TasksOK'
  BY <1>1, <1>2, <1>4, <1>6 DEF IInv, TasksOK, TaskOK, q
<1>11. ProposalsOK' /\ RowsOK'
  <2>1. ProposalsOK'
    BY <1>1, <1>6 DEF IInv, ProposalsOK, ProposalOK
  <2>2. RowsOK'
    BY <1>1, <1>6 DEF IInv, RowsOK
  <2> QED
    BY <2>1, <2>2
<1>12. Installed'
  BY <1>1, <1>2, <1>4, <1>5, <1>6, <1>7, <1>8 DEF Installed, path, q
<1>13. FilesOK'
  <2> SUFFICES ASSUME NEW x \in Paths \ torn, NEW r \in Proposals, files'[x] = r
      PROVE  Approved(r) \/ (r = q /\ x = path)
    BY <1>1, <1>4, <1>6, <1>7 DEF FilesOK, path, q
  <2> QED
    BY <1>5, <1>8
<1> QED
  BY <1>9, <1>10, <1>11, <1>12, <1>13 DEF IInv

\* The approval is turned down, or fails: what was in the file comes back.
LEMMA UndoneIInv ==
  ASSUME IInv, NEW a \in Workers, ApprovalConflicts(a) \/ ApprovalFails(a)
  PROVE  IInv'
<1> DEFINE q == tasks[a].q
           path == proposals[q].path
<1>1. /\ tasks[a].step = "commit" /\ UNCHANGED <<rows, torn, versions>> /\ TaskOK(tasks[a])
      /\ files' = [files EXCEPT ![path] = tasks[a].prev] /\ DOMAIN files = Paths /\ DOMAIN tasks = Workers
  BY DEF ApprovalConflicts, ApprovalFails, rollback_or_inconsistent, At, boundVars, IInv, Shape, TasksOK
<1>2. q \in Staged /\ q \in Proposals /\ path \in Paths /\ Deciding(a)
  BY <1>1 DEF TaskOK, IInv, ProposalsOK, ProposalOK, Staged, Deciding, At
<1>3. /\ DOMAIN proposals' = Proposals /\ Staged' = Staged /\ \A r \in Proposals : Approved(r) => Approved(r)'
      /\ \A r \in Staged : /\ proposals'[r].path = proposals[r].path /\ proposals'[r].base = proposals[r].base
                          /\ proposals'[r].op = proposals[r].op /\ proposals'[r].mode = proposals[r].mode
                          /\ proposals'[r].seen = proposals[r].seen
  <2>1. CASE ApprovalConflicts(a)
    <3>1. Pending(q) /\ proposals' = [proposals EXCEPT ![q].status = "conflict"]
      BY <2>1 DEF ApprovalConflicts
    <3> QED
      BY <1>2, <3>1, StatusFacts
  <2>2. CASE ApprovalFails(a)
    BY <2>2 DEF ApprovalFails, IInv, Shape, Staged, Approved
  <2> QED
    BY <2>1, <2>2
<1>4. /\ DOMAIN tasks' = Workers /\ (\A b \in Workers \ {a} : tasks'[b] = tasks[b])
      /\ tasks'[a].step # "commit" /\ TaskOK(tasks'[a])
  <2>1. CASE Decided(a)
    <3>1. CASE tasks' = [tasks EXCEPT ![a] = Idle]
      BY <1>1, <3>1 DEF Idle, TaskOK
    <3>2. CASE tasks' = [tasks EXCEPT ![a] = [tasks[a] EXCEPT !.step = "final", !.q = NULL, !.prev = NULL]]
      <4>1. tasks'[a].step = "final" /\ tasks'[a].final = tasks[a].final
            /\ DOMAIN tasks' = Workers /\ \A b \in Workers \ {a} : tasks'[b] = tasks[b]
        BY <1>1, <3>2
      <4> QED
        BY <1>1, <4>1 DEF TaskOK
    <3> QED
      BY <2>1, <3>1, <3>2 DEF Decided
  <2>2. CASE Leaves(a)
    BY <2>2, LeavesFacts
  <2> QED
    BY <2>1, <2>2 DEF ApprovalConflicts, ApprovalFails
<1>5. DOMAIN files' = Paths /\ files'[path] = tasks[a].prev /\ \A y \in Paths \ {path} : files'[y] = files[y]
  BY <1>1, <1>2
<1>6. \A b \in Workers : Deciding(b) => b = a
  BY <1>2 DEF IInv, OneDecides
<1>7. FilesOK'
  <2> SUFFICES ASSUME NEW x \in Paths \ torn, NEW r \in Proposals, files'[x] = r PROVE Approved(r)
    BY <1>1, <1>3 DEF FilesOK
  <2>1. CASE x = path
    BY <1>2, <1>5, <2>1 DEF IInv, Installed
  <2>2. CASE x # path
    BY <1>5, <1>6, <2>2 DEF IInv, FilesOK
  <2> QED
    BY <2>1, <2>2
<1>8. /\ \A b \in Workers : TaskOK(tasks'[b])
      /\ \A b \in Workers : tasks'[b].step = "commit" => tasks'[b] = tasks[b]
      /\ \A b \in Workers : tasks'[b].step # "commit"
  BY <1>4, <1>6 DEF IInv, TasksOK, Deciding, At
<1> QED
  BY <1>1, <1>3, <1>4, <1>5, <1>7, <1>8, SettleStep

\* What an approval meets: the page is the one the proposal was staged for.
LEMMA ApprovalFacts ==
  ASSUME IInv, NEW a \in Workers, approve_proposal(a)
  PROVE  LET p == proposals[tasks[a].q] IN
         /\ rows[p.path] # NULL => ~rows[p.path].kept
         /\ p.op = "create" <=> rows[p.path] = NULL
         /\ IF p.mode = "patch" THEN Body(p.path) = p.seen ELSE Version(p.path) = p.base
<1> DEFINE p == proposals[tasks[a].q]
<1>1. tasks[a].q \in Staged /\ ~pinned_refusal_applies(p.path) /\ ~TargetChanged(p)
  BY DEF approve_proposal, IInv, TasksOK, TaskOK, At
<1>2. ProposalOK(p)
  BY <1>1 DEF IInv, ProposalsOK
<1> HIDE DEF p
<1>3. rows[p.path] # NULL => ~rows[p.path].kept
  BY <1>1 DEF pinned_refusal_applies
<1>4. p.op = "create" <=> rows[p.path] = NULL
  BY <1>1 DEF TargetChanged
<1>5. p.op # "create" => rows[p.path].v = p.base
  BY <1>1 DEF TargetChanged, Version
<1>6. IF p.mode = "patch" THEN Body(p.path) = p.seen ELSE Version(p.path) = p.base
  BY <1>2, <1>4, <1>5 DEF ProposalOK, Body, Version
<1> QED
  BY <1>3, <1>4, <1>6 DEF p

LEMMA ApproveIInv ==
  ASSUME IInv, NEW a \in Workers, approve_proposal(a)
  PROVE  IInv'
<1> DEFINE q == tasks[a].q
           path == proposals[q].path
<1>1. /\ tasks[a].step = "commit" /\ Pending(q) /\ TaskOK(tasks[a]) /\ UNCHANGED files
      /\ versions' = versions + 1 /\ versions \in Nat /\ torn' = torn \ {path}
      /\ rows' = [rows EXCEPT ![path] = [v |-> versions', body |-> q, kept |-> FALSE]]
      /\ proposals' = [proposals EXCEPT ![q].status = "approved"]
      /\ DOMAIN rows = Paths /\ DOMAIN files = Paths /\ DOMAIN tasks = Workers /\ DOMAIN proposals = Proposals
  BY DEF approve_proposal, NextVersion, At, IInv, Shape, TasksOK
<1>2. q \in Staged /\ q \in Proposals /\ path \in Paths /\ Deciding(a)
  BY <1>1 DEF TaskOK, IInv, ProposalsOK, ProposalOK, Staged, Deciding, At
<1>3. /\ DOMAIN proposals' = Proposals /\ Staged' = Staged /\ \A r \in Proposals : Approved(r) => Approved(r)'
      /\ \A r \in Staged : /\ proposals'[r].path = proposals[r].path /\ proposals'[r].base = proposals[r].base
                          /\ proposals'[r].op = proposals[r].op /\ proposals'[r].mode = proposals[r].mode
                          /\ proposals'[r].seen = proposals[r].seen
  BY <1>1, <1>2, StatusFacts
<1>4. \A r \in Proposals : r = q => Approved(r)'
  BY <1>1, <1>2, <1>3 DEF Approved
<1>5. /\ DOMAIN tasks' = Workers /\ (\A b \in Workers \ {a} : tasks'[b] = tasks[b])
      /\ tasks'[a].step # "commit" /\ TaskOK(tasks'[a])
  <2>1. CASE tasks' = [tasks EXCEPT ![a] = Idle]
    BY <1>1, <2>1 DEF Idle, TaskOK
  <2>2. CASE tasks' = [tasks EXCEPT ![a] = [tasks[a] EXCEPT !.step = "final", !.q = NULL, !.prev = NULL]]
    <3>1. tasks'[a].step = "final" /\ tasks'[a].final = tasks[a].final
          /\ DOMAIN tasks' = Workers /\ \A b \in Workers \ {a} : tasks'[b] = tasks[b]
      BY <1>1, <2>2
    <3> QED
      BY <1>1, <3>1 DEF TaskOK
  <2> QED
    BY <2>1, <2>2 DEF approve_proposal, Decided
<1>6. \A b \in Workers : Deciding(b) => b = a
  BY <1>2 DEF IInv, OneDecides
<1>7. \A b \in Workers : ~Deciding(b)'
  BY <1>5, <1>6 DEF Deciding, At
<1>8. DOMAIN rows' = Paths /\ rows'[path].v = versions' /\ rows'[path].body = q
      /\ \A y \in Paths \ {path} : rows'[y] = rows[y]
  BY <1>1, <1>2
<1> HIDE DEF q, path
<1>9. Shape'
  BY <1>1, <1>3, <1>5, <1>8 DEF IInv, Shape
<1>10. TasksOK' /\ OneDecides' /\ Installed'
  BY <1>3, <1>5, <1>7 DEF IInv, TasksOK, TaskOK, OneDecides, Installed
<1>11. ProposalsOK'
  <2> SUFFICES ASSUME NEW r \in Staged PROVE ProposalOK(proposals[r])'
    BY <1>3 DEF ProposalsOK
  <2>1. ProposalOK(proposals[r])
    BY DEF IInv, ProposalsOK
  <2>2. CASE proposals[r].path = path
    BY <1>1, <1>3, <1>8, <2>1, <2>2 DEF ProposalOK
  <2>3. CASE proposals[r].path # path
    BY <1>1, <1>3, <1>8, <2>1, <2>3 DEF ProposalOK
  <2> QED
    BY <2>2, <2>3
<1>12. FilesOK'
  <2> SUFFICES ASSUME NEW x \in Paths \ torn', NEW r \in Proposals, files[x] = r PROVE Approved(r)'
    BY <1>1 DEF FilesOK
  <2>1. CASE x = path
    BY <1>2, <1>4, <2>1 DEF IInv, Installed, q, path
  <2>2. CASE x # path
    BY <1>1, <1>3, <1>6, <2>2 DEF IInv, FilesOK, q, path
  <2> QED
    BY <2>1, <2>2
<1>13. RowsOK'
  <2> SUFFICES ASSUME NEW x \in Paths \ torn', NEW r \in Proposals, rows'[x] # NULL, rows'[x].body = r
      PROVE  Approved(r)'
    BY DEF RowsOK
  <2>1. CASE x = path
    BY <1>4, <1>8, <2>1
  <2>2. CASE x # path
    BY <1>1, <1>3, <1>8, <2>2 DEF IInv, RowsOK
  <2> QED
    BY <2>1, <2>2
<1> QED
  BY <1>9, <1>10, <1>11, <1>12, <1>13 DEF IInv

LEMMA CrashIInv ==
  ASSUME IInv, Crashes
  PROVE  IInv'
<1>1. /\ UNCHANGED <<rows, files, proposals, versions>> /\ tasks' = [a \in Workers |-> Idle]
      /\ torn' = torn \cup {proposals[tasks[a].q].path : a \in {b \in Workers : Deciding(b)}}
  BY DEF Crashes
<1>2. DOMAIN tasks' = Workers /\ \A a \in Workers : tasks'[a].step = "idle"
  BY <1>1 DEF Idle
<1>3. Staged' = Staged /\ \A r \in Proposals : Approved(r)' <=> Approved(r)
  BY <1>1 DEF Staged, Approved
<1>4. Shape' /\ ProposalsOK' /\ RowsOK'
  BY <1>1, <1>2, <1>3 DEF IInv, Shape, ProposalsOK, ProposalOK, RowsOK
<1>5. TasksOK' /\ OneDecides' /\ Installed'
  BY <1>2 DEF TasksOK, TaskOK, OneDecides, Installed, Deciding, At
<1>6. FilesOK'
  <2> SUFFICES ASSUME NEW x \in Paths \ torn', NEW r \in Proposals, files[x] = r PROVE Approved(r)
    BY <1>1, <1>3 DEF FilesOK
  <2>1. x \notin torn /\ \A a \in Workers : Deciding(a) => proposals[tasks[a].q].path # x
    BY <1>1
  <2> QED
    BY <2>1 DEF IInv, FilesOK
<1> QED
  BY <1>4, <1>5, <1>6 DEF IInv

-----------------------------------------------------------------------------
LEMMA SessionsIInv ==
  ASSUME IInv, (\E s \in Sessions : SessionEnds(s) \/ SessionAges(s) \/ SessionEndsAgain(s)) \/ UNCHANGED improveVars
  PROVE  IInv'
<1>1. UNCHANGED <<rows, files, torn, proposals, versions, tasks>>
  BY DEF SessionEnds, SessionAges, SessionEndsAgain, improveVars, pageVars, boundVars
<1>2. DOMAIN tasks = Workers /\ \A a \in Workers : TaskOK(tasks[a])
  BY DEF IInv, Shape, TasksOK
<1> QED
  BY <1>1, <1>2, TasksStep

LEMMA NextIInv == IInv /\ [Next]_improveVars => IInv'
<1> SUFFICES ASSUME IInv, [Next]_improveVars PROVE IInv'
  OBVIOUS
<1>1. ASSUME NEW a \in Reviewers, ReviewSteps(a) \/ ReviewFails(a) PROVE IInv'
  BY <1>1, ReviewIInv, StageRunIInv DEF ReviewSteps
<1>2. ASSUME NEW a \in Workers, DecisionSteps(a) PROVE IInv'
  BY <1>2, FailIInv, InstallIInv, ApproveIInv, UndoneIInv DEF DecisionSteps
<1> QED
  BY <1>1, <1>2, EditedAssumption, SessionsIInv, AskedIInv, PagesIInv, SchedulerIInv, RejectIInv, CrashIInv DEF Next, handle_curator, handle_auto_improve_report

LEMMA SpecIInv == Spec => []IInv
  BY InitIInv, NextIInv, PTL DEF Spec

\* A body that a model proposed is in the index, and stays in the page's file,
\* only once it is approved: the file has it before only while the decision on
\* that proposal is under way. It holds whatever happens to pages, sessions and
\* calls during a review, except on a page whose decision a crash interrupted.
THEOREM ProposedBodiesWait == Spec => []OnlyApprovedStays
<1>1. IInv => OnlyApprovedStays
  BY DEF IInv, FilesOK, RowsOK, OnlyApprovedStays, Approved
<1> QED
  BY <1>1, SpecIInv, PTL

LEMMA OtherOutcome ==
  ASSUME IInv, NEW q \in Proposals, proposals[q].status = "pending", NEW r \in Proposals,
         NEW status, status # "approved", proposals' = [proposals EXCEPT ![r].status = status]
  PROVE  proposals'[q].status # "approved"
<1>1. DOMAIN proposals = Proposals
  BY DEF IInv, Shape
<1>2. CASE q = r
  BY <1>1, <1>2
<1>3. CASE q # r
  BY <1>1, <1>3
<1> QED
  BY <1>2, <1>3

\* A proposal's status becomes approved in an approval and nowhere else.
LEMMA OnlyApprovals ==
  ASSUME IInv, [Next]_improveVars, NEW q \in Proposals, Pending(q), proposals'[q].status = "approved"
  PROVE  \E a \in Workers : approve_proposal(a) /\ tasks[a].q = q
<1>1. DOMAIN proposals = Proposals /\ proposals[q].status = "pending" /\ proposals' # proposals
  BY DEF IInv, Shape, Pending
<1>2. ~SchedulerSteps
  BY <1>1 DEF SchedulerSteps, Tick, ListCandidates, claim_scheduler_session
<1>3. ASSUME NEW a \in Reviewers PROVE ~ReviewSteps(a) /\ ~ReviewFails(a)
  <2>1. ASSUME stage_run(a) PROVE FALSE
    <3> DEFINE ids == NewIds(tasks[a].drafts)
    <3>1. ids \subseteq Unused
      BY <2>1 DEF stage_run, EnoughIds, NewIds
    <3>2. q \notin ids
      BY <1>1, <3>1 DEF Unused
    <3> HIDE DEF ids
    <3>3. proposals'[q] = proposals[q]
      BY <1>1, <2>1, <3>2 DEF stage_run, ids
    <3> QED
      BY <1>1, <3>3
  <2>2. ~preflight_rejection(a) /\ ~ReadBriefing(a)
    BY <1>1 DEF preflight_rejection, ReadBriefing
  <2>3. ~build_prompt_input(a) /\ ~ModelAnswers(a)
    BY <1>1 DEF build_prompt_input, ModelAnswers
  <2>4. ~finalize_auto_improve_proposals(a) /\ ~ReviewFails(a)
    BY <1>1 DEF finalize_auto_improve_proposals, ReviewFails
  <2> QED
    BY <2>1, <2>2, <2>3, <2>4 DEF ReviewSteps
<1>4. ASSUME NEW a \in Workers, DecisionSteps(a) PROVE approve_proposal(a) /\ tasks[a].q = q
  <2>1. ~fail_proposal(a)
    BY <1>1, OtherOutcome DEF fail_proposal, IInv, TasksOK, TaskOK, At, Staged
  <2>2. ~InstallProposal(a) /\ ~ApprovalFails(a)
    BY <1>1 DEF InstallProposal, ApprovalFails
  <2>3. ~ApprovalConflicts(a)
    <3> SUFFICES ASSUME ApprovalConflicts(a) PROVE FALSE
      OBVIOUS
    <3>1. tasks[a].q \in Proposals /\ proposals' = [proposals EXCEPT ![tasks[a].q].status = "conflict"]
      BY DEF ApprovalConflicts, IInv, TasksOK, TaskOK, At, Staged
    <3> QED
      BY <1>1, <3>1, OtherOutcome
  <2>4. approve_proposal(a)
    BY <1>4, <2>1, <2>2, <2>3 DEF DecisionSteps
  <2> QED
    BY <1>1, <2>4 DEF approve_proposal
<1>5. \A s \in Sessions : ~SessionEnds(s) /\ ~SessionAges(s) /\ ~SessionEndsAgain(s) /\ ~handle_auto_improve(s)
  BY <1>1 DEF SessionEnds, SessionAges, SessionEndsAgain, handle_auto_improve
<1>9. ~memory_auto_improve /\ ~StagesReport
  BY <1>1 DEF handle_auto_improve, memory_auto_improve, StagesReport
<1>6. \A x \in Paths : ~PageDeleted(x) /\ ~PageReindexed(x) /\ \A kept \in {FALSE, (x \in Pinnable)} : ~PageWritten(x, kept)
  BY <1>1 DEF PageDeleted, PageReindexed, PageWritten
<1>7. \A r \in Proposals : ~handle_pending_write_approve(r) /\ ~reject_proposal(r)
  BY <1>1, OtherOutcome DEF handle_pending_write_approve, reject_proposal
<1>8. ~Crashes /\ ~UNCHANGED improveVars
  BY <1>1 DEF Crashes, improveVars
<1> QED
  BY <1>2, <1>3, <1>4, <1>5, <1>6, <1>7, <1>8, <1>9, EditedAssumption DEF Next, handle_curator, handle_auto_improve_report

\* An approval replaces a page only as its proposal was about it: a patch a
\* page that says what the reviewer read, a new page nothing, and nothing a
\* page pinned since, however long the review and the decision took.
THEOREM NoApprovalIsBlind == Spec => NoBlindOverwrite
<1>1. IInv /\ [Next]_improveVars =>
        \A q \in Proposals : (Pending(q) /\ proposals'[q].status = "approved") =>
          LET p == proposals[q] IN
          /\ rows[p.path] # NULL => ~rows[p.path].kept
          /\ p.op = "create" <=> rows[p.path] = NULL
          /\ IF p.mode = "patch" THEN Body(p.path) = p.seen ELSE Version(p.path) = p.base
  <2> SUFFICES ASSUME IInv, [Next]_improveVars, NEW q \in Proposals, Pending(q), proposals'[q].status = "approved"
      PROVE  LET p == proposals[q] IN
             /\ rows[p.path] # NULL => ~rows[p.path].kept
             /\ p.op = "create" <=> rows[p.path] = NULL
             /\ IF p.mode = "patch" THEN Body(p.path) = p.seen ELSE Version(p.path) = p.base
    BY Zenon
  <2>1. PICK a \in Workers : approve_proposal(a) /\ tasks[a].q = q
    BY OnlyApprovals
  <2> QED
    BY <2>1, ApprovalFacts
<1> QED
  BY <1>1, SpecIInv, PTL DEF Spec, NoBlindOverwrite

-----------------------------------------------------------------------------
(* What workers carry, and which sessions the scheduler takes up.           *)

Bodies == 1..MaxVersions \cup Proposals \cup {NULL}

\* At work on a review or a decision.
Working == {"read", "pages", "llm", "stage", "final", "admit", "commit"}
Due(s) == watermark # NULL /\ sessions[s].ended # NULL /\ sessions[s].ended > watermark

Carried ==
    /\ \A a \in Workers : At(a, "commit") => tasks[a].prev \in Bodies
    /\ \A a \in Reviewers : tasks[a].step \in Working => tasks[a].session \in Sessions \cup {NULL}

\* Dates have been, and a tick at work has set the watermark.
Dated ==
    /\ \A s \in Sessions : sessions[s].ended # NULL => sessions[s].ended <= ends
    /\ watermark # NULL => watermark <= ends
    /\ ~At(Scheduler, "idle") => watermark # NULL

\* The scheduler reviews what it claimed, and claimed what was due.
Claimed ==
    /\ tasks[Scheduler].step \in {"idle", "list", "claim"} \cup Working
    /\ tasks[Scheduler].step \in {"claim"} \cup Working => IsFiniteSet(tasks[Scheduler].todo)
    /\ tasks[Scheduler].step \in Working => tasks[Scheduler].session \in claims
    /\ \A s \in claims : Due(s)

Taken == TypeOK /\ Carried /\ Dated /\ Claimed

\* How a reviewer goes on.
GivesUp(a, t, u) == u = IF a = Scheduler THEN Claiming(t.todo) ELSE Idle
GoesOn(t, u) ==
    /\ u.session = t.session /\ u.todo = t.todo
    /\ \/ t.step = "read" /\ u.step \in {"pages", "stage"}
       \/ t.step = "pages" /\ u.step = "llm"
       \/ t.step = "llm" /\ u.step = "stage"
       \/ t.step = "stage" /\ u.step = "final" /\ u.final \subseteq Proposals
       \/ t.step = "final" /\ u.step = "admit" /\ \E q \in t.final : u.final = t.final \ {q}
       \/ t.step = "admit" /\ u.step = "commit" /\ u.final = t.final
       \/ t.step = "commit" /\ u.step = "final" /\ u.final = t.final

LEMMA WorkersDiffer == Scheduler # Manual /\ Scheduler # Curator /\ Manual # Curator
<1>1. \A x, y : IsFiniteSet({x, y}) /\ Cardinality({x, y}) <= 2
  <2> SUFFICES ASSUME NEW x, NEW y PROVE IsFiniteSet({x, y}) /\ Cardinality({x, y}) <= 2
    OBVIOUS
  <2>1. IsFiniteSet({x}) /\ Cardinality({x}) = 1
    BY FS_Singleton
  <2>2. /\ IsFiniteSet({x} \cup {y})
        /\ Cardinality({x} \cup {y}) = IF y \in {x} THEN Cardinality({x}) ELSE Cardinality({x}) + 1
    BY <2>1, FS_AddElement
  <2>3. {x} \cup {y} = {x, y}
    OBVIOUS
  <2> QED
    BY <2>1, <2>2, <2>3
<1>2. Scheduler = Manual \/ Scheduler = Curator => {Scheduler, Manual, Curator} = {Manual, Curator}
  OBVIOUS
<1>3. Manual = Curator => {Scheduler, Manual, Curator} = {Scheduler, Manual}
  OBVIOUS
<1>4. Cardinality({Manual, Curator}) <= 2 /\ Cardinality({Scheduler, Manual}) <= 2
  BY <1>1
<1>5. Cardinality({Scheduler, Manual, Curator}) = 3
  BY WorkersAssumption
<1>6. 3 <= 2 => FALSE
  OBVIOUS
<1>7. {Scheduler, Manual, Curator} # {Manual, Curator} /\ {Scheduler, Manual, Curator} # {Scheduler, Manual}
  BY <1>4, <1>5, <1>6, Zenon
<1> QED
  BY <1>2, <1>3, <1>7, Zenon

LEMMA LeavesGivesUp ==
  ASSUME IInv, NEW a \in Reviewers, Leaves(a)
  PROVE  /\ \A b \in Workers \ {a} : tasks'[b] = tasks[b]
         /\ GivesUp(a, tasks[a], tasks'[a])
<1> DEFINE todo == tasks[a].todo
<1>1. DOMAIN tasks = Workers /\ a \in Workers
  BY DEF IInv, Shape, Reviewers, Workers
<1>2. tasks' = [tasks EXCEPT ![a] = IF a = Scheduler THEN Claiming(todo) ELSE Idle]
  BY DEF Leaves
<1> HIDE DEF todo
<1>3. tasks'[a] = (IF a = Scheduler THEN Claiming(todo) ELSE Idle) /\ \A b \in Workers \ {a} : tasks'[b] = tasks[b]
  BY <1>1, <1>2
<1> QED
  BY <1>3 DEF GivesUp, todo

\* One step of a review.
LEMMA ReviewGoes ==
  ASSUME IInv, NEW a \in Reviewers, ReviewSteps(a) \/ ReviewFails(a)
  PROVE  /\ \A b \in Workers \ {a} : tasks'[b] = tasks[b]
         /\ GivesUp(a, tasks[a], tasks'[a]) \/ GoesOn(tasks[a], tasks'[a])
         /\ tasks[a].step \in Working
<1> DEFINE t == tasks[a]
           u == tasks'[a]
<1>1. DOMAIN tasks = Workers /\ a \in Workers
  BY DEF IInv, Shape, Reviewers, Workers
<1>2. CASE preflight_rejection(a)
  <2>1. tasks' = [tasks EXCEPT ![a] = [tasks[a] EXCEPT !.step = "stage"]] /\ tasks[a].step = "read"
    BY <1>2 DEF preflight_rejection, At
  <2> QED
    BY <1>1, <2>1 DEF GoesOn, Working
<1>3. CASE ReadBriefing(a)
  <2> DEFINE known == RecentPages
  <2>1. tasks' = [tasks EXCEPT ![a] = [tasks[a] EXCEPT !.step = "pages", !.known = known]] /\ tasks[a].step = "read"
    BY <1>3 DEF ReadBriefing, At
  <2> HIDE DEF known
  <2> QED
    BY <1>1, <2>1 DEF GoesOn, Working
<1>4. CASE build_prompt_input(a)
  <2>1. PICK shown \in render_patchable_pages(load_patchable_pages(tasks[a].known)) :
          tasks' = [tasks EXCEPT ![a] =
              [tasks[a] EXCEPT !.step = "llm", !.seen = [x \in Paths |-> IF x \in shown THEN Body(x) ELSE NULL]]]
    BY <1>4 DEF build_prompt_input
  <2> DEFINE seen == [x \in Paths |-> IF x \in shown THEN Body(x) ELSE NULL]
  <2>2. tasks' = [tasks EXCEPT ![a] = [tasks[a] EXCEPT !.step = "llm", !.seen = seen]] /\ tasks[a].step = "pages"
    BY <1>4, <2>1 DEF build_prompt_input, At
  <2> HIDE DEF seen
  <2> QED
    BY <1>1, <2>2 DEF GoesOn, Working
<1>5. CASE ModelAnswers(a)
  <2>1. PICK new :
          tasks' = [tasks EXCEPT ![a] = [tasks[a] EXCEPT !.step = "stage", !.known = {}, !.seen = NULL, !.drafts = new]]
    BY <1>5 DEF ModelAnswers
  <2>2. tasks[a].step = "llm"
    BY <1>5 DEF ModelAnswers, At
  <2> QED
    BY <1>1, <2>1, <2>2 DEF GoesOn, Working
<1>6. CASE stage_run(a)
  <2> DEFINE ids == NewIds(t.drafts)
  <2>1. t.step = "stage" /\ ids \subseteq Proposals
    BY <1>6 DEF stage_run, EnoughIds, NewIds, Unused, At
  <2>2. CASE Leaves(a)
    BY <2>1, <2>2, LeavesGivesUp DEF Working
  <2>3. CASE tasks' = [tasks EXCEPT ![a] = [tasks[a] EXCEPT !.step = "final", !.drafts = {}, !.final = ids]]
    <3> HIDE DEF ids
    <3> QED
      BY <1>1, <2>1, <2>3 DEF GoesOn, Working
  <2> QED
    BY <1>6, <2>2, <2>3 DEF stage_run
<1>7. CASE finalize_auto_improve_proposals(a)
  <2>1. t.step = "final"
    BY <1>7 DEF finalize_auto_improve_proposals, At
  <2>2. CASE Leaves(a)
    BY <2>1, <2>2, LeavesGivesUp DEF Working
  <2>3. ASSUME NEW q \in tasks[a].final,
               tasks' = [tasks EXCEPT ![a] = [tasks[a] EXCEPT !.step = "admit", !.q = q, !.final = @ \ {q}]]
        PROVE  (\A b \in Workers \ {a} : tasks'[b] = tasks[b]) /\ GoesOn(t, u)
    <3>1. /\ u.step = "admit" /\ u.final = t.final \ {q} /\ u.session = t.session /\ u.todo = t.todo
          /\ \A b \in Workers \ {a} : tasks'[b] = tasks[b]
      BY <1>1, <2>3
    <3> QED
      BY <2>1, <3>1 DEF GoesOn
  <2> QED
    BY <1>7, <2>1, <2>2, <2>3 DEF finalize_auto_improve_proposals, Working
<1>8. CASE ReviewFails(a)
  <2>1. Leaves(a) /\ tasks[a].step \in Working
    BY <1>8 DEF ReviewFails, At, Working
  <2> QED
    BY <2>1, LeavesGivesUp
<1> QED
  BY <1>2, <1>3, <1>4, <1>5, <1>6, <1>7, <1>8 DEF ReviewSteps

\* One step of a decision, of a reviewer's.
LEMMA DecisionGoes ==
  ASSUME IInv, NEW a \in Reviewers, DecisionSteps(a)
  PROVE  /\ \A b \in Workers \ {a} : tasks'[b] = tasks[b]
         /\ GivesUp(a, tasks[a], tasks'[a]) \/ GoesOn(tasks[a], tasks'[a])
         /\ tasks[a].step \in Working
<1>1. DOMAIN tasks = Workers /\ a \in Workers /\ a # Curator
  BY WorkersDiffer DEF IInv, Shape, Reviewers, Workers
<1>2. CASE Leaves(a) /\ tasks[a].step \in {"admit", "commit"}
  BY <1>2, LeavesGivesUp DEF Working
<1>3. CASE InstallProposal(a)
  <2> DEFINE prev == files[proposals[tasks[a].q].path]
  <2>1. tasks' = [tasks EXCEPT ![a] = [tasks[a] EXCEPT !.step = "commit", !.prev = prev]] /\ tasks[a].step = "admit"
    BY <1>3 DEF InstallProposal, At
  <2> HIDE DEF prev
  <2> QED
    BY <1>1, <2>1 DEF GoesOn, Working
<1>4. CASE Decided(a) /\ tasks[a].step = "commit"
  <2>1. tasks' = [tasks EXCEPT ![a] = [tasks[a] EXCEPT !.step = "final", !.q = NULL, !.prev = NULL]]
    BY <1>1, <1>4 DEF Decided
  <2> QED
    BY <1>1, <1>4, <2>1 DEF GoesOn, Working
<1> QED
  BY <1>2, <1>3, <1>4 DEF DecisionSteps, fail_proposal, approve_proposal, ApprovalConflicts, ApprovalFails, At

\* What a decision has in hand when it has installed a file is what was there.
LEMMA DecisionCarries ==
  ASSUME IInv, TypeOK, NEW a \in Workers, DecisionSteps(a)
  PROVE  /\ \A b \in Workers \ {a} : tasks'[b] = tasks[b]
         /\ tasks'[a].step = "commit" => tasks'[a].prev \in Bodies
<1>1. DOMAIN tasks = Workers
  BY DEF IInv, Shape
<1>2. CASE Leaves(a)
  BY <1>2, LeavesFacts
<1>3. CASE InstallProposal(a)
  <2> DEFINE prev == files[proposals[tasks[a].q].path]
  <2>1. tasks' = [tasks EXCEPT ![a] = [tasks[a] EXCEPT !.step = "commit", !.prev = prev]] /\ tasks[a].step = "admit"
    BY <1>3 DEF InstallProposal, At
  <2>2. proposals[tasks[a].q].path \in Paths
    BY <2>1 DEF IInv, TasksOK, TaskOK, ProposalsOK, ProposalOK
  <2>3. prev \in Bodies
    BY <2>2 DEF TypeOK, Bodies
  <2> HIDE DEF prev
  <2> QED
    BY <1>1, <2>1, <2>3
<1>4. CASE Decided(a)
  <2>1. CASE tasks' = [tasks EXCEPT ![a] = Idle]
    BY <1>1, <2>1 DEF Idle
  <2>2. CASE tasks' = [tasks EXCEPT ![a] = [tasks[a] EXCEPT !.step = "final", !.q = NULL, !.prev = NULL]]
    BY <1>1, <2>2
  <2> QED
    BY <1>4, <2>1, <2>2 DEF Decided
<1> QED
  BY <1>2, <1>3, <1>4 DEF DecisionSteps, fail_proposal, approve_proposal, ApprovalConflicts, ApprovalFails

-----------------------------------------------------------------------------
LEMMA InitTaken == Init => Taken
<1> SUFFICES ASSUME Init PROVE Taken
  OBVIOUS
<1>1. \A a \in Workers : tasks[a].step = "idle"
  BY DEF Init, Idle
<1>2. Scheduler \in Workers /\ Reviewers \subseteq Workers
  BY DEF Workers, Reviewers
<1>3. TypeOK
  <2>1. \A x \in Paths : files[x] \in 1..MaxVersions \cup {NULL}
    BY BoundsAssumption DEF Init
  <2>2. DOMAIN files = Paths /\ files = [x \in Paths |-> files[x]]
    BY DEF Init
  <2>3. files \in [Paths -> 1..MaxVersions \cup Proposals \cup {NULL}]
    BY <2>1, <2>2
  <2>4. sessions \in [Sessions -> [ended : 1..MaxEnds \cup {NULL}, aged : BOOLEAN]]
    BY DEF Init
  <2> QED
    BY <2>3, <2>4, BoundsAssumption DEF Init, TypeOK
<1>4. Carried
  BY <1>1, <1>2 DEF Carried, At, Working
<1>5. Dated
  BY <1>1, <1>2 DEF Init, Dated, At
<1>6. Claimed
  BY <1>1, <1>2 DEF Init, Claimed, Working
<1> QED
  BY <1>3, <1>4, <1>5, <1>6 DEF Taken

\* Sessions, pages and proposals change, the workers do not.
LEMMA OutsideTaken ==
  ASSUME Taken, TypeOK', UNCHANGED <<watermark, claims, tasks>>, ends' >= ends,
         \A s \in Sessions : /\ sessions'[s].ended # NULL => sessions'[s].ended <= ends'
                             /\ Due(s) => Due(s)'
  PROVE  Taken'
<1>1. Carried'
  BY DEF Taken, Carried, At
<1>2. Dated'
  <2>1. ends \in Nat /\ ends' \in Nat /\ (watermark # NULL => watermark \in Nat)
    BY BoundsAssumption DEF Taken, TypeOK
  <2>2. /\ watermark # NULL => watermark <= ends
        /\ tasks[Scheduler].step # "idle" => watermark # NULL
    BY DEF Taken, Dated, At
  <2>3. watermark' # NULL => watermark' <= ends'
    BY <2>1, <2>2
  <2>4. \A s \in Sessions : sessions'[s].ended # NULL => sessions'[s].ended <= ends'
    OBVIOUS
  <2>5. tasks'[Scheduler].step # "idle" => watermark' # NULL
    BY <2>2
  <2> QED
    BY <2>3, <2>4, <2>5 DEF Dated, At
<1>3. Claimed'
  <2>1. \A s \in claims' : Due(s)'
    <3>1. \A s \in claims : s \in Sessions /\ Due(s)
      BY DEF Taken, Claimed, TypeOK
    <3> QED
      BY <3>1 DEF Due
  <2> QED
    BY <2>1 DEF Taken, Claimed
<1> QED
  BY <1>1, <1>2, <1>3 DEF Taken

LEMMA SessionsTaken ==
  ASSUME Taken, NEW s \in Sessions, SessionEnds(s) \/ SessionAges(s) \/ SessionEndsAgain(s)
  PROVE  Taken' /\ \A r \in Sessions : Due(r) => Due(r)'
<1>1. /\ UNCHANGED <<watermark, claims, runs, files, torn, policy, tasks, versions, reviews, faults>>
      /\ sessions \in [Sessions -> [ended : 1..MaxEnds \cup {NULL}, aged : BOOLEAN]]
      /\ ends \in 0..MaxEnds /\ MaxEnds \in Nat
      /\ watermark # NULL => watermark \in Nat /\ watermark <= ends
  BY BoundsAssumption DEF SessionEnds, SessionAges, SessionEndsAgain, Taken, Dated, TypeOK, pageVars, boundVars
<1>2. NULL \notin Nat
  BY BodiesAssumption
<1>3. \A r \in Sessions : sessions[r].ended # NULL => sessions[r].ended \in Nat /\ sessions[r].ended <= ends
  BY <1>1 DEF Taken, Dated
<1>4. /\ sessions' \in [Sessions -> [ended : 1..MaxEnds \cup {NULL}, aged : BOOLEAN]]
      /\ ends' \in 0..MaxEnds /\ ends' >= ends
      /\ \A r \in Sessions \ {s} : sessions'[r] = sessions[r]
      /\ \/ ends' = ends /\ sessions'[s].ended = sessions[s].ended
         \/ ends' = ends + 1 /\ sessions'[s].ended = ends'
  <2>1. CASE SessionEnds(s)
    <3>1. /\ ends < MaxEnds /\ ends' = ends + 1
          /\ sessions' = [sessions EXCEPT ![s].ended = ends']
      BY <2>1 DEF SessionEnds, NextDate
    <3>2. ends' \in 1..MaxEnds
      BY <1>1, <3>1
    <3> QED
      BY <1>1, <3>1, <3>2
  <2>2. CASE SessionAges(s)
    <3>1. sessions' = [sessions EXCEPT ![s].aged = TRUE] /\ ends' = ends
      BY <2>2 DEF SessionAges, boundVars
    <3> DEFINE aged == [sessions[s] EXCEPT !.aged = TRUE]
    <3>2. aged \in [ended : 1..MaxEnds \cup {NULL}, aged : BOOLEAN] /\ aged.ended = sessions[s].ended
      BY <1>1
    <3>3. sessions' = [sessions EXCEPT ![s] = aged]
      BY <3>1
    <3> HIDE DEF aged
    <3>4. /\ sessions' \in [Sessions -> [ended : 1..MaxEnds \cup {NULL}, aged : BOOLEAN]]
          /\ sessions'[s] = aged /\ \A r \in Sessions \ {s} : sessions'[r] = sessions[r]
      BY <1>1, <3>2, <3>3
    <3> QED
      BY <1>1, <3>1, <3>2, <3>4
  <2>3. CASE SessionEndsAgain(s)
    <3>1. /\ ends < MaxEnds /\ ends' = ends + 1
          /\ sessions' = [sessions EXCEPT ![s] = [ended |-> ends', aged |-> FALSE]]
      BY <2>3 DEF SessionEndsAgain, NextDate
    <3>2. ends' \in 1..MaxEnds
      BY <1>1, <3>1
    <3> QED
      BY <1>1, <3>1, <3>2
  <2> QED
    BY <2>1, <2>2, <2>3
<1>5. TypeOK'
  BY <1>1, <1>4 DEF Taken, TypeOK
<1>6. \A r \in Sessions : /\ sessions'[r].ended # NULL => sessions'[r].ended <= ends'
                          /\ Due(r) => Due(r)'
  <2> SUFFICES ASSUME NEW r \in Sessions
      PROVE  /\ sessions'[r].ended # NULL => sessions'[r].ended <= ends'
             /\ Due(r) => Due(r)'
    OBVIOUS
  <2>1. CASE sessions'[r].ended = sessions[r].ended
    BY <1>1, <1>3, <1>4, <2>1 DEF Due
  <2>2. CASE ends' = ends + 1 /\ sessions'[r].ended = ends'
    BY <1>1, <1>2, <1>4, <2>2 DEF Due
  <2> QED
    BY <1>4, <2>1, <2>2
<1>7. Taken'
  <2>1. UNCHANGED <<watermark, claims, tasks>> /\ ends' >= ends
    BY <1>1, <1>4
  <2> QED
    BY <1>5, <1>6, <2>1, OutsideTaken DEF Due
<1> QED
  BY <1>6, <1>7 DEF Due

LEMMA PagesTaken ==
  ASSUME Taken, NEW x \in Paths,
         PageDeleted(x) \/ PageReindexed(x) \/ \E kept \in {FALSE, (x \in Pinnable)} : PageWritten(x, kept)
  PROVE  Taken'
<1>1. /\ UNCHANGED <<sessions, watermark, claims, runs, policy, tasks, ends, reviews, faults>>
      /\ versions < MaxVersions /\ versions' = versions + 1 /\ torn' \subseteq torn
  BY DEF PageDeleted, PageReindexed, PageWritten, NextVersion, sessionVars
<1>2. versions \in 1..MaxVersions /\ MaxVersions \in Nat /\ files \in [Paths -> Bodies] /\ ends \in 0..MaxEnds /\ MaxEnds \in Nat
  BY BoundsAssumption DEF Taken, TypeOK, Bodies
<1>3. versions' \in 1..MaxVersions
  BY <1>1, <1>2
<1>4. versions' \in Bodies /\ NULL \in Bodies
  BY <1>3 DEF Bodies
<1>5. files' \in [Paths -> Bodies]
  BY <1>2, <1>4 DEF PageDeleted, PageReindexed, PageWritten
<1>6. TypeOK'
  BY <1>1, <1>3, <1>5 DEF Taken, TypeOK, Bodies
<1>7. \A s \in Sessions : /\ sessions'[s].ended # NULL => sessions'[s].ended <= ends'
                          /\ Due(s) => Due(s)'
  BY <1>1 DEF Taken, Dated, Due
<1> QED
  BY <1>1, <1>2, <1>6, <1>7, OutsideTaken

LEMMA RejectTaken ==
  ASSUME Taken, NEW q \in Proposals, reject_proposal(q)
  PROVE  Taken'
<1>1. /\ UNCHANGED <<sessions, watermark, claims, runs, files, torn, policy, tasks, ends, versions, faults>>
      /\ reviews < MaxReviews /\ reviews' = reviews + 1
  BY DEF reject_proposal, sessionVars, pageVars
<1>2. TypeOK'
  BY <1>1, BoundsAssumption DEF Taken, TypeOK
<1>3. \A s \in Sessions : /\ sessions'[s].ended # NULL => sessions'[s].ended <= ends'
                          /\ Due(s) => Due(s)'
  BY <1>1 DEF Taken, Dated, Due
<1>4. ends \in Nat /\ ends' = ends
  BY <1>1, BoundsAssumption DEF Taken, TypeOK
<1>5. ends' >= ends
  BY <1>4
<1> QED
  BY <1>1, <1>2, <1>3, <1>5, OutsideTaken

-----------------------------------------------------------------------------
\* The workers go on, the sessions' dates stay and claims are only added.
LEMMA InsideTaken ==
  ASSUME Taken, TypeOK', UNCHANGED <<sessions, ends>>, claims \subseteq claims',
         watermark # NULL => watermark' = watermark,
         watermark' # NULL => watermark' <= ends,
         ~At(Scheduler, "idle")' => watermark' # NULL,
         \A s \in claims' \ claims : Due(s)',
         \A a \in Workers : tasks'[a] = tasks[a] \/ (tasks'[a].step = "commit" => tasks'[a].prev \in Bodies),
         \A a \in Reviewers : tasks'[a] = tasks[a] \/ (tasks'[a].step \in Working => tasks'[a].session \in Sessions \cup {NULL}),
         tasks'[Scheduler] = tasks[Scheduler] \/
             /\ tasks'[Scheduler].step \in {"idle", "list", "claim"} \cup Working
             /\ tasks'[Scheduler].step \in {"claim"} \cup Working => IsFiniteSet(tasks'[Scheduler].todo)
             /\ tasks'[Scheduler].step \in Working => tasks'[Scheduler].session \in claims'
  PROVE  Taken' /\ \A s \in Sessions : Due(s) => Due(s)'
<1>1. Carried'
  BY DEF Taken, Carried, At
<1>2. Dated'
  BY DEF Taken, Dated, At
<1>3. \A s \in Sessions : Due(s) => Due(s)'
  BY DEF Due
<1>4. Claimed'
  BY <1>3 DEF Taken, Claimed, TypeOK
<1> QED
  BY <1>1, <1>2, <1>3, <1>4 DEF Taken

\* One reviewer goes on with a review or gives it up.
LEMMA ReviewerTaken ==
  ASSUME Taken, TypeOK', NEW a \in Reviewers, UNCHANGED <<sessions, ends, watermark, claims>>,
         \A b \in Workers \ {a} : tasks'[b] = tasks[b],
         tasks'[a].step = "commit" => tasks'[a].prev \in Bodies,
         GivesUp(a, tasks[a], tasks'[a]) \/ GoesOn(tasks[a], tasks'[a]),
         tasks[a].step \in Working
  PROVE  Taken' /\ \A s \in Sessions : Due(s) => Due(s)'
<1> DEFINE t == tasks[a]
           u == tasks'[a]
<1>1. a \in Workers /\ Scheduler \in Workers /\ Reviewers \subseteq Workers /\ t.step # "idle"
  BY DEF Reviewers, Workers, Working
<1>2. u.step \in {"idle", "claim"} \cup Working
  <2>1. CASE GivesUp(a, t, u)
    BY <2>1 DEF GivesUp, Claiming, Idle
  <2>2. CASE GoesOn(t, u)
    BY <2>2 DEF GoesOn, Working
  <2> QED
    BY <2>1, <2>2
<1>3. u.step \in Working => u.session = t.session
  <2>1. CASE GivesUp(a, t, u)
    <3>1. u.step \in {"idle", "claim"}
      BY <2>1 DEF GivesUp, Claiming, Idle
    <3> QED
      BY <3>1 DEF Working
  <2>2. CASE GoesOn(t, u)
    BY <2>2 DEF GoesOn
  <2> QED
    BY <2>1, <2>2
<1>4. a = Scheduler => (u.step \in {"claim"} \cup Working => u.todo = t.todo)
  <2>1. CASE GivesUp(a, t, u)
    BY <2>1 DEF GivesUp, Claiming, Idle, Working
  <2>2. CASE GoesOn(t, u)
    BY <2>2 DEF GoesOn
  <2> QED
    BY <2>1, <2>2
<1>5. \A b \in Workers : tasks'[b] = tasks[b] \/ (tasks'[b].step = "commit" => tasks'[b].prev \in Bodies)
  BY <1>1
<1>6. \A b \in Reviewers : tasks'[b] = tasks[b] \/ (tasks'[b].step \in Working => tasks'[b].session \in Sessions \cup {NULL})
  BY <1>1, <1>3 DEF Taken, Carried
<1>7. tasks'[Scheduler] = tasks[Scheduler] \/
             /\ tasks'[Scheduler].step \in {"idle", "list", "claim"} \cup Working
             /\ tasks'[Scheduler].step \in {"claim"} \cup Working => IsFiniteSet(tasks'[Scheduler].todo)
             /\ tasks'[Scheduler].step \in Working => tasks'[Scheduler].session \in claims'
  BY <1>1, <1>2, <1>3, <1>4 DEF Taken, Claimed
<1>8. (~At(Scheduler, "idle")' => watermark' # NULL) /\ (watermark' # NULL => watermark' <= ends)
  BY <1>1 DEF Taken, Dated, At
<1> HIDE DEF t, u
<1> QED
  BY <1>5, <1>6, <1>7, <1>8, InsideTaken

LEMMA ReviewTyped ==
  ASSUME IInv, Taken, NEW a \in Reviewers, ReviewSteps(a) \/ ReviewFails(a)
  PROVE  /\ TypeOK' /\ UNCHANGED <<sessions, ends, watermark, claims>> /\ runs \subseteq runs'
         /\ tasks'[a].step # "commit"
<1>1. UNCHANGED <<sessions, watermark, claims, files, torn, policy, ends, versions, reviews>>
  BY DEF ReviewSteps, ReviewFails, preflight_rejection, ReadBriefing, build_prompt_input, ModelAnswers, stage_run,
         finalize_auto_improve_proposals, sessionVars, pageVars, boundVars
<1>2. faults' \in 0..MaxFaults
  <2>1. faults \in 0..MaxFaults /\ MaxFaults \in Nat
    BY BoundsAssumption DEF Taken, TypeOK
  <2>2. faults' = faults \/ (faults < MaxFaults /\ faults' = faults + 1)
    BY DEF ReviewSteps, ReviewFails, preflight_rejection, ReadBriefing, build_prompt_input, ModelAnswers, stage_run,
           finalize_auto_improve_proposals, boundVars
  <2> QED
    BY <2>1, <2>2
<1>3. runs \subseteq runs' /\ runs' \subseteq Sessions
  <2>1. runs' = runs \/ (stage_run(a) /\ runs' = runs \cup ({tasks[a].session} \ {NULL}))
    BY DEF ReviewSteps, ReviewFails, preflight_rejection, ReadBriefing, build_prompt_input, ModelAnswers, stage_run,
           finalize_auto_improve_proposals, sessionVars
  <2>2. stage_run(a) => tasks[a].session \in Sessions \cup {NULL}
    BY DEF stage_run, At, Taken, Carried, Working
  <2> QED
    BY <2>1, <2>2 DEF Taken, TypeOK
<1>4. TypeOK'
  BY <1>1, <1>2, <1>3 DEF Taken, TypeOK
<1>5. tasks'[a].step # "commit"
  <2>1. CASE GivesUp(a, tasks[a], tasks'[a])
    BY <2>1 DEF GivesUp, Claiming, Idle
  <2>2. CASE GoesOn(tasks[a], tasks'[a]) /\ tasks[a].step # "admit"
    BY <2>2 DEF GoesOn
  <2>3. tasks[a].step # "admit"
    BY DEF ReviewSteps, ReviewFails, preflight_rejection, ReadBriefing, build_prompt_input, ModelAnswers, stage_run,
           finalize_auto_improve_proposals, At
  <2> QED
    BY <2>1, <2>2, <2>3, ReviewGoes
<1> QED
  BY <1>1, <1>3, <1>4, <1>5

LEMMA DecisionTyped ==
  ASSUME IInv, Taken, NEW a \in Workers, DecisionSteps(a)
  PROVE  TypeOK' /\ UNCHANGED <<sessions, ends, watermark, claims, runs>>
<1>1. UNCHANGED <<sessions, watermark, claims, runs, policy, ends, reviews>>
  BY DEF DecisionSteps, fail_proposal, InstallProposal, approve_proposal, ApprovalConflicts, ApprovalFails, sessionVars, boundVars
<1>2. /\ faults \in 0..MaxFaults /\ MaxFaults \in Nat /\ versions \in 1..MaxVersions /\ MaxVersions \in Nat
      /\ files \in [Paths -> Bodies]
  BY BoundsAssumption DEF Taken, TypeOK, Bodies
<1>3. faults' = faults \/ (faults < MaxFaults /\ faults' = faults + 1)
  BY DEF DecisionSteps, fail_proposal, InstallProposal, approve_proposal, ApprovalConflicts, ApprovalFails, boundVars
<1>4. versions' = versions \/ (versions < MaxVersions /\ versions' = versions + 1)
  BY DEF DecisionSteps, fail_proposal, InstallProposal, approve_proposal, ApprovalConflicts, ApprovalFails, boundVars, NextVersion
<1>5. faults' \in 0..MaxFaults /\ versions' \in 1..MaxVersions
  BY <1>2, <1>3, <1>4
<1>6. torn' \subseteq torn
  BY DEF DecisionSteps, fail_proposal, InstallProposal, approve_proposal, ApprovalConflicts, ApprovalFails, pageVars
<1>7. files' \in [Paths -> Bodies]
  <2>1. CASE InstallProposal(a)
    <3>1. tasks[a].q \in Proposals
      BY <2>1 DEF InstallProposal, At, IInv, TasksOK, TaskOK, Staged
    <3>2. files' = [files EXCEPT ![proposals[tasks[a].q].path] = tasks[a].q]
      BY <2>1 DEF InstallProposal
    <3>3. tasks[a].q \in Bodies
      BY <3>1 DEF Bodies
    <3> QED
      BY <1>2, <3>2, <3>3
  <2>2. CASE ApprovalConflicts(a) \/ ApprovalFails(a)
    <3>1. tasks[a].prev \in Bodies
      BY <2>2 DEF ApprovalConflicts, ApprovalFails, Taken, Carried
    <3>2. files' = [files EXCEPT ![proposals[tasks[a].q].path] = tasks[a].prev]
      BY <2>2 DEF ApprovalConflicts, ApprovalFails, rollback_or_inconsistent
    <3> QED
      BY <1>2, <3>1, <3>2
  <2>3. CASE fail_proposal(a) \/ approve_proposal(a)
    BY <1>2, <2>3 DEF fail_proposal, approve_proposal, pageVars
  <2> QED
    BY <2>1, <2>2, <2>3 DEF DecisionSteps
<1>8. TypeOK'
  BY <1>1, <1>5, <1>6, <1>7 DEF Taken, TypeOK, Bodies
<1> QED
  BY <1>1, <1>8

LEMMA ReviewTaken ==
  ASSUME IInv, Taken, NEW a \in Reviewers, ReviewSteps(a) \/ ReviewFails(a)
  PROVE  Taken' /\ \A s \in Sessions : Due(s) => Due(s)'
BY ReviewGoes, ReviewTyped, ReviewerTaken

LEMMA DecisionTaken ==
  ASSUME IInv, Taken, NEW a \in Workers, DecisionSteps(a)
  PROVE  Taken' /\ \A s \in Sessions : Due(s) => Due(s)'
<1>1. CASE a \in Reviewers
  <2>1. tasks'[a].step = "commit" => tasks'[a].prev \in Bodies
    BY DecisionCarries DEF Taken
  <2> QED
    BY <1>1, <2>1, DecisionGoes, DecisionTyped, ReviewerTaken
<1>2. CASE a = Curator
  <2>1. Scheduler # a /\ Manual # a /\ Scheduler \in Workers /\ Manual \in Workers
    BY <1>2, WorkersDiffer DEF Workers
  <2>2. /\ \A b \in Workers \ {a} : tasks'[b] = tasks[b]
        /\ tasks'[a].step = "commit" => tasks'[a].prev \in Bodies
    BY DecisionCarries DEF Taken
  <2>3. tasks'[Scheduler] = tasks[Scheduler] /\ \A b \in Reviewers : tasks'[b] = tasks[b]
    BY <2>1, <2>2 DEF Reviewers
  <2>4. \A b \in Workers : tasks'[b] = tasks[b] \/ (tasks'[b].step = "commit" => tasks'[b].prev \in Bodies)
    BY <2>2
  <2>5. TypeOK' /\ UNCHANGED <<sessions, ends, watermark, claims>>
    BY DecisionTyped
  <2>6. (~At(Scheduler, "idle")' => watermark' # NULL) /\ (watermark' # NULL => watermark' <= ends)
    BY <2>3, <2>5 DEF Taken, Dated, At
  <2> QED
    BY <2>3, <2>4, <2>5, <2>6, InsideTaken
<1> QED
  BY <1>1, <1>2 DEF Workers, Reviewers

LEMMA AskedTaken ==
  ASSUME IInv, Taken, (\E s \in Sessions : handle_auto_improve(s)) \/ memory_auto_improve \/ StagesReport \/ (\E q \in Proposals : handle_pending_write_approve(q))
  PROVE  Taken' /\ \A s \in Sessions : Due(s) => Due(s)'
<1>1. /\ UNCHANGED <<sessions, watermark, claims, runs, files, torn, policy, ends, versions, faults>>
      /\ reviews < MaxReviews /\ reviews' = reviews + 1
  BY DEF handle_auto_improve, memory_auto_improve, StagesReport, handle_pending_write_approve, sessionVars, pageVars
<1>2. TypeOK'
  BY <1>1, BoundsAssumption DEF Taken, TypeOK
<1>3. DOMAIN tasks = Workers /\ {Scheduler, Manual, Curator} \subseteq Workers
  BY DEF IInv, Shape, Workers
<1>4. \A s : Review(Manual, s).step = "read" /\ Review(Manual, s).session = s
  BY DEF Review
<1>5. \/ /\ \A b \in Workers \ {Manual} : tasks'[b] = tasks[b]
         /\ tasks'[Manual].step \in {"read", "stage"} /\ tasks'[Manual].session \in Sessions \cup {NULL}
      \/ /\ \A b \in Workers \ {Curator} : tasks'[b] = tasks[b]
         /\ tasks'[Curator].step = "admit"
  <2>1. ASSUME NEW s \in Sessions, handle_auto_improve(s)
        PROVE  /\ \A b \in Workers \ {Manual} : tasks'[b] = tasks[b]
               /\ tasks'[Manual].step \in {"read", "stage"} /\ tasks'[Manual].session \in Sessions \cup {NULL}
    <3>1. tasks' = [tasks EXCEPT ![Manual] = Review(Manual, s)]
      BY <2>1 DEF handle_auto_improve
    <3> QED
      BY <1>3, <1>4, <3>1
  <2>2. ASSUME StagesReport
        PROVE  /\ \A b \in Workers \ {Manual} : tasks'[b] = tasks[b]
               /\ tasks'[Manual].step \in {"read", "stage"} /\ tasks'[Manual].session \in Sessions \cup {NULL}
    <3> DEFINE draft == [path |-> Report, mode |-> "full_page", op |-> target_operation_for_page(Report), expected |-> NULL]
               t == [Review(Manual, NULL) EXCEPT !.step = "stage", !.drafts = {draft}]
    <3>1. tasks' = [tasks EXCEPT ![Manual] = t]
      BY <2>2 DEF StagesReport
    <3> HIDE DEF draft
    <3>2. t.step = "stage" /\ t.session = NULL
      BY DEF Review
    <3> HIDE DEF t
    <3> QED
      BY <1>3, <3>1, <3>2
  <2>3. ASSUME NEW q \in Proposals, handle_pending_write_approve(q)
        PROVE  /\ \A b \in Workers \ {Curator} : tasks'[b] = tasks[b]
               /\ tasks'[Curator].step = "admit"
    <3>1. tasks' = [tasks EXCEPT ![Curator] = [step |-> "admit", q |-> q, prev |-> NULL, final |-> {}]]
      BY <2>3 DEF handle_pending_write_approve
    <3> QED
      BY <1>3, <3>1
  <2>4. memory_auto_improve => \E s \in Sessions : handle_auto_improve(s)
    BY DEF memory_auto_improve, latest_completed_session_for_project
  <2> QED
    BY <2>1, <2>2, <2>3, <2>4
<1>6. tasks'[Scheduler] = tasks[Scheduler]
  BY <1>3, <1>5, WorkersDiffer
<1>7. \A b \in Workers : tasks'[b] = tasks[b] \/ tasks'[b].step # "commit"
  BY <1>5
<1>8. \A b \in Reviewers : tasks'[b] = tasks[b] \/ (tasks'[b].step \in Working => tasks'[b].session \in Sessions \cup {NULL})
  BY <1>3, <1>5, WorkersDiffer DEF Reviewers
<1>9. (~At(Scheduler, "idle")' => watermark' # NULL) /\ (watermark' # NULL => watermark' <= ends)
  BY <1>1, <1>6 DEF Taken, Dated, At
<1> QED
  BY <1>1, <1>2, <1>6, <1>7, <1>8, <1>9, InsideTaken

\* How the scheduler is at work: a step of a review or decision, or of a tick.
SchedulerMoves ==
    LET t == tasks[Scheduler]
        u == tasks'[Scheduler]
    IN \/ u = t
       \/ u.step \in {"idle", "list"}
       \/ t.step = "list" /\ u.step = "claim"
       \/ t.step \in Working /\ (GivesUp(Scheduler, t, u) \/ GoesOn(t, u))
       \/ /\ t.step = "claim"
          /\ \E c \in t.todo :
                \/ u = Claiming(t.todo \ {c})
                \/ u = Review(Scheduler, c.s) /\ Due(c.s) /\ c.s \notin claims \cup runs /\ c.s \in claims'

\* The scheduler ticks, lists and claims.
LEMMA SchedulerTaken ==
  ASSUME IInv, Taken, SchedulerSteps
  PROVE  /\ Taken' /\ \A s \in Sessions : Due(s) => Due(s)'
         /\ sessions' = sessions /\ (watermark # NULL => watermark' = watermark) /\ claims \subseteq claims' /\ runs' = runs
         /\ SchedulerMoves
<1> DEFINE t == tasks[Scheduler]
           u == tasks'[Scheduler]
<1>1. DOMAIN tasks = Workers /\ Scheduler \in Workers /\ Reviewers \subseteq Workers
  BY DEF IInv, Shape, Workers, Reviewers
<1>2. /\ UNCHANGED <<sessions, runs, files, torn, policy, ends, versions, reviews, faults>>
      /\ claims \subseteq claims'
  BY DEF SchedulerSteps, Tick, ListCandidates, claim_scheduler_session, sessionVars, pageVars, boundVars
<1>3. ends \in 0..MaxEnds /\ MaxEnds \in Nat /\ watermark \in 0..MaxEnds \cup {NULL} /\ NULL \notin Nat
  BY BoundsAssumption, BodiesAssumption DEF Taken, TypeOK
<1>4. CASE Tick
  <2>1. /\ tasks' = [tasks EXCEPT ![Scheduler] = [step |-> "list"]]
        /\ watermark' \in ensure_scheduler_state /\ claims' = claims
    BY <1>4 DEF Tick
  <2>2. (\A b \in Workers \ {Scheduler} : tasks'[b] = tasks[b]) /\ tasks'[Scheduler].step = "list"
    BY <1>1, <2>1
  <2>3. \A s \in Sessions : sessions[s].ended # NULL => sessions[s].ended \in 0..MaxEnds /\ sessions[s].ended <= ends
    BY DEF Taken, TypeOK, Dated
  <2>4. /\ watermark # NULL => watermark' = watermark
        /\ watermark' \in 0..MaxEnds /\ watermark' <= ends
    <3>1. CASE watermark # NULL
      <4>1. watermark' = watermark
        BY <2>1, <3>1 DEF ensure_scheduler_state
      <4> QED
        BY <1>3, <3>1, <4>1 DEF Taken, Dated
    <3>2. CASE watermark = NULL
      <4>1. watermark' = 0 \/ \E s \in Sessions : sessions[s].ended # NULL /\ watermark' = sessions[s].ended
        BY <2>1, <3>2 DEF ensure_scheduler_state
      <4> QED
        BY <1>3, <2>3, <3>2, <4>1
    <3> QED
      BY <3>1, <3>2
  <2>5. watermark' # NULL
    BY <1>3, <2>4
  <2>6. TypeOK'
    BY <1>2, <2>1, <2>4 DEF Taken, TypeOK
  <2>7. \A b \in Workers : tasks'[b] = tasks[b] \/ (tasks'[b].step = "commit" => tasks'[b].prev \in Bodies)
    BY <2>2
  <2>8. \A b \in Reviewers : tasks'[b] = tasks[b] \/ (tasks'[b].step \in Working => tasks'[b].session \in Sessions \cup {NULL})
    BY <1>1, <2>2 DEF Working
  <2>9. tasks'[Scheduler].step \notin {"claim"} \cup Working
    BY <2>2 DEF Working
  <2>10. Taken' /\ \A s \in Sessions : Due(s) => Due(s)'
    BY <1>2, <2>1, <2>2, <2>4, <2>5, <2>6, <2>7, <2>8, <2>9, InsideTaken
  <2> QED
    BY <1>2, <2>2, <2>4, <2>10 DEF SchedulerMoves
<1>5. CASE ListCandidates
  <2> DEFINE todo == {[s |-> s, ended |-> sessions[s].ended] : s \in auto_improve_candidate_sessions}
  <2>1. tasks' = [tasks EXCEPT ![Scheduler] = Claiming(todo)] /\ tasks[Scheduler].step = "list" /\ UNCHANGED <<watermark, claims>>
    BY <1>5 DEF ListCandidates, At, sessionVars
  <2>2. IsFiniteSet(todo)
    <3>1. auto_improve_candidate_sessions \subseteq Sessions
      BY DEF auto_improve_candidate_sessions
    <3>2. IsFiniteSet(auto_improve_candidate_sessions)
      BY <3>1, FiniteAssumption, FS_Subset
    <3> HIDE DEF todo
    <3> DEFINE S == auto_improve_candidate_sessions
               f == [s \in S |-> [s |-> s, ended |-> sessions[s].ended]]
    <3>3. todo = {f[s] : s \in S}
      BY DEF todo
    <3>4. f \in Surjection(S, todo)
      BY <3>3 DEF Surjection
    <3> QED
      BY <3>2, <3>4, FS_Surjection
  <2> HIDE DEF todo
  <2>3. (\A b \in Workers \ {Scheduler} : tasks'[b] = tasks[b]) /\ tasks'[Scheduler] = Claiming(todo)
    BY <1>1, <2>1
  <2>4. /\ tasks'[Scheduler].step \in {"idle", "claim"}
        /\ tasks'[Scheduler].step = "claim" => tasks'[Scheduler].todo = todo
    BY <2>3 DEF Claiming, Idle
  <2>5. TypeOK'
    BY <1>2, <2>1 DEF Taken, TypeOK
  <2>6. \A b \in Workers : tasks'[b] = tasks[b] \/ (tasks'[b].step = "commit" => tasks'[b].prev \in Bodies)
    BY <2>3, <2>4
  <2>7. \A b \in Reviewers : tasks'[b] = tasks[b] \/ (tasks'[b].step \in Working => tasks'[b].session \in Sessions \cup {NULL})
    BY <1>1, <2>3, <2>4 DEF Working
  <2>8. /\ tasks'[Scheduler].step \in {"idle", "list", "claim"} \cup Working
        /\ tasks'[Scheduler].step \in {"claim"} \cup Working => IsFiniteSet(tasks'[Scheduler].todo)
        /\ tasks'[Scheduler].step \notin Working
    BY <2>2, <2>4 DEF Working
  <2>9. watermark # NULL /\ watermark <= ends /\ watermark' = watermark
    BY <2>1 DEF Taken, Dated, At
  <2>10. Taken' /\ \A s \in Sessions : Due(s) => Due(s)'
    BY <1>2, <2>1, <2>5, <2>6, <2>7, <2>8, <2>9, InsideTaken
  <2> QED
    BY <1>2, <2>1, <2>4, <2>10 DEF SchedulerMoves
<1>6. ASSUME NEW s \in Sessions, NEW n \in 1..MaxEnds, claim_scheduler_session([s |-> s, ended |-> n])
      PROVE  /\ Taken' /\ \A r \in Sessions : Due(r) => Due(r)'
             /\ watermark' = watermark /\ tasks[Scheduler].step = "claim"
             /\ \E c \in tasks[Scheduler].todo :
                   \/ tasks'[Scheduler] = Claiming(tasks[Scheduler].todo \ {c})
                   \/ /\ tasks'[Scheduler] = Review(Scheduler, c.s)
                      /\ Due(c.s) /\ c.s \notin claims \cup runs /\ c.s \in claims'
  <2> DEFINE c == [s |-> s, ended |-> n]
             todo == t.todo
             left == {x \in todo : x.s # s}
  <2>1. tasks[Scheduler].step = "claim" /\ c \in todo /\ watermark' = watermark
    BY <1>6 DEF claim_scheduler_session, At
  <2>2. watermark # NULL /\ watermark <= ends
    BY <2>1 DEF Taken, Dated, At
  <2>3. IsFiniteSet(todo)
    BY <2>1 DEF Taken, Claimed
  <2>4. \/ /\ sessions[s].ended = n /\ n > watermark /\ s \notin claims \cup runs
           /\ claims' = claims \cup {s}
           /\ tasks' = [tasks EXCEPT ![Scheduler] = Review(Scheduler, s)]
        \/ claims' = claims /\ tasks' = [tasks EXCEPT ![Scheduler] = Claiming(todo \ {c})]
    BY <1>6 DEF claim_scheduler_session
  <2>5. CASE claims' = claims /\ tasks' = [tasks EXCEPT ![Scheduler] = Claiming(todo \ {c})]
    <3> DEFINE rest == todo \ {c}
    <3>1. IsFiniteSet(rest)
      BY <2>3, FS_Subset
    <3> HIDE DEF rest
    <3>2. tasks' = [tasks EXCEPT ![Scheduler] = Claiming(rest)] /\ claims' = claims
      BY <2>5 DEF rest
    <3>3. (\A b \in Workers \ {Scheduler} : tasks'[b] = tasks[b]) /\ tasks'[Scheduler] = Claiming(rest)
      BY <1>1, <3>2
    <3>4. /\ tasks'[Scheduler].step \in {"idle", "claim"}
          /\ tasks'[Scheduler].step = "claim" => tasks'[Scheduler].todo = rest
      BY <3>3 DEF Claiming, Idle
    <3>5. TypeOK'
      BY <1>2, <2>1, <2>5 DEF Taken, TypeOK
    <3>6. \A b \in Workers : tasks'[b] = tasks[b] \/ (tasks'[b].step = "commit" => tasks'[b].prev \in Bodies)
      BY <3>3, <3>4
    <3>7. \A b \in Reviewers : tasks'[b] = tasks[b] \/ (tasks'[b].step \in Working => tasks'[b].session \in Sessions \cup {NULL})
      BY <1>1, <3>3, <3>4 DEF Working
    <3>8. /\ tasks'[Scheduler].step \in {"idle", "list", "claim"} \cup Working
          /\ tasks'[Scheduler].step \in {"claim"} \cup Working => IsFiniteSet(tasks'[Scheduler].todo)
          /\ tasks'[Scheduler].step \notin Working
      BY <3>1, <3>4 DEF Working
    <3>9. Taken' /\ \A r \in Sessions : Due(r) => Due(r)'
      BY <1>2, <2>1, <2>2, <3>2, <3>5, <3>6, <3>7, <3>8, InsideTaken
    <3> QED
      BY <2>1, <3>3, <3>9 DEF rest
  <2>6. CASE /\ sessions[s].ended = n /\ n > watermark /\ s \notin claims \cup runs
             /\ claims' = claims \cup {s}
             /\ tasks' = [tasks EXCEPT ![Scheduler] = Review(Scheduler, s)]
    <3>1. (\A b \in Workers \ {Scheduler} : tasks'[b] = tasks[b]) /\ tasks'[Scheduler] = Review(Scheduler, s)
      BY <1>1, <2>6
    <3>2. IsFiniteSet(left)
      BY <2>3, FS_Subset
    <3>3. tasks'[Scheduler].step = "read" /\ tasks'[Scheduler].session = s /\ tasks'[Scheduler].todo = left
      BY <3>1 DEF Review
    <3> HIDE DEF left, todo
    <3>4. Due(s)
      BY <1>3, <2>2, <2>6 DEF Due
    <3>5. Due(s)' /\ \A r \in claims' \ claims : r = s
      BY <1>2, <2>1, <2>6, <3>4 DEF Due
    <3>6. TypeOK'
      BY <1>2, <2>1, <2>6 DEF Taken, TypeOK
    <3>7. \A b \in Workers : tasks'[b] = tasks[b] \/ (tasks'[b].step = "commit" => tasks'[b].prev \in Bodies)
      BY <3>1, <3>3
    <3>8. \A b \in Reviewers : tasks'[b] = tasks[b] \/ (tasks'[b].step \in Working => tasks'[b].session \in Sessions \cup {NULL})
      BY <1>1, <3>1, <3>3
    <3>9. /\ tasks'[Scheduler].step \in {"idle", "list", "claim"} \cup Working
          /\ tasks'[Scheduler].step \in {"claim"} \cup Working => IsFiniteSet(tasks'[Scheduler].todo)
          /\ tasks'[Scheduler].step \in Working => tasks'[Scheduler].session \in claims'
      BY <2>6, <3>2, <3>3 DEF Working
    <3>10. \A r \in claims' \ claims : Due(r)'
      BY <3>5 DEF Due
    <3>11. Taken' /\ \A r \in Sessions : Due(r) => Due(r)'
      BY <1>2, <2>1, <2>2, <3>6, <3>7, <3>8, <3>9, <3>10, InsideTaken
    <3>12. c.s = s
      OBVIOUS
    <3> QED
      BY <2>1, <2>6, <3>1, <3>4, <3>11, <3>12 DEF todo
  <2> QED
    BY <2>4, <2>5, <2>6
<1> QED
  BY <1>2, <1>4, <1>5, <1>6 DEF SchedulerSteps, SchedulerMoves

LEMMA CrashTaken ==
  ASSUME IInv, Taken, Crashes
  PROVE  /\ Taken' /\ UNCHANGED <<sessions, watermark, claims, runs>>
         /\ tasks'[Scheduler].step = "idle"
<1>1. /\ UNCHANGED <<sessions, watermark, claims, runs, files, policy, ends, versions, reviews>>
      /\ faults < MaxFaults /\ faults' = faults + 1 /\ tasks' = [a \in Workers |-> Idle]
      /\ torn' = torn \cup {proposals[tasks[a].q].path : a \in {b \in Workers : Deciding(b)}}
  BY DEF Crashes, sessionVars
<1>2. \A a \in Workers : tasks'[a].step = "idle"
  BY <1>1 DEF Idle
<1>3. Scheduler \in Workers /\ Reviewers \subseteq Workers
  BY DEF Workers, Reviewers
<1>4. torn' \subseteq Paths
  <2>1. \A a \in Workers : Deciding(a) => proposals[tasks[a].q].path \in Paths
    BY DEF Deciding, At, IInv, TasksOK, TaskOK, ProposalsOK, ProposalOK
  <2> QED
    BY <1>1, <2>1 DEF Taken, TypeOK
<1>5. TypeOK'
  BY <1>1, <1>4, BoundsAssumption DEF Taken, TypeOK
<1>6. \A b \in Workers : tasks'[b].step # "commit" /\ tasks'[b].step \notin {"claim"} \cup Working
  BY <1>2 DEF Working
<1>7. (~At(Scheduler, "idle")' => watermark' # NULL) /\ (watermark' # NULL => watermark' <= ends)
  BY <1>1, <1>2, <1>3 DEF Taken, Dated, At
<1>8. Taken'
  BY <1>1, <1>2, <1>3, <1>5, <1>6, <1>7, InsideTaken
<1> QED
  BY <1>1, <1>2, <1>3, <1>8

LEMMA NextTaken == IInv /\ Taken /\ [Next]_improveVars => Taken'
<1> SUFFICES ASSUME IInv, Taken, [Next]_improveVars PROVE Taken'
  OBVIOUS
<1>1. CASE UNCHANGED improveVars
  BY <1>1 DEF improveVars, sessionVars, pageVars, boundVars, Taken, TypeOK, Carried, Dated, Claimed, At, Due
<1> QED
  BY <1>1, EditedAssumption, SessionsTaken, PagesTaken, RejectTaken, AskedTaken, ReviewTaken, DecisionTaken, SchedulerTaken, CrashTaken
  DEF Next, handle_curator, handle_auto_improve_report

LEMMA SpecTaken == Spec => [](IInv /\ Taken)
  BY InitIInv, NextIInv, InitTaken, NextTaken, PTL DEF Spec

\* Types: dates, versions and counts are in their bounds, files hold a body or nothing,
\* and only sessions there are have been claimed or reviewed.
THEOREM ReviewTypes == Spec => []TypeOK
<1>1. Taken => TypeOK
  BY DEF Taken
<1> QED
  BY <1>1, SpecTaken, PTL

-----------------------------------------------------------------------------
(* Steps of the scheduler.                                                  *)

Reviewing(s) == tasks[Scheduler].step \in Working /\ tasks[Scheduler].session = s

\* What the scheduler takes up: a session that is due stays due, whatever else happens to
\* it, and its review begins with a claim that is there for good.
TakesUpOnce ==
    /\ claims \subseteq claims' /\ runs \subseteq runs'
    /\ \A s \in Sessions :
          /\ Due(s) => Due(s)'
          /\ ~Reviewing(s) /\ Reviewing(s)' => Due(s) /\ s \notin claims \cup runs /\ s \in claims'

\* Other workers and everything else leave the scheduler as it is.
LEMMA EveryMove ==
  ASSUME IInv, Taken, [Next]_improveVars
  PROVE  /\ SchedulerMoves /\ claims \subseteq claims' /\ runs \subseteq runs'
         /\ \A s \in Sessions : Due(s) => Due(s)'
<1> USE DEF Due
<1>1. {Scheduler, Manual, Curator} = Workers /\ {Scheduler, Manual} = Reviewers
  BY DEF Workers, Reviewers
<1>2. DOMAIN tasks = Workers
  BY DEF IInv, Shape
<1>3. CASE \E s \in Sessions : SessionEnds(s) \/ SessionAges(s) \/ SessionEndsAgain(s)
  <2>1. UNCHANGED <<claims, runs, tasks>>
    BY <1>3 DEF SessionEnds, SessionAges, SessionEndsAgain
  <2> QED
    BY <1>3, <2>1, SessionsTaken DEF SchedulerMoves
<1>4. CASE \E x \in Edited : PageDeleted(x) \/ PageReindexed(x) \/ \E kept \in {FALSE, (x \in Pinnable)} : PageWritten(x, kept)
  BY <1>4 DEF PageDeleted, PageReindexed, PageWritten, sessionVars, SchedulerMoves
<1>5. CASE \E q \in Proposals : reject_proposal(q)
  BY <1>5 DEF reject_proposal, sessionVars, SchedulerMoves
<1>6. CASE (\E s \in Sessions : handle_auto_improve(s)) \/ memory_auto_improve \/ StagesReport \/ (\E q \in Proposals : handle_pending_write_approve(q))
  <2>1. UNCHANGED <<sessions, watermark, claims, runs>>
    BY <1>6 DEF handle_auto_improve, memory_auto_improve, StagesReport, handle_pending_write_approve, sessionVars
  <2>2. tasks'[Scheduler] = tasks[Scheduler]
    <3>1. \E b \in {Manual, Curator} : \E t : tasks' = [tasks EXCEPT ![b] = t]
      BY <1>6 DEF handle_auto_improve, memory_auto_improve, StagesReport, handle_pending_write_approve
    <3> QED
      BY <1>1, <1>2, <3>1, WorkersDiffer
  <2> QED
    BY <2>1, <2>2 DEF SchedulerMoves
<1>7. ASSUME NEW a \in Reviewers, ReviewSteps(a) \/ ReviewFails(a)
      PROVE  SchedulerMoves /\ claims \subseteq claims' /\ runs \subseteq runs' /\ \A s \in Sessions : Due(s) => Due(s)'
  <2>1. UNCHANGED <<sessions, watermark, claims>> /\ runs \subseteq runs'
    BY <1>7, ReviewTyped
  <2>2. SchedulerMoves
    BY <1>1, <1>7, ReviewGoes DEF SchedulerMoves
  <2> QED
    BY <2>1, <2>2
<1>8. ASSUME NEW a \in Workers, DecisionSteps(a)
      PROVE  SchedulerMoves /\ claims \subseteq claims' /\ runs \subseteq runs' /\ \A s \in Sessions : Due(s) => Due(s)'
  <2>1. UNCHANGED <<sessions, watermark, claims, runs>>
    BY <1>8, DecisionTyped
  <2>2. CASE a = Scheduler
    <3>1. a \in Reviewers
      BY <1>1, <2>2
    <3>2. /\ GivesUp(a, tasks[a], tasks'[a]) \/ GoesOn(tasks[a], tasks'[a])
          /\ tasks[a].step \in Working
      BY <1>8, <3>1, DecisionGoes
    <3> QED
      BY <2>1, <2>2, <3>2 DEF SchedulerMoves
  <2>3. CASE a # Scheduler
    <3>1. tasks'[Scheduler] = tasks[Scheduler]
      <4>1. TypeOK /\ Scheduler \in Workers \ {a}
        BY <1>1, <2>3 DEF Taken
      <4>2. \A b \in Workers \ {a} : tasks'[b] = tasks[b]
        BY <1>8, <4>1, DecisionCarries
      <4> QED
        BY <4>1, <4>2
    <3> QED
      BY <2>1, <3>1 DEF SchedulerMoves
  <2> QED
    BY <2>1, <2>2, <2>3
<1>9. CASE SchedulerSteps
  BY <1>9, SchedulerTaken
<1>10. CASE Crashes
  BY <1>10, CrashTaken DEF SchedulerMoves
<1>11. CASE UNCHANGED improveVars
  BY <1>11 DEF improveVars, sessionVars, SchedulerMoves
<1> QED
  BY <1>3, <1>4, <1>5, <1>6, <1>7, <1>8, <1>9, <1>10, <1>11 DEF Next, handle_curator, handle_auto_improve_report

LEMMA NextTakesUp == IInv /\ Taken /\ [Next]_improveVars => TakesUpOnce
<1> SUFFICES ASSUME IInv, Taken, [Next]_improveVars PROVE TakesUpOnce
  OBVIOUS
<1> DEFINE t == tasks[Scheduler]
           u == tasks'[Scheduler]
<1>1. SUFFICES ASSUME NEW s \in Sessions, ~(t.step \in Working /\ t.session = s), u.step \in Working, u.session = s
               PROVE  Due(s) /\ s \notin claims \cup runs /\ s \in claims'
  BY EveryMove DEF TakesUpOnce, Reviewing, Due
<1>2. u # t /\ u.step \notin {"idle", "list", "claim"}
  BY <1>1 DEF Working
<1>3. ~GivesUp(Scheduler, t, u) /\ \A todo : u # Claiming(todo)
  BY <1>2 DEF GivesUp, Claiming, Idle
<1>4. ~(t.step \in Working /\ GoesOn(t, u))
  BY <1>1 DEF GoesOn
<1>5. PICK c \in t.todo : u = Review(Scheduler, c.s) /\ Due(c.s) /\ c.s \notin claims \cup runs /\ c.s \in claims'
  BY <1>2, <1>3, <1>4, EveryMove DEF SchedulerMoves
<1>6. c.s = s
  BY <1>1, <1>5 DEF Review
<1> QED
  BY <1>5, <1>6

\* The scheduler reviews a session at most once, whatever fails and whenever the server
\* crashes, and only one that ended after its first tick and had no review at somebody's
\* request; a session that is due stays due, and claims and runs are for good.
\* SessionsReached rests on it: what it asks besides is that the scheduler ticks.
THEOREM ReviewsBeginOnce == Spec => [][TakesUpOnce]_improveVars
  BY NextTakesUp, SpecTaken, PTL DEF Spec

-----------------------------------------------------------------------------
(* A tick comes to its end.                                                 *)

Busy == tasks[Scheduler].step \in {"claim"} \cup Working

\* The stages of a review; in the last, three steps for every proposal that is left.
Stage(t) ==
    CASE t.step = "claim" -> 0
      [] t.step = "read" -> 5
      [] t.step = "pages" -> 4
      [] t.step = "llm" -> 3
      [] t.step = "stage" -> 2
      [] OTHER -> 1
Pieces(t) ==
    CASE t.step = "final" -> 3 * Cardinality(t.final)
      [] t.step = "admit" -> 3 * Cardinality(t.final) + 2
      [] t.step = "commit" -> 3 * Cardinality(t.final) + 1
      [] OTHER -> 0
TickLeft == LET t == tasks[Scheduler] IN <<Cardinality(t.todo), Stage(t), Pieces(t)>>
TickLefts == [1..3 -> Nat]

Lower == {p \in Nat \X Nat : p[1] < p[2]}
TickOrder == LexProductOrdering(Lower, Nat, 3)

\* Each step of a tick that claims or reviews leaves less of it, and nothing else changes what is left.
TickRunsDown == Busy /\ Busy' => tasks'[Scheduler] = tasks[Scheduler] \/ <<TickLeft', TickLeft>> \in TickOrder

LEMMA TicksAreWellFounded == IsWellFoundedOn(TickOrder, TickLefts)
<1>1. Lower = OpToRel(<, Nat)
  BY DEF Lower, OpToRel
<1>2. IsWellFoundedOn(Lower, Nat)
  BY <1>1, NatLessThanWellFounded
<1> QED
  BY <1>2, WFLexProductOrdering DEF TickOrder, TickLefts

LEMMA LowerAt ==
  ASSUME NEW f \in TickLefts, NEW g \in TickLefts, NEW j \in 1..3,
         \A i \in 1..(j - 1) : f[i] = g[i], f[j] < g[j]
  PROVE  <<f, g>> \in TickOrder
<1> DEFINE p == <<f, g>>
<1>1. p \in TickLefts \X TickLefts /\ p[1] = f /\ p[2] = g
  OBVIOUS
<1>2. f[j] \in Nat /\ g[j] \in Nat
  BY DEF TickLefts
<1>3. <<p[1][j], p[2][j]>> \in Lower
  BY <1>1, <1>2 DEF Lower
<1>4. \A i \in 1..(j - 1) : p[1][i] = p[2][i]
  BY <1>1
<1> HIDE DEF p
<1>5. p \in [1..3 -> Nat] \X [1..3 -> Nat]
  BY <1>1 DEF TickLefts
<1>6. p \in LexProductOrdering(Lower, Nat, 3)
  BY <1>3, <1>4, <1>5 DEF LexProductOrdering
<1> QED
  BY <1>6 DEF TickOrder, p

LEMMA LowerThree ==
  ASSUME NEW a \in Nat, NEW b \in Nat, NEW c \in Nat, NEW k \in Nat, NEW l \in Nat, NEW m \in Nat,
         \/ k < a
         \/ k = a /\ l < b
         \/ k = a /\ l = b /\ m < c
  PROVE  <<<<k, l, m>>, <<a, b, c>>>> \in TickOrder
<1> DEFINE f == <<k, l, m>>
           g == <<a, b, c>>
<1>1. f = [i \in 1..3 |-> f[i]] /\ g = [i \in 1..3 |-> g[i]] /\ \A i \in 1..3 : f[i] \in Nat /\ g[i] \in Nat
  OBVIOUS
<1>2. f \in TickLefts /\ g \in TickLefts
  BY <1>1 DEF TickLefts
<1>3. f[1] = k /\ f[2] = l /\ f[3] = m /\ g[1] = a /\ g[2] = b /\ g[3] = c
  OBVIOUS
<1> HIDE DEF f, g
<1>4. CASE k < a
  <2>1. \A i \in 1..(1 - 1) : f[i] = g[i]
    OBVIOUS
  <2>2. f[1] < g[1]
    BY <1>3, <1>4
  <2>3. <<f, g>> \in TickOrder
    BY <1>2, <2>1, <2>2, LowerAt
  <2> QED
    BY <2>3 DEF f, g
<1>5. CASE k = a /\ l < b
  <2>1. (\A i \in 1..(2 - 1) : f[i] = g[i]) /\ f[2] < g[2]
    BY <1>3, <1>5
  <2>2. <<f, g>> \in TickOrder
    BY <1>2, <2>1, LowerAt
  <2> QED
    BY <2>2 DEF f, g
<1>6. CASE k = a /\ l = b /\ m < c
  <2>1. (\A i \in 1..(3 - 1) : f[i] = g[i]) /\ f[3] < g[3]
    BY <1>3, <1>6
  <2>2. <<f, g>> \in TickOrder
    BY <1>2, <2>1, LowerAt
  <2> QED
    BY <2>2 DEF f, g
<1> QED
  BY <1>4, <1>5, <1>6

\* What there is of a tick, in numbers.
LEMMA TickNumbers ==
  ASSUME IInv, Taken, Busy
  PROVE  LET t == tasks[Scheduler] IN
         /\ IsFiniteSet(t.todo) /\ Cardinality(t.todo) \in Nat /\ Stage(t) \in Nat /\ Pieces(t) \in Nat
         /\ t.step \in {"final", "admit", "commit"} => IsFiniteSet(t.final) /\ Cardinality(t.final) \in Nat
<1> DEFINE t == tasks[Scheduler]
<1>1. IsFiniteSet(t.todo)
  BY DEF Taken, Claimed, Busy
<1>2. Cardinality(t.todo) \in Nat
  BY <1>1, FS_CardinalityType
<1>3. t.step \in {"final", "admit", "commit"} => IsFiniteSet(t.final) /\ Cardinality(t.final) \in Nat
  <2>1. t.step \in {"final", "admit", "commit"} => t.final \subseteq Proposals
    BY DEF IInv, TasksOK, TaskOK, Staged, Workers
  <2> QED
    BY <2>1, FiniteAssumption, FS_Subset, FS_CardinalityType
<1> HIDE DEF t
<1>4. Stage(t) \in Nat
  BY DEF Stage
<1>5. Pieces(t) \in Nat
  BY <1>3 DEF Pieces
<1> QED
  BY <1>1, <1>2, <1>3, <1>4, <1>5 DEF t

LEMMA OneLess ==
  ASSUME NEW S, IsFiniteSet(S), NEW x \in S, NEW T \in SUBSET (S \ {x})
  PROVE  IsFiniteSet(T) /\ Cardinality(T) \in Nat /\ Cardinality(T) < Cardinality(S)
<1>1. IsFiniteSet(S \ {x}) /\ Cardinality(S \ {x}) = Cardinality(S) - 1
  BY FS_RemoveElement
<1>2. IsFiniteSet(T) /\ Cardinality(T) <= Cardinality(S \ {x})
  BY <1>1, FS_Subset
<1>3. Cardinality(S) \in Nat /\ Cardinality(T) \in Nat
  BY <1>2, FS_CardinalityType
<1> QED
  BY <1>1, <1>2, <1>3

LEMMA NextRunsDown == IInv /\ Taken /\ IInv' /\ Taken' /\ [Next]_improveVars => TickRunsDown
<1> SUFFICES ASSUME IInv, Taken, IInv', Taken', [Next]_improveVars, Busy, Busy', tasks'[Scheduler] # tasks[Scheduler]
             PROVE  <<TickLeft', TickLeft>> \in TickOrder
  BY DEF TickRunsDown
<1> DEFINE t == tasks[Scheduler]
           u == tasks'[Scheduler]
<1>1. /\ IsFiniteSet(t.todo) /\ Cardinality(t.todo) \in Nat /\ Stage(t) \in Nat /\ Pieces(t) \in Nat
      /\ t.step \in {"final", "admit", "commit"} => IsFiniteSet(t.final) /\ Cardinality(t.final) \in Nat
  BY TickNumbers
<1>2. u.step \in {"claim"} \cup Working /\ t.step \in {"claim"} \cup Working /\ u # t
  BY DEF Busy
<1>3. IsFiniteSet(u.todo) /\ Cardinality(u.todo) \in Nat
  <2>1. IsFiniteSet(u.todo)
    BY <1>2 DEF Taken, Claimed
  <2> QED
    BY <2>1, FS_CardinalityType
<1>4. u.step \in {"final", "admit", "commit"} => IsFiniteSet(u.final) /\ Cardinality(u.final) \in Nat
  <2>1. u.step \in {"final", "admit", "commit"} => u.final \subseteq Proposals
    BY DEF IInv, TasksOK, TaskOK, Staged, Workers
  <2> QED
    BY <2>1, FiniteAssumption, FS_Subset, FS_CardinalityType
<1>5. \/ t.step \in Working /\ (GivesUp(Scheduler, t, u) \/ GoesOn(t, u))
      \/ /\ t.step = "claim"
         /\ \E c \in t.todo : u = Claiming(t.todo \ {c}) \/ u = Review(Scheduler, c.s)
  <2>1. u.step \notin {"idle", "list"} /\ t.step # "list"
    BY <1>2 DEF Working
  <2> QED
    BY <1>2, <2>1, EveryMove DEF SchedulerMoves
<1>6. TickLeft = <<Cardinality(t.todo), Stage(t), Pieces(t)>> /\ TickLeft' = <<Cardinality(u.todo), Stage(u), Pieces(u)>>
  BY DEF TickLeft, Stage, Pieces
<1>7. \A c \in t.todo : Review(Scheduler, c.s).todo = {x \in t.todo : x.s # c.s}
  BY DEF Review
<1> HIDE DEF t, u
<1>8. Stage(u) \in Nat /\ Pieces(u) \in Nat
  BY <1>4 DEF Stage, Pieces
<1>9. \/ Cardinality(u.todo) < Cardinality(t.todo)
      \/ u.todo = t.todo /\ Stage(u) < Stage(t)
      \/ u.todo = t.todo /\ Stage(u) = Stage(t) /\ Pieces(u) < Pieces(t)
  <2>1. CASE t.step \in Working /\ GivesUp(Scheduler, t, u)
    <3>1. u.step = "claim" /\ u.todo = t.todo
      BY <1>2, <2>1 DEF GivesUp, Claiming, Idle, Working
    <3> QED
      BY <2>1, <3>1 DEF Stage, Working
  <2>2. CASE GoesOn(t, u) /\ t.step \in {"read", "pages", "llm", "stage"}
    BY <2>2 DEF GoesOn, Stage
  <2>3. CASE GoesOn(t, u) /\ t.step = "final"
    <3>1. PICK q \in t.final : u.final = t.final \ {q}
      BY <2>3 DEF GoesOn
    <3>2. Cardinality(u.final) = Cardinality(t.final) - 1 /\ Cardinality(t.final) \in Nat
      BY <1>1, <2>3, <3>1, FS_RemoveElement
    <3>3. u.step = "admit" /\ u.todo = t.todo
      BY <2>3 DEF GoesOn
    <3> QED
      BY <2>3, <3>2, <3>3 DEF Stage, Pieces
  <2>4. CASE GoesOn(t, u) /\ t.step \in {"admit", "commit"}
    <3>1. Cardinality(t.final) \in Nat /\ u.final = t.final /\ u.todo = t.todo
      BY <1>1, <2>4 DEF GoesOn
    <3> QED
      BY <2>4, <3>1 DEF GoesOn, Stage, Pieces
  <2>5. ASSUME NEW c \in t.todo, u = Claiming(t.todo \ {c})
        PROVE  Cardinality(u.todo) < Cardinality(t.todo)
    <3>1. u.todo = t.todo \ {c}
      BY <1>2, <2>5 DEF Claiming, Idle, Working
    <3> QED
      BY <1>1, <3>1, OneLess
  <2>6. ASSUME NEW c \in t.todo, u = Review(Scheduler, c.s)
        PROVE  Cardinality(u.todo) < Cardinality(t.todo)
    <3>1. u.todo \subseteq t.todo \ {c}
      BY <1>7, <2>6
    <3> QED
      BY <1>1, <3>1, OneLess
  <2>7. GoesOn(t, u) => t.step \in {"read", "pages", "llm", "stage", "final", "admit", "commit"}
    BY DEF GoesOn
  <2> QED
    BY <1>5, <2>1, <2>2, <2>3, <2>4, <2>5, <2>6, <2>7
<1> QED
  BY <1>1, <1>3, <1>6, <1>8, <1>9, LowerThree

\* A tick of the scheduler comes to its end by itself: each of its steps, the failing ones
\* too, ends it or leaves less of it, in an order without infinite descent, and nothing
\* others do while a model is asked or a proposal decided gives it more.
THEOREM TicksRunDown == Spec => [][TickRunsDown]_improveVars
  BY NextRunsDown, SpecTaken, PTL DEF Spec
================================================================================
