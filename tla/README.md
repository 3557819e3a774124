# Verification of Forge: the maestro and its memory service

Forge turns an idea into a deployed application: a *pipeline* of jobs run by coding
command line tools, with gates at which the owner decides. Two programs of the repository carry
its logic, and this directory holds TLA+ models of both, the TLC runs that check them and the
theorems TLAPS proves about them:

- `src/maestro` (JavaScript): the engine of the pipelines, the discovery workspace before them,
  the control plane above them and the outbox of memories beside them;
- `src/integrations/ai-memory` (Rust): the memory service the coding tools share: a store of
  pages, sessions and handoffs, a wiki of Markdown files beside it, hooks that spool events to it,
  and reviews that improve its pages by themselves.

`PROJECT.json` lists the same things for tools: components, runs, mutants, the source lines behind
every definition, findings, hazards, theorems. Run a check with `tlc -config X.cfg M`, a proof with
`tlapm M.tla`.

## 1. Inventory

### The maestro (`src/maestro/`)

Everything runs in one Node.js process: a handler runs without interruption from one `await` to
the next, and the hard cases come from what happens *at* the awaits and from crashes between writes.

| Component | State | Operations | Interacts with | What is hard |
|---|---|---|---|---|
| **Pipeline engine** `engine.mjs` `createEngine` | one mutable `pipeline` record, its file, `looping`, `child`, cooldowns | the loop `advanceLoop`; start, startFeedback, startSimulation, startShip, decide, stop, kill, setControlMode, continuePipeline, resume, setTarget; boot | executors, git, deploy, simulator, memory | commands run while the loop awaits; starts replace the record the loop holds; gates, retries and automatic answers in any order; crashes |
| **Simulator** `simulator.mjs` | fields of the pipeline record | applySimulationResult | engine | inserts jobs into a running plan, once |
| **Engine manager** `engine.mjs` `createEngineManager` | a map of engines, shared cooldowns | routing, startFromDiscovery, removeApp | engines, discovery, dispatcher | an app is removed while its loop still awaits |
| **Discovery workspace** `discovery/` | rooms, theses, evidence, experiments, builds, acquisitions, handoffs in one file | 22 operations from room to imported return | engine manager | evidence gates read earlier than they are used, limits on work in progress, a reservation around a call that may fail or crash |
| **Control dispatcher** `control/dispatcher.mjs`, `store`, `confirmations`, `audit`, `handlers` | operations file, audit log, pending confirmations | execute, issueConfirmation | every other component | repeated requests, stale versions, crash between effect and record |
| **Snapshot, catalog** `control/snapshot.mjs`, `catalog.mjs` | a cached snapshot | read models, which actions are enabled | engine, discovery, operations | a cached version used in a check |
| **Lifecycle** `control/lifecycle.mjs`; **always-on deploy** `control/always-on-deploy.mjs` | a file per app | recordP4, decideP5; prepare, confirm, publish, verify | engine manager, discovery | an effect before its record |
| **Executor run service** `executor-run-service.mjs` | `active`, `runs` | start, stop, timeout, close, error | playbooks, chat | five events race to settle a run |
| **Memory** `memory/` | outbox entries and their file; the external service's process | record, drain; supervise, import | engine, the memory service | an entry is written, then removed, with a crash between |
| **Run events** `control/run-events.mjs` | sequence counter, retained events, file | append, list | server | the counter across pruning and restart |
| **Supervisor** `supervisor.mjs` | none | probe, start, wait | server | two launchers at once |
| **Server** `server.mjs`, **CLI and TUI** `forge.mjs`, `tui/`, `operator/` | none of their own | routing, rendering | all | |
| **Deploy, adapters, improver, blueprints, workbench, stats, toolbox** | files | external tools, text | engine | pure input and output |
| **Shared packages** `src/packages/` | the credit state in a cookie | consume a credit, seal, open | generated apps | the day changes between two uses |

### The memory service (`src/integrations/ai-memory/crates/`)

A server of asynchronous tasks over one SQLite database, whose writes go through one thread, one
transaction at a time, and whose reads come from a pool and see one committed state per statement.
Between two awaits of a request other requests, the watcher and the scheduler run.

| Component | State | Operations | Interacts with | What is hard |
|---|---|---|---|---|
| **Scopes and page store** `ai-memory-store/ops.rs`, `decay.rs`, `ai-memory-consolidate/sweep.rs` | workspaces, projects, versions, links, vectors | write, batch, delete, restore, purge, move, rename, sweep, embed | wiki, tools, administration | jobs read rows first and write by id later |
| **Queries** `reader.rs`, `scope.rs` | none | search, links, briefing, reports | tools, web | three statements of one search see three states |
| **Tools, administration, web** `ai-memory-mcp/`, `ai-memory-web/` | the active project of each actor | resolve a scope, answer | queries, wiki | three surfaces must agree on what a request means |
| **Hook client and spool** `ai-memory-cli/hook*.rs` | a file per event, a lock, attempts | enqueue, drain, retry, drop | batch route | processes die, answers get lost, two drains meet |
| **Hook ingestion, sessions, handoffs** `ai-memory-hooks/router.rs`, `ops.rs`, `admin.rs` | sessions, observations, handoffs, a cache of scopes | events step by step; purge, move, merge, rename, reorganise | store, wiki, client | administration between any two steps of an event |
| **Wiki, watcher** `ai-memory-wiki/wiki.rs`, `watcher.rs` | files, directories, a lock | write, batch, delete, restore, move, merge, reindex, reconcile | store, people's editors | file and row are changed one after the other |
| **Auto-improvement** `auto_improve.rs` (two crates), the scheduler of `serve.rs` | claims, runs, proposals, files, policy | tick, review, gate, decide, install | a model, wiki, store | minutes between reading and writing; approvals by two parties |
| **Consolidation, bootstrap, lint, curator** `ai-memory-consolidate/` | none | pages from a session, reports | a model, wiki | a batch that half applies |
| **Access, logins, providers, settings** `auth.rs`, `users.rs`, `ai-memory-llm/`, `config.rs`, `serve.rs`, `writer.rs` | users, tokens, credentials, queue | who may do what; requests to a model; start | everything | order of precedence, boundary values |
| **Installers, client commands** `ai-memory-cli/commands/` | other programs' settings files, the data directory | install, uninstall; requests; restore, reset | the server | the user's own entries beside ours |
| **Wiki migrations, web pages, evaluations, packaging** | files | rendering, data | | |

`src/integrations/startup-user-simulator` is vendored third-party code; `src/content`, `src/docs`,
`src/blueprints` and templates are data or documents.

### What makes each component correct

- **Engine.** A pipeline that says `running` has a loop behind it; one that waits has a
  question its owner can answer; no job is skipped; nothing ships without a fresh answer
  of the owner; a crash loses nothing; the loop comes back to rest unless a program it called never
  closes; a run iterates by itself once.
- **Engine manager.** What removeApp removed stays removed; engines do not disturb each other.
- **Discovery.** Each stage is backed by the evidence its gate requires; the limits
  on work in progress hold; a failed or interrupted start gives its reservation back.
- **Dispatcher.** A request takes effect at most once; an effect is recorded; a confirmation
  authorises one action on the state that was shown.
- **Executor runs.** A run is settled once; the slot is free exactly when no run is active.
- **Outbox.** What was accepted is delivered at least once, and never lost by a crash.
- **Page store.** One latest version per path, chained to what it replaced; links lead to the
  latest version; nothing refers to a row that is gone; pinned pages stay.
- **Queries and tools.** A search stays in its project; the three surfaces agree where none of them embeds
  the query, and with an embedder the tools miss nothing for want of words.
- **Spool.** An event leaves only when the server took it or for a named reason; twice only after
  an answer was lost; one drain at a time; what is spooled at a boundary event is sent unless the spool
  overflows under the drain.
- **Ingestion.** Rows stay paired with scopes; an ended session's page has all of it; one handoff for
  each stretch of work; a scope that is gone makes no later event fail.
- **Wiki.** The files of pages lie in their project's workspace; a merge loses nothing; the index comes to
  say what the files say.
- **Auto-improvement.** What a model proposed is indexed only once approved, and in its file before that only
  while its decision is under way; an approval overwrites only what it was about; a session that ended is taken up.

## 2. Plan

| Step | Modules | Done |
|---|---|---|
| 1 | `PipelineEngine`, `PipelineEngineProofs` | modelled, checked, proved (liveness checked) |
| 2 | `DiscoveryWorkspace` refining `WorkInProgress`, `DiscoveryWorkspaceProofs` | modelled, checked, proved |
| 3 | `ControlDispatcher`, `ExecutorRun`, `ControlPlaneProofs` | modelled, checked, proved |
| 4 | `MemoryOutbox`, `ControlPlaneProofs` | modelled, checked, proved |
| 5 | `MemoryScopes`, `MemoryPages`, `MemoryReader`, `MemoryTools`, `MemoryPagesProofs` | modelled, checked, proved |
| 6 | `HookSpool`, `HookSpoolProofs`; `MemorySessions`, `HookIngest`, `HookIngestProofs` | modelled, checked, proved |
| 7 | `MemoryWiki`, `MemoryWikiProofs` | modelled, checked, proved |
| 8 | `AutoImprove`, `AutoImproveProofs` | modelled, checked, proved |
| 9 | pure algorithms: `PageRoads`, `ServerAccess`, `Credentials`, `Providers`, `ServerSetup`, `Consolidation`, `MemoryReports`, `ClientCommands`, `ServerRequests`, `HookCapture`, `HookInstall`, `AgentSetup` | evaluated on bounded inputs |
| 10 | `EngineManager` (several apps, shared cooldowns, removal), `Lifecycle`, `AlwaysOnDeploy`, `RunEvents`, `Supervisor`, the credits package | not begun |

`MemoryScopes` is the base of the memory service's modules: `MemoryPages`, `MemorySessions` and
`MemoryWiki` extend it with the rows that hang from a project, `MemoryReader` and `MemoryTools` build on
`MemoryPages`, `HookIngest` on `MemorySessions`. Modules that are proved about use no `RECURSIVE`
operator, take their parameters as CONSTANTS with named assumptions, and have one action per operation.
Every configuration belongs to an `MC` module (or to the module itself where no definition is needed)
that gives the instance its plans, links, places or batches.
## 3. PipelineEngine

### State

| Variable | In the code |
|---|---|
| `pipeline` | the record `pipeline` of `createEngine` (run 0 stands for `null`) |
| `disk` | `maestro/pipelines/<app>.json`, replaced by `save()` |
| `loop` | `advanceLoop` and the `runJob`, `runShip`, `maybeReview` it awaits: where they are (`pc`) and their locals; `run` says which record `runJob` captured as `p` |
| `cooldowns` | the map of players that were rate limited |
| `dirty` | uncommitted changes in the app's repository |
| `shipped` | the runs whose deploy took effect (kept for the properties) |

`loop.pc = "idle"` is `looping === false`. The points in `SyncPoints` lie between two awaits:
no command is enabled there, but a crash is. The points in `AwaitPoints` are the awaits: the
briefing and the prompt improver (`prompt`), the executor (`exec`), the build (`verify`),
`deployApp` (`deploy`), the reviewer and its verify (`review`, `reviewVerify`).

### Actions

| Actions | Code |
|---|---|
| `LoopFinishes`, `JobStarts` | the head of the loop, `finish("done")`, the start of `runJob` |
| `PlayerPicked`, `PlayersExhausted`, `LoopThrows` | `pickPlayer`: first eligible player, none, or an exception |
| `PromptReady`, `ExecutorExits`, `ExecutorRateLimited`, `VerifyPasses`, `VerifyFails` | the attempts of `runJob`, with history, cooldown and rollback |
| `DeploySucceeds`, `DeployFails` | `runShip` |
| `JobPassed`, `ReviewEnds`, `ReviewVerified`, `ResultDropped`, `ReportMissing`, `JobAdvances`, `AutomaticDecision`, `JobFailed` | what `advanceLoop` does with the result: checkpoint, review, simulation, gate, control pause, automatic answer, block |
| `Start`, `StartFeedback`, `StartSimulation`, `StartShip` | the four ways to start a run; they replace the record |
| `Decide`, `Stop`, `Kill`, `SetControlMode`, `ContinuePipeline`, `Resume` | the commands of the same name |
| `Restart` | a crash anywhere and the boot that reads the file |
| `ExecutorWrites`, `CooldownEnds`, `OwnerCleansTree` | the environment |

A write through `p` reaches the engine only while `OwnRun` holds; everything the code does
through `pipeline` reaches whatever record is there. Retry finds its job with `indexOf`
(`IndexOf`), and pushes and lookups of gates follow the code: `Decidable` is the first
undecided gate of each id.

### Abstractions and their reasons

- Texts, timestamps, prompts, branches, deploy addresses and the workbench notes decide
  no step. `setTarget` edits only such data and is left out.
- A verdict read from a file (scorecard, design recommendation, simulation report,
  verify) is a nondeterministic choice.
- Dry runs and `jobSpecs` of external blueprints are left out: they skip awaits or replace
  the gates of `GATES_AFTER`, and add no step.
- The three choices of `ds-pick` are one, `pick`.
- The `await remember(...)` after a verify is merged with the await before it: a command
  there has the same effect as just before the verify ends.
- Bounds: `MaxRuns` limits the starts, `MaxGates` stops *new* stops, retries and
  interruptions once the run has that many gates. The loop itself is not bounded.

### Runs

| Run | Shows |
|---|---|
| `engine_all` | `RunningHasLoop`, `WaitingHasGate`, `CrashLosesNothing`, and under fairness `LoopSettles`: every command in every order, two runs that may overlap, stops and crashes anywhere; two players, two attempts, a review (203 030 states) |
| `engine_orderly` | `JobsVerified`, `ShipsOnFreshGo`, `OneAutomaticIteration`: two runs in turn without `stop`, the type of app chosen by P0, full_auto and autopilot, crashes, retries and the automatic iteration; one player, one attempt, three gates (825 867 states) |

The instances keep a few jobs of `JOBS_BY_CAPABILITY` in their order: the plans hold P0 with
its gate and the sequence it may install, L1/B5 twice (through the iteration), SIMULATE and
P3. The jobs left out add gates of the same three kinds of answers. `engine_all` allows one new
gate by stop, retry or interruption in each run beside the plan's own, with two runs that
replace each other at any point; `engine_orderly` allows three, so that a recovery gate may
follow a gate and a retry a recovery gate.

`JobsVerified` and `ShipsOnFreshGo` are *false* with `stop` or with overlapping runs (see the
findings); they are checked, and proved, where `OwnerStops` and `OwnerOverlaps` are FALSE: that is
where the code keeps them.

### Fairness

`WF_vars(LoopStep /\ loop.pc \notin AtProgram)`: the loop's own code runs on, and the briefing, the improver
and the calls of the memory service settle, as each has a timer that ends its await. Nothing is assumed of the programs
the loop waits for (`AtProgram`: executor, reviewer, builds, deploy): the hard timeout of `runExecutor` sends one SIGTERM (except
on Windows, where it kills the tree) and the await settles on `close` only, so a tool that ignores the signal, or a
child that keeps its output open, holds the loop. `LoopSettles` therefore says that the loop comes to rest or waits for ever
at one program; what is excluded is a loop that calls one program after the other for ever, or hangs between. Nothing
is assumed of the owner either: a pipeline may wait at a gate for ever, so the property is about the *loop*.

### What the model shows beside the properties

Three statements of comments in `engine.mjs` are not kept by the code: stop at the deploy gate, then
retry the stop, and P3 runs with the gate unanswered; kill, start again while the old executor is
ending, and the old result advances the new run; and the hard timeout is not all that is needed against a hang
(line 1219), as it signals and does not settle. Other behaviours no property forbids: a
gate that was pending at the kill can still be answered, and the run is running again; a late go on p0-go
replaces the job sequence at a later index than its comment assumes; the retry of the second
L1/B5 returns to the first (`IndexOf`); a stop followed by a failure leaves two recovery gates, and
answering the second moves the pipeline under a job in flight. `WaitingHasGate` also shows that
the catalog's `pipeline.resume`, enabled for a blocked pipeline *without* a pending gate
(`control/catalog.mjs`), is never enabled.

## 4. DiscoveryWorkspace

The workspace is one JSON file that each operation reads, changes and replaces without an
await, so an operation is an action. `startBuild` is the exception: `StartBuild` writes the
reservation, `EngineStarts` or `EngineRefuses` is `startFromDiscovery` with the engine's
guard, `BuildMarked` or `BuildReleased` writes the outcome, and `Crash` may end the process
between any two of them. No other operation runs in between (`Quiet`): the call is synchronous.

| Variable | In the code |
|---|---|
| `theses`, `evidence`, `experiments`, `builds`, `acquisitions`, `handoffs`, `returns` | the collections of `initialState`; a sequence keeps the order of creation, and an id is an index |
| `proposals` | the number of proposals made, which gives each its id |
| `pipelines` | per app, the discovery context and whether the engine's guard would refuse a start |
| `call` | the locals of a `startBuild` in progress |

Evidence is a set of *drafts*, each of which may be recorded once: a thesis, what it validates, and
whether it counts (supporting and not synthetic). Money is a number in `Amounts`. Rooms, messages and
assets, which no operation reads back, are left out, as are the files of a handoff.

`WorkInProgress` is the abstract promise: pools with limits whose places are taken
and given back one at a time. `LimitsRespected` says that every step of the workspace is such
a step, seen through `InValidation`, `ActiveBuilds` and `ActiveAcquisitions`. One operation may not
do two things (take a place while it gives another back), which a limit alone would not notice.

The run `discovery` checks `ProvenUntilRejected`, `HandoffFrozen`, `PlacesBacked` and `LimitsRespected` on two
slices of one state space (`Slices`, 179 167 states). One thesis has evidence of every sort, decided again
at any time, with money, crashes and a second proposal; or two theses with verified proofs compete for the
place in validation, the build and the acquisition. `MaxProposals`, `MaxExperiments`, `MaxBuilds`,
`MaxAcquisitions` limit what may be created: two of each, one more than there are places. The operations
the second slice leaves out take or give back no place that another does not.

`ProvenUntilRejected` says of a proposal that its references meet the gate when it is made and that only the
rejection of one of them ends that. It does not say that they meet it when the build starts, because they need not: `startBuild`
checks that there is a proposal, not the gates (`workspace.mjs:201`), so a build starts on evidence rejected since, although
`docs/AGENT-PIPELINE.md:41` says that a build is born after E1+E2.

Other behaviours of the code the model contains, which no property forbids: a build that is still starting, killed or failed can be
completed; a terminated build leaves its pipeline running beside that of the next build; the
evidence a build needs is not split into the gates E1 and E2 as the tutorial describes them.

## 5. ExecutorRun

`start`, `stop`, the timer, `close` and `error` of `executor-run-service.mjs`, an action each; what they
share is `Finish`. `process` is the tool's own process, which ends when it ends: `close` may arrive
long after its run was stopped and another has begun.

`executor_run` checks `SlotIsHonest`, `SettledOnce` and, with `WF_runsVars(TimesOut(r))` (timers fire;
nothing is assumed of the tool), `SlotFrees`. Three runs (1 215 states): the one that holds the slot, a late one
before it, and one after. The slot is free before the process of a stopped run has ended, so two tools may
run at once: no property forbids it, as the code settles a run without waiting for its process on purpose.

## 6. MemoryOutbox

`record`, `setup`, `retry` (and `startIfInstalled`, the same) of the memory service over the outbox. A drain has a
`pc`: between `sent` and its answer it waits at `await writer(...)`, with the index it found before;
records may be queued meanwhile. A direct write that fails falls back to the outbox. The service
may be down without the runtime's state saying so, and an answer may be lost after the page was kept.
`refreshStatus`, awaited before a drain begins, changes nothing here and is merged with it.

`memory_outbox` checks `NothingLost`, `IndexHolds`, and under `Answers` (writes are answered or time out,
`AbortSignal.timeout` in the gateway, and clocks advance) `DrainSettles`: three records, two troubles (outage,
failed write, lost answer, crash; 39 733 states). `MaxSubmits` and `MaxTrouble` bound the submissions of a record and the
troubles. With three entries the drain has one before and one after the entry it awaits, and two troubles allow a lost
answer followed by a crash. A record whose write failed stays in the outbox for ever although the service is
healthy: nothing drains it again by itself.

## 7. ControlDispatcher

`execute()` runs without an await from its first check to the call of the handler, so a request that
is accepted is one action, `ExecuteSafe` or `ExecuteConfirmed`; the handler's work and the recording of its
result are actions of their own, and other requests come in between.

| Variable | In the code |
|---|---|
| `world` | the version (`stateVersion`) of what a snapshot taken now would show, in two parts: `keyed`, what the key of the snapshot's cache is made of (how far each pipeline is, the revision of the workspace, interactive runs, deployments), and `hidden`, all the rest |
| `cache` | `_snapshotCache`: the version it holds, and whether it is under two seconds old |
| `ops` | the operation stored under each idempotency key, in `operations.json` |
| `pending` | the confirmations in memory; `issued` are those ever issued |
| `flights`, `effects` | where the handler of each key is, and how often it took effect |

`Served` is what `getSnapshot()` returns. A request carries the version of a snapshot its client saw; one
with any other version is refused and changes nothing, so an accepted request has version `Served`, which a
client that looked just before has seen. A repeated request is answered with the stored operation and one
with a different payload is refused: neither is a step. Handlers are external here: an effect is a
change of `world`, and a handler may fail before it or after it (`HandlerFails`), or the failure itself may
not be recorded (`FailureUnrecorded`). `Crash` loses handlers, confirmations and the cache.

`control` checks `OneEffectPerKey`, `ConfirmedOnce` and `BegunAsConfirmed`: two keys, a safe and a risky action, two
confirmations, a change from outside, a crash (3.8 million states; keys are interchangeable, `Alike`). Two keys and two
confirmations are what a confirmation used twice, used for something else or confused with another takes.
`BegunAsConfirmed` is what does hold of versions: between the confirmation and the beginning of the
operation nothing *keyed* has changed, and no more is claimed. A hidden change within the last two seconds is not seen: the operation
then begins on a state its owner was not shown.

## 8. MemoryScopes, MemoryPages, MemoryReader, MemoryTools

`MemoryScopes` holds two tables, `workspaces` and `projects`. One writer thread runs one command at a time
in a transaction, so an operation is one action, and an operation that fails changes nothing: only the outcomes
that succeed are actions. An id is `Unborn` until it is drawn and `Gone` once its row is deleted.

`MemoryPages` adds `pages` (id to version row, ids in the order of writing), `links`, `embeddings`, and the two
jobs that read first and write later: `sweeping` (the rows `decay::sweep` chose) and `embedding` (the version a
vector is being computed for). Bodies and vectors are tokens; the content decides links, tier and pin.

`MemoryReader` has the queries of `reader.rs` as operators on the state, and the hybrid search as a process of three
statements (`search`), as each sees whatever the writer committed by then. Ranking formulas are left
out: where a rank decides which hits survive a limit, any may. `MemoryTools` adds how a request names a
scope and what the three surfaces (MCP tools, admin routes, web) answer. The tools search by words alone or, where an embedder is
configured and has embedded the query, by words, vectors and links (`hybrid_search`, here of one state; `search` is the same
over three); the administrator and the web search by words (`api.rs:257` defers the rest). So `SurfacesAgree` has two halves: without an embedded query
the three have the same answers, limits included; with one the tools may answer otherwise, but from the same scope, the same
by whatever way it was named, and with room for all they find every page the others find.

`memory_pages` (55 563 states) checks `VersionsWellFormed`, `BareLinksFollow`, `NoDanglingRows`, `SearchStaysInProject`,
`PinnedKept` and `AnswersAgree`, in four slices chosen at the start (`MCNext`): scopes with links, the sweep, the
vectors, the search. Two workspaces, two projects, two paths, three versions, and searches limited to one hit or to all (`Limits`): enough for a version that supersedes one that
superseded another, a page that moves away from its links, and a row rewritten between a read and its use.

## 9. HookSpool

A hook writes its event to a file; a *drain* posts the files in the order of their names and removes those
the server took. The variables are the files with their attempts, the drains with their steps
(`waiting`, `listing`, building a request, waiting for the reply, recording it), the lock `.drain.lock`, and what the
server took. The batch route answers item by item, so a request may be taken in part; a reply may be
lost after the server did its part; a drain may die anywhere, and its lock is freed with it.

`hook_spool` (201 874 states) checks `NoEventVanishes`, `TwiceOnlyUnheard`, `OneDrain` and, with `WF` of each
drain's own steps and of taking the lock (file locks are granted, requests have timeouts), `BoundaryFlushes`. Four events, the fourth once the server is well, of
which the second is malformed, two drains, and limits of two (attempts, files, batch) with one fault: each limit is
reached, exceeded and met by two drains at once. With four events a spool of two overflows a second time while a drain has listed its
files: the drain finds them gone, counts them as remaining and ends without looking again, and the other has given up waiting, so that
the newer events stay until the next drain. `BoundaryFlushes` excepts exactly this (`Overrun`). The run also evaluates the 20 checks of `InstallChecks`.

## 10. MemorySessions, HookIngest

`MemorySessions` holds `sessions`, `observations`, `handoffs` and the `clock` their dates come from; foreign keys take rows with what they
depend on (`DropRows`), a move restamps them (`RestampRows`), and the triggers of migration V18 refuse
an insertion (only an insertion) whose workspace and project do not belong together.

`HookIngest` works on a request in steps with an await between any two, after `process()` of `router.rs`: the sticky
scope, the cache, workspace and project (made if need be), remembering, the disposition of an end, `begin_session` with one
retry after a foreign key failed, the observation, the compiled page, the end, the handoff. Every action of `tasks[t]` is
one step; `Dies` drops the request anywhere. An administrator's purge, deletion, move, merge, rename or
reorganisation commits and invalidates the cache in two steps. `cache` is the LRU of
`ProjectCacheStore`: entries numbered by use.

`serial` says that events of a session come one after the other, as the batch route and the spool deliver them. Without
it two events of a session may run at once, and `EndedSummarised` and `OneHandoffPerWork` do not hold: they are stated of serial
sessions. `NoStaleFailure` is stated of *calm* requests, those no change of scopes overlaps and no
request that one overlapped: it says that what is left behind in cache, session and directory never fails a later event.

`hook_ingest` (763 776 states) checks `ScopesPaired`, `EndedSummarised`, `OneHandoffPerWork`, `NoStaleFailure`. Two
workspaces, three projects, one session, a directory inside another, a cache of two, two tasks, one administrative
operation. Either four events of the session one at a time (`Slices`: enough to end it, work in it elsewhere, and end it again), or
two requests of any kind at once. A reorganisation runs alone here (`ReorgAlone`); where another operation comes between its plan and
its commit, `hook_ingest_reorg` violates `ScopesPaired`: the finding of section 15. No fairness is assumed.

## 11. MemoryWiki

A page is a Markdown file under the directory of its project and a row. The variables are `files`, `dirs`, `rows`, the two sides
of the lock (`mutation_lock`), the `tasks` with what they listed or hold, and `torn`, the projects a crash left half moved. Requests
(write, batch, delete, restore, purge, move, merge) and the watcher change file and row in two steps; a hook event stores its
observation and appends its line to the project's log afterwards, with neither the lock nor a look at the scope (`append_event`), so that it may make
a directory again that was moved or purged; a store call may
fail, after which the file is rolled back; people edit files; a crash may come between any two steps.

`wiki` (126 852 states) checks `FilesInScope`, `MergeLosesNothing` and `IndexFollowsFiles`. Two workspaces and two
projects of the same name or not (a move, or a merge that collides), three paths, a batch of two, two
requests, one fault and one look of the watcher beside them: a fault in each step of each request, while
another request or the watcher is anywhere. People edit where there are pages (a bound). `FilesInScope` speaks of the files of
pages: a late log line leaves at most a directory without any, which later makes a move to that place be refused, or keeps a
refused move from being undone (the project is then `torn`). Fairness: `WF` of each task's own steps (awaits settle) and `SF` of
`CatchesUp`: the reconciliation that `serve` runs periodically gets its turn whatever comes in between.

## 12. AutoImprove

The scheduler's tick claims sessions that ended after its watermark, a reviewer reads the session and some pages, a
model drafts proposals, gates refuse some, the rest are staged, and either the policy or a person decides. The variables are
named in the module; a body is the id of the proposal it came from or a person's version. What the
model answers is an arbitrary choice. `torn` are paths where a crash cut a decision in two.

`auto_improve` (546 414 states) checks `OnlyApprovedStays`, `NoBlindOverwrite` and `SessionsReached`: one session that ends twice, one rule and one
slot, two proposals, one request of a person, one failing call or crash, three versions, so that a page may
change between its reading, its proposal and its approval. A proposal's file is installed before the store decides, under a lock that readers do not
take: `OnlyApprovedStays` lets the file have the body in that window, for that very proposal, and nothing else. `SessionsReached` is about being taken
up: a failed review is not repeated, and with one session the order of several is not compared. Fairness: `WF` of the scheduler's own steps (it
ticks and its calls are answered), of the other workers' decision steps, and of sessions growing old.

## 13. Pure algorithms

What takes no step is written as operators and evaluated by TLC on bounded inputs, as named assumptions that compare each with
a reference definition or with a property of its result: `ServiceChecks` (134 assumptions over `PageRoads`, `ServerAccess`,
`Credentials`, `Providers`, `ServerSetup`, `Consolidation`, `MemoryReports`, `ClientCommands`, `ServerRequests`) and `HookChecks` (37, over
`HookCapture`) with the run `memory_outbox`; `InstallChecks` (20, over `HookInstall`, `AgentSetup`) with the run `hook_spool`. Each
evaluates its operators on every input of a small set, such as all users with and without tokens, all
settings files with the user's entries and ours, or all orders of an LLM's updates.

## 14. What is proved

TLAPS proves the following for every value of the constants; the runs above show the same properties on their
instances. Each `Spec => []P` follows from an inductive invariant, stated in the module of the proof.

| Module | Theorem | States |
|---|---|---|
| `PipelineEngineProofs` | `TypeCorrect` | `TypeOK` |
| | `RunningIsDriven`, `WaitingIsAnswerable`, `CrashSafe` | `RunningHasLoop`, `WaitingHasGate`, `CrashLosesNothing` |
| | `IteratesOnce` | `OneAutomaticIteration` |
| | `LoopRunsDown` | `RunsDown`: each step of a loop ends it or lowers `Work`, in a well-founded order |
| | `OrderedRuns`, `NoJobSkipped`, `OwnerShips` | the plan stays in order, `JobsVerified`, `ShipsOnFreshGo`; under `Orderly` |
| `DiscoveryWorkspaceProofs` | `WorkspaceTypes`, `ProposalsStayProven`, `HandoffsAreFrozen`, `PlacesAreBacked` | `TypeOK`, `ProvenUntilRejected`, `HandoffFrozen`, `PlacesBacked` |
| | `WorkspaceRespectsLimits` | `LimitsRespected`: the workspace implements `WorkInProgress` |
| `ControlPlaneProofs` | `DispatcherTypes`, `EffectsOnce`, `ConfirmationsOnce`, `BeginsAsConfirmed` | `TypeOK`, `OneEffectPerKey`, `ConfirmedOnce`, `BegunAsConfirmed` |
| | `ExecutorTypes`, `SlotStaysHonest`, `RunsSettleOnce` | `RunsTyped`, `SlotIsHonest`, `SettledOnce` |
| | `OutboxTypes`, `NothingIsLost`, `IndexStaysRight` | `OutboxTypeOK`, `NothingLost`, `IndexHolds` |
| | `DrainsRunDown` | `DrainRunsDown`: a drain ends, waits, sees its write applied, or has fewer records to do |
| | `OutboxGivesToServiceOnly` | `GivesNothingAway`: what was accepted or delivered stays so, and a record leaves the file only if delivered |
| `MemoryPagesProofs` | `StoreTypes`, `VersionsAreChained`, `BareLinksAreFollowed`, `NothingDangles` | `PagesType`, `VersionsWellFormed`, `BareLinksFollow`, `NoDanglingRows` |
| | `SearchIsConfined`, `PinnedStays` | `SearchStaysInProject`, `PinnedKept` |
| | `AnswersAlwaysAgree` | `AnswersAgree` |
| | `RoadsAlwaysAgree` | its four parts at every moment, also while a search is under way |
| | `NamesStayUnique`, `ScopesStaySound` | `ScopesSound`, `FiniteInv`: a name leads to one scope, and every table is finite |
| | `RowsArePermanent` | `Onward`: an id never comes back to another row, a row keeps its project, path and content, and is never latest again |
| `HookSpoolProofs` | `SpoolTypes`, `SpoolKeepsEvents`, `DrainsExclude`, `DuplicatesAreUnheard` | `SpoolTypeOK`, `NoEventVanishes`, `OneDrain`, `TwiceOnlyUnheard` |
| | `SpoolDrainsRunDown` | `SpoolRunsDown`: each step of a drain ends it or lowers `ToDo`, and nothing else raises it |
| `HookIngestProofs` | `IngestTypes`, `RowsStayPaired`, `NothingFailsStale` | `TypeInv`, `ScopesPaired` where a reorganisation overlaps no other administration, `NoStaleFailure` |
| | `EndsAreSummarised`, `HandoffsArePerWork` | `EndedSummarised`, `OneHandoffPerWork` |
| `MemoryWikiProofs` | `WikiTypes`, `FilesStayInScope`, `MergesLoseNothing` | `TypeOK`, `FilesInScope`, `MergeLosesNothing` |
| `AutoImproveProofs` | `ReviewTypes`, `ProposedBodiesWait`, `NoApprovalIsBlind` | `TypeOK`, `OnlyApprovedStays`, `NoBlindOverwrite` |
| | `ReviewsBeginOnce` | `TakesUpOnce`: the scheduler reviews a session at most once and only a due one; a due session stays due |
| | `TicksRunDown` | `TickRunsDown`: each step of a tick at work ends it or lowers `TickLeft`, and nothing else raises it |

**Assumptions.** Only the named assumptions on the constants that the modules themselves state (bounds are
naturals, NULL is none of the values, ids, models or scopes, a page has finitely many links, there are finitely many
sessions and proposals, a query may name at least one scope, `Players` has the chain, slots are not rules, and the like); TLC evaluates
each with a run. `Orderly` is the hypothesis `OwnerStops = FALSE /\ OwnerOverlaps = FALSE`, exactly the setting of `engine_orderly`:
without it the two properties are false.

**The engine.** The first four theorems come from
`IInv == TypeOK /\ LoopLocals /\ RunningHasLoop /\ WaitingHasGate /\ CrashLosesNothing`. `LoopLocals` is the strengthening: a loop at
work on a job has a job, and one past `pick` has a player; without it `TypeOK` is not inductive, because the gate of a
failed job and the player excluded after a rate limit come from the loop's locals. The properties need each
other: a restart re-creates `pipeline` from `disk`, so `WaitingHasGate` speaks of both, and `RunningHasLoop` survives
because `Restored` never leaves a pipeline running. `IteratesOnce` has `IterationInv`: a plan holds at most one
ITERATE, one beside SIMULATE only once the mark is set, and a loop that simulates and may still iterate does so for a run
without iterations. The last three have `Orders`: the jobs of the plan are in order and those before the place are done
(`Places`), one question is pending at most (`OneQuestion`), the deploy was asked for (`ShipAsked`), and a loop that is past
its head works for a run without a pending question, on the job at the place (`LoopOrdered`). `RunsDown` is the safety half of `LoopSettles`: `Work` lists seven numbers (whether an automatic capability is open,
the iteration not yet used, the jobs left, the stage, the players and the attempts left, whose turn it is), ordered as a
dictionary orders words, which `WorkIsWellFounded` proves well-founded; no step of the surroundings touches them while a
loop is at work. It needs `LoopBounds`: the player under attempt is one of the chain and not excluded, and its attempt is at most
`MaxAttempts`. There is a lemma for each operator
on records, two for the shape of a step (`SavedStep`, `KeptStep`), and one for each group of actions.

**Discovery.** The invariant conjoins to the properties what the reservation needs: every build belongs to the
thesis that has it (`BuildsOwned`), the call in progress is backed by the build it reserved (`CallBacked`), a build that learned its app
is that of its thesis, which can propose no other (`MarkedBuildLinked`), one build and one acquisition at a time, ids known where they are used. The
refinement has one lemma for each operation that takes or gives back a place, and stutters for the rest.

**Dispatcher and executor.** `Flights`: a handler in flight has its operation on record, and while it is only
called its key had no effect, which makes the effect of a crashed or failed handler the only one. `Nonces`: a nonce is
at most the number issued, so the next is new. `Unspent`: no operation on record has the nonce of a pending
confirmation. For the executor, one lemma (`FinishKeeps`) serves the four events that settle a run.

**Outbox.** `Stored` (between two steps the file is the outbox, so a crash loses none of it) and `Applied` (what was
acknowledged is delivered, so the entry a drain removes may go). `NothingLost` needs `IndexHolds`: a drain that
removed the entry at a stale index would lose one that was never written. `DrainRunsDown` is the safety half of
`DrainSettles`, about the records the drain has yet to do.

**Page store.** `VersionsInv`: ids are drawn in order, the latest version of a path is its newest and is not evicted,
and each supersedes an older row of its path. `Filed` (rows of a project that exists, in its workspace), `LinksInv` (an
internal link names the latest row of its path), `VectorsInv`, `SweepInv` (what the sweep chose may be gone by now but is never
something else than a decaying version) and `SearchInv` (hits are of the project as long as their rows are there, and were latest when
the search began or were written since).

Its second part is about what the store answers. `ScopesInv` (a name is one workspace's or one project's, scopes are paired)
and `FiniteInv` (the tables hold finitely many rows) are what `AnswersAgree` rests on beside `VersionsInv`: it is a
consequence of the stored rows alone, so it holds during a search too. Counts are sums of cardinalities; that a sum over a
partition is the cardinality of the whole is proved from a least counterexample, on finite sets, since the library's
induction theorems take an operator.

**Spool.** `Shape`, `OneDrain`, `Remembered` (what a drain remembers are events; what it was told to remove it remembers and the
server took; what failed is none of these) and `Unsent` (an event that may still be posted was taken no more often than
there were faults, except for the one answer a drain is about to apply): a second taking costs a fault. `Typed` gives each step of a
drain the entries it has in hand. On it rests the order in which a drain runs down, `ToDo`: how often it may still look into the spool, the files of
the pass, the entries in memory, the step it is at. A background drain that finds new files looks again, so the first part counts the
events that may still be born (`MaxEvents - born`) with the files it has not seen: a hook that writes one moves it from one count to the other.

**Ingestion.** Four inductive invariants over the same `TypeInv`, each for one property. `PlanOK`: a reorganisation that runs alone finds
its project where it planned it, so that the rows it stamps stay paired. `CalmOK`: while an undisturbed request is at work every other
is undisturbed too and nothing is left to invalidate, and from its second look on its scope, or the cache entry it will find, is
there; the hypothesis is about requests that no administration overlaps, because a cache entry of a purged scope does live until
`invalidate_scope_cache`. `Alone` (the events of a session come one at a time, which `serial` says) and `ReadOK` (what a request read is all that was
observed, and the page it wrote has it as long as the project is there) give `EndedSummarised`. `HandoffsOK` adds what an end rests on: a
request that will end a session does it for new work (`NewWork`), what came after an end is not only marks of later ends
(`WorkSince`), a handoff covers nothing after the end of its session (`Ended`), so that the next one has work of its own. It holds as
long as no project was purged: a purge takes the observations of its own with it, also those of a session elsewhere, and the
later handoff may have nothing left that the earlier one has not; TLC showed that, and the property says so. Two lemmas carry
the step: `ProcessCarries` (a request leaves every other session as it is) and, for the administration, `Administers` (which rows an
operation takes, and that it takes none when it drops no project).

**Wiki.** `LockOK` (a directory is renamed under the exclusive side, files are written under the shared side into a
directory that is there until the rows are stored), `DirsOK` and `Home` (a directory with pages is where the rows have its project, or is the
target of a move under way, or belongs to a purge that has yet to remove it; one with nothing but a log may be anywhere, which is why the
invariant is about `PageDirs`), `MovesOK` (pages that are elsewhere came from home, and none is there now), `RowsHome` (what a page
operation would put back if the store failed is put back at home), `FilesHaveDirs`, and for the merge `MergeSound` and `Copied` (every
listed page that is no longer to do is in a file of the destination, or is the one to be written next).

**Auto-improvement.** `OneDecides` (one worker at a time has installed a file that is not decided on), `Installed` (that file is the
proposal's, and what it would bring back is no undecided body either), `FilesOK` and `RowsOK` (a file or row with the body of a proposal has
one that is approved, or is being decided on). `Taken` is for the scheduler: dates have been (`Dated`), so that a session that ends again is later than
the watermark still; what is claimed was due, and what the scheduler reviews is claimed (`Claimed`); what a worker would put back into a
file is a body (`Carried`). `TickLeft` is the candidates that are left, the stage of the review, and three steps for each proposal
that is left to decide.

**Only model-checked.** Liveness is out of this prover's reach: `LoopSettles`, `SlotFrees`, `DrainSettles`, `BoundaryFlushes`,
`IndexFollowsFiles`, `SessionsReached`. Of `LoopSettles`, `DrainSettles` and `BoundaryFlushes` it is proved that the steps they wait for
run out, and of `SessionsReached` that a tick does and that a session stays due; that steps are taken is fairness.
The pure definitions of section 13 are evaluated on bounded inputs only.

## 15. Findings

One run exists to show a disagreement: `hook_ingest_reorg`. A reorganisation is planned, then executed after an await; a
project that an administrator moves meanwhile to another workspace gets the sessions of the old one, which migration V18
promises cannot be (its triggers look at insertions only).

The work on the models met other places where the code does not do what a comment or document says, or
where a reader may want to look; no run is spent on them.

*Maestro*: those of sections 3, 4, 6 and 7. The executor's hard timeout signals and does not settle (`engine.mjs:1219`); a build starts on
evidence rejected since its proposal (`workspace.mjs:201`).

*Sessions and handoffs.* A handoff is lost by a crash between `end_session` and `insert_handoff`, and one accepted is lost when
the brief's pages cannot be read (`router.rs:788`); it is delivered twice to two requests at once, though called single-use
(`server.rs:2178`). A purge takes the observations of its project also from sessions elsewhere, so an earlier handoff may
cover work no row shows any more (`OneHandoffPerWork` is stated of stores without a purge). A marked end of a subagent leaves
it tracked (`router.rs:680`). Rate-limit buckets go in the order of creation, so an evicted busy sender has a full burst
again (`router.rs:283`). `memory_query` resolves the actor's active scope several times between awaits; `memory_consolidate`
takes any project's session. `ActiveProject::set` leaves the shared slot's flag stale, and `clear_*` forgets the project but not the flag.

*Hooks.* An item that was only skipped by the rate limit is charged an attempt by the client (`hook_spool.rs:373` says
otherwise). `drain_until_quiescent` is documented to drain until the spool is quiescent or the budget is spent (`hook_spool.rs:321`), but ends
when files it listed were evicted meanwhile (349, 623), with newer ones in the spool. Overlapping Devin sessions share one state file (`hook.rs:126`). The client ignores nested session ids and
blank ids the server takes (`hook.rs:157`, `payload.rs:267`). An allowlisted word shields the whole match it stands in
(`sanitize.rs:155`). Marker flags take unquoted values but need quoted keys. User prompts are never cut. The lists of omitted
and of recent pages are outside the brief's budget.

*Wiki.* "Stale source writes fail without creating orphan files after the move" (`docs/lifecycle-ops.md:224`) holds of pages only: the log line of a
hook event that resolved its scope before a move or a purge is written without the lock (`log.rs:47`), makes the directory again, and may block a later
move (`wiki.rs:262`) or the undoing of a refused one (`wiki.rs:290`). "The DB is never ahead of disk" (`docs/lifecycle-ops.md`) does not hold: a file deleted by hand, or a reindex in the middle of
`delete_page`, leaves a row without a file, and two writes of one path at once may leave file and row different until the reconciliation. A page written or edited in the
source of a merge after it was listed is purged with it. The rollback of a failed write may undo another's. The git commit is under no lock.
An unreadable page counts as a free path (`admin.rs:3632`). A write creates its scope before admission refuses it. The sweep
deletes in the database only, and the reconciliation brings the page back.

*Auto-improvement.* Between the installation of a proposal's file and the store's answer (`wiki.rs:754-782`) `read_page`, which takes no
lock (336), gives out a body nobody approved, also of a pinned page or of a proposal about to conflict. A crash between the file of an approved proposal and its transaction leaves the body on disk for the watcher to index
(`torn`). A hand-edited file that is not indexed yet is overwritten by an approval. The claim precedes the review, so a failed review is never
retried; a session reviewed while open is not reviewed again, and those that ended before the first tick never are. One refused proposal discards its run. An
approved proposal's row ignores a pin a webhook put in the file. Telemetry undercounts gates beyond its limit (`auto_improve_telemetry.rs:137`).
Deciding a proposal again is a 500.

*Consolidation.* Compiling a pinned page loses its pin, and edits made while the model answers (`consolidator.rs:102`); rules whose titles slug
alike overwrite one another (740); of two updates of one new slot the second replaces what the first made invariant (302); a slot row without a
file fails the whole consolidation (252). A lint that finds nothing leaves the day's earlier report (`lint.rs:159`) and calls pinned
pages stale, the curator does not. One unreadable row fails sweep, lint and curator (`reader.rs:1600`). The projection prunes before it adds its
marker (`projection.rs:123`). Bootstrap drops the newest commits first (`bootstrap.rs:1012`), names a submodule's project `modules` (573), and
loses a source with an oversized label (1116).

*Access, logins, providers, settings.* With users but no server token everyone is anonymous and administration unreachable. The
auth file is rewritten without a lock; a failed save of a rotated refresh token loses the login (`openai_oauth.rs:210`), whereas copilot
keeps it; its polling knows no expiry. Two providers treat every model beginning with "o" as one of fixed temperature. Gemini's schema
filter drops properties named like a keyword and counts plain nesting. A blank data directory means the current one, the
configuration being read from the default; a blank server address counts as configured. A CORS origin beyond ASCII panics (`serve.rs:1766`); `inject_into_head`
matches `<header`; a wrong provider is found after the migrations. The writer's drop waits for ever on a full queue of abandoned commands
(`writer.rs:1025`). The scheduled backfill embeds blank pages, the requested one does not.

*Installers and commands.* Installing hooks removes a whole mixed entry with the user's hook in it, or any `SessionEnd` entry of Codex
(`install_hooks.rs:488`, 841), which uninstalling preserves; a renamed binary's commands are recognised by neither. Backups are named by the second. A
staging directory is emptied before an empty source is refused (2286). `install-mcp` ignores `base_path`, though the README says every surface moves. A stray
start marker makes the second `install-instructions` delete the text between. Uninstalling by address alone removes any entry of that address. A
cut download replaces the old file by its part; a forced restore deletes before the archive is opened (`restore.rs:44`); `init --force` replaces the tokens'
pepper; `finalize-session` reports nothing when a later session fails; `embed --force --project ""` means the current project. Projects with
one `repo_path` make the audit report each other's sessions (`reader.rs:4051`).

## 16. Not modelled

The components of `PROJECT.json` with status `not_modelled`. *Planned*: the engine manager (several engines, removal), lifecycle P4/P5 and the
always-on deploy (an effect before its record), run events, the supervisor, the credits package. *Outside*: executors, deploy providers and other
external tools (an answer of theirs is a choice in the models), the blueprint loader and the Braga handoff's contracts (files in, a plan
out), playbooks and prompts, the snapshot and the catalog but for what sections 3 and 7 say of them, factory administration, HTTP servers and streams, command line and terminal
rendering, workbench and statistics, the wiki's migrations, web pages and Markdown, evaluations and packaging, the vendored simulator, content.

Hazards that no property covers have a note in `PROJECT.json`: the code loses or repeats something there that it
promises nowhere to keep, or a document calls a loss acceptable.
