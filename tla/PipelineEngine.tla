--------------------------- MODULE PipelineEngine ---------------------------
(***************************************************************************)
(* The engine of one app: createEngine in maestro/engine.mjs.              *)
(*                                                                         *)
(* The engine is one asynchronous loop (advanceLoop) and a handful of      *)
(* synchronous commands that the owner, the Control Center and the server  *)
(* boot call at any moment the loop awaits something.  The loop and the    *)
(* commands share one mutable record, `pipeline`; commands such as start   *)
(* replace the whole record while the loop may still hold the old one.     *)
(*                                                                         *)
(* JavaScript runs a handler to its next await without interruption.  The  *)
(* model keeps that: the loop's code between two awaits is a few steps     *)
(* whose pc is in SyncPoints, and no command is enabled there.  A crash is *)
(* possible everywhere, between two saves of one handler included.         *)
(*                                                                         *)
(* Left out: texts, timestamps, prompts, the deploy address, the workbench *)
(* notes, blueprints that bring their own gates (jobSpecs) and the dry-run *)
(* short cuts, which skip work but take no step of their own.              *)
(***************************************************************************)
EXTENDS Naturals, Sequences, FiniteSets

CONSTANTS
  Players,          \* the players of the roster
  Chain,            \* teamPlayerChain: the primary player, then its fallbacks
  MaxAttempts,      \* profile.limits.maxAttemptsPerPlayer (3 in the code)
  StartPlans,       \* the job sequences start() can compute (resolvePlan, filters)
  CapabilityPlans,  \* the job sequences a GO on p0-go can install
  AutoCapability,   \* the values capabilityAuto may have at start()
  Modes,            \* the control modes the instance uses
  Reviewed,         \* team.review.after: jobs followed by an advisory review
  OwnerStops,       \* BOOLEAN: does the owner ever use `stop`?
  OwnerOverlaps,    \* BOOLEAN: does the owner start a run while the loop of a killed one lives?
  MaxRuns,          \* bound: runs started in a behaviour
  MaxGates          \* bound: no stop, retry or restart once a run has this many gates

NoJob == "none"

Job == { "L0/P0", "FOUNDATION", "DS-GEN", "L0/P1", "L1/B1", "L1/B2", "L1/B3",
         "L1/B4", "L1/B5", "SIMULATE", "ITERATE", "P3" }

ControlModes == { "full_auto", "autopilot_to_gate", "guided", "manual" }

ASSUME PlayersAssumption == Chain \in Seq(Players) /\ MaxAttempts \in Nat \ {0}
ASSUME PlansAssumption ==
  /\ StartPlans \subseteq Seq(Job)
  /\ CapabilityPlans \subseteq Seq(Job)
  /\ AutoCapability \subseteq BOOLEAN
\* The sequences of JOBS_BY_CAPABILITY, whole or with jobs filtered out: P0 is job 0 or
\* left out, the ship follows the last check, and only the engine adds iterations.
Ordered(jobs) ==
  \A i \in DOMAIN jobs :
    /\ jobs[i] # "ITERATE"
    /\ jobs[i] = "L0/P0" => i = 1
    /\ jobs[i] = "P3" => i > 1 /\ jobs[i - 1] \in { "L1/B5", "SIMULATE" }
    /\ jobs[i] = "SIMULATE" => \A k \in DOMAIN jobs :
         /\ jobs[k] = "SIMULATE" => k = i
         /\ jobs[k] = "P3" => k > i
ASSUME OrderAssumption ==
  /\ \A jobs \in StartPlans \cup CapabilityPlans : Ordered(jobs)
  /\ \A jobs \in CapabilityPlans : jobs # <<>> /\ jobs[1] = "L0/P0"
ASSUME OptionsAssumption ==
  /\ Modes \subseteq ControlModes
  /\ Reviewed \subseteq Job
  /\ OwnerStops \in BOOLEAN /\ OwnerOverlaps \in BOOLEAN
ASSUME BoundsAssumption == MaxRuns \in Nat /\ MaxGates \in Nat

VARIABLES
  pipeline,    \* the engine's record in memory (run 0 before the first start)
  disk,        \* maestro/pipelines/<app>.json, written by save()
  loop,        \* advanceLoop and the runJob it awaits, with their local variables
  cooldowns,   \* players in rate-limit cooldown
  dirty,       \* does the app's git working tree hold uncommitted changes?
  shipped      \* runs whose merge and deploy took effect

vars == <<pipeline, disk, loop, cooldowns, dirty, shipped>>

-----------------------------------------------------------------------------
(* Gates.  A gate's id is its kind, and for "blocked" gates also the job.   *)

GateKinds == { "p0-go", "p1-signal", "foundation-review", "ds-pick", "b3-visual",
               "deploy", "iterate-visual", "blocked", "stopped", "server-restart" }

Undecided == "undecided"
Answers == { "go", "pick", "retry", "kill" }   \* "pick" stands for 1, 2 and 3

Choices(kind) ==
  CASE kind \in {"blocked", "stopped", "server-restart"} -> {"retry", "kill"}
    [] kind \in {"p1-signal", "deploy"}                  -> {"go", "kill"}
    [] kind = "ds-pick"                                  -> {"pick", "retry", "kill"}
    [] OTHER                                             -> {"go", "retry", "kill"}

Gate == [ kind : GateKinds, afterJob : Job \cup {NoJob},
          decision : Answers \cup {Undecided},
          decidedBy : {"nobody", "owner", "orchestrator"} ]

NewGate(kind, job) ==
  [ kind |-> kind, afterJob |-> job, decision |-> Undecided, decidedBy |-> "nobody" ]

Answered(gate, choice, by) == [gate EXCEPT !.decision = choice, !.decidedBy = by]

SameId(g, h) == g.kind = h.kind /\ (g.kind = "blocked" => g.afterJob = h.afterJob)

Pending(pl) == { i \in DOMAIN pl.gates : pl.gates[i].decision = Undecided }

\* gates.find((g) => g.id === gateId && !g.decision): the first one of its id
Decidable(pl) ==
  { i \in Pending(pl) : \A k \in Pending(pl) : k < i => ~SameId(pl.gates[k], pl.gates[i]) }

FirstPending(pl) == { i \in Pending(pl) : \A k \in Pending(pl) : i <= k }

-----------------------------------------------------------------------------
(* The pipeline record.                                                     *)

Status == { "idle", "running", "paused_gate", "paused_control", "blocked",
            "done", "killed", "error" }

ActiveStatus == { "running", "paused_gate", "paused_control", "blocked" }

Pipeline ==
  [ run : Nat, status : Status, jobs : Seq(Job), jobIndex : Nat,
    currentJob : Job \cup {NoJob}, gates : Seq(Gate), controlMode : ControlModes,
    capabilityAuto : BOOLEAN, conditionalGo : BOOLEAN,
    verified : SUBSET Job,              \* jobs with a passing entry of this run in history
    cooldowns : SUBSET Players,
    simulated : BOOLEAN,                \* simulationCompleted
    iterationUsed : BOOLEAN,            \* simulationAutoIterationUsed
    iterationPending : BOOLEAN ]        \* simulationAutoIterationPending

Fresh(run, status, jobs, gates, mode, auto) ==
  [ run |-> run, status |-> status, jobs |-> jobs, jobIndex |-> 0,
    currentJob |-> NoJob, gates |-> gates, controlMode |-> mode,
    capabilityAuto |-> auto, conditionalGo |-> FALSE, verified |-> {},
    cooldowns |-> {}, simulated |-> FALSE, iterationUsed |-> FALSE,
    iterationPending |-> FALSE ]

NoPipeline == Fresh(0, "idle", <<>>, <<>>, "autopilot_to_gate", FALSE)

JobAt(jobs, k) == IF k < Len(jobs) THEN jobs[k + 1] ELSE NoJob

\* a mistake: the index of TLA+ and not of the code, one too far
IndexOfOffByOne(jobs, job) ==
  { m \in DOMAIN jobs : jobs[m] = job /\ \A n \in 1..(m - 1) : jobs[n] # job }

\* jobs.indexOf(job): the index of the first occurrence, when there is one
IndexOf(jobs, job) ==
  { k - 1 : k \in { m \in DOMAIN jobs : jobs[m] = job /\ \A n \in 1..(m - 1) : jobs[n] # job } }

Finished(pl, status) == [pl EXCEPT !.status = status, !.currentJob = NoJob]

AddGate(pl, status, gate) ==
  [pl EXCEPT !.status = status, !.gates = Append(pl.gates, gate)]

Phase(job) ==
  CASE job = "L0/P0" -> "product"
    [] job = "FOUNDATION" -> "foundation"
    [] job = "DS-GEN" -> "design"
    [] job = "L0/P1" -> "acquisition"
    [] job = "SIMULATE" -> "simulate"
    [] job = "P3" -> "ship"
    [] job = "ITERATE" -> "iterate"
    [] OTHER -> "build"

PausesForControl(pl, done, next) ==
  /\ next # NoJob
  /\ \/ pl.controlMode = "manual"
     \/ pl.controlMode = "guided" /\ Phase(done) # Phase(next)

\* a mistake: the B5 that follows an automatic iteration opens no deploy gate
GateAfterOnce(pl, job) ==
  CASE job = "L0/P0" -> "p0-go"
    [] job = "FOUNDATION" -> "foundation-review"
    [] job = "DS-GEN" -> "ds-pick"
    [] job = "L1/B3" -> "b3-visual"
    [] job = "L0/P1" /\ pl.conditionalGo -> "p1-signal"
    [] job = "L1/B5" /\ \A i \in DOMAIN pl.jobs : pl.jobs[i] # "SIMULATE" -> "deploy"
    [] job = "SIMULATE" /\ ~pl.iterationPending -> "deploy"
    [] job = "ITERATE" /\ ~pl.iterationPending -> "iterate-visual"
    [] OTHER -> "none"

\* GATES_AFTER: the gate the passing of a job opens, "none" when it opens none
GateAfter(pl, job) ==
  CASE job = "L0/P0" -> "p0-go"
    [] job = "FOUNDATION" -> "foundation-review"
    [] job = "DS-GEN" -> "ds-pick"
    [] job = "L1/B3" -> "b3-visual"
    [] job = "L0/P1" /\ pl.conditionalGo -> "p1-signal"
    [] job = "L1/B5" /\ (pl.simulated \/ \A i \in DOMAIN pl.jobs : pl.jobs[i] # "SIMULATE")
         -> "deploy"
    [] job = "SIMULATE" /\ ~pl.iterationPending -> "deploy"
    [] job = "ITERATE" /\ ~pl.iterationPending -> "iterate-visual"
    [] OTHER -> "none"

\* automaticGateDecision: what full_auto may answer by itself.  The scorecard's
\* verdict and the recommended design are files, so "none" is possible too.
AutomaticAnswers(pl, gate) ==
  IF pl.controlMode # "full_auto" THEN {"none"}
  ELSE CASE gate.kind \in {"foundation-review", "b3-visual", "iterate-visual"} -> {"go"}
         [] gate.kind = "p0-go" -> {"go", "none"}
         [] gate.kind = "ds-pick" -> {"pick", "none"}
         [] OTHER -> {"none"}

\* decide(): the records the answer to gate i may leave behind
Decided(pl, i, choice, by) ==
  LET gate == pl.gates[i]
      answered == [pl EXCEPT !.gates[i] = Answered(gate, choice, by)]
      onward == [answered EXCEPT !.status = "running"]
  IN  IF choice = "kill" THEN { Finished(answered, "killed") }
      ELSE IF choice = "retry" /\ \E k \in DOMAIN pl.jobs : pl.jobs[k] = gate.afterJob
           THEN { [onward EXCEPT !.jobIndex = k] : k \in IndexOf(pl.jobs, gate.afterJob) }
      ELSE IF gate.kind = "p0-go" /\ choice = "go" /\ pl.capabilityAuto
           THEN { [onward EXCEPT !.jobs = jobs, !.capabilityAuto = FALSE,
                                 !.currentJob = JobAt(jobs, pl.jobIndex)]
                  : jobs \in CapabilityPlans }
      ELSE { onward }

-----------------------------------------------------------------------------
(* The loop.                                                                *)

\* points between two awaits: no command can run while the loop is there
SyncPoints == { "head", "pick", "passed", "advance", "automatic", "failed" }
\* points where the loop is suspended on an await
AwaitPoints == { "prompt", "exec", "verify", "deploy", "review", "reviewVerify" }

Loop == [ pc : SyncPoints \cup AwaitPoints \cup {"idle"},
          run : Nat,                  \* the run of the record runJob captured as `p`
          job : Job \cup {NoJob},
          player : Players \cup {NoJob},
          excluded : SUBSET Players, attempt : Nat,
          answer : Answers \cup {"none"} ]   \* the automatic decision to apply

Idle == [ pc |-> "idle", run |-> 0, job |-> NoJob, player |-> NoJob,
          excluded |-> {}, attempt |-> 0, answer |-> "none" ]

AtHead == [Idle EXCEPT !.pc = "head"]

\* advanceLoop() called by a command: a no-op while a loop is alive (`looping`)
Advance(l) == IF l.pc = "idle" THEN AtHead ELSE l

Goto(pc) == loop' = [loop EXCEPT !.pc = pc]

\* save(): the record in memory replaces the file
Save == disk' = pipeline'

\* a write through the captured `p`: lost to the engine once the record was replaced
OwnRun == loop.run = pipeline.run

Eligible == { i \in DOMAIN Chain : Chain[i] \notin loop.excluded \cup cooldowns }

Init ==
  /\ pipeline = NoPipeline
  /\ disk = NoPipeline
  /\ loop = Idle
  /\ cooldowns = {}
  /\ dirty = FALSE
  /\ shipped = {}

\* The loop finds a pipeline that is not running only after an await, in ResultDropped:
\* what leads back to its head leaves the pipeline running.

\* no job left: finish("done")
LoopFinishes ==
  /\ loop.pc = "head" /\ pipeline.status = "running"
  /\ pipeline.jobIndex >= Len(pipeline.jobs)
  /\ pipeline' = Finished(pipeline, "done")
  /\ Save
  /\ loop' = Idle
  /\ UNCHANGED <<cooldowns, dirty, shipped>>

\* runJob: the job becomes current; P3 goes to runShip, others pick a player
JobStarts ==
  /\ loop.pc = "head" /\ pipeline.status = "running"
  /\ pipeline.jobIndex < Len(pipeline.jobs)
  /\ LET job == pipeline.jobs[pipeline.jobIndex + 1] IN
       /\ pipeline' = [pipeline EXCEPT !.currentJob = job]
       /\ loop' \in { [Idle EXCEPT !.pc = pc, !.run = pipeline.run, !.job = job]
                      : pc \in IF job = "P3" THEN {"deploy", "failed"} ELSE {"pick"} }
  /\ Save
  /\ UNCHANGED <<cooldowns, dirty, shipped>>

\* pickPlayer: the first player of the chain neither excluded nor cooling down
PlayerPicked ==
  /\ loop.pc = "pick"
  /\ \E i \in Eligible :
       /\ \A k \in Eligible : i <= k
       /\ loop' = [loop EXCEPT !.pc = "prompt", !.player = Chain[i], !.attempt = 1]
  /\ disk' = pipeline
  /\ UNCHANGED <<pipeline, cooldowns, dirty, shipped>>

PlayersExhausted ==
  /\ loop.pc = "pick" /\ Eligible = {}
  /\ Goto("failed")
  /\ UNCHANGED <<pipeline, disk, cooldowns, dirty, shipped>>

\* an exception in the loop (the team left the roster): status error
LoopThrows ==
  /\ loop.pc = "pick"
  /\ pipeline' = [pipeline EXCEPT !.status = "error"]
  /\ Save
  /\ loop' = Idle
  /\ UNCHANGED <<cooldowns, dirty, shipped>>

\* the prompt is ready; an attempt starts only if the pipeline is still running
PromptReady ==
  /\ loop.pc = "prompt"
  /\ Goto(IF pipeline.status = "running" THEN "exec" ELSE "failed")
  /\ UNCHANGED <<pipeline, disk, cooldowns, dirty, shipped>>

\* the executor (a coding CLI) edits the app while it runs
ExecutorWrites ==
  /\ loop.pc \in {"exec", "review"} /\ ~dirty
  /\ dirty' = TRUE
  /\ UNCHANGED <<pipeline, disk, loop, cooldowns, shipped>>

\* the executor closes, by itself or after a signal of the timer, stop or kill; one that
\* ignores the signal, or leaves its output open to a child, never does
ExecutorExits ==
  /\ loop.pc = "exec"
  /\ Goto("verify")
  /\ UNCHANGED <<pipeline, disk, cooldowns, dirty, shipped>>

\* rollback(): git reset and clean, or an error that is only logged
Rollback == dirty' \in {FALSE, dirty}

\* non-zero exit with a rate-limit text: cooldown, next player, no attempt counted
ExecutorRateLimited ==
  /\ loop.pc = "exec"
  /\ cooldowns' = cooldowns \cup {loop.player}
  /\ pipeline' = IF OwnRun
                 THEN [pipeline EXCEPT !.cooldowns = pipeline.cooldowns \cup {loop.player}]
                 ELSE pipeline
  /\ Save
  /\ Rollback
  /\ loop' = [loop EXCEPT !.pc = "pick", !.excluded = loop.excluded \cup {loop.player}]
  /\ UNCHANGED shipped

\* verify() of P0 also records, in the record it finds, whether the GO is conditional
Noting(pl, conditional) ==
  IF loop.job = "L0/P0" THEN [pl EXCEPT !.conditionalGo = conditional] ELSE pl

\* verify, the history entry and its save.  The await of remember() that follows is
\* not a point of its own: what commands do there they may do just before.
VerifyPasses ==
  /\ loop.pc = "verify"
  /\ \E conditional \in BOOLEAN :
       pipeline' = LET noted == Noting(pipeline, conditional) IN
                   IF OwnRun THEN [noted EXCEPT !.verified = noted.verified \cup {loop.job}]
                   ELSE noted
  /\ Save
  /\ Goto("passed")
  /\ UNCHANGED <<cooldowns, dirty, shipped>>

\* a mistake: the player that used up its attempts is not excluded
VerifyFailsSamePlayer ==
  /\ loop.pc = "verify"
  /\ disk' = pipeline
  /\ loop' = [loop EXCEPT !.pc = IF loop.attempt < MaxAttempts THEN "prompt" ELSE "pick",
                          !.attempt = loop.attempt + 1]
  /\ UNCHANGED <<pipeline, cooldowns, dirty, shipped>>

\* a failed attempt: again with the same player, or roll back and try the next one
VerifyFails ==
  /\ loop.pc = "verify"
  /\ disk' = pipeline
  /\ \/ /\ loop.attempt < MaxAttempts
        /\ loop' = [loop EXCEPT !.pc = "prompt", !.attempt = loop.attempt + 1]
        /\ UNCHANGED dirty
     \/ /\ loop.attempt >= MaxAttempts
        /\ loop' = [loop EXCEPT !.pc = "pick", !.excluded = loop.excluded \cup {loop.player}]
        /\ Rollback
  /\ UNCHANGED <<pipeline, cooldowns, shipped>>

\* runShip: deployApp answers
DeploySucceeds ==
  /\ loop.pc = "deploy"
  /\ shipped' = shipped \cup {loop.run}
  /\ Goto("passed")
  /\ UNCHANGED <<pipeline, disk, cooldowns, dirty>>

DeployFails ==
  /\ loop.pc = "deploy"
  /\ Goto("failed")
  /\ UNCHANGED <<pipeline, disk, cooldowns, dirty, shipped>>

\* runJob returned a pass: leave if killed, else checkpoint and perhaps review
JobPassed ==
  /\ loop.pc = "passed"
  /\ IF pipeline.status = "killed"
     THEN /\ loop' = Idle
          /\ UNCHANGED <<disk, dirty>>
     ELSE IF loop.job = "P3"
     THEN /\ Goto("advance")
          /\ UNCHANGED <<disk, dirty>>
     ELSE /\ dirty' \in {FALSE, dirty}   \* checkpoint(): a failing commit is only logged
          /\ disk' = pipeline
          /\ Goto(IF loop.job \in Reviewed THEN "review" ELSE "advance")
  /\ UNCHANGED <<pipeline, cooldowns, shipped>>

\* the reviewer exits; what it changed is verified, unless it was rate limited
ReviewEnds ==
  /\ loop.pc = "review"
  /\ \/ Goto("advance")
     \/ pipeline.status = "running" /\ dirty /\ Goto("reviewVerify")
  /\ UNCHANGED <<pipeline, disk, cooldowns, dirty, shipped>>

\* the review is kept (checkpoint) or undone (rollback)
ReviewVerified ==
  /\ loop.pc = "reviewVerify"
  /\ dirty' \in {FALSE, dirty}
  /\ disk' = pipeline
  /\ Goto("advance")
  /\ UNCHANGED <<pipeline, cooldowns, shipped>>

\* stopped or killed during the job or its review: the result is dropped
ResultDropped ==
  /\ loop.pc = "advance" /\ pipeline.status # "running"
  /\ loop' = Idle
  /\ UNCHANGED <<pipeline, disk, cooldowns, dirty, shipped>>

\* jobs.splice(jobIndex + 1, 0, "ITERATE", "L1/B5")
WithIteration(pl) ==
  LET at == IF pl.jobIndex < Len(pl.jobs) THEN pl.jobIndex + 1 ELSE Len(pl.jobs)
  IN  [pl EXCEPT !.iterationUsed = TRUE, !.iterationPending = TRUE,
                 !.jobs = SubSeq(pl.jobs, 1, at) \o <<"ITERATE", "L1/B5">>
                            \o SubSeq(pl.jobs, at + 1, Len(pl.jobs))]

\* a mistake: a second simulation of the run iterates again
AfterSimulationAgain(pl) ==
  LET done == [pl EXCEPT !.simulated = TRUE] IN { done, WithIteration(done) }

\* applySimulationResult: once per run, safe fixes insert ITERATE and B5 after SIMULATE
AfterSimulation(pl) ==
  LET done == [pl EXCEPT !.simulated = TRUE]
  IN  IF pl.iterationUsed THEN {done} ELSE { done, WithIteration(done) }

\* what the passing of the job does to the record before the gates are looked at
AfterJob(pl, job) ==
  LET settled == IF job = "SIMULATE" THEN AfterSimulation(pl)
                 ELSE IF job = "L1/B5" THEN { [pl EXCEPT !.iterationPending = FALSE] }
                 ELSE { pl }
  IN  { [s EXCEPT !.jobIndex = s.jobIndex + 1,
                  !.currentJob = JobAt(s.jobs, s.jobIndex + 1)] : s \in settled }

\* the report of another run is looked up under this run's id: not there, it throws
ReportMissing ==
  /\ loop.pc = "advance" /\ pipeline.status = "running"
  /\ loop.job = "SIMULATE" /\ ~OwnRun
  /\ pipeline' = [pipeline EXCEPT !.status = "error"]
  /\ Save
  /\ loop' = Idle
  /\ UNCHANGED <<cooldowns, dirty, shipped>>

\* the pass counts: next job, then a gate, a pause for control, or straight on
JobAdvances ==
  /\ loop.pc = "advance" /\ pipeline.status = "running"
  /\ loop.job = "SIMULATE" => OwnRun
  /\ \E next \in AfterJob(pipeline, loop.job) :
       LET kind == GateAfter(next, loop.job)
           gate == NewGate(kind, loop.job)
       IN  \/ /\ kind # "none"
              /\ pipeline' = AddGate(next, "paused_gate", gate)
              /\ \E answer \in AutomaticAnswers(next, gate) :
                   loop' = IF answer = "none" THEN Idle
                           ELSE [loop EXCEPT !.pc = "automatic", !.answer = answer]
           \/ /\ kind = "none" /\ PausesForControl(next, loop.job, next.currentJob)
              /\ pipeline' = [next EXCEPT !.status = "paused_control"]
              /\ loop' = Idle
           \/ /\ kind = "none" /\ ~PausesForControl(next, loop.job, next.currentJob)
              /\ pipeline' = next
              /\ loop' = AtHead
  /\ Save
  /\ UNCHANGED <<cooldowns, dirty, shipped>>

\* full_auto answers the gate it has just saved; decide() looks it up by id again
AutomaticDecision ==
  /\ loop.pc = "automatic"
  /\ \E i \in Decidable(pipeline) :
       /\ SameId(pipeline.gates[i], pipeline.gates[Len(pipeline.gates)])
       /\ pipeline' \in Decided(pipeline, i, loop.answer, "orchestrator")
  /\ Save
  /\ loop' = AtHead
  /\ UNCHANGED <<cooldowns, dirty, shipped>>

\* runJob gave up: leave if killed, else block on a gate
JobFailed ==
  /\ loop.pc = "failed"
  /\ IF pipeline.status = "killed"
     THEN UNCHANGED <<pipeline, disk>>
     ELSE /\ pipeline' = AddGate(pipeline, "blocked", NewGate("blocked", loop.job))
          /\ Save
  /\ loop' = Idle
  /\ UNCHANGED <<cooldowns, dirty, shipped>>

LoopStep ==
  \/ LoopFinishes \/ JobStarts
  \/ PlayerPicked \/ PlayersExhausted \/ PromptReady
  \/ ExecutorExits \/ ExecutorRateLimited \/ VerifyPasses \/ VerifyFails
  \/ DeploySucceeds \/ DeployFails
  \/ JobPassed \/ ReviewEnds \/ ReviewVerified \/ ResultDropped
  \/ JobAdvances \/ AutomaticDecision \/ JobFailed
  \/ LoopThrows \/ ReportMissing

-----------------------------------------------------------------------------
(* Commands.  Each is one synchronous handler.                              *)

Commandable == loop.pc \notin SyncPoints

Room == Len(pipeline.gates) < MaxGates    \* bound on what adds or reopens gates

\* the guard the four starts share, and the record they replace; an app repo with
\* uncommitted changes is refused by ensureAppRepo
Starting ==
  /\ Commandable
  /\ pipeline.status \notin ActiveStatus
  /\ ~dirty
  /\ pipeline.run < MaxRuns
  /\ OwnerOverlaps \/ loop.pc = "idle"

Starts(jobs, mode, auto) ==
  /\ Starting
  /\ pipeline' = Fresh(pipeline.run + 1, "running", jobs, <<>>, mode, auto)
  /\ Save
  /\ loop' = Advance(loop)
  /\ UNCHANGED <<cooldowns, dirty, shipped>>

Start ==
  \E jobs \in StartPlans, mode \in Modes, auto \in AutoCapability : Starts(jobs, mode, auto)

\* feedback, simulation and ship need an app that exists already
StartFeedback ==
  /\ pipeline.run > 0
  /\ \E mode \in Modes : Starts(<<"ITERATE", "L1/B5", "P3">>, mode, FALSE)

StartSimulation ==
  /\ pipeline.run > 0
  /\ \E mode \in Modes : Starts(<<"SIMULATE", "P3">>, mode, FALSE)

\* ship waits on its deploy gate at once and starts no loop
StartShip ==
  /\ Starting
  /\ pipeline.run > 0
  /\ \E mode \in Modes :
       pipeline' = Fresh(pipeline.run + 1, "paused_gate", <<"P3">>,
                         <<NewGate("deploy", NoJob)>>, mode, FALSE)
  /\ Save
  /\ UNCHANGED <<loop, cooldowns, dirty, shipped>>

\* a mistake: the answer is not saved
DecideUnsaved ==
  /\ Commandable
  /\ \E i \in Decidable(pipeline) : \E choice \in Choices(pipeline.gates[i].kind) :
       /\ choice = "retry" => Room
       /\ pipeline' \in Decided(pipeline, i, choice, "owner")
       /\ loop' = IF choice = "kill" THEN loop ELSE Advance(loop)
  /\ UNCHANGED <<disk, cooldowns, dirty, shipped>>

\* the owner answers a pending gate; the status of the pipeline is not looked at
Decide ==
  /\ Commandable
  /\ \E i \in Decidable(pipeline) : \E choice \in Choices(pipeline.gates[i].kind) :
       /\ choice = "retry" => Room
       /\ pipeline' \in Decided(pipeline, i, choice, "owner")
       /\ loop' = IF choice = "kill" THEN loop ELSE Advance(loop)
  /\ Save
  /\ UNCHANGED <<cooldowns, dirty, shipped>>

\* a mistake: stop blocks without a recovery gate
StopWithoutGate ==
  /\ Commandable
  /\ OwnerStops /\ Room
  /\ pipeline.status \in {"running", "paused_gate"}
  /\ pipeline' = [pipeline EXCEPT !.status = "blocked"]
  /\ Save
  /\ UNCHANGED <<loop, cooldowns, dirty, shipped>>

\* kills the executor and waits on a recovery gate after the current job
Stop ==
  /\ Commandable
  /\ OwnerStops /\ Room
  /\ pipeline.status \in {"running", "paused_gate"}
  /\ pipeline' = AddGate(pipeline, "blocked", NewGate("stopped", pipeline.currentJob))
  /\ Save
  /\ UNCHANGED <<loop, cooldowns, dirty, shipped>>

Kill ==
  /\ Commandable
  /\ pipeline.status \notin {"idle", "done", "killed"}
  /\ pipeline' = Finished(pipeline, "killed")
  /\ Save
  /\ UNCHANGED <<loop, cooldowns, dirty, shipped>>

\* full_auto also answers the first pending gate, or continues a control pause
SetControlMode ==
  /\ Commandable
  /\ pipeline.run > 0
  /\ \E mode \in Modes :
       LET set == [pipeline EXCEPT !.controlMode = mode] IN
         \/ \E i \in FirstPending(set) :
              \E answer \in AutomaticAnswers(set, set.gates[i]) \ {"none"} :
                /\ pipeline' \in Decided(set, i, answer, "orchestrator")
                /\ loop' = Advance(loop)
         \/ /\ \A i \in FirstPending(set) : "none" \in AutomaticAnswers(set, set.gates[i])
            /\ mode = "full_auto" /\ set.status = "paused_control"
            /\ pipeline' = [set EXCEPT !.status = "running"]
            /\ loop' = Advance(loop)
         \/ /\ \A i \in FirstPending(set) : "none" \in AutomaticAnswers(set, set.gates[i])
            /\ ~(mode = "full_auto" /\ set.status = "paused_control")
            /\ pipeline' = set
            /\ UNCHANGED loop
  /\ Save
  /\ UNCHANGED <<cooldowns, dirty, shipped>>

ContinuePipeline ==
  /\ Commandable
  /\ pipeline.status = "paused_control"
  /\ pipeline' = [pipeline EXCEPT !.status = "running"]
  /\ Save
  /\ loop' = Advance(loop)
  /\ UNCHANGED <<cooldowns, dirty, shipped>>

Resume ==
  /\ Commandable
  /\ Pending(pipeline) = {}
  /\ pipeline.status \in {"running", "paused_gate", "blocked"}
  /\ pipeline' = [pipeline EXCEPT !.status = "running"]
  /\ Save
  /\ loop' = Advance(loop)
  /\ UNCHANGED <<cooldowns, dirty, shipped>>

\* two mistakes: the run restored as running, and with a status nobody knows
RestoredAsSaved(pl) == pl

\* what the boot of the server makes of the file: an interrupted run is blocked
Restored(pl) ==
  IF pl.status = "running"
  THEN AddGate(pl, "blocked", NewGate("server-restart", pl.currentJob))
  ELSE pl

\* the server dies, anywhere, and boots again; the restored record is not saved
Restart ==
  /\ disk.status = "running" => Room
  /\ pipeline' = Restored(disk)
  /\ loop' = Idle
  /\ cooldowns' = disk.cooldowns
  /\ UNCHANGED <<disk, dirty, shipped>>

\* outside the engine: a cooldown runs out, the owner commits or drops changes
CooldownEnds ==
  /\ Commandable
  /\ \E player \in cooldowns :
       /\ cooldowns' = cooldowns \ {player}
       /\ pipeline' = [pipeline EXCEPT !.cooldowns = pipeline.cooldowns \ {player}]
       /\ disk' = [disk EXCEPT !.cooldowns = disk.cooldowns \ {player}]
  /\ UNCHANGED <<loop, dirty, shipped>>

OwnerCleansTree ==
  /\ Commandable /\ dirty
  /\ dirty' = FALSE
  /\ UNCHANGED <<pipeline, disk, loop, cooldowns, shipped>>

Command ==
  \/ Start \/ StartFeedback \/ StartSimulation \/ StartShip
  \/ Decide \/ Stop \/ Kill \/ SetControlMode \/ ContinuePipeline \/ Resume

Environment == ExecutorWrites \/ CooldownEnds \/ OwnerCleansTree

Next == LoopStep \/ Command \/ Environment \/ Restart

Spec == Init /\ [][Next]_vars

\* Where the loop waits for an external program (executor, reviewer, build, deploy). The
\* hard timeout of runExecutor signals it once and kills nothing; the await settles when
\* the program has closed, and may never do so.
AtProgram == {"exec", "review", "verify", "reviewVerify", "deploy"}

\* The loop's own code runs on; the briefing, the improver and the service calls have
\* timers that settle their await. Nothing is assumed of programs or of the owner.
Fairness == WF_vars(LoopStep /\ loop.pc \notin AtProgram)

FairSpec == Spec /\ Fairness

-----------------------------------------------------------------------------
(* Properties.                                                              *)

\* Every variable holds values of the shape the code gives it.
TypeOK ==
  /\ pipeline \in Pipeline
  /\ disk \in Pipeline
  /\ loop \in Loop
  /\ cooldowns \subseteq Players
  /\ dirty \in BOOLEAN
  /\ shipped \subseteq Nat

\* A pipeline that says "running" is being driven: no order of stops, kills, answers,
\* new starts and crashes loses the loop behind it (the `looping` flag makes
\* advanceLoop a no-op when a command calls it while the old loop still awaits).
RunningHasLoop == pipeline.status = "running" => loop.pc # "idle"

\* A pipeline that waits for the owner offers a question to answer: in paused_gate
\* and blocked there is a pending gate, in memory and in the file a boot would read.
WaitingHasGate ==
  \A pl \in {pipeline, disk} :
    pl.status \in {"paused_gate", "blocked"} => Pending(pl) # {}

\* A crash at any point, between the saves of one handler included, restores what the
\* engine had in memory, but for the interruption: no decision, gate or mode is lost.
CrashLosesNothing == Restored(disk) = Restored(pipeline)

\* The simulator iterates an app by itself at most once per run, however often retries
\* lead back to SIMULATE ("uma unica rodada automatica", applySimulationResult).
OneAutomaticIteration ==
  Cardinality({ i \in DOMAIN pipeline.jobs : pipeline.jobs[i] = "ITERATE" }) <= 1

\* No job is skipped: each job behind jobIndex passed its verify in this very run, and
\* the ship, which has no verify, did deploy it; a done run in particular is a live one.
JobsVerified ==
  \A i \in DOMAIN pipeline.jobs :
    i <= pipeline.jobIndex =>
      IF pipeline.jobs[i] = "P3" THEN pipeline.run \in shipped
      ELSE pipeline.jobs[i] \in pipeline.verified

\* the gates the pipeline itself opens for the owner, without the recovery gates
ReviewGates(pl) ==
  { i \in DOMAIN pl.gates : pl.gates[i].kind \notin {"blocked", "stopped", "server-restart"} }

\* While a run ships, the latest review gate it opened is the deploy gate, and the
\* owner in person answered go: no automatic answer, retry, crash or earlier go
\* that further work made stale leads to P3.
ShipsOnFreshGo ==
  loop.pc = "deploy" /\ OwnRun =>
    \E i \in ReviewGates(pipeline) :
      /\ \A k \in ReviewGates(pipeline) : k <= i
      /\ pipeline.gates[i].kind = "deploy"
      /\ pipeline.gates[i].decision = "go"
      /\ pipeline.gates[i].decidedBy = "owner"

\* The loop always comes back to rest, unless it waits for ever for one program that
\* never closes: no order of failures, rate limits, attempts, stale results and commands
\* makes it call executors one after the other for ever or leaves it hanging between.
LoopSettles ==
  \/ []<>(loop.pc = "idle")
  \/ \E pc \in AtProgram : <>[](loop.pc = pc)

=============================================================================
