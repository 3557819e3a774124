------------------------ MODULE PipelineEngineProofs ------------------------
(***************************************************************************)
(* Theorems about PipelineEngine, for every roster, plan, mode, review and  *)
(* bound.  Types, liveness of the running loop, answerable waits, recovery  *)
(* from a crash and the single automatic iteration hold whatever the owner  *)
(* does; the order of the jobs and the ship after a fresh go are proved of  *)
(* an owner who neither stops a run nor starts one over another (Orderly).  *)
(* The last part shows that the loop cannot run for ever by itself.         *)
(***************************************************************************)
EXTENDS PipelineEngine, SequenceTheorems, FiniteSetTheorems, WellFoundedInduction, TLAPS

\* The locals of the loop are set where the loop reads them.
LoopLocals ==
  /\ loop.pc \in {"prompt", "exec", "verify"} => loop.player \in Players
  /\ loop.pc \notin {"idle", "head"} => loop.job \in Job
  /\ loop.pc = "automatic" => loop.answer \in Answers

\* The inductive invariant.
IInv == TypeOK /\ LoopLocals /\ RunningHasLoop /\ WaitingHasGate /\ CrashLosesNothing

-----------------------------------------------------------------------------
(* What the operators on records keep.                                      *)

LEMMA FreshType ==
  ASSUME NEW run \in Nat, NEW status \in Status, NEW jobs \in Seq(Job),
         NEW gates \in Seq(Gate), NEW mode \in ControlModes, NEW auto \in BOOLEAN
  PROVE  Fresh(run, status, jobs, gates, mode, auto) \in Pipeline
  BY DEF Fresh, Pipeline

LEMMA NoPipelineType == NoPipeline \in Pipeline /\ Pending(NoPipeline) = {}
  BY DEF NoPipeline, Fresh, Pipeline, Status, ControlModes, Pending

LEMMA NewGateType ==
  ASSUME NEW kind \in GateKinds, NEW job \in Job \cup {NoJob}
  PROVE  NewGate(kind, job) \in Gate /\ NewGate(kind, job).decision = Undecided
  BY DEF NewGate, Gate

\* Adding an undecided gate keeps the type and leaves a pending gate.
LEMMA AddGateType ==
  ASSUME NEW pl \in Pipeline, NEW status \in Status, NEW gate \in Gate,
         gate.decision = Undecided
  PROVE  LET q == AddGate(pl, status, gate) IN
           /\ q \in Pipeline
           /\ q.status = status
           /\ Pending(q) # {}
<1> DEFINE q == AddGate(pl, status, gate)
<1>1. Append(pl.gates, gate) \in Seq(Gate)
  BY DEF Pipeline
<1>2. q \in Pipeline /\ q.status = status /\ q.gates = Append(pl.gates, gate)
  BY <1>1 DEF AddGate, Pipeline
<1>3. Len(pl.gates) + 1 \in DOMAIN q.gates /\ q.gates[Len(pl.gates) + 1] = gate
  BY <1>2 DEF Pipeline
<1>4. QED
  BY <1>2, <1>3 DEF Pending

LEMMA FinishedType ==
  ASSUME NEW pl \in Pipeline, NEW status \in Status
  PROVE  /\ Finished(pl, status) \in Pipeline
         /\ Finished(pl, status).status = status
  BY DEF Finished, Pipeline

LEMMA JobAtType ==
  ASSUME NEW jobs \in Seq(Job), NEW k \in Nat
  PROVE  JobAt(jobs, k) \in Job \cup {NoJob}
  BY DEF JobAt

\* An answer leaves a well-formed record, running or killed.
LEMMA DecidedType ==
  ASSUME NEW pl \in Pipeline, NEW i \in DOMAIN pl.gates, NEW choice \in Answers,
         NEW by \in {"nobody", "owner", "orchestrator"},
         NEW q \in Decided(pl, i, choice, by)
  PROVE  /\ q \in Pipeline
         /\ q.status = IF choice = "kill" THEN "killed" ELSE "running"
<1> DEFINE answered == [pl EXCEPT !.gates[i] = Answered(pl.gates[i], choice, by)]
           onward == [answered EXCEPT !.status = "running"]
<1>1. pl.gates \in Seq(Gate) /\ pl.gates[i] \in Gate
  BY DEF Pipeline
<1>2. [pl.gates EXCEPT ![i] = Answered(pl.gates[i], choice, by)] \in Seq(Gate)
  <2>1. Answered(pl.gates[i], choice, by) \in Gate
    BY <1>1 DEF Answered, Gate
  <2>2. QED
    BY <1>1, <2>1, ExceptSeq
<1>3. answered \in Pipeline
  BY <1>2 DEF Pipeline
<1>4. onward \in Pipeline /\ onward.status = "running" /\ onward.jobs = pl.jobs
  BY <1>3 DEF Pipeline, Status
<1>5. CASE choice = "kill"
  BY <1>3, <1>5, FinishedType DEF Decided, Status
<1>6. CASE choice # "kill"
  <2>1. pl.jobs \in Seq(Job) /\ pl.jobIndex \in Nat
    BY DEF Pipeline
  <2>2. \/ \E k \in IndexOf(pl.jobs, pl.gates[i].afterJob) :
              q = [onward EXCEPT !.jobIndex = k]
        \/ \E jobs \in CapabilityPlans :
              q = [onward EXCEPT !.jobs = jobs, !.capabilityAuto = FALSE,
                                 !.currentJob = JobAt(jobs, pl.jobIndex)]
        \/ q = onward
    BY <1>6 DEF Decided
  <2>3. ASSUME NEW k \in IndexOf(pl.jobs, pl.gates[i].afterJob),
               q = [onward EXCEPT !.jobIndex = k]
        PROVE  q \in Pipeline /\ q.status = "running"
    <3>1. k \in Nat
      BY <2>1 DEF IndexOf
    <3>2. QED
      BY <1>4, <2>3, <3>1 DEF Pipeline
  <2>4. ASSUME NEW jobs \in CapabilityPlans,
               q = [onward EXCEPT !.jobs = jobs, !.capabilityAuto = FALSE,
                                  !.currentJob = JobAt(jobs, pl.jobIndex)]
        PROVE  q \in Pipeline /\ q.status = "running"
    <3>1. jobs \in Seq(Job)
      BY PlansAssumption
    <3>2. JobAt(jobs, pl.jobIndex) \in Job \cup {NoJob}
      BY <2>1, <3>1, JobAtType
    <3>3. QED
      BY <1>4, <2>4, <3>1, <3>2 DEF Pipeline
  <2>5. QED
    BY <1>4, <1>6, <2>2, <2>3, <2>4
<1>7. QED
  BY <1>5, <1>6

LEMMA GateAfterType ==
  ASSUME NEW pl \in Pipeline, NEW job \in Job
  PROVE  GateAfter(pl, job) \in GateKinds \cup {"none"}
  BY DEF GateAfter, GateKinds

LEMMA AutomaticAnswersType ==
  ASSUME NEW pl \in Pipeline, NEW gate \in Gate,
         NEW answer \in AutomaticAnswers(pl, gate), answer # "none"
  PROVE  answer \in Answers /\ answer # "kill"
  BY DEF AutomaticAnswers, Answers

\* The insertion of the automatic iteration keeps the record well formed.
LEMMA WithIterationType ==
  ASSUME NEW pl \in Pipeline
  PROVE  WithIteration(pl) \in Pipeline /\ WithIteration(pl).status = pl.status
<1> DEFINE at == IF pl.jobIndex < Len(pl.jobs) THEN pl.jobIndex + 1 ELSE Len(pl.jobs)
           jobs == SubSeq(pl.jobs, 1, at) \o <<"ITERATE", "L1/B5">>
                     \o SubSeq(pl.jobs, at + 1, Len(pl.jobs))
<1>1. pl.jobs \in Seq(Job) /\ pl.jobIndex \in Nat /\ Len(pl.jobs) \in Nat
  BY DEF Pipeline
<1>2. at \in 0..Len(pl.jobs)
  BY <1>1
<1>3. SubSeq(pl.jobs, 1, at) \in Seq(Job)
  BY <1>1, <1>2, SubSeqProperties
<1>4. SubSeq(pl.jobs, at + 1, Len(pl.jobs)) \in Seq(Job)
  BY <1>1, <1>2, SubSeqProperties
<1>5. <<"ITERATE", "L1/B5">> \in Seq(Job)
  BY DEF Job
<1> HIDE DEF at
<1>6. SubSeq(pl.jobs, 1, at) \o <<"ITERATE", "L1/B5">> \in Seq(Job)
  BY <1>3, <1>5, ConcatProperties
<1>7. jobs \in Seq(Job)
  BY <1>4, <1>6, ConcatProperties
<1>8. WithIteration(pl) = [pl EXCEPT !.iterationUsed = TRUE, !.iterationPending = TRUE,
                                     !.jobs = jobs]
  BY DEF WithIteration, at
<1> HIDE DEF jobs
<1>9. QED
  BY <1>7, <1>8 DEF Pipeline

LEMMA AfterJobType ==
  ASSUME NEW pl \in Pipeline, NEW job \in Job, NEW q \in AfterJob(pl, job)
  PROVE  q \in Pipeline /\ q.status = pl.status
<1> DEFINE done == [pl EXCEPT !.simulated = TRUE]
           onward(s) == [s EXCEPT !.jobIndex = s.jobIndex + 1,
                                  !.currentJob = JobAt(s.jobs, s.jobIndex + 1)]
<1>1. done \in Pipeline /\ done.status = pl.status
  BY DEF Pipeline
<1>2. [pl EXCEPT !.iterationPending = FALSE] \in Pipeline
  BY DEF Pipeline
<1>3. WithIteration(done) \in Pipeline /\ WithIteration(done).status = pl.status
  BY <1>1, WithIterationType
<1>4. PICK s \in {pl, done, WithIteration(done), [pl EXCEPT !.iterationPending = FALSE]} :
        q = onward(s)
  BY DEF AfterJob, AfterSimulation
<1>5. s \in Pipeline /\ s.status = pl.status
  BY <1>1, <1>2, <1>3, <1>4 DEF Pipeline
<1>6. JobAt(s.jobs, s.jobIndex + 1) \in Job \cup {NoJob} /\ s.jobIndex + 1 \in Nat
  BY <1>5, JobAtType DEF Pipeline
<1>7. QED
  BY <1>4, <1>5, <1>6 DEF Pipeline

\* The boot leaves no run running; restoring what was restored changes nothing.
LEMMA RestoredType ==
  ASSUME NEW pl \in Pipeline,
         pl.status \in {"paused_gate", "blocked"} => Pending(pl) # {}
  PROVE  LET q == Restored(pl) IN
           /\ q \in Pipeline
           /\ q.status # "running"
           /\ q.status \in {"paused_gate", "blocked"} => Pending(q) # {}
           /\ Restored(q) = q
<1>1. CASE pl.status = "running"
  <2>1. NewGate("server-restart", pl.currentJob) \in Gate
        /\ NewGate("server-restart", pl.currentJob).decision = Undecided
    BY NewGateType DEF Pipeline, GateKinds
  <2> DEFINE gate == NewGate("server-restart", pl.currentJob)
             q == AddGate(pl, "blocked", gate)
  <2>2. "blocked" \in Status
    BY DEF Status
  <2>3. q \in Pipeline /\ q.status = "blocked" /\ Pending(q) # {}
    BY <2>1, <2>2, AddGateType
  <2>4. Restored(pl) = q
    BY <1>1 DEF Restored
  <2> HIDE DEF q
  <2>5. Restored(q) = q
    BY <2>3 DEF Restored
  <2>6. QED
    BY <2>3, <2>4, <2>5
<1>2. CASE pl.status # "running"
  BY <1>2 DEF Restored
<1>3. QED
  BY <1>1, <1>2

-----------------------------------------------------------------------------
(* The two shapes of a step: one that saves, one that leaves the record.    *)

LEMMA SavedStep ==
  ASSUME pipeline' \in Pipeline, disk' = pipeline', loop' \in Loop, LoopLocals',
         cooldowns' \subseteq Players, dirty' \in BOOLEAN, shipped' \subseteq Nat,
         pipeline'.status = "running" => loop'.pc # "idle",
         pipeline'.status \in {"paused_gate", "blocked"} => Pending(pipeline') # {}
  PROVE  IInv'
<1>1. TypeOK'
  BY DEF TypeOK
<1>2. RunningHasLoop' /\ CrashLosesNothing'
  BY DEF RunningHasLoop, CrashLosesNothing
<1>3. WaitingHasGate'
  BY DEF WaitingHasGate, Pending
<1>4. QED
  BY <1>1, <1>2, <1>3 DEF IInv

LEMMA KeptStep ==
  ASSUME IInv, pipeline' = pipeline, disk' \in {disk, pipeline}, loop' \in Loop, LoopLocals',
         cooldowns' \subseteq Players, dirty' \in BOOLEAN, shipped' \subseteq Nat,
         pipeline.status = "running" => loop'.pc # "idle"
  PROVE  IInv'
<1>1. TypeOK'
  BY DEF TypeOK, IInv
<1>2. RunningHasLoop'
  BY DEF RunningHasLoop
<1>3. CrashLosesNothing'
  BY DEF CrashLosesNothing, IInv
<1>4. WaitingHasGate'
  BY DEF WaitingHasGate, Pending, IInv
<1>5. QED
  BY <1>1, <1>2, <1>3, <1>4 DEF IInv

LEMMA AtHeadType == AtHead \in Loop /\ Idle \in Loop
  BY DEF AtHead, Idle, Loop, SyncPoints, AwaitPoints

\* A command that (re)starts the loop leaves a well-formed loop that is not idle.
LEMMA AdvanceType ==
  ASSUME loop \in Loop, LoopLocals, loop' = Advance(loop)
  PROVE  loop' \in Loop /\ LoopLocals' /\ loop'.pc # "idle"
<1>1. CASE loop.pc = "idle"
  BY <1>1, AtHeadType DEF Advance, AtHead, Idle, LoopLocals
<1>2. CASE loop.pc # "idle"
  BY <1>2 DEF Advance, LoopLocals
<1>3. QED
  BY <1>1, <1>2

-----------------------------------------------------------------------------
(* Steps of the loop.                                                       *)

LEMMA LoopStepKeeps == IInv /\ LoopStep => IInv'
<1> SUFFICES ASSUME IInv, LoopStep PROVE IInv'
  OBVIOUS
<1>0. /\ pipeline \in Pipeline /\ loop \in Loop /\ cooldowns \subseteq Players
      /\ dirty \in BOOLEAN /\ shipped \subseteq Nat /\ LoopLocals
      /\ pipeline.status = "running" => loop.pc # "idle"
      /\ pipeline.status \in {"paused_gate", "blocked"} => Pending(pipeline) # {}
  BY DEF IInv, TypeOK, RunningHasLoop, WaitingHasGate
<1>2. CASE LoopFinishes
  BY <1>0, <1>2, SavedStep, AtHeadType, FinishedType
  DEF LoopFinishes, LoopLocals, Idle, Save, Status
<1>3. CASE JobStarts
  <2> DEFINE job == pipeline.jobs[pipeline.jobIndex + 1]
  <2>1. job \in Job
    <3>1. /\ pipeline.jobs \in Seq(Job) /\ pipeline.jobIndex \in Nat
          /\ pipeline.jobIndex < Len(pipeline.jobs)
      BY <1>0, <1>3 DEF JobStarts, Pipeline
    <3>2. pipeline.jobIndex + 1 \in 1..Len(pipeline.jobs)
      BY <3>1
    <3>3. QED
      BY <3>1, <3>2, ElementOfSeq
  <2>2. /\ pipeline' = [pipeline EXCEPT !.currentJob = job] /\ pipeline.status = "running"
        /\ disk' = pipeline' /\ cooldowns' = cooldowns /\ dirty' = dirty /\ shipped' = shipped
    BY <1>3 DEF JobStarts, Save
  <2>3. PICK pc \in {"deploy", "failed", "pick"} :
          loop' = [Idle EXCEPT !.pc = pc, !.run = pipeline.run, !.job = job]
    BY <1>3 DEF JobStarts
  <2> HIDE DEF job
  <2>4. pipeline' \in Pipeline /\ pipeline'.status = "running"
    BY <1>0, <2>1, <2>2 DEF Pipeline
  <2>5. loop' \in Loop /\ LoopLocals' /\ loop'.pc # "idle"
    BY <1>0, <2>1, <2>3 DEF Pipeline, Loop, Idle, LoopLocals, SyncPoints, AwaitPoints
  <2>6. QED
    BY <1>0, <2>2, <2>4, <2>5, SavedStep
<1>4. CASE PlayerPicked
  <2>1. PICK i \in DOMAIN Chain :
          loop' = [loop EXCEPT !.pc = "prompt", !.player = Chain[i], !.attempt = 1]
    BY <1>4 DEF PlayerPicked, Eligible
  <2>2. Chain[i] \in Players
    BY PlayersAssumption
  <2>3. loop.job \in Job
    BY <1>0, <1>4 DEF PlayerPicked, LoopLocals
  <2>4. loop' \in Loop /\ LoopLocals' /\ loop'.pc # "idle"
    BY <1>0, <2>1, <2>2, <2>3 DEF Loop, LoopLocals, AwaitPoints
  <2>5. QED
    BY <1>0, <1>4, <2>4, KeptStep DEF PlayerPicked
<1>5. CASE PlayersExhausted
  BY <1>0, <1>5, KeptStep DEF PlayersExhausted, Goto, Loop, LoopLocals, SyncPoints
<1>6. CASE PromptReady
  BY <1>0, <1>6, KeptStep DEF PromptReady, Goto, Loop, LoopLocals, SyncPoints, AwaitPoints
<1>7. CASE ExecutorExits
  BY <1>0, <1>7, KeptStep DEF ExecutorExits, Goto, Loop, LoopLocals, AwaitPoints
<1>8. CASE ExecutorRateLimited
  <2>1. loop.player \in Players
    BY <1>0, <1>8 DEF ExecutorRateLimited, LoopLocals
  <2>2. /\ pipeline' \in Pipeline /\ pipeline'.status = pipeline.status
        /\ Pending(pipeline') = Pending(pipeline)
    BY <1>0, <1>8, <2>1 DEF ExecutorRateLimited, Pipeline, Pending
  <2>3. loop' \in Loop /\ LoopLocals' /\ loop'.pc # "idle"
    BY <1>0, <1>8, <2>1 DEF ExecutorRateLimited, Loop, LoopLocals, SyncPoints
  <2>4. cooldowns' \subseteq Players /\ dirty' \in BOOLEAN /\ shipped' = shipped
    BY <1>0, <1>8, <2>1 DEF ExecutorRateLimited, Rollback
  <2>5. QED
    BY <1>0, <1>8, <2>2, <2>3, <2>4, SavedStep DEF ExecutorRateLimited, Save
<1>9. CASE VerifyPasses
  <2>1. loop.job \in Job
    BY <1>0, <1>9 DEF VerifyPasses, LoopLocals
  <2>2. /\ pipeline' \in Pipeline /\ pipeline'.status = pipeline.status
        /\ Pending(pipeline') = Pending(pipeline)
    <3>1. PICK conditional \in BOOLEAN :
            pipeline' = LET noted == Noting(pipeline, conditional) IN
                        IF OwnRun
                        THEN [noted EXCEPT !.verified = noted.verified \cup {loop.job}]
                        ELSE noted
      BY <1>9 DEF VerifyPasses
    <3> DEFINE noted == Noting(pipeline, conditional)
    <3>2. /\ noted \in Pipeline /\ noted.status = pipeline.status
          /\ noted.gates = pipeline.gates
      BY <1>0 DEF Noting, Pipeline
    <3> HIDE DEF noted
    <3>3. pipeline' \in {noted, [noted EXCEPT !.verified = noted.verified \cup {loop.job}]}
      BY <3>1 DEF noted
    <3>4. /\ pipeline' \in Pipeline /\ pipeline'.status = noted.status
          /\ pipeline'.gates = noted.gates
      BY <2>1, <3>2, <3>3 DEF Pipeline
    <3>5. QED
      BY <3>2, <3>4 DEF Pending
  <2>3. loop' \in Loop /\ LoopLocals' /\ loop'.pc # "idle"
    BY <1>0, <1>9, <2>1 DEF VerifyPasses, Goto, Loop, LoopLocals, SyncPoints
  <2>4. QED
    BY <1>0, <1>9, <2>2, <2>3, SavedStep DEF VerifyPasses, Save
<1>10. CASE VerifyFails
  <2>1. loop.player \in Players /\ loop.attempt + 1 \in Nat
    BY <1>0, <1>10 DEF VerifyFails, LoopLocals, Loop
  <2>2. loop' \in Loop /\ LoopLocals' /\ loop'.pc # "idle"
    <3>1. loop' \in { [loop EXCEPT !.pc = "prompt", !.attempt = loop.attempt + 1],
                      [loop EXCEPT !.pc = "pick",
                                   !.excluded = loop.excluded \cup {loop.player}] }
      BY <1>10 DEF VerifyFails
    <3>2. loop.job \in Job
      BY <1>0, <1>10 DEF VerifyFails, LoopLocals
    <3>3. CASE loop' = [loop EXCEPT !.pc = "prompt", !.attempt = loop.attempt + 1]
      BY <1>0, <2>1, <3>2, <3>3 DEF Loop, LoopLocals, AwaitPoints
    <3>4. CASE loop' = [loop EXCEPT !.pc = "pick",
                                    !.excluded = loop.excluded \cup {loop.player}]
      BY <1>0, <2>1, <3>2, <3>4 DEF Loop, LoopLocals, SyncPoints
    <3>5. QED
      BY <3>1, <3>3, <3>4
  <2>3. QED
    BY <1>0, <1>10, <2>2, KeptStep DEF VerifyFails, Rollback
<1>11. CASE DeploySucceeds
  BY <1>0, <1>11, KeptStep DEF DeploySucceeds, Goto, Loop, LoopLocals, SyncPoints
<1>12. CASE DeployFails
  BY <1>0, <1>12, KeptStep DEF DeployFails, Goto, Loop, LoopLocals, SyncPoints
<1>13. CASE JobPassed
  <2>1. pipeline' = pipeline /\ disk' \in {disk, pipeline} /\ dirty' \in BOOLEAN
        /\ cooldowns' = cooldowns /\ shipped' = shipped
    BY <1>0, <1>13 DEF JobPassed
  <2>2. loop' \in Loop /\ LoopLocals' /\ (pipeline.status = "running" => loop'.pc # "idle")
    <3>1. CASE loop' = Idle /\ pipeline.status = "killed"
      BY <3>1, AtHeadType DEF Idle, LoopLocals
    <3>2. CASE \E pc \in {"advance", "review"} : loop' = [loop EXCEPT !.pc = pc]
      <4>1. loop.job \in Job
        BY <1>0, <1>13 DEF JobPassed, LoopLocals
      <4>2. QED
        BY <1>0, <3>2, <4>1 DEF Loop, LoopLocals, SyncPoints, AwaitPoints
    <3>3. QED
      BY <1>13, <3>1, <3>2 DEF JobPassed, Goto
  <2>3. QED
    BY <1>0, <2>1, <2>2, KeptStep
<1>14. CASE ReviewEnds
  BY <1>0, <1>14, KeptStep DEF ReviewEnds, Goto, Loop, LoopLocals, SyncPoints, AwaitPoints
<1>15. CASE ReviewVerified
  BY <1>0, <1>15, KeptStep DEF ReviewVerified, Goto, Loop, LoopLocals, SyncPoints
<1>16. CASE ResultDropped
  BY <1>0, <1>16, KeptStep, AtHeadType DEF ResultDropped, LoopLocals, Idle
<1>17. CASE JobAdvances
  <2>1. loop.job \in Job
    BY <1>0, <1>17 DEF JobAdvances, LoopLocals
  <2>2. PICK next \in AfterJob(pipeline, loop.job) :
          LET kind == GateAfter(next, loop.job)
              gate == NewGate(kind, loop.job)
          IN  \/ /\ kind # "none"
                 /\ pipeline' = AddGate(next, "paused_gate", gate)
                 /\ \E answer \in AutomaticAnswers(next, gate) :
                      loop' = IF answer = "none" THEN Idle
                              ELSE [loop EXCEPT !.pc = "automatic", !.answer = answer]
              \/ /\ pipeline' = [next EXCEPT !.status = "paused_control"]
                 /\ loop' = Idle
              \/ /\ pipeline' = next
                 /\ loop' = AtHead
    BY <1>17 DEF JobAdvances
  <2>3. next \in Pipeline /\ next.status = "running"
    BY <1>0, <1>17, <2>1, AfterJobType DEF JobAdvances
  <2> DEFINE kind == GateAfter(next, loop.job)
             gate == NewGate(kind, loop.job)
  <2>4. /\ disk' = pipeline' /\ cooldowns' = cooldowns /\ dirty' = dirty /\ shipped' = shipped
    BY <1>17 DEF JobAdvances, Save
  <2>5. CASE /\ kind # "none"
             /\ pipeline' = AddGate(next, "paused_gate", gate)
             /\ \E answer \in AutomaticAnswers(next, gate) :
                  loop' = IF answer = "none" THEN Idle
                          ELSE [loop EXCEPT !.pc = "automatic", !.answer = answer]
    <3>1. kind \in GateKinds
      BY <2>1, <2>3, <2>5, GateAfterType
    <3>2. gate \in Gate /\ gate.decision = Undecided
      BY <2>1, <3>1, NewGateType
    <3>3. "paused_gate" \in Status
      BY DEF Status
    <3>4. /\ pipeline' \in Pipeline /\ pipeline'.status = "paused_gate"
          /\ Pending(pipeline') # {}
      BY <2>3, <2>5, <3>2, <3>3, AddGateType
    <3>5. PICK answer \in AutomaticAnswers(next, gate) :
            loop' = IF answer = "none" THEN Idle
                    ELSE [loop EXCEPT !.pc = "automatic", !.answer = answer]
      BY <2>5
    <3>6. answer # "none" => answer \in Answers
      BY <2>3, <3>2, AutomaticAnswersType
    <3>7. loop' \in Loop /\ LoopLocals'
      BY <1>0, <2>1, <3>5, <3>6, AtHeadType DEF Loop, LoopLocals, Idle, SyncPoints
    <3>8. QED
      BY <1>0, <2>4, <3>4, <3>7, SavedStep
  <2>6. CASE pipeline' = [next EXCEPT !.status = "paused_control"] /\ loop' = Idle
    <3>1. pipeline' \in Pipeline /\ pipeline'.status = "paused_control"
      BY <2>3, <2>6 DEF Pipeline, Status
    <3>2. QED
      BY <1>0, <2>4, <2>6, <3>1, SavedStep, AtHeadType DEF LoopLocals, Idle
  <2>7. CASE pipeline' = next /\ loop' = AtHead
    BY <1>0, <2>3, <2>4, <2>7, SavedStep, AtHeadType DEF LoopLocals, AtHead, Idle
  <2>8. QED
    BY <2>2, <2>5, <2>6, <2>7
<1>18. CASE AutomaticDecision
  <2>1. loop.answer \in Answers
    BY <1>0, <1>18 DEF AutomaticDecision, LoopLocals
  <2>2. PICK i \in Pending(pipeline) :
          pipeline' \in Decided(pipeline, i, loop.answer, "orchestrator")
    BY <1>18 DEF AutomaticDecision, Decidable
  <2>3. pipeline' \in Pipeline /\ pipeline'.status \in {"running", "killed"}
    BY <1>0, <2>1, <2>2, DecidedType DEF Pending
  <2>4. QED
    BY <1>0, <1>18, <2>3, SavedStep, AtHeadType
    DEF AutomaticDecision, Save, LoopLocals, AtHead, Idle
<1>19. CASE JobFailed
  <2>1. loop.job \in Job /\ loop' = Idle
        /\ cooldowns' = cooldowns /\ dirty' = dirty /\ shipped' = shipped
    BY <1>0, <1>19 DEF JobFailed, LoopLocals
  <2>2. loop' \in Loop /\ LoopLocals'
    BY <2>1, AtHeadType DEF LoopLocals, Idle
  <2>3. CASE pipeline.status = "killed"
    BY <1>0, <1>19, <2>1, <2>2, <2>3, KeptStep DEF JobFailed
  <2>4. CASE pipeline.status # "killed"
    <3>1. NewGate("blocked", loop.job) \in Gate
          /\ NewGate("blocked", loop.job).decision = Undecided
      BY <2>1, NewGateType DEF GateKinds
    <3>2. "blocked" \in Status
      BY DEF Status
    <3>3. /\ pipeline' \in Pipeline /\ pipeline'.status = "blocked"
          /\ Pending(pipeline') # {}
      BY <1>0, <1>19, <2>4, <3>1, <3>2, AddGateType DEF JobFailed
    <3>4. QED
      BY <1>0, <1>19, <2>1, <2>2, <2>4, <3>3, SavedStep DEF JobFailed, Save
  <2>5. QED
    BY <2>3, <2>4
<1>20. CASE LoopThrows
  BY <1>0, <1>20, SavedStep, AtHeadType
  DEF LoopThrows, Save, Pipeline, Status, LoopLocals, Idle
<1>21. CASE ReportMissing
  BY <1>0, <1>21, SavedStep, AtHeadType
  DEF ReportMissing, Save, Pipeline, Status, LoopLocals, Idle
<1>22. QED
  BY <1>2, <1>3, <1>4, <1>5, <1>6, <1>7, <1>8, <1>9, <1>10, <1>11, <1>12, <1>13,
     <1>14, <1>15, <1>16, <1>17, <1>18, <1>19, <1>20, <1>21 DEF LoopStep

-----------------------------------------------------------------------------
(* Commands, restarts and what happens outside the engine.                  *)

LEMMA CommandKeeps == IInv /\ Command => IInv'
<1> SUFFICES ASSUME IInv, Command PROVE IInv'
  OBVIOUS
<1>0. /\ pipeline \in Pipeline /\ loop \in Loop /\ cooldowns \subseteq Players
      /\ dirty \in BOOLEAN /\ shipped \subseteq Nat /\ LoopLocals
      /\ pipeline.status = "running" => loop.pc # "idle"
      /\ pipeline.status \in {"paused_gate", "blocked"} => Pending(pipeline) # {}
  BY DEF IInv, TypeOK, RunningHasLoop, WaitingHasGate
<1>1. ASSUME NEW jobs \in Seq(Job), NEW mode \in Modes, NEW auto \in BOOLEAN,
             Starts(jobs, mode, auto)
      PROVE  IInv'
  <2>1. pipeline.run + 1 \in Nat /\ mode \in ControlModes /\ <<>> \in Seq(Gate)
        /\ "running" \in Status
    BY <1>0, OptionsAssumption DEF Pipeline, Status
  <2>2. pipeline' \in Pipeline
    BY <1>1, <2>1, FreshType DEF Starts
  <2>3. pipeline'.status = "running"
    BY <1>1 DEF Starts, Fresh
  <2>4. QED
    BY <1>0, <1>1, <2>2, <2>3, SavedStep, AdvanceType DEF Starts, Save
<1>2. CASE Start
  BY <1>1, <1>2, PlansAssumption DEF Start
<1>3. CASE StartFeedback
  <2>1. <<"ITERATE", "L1/B5", "P3">> \in Seq(Job)
    BY DEF Job
  <2>2. QED
    BY <1>1, <1>3, <2>1 DEF StartFeedback
<1>4. CASE StartSimulation
  <2>1. <<"SIMULATE", "P3">> \in Seq(Job)
    BY DEF Job
  <2>2. QED
    BY <1>1, <1>4, <2>1 DEF StartSimulation
<1>5. CASE StartShip
  <2> DEFINE gates == <<NewGate("deploy", NoJob)>>
  <2>1. NewGate("deploy", NoJob) \in Gate /\ NewGate("deploy", NoJob).decision = Undecided
    BY NewGateType DEF GateKinds
  <2>2. gates \in Seq(Gate) /\ 1 \in DOMAIN gates /\ gates[1].decision = Undecided
    BY <2>1
  <2>3. PICK mode \in Modes :
          pipeline' = Fresh(pipeline.run + 1, "paused_gate", <<"P3">>, gates, mode, FALSE)
    BY <1>5 DEF StartShip
  <2>4. pipeline.run + 1 \in Nat /\ mode \in ControlModes /\ "paused_gate" \in Status
        /\ <<"P3">> \in Seq(Job)
    BY <1>0, OptionsAssumption DEF Pipeline, Status, Job
  <2> HIDE DEF gates
  <2>5. pipeline' \in Pipeline
    BY <2>2, <2>3, <2>4, FreshType
  <2>6. pipeline'.status = "paused_gate" /\ pipeline'.gates = gates
    BY <2>3 DEF Fresh
  <2>7. Pending(pipeline') # {}
    BY <2>2, <2>6 DEF Pending
  <2>8. LoopLocals' /\ loop' = loop
    BY <1>0, <1>5 DEF StartShip, LoopLocals
  <2>9. QED
    BY <1>0, <1>5, <2>5, <2>6, <2>7, <2>8, SavedStep DEF StartShip, Save
<1>6. CASE Decide
  <2>1. PICK i \in Pending(pipeline), choice \in Answers :
          /\ pipeline' \in Decided(pipeline, i, choice, "owner")
          /\ loop' = IF choice = "kill" THEN loop ELSE Advance(loop)
    BY <1>6 DEF Decide, Decidable, Choices, Answers
  <2>2. /\ pipeline' \in Pipeline
        /\ pipeline'.status = IF choice = "kill" THEN "killed" ELSE "running"
    BY <1>0, <2>1, DecidedType DEF Pending
  <2>3. loop' \in Loop /\ LoopLocals' /\ (choice # "kill" => loop'.pc # "idle")
    BY <1>0, <2>1, AdvanceType DEF LoopLocals
  <2>4. QED
    BY <1>0, <1>6, <2>2, <2>3, SavedStep DEF Decide, Save
<1>7. CASE Stop
  <2>1. NewGate("stopped", pipeline.currentJob) \in Gate
        /\ NewGate("stopped", pipeline.currentJob).decision = Undecided
    BY <1>0, NewGateType DEF GateKinds, Pipeline
  <2>2. "blocked" \in Status
    BY DEF Status
  <2>3. /\ pipeline' \in Pipeline /\ pipeline'.status = "blocked"
        /\ Pending(pipeline') # {}
    BY <1>0, <1>7, <2>1, <2>2, AddGateType DEF Stop
  <2>4. LoopLocals'
    BY <1>0, <1>7 DEF Stop, LoopLocals
  <2>5. QED
    BY <1>0, <1>7, <2>3, <2>4, SavedStep DEF Stop, Save
<1>8. CASE Kill
  <2>1. pipeline' \in Pipeline /\ pipeline'.status = "killed"
    BY <1>0, <1>8, FinishedType DEF Kill, Status
  <2>2. LoopLocals'
    BY <1>0, <1>8 DEF Kill, LoopLocals
  <2>3. QED
    BY <1>0, <1>8, <2>1, <2>2, SavedStep DEF Kill, Save
<1>9. CASE SetControlMode
  <2>1. PICK mode \in Modes :
          LET set == [pipeline EXCEPT !.controlMode = mode] IN
            \/ \E i \in FirstPending(set) :
                 \E answer \in AutomaticAnswers(set, set.gates[i]) \ {"none"} :
                   /\ pipeline' \in Decided(set, i, answer, "orchestrator")
                   /\ loop' = Advance(loop)
            \/ /\ pipeline' = [set EXCEPT !.status = "running"]
               /\ loop' = Advance(loop)
            \/ pipeline' = set /\ loop' = loop
    BY <1>9 DEF SetControlMode
  <2> DEFINE set == [pipeline EXCEPT !.controlMode = mode]
  <2>2. /\ set \in Pipeline /\ set.status = pipeline.status /\ set.gates = pipeline.gates
    BY <1>0, OptionsAssumption DEF Pipeline
  <2>3. Pending(set) = Pending(pipeline)
    BY <2>2 DEF Pending
  <2>4. /\ disk' = pipeline' /\ cooldowns' = cooldowns /\ dirty' = dirty /\ shipped' = shipped
    BY <1>9 DEF SetControlMode, Save
  <2> HIDE DEF set
  <2>5. CASE \E i \in FirstPending(set) :
               \E answer \in AutomaticAnswers(set, set.gates[i]) \ {"none"} :
                 /\ pipeline' \in Decided(set, i, answer, "orchestrator")
                 /\ loop' = Advance(loop)
    <3>1. PICK i \in FirstPending(set) :
            \E answer \in AutomaticAnswers(set, set.gates[i]) \ {"none"} :
              /\ pipeline' \in Decided(set, i, answer, "orchestrator")
              /\ loop' = Advance(loop)
      BY <2>5
    <3>2. PICK answer \in AutomaticAnswers(set, set.gates[i]) \ {"none"} :
            /\ pipeline' \in Decided(set, i, answer, "orchestrator")
            /\ loop' = Advance(loop)
      BY <3>1
    <3>3. i \in Pending(set) /\ i \in DOMAIN set.gates /\ set.gates[i] \in Gate
      BY <2>2 DEF FirstPending, Pending, Pipeline
    <3>4. answer \in Answers /\ answer # "kill"
      BY <2>2, <3>2, <3>3, AutomaticAnswersType
    <3>5. pipeline' \in Pipeline /\ pipeline'.status = "running"
      BY <2>2, <3>2, <3>3, <3>4, DecidedType
    <3>6. QED
      BY <1>0, <2>4, <3>2, <3>5, SavedStep, AdvanceType
  <2>6. CASE pipeline' = [set EXCEPT !.status = "running"] /\ loop' = Advance(loop)
    <3>1. pipeline' \in Pipeline /\ pipeline'.status = "running"
      BY <2>2, <2>6 DEF Pipeline, Status
    <3>2. QED
      BY <1>0, <2>4, <2>6, <3>1, SavedStep, AdvanceType
  <2>7. CASE pipeline' = set /\ loop' = loop
    <3>1. LoopLocals'
      BY <1>0, <2>7 DEF LoopLocals
    <3>2. Pending(pipeline') = Pending(pipeline)
      BY <2>3, <2>7
    <3>3. QED
      BY <1>0, <2>2, <2>4, <2>7, <3>1, <3>2, SavedStep
  <2>8. QED
    BY <2>1, <2>5, <2>6, <2>7 DEF set
<1>10. CASE ContinuePipeline
  <2>1. pipeline' \in Pipeline /\ pipeline'.status = "running"
    BY <1>0, <1>10 DEF ContinuePipeline, Pipeline, Status
  <2>2. QED
    BY <1>0, <1>10, <2>1, SavedStep, AdvanceType DEF ContinuePipeline, Save
<1>11. CASE Resume
  <2>1. pipeline' \in Pipeline /\ pipeline'.status = "running"
    BY <1>0, <1>11 DEF Resume, Pipeline, Status
  <2>2. QED
    BY <1>0, <1>11, <2>1, SavedStep, AdvanceType DEF Resume, Save
<1>12. QED
  BY <1>2, <1>3, <1>4, <1>5, <1>6, <1>7, <1>8, <1>9, <1>10, <1>11 DEF Command

LEMMA EnvironmentKeeps == IInv /\ Environment => IInv'
<1> SUFFICES ASSUME IInv, Environment PROVE IInv'
  OBVIOUS
<1>0. /\ pipeline \in Pipeline /\ disk \in Pipeline /\ loop \in Loop
      /\ cooldowns \subseteq Players /\ dirty \in BOOLEAN /\ shipped \subseteq Nat
      /\ LoopLocals
      /\ pipeline.status = "running" => loop.pc # "idle"
  BY DEF IInv, TypeOK, RunningHasLoop
<1>1. CASE ExecutorWrites
  BY <1>0, <1>1, KeptStep DEF ExecutorWrites, LoopLocals
<1>2. CASE OwnerCleansTree
  BY <1>0, <1>2, KeptStep DEF OwnerCleansTree, LoopLocals
<1>3. CASE CooldownEnds
  <2>1. PICK player \in cooldowns :
          /\ cooldowns' = cooldowns \ {player}
          /\ pipeline' = [pipeline EXCEPT !.cooldowns = pipeline.cooldowns \ {player}]
          /\ disk' = [disk EXCEPT !.cooldowns = disk.cooldowns \ {player}]
    BY <1>3 DEF CooldownEnds
  <2>2. /\ pipeline' \in Pipeline /\ pipeline'.status = pipeline.status
        /\ pipeline'.gates = pipeline.gates
        /\ disk' \in Pipeline /\ disk'.status = disk.status /\ disk'.gates = disk.gates
    BY <1>0, <2>1 DEF Pipeline
  <2>3. TypeOK' /\ LoopLocals' /\ RunningHasLoop' /\ WaitingHasGate'
    BY <1>0, <1>3, <2>1, <2>2
    DEF CooldownEnds, TypeOK, LoopLocals, RunningHasLoop, WaitingHasGate, Pending, IInv
  <2>4. ASSUME NEW pl \in Pipeline
        PROVE  Restored([pl EXCEPT !.cooldowns = pl.cooldowns \ {player}])
                 = [Restored(pl) EXCEPT !.cooldowns = Restored(pl).cooldowns \ {player}]
    BY DEF Restored, AddGate, NewGate, Pipeline
  <2>5. Restored(disk) = Restored(pipeline)
    BY DEF IInv, CrashLosesNothing
  <2>6. Restored(disk') = Restored(pipeline')
    BY <1>0, <2>1, <2>4, <2>5
  <2>7. QED
    BY <2>3, <2>6 DEF IInv, CrashLosesNothing, Restored
<1>4. QED
  BY <1>1, <1>2, <1>3 DEF Environment

LEMMA RestartKeeps == IInv /\ Restart => IInv'
<1> SUFFICES ASSUME IInv, Restart PROVE IInv'
  OBVIOUS
<1>1. /\ disk \in Pipeline /\ dirty \in BOOLEAN /\ shipped \subseteq Nat
      /\ disk.status \in {"paused_gate", "blocked"} => Pending(disk) # {}
  BY DEF IInv, TypeOK, WaitingHasGate
<1>2. /\ pipeline' = Restored(disk) /\ disk' = disk /\ loop' = Idle
      /\ cooldowns' = disk.cooldowns /\ dirty' = dirty /\ shipped' = shipped
  BY DEF Restart
<1>3. /\ Restored(disk) \in Pipeline /\ Restored(disk).status # "running"
      /\ Restored(disk).status \in {"paused_gate", "blocked"}
           => Pending(Restored(disk)) # {}
      /\ Restored(Restored(disk)) = Restored(disk)
  BY <1>1, RestoredType
<1>4. TypeOK' /\ LoopLocals' /\ RunningHasLoop'
  BY <1>1, <1>2, <1>3, AtHeadType DEF TypeOK, LoopLocals, RunningHasLoop, Idle, Pipeline
<1>5. WaitingHasGate'
  BY <1>1, <1>2, <1>3 DEF WaitingHasGate
<1>6. CrashLosesNothing'
  BY <1>2, <1>3 DEF CrashLosesNothing
<1>7. QED
  BY <1>4, <1>5, <1>6 DEF IInv

-----------------------------------------------------------------------------
(* The theorems.                                                            *)

LEMMA InitKeeps == Init => IInv
<1> SUFFICES ASSUME Init PROVE IInv
  OBVIOUS
<1>1. pipeline = NoPipeline /\ disk = NoPipeline /\ NoPipeline.status = "idle"
  BY DEF Init, NoPipeline, Fresh
<1>2. TypeOK
  BY <1>1, NoPipelineType, AtHeadType DEF Init, TypeOK
<1>3. LoopLocals
  BY DEF Init, LoopLocals, Idle
<1>4. RunningHasLoop /\ WaitingHasGate /\ CrashLosesNothing
  BY <1>1 DEF RunningHasLoop, WaitingHasGate, CrashLosesNothing
<1>5. QED
  BY <1>2, <1>3, <1>4 DEF IInv

LEMMA NextKeeps == IInv /\ [Next]_vars => IInv'
<1> SUFFICES ASSUME IInv, [Next]_vars PROVE IInv'
  OBVIOUS
<1>1. CASE UNCHANGED vars
  BY <1>1
  DEF vars, IInv, TypeOK, LoopLocals, RunningHasLoop, WaitingHasGate, CrashLosesNothing, Pending
<1>2. CASE Next
  BY <1>2, LoopStepKeeps, CommandKeeps, EnvironmentKeeps, RestartKeeps DEF Next
<1>3. QED
  BY <1>1, <1>2

\* The inductive invariant holds in every reachable state, of any roster and plan.
THEOREM Invariance == Spec => []IInv
  BY InitKeeps, NextKeeps, PTL DEF Spec

\* Every variable keeps the shape the code gives it.
THEOREM TypeCorrect == Spec => []TypeOK
<1>1. IInv => TypeOK
  BY DEF IInv
<1>2. QED
  BY Invariance, <1>1, PTL

\* A pipeline that says "running" always has a live loop behind it.
THEOREM RunningIsDriven == Spec => []RunningHasLoop
<1>1. IInv => RunningHasLoop
  BY DEF IInv
<1>2. QED
  BY Invariance, <1>1, PTL

\* A waiting pipeline always has a gate its owner can answer.
THEOREM WaitingIsAnswerable == Spec => []WaitingHasGate
<1>1. IInv => WaitingHasGate
  BY DEF IInv
<1>2. QED
  BY Invariance, <1>1, PTL

\* A crash at any moment restores what the engine held in memory.
THEOREM CrashSafe == Spec => []CrashLosesNothing
<1>1. IInv => CrashLosesNothing
  BY DEF IInv
<1>2. QED
  BY Invariance, <1>1, PTL
-----------------------------------------------------------------------------
(* The jobs of a run.                                                       *)

\* The simulator's own iteration is the only one of a run.
OneIteration(pl) ==
  /\ \A i, k \in DOMAIN pl.jobs :
       pl.jobs[i] = "ITERATE" /\ pl.jobs[k] = "ITERATE" => i = k
  /\ \A i, k \in DOMAIN pl.jobs :
       pl.jobs[i] = "SIMULATE" /\ pl.jobs[k] = "ITERATE" => pl.iterationUsed

\* A loop that simulates and may still iterate does so for a run without iterations.
IterationFree ==
  /\ loop.run <= pipeline.run
  /\ loop.pc \notin {"idle", "head"} /\ loop.job = "SIMULATE" /\ OwnRun
       /\ ~pipeline.iterationUsed
       => \A k \in DOMAIN pipeline.jobs : pipeline.jobs[k] # "ITERATE"

IterationInv == OneIteration(pipeline) /\ IterationFree

-----------------------------------------------------------------------------
(* An orderly owner: no stop, and no new run before the old loop is gone.   *)

Orderly == OwnerStops = FALSE /\ OwnerOverlaps = FALSE

\* The order of the jobs of a run, with the inserted iteration.
RunOrdered(pl) ==
  /\ \A i \in DOMAIN pl.jobs : pl.jobs[i] = "L0/P0" => i = 1
  /\ \A i \in DOMAIN pl.jobs : pl.jobs[i] = "P3" /\ i > 1 =>
       \/ pl.jobs[i - 1] = "L1/B5"
       \/ pl.jobs[i - 1] = "SIMULATE" /\ ~pl.iterationUsed
  /\ \A i, k \in DOMAIN pl.jobs : pl.jobs[i] = "SIMULATE" =>
       (pl.jobs[k] = "SIMULATE" => k = i) /\ (pl.jobs[k] = "P3" => k > i)
  /\ pl.iterationPending => pl.iterationUsed
  /\ pl.iterationUsed => pl.simulated

\* The jobs the run is at, or that the answer to a pending gate may lead it to.
Aims(pl) ==
  { JobAt(pl.jobs, pl.jobIndex), pl.currentJob }
    \cup { pl.gates[g].afterJob : g \in Pending(pl) }

\* The first k jobs are done, in this run.
Through(pl, sh, k) ==
  \A i \in DOMAIN pl.jobs : i <= k =>
    /\ IF pl.jobs[i] = "P3" THEN pl.run \in sh ELSE pl.jobs[i] \in pl.verified
    /\ pl.jobs[i] = "SIMULATE" => pl.simulated

\* So is everything before the place the run is at, and before the jobs it aims at;
\* once simulated it is never led back to P0.
Proven(pl, sh, aims) ==
  /\ Through(pl, sh, pl.jobIndex)
  /\ \A job \in aims : \A k \in IndexOf(pl.jobs, job) : Through(pl, sh, k)
  /\ pl.simulated => "L0/P0" \notin aims

Places(pl, sh) == RunOrdered(pl) /\ Proven(pl, sh, Aims(pl))

\* One question at a time, and none while the pipeline runs.
OneQuestion(pl) ==
  /\ \A i, k \in Pending(pl) : i = k
  /\ pl.status \in {"running", "paused_control"} => Pending(pl) = {}
  /\ \A g \in Pending(pl) : pl.gates[g].kind = "p0-go" =>
       /\ pl.gates[g].afterJob = "L0/P0"
       /\ pl.jobIndex = 1 /\ pl.jobs # <<>> /\ pl.jobs[1] = "L0/P0"

\* The latest review gate asks for the deploy.
DeployAsked(pl) ==
  \E i \in ReviewGates(pl) :
    (\A k \in ReviewGates(pl) : k <= i) /\ pl.gates[i].kind = "deploy"

NotRefused(pl) ==
  \A g \in DOMAIN pl.gates : pl.gates[g].kind = "deploy" => pl.gates[g].decision # "kill"

\* A run that is at the ship, or may be led to it, has asked; go is its owner's word
\* and a refusal the end.
ShipAsked(pl) ==
  /\ "P3" \in Aims(pl) => DeployAsked(pl)
  /\ \A g \in DOMAIN pl.gates : pl.gates[g].kind = "deploy" =>
       /\ pl.gates[g].decision \in {Undecided, "go", "kill"}
       /\ pl.gates[g].decision = "go" => pl.gates[g].decidedBy = "owner"
  /\ NotRefused(pl) \/ (pl.status = "killed" /\ Pending(pl) = {})

PlanInv(pl, sh) == Places(pl, sh) /\ OneQuestion(pl) /\ ShipAsked(pl)

\* The job the loop works on is the one the record is at, and it is done.
AtWork == OwnRun /\ pipeline.jobIndex < Len(pipeline.jobs)
            /\ loop.job = pipeline.jobs[pipeline.jobIndex + 1]

WorkDone == IF loop.job = "P3" THEN pipeline.run \in shipped
            ELSE loop.job \in pipeline.verified

LoopOrdered ==
  /\ loop.pc \notin {"idle", "automatic"} =>
       /\ Pending(pipeline) = {} /\ NotRefused(pipeline)
       /\ pipeline.status \in {"running", "killed"}
  /\ loop.pc \notin {"idle", "head", "automatic"} => AtWork
  /\ loop.pc \in {"passed", "review", "reviewVerify", "advance"} => WorkDone
  /\ loop.pc = "deploy" => loop.job = "P3"
  /\ loop.pc = "verify" => loop.job # "P3"
  /\ loop.pc \in {"pick", "prompt", "exec"} => loop.job # "P3"
  /\ loop.pc = "automatic" => \A i \in Pending(pipeline) :
       loop.answer \in AutomaticAnswers(pipeline, pipeline.gates[i]) \ {"none"}

-----------------------------------------------------------------------------
(* Jobs and their places.                                                   *)

LEMMA IndexOfAt ==
  ASSUME NEW jobs \in Seq(Job), NEW job, NEW k \in IndexOf(jobs, job)
  PROVE  /\ k \in Nat /\ k + 1 \in DOMAIN jobs /\ k < Len(jobs)
         /\ jobs[k + 1] = job /\ JobAt(jobs, k) = job
         /\ \A n \in 1..k : jobs[n] # job
<1>1. PICK m \in DOMAIN jobs :
        k = m - 1 /\ jobs[m] = job /\ \A n \in 1..(m - 1) : jobs[n] # job
  BY DEF IndexOf
<1>2. DOMAIN jobs = 1..Len(jobs) /\ Len(jobs) \in Nat
  OBVIOUS
<1>3. m \in Nat /\ k \in Nat /\ k + 1 = m /\ k < Len(jobs)
  BY <1>1, <1>2
<1>4. QED
  BY <1>1, <1>3 DEF JobAt

\* The first place of the job at n is not behind n.
LEMMA IndexOfJobAt ==
  ASSUME NEW jobs \in Seq(Job), NEW n \in Nat, NEW k \in IndexOf(jobs, JobAt(jobs, n))
  PROVE  k <= n
<1>1. k \in Nat /\ k + 1 \in DOMAIN jobs /\ jobs[k + 1] = JobAt(jobs, n)
      /\ \A m \in 1..k : jobs[m] # JobAt(jobs, n)
  BY IndexOfAt
<1>2. jobs[k + 1] \in Job
  BY <1>1
<1>3. n < Len(jobs) /\ JobAt(jobs, n) = jobs[n + 1]
  BY <1>1, <1>2 DEF JobAt, Job, NoJob
<1>4. QED
  BY <1>1, <1>3

LEMMA JobAtDomain ==
  ASSUME NEW jobs \in Seq(Job), NEW n \in Nat, JobAt(jobs, n) # NoJob
  PROVE  n < Len(jobs) /\ n + 1 \in DOMAIN jobs /\ JobAt(jobs, n) = jobs[n + 1]
  BY DEF JobAt

LEMMA ThroughLess ==
  ASSUME NEW pl \in Pipeline, NEW sh, NEW n \in Nat, NEW k \in Nat, k <= n,
         Through(pl, sh, n)
  PROVE  Through(pl, sh, k)
<1>1. \A i \in DOMAIN pl.jobs : i \in Nat
  BY DEF Pipeline
<1>2. QED
  BY <1>1 DEF Through

\* Work that was done stays done.
LEMMA ThroughKept ==
  ASSUME NEW pl, NEW q, NEW sh, NEW sh2, NEW k,
         q.jobs = pl.jobs, q.run = pl.run, q.simulated = pl.simulated,
         pl.verified \subseteq q.verified, sh \subseteq sh2, Through(pl, sh, k)
  PROVE  Through(q, sh2, k)
  BY DEF Through

\* A record that stays in its place, or goes to one it aimed at, and aims at no new one.
LEMMA PlacesKept ==
  ASSUME NEW pl \in Pipeline, NEW q \in Pipeline, NEW sh, NEW sh2, NEW aims,
         RunOrdered(pl), Proven(pl, sh, aims),
         q.jobs = pl.jobs, q.run = pl.run, q.simulated = pl.simulated,
         q.iterationUsed = pl.iterationUsed, q.iterationPending = pl.iterationPending,
         pl.verified \subseteq q.verified, sh \subseteq sh2,
         Aims(q) \subseteq aims \cup {NoJob},
         \/ q.jobIndex = pl.jobIndex
         \/ \E job \in aims : q.jobIndex \in IndexOf(pl.jobs, job)
  PROVE  Places(q, sh2)
<1>1. RunOrdered(q)
  BY DEF RunOrdered
<1>2. Through(q, sh2, q.jobIndex)
  <2>1. Through(pl, sh, q.jobIndex)
    BY DEF Proven
  <2>2. QED
    BY <2>1, ThroughKept
<1>3. ASSUME NEW job \in Aims(q), NEW k \in IndexOf(q.jobs, job)
      PROVE  Through(q, sh2, k)
  <2>1. q.jobs \in Seq(Job)
    BY DEF Pipeline
  <2>2. q.jobs[k + 1] = job /\ q.jobs[k + 1] \in Job
    BY <2>1, IndexOfAt
  <2>3. job # NoJob
    BY <2>2 DEF Job, NoJob
  <2>4. Through(pl, sh, k)
    BY <2>3 DEF Proven
  <2>5. QED
    BY <2>4, ThroughKept
<1>4. q.simulated => "L0/P0" \notin Aims(q)
  BY DEF Proven, NoJob
<1>5. QED
  BY <1>1, <1>2, <1>3, <1>4 DEF Places, Proven

\* What the insertion of the iteration makes of the jobs.
Iterated(pl, q) ==
  \E at \in 0..Len(pl.jobs) :
    /\ pl.jobIndex < Len(pl.jobs) => at = pl.jobIndex + 1
    /\ Len(q.jobs) = Len(pl.jobs) + 2
    /\ q.jobs[at + 1] = "ITERATE" /\ q.jobs[at + 2] = "L1/B5"
    /\ \A i \in 1..at : q.jobs[i] = pl.jobs[i]
    /\ \A i \in (at + 3)..Len(q.jobs) : q.jobs[i] = pl.jobs[i - 2]

LEMMA WithIterationJobs ==
  ASSUME NEW pl \in Pipeline
  PROVE  Iterated(pl, WithIteration(pl))
<1> DEFINE at == IF pl.jobIndex < Len(pl.jobs) THEN pl.jobIndex + 1 ELSE Len(pl.jobs)
           len == Len(pl.jobs)
           new == <<"ITERATE", "L1/B5">>
           rest == SubSeq(pl.jobs, at + 1, len)
           first == SubSeq(pl.jobs, 1, at)
           jobs == first \o new \o rest
<1>1. /\ pl.jobs \in Seq(Job) /\ len \in Nat /\ at \in 0..len
      /\ \A i \in 1..len : pl.jobs[i] \in Job
  BY DEF Pipeline
<1>2. WithIteration(pl) = [pl EXCEPT !.iterationUsed = TRUE, !.iterationPending = TRUE,
                                     !.jobs = jobs]
  BY DEF WithIteration
<1>3. new \in Seq(Job) /\ Len(new) = 2 /\ new[1] = "ITERATE" /\ new[2] = "L1/B5"
  BY DEF Job
<1> HIDE DEF at, len, new
<1>4. first \in Seq(Job) /\ Len(first) = at /\ \A i \in 1..at : first[i] = pl.jobs[i]
  <2>1. 1 \in Int /\ at \in Int /\ at - 1 + 1 = at /\ (1 <= at \/ at = 0)
        /\ \A i \in 1..at : pl.jobs[i] \in Job /\ 1 + i - 1 = i
    BY <1>1
  <2>2. QED
    BY <2>1, SubSeqProperties
<1>5. rest \in Seq(Job) /\ Len(rest) = len - at
      /\ \A i \in 1..(len - at) : rest[i] = pl.jobs[at + i]
  <2>1. at + 1 \in Int /\ len \in Int /\ len - (at + 1) + 1 = len - at
        /\ \A i \in (at + 1)..len : pl.jobs[i] \in Job
    BY <1>1
  <2>2. PICK m \in Int : m = at + 1
    BY <2>1
  <2>3. /\ SubSeq(pl.jobs, m, len) \in Seq(Job)
        /\ Len(SubSeq(pl.jobs, m, len)) = IF m <= len THEN len - m + 1 ELSE 0
        /\ \A i \in 1..(len - m + 1) : SubSeq(pl.jobs, m, len)[i] = pl.jobs[m + i - 1]
    <3>1. \A i \in m..len : pl.jobs[i] \in Job
      BY <2>1, <2>2
    <3>2. QED
      BY <2>1, <3>1, SubSeqProperties
  <2>4. rest = SubSeq(pl.jobs, m, len)
    BY <2>2
  <2> HIDE DEF rest
  <2>5. /\ len - m + 1 = len - at /\ (IF m <= len THEN len - m + 1 ELSE 0) = len - at
        /\ \A i \in 1..(len - at) : m + i - 1 = at + i
    BY <1>1, <2>2
  <2>6. QED
    BY <2>3, <2>4, <2>5
<1> HIDE DEF first, rest
<1>6. first \o new \in Seq(Job) /\ Len(first \o new) = at + 2
      /\ \A i \in 1..(at + 2) : (first \o new)[i] = IF i <= at THEN first[i] ELSE new[i - at]
  <2>1. first \in Seq(Job) /\ new \in Seq(Job)
    BY <1>3, <1>4
  <2>2. /\ first \o new \in Seq(Job) /\ Len(first \o new) = Len(first) + Len(new)
        /\ \A i \in 1..(Len(first) + Len(new)) :
             (first \o new)[i] = IF i <= Len(first) THEN first[i] ELSE new[i - Len(first)]
    BY <2>1, ConcatProperties
  <2>3. QED
    BY <1>3, <1>4, <2>2
<1> DEFINE begin == first \o new
<1>7. jobs = begin \o rest
  OBVIOUS
<1>8. begin \in Seq(Job) /\ Len(begin) = at + 2 /\ begin[at + 1] = "ITERATE"
      /\ begin[at + 2] = "L1/B5" /\ \A i \in 1..at : begin[i] = pl.jobs[i]
  <2>1. /\ at + 1 \in 1..(at + 2) /\ at + 2 \in 1..(at + 2)
        /\ ~(at + 1 <= at) /\ ~(at + 2 <= at) /\ at + 1 - at = 1 /\ at + 2 - at = 2
        /\ \A i \in 1..at : i \in 1..(at + 2) /\ i <= at
    BY <1>1
  <2>2. QED
    BY <1>3, <1>4, <1>6, <2>1
<1> HIDE DEF jobs, begin
<1>9. /\ jobs \in Seq(Job) /\ Len(jobs) = len + 2
      /\ \A i \in 1..(len + 2) :
           jobs[i] = IF i <= at + 2 THEN begin[i] ELSE rest[i - (at + 2)]
  <2>1. /\ begin \o rest \in Seq(Job) /\ Len(begin \o rest) = Len(begin) + Len(rest)
        /\ \A i \in 1..(Len(begin) + Len(rest)) :
             (begin \o rest)[i] = IF i <= Len(begin) THEN begin[i] ELSE rest[i - Len(begin)]
    <3>1. begin \in Seq(Job) /\ rest \in Seq(Job)
      BY <1>5, <1>8
    <3>2. QED
      BY <3>1, ConcatProperties
  <2>2. Len(begin) + Len(rest) = len + 2
    BY <1>1, <1>5, <1>8
  <2>3. QED
    BY <1>7, <1>8, <2>1, <2>2
<1>10. /\ jobs[at + 1] = "ITERATE" /\ jobs[at + 2] = "L1/B5"
       /\ \A i \in 1..at : jobs[i] = pl.jobs[i]
  <2>1. /\ at + 1 \in 1..(len + 2) /\ at + 2 \in 1..(len + 2)
        /\ at + 1 <= at + 2 /\ at + 2 <= at + 2
        /\ \A i \in 1..at : i \in 1..(len + 2) /\ i <= at + 2
    BY <1>1
  <2>2. QED
    BY <1>8, <1>9, <2>1
<1>11. ASSUME NEW i \in (at + 3)..(len + 2) PROVE jobs[i] = pl.jobs[i - 2]
  <2>1. /\ i \in 1..(len + 2) /\ i - (at + 2) \in 1..(len - at) /\ ~(i <= at + 2)
        /\ at + (i - (at + 2)) = i - 2
    BY <1>1
  <2>2. QED
    BY <1>5, <1>9, <2>1
<1>12. WithIteration(pl).jobs = jobs
  BY <1>2 DEF Pipeline
<1>13. at \in 0..len /\ (pl.jobIndex < len => at = pl.jobIndex + 1)
  BY <1>1 DEF at, len
<1>14. QED
  BY <1>2, <1>9, <1>10, <1>11, <1>12, <1>13 DEF len, Iterated

\* What the passing of a job makes of the record.
Onward(pl, job, q) ==
  /\ q \in Pipeline
  /\ q.jobIndex = pl.jobIndex + 1 /\ q.currentJob = JobAt(q.jobs, q.jobIndex)
  /\ q.run = pl.run /\ q.status = pl.status /\ q.gates = pl.gates
  /\ q.verified = pl.verified /\ q.controlMode = pl.controlMode
  /\ \/ /\ job # "SIMULATE" /\ q.jobs = pl.jobs /\ q.simulated = pl.simulated
        /\ q.iterationUsed = pl.iterationUsed
        /\ q.iterationPending => pl.iterationPending
     \/ /\ job = "SIMULATE" /\ q.jobs = pl.jobs /\ q.simulated = TRUE
        /\ q.iterationUsed = pl.iterationUsed
        /\ q.iterationPending = pl.iterationPending
     \/ /\ job = "SIMULATE" /\ ~pl.iterationUsed /\ q.simulated = TRUE
        /\ q.iterationUsed = TRUE
        /\ q.jobs = WithIteration([pl EXCEPT !.simulated = TRUE]).jobs

LEMMA AfterJobFacts ==
  ASSUME NEW pl \in Pipeline, NEW job \in Job, NEW q \in AfterJob(pl, job)
  PROVE  Onward(pl, job, q)
<1> DEFINE done == [pl EXCEPT !.simulated = TRUE]
           settled == [pl EXCEPT !.iterationPending = FALSE]
           onward(s) == [s EXCEPT !.jobIndex = s.jobIndex + 1,
                                  !.currentJob = JobAt(s.jobs, s.jobIndex + 1)]
<1>1. q \in Pipeline
  BY AfterJobType
<1>2. done \in Pipeline /\ settled \in Pipeline
  BY DEF Pipeline
<1>3. WithIteration(done) \in Pipeline
  BY <1>2, WithIterationType
<1>4. \/ job # "SIMULATE" /\ q \in {onward(pl), onward(settled)}
      \/ job = "SIMULATE" /\ q = onward(done)
      \/ job = "SIMULATE" /\ ~pl.iterationUsed /\ q = onward(WithIteration(done))
  BY DEF AfterJob, AfterSimulation
<1>5. ASSUME NEW s \in Pipeline, q = onward(s)
      PROVE  /\ q.jobIndex = s.jobIndex + 1 /\ q.currentJob = JobAt(q.jobs, q.jobIndex)
             /\ q.run = s.run /\ q.status = s.status /\ q.gates = s.gates
             /\ q.verified = s.verified /\ q.controlMode = s.controlMode
             /\ q.jobs = s.jobs /\ q.simulated = s.simulated
             /\ q.iterationUsed = s.iterationUsed /\ q.iterationPending = s.iterationPending
  BY <1>5 DEF Pipeline
<1>6. ASSUME NEW s \in {pl, done, settled}
      PROVE  /\ s \in Pipeline /\ s.jobIndex = pl.jobIndex /\ s.jobs = pl.jobs
             /\ s.run = pl.run /\ s.status = pl.status /\ s.gates = pl.gates
             /\ s.verified = pl.verified /\ s.controlMode = pl.controlMode
             /\ s.iterationUsed = pl.iterationUsed
             /\ s.simulated = (IF s = done THEN TRUE ELSE pl.simulated)
             /\ s.iterationPending = pl.iterationPending \/ s = settled
  BY <1>2, <1>6 DEF Pipeline
<1>7. ASSUME NEW s, s = WithIteration(done)
      PROVE  /\ s \in Pipeline /\ s.jobIndex = pl.jobIndex
             /\ s.run = pl.run /\ s.status = pl.status /\ s.gates = pl.gates
             /\ s.verified = pl.verified /\ s.controlMode = pl.controlMode
             /\ s.simulated = TRUE /\ s.iterationUsed = TRUE
  BY <1>2, <1>3, <1>7 DEF WithIteration, Pipeline
<1>8. settled.iterationPending = FALSE /\ settled.simulated = pl.simulated
      /\ done.iterationPending = pl.iterationPending
  BY DEF Pipeline
<1> HIDE DEF done, settled, onward
<1>9. CASE job # "SIMULATE" /\ q \in {onward(pl), onward(settled)}
  <2>1. PICK s \in {pl, settled} : q = onward(s)
    BY <1>9
  <2>2. s.simulated = pl.simulated /\ (s.iterationPending => pl.iterationPending)
    BY <1>8
  <2>3. QED
    BY <1>1, <1>5, <1>6, <1>9, <2>1, <2>2 DEF Onward
<1>10. CASE job = "SIMULATE" /\ q = onward(done)
  <2>1. done.simulated = TRUE
    BY <1>6
  <2>2. QED
    BY <1>1, <1>5, <1>6, <1>8, <1>10, <2>1 DEF Onward
<1>11. CASE job = "SIMULATE" /\ ~pl.iterationUsed /\ q = onward(WithIteration(done))
  <2>1. PICK s : s = WithIteration(done)
    OBVIOUS
  <2>2. s \in Pipeline /\ q = onward(s)
    BY <1>3, <1>11, <2>1
  <2>3. /\ q.jobIndex = s.jobIndex + 1 /\ q.currentJob = JobAt(q.jobs, q.jobIndex)
        /\ q.run = s.run /\ q.status = s.status /\ q.gates = s.gates
        /\ q.verified = s.verified /\ q.controlMode = s.controlMode
        /\ q.jobs = s.jobs /\ q.simulated = s.simulated
        /\ q.iterationUsed = s.iterationUsed
    BY <1>5, <2>2
  <2>4. /\ s.jobIndex = pl.jobIndex
        /\ s.run = pl.run /\ s.status = pl.status /\ s.gates = pl.gates
        /\ s.verified = pl.verified /\ s.controlMode = pl.controlMode
        /\ s.simulated = TRUE /\ s.iterationUsed = TRUE
    BY <1>7, <2>1
  <2>5. q.jobs = WithIteration([pl EXCEPT !.simulated = TRUE]).jobs
    BY <2>1, <2>3 DEF done
  <2>6. QED
    BY <1>1, <1>11, <2>3, <2>4, <2>5 DEF Onward
<1>12. QED
  BY <1>4, <1>9, <1>10, <1>11 DEF Onward

\* A gate added at the end, the rest of the record as it was.
GateAdded(pl, status, gate, q) ==
  LET n == Len(pl.gates) + 1
  IN  /\ q \in Pipeline
      /\ n \in Nat /\ DOMAIN q.gates = DOMAIN pl.gates \cup {n} /\ q.gates[n] = gate
      /\ \A i \in DOMAIN pl.gates : i \in Nat /\ i < n /\ q.gates[i] = pl.gates[i]
      /\ Pending(q) = Pending(pl) \cup {n}
      /\ q = [pl EXCEPT !.status = status, !.gates = q.gates]

LEMMA AddGateGates ==
  ASSUME NEW pl \in Pipeline, NEW status \in Status, NEW gate \in Gate,
         gate.decision = Undecided
  PROVE  GateAdded(pl, status, gate, AddGate(pl, status, gate))
<1> DEFINE q == AddGate(pl, status, gate)
           n == Len(pl.gates) + 1
<1>1. q \in Pipeline
  BY AddGateType
<1>2. q.gates = Append(pl.gates, gate) /\ pl.gates \in Seq(Gate)
      /\ q = [pl EXCEPT !.status = status, !.gates = q.gates]
  BY DEF AddGate, Pipeline
<1>3. /\ n \in Nat /\ DOMAIN q.gates = DOMAIN pl.gates \cup {n} /\ q.gates[n] = gate
      /\ \A i \in DOMAIN pl.gates : i \in Nat /\ i < n /\ q.gates[i] = pl.gates[i]
  BY <1>2
<1>4. n \notin DOMAIN pl.gates
  BY <1>3
<1> HIDE DEF q, n
<1>5. Pending(q) = Pending(pl) \cup {n}
  BY <1>3, <1>4 DEF Pending
<1>6. QED
  BY <1>1, <1>2, <1>3, <1>5 DEF q, n, GateAdded

\* What an answer makes of the record.
LEMMA DecidedFacts ==
  ASSUME NEW pl \in Pipeline, NEW i \in Pending(pl), NEW choice \in Answers,
         NEW by \in {"nobody", "owner", "orchestrator"},
         NEW q \in Decided(pl, i, choice, by)
  PROVE  /\ q \in Pipeline
         /\ q.status = IF choice = "kill" THEN "killed" ELSE "running"
         /\ DOMAIN q.gates = DOMAIN pl.gates /\ q.gates[i] = Answered(pl.gates[i], choice, by)
         /\ \A k \in DOMAIN pl.gates : k # i => q.gates[k] = pl.gates[k]
         /\ q.run = pl.run /\ q.verified = pl.verified /\ q.simulated = pl.simulated
         /\ q.iterationUsed = pl.iterationUsed /\ q.iterationPending = pl.iterationPending
         /\ \/ /\ q.jobs = pl.jobs /\ q.jobIndex = pl.jobIndex
               /\ q.currentJob \in {pl.currentJob, NoJob}
            \/ /\ q.jobs = pl.jobs /\ q.jobIndex \in IndexOf(pl.jobs, pl.gates[i].afterJob)
               /\ q.currentJob = pl.currentJob
            \/ /\ q.jobs \in CapabilityPlans /\ pl.gates[i].kind = "p0-go"
               /\ q.jobIndex = pl.jobIndex /\ q.currentJob = JobAt(q.jobs, q.jobIndex)
<1> DEFINE gates == [pl.gates EXCEPT ![i] = Answered(pl.gates[i], choice, by)]
           answered == [pl EXCEPT !.gates[i] = Answered(pl.gates[i], choice, by)]
           onward == [answered EXCEPT !.status = "running"]
<1>1. i \in DOMAIN pl.gates /\ pl.gates \in Seq(Gate)
  BY DEF Pending, Pipeline
<1>2. q \in Pipeline /\ q.status = IF choice = "kill" THEN "killed" ELSE "running"
  BY <1>1, DecidedType
<1>3. /\ DOMAIN gates = DOMAIN pl.gates /\ gates[i] = Answered(pl.gates[i], choice, by)
      /\ \A k \in DOMAIN pl.gates : k # i => gates[k] = pl.gates[k]
  BY <1>1
<1>4. answered = [pl EXCEPT !.gates = gates]
  BY DEF Pipeline
<1>5. \/ q = Finished(answered, "killed")
      \/ \E k \in IndexOf(pl.jobs, pl.gates[i].afterJob) :
            q = [onward EXCEPT !.jobIndex = k]
      \/ /\ pl.gates[i].kind = "p0-go"
         /\ \E jobs \in CapabilityPlans :
              q = [onward EXCEPT !.jobs = jobs, !.capabilityAuto = FALSE,
                                 !.currentJob = JobAt(jobs, pl.jobIndex)]
      \/ q = onward
  BY DEF Decided
<1> HIDE DEF gates
<1>6. /\ q.gates = gates
      /\ q.run = pl.run /\ q.verified = pl.verified /\ q.simulated = pl.simulated
      /\ q.iterationUsed = pl.iterationUsed /\ q.iterationPending = pl.iterationPending
  <2> DEFINE Kept(r) ==
               /\ r.gates = gates
               /\ r.run = pl.run /\ r.verified = pl.verified /\ r.simulated = pl.simulated
               /\ r.iterationUsed = pl.iterationUsed
               /\ r.iterationPending = pl.iterationPending
  <2>1. Kept(answered)
    BY <1>4 DEF Pipeline
  <2>2. Kept(onward) /\ Kept(Finished(answered, "killed"))
    BY <1>4, <2>1 DEF Finished, Pipeline
  <2>3. ASSUME NEW k PROVE Kept([onward EXCEPT !.jobIndex = k])
    BY <1>4, <2>2 DEF Pipeline
  <2>4. ASSUME NEW jobs, NEW job
        PROVE  Kept([onward EXCEPT !.jobs = jobs, !.capabilityAuto = FALSE, !.currentJob = job])
    BY <1>4, <2>2 DEF Pipeline
  <2>5. Kept(q)
    <3>1. CASE q = Finished(answered, "killed") \/ q = onward
      BY ONLY <2>2, <3>1
    <3>2. ASSUME NEW k, q = [onward EXCEPT !.jobIndex = k] PROVE Kept(q)
      BY ONLY <2>3, <3>2
    <3>3. ASSUME NEW jobs, NEW job,
                 q = [onward EXCEPT !.jobs = jobs, !.capabilityAuto = FALSE, !.currentJob = job]
          PROVE  Kept(q)
      BY ONLY <2>4, <3>3
    <3>4. QED
      BY <1>5, <3>1, <3>2, <3>3
  <2>6. QED
    BY <2>5 DEF Kept
<1>7. \/ /\ q.jobs = pl.jobs /\ q.jobIndex = pl.jobIndex
         /\ q.currentJob \in {pl.currentJob, NoJob}
      \/ /\ q.jobs = pl.jobs /\ q.jobIndex \in IndexOf(pl.jobs, pl.gates[i].afterJob)
         /\ q.currentJob = pl.currentJob
      \/ /\ q.jobs \in CapabilityPlans /\ pl.gates[i].kind = "p0-go"
         /\ q.jobIndex = pl.jobIndex /\ q.currentJob = JobAt(q.jobs, q.jobIndex)
  <2>1. CASE q = Finished(answered, "killed") \/ q = onward
    BY <1>4, <2>1 DEF Finished, Pipeline
  <2>2. ASSUME NEW k \in IndexOf(pl.jobs, pl.gates[i].afterJob),
               q = [onward EXCEPT !.jobIndex = k]
        PROVE  /\ q.jobs = pl.jobs /\ q.jobIndex = k
               /\ q.currentJob = pl.currentJob
    BY <1>4, <2>2 DEF Pipeline
  <2>3. ASSUME NEW jobs \in CapabilityPlans,
               q = [onward EXCEPT !.jobs = jobs, !.capabilityAuto = FALSE,
                                  !.currentJob = JobAt(jobs, pl.jobIndex)]
        PROVE  /\ q.jobs = jobs /\ q.jobIndex = pl.jobIndex
               /\ q.currentJob = JobAt(q.jobs, q.jobIndex)
    BY <1>4, <2>3 DEF Pipeline
  <2>4. QED
    BY <1>5, <2>1, <2>2, <2>3
<1>8. QED
  BY <1>2, <1>3, <1>6, <1>7

-----------------------------------------------------------------------------
(* One iteration of the simulator's own, whatever the owner does.           *)

\* Plans bring no iteration of their own.
LEMMA PlanIteration ==
  ASSUME NEW pl, pl.jobs \in StartPlans \cup CapabilityPlans
  PROVE  OneIteration(pl) /\ \A k \in DOMAIN pl.jobs : pl.jobs[k] # "ITERATE"
  BY OrderAssumption DEF Ordered, OneIteration

\* A step that leaves the jobs alone, and the loop at its job or without one.
LEMMA IterationKept ==
  ASSUME IterationInv, loop \in Loop,
         pipeline'.jobs = pipeline.jobs, pipeline'.run = pipeline.run,
         pipeline'.iterationUsed = pipeline.iterationUsed,
         \/ loop' \in {loop, Idle, AtHead} /\ pipeline.run \in Nat
         \/ loop.pc \notin {"idle", "head"} /\ loop'.run = loop.run /\ loop'.job = loop.job
  PROVE  IterationInv'
<1>1. OneIteration(pipeline')
  BY DEF IterationInv, OneIteration
<1>2. IterationFree'
  BY DEF IterationInv, IterationFree, OwnRun, Idle, AtHead
<1>3. QED
  BY <1>1, <1>2 DEF IterationInv

\* A new plan: the loop of an earlier run has no say in it.
LEMMA IterationReset ==
  ASSUME IterationInv, loop \in Loop, pipeline' \in Pipeline, OneIteration(pipeline'),
         pipeline.run \in Nat,
         \/ pipeline'.run = pipeline.run + 1
         \/ pipeline'.run = pipeline.run
              /\ \A k \in DOMAIN pipeline'.jobs : pipeline'.jobs[k] # "ITERATE",
         loop' \in {loop, Idle, AtHead}
  PROVE  IterationInv'
<1>1. loop'.run \in Nat /\ loop'.run <= pipeline.run
  BY DEF IterationInv, IterationFree, Idle, AtHead, Loop
<1>2. IterationFree'
  BY <1>1 DEF IterationFree, OwnRun
<1>3. QED
  BY <1>2 DEF IterationInv

\* An answer keeps the jobs or installs a plan.
LEMMA IterationDecided ==
  ASSUME IterationInv, IInv, NEW pl \in Pipeline,
         pl.jobs = pipeline.jobs, pl.run = pipeline.run,
         pl.iterationUsed = pipeline.iterationUsed,
         NEW i \in Pending(pl), NEW choice \in Answers,
         NEW by \in {"nobody", "owner", "orchestrator"},
         pipeline' \in Decided(pl, i, choice, by), loop' \in {loop, Idle, AtHead}
  PROVE  IterationInv'
<1>1. loop \in Loop /\ pipeline.run \in Nat
  BY DEF IInv, TypeOK, Pipeline
<1>2. /\ pipeline' \in Pipeline /\ pipeline'.run = pl.run
      /\ pipeline'.iterationUsed = pl.iterationUsed
      /\ pipeline'.jobs = pl.jobs \/ pipeline'.jobs \in CapabilityPlans
  BY DecidedFacts
<1>3. CASE pipeline'.jobs = pl.jobs
  BY <1>1, <1>2, <1>3, IterationKept
<1>4. CASE pipeline'.jobs \in CapabilityPlans
  BY <1>1, <1>2, <1>4, PlanIteration, IterationReset
<1>5. QED
  BY <1>2, <1>3, <1>4

LEMMA LoopIterates == IInv /\ IterationInv /\ LoopStep => IterationInv'
<1> SUFFICES ASSUME IInv, IterationInv, LoopStep PROVE IterationInv'
  OBVIOUS
<1>0. pipeline \in Pipeline /\ loop \in Loop /\ pipeline.run \in Nat /\ LoopLocals
  BY DEF IInv, TypeOK, Pipeline
<1>1. CASE LoopFinishes \/ LoopThrows \/ ReportMissing
  BY <1>0, <1>1, IterationKept DEF LoopFinishes, LoopThrows, ReportMissing, Finished, Pipeline
<1>2. CASE JobStarts
  <2> DEFINE job == pipeline.jobs[pipeline.jobIndex + 1]
  <2>1. pipeline' = [pipeline EXCEPT !.currentJob = job]
    BY <1>2 DEF JobStarts
  <2>2. PICK pc \in {"deploy", "failed", "pick"} :
          loop' = [Idle EXCEPT !.pc = pc, !.run = pipeline.run, !.job = job]
    BY <1>2 DEF JobStarts
  <2>3. pipeline.jobIndex + 1 \in DOMAIN pipeline.jobs
    <3>1. /\ pipeline.jobs \in Seq(Job) /\ pipeline.jobIndex \in Nat
          /\ pipeline.jobIndex < Len(pipeline.jobs)
      BY <1>0, <1>2 DEF JobStarts, Pipeline
    <3>2. QED
      BY <3>1
  <2>4. loop'.run = pipeline.run /\ loop'.job = job
    BY <2>2 DEF Idle
  <2>5. /\ pipeline'.jobs = pipeline.jobs /\ pipeline'.run = pipeline.run
        /\ pipeline'.iterationUsed = pipeline.iterationUsed
    BY <1>0, <2>1 DEF Pipeline
  <2>6. OneIteration(pipeline') /\ OneIteration(pipeline)
    BY <2>5 DEF IterationInv, OneIteration
  <2>7. IterationFree'
    BY <1>0, <2>3, <2>4, <2>5, <2>6 DEF IterationFree, OneIteration
  <2>8. QED
    BY <2>6, <2>7 DEF IterationInv
<1>3. CASE PlayerPicked \/ PlayersExhausted \/ PromptReady \/ ExecutorExits \/ VerifyFails
             \/ DeploySucceeds \/ DeployFails \/ JobPassed \/ ReviewEnds \/ ReviewVerified
             \/ ResultDropped
  <2>1. pipeline' = pipeline
    BY <1>3 DEF PlayerPicked, PlayersExhausted, PromptReady, ExecutorExits, VerifyFails,
      DeploySucceeds, DeployFails, JobPassed, ReviewEnds, ReviewVerified, ResultDropped
  <2>2. \/ loop' = Idle
        \/ loop.pc \notin {"idle", "head"} /\ loop'.run = loop.run /\ loop'.job = loop.job
    BY <1>0, <1>3 DEF PlayerPicked, PlayersExhausted, PromptReady, ExecutorExits,
      VerifyFails, DeploySucceeds, DeployFails, JobPassed, ReviewEnds, ReviewVerified,
      ResultDropped, Goto, Loop
  <2>3. QED
    BY <1>0, <2>1, <2>2, IterationKept
<1>4. CASE ExecutorRateLimited
  <2>1. /\ loop.pc \notin {"idle", "head"} /\ loop'.run = loop.run /\ loop'.job = loop.job
    BY <1>0, <1>4 DEF ExecutorRateLimited, Loop
  <2>2. /\ pipeline'.jobs = pipeline.jobs /\ pipeline'.run = pipeline.run
        /\ pipeline'.iterationUsed = pipeline.iterationUsed
    BY <1>0, <1>4 DEF ExecutorRateLimited, Pipeline
  <2>3. QED
    BY <1>0, <2>1, <2>2, IterationKept
<1>5. CASE VerifyPasses
  <2>1. /\ loop.pc \notin {"idle", "head"} /\ loop'.run = loop.run /\ loop'.job = loop.job
    BY <1>0, <1>5 DEF VerifyPasses, Goto, Loop
  <2>2. PICK conditional \in BOOLEAN :
          pipeline' = LET noted == Noting(pipeline, conditional) IN
                      IF OwnRun
                      THEN [noted EXCEPT !.verified = noted.verified \cup {loop.job}]
                      ELSE noted
    BY <1>5 DEF VerifyPasses
  <2>3. /\ pipeline'.jobs = pipeline.jobs /\ pipeline'.run = pipeline.run
        /\ pipeline'.iterationUsed = pipeline.iterationUsed
    BY <1>0, <2>2 DEF Noting, Pipeline
  <2>4. QED
    BY <1>0, <2>1, <2>3, IterationKept
<1>6. CASE JobAdvances
  <2>1. loop.pc = "advance" /\ loop.job \in Job /\ (loop.job = "SIMULATE" => OwnRun)
    BY <1>0, <1>6 DEF JobAdvances, LoopLocals
  <2>2. PICK next \in AfterJob(pipeline, loop.job) :
          LET kind == GateAfter(next, loop.job) IN
            \/ /\ pipeline' = AddGate(next, "paused_gate", NewGate(kind, loop.job))
               /\ \/ loop' = Idle
                  \/ \E answer \in Answers \cup {"none"} :
                       loop' = [loop EXCEPT !.pc = "automatic", !.answer = answer]
            \/ pipeline' = [next EXCEPT !.status = "paused_control"] /\ loop' = Idle
            \/ pipeline' = next /\ loop' = AtHead
    <3>1. PICK next \in AfterJob(pipeline, loop.job) :
            LET kind == GateAfter(next, loop.job)
                gate == NewGate(kind, loop.job)
            IN  \/ /\ kind # "none"
                   /\ pipeline' = AddGate(next, "paused_gate", gate)
                   /\ \E answer \in AutomaticAnswers(next, gate) :
                        loop' = IF answer = "none" THEN Idle
                                ELSE [loop EXCEPT !.pc = "automatic", !.answer = answer]
                \/ /\ pipeline' = [next EXCEPT !.status = "paused_control"]
                   /\ loop' = Idle
                \/ /\ pipeline' = next
                   /\ loop' = AtHead
      BY <1>6 DEF JobAdvances
    <3>2. \A gate : AutomaticAnswers(next, gate) \subseteq Answers \cup {"none"}
      BY DEF AutomaticAnswers, Answers
    <3>3. QED
      BY <3>1, <3>2
  <2> DEFINE done == [pipeline EXCEPT !.simulated = TRUE]
  <2>3a. /\ next \in Pipeline /\ next.run = pipeline.run
         /\ \/ next.jobs = pipeline.jobs /\ next.iterationUsed = pipeline.iterationUsed
            \/ /\ loop.job = "SIMULATE" /\ ~pipeline.iterationUsed
               /\ next.iterationUsed = TRUE /\ next.jobs = WithIteration(done).jobs
    <3>1. Onward(pipeline, loop.job, next)
      BY <1>0, <2>1, AfterJobFacts
    <3>2. QED
      BY <3>1 DEF Onward
  <2>3. /\ next \in Pipeline /\ pipeline'.jobs = next.jobs /\ pipeline'.run = pipeline.run
        /\ pipeline'.iterationUsed = next.iterationUsed
    BY <2>2, <2>3a DEF AddGate, Pipeline
  <2>4. \/ loop' \in {Idle, AtHead}
        \/ loop.pc \notin {"idle", "head"} /\ loop'.run = loop.run /\ loop'.job = loop.job
    BY <1>0, <2>1, <2>2 DEF Loop
  <2>5. CASE next.jobs = pipeline.jobs /\ next.iterationUsed = pipeline.iterationUsed
    BY <1>0, <2>3, <2>4, <2>5, IterationKept
  <2>6. CASE /\ loop.job = "SIMULATE" /\ ~pipeline.iterationUsed /\ next.iterationUsed = TRUE
             /\ next.jobs = WithIteration(done).jobs
    <3>1. \A k \in DOMAIN pipeline.jobs : pipeline.jobs[k] # "ITERATE"
      BY <2>1, <2>6 DEF IterationInv, IterationFree
    <3>2. done \in Pipeline /\ done.jobs = pipeline.jobs
      BY <1>0 DEF Pipeline
    <3> HIDE DEF done
    <3>3. PICK at \in 0..Len(done.jobs) :
            /\ Len(next.jobs) = Len(done.jobs) + 2
            /\ next.jobs[at + 1] = "ITERATE" /\ next.jobs[at + 2] = "L1/B5"
            /\ \A i \in 1..at : next.jobs[i] = done.jobs[i]
            /\ \A i \in (at + 3)..Len(next.jobs) : next.jobs[i] = done.jobs[i - 2]
      <4> DEFINE w == WithIteration(done)
      <4>1. Iterated(done, w) /\ next.jobs = w.jobs
        BY <2>6, <3>2, WithIterationJobs
      <4> HIDE DEF w
      <4>2. PICK at \in 0..Len(done.jobs) :
              /\ Len(w.jobs) = Len(done.jobs) + 2
              /\ w.jobs[at + 1] = "ITERATE" /\ w.jobs[at + 2] = "L1/B5"
              /\ \A i \in 1..at : w.jobs[i] = done.jobs[i]
              /\ \A i \in (at + 3)..Len(w.jobs) : w.jobs[i] = done.jobs[i - 2]
        BY <4>1 DEF Iterated
      <4>3. QED
        BY <4>1, <4>2
    <3>4. DOMAIN next.jobs = 1..Len(next.jobs) /\ DOMAIN done.jobs = 1..Len(done.jobs)
          /\ Len(done.jobs) \in Nat
      BY <2>3, <3>2 DEF Pipeline
    <3>5. ASSUME NEW i \in DOMAIN next.jobs, next.jobs[i] = "ITERATE" PROVE i = at + 1
      <4>1. CASE i \in 1..at
        BY <3>1, <3>2, <3>3, <3>4, <3>5, <4>1
      <4>2. CASE i \in (at + 3)..Len(next.jobs)
        <5>1. i - 2 \in DOMAIN done.jobs
          BY <3>3, <3>4, <4>2
        <5>2. QED
          BY <3>1, <3>2, <3>3, <3>5, <4>2, <5>1
      <4>3. CASE i = at + 2
        BY <3>3, <3>5, <4>3
      <4>4. QED
        BY <3>3, <3>4, <4>1, <4>2, <4>3
    <3>6. OneIteration(pipeline')
      BY <2>3, <2>6, <3>5 DEF OneIteration
    <3>7. IterationFree'
      BY <1>0, <2>3, <2>4, <2>6 DEF IterationInv, IterationFree, Idle, AtHead
    <3>8. QED
      BY <3>6, <3>7 DEF IterationInv
  <2>7. QED
    BY <2>3a, <2>5, <2>6
<1>7. CASE AutomaticDecision
  <2>1. loop.answer \in Answers
    BY <1>0, <1>7 DEF AutomaticDecision, LoopLocals
  <2>2. PICK i \in Pending(pipeline) :
          pipeline' \in Decided(pipeline, i, loop.answer, "orchestrator")
    BY <1>7 DEF AutomaticDecision, Decidable
  <2>3. QED
    BY <1>0, <1>7, <2>1, <2>2, IterationDecided DEF AutomaticDecision
<1>8. CASE JobFailed
  BY <1>0, <1>8, IterationKept DEF JobFailed, AddGate, Pipeline
<1>9. QED
  BY <1>1, <1>2, <1>3, <1>4, <1>5, <1>6, <1>7, <1>8 DEF LoopStep

LEMMA CommandIterates == IInv /\ IterationInv /\ Command => IterationInv'
<1> SUFFICES ASSUME IInv, IterationInv, Command PROVE IterationInv'
  OBVIOUS
<1>0. /\ pipeline \in Pipeline /\ loop \in Loop /\ pipeline.run \in Nat
      /\ Advance(loop) \in {loop, Idle, AtHead}
  BY DEF IInv, TypeOK, Pipeline, Advance
<1>1. ASSUME NEW jobs \in Seq(Job), NEW mode \in Modes, NEW auto \in BOOLEAN,
             Starts(jobs, mode, auto),
             \A i, k \in DOMAIN jobs : jobs[i] = "ITERATE" =>
               jobs[k] # "SIMULATE" /\ (jobs[k] = "ITERATE" => k = i)
      PROVE  IterationInv'
  <2>1. /\ pipeline'.run = pipeline.run + 1 /\ pipeline'.jobs = jobs
        /\ loop' \in {loop, Idle, AtHead}
    BY <1>0, <1>1 DEF Starts, Fresh
  <2>2. pipeline' \in Pipeline
    <3>1. pipeline.run + 1 \in Nat /\ mode \in ControlModes /\ <<>> \in Seq(Gate)
          /\ "running" \in Status
      BY <1>0, OptionsAssumption DEF Status
    <3>2. QED
      BY <1>1, <3>1, FreshType DEF Starts
  <2>3. OneIteration(pipeline')
    BY <1>1, <2>1 DEF OneIteration
  <2>4. QED
    BY <1>0, <2>1, <2>2, <2>3, IterationReset
<1>2. CASE Start
  <2>1. PICK jobs \in StartPlans, mode \in Modes, auto \in AutoCapability :
          Starts(jobs, mode, auto)
    BY <1>2 DEF Start
  <2>2. \A k \in DOMAIN jobs : jobs[k] # "ITERATE"
    BY OrderAssumption DEF Ordered
  <2>3. jobs \in Seq(Job) /\ auto \in BOOLEAN
    BY PlansAssumption
  <2>4. QED
    BY <1>1, <2>1, <2>2, <2>3
<1>3. CASE StartFeedback
  <2> DEFINE jobs == <<"ITERATE", "L1/B5", "P3">>
  <2>1. jobs \in Seq(Job) /\ DOMAIN jobs = 1..3
        /\ jobs[1] = "ITERATE" /\ jobs[2] = "L1/B5" /\ jobs[3] = "P3"
    BY DEF Job
  <2>2. PICK mode \in Modes : Starts(jobs, mode, FALSE)
    BY <1>3 DEF StartFeedback
  <2> HIDE DEF jobs
  <2>3. \A i, k \in DOMAIN jobs : jobs[i] = "ITERATE" =>
          jobs[k] # "SIMULATE" /\ (jobs[k] = "ITERATE" => k = i)
    BY <2>1
  <2>4. QED
    BY <1>1, <2>1, <2>2, <2>3
<1>4. CASE StartSimulation
  <2> DEFINE jobs == <<"SIMULATE", "P3">>
  <2>1. jobs \in Seq(Job) /\ DOMAIN jobs = 1..2 /\ jobs[1] = "SIMULATE" /\ jobs[2] = "P3"
    BY DEF Job
  <2>2. PICK mode \in Modes : Starts(jobs, mode, FALSE)
    BY <1>4 DEF StartSimulation
  <2> HIDE DEF jobs
  <2>3. \A i \in DOMAIN jobs : jobs[i] # "ITERATE"
    BY <2>1
  <2>4. QED
    BY <1>1, <2>1, <2>2, <2>3
<1>5. CASE StartShip
  <2> DEFINE jobs == <<"P3">>
             gates == <<NewGate("deploy", NoJob)>>
  <2>1. jobs \in Seq(Job) /\ DOMAIN jobs = 1..1 /\ jobs[1] = "P3"
    BY DEF Job
  <2>2. gates \in Seq(Gate)
    BY NewGateType DEF GateKinds
  <2>3. PICK mode \in Modes :
          pipeline' = Fresh(pipeline.run + 1, "paused_gate", jobs, gates, mode, FALSE)
    BY <1>5 DEF StartShip
  <2> HIDE DEF jobs, gates
  <2>4. pipeline'.run = pipeline.run + 1 /\ pipeline'.jobs = jobs /\ loop' = loop
    BY <1>5, <2>3 DEF Fresh, StartShip
  <2>5. pipeline' \in Pipeline
    <3>1. pipeline.run + 1 \in Nat /\ mode \in ControlModes /\ "paused_gate" \in Status
      BY <1>0, OptionsAssumption DEF Status
    <3>2. QED
      BY <2>1, <2>2, <2>3, <3>1, FreshType
  <2>6. OneIteration(pipeline')
    BY <2>1, <2>4 DEF OneIteration
  <2>7. QED
    BY <1>0, <2>4, <2>5, <2>6, IterationReset
<1>6. CASE Decide
  <2>1. PICK i \in Pending(pipeline), choice \in Answers :
          /\ pipeline' \in Decided(pipeline, i, choice, "owner")
          /\ loop' = IF choice = "kill" THEN loop ELSE Advance(loop)
    BY <1>6 DEF Decide, Decidable, Choices, Answers
  <2>2. loop' \in {loop, Idle, AtHead}
    BY <1>0, <2>1
  <2>3. QED
    BY <1>0, <2>1, <2>2, IterationDecided
<1>7. CASE Stop \/ Kill \/ ContinuePipeline \/ Resume
  <2>1. /\ pipeline'.jobs = pipeline.jobs /\ pipeline'.run = pipeline.run
        /\ pipeline'.iterationUsed = pipeline.iterationUsed
    BY <1>0, <1>7 DEF Stop, Kill, ContinuePipeline, Resume, AddGate, Finished, Pipeline
  <2>2. loop' \in {loop, Idle, AtHead}
    BY <1>0, <1>7 DEF Stop, Kill, ContinuePipeline, Resume
  <2>3. QED
    BY <1>0, <2>1, <2>2, IterationKept
<1>8. CASE SetControlMode
  <2>1. PICK mode \in Modes :
          LET set == [pipeline EXCEPT !.controlMode = mode] IN
            \/ \E i \in FirstPending(set) :
                 \E answer \in AutomaticAnswers(set, set.gates[i]) \ {"none"} :
                   /\ pipeline' \in Decided(set, i, answer, "orchestrator")
                   /\ loop' = Advance(loop)
            \/ pipeline' = [set EXCEPT !.status = "running"] /\ loop' = Advance(loop)
            \/ pipeline' = set /\ loop' = loop
    BY <1>8 DEF SetControlMode
  <2> DEFINE set == [pipeline EXCEPT !.controlMode = mode]
  <2>2. /\ set \in Pipeline /\ set.jobs = pipeline.jobs /\ set.run = pipeline.run
        /\ set.iterationUsed = pipeline.iterationUsed
    BY <1>0, OptionsAssumption DEF Pipeline
  <2>3. loop' \in {loop, Idle, AtHead}
    BY <1>0, <2>1
  <2> HIDE DEF set
  <2>4. ASSUME NEW i \in FirstPending(set),
               NEW answer \in AutomaticAnswers(set, set.gates[i]) \ {"none"},
               pipeline' \in Decided(set, i, answer, "orchestrator")
        PROVE  IterationInv'
    <3>1. i \in Pending(set) /\ set.gates[i] \in Gate
      BY <2>2 DEF FirstPending, Pending, Pipeline
    <3>2. answer \in Answers
      BY <2>2, <3>1, AutomaticAnswersType
    <3>3. QED
      BY <2>2, <2>3, <2>4, <3>1, <3>2, IterationDecided
  <2>5. CASE pipeline' \in {set, [set EXCEPT !.status = "running"]}
    <3>1. /\ pipeline'.jobs = pipeline.jobs /\ pipeline'.run = pipeline.run
          /\ pipeline'.iterationUsed = pipeline.iterationUsed
      BY <2>2, <2>5 DEF Pipeline
    <3>2. QED
      BY <1>0, <2>3, <3>1, IterationKept
  <2>6. QED
    BY <2>1, <2>4, <2>5 DEF set
<1>9. QED
  BY <1>2, <1>3, <1>4, <1>5, <1>6, <1>7, <1>8 DEF Command

LEMMA NextIterates == IInv /\ IterationInv /\ [Next]_vars => IterationInv'
<1> SUFFICES ASSUME IInv, IterationInv, [Next]_vars PROVE IterationInv'
  OBVIOUS
<1>0. /\ pipeline \in Pipeline /\ disk \in Pipeline /\ loop \in Loop
      /\ pipeline.run \in Nat /\ Restored(disk) = Restored(pipeline)
  BY DEF IInv, TypeOK, CrashLosesNothing, Pipeline
<1>1. CASE Environment \/ UNCHANGED vars
  <2>1. /\ pipeline'.jobs = pipeline.jobs /\ pipeline'.run = pipeline.run
        /\ pipeline'.iterationUsed = pipeline.iterationUsed /\ loop' = loop
    BY <1>0, <1>1 DEF Environment, ExecutorWrites, CooldownEnds, OwnerCleansTree, Pipeline, vars
  <2>2. QED
    BY <1>0, <2>1, IterationKept
<1>2. CASE Restart
  <2>1. pipeline' = Restored(pipeline) /\ loop' = Idle
    BY <1>0, <1>2 DEF Restart
  <2>2. /\ pipeline'.jobs = pipeline.jobs /\ pipeline'.run = pipeline.run
        /\ pipeline'.iterationUsed = pipeline.iterationUsed
    BY <1>0, <2>1 DEF Restored, AddGate, Pipeline
  <2>3. QED
    BY <1>0, <2>1, <2>2, IterationKept
<1>3. QED
  BY <1>1, <1>2, LoopIterates, CommandIterates DEF Next

\* The simulator iterates by itself at most once per run, with stops, retries, crashes
\* and overlapping runs: the flag and the loop's run guard the insertion.
THEOREM IteratesOnce == Spec => []OneAutomaticIteration
<1>1. Init => IterationInv
  BY DEF Init, IterationInv, OneIteration, IterationFree, NoPipeline, Fresh, Idle
<1>2. IInv /\ IterationInv => OneAutomaticIteration
  <2> SUFFICES ASSUME IInv, IterationInv PROVE OneAutomaticIteration
    OBVIOUS
  <2> DEFINE S == { i \in DOMAIN pipeline.jobs : pipeline.jobs[i] = "ITERATE" }
  <2>1. \A i, k \in S : i = k
    BY DEF IterationInv, OneIteration
  <2>2. CASE S = {}
    BY <2>2, FS_EmptySet DEF OneAutomaticIteration
  <2>3. CASE S # {}
    <3>1. PICK i \in S : S = {i}
      BY <2>1, <2>3
    <3> HIDE DEF S
    <3>2. Cardinality(S) = 1
      BY <3>1, FS_Singleton
    <3>3. QED
      BY <3>2 DEF S, OneAutomaticIteration
  <2>4. QED
    BY <2>2, <2>3
<1>3. QED
  BY Invariance, NextIterates, <1>1, <1>2, PTL DEF Spec

-----------------------------------------------------------------------------
(* The plan of an orderly owner: what each operation makes of a good record. *)

\* An aim is a job or none.
LEMMA AimsType ==
  ASSUME NEW pl \in Pipeline
  PROVE  Aims(pl) \subseteq Job \cup {NoJob}
<1>1. JobAt(pl.jobs, pl.jobIndex) \in Job \cup {NoJob} /\ pl.currentJob \in Job \cup {NoJob}
  BY JobAtType DEF Pipeline
<1>2. \A g \in DOMAIN pl.gates : pl.gates[g].afterJob \in Job \cup {NoJob}
  <2>1. \A g \in DOMAIN pl.gates : pl.gates[g] \in Gate
    BY DEF Pipeline
  <2>2. QED
    BY <2>1 DEF Gate
<1>3. QED
  BY <1>1, <1>2 DEF Aims, Pending

\* The gates stay as they are: the status, the current job and the work done may change.
LEMMA KeptPlan ==
  ASSUME NEW pl \in Pipeline, NEW q \in Pipeline, NEW sh, NEW sh2, PlanInv(pl, sh),
         q.jobs = pl.jobs, q.run = pl.run, q.simulated = pl.simulated,
         q.iterationUsed = pl.iterationUsed, q.iterationPending = pl.iterationPending,
         pl.verified \subseteq q.verified, sh \subseteq sh2,
         q.jobIndex = pl.jobIndex, q.gates = pl.gates,
         q.currentJob \in {pl.currentJob, NoJob, JobAt(pl.jobs, pl.jobIndex)},
         q.status \in {"running", "paused_control"} => Pending(pl) = {},
         q.status \in {pl.status, "killed"} \/ NotRefused(pl)
  PROVE  PlanInv(q, sh2)
<1>1. Pending(q) = Pending(pl) /\ ReviewGates(q) = ReviewGates(pl)
  BY DEF Pending, ReviewGates
<1>2. Aims(q) \subseteq Aims(pl) \cup {NoJob}
  BY <1>1 DEF Aims
<1>3. Places(q, sh2)
  BY <1>2, PlacesKept DEF PlanInv, Places
<1>4. OneQuestion(q)
  BY <1>1 DEF PlanInv, OneQuestion
<1>5. ShipAsked(q)
  <2>1. "P3" \in Aims(q) => DeployAsked(q)
    BY <1>1, <1>2 DEF PlanInv, ShipAsked, DeployAsked, NoJob
  <2>2. NotRefused(q) <=> NotRefused(pl)
    BY DEF NotRefused
  <2>3. QED
    BY <1>1, <2>1, <2>2 DEF PlanInv, ShipAsked
<1>6. QED
  BY <1>3, <1>4, <1>5 DEF PlanInv

\* A recovery gate after a job the run is at.
LEMMA RecoveryPlan ==
  ASSUME NEW pl \in Pipeline, NEW sh, PlanInv(pl, sh), Pending(pl) = {}, NotRefused(pl),
         NEW job \in Aims(pl), NEW kind \in {"blocked", "server-restart"}
  PROVE  PlanInv(AddGate(pl, "blocked", NewGate(kind, job)), sh)
<1> DEFINE gate == NewGate(kind, job)
           q == AddGate(pl, "blocked", gate)
           n == Len(pl.gates) + 1
<1>1. gate \in Gate /\ gate.decision = Undecided /\ gate.kind = kind /\ gate.afterJob = job
  <2>1. job \in Job \cup {NoJob} /\ kind \in GateKinds
    BY AimsType DEF GateKinds
  <2>2. QED
    BY <2>1, NewGateType DEF NewGate
<1>2. "blocked" \in Status
  BY DEF Status
<1> HIDE DEF gate
<1>3. /\ q \in Pipeline
      /\ n \in Nat /\ DOMAIN q.gates = DOMAIN pl.gates \cup {n} /\ q.gates[n] = gate
      /\ \A i \in DOMAIN pl.gates : i \in Nat /\ i < n /\ q.gates[i] = pl.gates[i]
      /\ Pending(q) = {n}
      /\ q = [pl EXCEPT !.status = "blocked", !.gates = q.gates]
  <2>1. GateAdded(pl, "blocked", gate, q)
    BY <1>1, <1>2, AddGateGates
  <2> HIDE DEF q
  <2>2. QED
    BY <2>1 DEF GateAdded
<1> HIDE DEF q, n
<1>4. /\ q.jobs = pl.jobs /\ q.run = pl.run /\ q.simulated = pl.simulated
      /\ q.iterationUsed = pl.iterationUsed /\ q.iterationPending = pl.iterationPending
      /\ q.verified = pl.verified /\ q.jobIndex = pl.jobIndex
      /\ q.currentJob = pl.currentJob /\ q.status = "blocked"
  BY <1>3 DEF Pipeline
<1>5. Aims(q) \subseteq Aims(pl)
  BY <1>1, <1>3, <1>4 DEF Aims
<1>6. Places(q, sh)
  BY <1>3, <1>4, <1>5, PlacesKept DEF PlanInv, Places
<1>7. OneQuestion(q)
  BY <1>1, <1>3, <1>4 DEF OneQuestion
<1>8. ReviewGates(q) = ReviewGates(pl)
  BY <1>1, <1>3 DEF ReviewGates
<1>9. ShipAsked(q)
  <2>1. DeployAsked(pl) => DeployAsked(q)
    BY <1>3, <1>8 DEF DeployAsked, ReviewGates
  <2>2. "P3" \in Aims(q) => DeployAsked(q)
    BY <1>5, <2>1 DEF PlanInv, ShipAsked
  <2>3. NotRefused(q)
    BY <1>1, <1>3 DEF NotRefused
  <2>4. QED
    BY <1>1, <1>3, <2>2, <2>3 DEF PlanInv, ShipAsked
<1>10. QED
  BY <1>6, <1>7, <1>9 DEF PlanInv, q, gate

\* An answer; the deploy gate is only ever answered go or kill, by its owner.
LEMMA DecidedPlan ==
  ASSUME NEW pl \in Pipeline, NEW sh, PlanInv(pl, sh), NEW i \in Pending(pl),
         NEW choice \in Answers, NEW by \in {"nobody", "owner", "orchestrator"},
         NEW q \in Decided(pl, i, choice, by),
         pl.gates[i].kind = "deploy" => choice \in {"go", "kill"} /\ by = "owner"
  PROVE  PlanInv(q, sh) /\ Pending(q) = {} /\ (choice # "kill" => NotRefused(q))
<1>1. /\ q \in Pipeline
      /\ q.status = IF choice = "kill" THEN "killed" ELSE "running"
      /\ DOMAIN q.gates = DOMAIN pl.gates /\ q.gates[i] = Answered(pl.gates[i], choice, by)
      /\ \A k \in DOMAIN pl.gates : k # i => q.gates[k] = pl.gates[k]
      /\ q.run = pl.run /\ q.verified = pl.verified /\ q.simulated = pl.simulated
      /\ q.iterationUsed = pl.iterationUsed /\ q.iterationPending = pl.iterationPending
  BY DecidedFacts
<1>2. i \in DOMAIN pl.gates /\ pl.gates[i] \in Gate
  BY DEF Pending, Pipeline
<1>3. /\ q.gates[i].kind = pl.gates[i].kind /\ q.gates[i].decision = choice
      /\ q.gates[i].decidedBy = by
  BY <1>1, <1>2 DEF Answered, Gate
<1>4. Pending(q) = {}
  BY <1>1, <1>3 DEF PlanInv, OneQuestion, Pending, Answers, Undecided
<1>5. OneQuestion(q)
  BY <1>4 DEF OneQuestion
<1>6. \A k \in DOMAIN pl.gates : q.gates[k].kind = pl.gates[k].kind
  BY <1>1, <1>3
<1>7. DeployAsked(pl) => DeployAsked(q)
  BY <1>1, <1>6 DEF DeployAsked, ReviewGates
<1>8. choice # "kill" => NotRefused(q)
  BY <1>1, <1>3 DEF NotRefused, PlanInv, ShipAsked
<1>9. /\ \A g \in DOMAIN q.gates : q.gates[g].kind = "deploy" =>
           /\ q.gates[g].decision \in {Undecided, "go", "kill"}
           /\ q.gates[g].decision = "go" => q.gates[g].decidedBy = "owner"
      /\ NotRefused(q) \/ (q.status = "killed" /\ Pending(q) = {})
  BY <1>1, <1>3, <1>4, <1>8 DEF PlanInv, ShipAsked
<1>10. pl.gates[i].afterJob \in Aims(pl)
  BY DEF Aims
<1>11. CASE /\ q.jobs = pl.jobs
            /\ \/ q.jobIndex = pl.jobIndex /\ q.currentJob \in {pl.currentJob, NoJob}
               \/ /\ q.jobIndex \in IndexOf(pl.jobs, pl.gates[i].afterJob)
                  /\ q.currentJob = pl.currentJob
  <2>1. JobAt(q.jobs, q.jobIndex) \in Aims(pl)
    <3>1. pl.jobs \in Seq(Job)
      BY DEF Pipeline
    <3>2. q.jobIndex \in IndexOf(pl.jobs, pl.gates[i].afterJob)
            => JobAt(pl.jobs, q.jobIndex) = pl.gates[i].afterJob
      BY <3>1, IndexOfAt
    <3>3. JobAt(pl.jobs, pl.jobIndex) \in Aims(pl)
      BY DEF Aims
    <3>4. QED
      BY <1>10, <1>11, <3>2, <3>3
  <2>2. Aims(q) \subseteq Aims(pl) \cup {NoJob}
    BY <1>4, <1>11, <2>1 DEF Aims
  <2>3. Places(q, sh)
    BY <1>1, <1>10, <1>11, <2>2, PlacesKept DEF PlanInv, Places
  <2>4. "P3" \in Aims(q) => DeployAsked(q)
    BY <1>7, <2>2 DEF PlanInv, ShipAsked, NoJob
  <2>5. QED
    BY <1>4, <1>5, <1>8, <1>9, <2>3, <2>4 DEF PlanInv, ShipAsked
<1>12. CASE /\ q.jobs \in CapabilityPlans /\ pl.gates[i].kind = "p0-go"
            /\ q.jobIndex = pl.jobIndex /\ q.currentJob = JobAt(q.jobs, q.jobIndex)
  <2>1. /\ pl.gates[i].afterJob = "L0/P0" /\ q.jobIndex = 1
        /\ pl.jobs # <<>> /\ pl.jobs[1] = "L0/P0"
    BY <1>12 DEF PlanInv, OneQuestion
  <2>2. q.jobs \in Seq(Job) /\ q.jobs # <<>> /\ q.jobs[1] = "L0/P0" /\ Ordered(q.jobs)
    BY <1>1, <1>12, OrderAssumption DEF Pipeline
  <2>3. q.simulated = FALSE /\ q.iterationUsed = FALSE /\ q.iterationPending = FALSE
    BY <1>1, <1>10, <2>1 DEF PlanInv, Places, Proven, RunOrdered, Pipeline
  <2>4. RunOrdered(q)
    BY <2>2, <2>3 DEF Ordered, RunOrdered
  <2>5. Through(q, sh, 1)
    <3>1. 1 \in DOMAIN pl.jobs /\ Through(pl, sh, 1)
      BY <1>12, <2>1 DEF PlanInv, Places, Proven, Pipeline
    <3>2. "L0/P0" \in q.verified
      BY <1>1, <2>1, <3>1 DEF Through
    <3>3. \A k \in DOMAIN q.jobs : k <= 1 => k = 1
      BY <2>2
    <3>4. QED
      BY <2>2, <3>2, <3>3 DEF Through
  <2>6. Aims(q) = {JobAt(q.jobs, 1)}
    BY <1>4, <1>12, <2>1 DEF Aims
  <2>7. ASSUME NEW k \in IndexOf(q.jobs, JobAt(q.jobs, 1)) PROVE Through(q, sh, k)
    <3>1. k \in Nat /\ k <= 1
      BY <2>2, IndexOfAt, IndexOfJobAt
    <3>2. QED
      BY <1>1, <2>5, <3>1, ThroughLess
  <2>8. Places(q, sh)
    BY <2>1, <2>3, <2>4, <2>5, <2>6, <2>7 DEF Places, Proven
  <2>9. "P3" \notin Aims(q)
    <3>1. SUFFICES ASSUME JobAt(q.jobs, 1) = "P3" PROVE FALSE
      BY <2>6
    <3>2. 2 \in DOMAIN q.jobs /\ q.jobs[2] = "P3"
      BY <2>2, <3>1, JobAtDomain DEF NoJob
    <3>3. q.jobs[1] \in {"L1/B5", "SIMULATE"}
      BY <2>2, <3>2 DEF Ordered
    <3>4. QED
      BY <2>2, <3>3
  <2>10. QED
    BY <1>4, <1>5, <1>8, <1>9, <2>8, <2>9 DEF PlanInv, ShipAsked
<1>13. QED
  BY <1>11, <1>12, DecidedFacts

\* A new run whose first job is not the ship.
LEMMA FreshPlan ==
  ASSUME NEW run \in Nat, NEW jobs \in Seq(Job), NEW mode \in ControlModes,
         NEW auto \in BOOLEAN, NEW sh,
         \A i \in DOMAIN jobs : jobs[i] = "L0/P0" => i = 1,
         \A i \in DOMAIN jobs : jobs[i] = "P3" =>
           i > 1 /\ jobs[i - 1] \in {"L1/B5", "SIMULATE"},
         \A i, k \in DOMAIN jobs : jobs[i] = "SIMULATE" =>
           (jobs[k] = "SIMULATE" => k = i) /\ (jobs[k] = "P3" => k > i)
  PROVE  PlanInv(Fresh(run, "running", jobs, <<>>, mode, auto), sh)
<1> DEFINE q == Fresh(run, "running", jobs, <<>>, mode, auto)
<1>1. /\ q.jobs = jobs /\ q.jobIndex = 0 /\ q.currentJob = NoJob /\ q.gates = <<>>
      /\ q.simulated = FALSE /\ q.iterationUsed = FALSE /\ q.iterationPending = FALSE
      /\ q.status = "running"
  BY DEF Fresh
<1> HIDE DEF q
<1>2. Pending(q) = {} /\ NotRefused(q) /\ DOMAIN q.gates = {}
  BY <1>1 DEF Pending, NotRefused
<1>3. Aims(q) = {JobAt(jobs, 0), NoJob}
  BY <1>1, <1>2 DEF Aims
<1>4. RunOrdered(q)
  BY <1>1 DEF RunOrdered
<1>5. ASSUME NEW k \in Nat, k <= 0 PROVE Through(q, sh, k)
  <2>1. \A i \in DOMAIN q.jobs : ~(i <= k)
    BY <1>1, <1>5
  <2>2. QED
    BY <2>1 DEF Through
<1>6. ASSUME NEW job \in Aims(q), NEW k \in IndexOf(jobs, job) PROVE Through(q, sh, k)
  <2>1. k \in Nat /\ jobs[k + 1] = job /\ jobs[k + 1] \in Job
    BY IndexOfAt
  <2>2. job = JobAt(jobs, 0)
    BY <1>3, <2>1 DEF Job, NoJob
  <2>3. k <= 0
    BY <2>2, IndexOfJobAt
  <2>4. QED
    BY <1>5, <2>1, <2>3
<1>7. Places(q, sh)
  BY <1>1, <1>4, <1>5, <1>6 DEF Places, Proven
<1>8. "P3" \notin Aims(q)
  <2>1. SUFFICES ASSUME JobAt(jobs, 0) = "P3" PROVE FALSE
    BY <1>3 DEF NoJob
  <2>2. 1 \in DOMAIN jobs /\ jobs[1] = "P3"
    BY <2>1, JobAtDomain DEF NoJob
  <2>3. \A i \in DOMAIN jobs : jobs[i] = "P3" => i > 1
    OBVIOUS
  <2>4. ~(1 > 1)
    OBVIOUS
  <2>5. QED
    BY <2>2, <2>3, <2>4
<1>9. OneQuestion(q) /\ ShipAsked(q)
  <2>1. OneQuestion(q)
    BY <1>2 DEF OneQuestion
  <2>2. ShipAsked(q)
    BY <1>2, <1>8 DEF ShipAsked
  <2>3. QED
    BY <2>1, <2>2
<1>10. QED
  BY <1>7, <1>9 DEF PlanInv, q

\* A run that only ships asks its owner first.
LEMMA ShipPlan ==
  ASSUME NEW run \in Nat, NEW mode \in ControlModes, NEW sh
  PROVE  PlanInv(Fresh(run, "paused_gate", <<"P3">>, <<NewGate("deploy", NoJob)>>,
                       mode, FALSE), sh)
<1> DEFINE jobs == <<"P3">>
           gates == <<NewGate("deploy", NoJob)>>
           q == Fresh(run, "paused_gate", jobs, gates, mode, FALSE)
<1>1. jobs \in Seq(Job) /\ DOMAIN jobs = {1} /\ jobs[1] = "P3" /\ Len(jobs) = 1
  BY DEF Job
<1>2. /\ DOMAIN gates = {1} /\ gates[1].kind = "deploy" /\ gates[1].afterJob = NoJob
      /\ gates[1].decision = Undecided
  BY DEF NewGate
<1> HIDE DEF jobs, gates
<1>3. /\ q.jobs = jobs /\ q.jobIndex = 0 /\ q.currentJob = NoJob /\ q.gates = gates
      /\ q.simulated = FALSE /\ q.iterationUsed = FALSE /\ q.iterationPending = FALSE
      /\ q.status = "paused_gate"
  BY DEF Fresh
<1> HIDE DEF q
<1>4. Pending(q) = {1} /\ NotRefused(q)
  BY <1>2, <1>3 DEF Pending, NotRefused, Undecided
<1>5. Aims(q) = {"P3", NoJob}
  <2>1. JobAt(q.jobs, q.jobIndex) = "P3"
    <3>1. JobAt(jobs, 0) = "P3"
      BY <1>1 DEF JobAt
    <3>2. QED
      BY <1>3, <3>1
  <2>2. { q.gates[g].afterJob : g \in Pending(q) } = {NoJob}
    BY <1>2, <1>3, <1>4
  <2>3. QED
    BY <1>3, <2>1, <2>2 DEF Aims
<1>6. RunOrdered(q)
  BY <1>1, <1>3 DEF RunOrdered
<1>7. ASSUME NEW k \in Nat, k <= 0 PROVE Through(q, sh, k)
  <2>1. \A i \in DOMAIN q.jobs : ~(i <= k)
    BY <1>1, <1>3, <1>7
  <2>2. QED
    BY <2>1 DEF Through
<1>8. ASSUME NEW job, NEW k \in IndexOf(jobs, job) PROVE Through(q, sh, k)
  <2>1. k \in Nat /\ k < Len(jobs)
    BY <1>1, IndexOfAt
  <2>2. QED
    BY <1>1, <1>7, <2>1
<1>9. Places(q, sh)
  BY <1>3, <1>6, <1>7, <1>8 DEF Places, Proven
<1>10. ReviewGates(q) = {1}
  BY <1>2, <1>3 DEF ReviewGates
<1>11. DeployAsked(q)
  BY <1>2, <1>3, <1>10 DEF DeployAsked
<1>12. OneQuestion(q)
  BY <1>2, <1>3, <1>4 DEF OneQuestion
<1>13. ShipAsked(q)
  BY <1>2, <1>3, <1>4, <1>11 DEF ShipAsked, Undecided
<1>14. QED
  BY <1>9, <1>12, <1>13 DEF PlanInv, q, jobs, gates

-----------------------------------------------------------------------------
(* A job passed.                                                            *)

\* The order of the jobs outlives the inserted iteration.
LEMMA OrderAdvanced ==
  ASSUME NEW pl \in Pipeline, RunOrdered(pl), pl.jobIndex < Len(pl.jobs),
         NEW q, Onward(pl, pl.jobs[pl.jobIndex + 1], q)
  PROVE  /\ RunOrdered(q)
         /\ \A i \in 1..(pl.jobIndex + 1) : i \in DOMAIN q.jobs /\ q.jobs[i] = pl.jobs[i]
<1> DEFINE n == pl.jobIndex + 1
           job == pl.jobs[n]
<1>1. /\ pl.jobs \in Seq(Job) /\ Len(pl.jobs) \in Nat /\ n \in 1..Len(pl.jobs)
      /\ DOMAIN pl.jobs = 1..Len(pl.jobs)
  BY DEF Pipeline
<1>2. q \in Pipeline /\ q.jobs \in Seq(Job) /\ DOMAIN q.jobs = 1..Len(q.jobs)
  BY DEF Onward, Pipeline
<1> HIDE DEF n
<1>3. CASE q.jobs = pl.jobs
  <2>1. /\ q.iterationUsed = pl.iterationUsed \/ q.simulated = TRUE
        /\ q.iterationPending => q.iterationUsed
        /\ q.iterationUsed => q.simulated
        /\ q.iterationUsed => pl.iterationUsed \/ job = "SIMULATE"
    BY DEF Onward, RunOrdered, n
  <2>2. CASE q.iterationUsed = pl.iterationUsed
    BY <1>1, <1>3, <2>1, <2>2 DEF RunOrdered, n
  <2>3. CASE q.iterationUsed # pl.iterationUsed
    <3>1. job = "SIMULATE" /\ q.jobs = WithIteration([pl EXCEPT !.simulated = TRUE]).jobs
      BY <2>3 DEF Onward, n
    <3>2. Len(q.jobs) = Len(pl.jobs) + 2
      <4>1. PICK done : done = [pl EXCEPT !.simulated = TRUE]
        OBVIOUS
      <4>2. done \in Pipeline /\ done.jobs = pl.jobs
        BY <4>1 DEF Pipeline
      <4>3. Iterated(done, WithIteration(done)) /\ WithIteration(done).jobs = q.jobs
        BY <3>1, <4>1, <4>2, WithIterationJobs
      <4>4. QED
        BY <4>2, <4>3 DEF Iterated
    <3>3. QED
      BY <1>1, <1>3, <3>2
  <2>4. QED
    BY <2>2, <2>3
<1>4. CASE q.jobs # pl.jobs
  <2>1. /\ job = "SIMULATE" /\ q.simulated = TRUE /\ q.iterationUsed = TRUE
        /\ q.jobs = WithIteration([pl EXCEPT !.simulated = TRUE]).jobs
    BY <1>4 DEF Onward, n
  <2>2. /\ Len(q.jobs) = Len(pl.jobs) + 2
        /\ q.jobs[n + 1] = "ITERATE" /\ q.jobs[n + 2] = "L1/B5"
        /\ \A i \in 1..n : q.jobs[i] = pl.jobs[i]
        /\ \A i \in (n + 3)..Len(q.jobs) : q.jobs[i] = pl.jobs[i - 2]
    <3>1. PICK done : done = [pl EXCEPT !.simulated = TRUE]
      OBVIOUS
    <3>2. done \in Pipeline /\ done.jobs = pl.jobs /\ done.jobIndex = pl.jobIndex
      BY <3>1 DEF Pipeline
    <3> DEFINE w == WithIteration(done)
    <3>3. Iterated(done, w) /\ w.jobs = q.jobs
      BY <2>1, <3>1, <3>2, WithIterationJobs
    <3> HIDE DEF w
    <3>4. done.jobIndex < Len(done.jobs) /\ done.jobIndex + 1 = n
      BY <1>1, <3>2 DEF n
    <3>5. /\ Len(w.jobs) = Len(done.jobs) + 2
          /\ w.jobs[n + 1] = "ITERATE" /\ w.jobs[n + 2] = "L1/B5"
          /\ \A i \in 1..n : w.jobs[i] = done.jobs[i]
          /\ \A i \in (n + 3)..Len(w.jobs) : w.jobs[i] = done.jobs[i - 2]
      BY <3>3, <3>4 DEF Iterated
    <3>6. QED
      BY <3>2, <3>3, <3>5
  <2>3. pl.jobs[n] = "SIMULATE" /\ n \in DOMAIN pl.jobs
    BY <1>1, <2>1
  <2>4. \A k \in DOMAIN pl.jobs :
          (pl.jobs[k] = "SIMULATE" => k = n) /\ (pl.jobs[k] = "P3" => k > n)
    BY <2>3 DEF RunOrdered
  <2>5. \A i \in DOMAIN q.jobs :
          \/ i \in 1..n /\ i \in DOMAIN pl.jobs /\ q.jobs[i] = pl.jobs[i]
          \/ i = n + 1 /\ q.jobs[i] = "ITERATE"
          \/ i = n + 2 /\ q.jobs[i] = "L1/B5"
          \/ i \in (n + 3)..Len(q.jobs) /\ i - 2 \in DOMAIN pl.jobs /\ i - 2 > n
               /\ q.jobs[i] = pl.jobs[i - 2]
    <3>1. ASSUME NEW i \in DOMAIN q.jobs
          PROVE  \/ i \in 1..n /\ i \in DOMAIN pl.jobs
                 \/ i = n + 1 \/ i = n + 2
                 \/ i \in (n + 3)..Len(q.jobs) /\ i - 2 \in DOMAIN pl.jobs /\ i - 2 > n
      BY <1>1, <1>2, <2>2
    <3>2. QED
      BY <2>2, <3>1
  <2>6. \A i \in DOMAIN q.jobs : q.jobs[i] = "L0/P0" => i = 1
    <3>1. ASSUME NEW i \in DOMAIN q.jobs, q.jobs[i] = "L0/P0" PROVE i = 1
      <4>1. \/ i \in DOMAIN pl.jobs /\ q.jobs[i] = pl.jobs[i]
            \/ i - 2 \in DOMAIN pl.jobs /\ i - 2 > n /\ pl.jobs[i - 2] = "L0/P0"
        <5>1. q.jobs[i] # "ITERATE" /\ q.jobs[i] # "L1/B5"
          BY <3>1
        <5>2. QED
          BY <2>5, <3>1, <5>1
      <4>2. i - 2 \in DOMAIN pl.jobs /\ pl.jobs[i - 2] = "L0/P0" => i - 2 = 1
        BY DEF RunOrdered
      <4>3. QED
        BY <1>1, <3>1, <4>1, <4>2 DEF RunOrdered
    <3>2. QED
      BY <3>1
  <2>7. \A i \in DOMAIN q.jobs : q.jobs[i] = "P3" /\ i > 1 => q.jobs[i - 1] = "L1/B5"
    <3>1. ASSUME NEW i \in DOMAIN q.jobs, q.jobs[i] = "P3" PROVE q.jobs[i - 1] = "L1/B5"
      <4>1. /\ i \in (n + 3)..Len(q.jobs) /\ i - 2 \in DOMAIN pl.jobs /\ i - 2 > n
            /\ pl.jobs[i - 2] = "P3"
        BY <1>1, <2>4, <2>5, <3>1
      <4>2. CASE i = n + 3
        <5>1. i - 1 = n + 2
          BY <1>1, <4>2
        <5>2. QED
          BY <2>2, <5>1
      <4>3. CASE i # n + 3
        <5>1. /\ i - 1 \in (n + 3)..Len(q.jobs) /\ i - 2 > 1
              /\ i - 3 \in DOMAIN pl.jobs /\ i - 3 > n
              /\ (i - 1) - 2 = i - 3 /\ (i - 2) - 1 = i - 3
          <6>1. i \in Int /\ n \in Nat /\ n + 3 < i /\ Len(q.jobs) = Len(pl.jobs) + 2
                /\ i <= Len(q.jobs) /\ Len(pl.jobs) \in Nat /\ n >= 1
            BY <1>1, <2>2, <4>1, <4>3
          <6>2. i - 1 >= n + 3 /\ i - 1 <= Len(q.jobs) /\ i - 1 \in Int
                /\ i - 2 > 1 /\ i - 3 > n /\ i - 3 >= 1 /\ i - 3 <= Len(pl.jobs)
                /\ i - 3 \in Int
            BY <6>1
          <6>3. (i - 1) - 2 = i - 3 /\ (i - 2) - 1 = i - 3
            BY <6>1
          <6>4. i - 1 \in (n + 3)..Len(q.jobs)
            BY <6>1, <6>2
          <6>5. i - 3 \in DOMAIN pl.jobs
            BY <1>1, <6>2
          <6>6. QED
            BY <6>2, <6>3, <6>4, <6>5
        <5>2. q.jobs[i - 1] = pl.jobs[i - 3]
          BY <2>2, <5>1
        <5>3. pl.jobs[i - 3] \in {"L1/B5", "SIMULATE"}
          BY <4>1, <5>1 DEF RunOrdered
        <5>4. pl.jobs[i - 3] # "SIMULATE"
          BY <1>1, <2>4, <5>1
        <5>5. QED
          BY <5>2, <5>3, <5>4
      <4>4. QED
        BY <4>2, <4>3
    <3>2. QED
      BY <3>1
  <2>8. \A i \in DOMAIN q.jobs : q.jobs[i] = "SIMULATE" => i = n
    <3>1. ASSUME NEW i \in DOMAIN q.jobs, q.jobs[i] = "SIMULATE" PROVE i = n
      <4>1. \/ i \in DOMAIN pl.jobs /\ q.jobs[i] = pl.jobs[i]
            \/ i - 2 \in DOMAIN pl.jobs /\ i - 2 > n /\ pl.jobs[i - 2] = "SIMULATE"
        <5>1. q.jobs[i] # "ITERATE" /\ q.jobs[i] # "L1/B5"
          BY <3>1
        <5>2. QED
          BY <2>5, <3>1, <5>1
      <4>2. QED
        BY <1>1, <2>4, <3>1, <4>1
    <3>2. QED
      BY <3>1
  <2>9. \A i \in DOMAIN q.jobs : q.jobs[i] = "P3" => i > n
    BY <1>1, <2>4, <2>5
  <2>10. RunOrdered(q)
    BY <2>1, <2>6, <2>7, <2>8, <2>9 DEF RunOrdered
  <2>11. QED
    BY <1>1, <1>2, <2>2, <2>10 DEF n
<1>5. QED
  BY <1>3, <1>4

\* The place after a job that passed: everything before it is done, the ship asks first.
LEMMA PlaceAdvanced ==
  ASSUME NEW pl \in Pipeline, NEW sh, PlanInv(pl, sh), Pending(pl) = {},
         pl.jobIndex < Len(pl.jobs), NEW job \in Job, job = pl.jobs[pl.jobIndex + 1],
         IF job = "P3" THEN pl.run \in sh ELSE job \in pl.verified,
         NEW q, Onward(pl, job, q)
  PROVE  /\ RunOrdered(q) /\ Proven(q, sh, {q.currentJob, job})
         /\ q.currentJob = "P3" => GateAfter(q, job) = "deploy"
         /\ job = "L0/P0" => q.jobIndex = 1 /\ q.jobs # <<>> /\ q.jobs[1] = "L0/P0"
<1> DEFINE n == pl.jobIndex + 1
<1>1. /\ pl.jobs \in Seq(Job) /\ pl.jobIndex \in Nat /\ n \in DOMAIN pl.jobs
      /\ n \in Nat /\ n >= 1 /\ n - 1 = pl.jobIndex
  BY DEF Pipeline
<1>2. /\ q \in Pipeline /\ q.jobs \in Seq(Job) /\ q.jobIndex = n
      /\ q.currentJob = JobAt(q.jobs, n) /\ q.run = pl.run /\ q.verified = pl.verified
  BY DEF Onward, Pipeline
<1>3. RunOrdered(pl) /\ Through(pl, sh, pl.jobIndex) /\ (pl.simulated => "L0/P0" \notin Aims(pl))
  BY DEF PlanInv, Places, Proven
<1>4. /\ RunOrdered(q)
      /\ \A i \in 1..n : i \in DOMAIN q.jobs /\ q.jobs[i] = pl.jobs[i]
  BY <1>3, OrderAdvanced
<1>5. job = pl.jobs[n] /\ job = q.jobs[n] /\ n \in DOMAIN q.jobs
  BY <1>1, <1>4
<1>6. /\ pl.simulated => q.simulated
      /\ job = "SIMULATE" => q.simulated
      /\ job # "SIMULATE" => q.simulated = pl.simulated
  BY DEF Onward
<1> HIDE DEF n
<1>7. Through(q, sh, n)
  <2>1. ASSUME NEW i \in DOMAIN q.jobs, i <= n
        PROVE  /\ IF q.jobs[i] = "P3" THEN q.run \in sh ELSE q.jobs[i] \in q.verified
               /\ q.jobs[i] = "SIMULATE" => q.simulated
    <3>1. i \in 1..n /\ i \in DOMAIN pl.jobs
      BY <1>1, <1>2, <2>1
    <3>2. q.jobs[i] = pl.jobs[i]
      BY <1>4, <3>1
    <3>3. CASE i = n
      BY <1>2, <1>5, <1>6, <3>3
    <3>4. CASE i # n
      <4>1. i <= pl.jobIndex
        BY <1>1, <3>1, <3>4
      <4>2. QED
        BY <1>2, <1>3, <1>6, <3>1, <3>2, <4>1 DEF Through
    <3>5. QED
      BY <3>3, <3>4
  <2>2. QED
    BY <2>1 DEF Through
<1>8. ASSUME NEW a \in {q.currentJob, job}, NEW k \in IndexOf(q.jobs, a)
      PROVE  Through(q, sh, k)
  <2>1. k \in Nat /\ k <= n
    <3>1. k \in Nat
      BY <1>2, IndexOfAt
    <3>2. CASE a = q.currentJob
      <4>1. k \in IndexOf(q.jobs, JobAt(q.jobs, n))
        BY <1>2, <3>2
      <4>2. QED
        BY <1>1, <1>2, <3>1, <4>1, IndexOfJobAt
    <3>3. CASE a = job
      <4>1. \A m \in 1..k : q.jobs[m] # job
        BY <1>2, <3>3, IndexOfAt
      <4>2. n \notin 1..k
        BY <1>5, <4>1
      <4>3. QED
        BY <1>1, <3>1, <4>2
    <3>4. QED
      BY <3>1, <3>2, <3>3
  <2>2. QED
    BY <1>1, <1>2, <1>7, <2>1, ThroughLess
<1>9. job = "L0/P0" => n = 1 /\ q.simulated = FALSE
  <2>1. job = "L0/P0" => n = 1
    BY <1>1, <1>3, <1>5 DEF RunOrdered
  <2>2. job \in Aims(pl)
    <3>1. JobAt(pl.jobs, pl.jobIndex) = job
      BY <1>5 DEF JobAt, n
    <3>2. QED
      BY <3>1 DEF Aims
  <2>3. QED
    BY <1>2, <1>3, <1>6, <2>1, <2>2 DEF Pipeline
<1>10. q.currentJob # "L0/P0"
  <2>1. SUFFICES ASSUME JobAt(q.jobs, n) = "L0/P0" PROVE FALSE
    BY <1>2
  <2>2. n + 1 \in DOMAIN q.jobs /\ q.jobs[n + 1] = "L0/P0"
    BY <1>1, <1>2, <2>1, JobAtDomain DEF NoJob
  <2>3. n + 1 = 1
    BY <1>4, <2>2 DEF RunOrdered
  <2>4. QED
    BY <1>1, <2>3
<1>11. Proven(q, sh, {q.currentJob, job})
  BY <1>2, <1>7, <1>8, <1>9, <1>10 DEF Proven
<1>12. ASSUME q.currentJob = "P3" PROVE GateAfter(q, job) = "deploy"
  <2>1. n + 1 \in DOMAIN q.jobs /\ q.jobs[n + 1] = "P3"
    BY <1>1, <1>2, <1>12, JobAtDomain DEF NoJob
  <2>2. n + 1 > 1 /\ (n + 1) - 1 = n
    BY <1>1
  <2>3. q.jobs[n] = "L1/B5" \/ (q.jobs[n] = "SIMULATE" /\ ~q.iterationUsed)
    BY <1>4, <2>1, <2>2 DEF RunOrdered
  <2>4. CASE job = "SIMULATE" /\ ~q.iterationUsed
    BY <1>4, <2>4 DEF GateAfter, RunOrdered
  <2>5. CASE job = "L1/B5"
    <3>1. ASSUME NEW i \in DOMAIN q.jobs, q.jobs[i] = "SIMULATE" PROVE q.simulated
      <4>1. n + 1 > i
        BY <1>4, <2>1, <3>1 DEF RunOrdered
      <4>2. i <= n
        BY <1>1, <1>2, <4>1
      <4>3. QED
        BY <1>7, <3>1, <4>2 DEF Through
    <3>2. QED
      BY <2>5, <3>1 DEF GateAfter
  <2>6. QED
    BY <1>5, <2>3, <2>4, <2>5
<1>13. job = "L0/P0" => q.jobIndex = 1 /\ q.jobs # <<>> /\ q.jobs[1] = "L0/P0"
  <2>1. 1 \in DOMAIN q.jobs => q.jobs # <<>>
    OBVIOUS
  <2>2. QED
    BY <1>2, <1>5, <1>9, <2>1
<1>14. QED
  BY <1>4, <1>11, <1>12, <1>13

\* Only the passing of a check, a simulation or an iteration can ask for the deploy, and
\* only P0 is followed by its own gate.
LEMMA GateAfterFacts ==
  ASSUME NEW pl, NEW job
  PROVE  /\ job = "P3" => GateAfter(pl, job) = "none"
         /\ GateAfter(pl, job) = "p0-go" => job = "L0/P0"
         /\ GateAfter(pl, job) \notin {"blocked", "stopped", "server-restart"}
  BY DEF GateAfter

\* The review gate the passing of a job opens.
LEMMA ReviewPlan ==
  ASSUME NEW pl \in Pipeline, NEW sh, NotRefused(pl), Pending(pl) = {}, NEW job \in Job,
         \A g \in DOMAIN pl.gates : pl.gates[g].kind = "deploy" =>
           /\ pl.gates[g].decision \in {Undecided, "go", "kill"}
           /\ pl.gates[g].decision = "go" => pl.gates[g].decidedBy = "owner",
         RunOrdered(pl), Proven(pl, sh, {pl.currentJob, job}),
         pl.currentJob = JobAt(pl.jobs, pl.jobIndex),
         pl.currentJob = "P3" => GateAfter(pl, job) = "deploy",
         job = "L0/P0" => pl.jobIndex = 1 /\ pl.jobs # <<>> /\ pl.jobs[1] = "L0/P0",
         GateAfter(pl, job) # "none"
  PROVE  LET gate == NewGate(GateAfter(pl, job), job)
             q == AddGate(pl, "paused_gate", gate)
         IN  PlanInv(q, sh) /\ \A i \in Pending(q) : q.gates[i] = gate
<1> DEFINE kind == GateAfter(pl, job)
           gate == NewGate(kind, job)
           q == AddGate(pl, "paused_gate", gate)
           n == Len(pl.gates) + 1
<1>1. kind \in GateKinds
  BY GateAfterType
<1>2. /\ kind \notin {"blocked", "stopped", "server-restart"} /\ job # "P3"
      /\ kind = "p0-go" => job = "L0/P0"
  BY GateAfterFacts
<1> HIDE DEF kind
<1>3. gate \in Gate /\ gate.decision = Undecided /\ gate.kind = kind /\ gate.afterJob = job
  BY <1>1, NewGateType DEF NewGate
<1>4. "paused_gate" \in Status
  BY DEF Status
<1> HIDE DEF gate
<1>5. /\ q \in Pipeline
      /\ n \in Nat /\ DOMAIN q.gates = DOMAIN pl.gates \cup {n} /\ q.gates[n] = gate
      /\ \A i \in DOMAIN pl.gates : i \in Nat /\ i < n /\ q.gates[i] = pl.gates[i]
      /\ Pending(q) = {n}
      /\ q = [pl EXCEPT !.status = "paused_gate", !.gates = q.gates]
  <2>1. GateAdded(pl, "paused_gate", gate, q)
    BY <1>3, <1>4, AddGateGates
  <2> HIDE DEF q
  <2>2. QED
    BY <2>1 DEF GateAdded
<1> HIDE DEF q, n
<1>6. /\ q.jobs = pl.jobs /\ q.run = pl.run /\ q.simulated = pl.simulated
      /\ q.iterationUsed = pl.iterationUsed /\ q.iterationPending = pl.iterationPending
      /\ q.verified = pl.verified /\ q.jobIndex = pl.jobIndex
      /\ q.currentJob = pl.currentJob /\ q.status = "paused_gate"
  BY <1>5 DEF Pipeline
<1>7. Aims(q) = {pl.currentJob, job}
  BY <1>3, <1>5, <1>6 DEF Aims
<1>8. Places(q, sh)
  BY <1>5, <1>6, <1>7, PlacesKept
<1>9. OneQuestion(q)
  BY <1>2, <1>3, <1>5, <1>6 DEF OneQuestion
<1>10. n \in ReviewGates(q) /\ \A k \in ReviewGates(q) : k <= n
  BY <1>2, <1>3, <1>5 DEF ReviewGates
<1>11. ShipAsked(q)
  <2>1. "P3" \in Aims(q) => DeployAsked(q)
    BY <1>2, <1>3, <1>5, <1>7, <1>10 DEF DeployAsked, kind
  <2>2. NotRefused(q)
    BY <1>3, <1>5 DEF NotRefused, Undecided
  <2>3. ASSUME NEW g \in DOMAIN q.gates, q.gates[g].kind = "deploy"
        PROVE  /\ q.gates[g].decision \in {Undecided, "go", "kill"}
               /\ q.gates[g].decision = "go" => q.gates[g].decidedBy = "owner"
    <3>1. CASE g = n
      BY <1>3, <1>5, <3>1 DEF Undecided
    <3>2. CASE g # n
      BY <1>5, <2>3, <3>2
    <3>3. QED
      BY <3>1, <3>2
  <2>4. QED
    BY <2>1, <2>2, <2>3 DEF ShipAsked
<1>12. QED
  BY <1>5, <1>8, <1>9, <1>11 DEF PlanInv, q, gate, kind

-----------------------------------------------------------------------------
(* Steps of an orderly run.                                                 *)

Orders == PlanInv(pipeline, shipped) /\ LoopOrdered /\ ShipsOnFreshGo

\* The loop lets go: nothing more is said of it.
LEMMA LoopGone ==
  ASSUME PlanInv(pipeline', shipped'), loop'.pc = "idle"
  PROVE  Orders'
  BY DEF Orders, LoopOrdered, ShipsOnFreshGo

\* The loop is back at its head.
LEMMA LoopBack ==
  ASSUME PlanInv(pipeline', shipped'), loop'.pc = "head",
         Pending(pipeline') = {}, NotRefused(pipeline'), pipeline'.status = "running"
  PROVE  Orders'
  BY DEF Orders, LoopOrdered, ShipsOnFreshGo

\* The loop keeps its job: the record keeps its gates and its place.
LEMMA LoopWorks ==
  ASSUME Orders, loop.pc \notin {"idle", "head", "automatic"},
         pipeline \in Pipeline, pipeline' \in Pipeline,
         pipeline'.jobs = pipeline.jobs, pipeline'.run = pipeline.run,
         pipeline'.simulated = pipeline.simulated,
         pipeline'.iterationUsed = pipeline.iterationUsed,
         pipeline'.iterationPending = pipeline.iterationPending,
         pipeline.verified \subseteq pipeline'.verified, shipped \subseteq shipped',
         pipeline'.jobIndex = pipeline.jobIndex, pipeline'.gates = pipeline.gates,
         pipeline'.currentJob \in {pipeline.currentJob, NoJob},
         pipeline'.status \in {pipeline.status, "killed"},
         loop'.run = loop.run, loop'.job = loop.job,
         loop'.pc \in SyncPoints \cup AwaitPoints,
         loop'.pc \notin {"idle", "head", "automatic"},
         loop'.pc \in {"passed", "review", "reviewVerify", "advance"} =>
           \/ loop.pc \in {"passed", "review", "reviewVerify", "advance"}
           \/ IF loop.job = "P3" THEN pipeline.run \in shipped'
              ELSE loop.job \in pipeline'.verified,
         loop'.pc \in {"pick", "prompt", "exec", "verify"} =>
           loop.pc \in {"pick", "prompt", "exec", "verify"},
         loop'.pc = "deploy" => loop.pc = "deploy"
  PROVE  Orders'
<1>1. /\ Pending(pipeline') = Pending(pipeline) /\ ReviewGates(pipeline') = ReviewGates(pipeline)
      /\ NotRefused(pipeline') <=> NotRefused(pipeline)
  BY DEF Pending, ReviewGates, NotRefused
<1>2. /\ Pending(pipeline) = {} /\ NotRefused(pipeline)
      /\ pipeline.status \in {"running", "killed"} /\ AtWork
  BY DEF Orders, LoopOrdered
<1>3. PlanInv(pipeline', shipped')
  BY <1>2, KeptPlan DEF Orders
<1>4. AtWork'
  BY <1>2 DEF AtWork, OwnRun
<1>5. loop'.pc \in {"passed", "review", "reviewVerify", "advance"} => WorkDone'
  BY DEF Orders, LoopOrdered, WorkDone
<1>6. LoopOrdered'
  BY <1>1, <1>2, <1>4, <1>5 DEF Orders, LoopOrdered
<1>7. ShipsOnFreshGo'
  BY <1>1 DEF Orders, ShipsOnFreshGo, OwnRun
<1>8. QED
  BY <1>3, <1>6, <1>7 DEF Orders

\* Where the steps that leave the record alone take the loop.
LEMMA Moves ==
  ASSUME loop \in Loop, loop'.pc # "idle",
         \/ PlayerPicked \/ PlayersExhausted \/ PromptReady \/ ExecutorExits \/ VerifyFails
         \/ DeploySucceeds \/ DeployFails \/ JobPassed \/ ReviewEnds \/ ReviewVerified
         \/ ResultDropped
  PROVE  /\ loop'.run = loop.run /\ loop'.job = loop.job
         /\ loop'.pc \in {"prompt", "failed", "exec", "verify", "pick", "passed", "advance",
                          "review", "reviewVerify"}
         /\ loop'.pc \in {"passed", "review", "reviewVerify", "advance"} =>
              loop.pc \in {"passed", "review", "reviewVerify", "advance"} \/ DeploySucceeds
         /\ loop'.pc \in {"pick", "prompt", "exec", "verify"} =>
              loop.pc \in {"pick", "prompt", "exec", "verify"}
<1>1. CASE PlayerPicked
  BY <1>1 DEF PlayerPicked, Loop
<1>2. CASE PlayersExhausted
  BY <1>2 DEF PlayersExhausted, Goto, Loop
<1>3. CASE PromptReady
  BY <1>3 DEF PromptReady, Goto, Loop
<1>4. CASE ExecutorExits
  BY <1>4 DEF ExecutorExits, Goto, Loop
<1>5. CASE VerifyFails
  BY <1>5 DEF VerifyFails, Loop
<1>6. CASE DeploySucceeds
  BY <1>6 DEF DeploySucceeds, Goto, Loop
<1>7. CASE DeployFails
  BY <1>7 DEF DeployFails, Goto, Loop
<1>8. CASE JobPassed
  <2>1. loop.pc = "passed"
        /\ loop' \in {Idle, [loop EXCEPT !.pc = "advance"], [loop EXCEPT !.pc = "review"]}
    BY <1>8 DEF JobPassed, Goto
  <2>2. loop' # Idle
    BY DEF Idle
  <2>3. QED
    BY <2>1, <2>2 DEF Loop
<1>9. CASE ReviewEnds
  BY <1>9 DEF ReviewEnds, Goto, Loop
<1>10. CASE ReviewVerified
  BY <1>10 DEF ReviewVerified, Goto, Loop
<1>11. CASE ResultDropped
  BY <1>11 DEF ResultDropped, Idle, Loop
<1>12. QED
  BY <1>1, <1>2, <1>3, <1>4, <1>5, <1>6, <1>7, <1>8, <1>9, <1>10, <1>11

LEMMA LoopOrders == Orderly /\ IInv /\ Orders /\ LoopStep => Orders'
<1> SUFFICES ASSUME Orderly, IInv, Orders, LoopStep PROVE Orders'
  OBVIOUS
<1>0. /\ pipeline \in Pipeline /\ loop \in Loop /\ shipped \subseteq Nat /\ LoopLocals
      /\ PlanInv(pipeline, shipped)
  BY DEF IInv, TypeOK, Orders
<1>a. pipeline' \in Pipeline /\ shipped' \subseteq Nat /\ loop' \in Loop
  <2>1. IInv'
    BY LoopStepKeeps
  <2>2. QED
    BY <2>1 DEF IInv, TypeOK
<1>b. loop.pc \notin {"idle", "automatic"} =>
        /\ Pending(pipeline) = {} /\ NotRefused(pipeline)
        /\ pipeline.status \in {"running", "killed"}
  BY DEF Orders, LoopOrdered
<1>c. loop.pc \notin {"idle", "head", "automatic"} => AtWork
  BY DEF Orders, LoopOrdered
<1>1. CASE LoopFinishes \/ LoopThrows
  <2>1. /\ pipeline'.jobs = pipeline.jobs /\ pipeline'.run = pipeline.run
        /\ pipeline'.simulated = pipeline.simulated
        /\ pipeline'.iterationUsed = pipeline.iterationUsed
        /\ pipeline'.iterationPending = pipeline.iterationPending
        /\ pipeline'.verified = pipeline.verified /\ shipped' = shipped
        /\ pipeline'.jobIndex = pipeline.jobIndex /\ pipeline'.gates = pipeline.gates
        /\ pipeline'.currentJob \in {pipeline.currentJob, NoJob}
        /\ pipeline'.status \in {"done", "error"} /\ loop'.pc = "idle"
    <3>1. CASE LoopFinishes
      BY <1>0, <3>1 DEF LoopFinishes, Finished, Pipeline, Idle
    <3>2. CASE LoopThrows
      BY <1>0, <3>2 DEF LoopThrows, Pipeline, Idle
    <3>3. QED
      BY <1>1, <3>1, <3>2
  <2>2. NotRefused(pipeline)
    BY <1>1, <1>b DEF LoopFinishes, LoopThrows
  <2>3. PlanInv(pipeline', shipped')
    BY <1>0, <1>a, <2>1, <2>2, KeptPlan
  <2>4. QED
    BY <2>1, <2>3, LoopGone
<1>2. CASE ReportMissing
  BY <1>2, <1>c DEF ReportMissing, AtWork
<1>3. CASE JobStarts
  <2> DEFINE job == pipeline.jobs[pipeline.jobIndex + 1]
  <2>1. pipeline' = [pipeline EXCEPT !.currentJob = job] /\ shipped' = shipped
        /\ pipeline.status = "running" /\ pipeline.jobIndex < Len(pipeline.jobs)
        /\ Pending(pipeline) = {} /\ NotRefused(pipeline)
    BY <1>3, <1>b DEF JobStarts
  <2>2. PICK pc \in IF job = "P3" THEN {"deploy", "failed"} ELSE {"pick"} :
          loop' = [Idle EXCEPT !.pc = pc, !.run = pipeline.run, !.job = job]
    BY <1>3 DEF JobStarts
  <2>3. job = JobAt(pipeline.jobs, pipeline.jobIndex)
    BY <2>1 DEF JobAt
  <2>4. loop'.run = pipeline.run /\ loop'.job = job /\ loop'.pc = pc
    BY <2>2 DEF Idle
  <2>5. /\ pipeline'.jobs = pipeline.jobs /\ pipeline'.run = pipeline.run
        /\ pipeline'.simulated = pipeline.simulated
        /\ pipeline'.iterationUsed = pipeline.iterationUsed
        /\ pipeline'.iterationPending = pipeline.iterationPending
        /\ pipeline'.verified = pipeline.verified
        /\ pipeline'.jobIndex = pipeline.jobIndex /\ pipeline'.gates = pipeline.gates
        /\ pipeline'.currentJob = job /\ pipeline'.status = "running"
    BY <1>0, <2>1 DEF Pipeline
  <2>6. PlanInv(pipeline', shipped')
    BY <1>0, <1>a, <2>1, <2>3, <2>5, KeptPlan
  <2>7. Pending(pipeline') = {} /\ NotRefused(pipeline')
    BY <2>1, <2>5 DEF Pending, NotRefused
  <2>8. AtWork'
    BY <2>1, <2>4, <2>5 DEF AtWork, OwnRun
  <2>9. pc \in {"deploy", "failed", "pick"} /\ (pc = "deploy" => job = "P3")
        /\ (pc = "pick" => job # "P3")
    BY <2>2
  <2>10. LoopOrdered'
    BY <2>4, <2>5, <2>7, <2>8, <2>9 DEF LoopOrdered
  <2>11. ASSUME pc = "deploy" PROVE ShipsOnFreshGo'
    <3>1. "P3" \in Aims(pipeline')
      BY <2>5, <2>9, <2>11 DEF Aims
    <3>2. PICK i \in ReviewGates(pipeline') :
            (\A k \in ReviewGates(pipeline') : k <= i) /\ pipeline'.gates[i].kind = "deploy"
      BY <2>6, <3>1 DEF PlanInv, ShipAsked, DeployAsked
    <3>3. i \in DOMAIN pipeline'.gates
      BY DEF ReviewGates
    <3>4. pipeline'.gates[i].decision \notin {Undecided, "kill"}
      BY <2>7, <3>2, <3>3 DEF Pending, NotRefused
    <3>5. pipeline'.gates[i].decision = "go" /\ pipeline'.gates[i].decidedBy = "owner"
      BY <2>6, <3>2, <3>3, <3>4 DEF PlanInv, ShipAsked
    <3>6. QED
      BY <3>2, <3>5 DEF ShipsOnFreshGo
  <2>12. ShipsOnFreshGo'
    BY <2>4, <2>11 DEF ShipsOnFreshGo
  <2>13. QED
    BY <2>6, <2>10, <2>12 DEF Orders
<1>4. CASE PlayerPicked \/ PlayersExhausted \/ PromptReady \/ ExecutorExits \/ VerifyFails
             \/ DeploySucceeds \/ DeployFails \/ JobPassed \/ ReviewEnds \/ ReviewVerified
             \/ ResultDropped
  <2>1. pipeline' = pipeline /\ shipped \subseteq shipped'
    BY <1>4 DEF PlayerPicked, PlayersExhausted, PromptReady, ExecutorExits, VerifyFails,
      DeploySucceeds, DeployFails, JobPassed, ReviewEnds, ReviewVerified, ResultDropped
  <2>2. loop.pc \notin {"idle", "head", "automatic"}
    BY <1>4 DEF PlayerPicked, PlayersExhausted, PromptReady, ExecutorExits, VerifyFails,
      DeploySucceeds, DeployFails, JobPassed, ReviewEnds, ReviewVerified, ResultDropped
  <2>3. CASE loop'.pc = "idle"
    <3>1. PlanInv(pipeline', shipped')
      BY <1>0, <2>1, <2>2, <1>b, KeptPlan
    <3>2. QED
      BY <2>3, <3>1, LoopGone
  <2>4. CASE loop'.pc # "idle"
    <3>1. /\ loop'.run = loop.run /\ loop'.job = loop.job
          /\ loop'.pc \in {"prompt", "failed", "exec", "verify", "pick", "passed", "advance",
                           "review", "reviewVerify"}
          /\ loop'.pc \in {"passed", "review", "reviewVerify", "advance"} =>
               loop.pc \in {"passed", "review", "reviewVerify", "advance"} \/ DeploySucceeds
          /\ loop'.pc \in {"pick", "prompt", "exec", "verify"} =>
               loop.pc \in {"pick", "prompt", "exec", "verify"}
      BY <1>0, <1>4, <2>4, Moves
    <3>2. loop'.pc \in {"passed", "review", "reviewVerify", "advance"} =>
            \/ loop.pc \in {"passed", "review", "reviewVerify", "advance"}
            \/ IF loop.job = "P3" THEN pipeline.run \in shipped'
               ELSE loop.job \in pipeline'.verified
      <4>1. CASE DeploySucceeds
        <5>1. loop.job = "P3" /\ OwnRun
          BY <4>1, <1>c DEF DeploySucceeds, Orders, LoopOrdered, AtWork
        <5>2. QED
          BY <4>1, <5>1 DEF DeploySucceeds, OwnRun
      <4>2. QED
        BY <3>1, <4>1
    <3>3. loop'.pc \in SyncPoints \cup AwaitPoints
      BY <3>1 DEF SyncPoints, AwaitPoints
    <3>4. pipeline.currentJob \in {pipeline.currentJob, NoJob}
      OBVIOUS
    <3>5. QED
      BY <1>0, <2>1, <2>2, <3>1, <3>2, <3>3, <3>4, LoopWorks
  <2>5. QED
    BY <2>3, <2>4
<1>5. CASE ExecutorRateLimited \/ VerifyPasses
  <2>1. /\ pipeline'.jobs = pipeline.jobs /\ pipeline'.run = pipeline.run
        /\ pipeline'.simulated = pipeline.simulated
        /\ pipeline'.iterationUsed = pipeline.iterationUsed
        /\ pipeline'.iterationPending = pipeline.iterationPending
        /\ pipeline.verified \subseteq pipeline'.verified /\ shipped' = shipped
        /\ pipeline'.jobIndex = pipeline.jobIndex /\ pipeline'.gates = pipeline.gates
        /\ pipeline'.currentJob = pipeline.currentJob
        /\ pipeline'.status = pipeline.status
        /\ VerifyPasses /\ OwnRun => loop.job \in pipeline'.verified
    <3>1. CASE ExecutorRateLimited /\ ~VerifyPasses
      BY <1>0, <3>1 DEF ExecutorRateLimited, Pipeline
    <3>2. CASE VerifyPasses
      <4>1. PICK conditional \in BOOLEAN :
              pipeline' = LET noted == Noting(pipeline, conditional) IN
                          IF OwnRun
                          THEN [noted EXCEPT !.verified = noted.verified \cup {loop.job}]
                          ELSE noted
        BY <3>2 DEF VerifyPasses
      <4>2. QED
        BY <1>0, <3>2, <4>1 DEF VerifyPasses, Noting, Pipeline
    <3>3. QED
      BY <1>5, <3>1, <3>2
  <2>2. /\ loop.pc \in {"exec", "verify"} /\ loop'.run = loop.run /\ loop'.job = loop.job
        /\ loop'.pc = IF VerifyPasses THEN "passed" ELSE "pick"
    BY <1>0, <1>5 DEF ExecutorRateLimited, VerifyPasses, Goto, Loop
  <2>3. loop.job # "P3" /\ OwnRun
    BY <2>2, <1>c DEF Orders, LoopOrdered, AtWork
  <2>4. QED
    BY <1>0, <1>a, <2>1, <2>2, <2>3, LoopWorks DEF SyncPoints, AwaitPoints
<1>6. CASE JobAdvances
  <2>1. /\ loop.pc = "advance" /\ pipeline.status = "running" /\ shipped' = shipped
        /\ loop.job \in Job
    BY <1>0, <1>6 DEF JobAdvances, LoopLocals
  <2>2. /\ Pending(pipeline) = {} /\ NotRefused(pipeline) /\ OwnRun
        /\ pipeline.jobIndex < Len(pipeline.jobs)
        /\ loop.job = pipeline.jobs[pipeline.jobIndex + 1]
        /\ IF loop.job = "P3" THEN pipeline.run \in shipped ELSE loop.job \in pipeline.verified
    BY <2>1, <1>b, <1>c DEF Orders, LoopOrdered, AtWork, WorkDone
  <2>3. PICK next \in AfterJob(pipeline, loop.job) :
          LET kind == GateAfter(next, loop.job)
              gate == NewGate(kind, loop.job)
          IN  \/ /\ kind # "none"
                 /\ pipeline' = AddGate(next, "paused_gate", gate)
                 /\ \E answer \in AutomaticAnswers(next, gate) :
                      loop' = IF answer = "none" THEN Idle
                              ELSE [loop EXCEPT !.pc = "automatic", !.answer = answer]
              \/ /\ kind = "none"
                 /\ pipeline' = [next EXCEPT !.status = "paused_control"]
                 /\ loop' = Idle
              \/ /\ kind = "none"
                 /\ pipeline' = next
                 /\ loop' = AtHead
    BY <1>6 DEF JobAdvances
  <2> DEFINE kind == GateAfter(next, loop.job)
             gate == NewGate(kind, loop.job)
  <2>4. Onward(pipeline, loop.job, next)
    BY <1>0, <2>1, AfterJobFacts
  <2>5. /\ next \in Pipeline /\ next.gates = pipeline.gates /\ next.status = "running"
        /\ next.controlMode = pipeline.controlMode
        /\ next.currentJob = JobAt(next.jobs, next.jobIndex)
    BY <2>1, <2>4 DEF Onward
  <2>6. Pending(next) = {} /\ NotRefused(next)
    BY <2>2, <2>5 DEF Pending, NotRefused
  <2>7. /\ RunOrdered(next) /\ Proven(next, shipped, {next.currentJob, loop.job})
        /\ next.currentJob = "P3" => kind = "deploy"
        /\ loop.job = "L0/P0" => next.jobIndex = 1 /\ next.jobs # <<>> /\ next.jobs[1] = "L0/P0"
    BY <1>0, <2>1, <2>2, <2>4, PlaceAdvanced
  <2>8. \A g \in DOMAIN next.gates : next.gates[g].kind = "deploy" =>
          /\ next.gates[g].decision \in {Undecided, "go", "kill"}
          /\ next.gates[g].decision = "go" => next.gates[g].decidedBy = "owner"
    BY <1>0, <2>5 DEF PlanInv, ShipAsked
  <2>9. CASE /\ kind # "none"
             /\ pipeline' = AddGate(next, "paused_gate", gate)
             /\ \E answer \in AutomaticAnswers(next, gate) :
                  loop' = IF answer = "none" THEN Idle
                          ELSE [loop EXCEPT !.pc = "automatic", !.answer = answer]
    <3>1. PlanInv(pipeline', shipped) /\ \A i \in Pending(pipeline') : pipeline'.gates[i] = gate
      BY <2>1, <2>5, <2>6, <2>7, <2>8, <2>9, ReviewPlan
    <3>2. pipeline'.controlMode = next.controlMode
      BY <2>5, <2>9 DEF AddGate, Pipeline
    <3>3. PICK answer \in AutomaticAnswers(next, gate) :
            loop' = IF answer = "none" THEN Idle
                    ELSE [loop EXCEPT !.pc = "automatic", !.answer = answer]
      BY <2>9
    <3>4. CASE answer = "none"
      BY <2>1, <3>1, <3>3, <3>4, LoopGone DEF Idle
    <3>5. CASE answer # "none"
      <4>1. loop'.pc = "automatic" /\ loop'.answer = answer
        BY <1>0, <3>3, <3>5 DEF Loop
      <4>2. AutomaticAnswers(pipeline', gate) = AutomaticAnswers(next, gate)
        BY <3>2 DEF AutomaticAnswers
      <4>3. LoopOrdered' /\ ShipsOnFreshGo'
        BY <3>1, <3>5, <4>1, <4>2 DEF LoopOrdered, ShipsOnFreshGo
      <4>4. QED
        BY <2>1, <3>1, <4>3 DEF Orders
    <3>6. QED
      BY <3>4, <3>5
  <2>10. CASE kind = "none" /\ \/ pipeline' = [next EXCEPT !.status = "paused_control"] /\ loop' = Idle
                               \/ pipeline' = next /\ loop' = AtHead
    <3>1. /\ pipeline'.jobs = next.jobs /\ pipeline'.run = next.run
          /\ pipeline'.simulated = next.simulated
          /\ pipeline'.iterationUsed = next.iterationUsed
          /\ pipeline'.iterationPending = next.iterationPending
          /\ pipeline'.verified = next.verified /\ pipeline'.jobIndex = next.jobIndex
          /\ pipeline'.gates = next.gates /\ pipeline'.currentJob = next.currentJob
      BY <2>5, <2>10 DEF Pipeline
    <3>2. Pending(pipeline') = {} /\ NotRefused(pipeline')
      BY <2>6, <3>1 DEF Pending, NotRefused
    <3>3. Aims(pipeline') = {next.currentJob}
      BY <2>5, <3>1, <3>2 DEF Aims
    <3>4. Places(pipeline', shipped)
      BY <1>a, <2>5, <2>7, <3>1, <3>3, PlacesKept
    <3>5. "P3" \notin Aims(pipeline')
      BY <2>7, <2>10, <3>3
    <3>6. OneQuestion(pipeline')
      BY <3>2 DEF OneQuestion
    <3>7. ShipAsked(pipeline')
      BY <2>8, <3>1, <3>2, <3>5 DEF ShipAsked
    <3>8. PlanInv(pipeline', shipped')
      BY <2>1, <3>4, <3>6, <3>7 DEF PlanInv
    <3>9. CASE loop' = Idle
      BY <3>8, <3>9, LoopGone DEF Idle
    <3>10. CASE pipeline' = next /\ loop' = AtHead
      BY <2>5, <3>2, <3>8, <3>10, LoopBack DEF AtHead, Idle
    <3>11. QED
      BY <2>10, <3>9, <3>10
  <2>11. QED
    BY <2>3, <2>9, <2>10
<1>7. CASE AutomaticDecision
  <2>1. loop.answer \in Answers /\ loop.pc = "automatic" /\ shipped' = shipped
        /\ loop' = AtHead
    BY <1>0, <1>7 DEF AutomaticDecision, LoopLocals
  <2>2. PICK i \in Pending(pipeline) :
          pipeline' \in Decided(pipeline, i, loop.answer, "orchestrator")
    BY <1>7 DEF AutomaticDecision, Decidable
  <2>3. loop.answer \in AutomaticAnswers(pipeline, pipeline.gates[i]) \ {"none"}
    BY <2>1 DEF Orders, LoopOrdered
  <2>4. pipeline.gates[i].kind # "deploy" /\ loop.answer # "kill"
    BY <2>3 DEF AutomaticAnswers
  <2>5. PlanInv(pipeline', shipped) /\ Pending(pipeline') = {} /\ NotRefused(pipeline')
    BY <1>0, <2>1, <2>2, <2>4, DecidedPlan
  <2>6. pipeline'.status = "running"
    BY <1>0, <2>1, <2>2, <2>4, DecidedType DEF Pending
  <2>7. QED
    BY <2>1, <2>5, <2>6, LoopBack DEF AtHead, Idle
<1>8. CASE JobFailed
  <2>1. loop.pc = "failed" /\ loop'.pc = "idle" /\ shipped' = shipped
    BY <1>8 DEF JobFailed, Idle
  <2>2. /\ Pending(pipeline) = {} /\ NotRefused(pipeline)
        /\ loop.job = JobAt(pipeline.jobs, pipeline.jobIndex)
    BY <2>1, <1>b, <1>c DEF AtWork, JobAt
  <2>3. CASE pipeline' = pipeline
    BY <1>0, <2>1, <2>3, LoopGone
  <2>4. CASE pipeline' = AddGate(pipeline, "blocked", NewGate("blocked", loop.job))
    <3>1. loop.job \in Aims(pipeline)
      BY <2>2 DEF Aims
    <3>2. QED
      BY <1>0, <2>1, <2>2, <2>4, <3>1, RecoveryPlan, LoopGone
  <2>5. QED
    BY <1>8, <2>3, <2>4 DEF JobFailed
<1>9. QED
  BY <1>1, <1>2, <1>3, <1>4, <1>5, <1>6, <1>7, <1>8 DEF LoopStep

LEMMA CommandOrders == Orderly /\ IInv /\ Orders /\ Command => Orders'
<1> SUFFICES ASSUME Orderly, IInv, Orders, Command PROVE Orders'
  OBVIOUS
<1>0. /\ pipeline \in Pipeline /\ loop \in Loop /\ shipped \subseteq Nat /\ LoopLocals
      /\ PlanInv(pipeline, shipped) /\ pipeline.run \in Nat
      /\ pipeline.status = "running" => loop.pc # "idle"
  BY DEF IInv, TypeOK, Orders, Pipeline, RunningHasLoop
<1>a. pipeline' \in Pipeline /\ shipped' \subseteq Nat /\ loop' \in Loop
  <2>1. IInv'
    BY CommandKeeps
  <2>2. QED
    BY <2>1 DEF IInv, TypeOK
<1>b. loop.pc \notin {"idle", "automatic"} =>
        /\ Pending(pipeline) = {} /\ NotRefused(pipeline)
        /\ pipeline.status \in {"running", "killed"}
  BY DEF Orders, LoopOrdered
<1>1. ASSUME NEW jobs \in Seq(Job), NEW mode \in Modes, NEW auto \in BOOLEAN,
             Starts(jobs, mode, auto),
             \A i \in DOMAIN jobs : jobs[i] = "L0/P0" => i = 1,
             \A i \in DOMAIN jobs : jobs[i] = "P3" =>
               i > 1 /\ jobs[i - 1] \in {"L1/B5", "SIMULATE"},
             \A i, k \in DOMAIN jobs : jobs[i] = "SIMULATE" =>
               (jobs[k] = "SIMULATE" => k = i) /\ (jobs[k] = "P3" => k > i)
      PROVE  Orders'
  <2>1. loop.pc = "idle" /\ shipped' = shipped
    BY <1>1 DEF Starts, Starting, Orderly
  <2>2. loop' = AtHead
    BY <1>1, <2>1 DEF Starts, Advance
  <2>3. pipeline' = Fresh(pipeline.run + 1, "running", jobs, <<>>, mode, auto)
        /\ pipeline.run + 1 \in Nat /\ mode \in ControlModes
    BY <1>0, <1>1, OptionsAssumption DEF Starts
  <2>4. PlanInv(pipeline', shipped')
    BY <1>1, <2>3, FreshPlan
  <2>5. pipeline'.status = "running" /\ pipeline'.gates = <<>>
    BY <2>3 DEF Fresh
  <2>6. Pending(pipeline') = {} /\ NotRefused(pipeline')
    BY <2>5 DEF Pending, NotRefused
  <2>7. QED
    BY <2>2, <2>4, <2>5, <2>6, LoopBack DEF AtHead, Idle
<1>2. CASE Start
  <2>1. PICK jobs \in StartPlans, mode \in Modes, auto \in AutoCapability :
          Starts(jobs, mode, auto)
    BY <1>2 DEF Start
  <2>2. jobs \in Seq(Job) /\ auto \in BOOLEAN /\ Ordered(jobs)
    BY PlansAssumption, OrderAssumption
  <2>3. /\ \A i \in DOMAIN jobs : jobs[i] = "L0/P0" => i = 1
        /\ \A i \in DOMAIN jobs : jobs[i] = "P3" =>
             i > 1 /\ jobs[i - 1] \in {"L1/B5", "SIMULATE"}
        /\ \A i, k \in DOMAIN jobs : jobs[i] = "SIMULATE" =>
             (jobs[k] = "SIMULATE" => k = i) /\ (jobs[k] = "P3" => k > i)
    BY <2>2 DEF Ordered
  <2>4. QED
    BY <1>1, <2>1, <2>2, <2>3
<1>3. CASE StartFeedback
  <2> DEFINE jobs == <<"ITERATE", "L1/B5", "P3">>
  <2>1. jobs \in Seq(Job) /\ DOMAIN jobs = {1, 2, 3}
        /\ jobs[1] = "ITERATE" /\ jobs[2] = "L1/B5" /\ jobs[3] = "P3"
    BY DEF Job
  <2>2. PICK mode \in Modes : Starts(jobs, mode, FALSE)
    BY <1>3 DEF StartFeedback
  <2> HIDE DEF jobs
  <2>3. /\ \A i \in DOMAIN jobs : jobs[i] = "L0/P0" => i = 1
        /\ \A i, k \in DOMAIN jobs : jobs[i] = "SIMULATE" =>
             (jobs[k] = "SIMULATE" => k = i) /\ (jobs[k] = "P3" => k > i)
    BY <2>1
  <2>4. \A i \in DOMAIN jobs : jobs[i] = "P3" =>
          i > 1 /\ jobs[i - 1] \in {"L1/B5", "SIMULATE"}
    <3>1. ASSUME NEW i \in DOMAIN jobs, jobs[i] = "P3"
          PROVE  i > 1 /\ jobs[i - 1] \in {"L1/B5", "SIMULATE"}
      <4>1. i = 3
        BY <2>1, <3>1
      <4>2. i > 1 /\ i - 1 = 2
        BY <4>1
      <4>3. QED
        BY <2>1, <4>2
    <3>2. QED
      BY <3>1
  <2>5. QED
    BY <1>1, <2>1, <2>2, <2>3, <2>4
<1>4. CASE StartSimulation
  <2> DEFINE jobs == <<"SIMULATE", "P3">>
  <2>1. jobs \in Seq(Job) /\ DOMAIN jobs = {1, 2} /\ jobs[1] = "SIMULATE" /\ jobs[2] = "P3"
    BY DEF Job
  <2>2. PICK mode \in Modes : Starts(jobs, mode, FALSE)
    BY <1>4 DEF StartSimulation
  <2> HIDE DEF jobs
  <2>3. \A i \in DOMAIN jobs : jobs[i] = "L0/P0" => i = 1
    BY <2>1
  <2>4. ASSUME NEW i \in DOMAIN jobs, NEW k \in DOMAIN jobs, jobs[i] = "SIMULATE"
        PROVE  (jobs[k] = "SIMULATE" => k = i) /\ (jobs[k] = "P3" => k > i)
    <3>1. i = 1 /\ k \in {1, 2} /\ (jobs[k] = "SIMULATE" <=> k = 1) /\ (jobs[k] = "P3" <=> k = 2)
      BY <2>1, <2>4
    <3>2. QED
      BY <3>1
  <2>5. ASSUME NEW i \in DOMAIN jobs, jobs[i] = "P3"
        PROVE  i > 1 /\ jobs[i - 1] \in {"L1/B5", "SIMULATE"}
    <3>1. i = 2
      BY <2>1, <2>5
    <3>2. i > 1 /\ i - 1 = 1
      BY <3>1
    <3>3. QED
      BY <2>1, <3>2
  <2>6. QED
    BY <1>1, <2>1, <2>2, <2>3, <2>4, <2>5
<1>5. CASE StartShip
  <2>1. loop.pc = "idle" /\ shipped' = shipped /\ loop' = loop
    BY <1>5 DEF StartShip, Starting, Orderly
  <2>2. PICK mode \in ControlModes :
          pipeline' = Fresh(pipeline.run + 1, "paused_gate", <<"P3">>,
                            <<NewGate("deploy", NoJob)>>, mode, FALSE)
    BY <1>5, OptionsAssumption DEF StartShip
  <2>3. pipeline.run + 1 \in Nat
    BY <1>0
  <2>4. PlanInv(pipeline', shipped')
    BY <2>2, <2>3, ShipPlan
  <2>5. QED
    BY <2>1, <2>4, LoopGone
<1>6. CASE Decide
  <2>1. PICK i \in Decidable(pipeline) : \E choice \in Choices(pipeline.gates[i].kind) :
          /\ pipeline' \in Decided(pipeline, i, choice, "owner")
          /\ loop' = IF choice = "kill" THEN loop ELSE Advance(loop)
    BY <1>6 DEF Decide
  <2>2. PICK choice \in Choices(pipeline.gates[i].kind) :
          /\ pipeline' \in Decided(pipeline, i, choice, "owner")
          /\ loop' = IF choice = "kill" THEN loop ELSE Advance(loop)
    BY <2>1
  <2>3. i \in Pending(pipeline) /\ choice \in Answers
    BY DEF Decidable, Choices, Answers
  <2>4. pipeline.gates[i].kind = "deploy" => choice \in {"go", "kill"}
    BY DEF Choices
  <2>5. loop.pc = "idle" /\ shipped' = shipped
    BY <1>6, <1>b, <2>3 DEF Decide, Commandable, SyncPoints
  <2>6. /\ PlanInv(pipeline', shipped') /\ Pending(pipeline') = {}
        /\ choice # "kill" => NotRefused(pipeline')
    BY <1>0, <2>2, <2>3, <2>4, <2>5, DecidedPlan
  <2>7. CASE choice = "kill"
    BY <2>2, <2>5, <2>6, <2>7, LoopGone
  <2>8. CASE choice # "kill"
    <3>1. loop'.pc = "head"
      BY <2>2, <2>5, <2>8 DEF Advance, AtHead, Idle
    <3>2. pipeline'.status = "running"
      BY <1>0, <2>2, <2>3, <2>8, DecidedType DEF Pending
    <3>3. QED
      BY <2>6, <2>8, <3>1, <3>2, LoopBack
  <2>9. QED
    BY <2>7, <2>8
<1>7. CASE Stop
  BY <1>7 DEF Stop, Orderly
<1>8. ASSUME Commandable,
             pipeline'.jobs = pipeline.jobs, pipeline'.run = pipeline.run,
             pipeline'.simulated = pipeline.simulated,
             pipeline'.iterationUsed = pipeline.iterationUsed,
             pipeline'.iterationPending = pipeline.iterationPending,
             pipeline'.verified = pipeline.verified, shipped' = shipped,
             pipeline'.jobIndex = pipeline.jobIndex, pipeline'.gates = pipeline.gates,
             pipeline'.currentJob \in {pipeline.currentJob, NoJob},
             pipeline'.status \in {pipeline.status, "killed"}, loop' = loop
      PROVE  Orders'
  <2>1. loop.pc \notin {"head", "automatic"}
    BY <1>8 DEF Commandable, SyncPoints
  <2>2. CASE loop.pc = "idle"
    <3>1. NotRefused(pipeline) \/ pipeline'.status = pipeline.status
            \/ pipeline'.status = "killed"
      BY <1>8
    <3>2. PlanInv(pipeline', shipped')
      BY <1>0, <1>a, <1>8, <3>1, KeptPlan DEF PlanInv, OneQuestion
    <3>3. QED
      BY <1>8, <2>2, <3>2, LoopGone
  <2>3. CASE loop.pc # "idle"
    <3>1. loop.pc \in SyncPoints \cup AwaitPoints
      BY <1>0, <2>3 DEF Loop
    <3>2. loop.pc \in {"passed", "review", "reviewVerify", "advance"} =>
            IF loop.job = "P3" THEN pipeline.run \in shipped'
            ELSE loop.job \in pipeline'.verified
      BY <1>8 DEF Orders, LoopOrdered, WorkDone
    <3>3. QED
      BY <1>0, <1>a, <1>8, <2>1, <2>3, <3>1, <3>2, LoopWorks
  <2>4. QED
    BY <2>2, <2>3
<1>9. CASE Kill
  BY <1>0, <1>8, <1>9 DEF Kill, Finished, Pipeline
<1>10. ASSUME Pending(pipeline) = {}, pipeline.status \in {"running", "paused_gate", "paused_control", "blocked"},
              Commandable,
              pipeline'.jobs = pipeline.jobs, pipeline'.run = pipeline.run,
              pipeline'.simulated = pipeline.simulated,
              pipeline'.iterationUsed = pipeline.iterationUsed,
              pipeline'.iterationPending = pipeline.iterationPending,
              pipeline'.verified = pipeline.verified, shipped' = shipped,
              pipeline'.jobIndex = pipeline.jobIndex, pipeline'.gates = pipeline.gates,
              pipeline'.currentJob = pipeline.currentJob,
              pipeline'.status = "running", loop' = Advance(loop)
       PROVE  Orders'
  <2>1. NotRefused(pipeline)
    BY <1>0, <1>10 DEF PlanInv, ShipAsked
  <2>2. CASE loop.pc = "idle"
    <3>1. PlanInv(pipeline', shipped')
      BY <1>0, <1>a, <1>10, <2>1, KeptPlan
    <3>2. Pending(pipeline') = {} /\ NotRefused(pipeline')
      BY <1>10, <2>1 DEF Pending, NotRefused
    <3>3. loop'.pc = "head"
      BY <1>10, <2>2 DEF Advance, AtHead, Idle
    <3>4. QED
      BY <1>10, <3>1, <3>2, <3>3, LoopBack
  <2>3. CASE loop.pc # "idle"
    <3>1. pipeline.status = "running" /\ loop' = loop
      BY <1>10, <1>b, <2>3 DEF Commandable, SyncPoints, Advance
    <3>2. QED
      BY <1>8, <1>10, <3>1
  <2>4. QED
    BY <2>2, <2>3
<1>11. CASE ContinuePipeline
  <2>1. Pending(pipeline) = {}
    BY <1>0, <1>11 DEF ContinuePipeline, PlanInv, OneQuestion
  <2>2. QED
    BY <1>0, <1>10, <1>11, <2>1 DEF ContinuePipeline, Pipeline
<1>12. CASE Resume
  BY <1>0, <1>10, <1>12 DEF Resume, Pipeline
<1>13. CASE SetControlMode
  <2>1. PICK mode \in Modes :
          LET set == [pipeline EXCEPT !.controlMode = mode] IN
            \/ \E i \in FirstPending(set) :
                 \E answer \in AutomaticAnswers(set, set.gates[i]) \ {"none"} :
                   /\ pipeline' \in Decided(set, i, answer, "orchestrator")
                   /\ loop' = Advance(loop)
            \/ /\ set.status = "paused_control"
               /\ pipeline' = [set EXCEPT !.status = "running"] /\ loop' = Advance(loop)
            \/ pipeline' = set /\ loop' = loop
    BY <1>13 DEF SetControlMode
  <2> DEFINE set == [pipeline EXCEPT !.controlMode = mode]
  <2>2. /\ set \in Pipeline /\ set.jobs = pipeline.jobs /\ set.run = pipeline.run
        /\ set.simulated = pipeline.simulated /\ set.iterationUsed = pipeline.iterationUsed
        /\ set.iterationPending = pipeline.iterationPending
        /\ set.verified = pipeline.verified /\ set.jobIndex = pipeline.jobIndex
        /\ set.gates = pipeline.gates /\ set.currentJob = pipeline.currentJob
        /\ set.status = pipeline.status
    BY <1>0, OptionsAssumption DEF Pipeline
  <2>3. Commandable /\ shipped' = shipped
    BY <1>13 DEF SetControlMode
  <2> HIDE DEF set
  <2>4. Pending(set) = Pending(pipeline)
    BY <2>2 DEF Pending
  <2>5. ASSUME NEW i \in FirstPending(set),
               NEW answer \in AutomaticAnswers(set, set.gates[i]) \ {"none"},
               pipeline' \in Decided(set, i, answer, "orchestrator"), loop' = Advance(loop)
        PROVE  Orders'
    <3>1. i \in Pending(set) /\ set.gates[i] \in Gate
      BY <2>2 DEF FirstPending, Pending, Pipeline
    <3>2. answer \in Answers /\ answer # "kill"
      BY <2>2, <3>1, AutomaticAnswersType
    <3>3. set.gates[i].kind # "deploy"
      BY DEF AutomaticAnswers
    <3>4. PlanInv(set, shipped)
      BY <1>0, <2>2, KeptPlan DEF PlanInv, OneQuestion
    <3>5. PlanInv(pipeline', shipped) /\ Pending(pipeline') = {} /\ NotRefused(pipeline')
      BY <2>2, <2>5, <3>1, <3>2, <3>3, <3>4, DecidedPlan
    <3>6. pipeline'.status = "running"
      BY <2>2, <2>5, <3>1, <3>2, DecidedType DEF Pending
    <3>7. loop.pc = "idle"
      BY <1>b, <2>3, <2>4, <3>1 DEF Commandable, SyncPoints
    <3>8. loop'.pc = "head"
      BY <2>5, <3>7 DEF Advance, AtHead, Idle
    <3>9. QED
      BY <2>3, <3>5, <3>6, <3>8, LoopBack
  <2>6. CASE /\ set.status = "paused_control"
             /\ pipeline' = [set EXCEPT !.status = "running"] /\ loop' = Advance(loop)
    <3>1. Pending(pipeline) = {}
      BY <1>0, <2>2, <2>6 DEF PlanInv, OneQuestion
    <3>2. /\ pipeline'.jobs = set.jobs /\ pipeline'.run = set.run
          /\ pipeline'.simulated = set.simulated
          /\ pipeline'.iterationUsed = set.iterationUsed
          /\ pipeline'.iterationPending = set.iterationPending
          /\ pipeline'.verified = set.verified /\ pipeline'.jobIndex = set.jobIndex
          /\ pipeline'.gates = set.gates /\ pipeline'.currentJob = set.currentJob
          /\ pipeline'.status = "running"
      BY <2>2, <2>6 DEF Pipeline
    <3>3. QED
      BY <1>10, <2>2, <2>3, <2>6, <3>1, <3>2
  <2>7. CASE pipeline' = set /\ loop' = loop
    BY <1>8, <2>2, <2>3, <2>7
  <2>8. QED
    BY <2>1, <2>5, <2>6, <2>7 DEF set
<1>14. QED
  BY <1>2, <1>3, <1>4, <1>5, <1>6, <1>7, <1>9, <1>11, <1>12, <1>13 DEF Command

LEMMA EnvironmentOrders ==
  IInv /\ Orders /\ (Environment \/ UNCHANGED vars) => Orders'
<1> SUFFICES ASSUME IInv, Orders, Environment \/ UNCHANGED vars PROVE Orders'
  OBVIOUS
<1>0. pipeline \in Pipeline /\ loop \in Loop /\ PlanInv(pipeline, shipped)
  BY DEF IInv, TypeOK, Orders
<1>1. /\ pipeline'.jobs = pipeline.jobs /\ pipeline'.run = pipeline.run
      /\ pipeline'.simulated = pipeline.simulated
      /\ pipeline'.iterationUsed = pipeline.iterationUsed
      /\ pipeline'.iterationPending = pipeline.iterationPending
      /\ pipeline'.verified = pipeline.verified /\ shipped' = shipped
      /\ pipeline'.jobIndex = pipeline.jobIndex /\ pipeline'.gates = pipeline.gates
      /\ pipeline'.currentJob = pipeline.currentJob
      /\ pipeline'.status = pipeline.status /\ pipeline'.controlMode = pipeline.controlMode
      /\ loop' = loop
  BY <1>0 DEF Environment, ExecutorWrites, CooldownEnds, OwnerCleansTree, Pipeline, vars
<1>2. pipeline' \in Pipeline
  <2>1. IInv'
    BY EnvironmentKeeps, NextKeeps
  <2>2. QED
    BY <2>1 DEF IInv, TypeOK
<1>3. PlanInv(pipeline', shipped')
  BY <1>0, <1>1, <1>2, KeptPlan DEF PlanInv, OneQuestion
<1>4. /\ Pending(pipeline') = Pending(pipeline) /\ ReviewGates(pipeline') = ReviewGates(pipeline)
      /\ NotRefused(pipeline') <=> NotRefused(pipeline)
      /\ \A gate : AutomaticAnswers(pipeline', gate) = AutomaticAnswers(pipeline, gate)
  BY <1>1 DEF Pending, ReviewGates, NotRefused, AutomaticAnswers
<1>5. LoopOrdered' /\ ShipsOnFreshGo'
  BY <1>1, <1>4 DEF Orders, LoopOrdered, AtWork, WorkDone, OwnRun, ShipsOnFreshGo
<1>6. QED
  BY <1>3, <1>5 DEF Orders

LEMMA RestartOrders == IInv /\ Orders /\ Restart => Orders'
<1> SUFFICES ASSUME IInv, Orders, Restart PROVE Orders'
  OBVIOUS
<1>0. pipeline \in Pipeline /\ PlanInv(pipeline, shipped) /\ Restored(disk) = Restored(pipeline)
  BY DEF IInv, TypeOK, Orders, CrashLosesNothing
<1>1. pipeline' = Restored(pipeline) /\ loop'.pc = "idle" /\ shipped' = shipped
  BY <1>0 DEF Restart, Idle
<1>2. CASE pipeline.status # "running"
  BY <1>0, <1>1, <1>2, LoopGone DEF Restored
<1>3. CASE pipeline.status = "running"
  <2>1. Pending(pipeline) = {} /\ NotRefused(pipeline)
    BY <1>0, <1>3 DEF PlanInv, OneQuestion, ShipAsked
  <2>2. pipeline.currentJob \in Aims(pipeline)
    BY DEF Aims
  <2>3. pipeline' = AddGate(pipeline, "blocked", NewGate("server-restart", pipeline.currentJob))
    BY <1>1, <1>3 DEF Restored
  <2>4. PlanInv(pipeline', shipped)
    BY <1>0, <2>1, <2>2, <2>3, RecoveryPlan
  <2>5. QED
    BY <1>1, <2>4, LoopGone
<1>4. QED
  BY <1>2, <1>3

LEMMA InitOrders == Init => Orders
<1> SUFFICES ASSUME Init PROVE Orders
  OBVIOUS
<1>1. /\ pipeline.jobs = <<>> /\ pipeline.jobIndex = 0 /\ pipeline.currentJob = NoJob
      /\ pipeline.gates = <<>> /\ pipeline.simulated = FALSE
      /\ pipeline.iterationUsed = FALSE /\ pipeline.iterationPending = FALSE
      /\ loop.pc = "idle"
  BY DEF Init, NoPipeline, Fresh, Idle
<1>2. DOMAIN pipeline.jobs = {} /\ DOMAIN pipeline.gates = {}
  BY <1>1
<1>3. Pending(pipeline) = {} /\ NotRefused(pipeline)
  BY <1>2 DEF Pending, NotRefused
<1>4. Aims(pipeline) = {NoJob}
  <2>1. JobAt(pipeline.jobs, pipeline.jobIndex) = NoJob
    BY <1>1 DEF JobAt
  <2>2. QED
    BY <1>1, <1>3, <2>1 DEF Aims
<1>5. Places(pipeline, shipped)
  BY <1>1, <1>2 DEF Places, RunOrdered, Proven, Through
<1>6. OneQuestion(pipeline) /\ ShipAsked(pipeline)
  BY <1>2, <1>3, <1>4 DEF OneQuestion, ShipAsked, NoJob
<1>7. LoopOrdered /\ ShipsOnFreshGo
  BY <1>1 DEF LoopOrdered, ShipsOnFreshGo
<1>8. QED
  BY <1>5, <1>6, <1>7 DEF Orders, PlanInv

LEMMA NextOrders == Orderly /\ IInv /\ Orders /\ [Next]_vars => Orders'
  BY LoopOrders, CommandOrders, EnvironmentOrders, RestartOrders DEF Next

\* Of an owner who neither stops a run nor starts one over another, in every reachable
\* state: the plan is in order and everything before the run's place is done.
THEOREM OrderedRuns == ASSUME Orderly PROVE Spec => []Orders
<1>1. Orderly
  OBVIOUS
<1>2. IInv /\ Orders /\ [Next]_vars => Orders'
  BY <1>1, NextOrders
<1>3. QED
  BY Invariance, InitOrders, <1>2, PTL DEF Spec

\* No job is skipped: each job behind the run's place was verified in this very run, and
\* the ship deployed it.
THEOREM NoJobSkipped == ASSUME Orderly PROVE Spec => []JobsVerified
<1>1. Orders => JobsVerified
  BY DEF Orders, PlanInv, Places, Proven, Through, JobsVerified
<1>2. QED
  BY OrderedRuns, <1>1, PTL

\* A run ships only when its latest review gate is the deploy and its owner said go.
THEOREM OwnerShips == ASSUME Orderly PROVE Spec => []ShipsOnFreshGo
<1>1. Orders => ShipsOnFreshGo
  BY DEF Orders
<1>2. QED
  BY OrderedRuns, <1>1, PTL

-----------------------------------------------------------------------------
(* The loop runs down. What it has still to do is a list of seven numbers,  *)
(* compared from the left: each of its steps lowers the list or ends it.    *)

Number(b) == IF b THEN 1 ELSE 0

Here(pcs) == loop.pc \in pcs

\* the awaits of an attempt, and the choice of the player that makes it
Attempting == {"prompt", "exec", "verify"}
Working == {"pick"} \cup Attempting

JobsLeft == IF pipeline.jobIndex < Len(pipeline.jobs)
            THEN Len(pipeline.jobs) - pipeline.jobIndex ELSE 0

\* from the answer to a gate through a job to its review and its end
Stage ==
  CASE loop.pc = "automatic" -> (IF JobsLeft > 0 THEN 8 ELSE 1)
    [] loop.pc = "head" -> (IF JobsLeft > 0 THEN 7 ELSE 0)
    [] loop.pc \in Working \cup {"deploy"} -> 6
    [] loop.pc = "passed" -> 5
    [] loop.pc = "review" -> 4
    [] loop.pc = "reviewVerify" -> 3
    [] loop.pc = "advance" -> 2
    [] OTHER -> 1

\* the places of the chain whose player this job has not given up
Open == { i \in DOMAIN Chain : Chain[i] \notin loop.excluded }

PlayersLeft == IF Here(Working) THEN Cardinality(Open) ELSE 0

AttemptsLeft ==
  IF Here({"pick"}) THEN MaxAttempts
  ELSE IF Here(Attempting) THEN MaxAttempts - loop.attempt ELSE 0

Turn == IF Here({"prompt"}) THEN 2 ELSE IF Here({"exec"}) THEN 1 ELSE 0

Work == << Number(pipeline.capabilityAuto), Number(~pipeline.iterationUsed), JobsLeft,
           Stage, PlayersLeft, AttemptsLeft, Turn >>

Works == [1..7 -> Nat]

Less == { ss \in Nat \X Nat : ss[1] < ss[2] }

\* the lexicographic order of such lists, which has no infinite descent
WorkOrder == LexProductOrdering(Less, Nat, 7)

LEMMA WorkIsWellFounded == IsWellFoundedOn(WorkOrder, Works)
<1>1. Less = OpToRel(<, Nat)
  BY DEF Less, OpToRel
<1>2. IsWellFoundedOn(Less, Nat)
  BY <1>1, NatLessThanWellFounded
<1>3. QED
  BY <1>2, WFLexProductOrdering DEF WorkOrder, Works

LEMMA LowerAt ==
  ASSUME NEW f \in Works, NEW g \in Works, NEW j \in 1..7,
         \A i \in 1..(j - 1) : f[i] = g[i], f[j] < g[j]
  PROVE  <<f, g>> \in WorkOrder
<1> DEFINE p == <<f, g>>
<1>1. p \in Works \X Works /\ p[1] = f /\ p[2] = g
  OBVIOUS
<1>2. f[j] \in Nat /\ g[j] \in Nat
  BY DEF Works
<1>3. <<f[j], g[j]>> \in Less
  BY <1>2 DEF Less
<1>4. <<p[1][j], p[2][j]>> \in Less /\ \A i \in 1..(j - 1) : p[1][i] = p[2][i]
  BY <1>1, <1>3
<1> HIDE DEF p
<1>5. p \in [1..7 -> Nat] \X [1..7 -> Nat]
  BY <1>1 DEF Works
<1>6. p \in LexProductOrdering(Less, Nat, 7)
  BY <1>4, <1>5 DEF LexProductOrdering
<1>7. QED
  BY <1>6 DEF WorkOrder, p

\* Where an attempt is under way its player was not given up and its number is within
\* the limit; an automatic answer is never a retry.
LoopBounds ==
  /\ Here(Attempting) =>
       /\ \E i \in Open : Chain[i] = loop.player
       /\ loop.attempt \in 1..MaxAttempts
  /\ Here({"automatic"}) => loop.answer \in {"go", "pick"}

LEMMA OpenIsFinite == IsFiniteSet(Open) /\ Cardinality(Open) \in Nat
<1>1. Chain \in Seq(Players)
  BY PlayersAssumption
<1>2. DOMAIN Chain = 1..Len(Chain) /\ Len(Chain) \in Nat
  BY <1>1
<1>3. IsFiniteSet(1..Len(Chain))
  BY <1>2, FS_Interval
<1>4. Open \subseteq 1..Len(Chain)
  BY <1>2 DEF Open
<1>5. QED
  BY <1>3, <1>4, FS_Subset, FS_CardinalityType

LEMMA WorkType == TypeOK /\ LoopBounds =>
  Work \in Works /\ JobsLeft \in Nat /\ PlayersLeft \in Nat
<1> SUFFICES ASSUME TypeOK, LoopBounds
             PROVE  Work \in Works /\ JobsLeft \in Nat /\ PlayersLeft \in Nat
  OBVIOUS
<1>1. pipeline \in Pipeline /\ MaxAttempts \in Nat
  BY PlayersAssumption DEF TypeOK
<1>2. JobsLeft \in Nat
  <2>1. Len(pipeline.jobs) \in Nat /\ pipeline.jobIndex \in Nat
    BY <1>1 DEF Pipeline
  <2>2. QED
    BY <2>1 DEF JobsLeft
<1>3. Stage \in 0..8
  BY DEF Stage
<1>4. PlayersLeft \in Nat
  BY OpenIsFinite DEF PlayersLeft
<1>5. AttemptsLeft \in Nat
  BY <1>1 DEF AttemptsLeft, LoopBounds
<1>6. Turn \in 0..2
  BY DEF Turn
<1>7. Number(pipeline.capabilityAuto) \in Nat /\ Number(~pipeline.iterationUsed) \in Nat
  BY DEF Number
<1>8. QED
  BY <1>2, <1>3, <1>4, <1>5, <1>6, <1>7 DEF Work, Works

\* the options the record has still open: the plan of a GO, the automatic iteration
SameOptions(q) == q.capabilityAuto = pipeline.capabilityAuto /\ q.iterationUsed = pipeline.iterationUsed

Lowered ==
  \/ Number(pipeline'.capabilityAuto) < Number(pipeline.capabilityAuto)
  \/ /\ pipeline'.capabilityAuto = pipeline.capabilityAuto
     /\ Number(~pipeline'.iterationUsed) < Number(~pipeline.iterationUsed)
  \/ SameOptions(pipeline') /\ JobsLeft' < JobsLeft
  \/ SameOptions(pipeline') /\ JobsLeft' = JobsLeft /\ Stage' < Stage
  \/ /\ SameOptions(pipeline') /\ JobsLeft' = JobsLeft /\ Stage' = Stage
     /\ PlayersLeft' < PlayersLeft
  \/ /\ SameOptions(pipeline') /\ JobsLeft' = JobsLeft /\ Stage' = Stage
     /\ PlayersLeft' = PlayersLeft /\ AttemptsLeft' < AttemptsLeft
  \/ /\ SameOptions(pipeline') /\ JobsLeft' = JobsLeft /\ Stage' = Stage
     /\ PlayersLeft' = PlayersLeft /\ AttemptsLeft' = AttemptsLeft /\ Turn' < Turn

LEMMA LoweredWork ==
  ASSUME Work \in Works, Work' \in Works, Lowered
  PROVE  <<Work', Work>> \in WorkOrder
<1> DEFINE f == Work'
           g == Work
<1>1. /\ f[1] = Number(pipeline'.capabilityAuto) /\ g[1] = Number(pipeline.capabilityAuto)
      /\ f[2] = Number(~pipeline'.iterationUsed) /\ g[2] = Number(~pipeline.iterationUsed)
      /\ f[3] = JobsLeft' /\ g[3] = JobsLeft /\ f[4] = Stage' /\ g[4] = Stage
      /\ f[5] = PlayersLeft' /\ g[5] = PlayersLeft /\ f[6] = AttemptsLeft' /\ g[6] = AttemptsLeft
      /\ f[7] = Turn' /\ g[7] = Turn
  BY DEF Work
<1>2. f \in Works /\ g \in Works
  OBVIOUS
<1> HIDE DEF f, g
<1>3. \E j \in 1..7 : f[j] < g[j] /\ \A i \in 1..(j - 1) : f[i] = g[i]
  <2>1. \/ f[1] < g[1]
        \/ f[1] = g[1] /\ f[2] < g[2]
        \/ f[1] = g[1] /\ f[2] = g[2] /\ f[3] < g[3]
        \/ f[1] = g[1] /\ f[2] = g[2] /\ f[3] = g[3] /\ f[4] < g[4]
        \/ f[1] = g[1] /\ f[2] = g[2] /\ f[3] = g[3] /\ f[4] = g[4] /\ f[5] < g[5]
        \/ f[1] = g[1] /\ f[2] = g[2] /\ f[3] = g[3] /\ f[4] = g[4] /\ f[5] = g[5] /\ f[6] < g[6]
        \/ f[1] = g[1] /\ f[2] = g[2] /\ f[3] = g[3] /\ f[4] = g[4] /\ f[5] = g[5] /\ f[6] = g[6]
           /\ f[7] < g[7]
    BY <1>1 DEF Lowered, SameOptions
  <2>2. QED
    BY <2>1
<1>4. <<f, g>> \in WorkOrder
  BY <1>2, <1>3, LowerAt
<1>5. QED
  BY <1>4 DEF f, g

-----------------------------------------------------------------------------
(* The steps of the loop, one by one.                                       *)

\* The loop is not idle when it takes a step, and a step that ends it needs no more.
Runs == LoopBounds' /\ (loop'.pc = "idle" \/ Lowered)

LEMMA RunEnds == ASSUME loop'.pc \in {"idle"} PROVE Runs
  BY DEF Runs, LoopBounds, Here, Attempting

\* A step to a lower stage, on a record with the same jobs.
SameJobs(q) == SameOptions(q) /\ q.jobs = pipeline.jobs /\ q.jobIndex = pipeline.jobIndex

LEMMA SameJobsLeft == ASSUME SameJobs(pipeline') PROVE JobsLeft' = JobsLeft
  BY DEF SameJobs, JobsLeft

LEMMA StageLowered ==
  ASSUME SameJobs(pipeline'), Stage' < Stage,
         loop'.pc \notin Attempting \cup {"automatic"}
  PROVE  Runs
  BY SameJobsLeft DEF Runs, Lowered, LoopBounds, Here, SameJobs

\* What the passing of a job leaves to do.
LEMMA AfterJobRuns ==
  ASSUME NEW pl \in Pipeline, NEW job \in Job, NEW q \in AfterJob(pl, job)
  PROVE  /\ q.capabilityAuto = pl.capabilityAuto
         /\ \/ ~pl.iterationUsed /\ q.iterationUsed
            \/ /\ q.iterationUsed = pl.iterationUsed /\ q.jobs = pl.jobs
               /\ q.jobIndex = pl.jobIndex + 1
<1> DEFINE done == [pl EXCEPT !.simulated = TRUE]
           settled == [pl EXCEPT !.iterationPending = FALSE]
           onward(s) == [s EXCEPT !.jobIndex = s.jobIndex + 1,
                                  !.currentJob = JobAt(s.jobs, s.jobIndex + 1)]
<1>1. \/ job # "SIMULATE" /\ q \in {onward(pl), onward(settled)}
      \/ job = "SIMULATE" /\ q = onward(done)
      \/ job = "SIMULATE" /\ ~pl.iterationUsed /\ q = onward(WithIteration(done))
  BY DEF AfterJob, AfterSimulation
<1>2. done \in Pipeline /\ settled \in Pipeline
  BY DEF Pipeline
<1>3. CASE q = onward(pl)
  BY <1>3 DEF Pipeline
<1>4. CASE q = onward(settled)
  BY <1>4 DEF Pipeline
<1>5. CASE q = onward(done)
  BY <1>5 DEF Pipeline
<1>6. CASE ~pl.iterationUsed /\ q = onward(WithIteration(done))
  <2>1. WithIteration(done) \in Pipeline
    BY <1>2, WithIterationType
  <2>2. WithIteration(done).iterationUsed = TRUE
        /\ WithIteration(done).capabilityAuto = pl.capabilityAuto
    BY <1>2 DEF WithIteration, Pipeline
  <2> DEFINE w == WithIteration(done)
  <2> HIDE DEF w
  <2>3. q = onward(w) /\ w \in Pipeline /\ w.iterationUsed = TRUE
        /\ w.capabilityAuto = pl.capabilityAuto
    BY <1>6, <2>1, <2>2 DEF w
  <2>4. q.iterationUsed = TRUE /\ q.capabilityAuto = pl.capabilityAuto
    BY <2>3 DEF Pipeline
  <2>5. QED
    BY <1>6, <2>4
<1>7. QED
  BY <1>1, <1>3, <1>4, <1>5, <1>6

\* An automatic answer installs the plan of a GO, once, or leaves the jobs alone.
OneAnswer(pl, q) ==
  /\ q.iterationUsed = pl.iterationUsed
  /\ \/ pl.capabilityAuto = TRUE /\ q.capabilityAuto = FALSE
     \/ /\ q.capabilityAuto = pl.capabilityAuto /\ q.jobs = pl.jobs
        /\ q.jobIndex = pl.jobIndex

LEMMA DecidedRuns ==
  ASSUME NEW pl \in Pipeline, NEW i \in DOMAIN pl.gates, NEW choice \in {"go", "pick"},
         NEW by, NEW q \in Decided(pl, i, choice, by)
  PROVE  OneAnswer(pl, q)
<1> DEFINE answered == [pl EXCEPT !.gates[i] = Answered(pl.gates[i], choice, by)]
           onward == [answered EXCEPT !.status = "running"]
<1>1. \/ q = onward
      \/ /\ pl.capabilityAuto = TRUE
         /\ \E jobs \in CapabilityPlans :
              q = [onward EXCEPT !.jobs = jobs, !.capabilityAuto = FALSE,
                                 !.currentJob = JobAt(jobs, pl.jobIndex)]
  BY DEF Decided, Pipeline
<1>2. CASE q = onward
  BY <1>2 DEF Pipeline, OneAnswer
<1>3. ASSUME pl.capabilityAuto = TRUE, NEW jobs \in CapabilityPlans,
             q = [onward EXCEPT !.jobs = jobs, !.capabilityAuto = FALSE,
                                !.currentJob = JobAt(jobs, pl.jobIndex)]
      PROVE  q.iterationUsed = pl.iterationUsed /\ q.capabilityAuto = FALSE
  BY <1>3 DEF Pipeline
<1>4. QED
  BY <1>1, <1>2, <1>3 DEF OneAnswer

LEMMA LoopRuns == TypeOK /\ LoopLocals /\ LoopBounds /\ LoopStep => Runs
<1> SUFFICES ASSUME TypeOK, LoopLocals, LoopBounds, LoopStep PROVE Runs
  OBVIOUS
<1>0. /\ pipeline \in Pipeline /\ loop \in Loop /\ JobsLeft \in Nat /\ PlayersLeft \in Nat
      /\ MaxAttempts \in Nat \ {0} /\ pipeline.jobs \in Seq(Job) /\ pipeline.jobIndex \in Nat
      /\ Len(pipeline.jobs) \in Nat /\ Open \subseteq DOMAIN Chain
  BY WorkType, PlayersAssumption DEF TypeOK, Pipeline, Open
<1>1. ASSUME LoopFinishes \/ LoopThrows \/ ResultDropped \/ ReportMissing \/ JobFailed
      PROVE  Runs
  BY <1>1, RunEnds DEF LoopFinishes, LoopThrows, ResultDropped, ReportMissing, JobFailed, Idle
<1>2. CASE JobStarts
  <2> DEFINE job == pipeline.jobs[pipeline.jobIndex + 1]
  <2>3. /\ pipeline' = [pipeline EXCEPT !.currentJob = job] /\ loop.pc = "head"
        /\ pipeline.jobIndex < Len(pipeline.jobs)
        /\ \E pc \in {"pick", "deploy", "failed"} :
             loop' = [Idle EXCEPT !.pc = pc, !.run = pipeline.run, !.job = job]
    BY <1>2 DEF JobStarts
  <2> HIDE DEF job
  <2>1. SameJobs(pipeline') /\ JobsLeft > 0
    BY <1>0, <2>3 DEF SameJobs, SameOptions, Pipeline, JobsLeft
  <2>4. loop'.pc \in {"pick", "deploy", "failed"}
    BY <2>3 DEF Idle
  <2>2. Stage = 7 /\ Stage' < 7
    BY <2>1, <2>3, <2>4 DEF Stage, Working, Attempting
  <2>5. QED
    BY <2>1, <2>2, <2>4, StageLowered DEF Attempting
<1>3. CASE PlayerPicked
  <2>1. PICK i \in Eligible : loop' = [loop EXCEPT !.pc = "prompt", !.player = Chain[i], !.attempt = 1]
    BY <1>3 DEF PlayerPicked
  <2>2. /\ loop.pc = "pick" /\ loop'.pc = "prompt" /\ loop'.player = Chain[i] /\ loop'.attempt = 1
        /\ loop'.excluded = loop.excluded /\ SameJobs(pipeline') /\ i \in Open
    BY <1>0, <1>3, <2>1 DEF PlayerPicked, Loop, SameJobs, SameOptions, Eligible, Open
  <2>3. Open' = Open
    BY <2>2 DEF Open
  <2>4. JobsLeft' = JobsLeft /\ Stage' = Stage /\ PlayersLeft' = PlayersLeft
    BY <2>2, <2>3, SameJobsLeft DEF Stage, Working, Attempting, PlayersLeft, Here
  <2>5. AttemptsLeft = MaxAttempts /\ AttemptsLeft' = MaxAttempts - 1
    BY <2>2 DEF AttemptsLeft, Here, Attempting
  <2>6. LoopBounds'
    <3>1. i \in Open' /\ Chain[i] = loop'.player /\ loop'.attempt \in 1..MaxAttempts
      BY <1>0, <2>2, <2>3
    <3>2. QED
      BY <2>2, <3>1 DEF LoopBounds, Here, Attempting
  <2>7. QED
    BY <1>0, <2>2, <2>4, <2>5, <2>6 DEF Runs, Lowered, SameJobs
<1>4. CASE PlayersExhausted
  <2>1. SameJobs(pipeline') /\ loop.pc = "pick" /\ loop'.pc = "failed"
    BY <1>0, <1>4 DEF PlayersExhausted, Goto, Loop, SameJobs, SameOptions
  <2>2. Stage = 6 /\ Stage' = 1
    BY <2>1 DEF Stage, Working, Attempting
  <2>3. QED
    BY <2>1, <2>2, StageLowered DEF Attempting
<1>5. ASSUME loop.pc \in Attempting, loop'.pc \in Attempting, pipeline' = pipeline,
             loop' = [loop EXCEPT !.pc = loop'.pc], Turn' < Turn
      PROVE  Runs
  <2>1. /\ SameJobs(pipeline') /\ loop'.excluded = loop.excluded /\ loop'.player = loop.player
        /\ loop'.attempt = loop.attempt
    BY <1>0, <1>5 DEF Loop, SameJobs, SameOptions
  <2>2. Open' = Open
    BY <2>1 DEF Open
  <2>3. JobsLeft' = JobsLeft /\ Stage' = Stage /\ PlayersLeft' = PlayersLeft
        /\ AttemptsLeft' = AttemptsLeft
    BY <1>5, <2>1, <2>2, SameJobsLeft DEF Stage, Working, Attempting, PlayersLeft, AttemptsLeft, Here
  <2>4. LoopBounds'
    BY <1>5, <2>1, <2>2 DEF LoopBounds, Here, Attempting
  <2>5. QED
    BY <1>5, <2>1, <2>3, <2>4 DEF Runs, Lowered, SameJobs
<1>6. CASE PromptReady
  <2>1. /\ loop.pc = "prompt" /\ loop'.pc \in {"exec", "failed"} /\ pipeline' = pipeline
        /\ loop' = [loop EXCEPT !.pc = loop'.pc]
    BY <1>0, <1>6 DEF PromptReady, Goto, Loop
  <2>2. CASE loop'.pc = "exec"
    BY <1>5, <2>1, <2>2 DEF Attempting, Turn, Here
  <2>3. CASE loop'.pc = "failed"
    <3>1. Stage = 6 /\ Stage' = 1 /\ SameJobs(pipeline')
      BY <2>1, <2>3 DEF Stage, Working, Attempting, SameJobs, SameOptions
    <3>2. QED
      BY <2>3, <3>1, StageLowered DEF Attempting
  <2>4. QED
    BY <2>1, <2>2, <2>3
<1>7. CASE ExecutorExits
  <2>1. /\ loop.pc = "exec" /\ loop'.pc = "verify" /\ pipeline' = pipeline
        /\ loop' = [loop EXCEPT !.pc = loop'.pc]
    BY <1>0, <1>7 DEF ExecutorExits, Goto, Loop
  <2>2. QED
    BY <1>5, <2>1 DEF Attempting, Turn, Here
<1>8. ASSUME loop.pc \in Attempting, SameJobs(pipeline'),
             loop' = [loop EXCEPT !.pc = "pick", !.excluded = loop.excluded \cup {loop.player}]
      PROVE  Runs
  <2>1. PICK i \in Open : Chain[i] = loop.player
    BY <1>8 DEF LoopBounds, Here
  <2>2. loop'.pc = "pick" /\ loop'.excluded = loop.excluded \cup {loop.player}
    BY <1>0, <1>8 DEF Loop
  <2>3. Open' \subseteq Open /\ i \notin Open'
    BY <2>1, <2>2 DEF Open
  <2>4. Cardinality(Open') \in Nat /\ Cardinality(Open') < Cardinality(Open)
    BY <2>1, <2>3, OpenIsFinite, FS_Subset, FS_CardinalityType
  <2>5. PlayersLeft = Cardinality(Open) /\ PlayersLeft' = Cardinality(Open')
    BY <1>8, <2>2 DEF PlayersLeft, Here, Working, Attempting
  <2>6. Stage' = Stage /\ JobsLeft' = JobsLeft
    BY <1>8, <2>2, SameJobsLeft DEF Stage, Working, Attempting
  <2>7. LoopBounds'
    BY <2>2 DEF LoopBounds, Here, Attempting
  <2>8. QED
    BY <1>8, <2>4, <2>5, <2>6, <2>7 DEF Runs, Lowered, SameJobs
<1>9. CASE ExecutorRateLimited
  <2>1. loop.pc \in Attempting /\ SameJobs(pipeline')
    BY <1>0, <1>9 DEF ExecutorRateLimited, Attempting, SameJobs, SameOptions, Pipeline
  <2>2. QED
    BY <1>8, <1>9, <2>1 DEF ExecutorRateLimited
<1>10. CASE VerifyPasses
  <2>1. loop.pc = "verify" /\ loop'.pc = "passed" /\ SameJobs(pipeline')
    <3>1. PICK conditional \in BOOLEAN :
            pipeline' = LET noted == Noting(pipeline, conditional) IN
                        IF OwnRun THEN [noted EXCEPT !.verified = noted.verified \cup {loop.job}]
                        ELSE noted
      BY <1>10 DEF VerifyPasses
    <3> DEFINE noted == Noting(pipeline, conditional)
    <3>2. noted \in {pipeline, [pipeline EXCEPT !.conditionalGo = conditional]}
      BY DEF Noting
    <3>3. noted \in Pipeline /\ SameJobs(noted)
      BY <1>0, <3>2 DEF Pipeline, SameJobs, SameOptions
    <3> HIDE DEF noted
    <3>4. pipeline' \in {noted, [noted EXCEPT !.verified = noted.verified \cup {loop.job}]}
      BY <3>1 DEF noted
    <3>5. SameJobs(pipeline')
      BY <3>3, <3>4 DEF Pipeline, SameJobs, SameOptions
    <3>6. QED
      BY <1>0, <1>10, <3>5 DEF VerifyPasses, Goto, Loop
  <2>2. Stage = 6 /\ Stage' = 5
    BY <2>1 DEF Stage, Working, Attempting
  <2>3. QED
    BY <2>1, <2>2, StageLowered DEF Attempting
<1>11. CASE VerifyFails
  <2>1. loop.pc = "verify" /\ loop.pc \in Attempting /\ SameJobs(pipeline')
    BY <1>11 DEF VerifyFails, Attempting, SameJobs, SameOptions
  <2>2. CASE loop' = [loop EXCEPT !.pc = "pick", !.excluded = loop.excluded \cup {loop.player}]
    BY <1>8, <2>1, <2>2
  <2>3. CASE loop.attempt < MaxAttempts
             /\ loop' = [loop EXCEPT !.pc = "prompt", !.attempt = loop.attempt + 1]
    <3>1. /\ loop'.pc = "prompt" /\ loop'.attempt = loop.attempt + 1
          /\ loop'.excluded = loop.excluded /\ loop'.player = loop.player
      BY <1>0, <2>3 DEF Loop
    <3>2. Open' = Open
      BY <3>1 DEF Open
    <3>3. loop.attempt \in 1..MaxAttempts /\ loop'.attempt \in 1..MaxAttempts
      BY <1>0, <2>1, <2>3, <3>1 DEF LoopBounds, Here
    <3>4. LoopBounds'
      BY <2>1, <3>1, <3>2, <3>3 DEF LoopBounds, Here, Attempting
    <3>5. AttemptsLeft' < AttemptsLeft
      BY <1>0, <2>1, <3>1, <3>3 DEF AttemptsLeft, Here, Attempting
    <3>6. JobsLeft' = JobsLeft /\ Stage' = Stage /\ PlayersLeft' = PlayersLeft
      BY <2>1, <3>1, <3>2, SameJobsLeft DEF Stage, Working, Attempting, PlayersLeft, Here
    <3>7. QED
      BY <2>1, <3>4, <3>5, <3>6 DEF Runs, Lowered, SameJobs
  <2>4. QED
    BY <1>11, <2>2, <2>3 DEF VerifyFails
<1>12. ASSUME pipeline' = pipeline, loop' = [loop EXCEPT !.pc = loop'.pc],
              \/ loop.pc = "deploy" /\ loop'.pc \in {"passed", "failed"}
              \/ loop.pc = "passed" /\ loop'.pc \in {"review", "advance"}
              \/ loop.pc = "review" /\ loop'.pc \in {"reviewVerify", "advance"}
              \/ loop.pc = "reviewVerify" /\ loop'.pc = "advance"
       PROVE  Runs
  <2>1. Stage' < Stage /\ SameJobs(pipeline')
    BY <1>12 DEF Stage, Working, Attempting, SameJobs, SameOptions
  <2>2. QED
    BY <1>12, <2>1, StageLowered DEF Attempting
<1>13. CASE DeploySucceeds \/ DeployFails
  BY <1>0, <1>12, <1>13 DEF DeploySucceeds, DeployFails, Goto, Loop
<1>14. CASE JobPassed
  <2>1. CASE loop' = Idle
    BY <2>1, RunEnds DEF Idle
  <2>2. CASE loop' # Idle
    BY <1>0, <1>12, <1>14, <2>2 DEF JobPassed, Goto, Loop
  <2>3. QED
    BY <2>1, <2>2
<1>15. CASE ReviewEnds \/ ReviewVerified
  BY <1>0, <1>12, <1>15 DEF ReviewEnds, ReviewVerified, Goto, Loop
<1>16. CASE JobAdvances
  <2>1. loop.pc = "advance" /\ loop.job \in Job
    BY <1>16 DEF JobAdvances, LoopLocals
  <2>2. PICK next \in AfterJob(pipeline, loop.job) :
          LET kind == GateAfter(next, loop.job)
              gate == NewGate(kind, loop.job)
          IN  \/ /\ kind # "none"
                 /\ pipeline' = AddGate(next, "paused_gate", gate)
                 /\ \E answer \in AutomaticAnswers(next, gate) :
                      loop' = IF answer = "none" THEN Idle
                              ELSE [loop EXCEPT !.pc = "automatic", !.answer = answer]
              \/ pipeline' = [next EXCEPT !.status = "paused_control"] /\ loop' = Idle
              \/ pipeline' = next /\ loop' = AtHead
    BY <1>16 DEF JobAdvances
  <2> DEFINE gate == NewGate(GateAfter(next, loop.job), loop.job)
  <2>3. next \in Pipeline
    BY <1>0, <2>1, AfterJobType
  <2>4. /\ pipeline'.capabilityAuto = next.capabilityAuto
        /\ pipeline'.iterationUsed = next.iterationUsed
        /\ pipeline'.jobs = next.jobs /\ pipeline'.jobIndex = next.jobIndex
    BY <2>2, <2>3 DEF AddGate, Pipeline
  <2>5. \/ loop' = Idle
        \/ loop' = AtHead
        \/ \E answer \in AutomaticAnswers(next, gate) \ {"none"} :
              loop' = [loop EXCEPT !.pc = "automatic", !.answer = answer]
    BY <2>2
  <2> HIDE DEF gate
  <2>6. \/ loop'.pc \in {"idle", "head"}
        \/ loop'.pc = "automatic" /\ loop'.answer \in {"go", "pick"}
    <3>1. AutomaticAnswers(next, gate) \subseteq {"go", "pick", "none"}
      BY DEF AutomaticAnswers
    <3>2. Idle.pc = "idle" /\ AtHead.pc = "head"
      BY DEF Idle, AtHead
    <3>3. ASSUME NEW answer \in AutomaticAnswers(next, gate) \ {"none"},
                 loop' = [loop EXCEPT !.pc = "automatic", !.answer = answer]
          PROVE  loop'.pc = "automatic" /\ loop'.answer \in {"go", "pick"}
      BY <1>0, <3>1, <3>3 DEF Loop
    <3>4. QED
      BY <2>5, <3>2, <3>3
  <2>7. LoopBounds'
    BY <2>6 DEF LoopBounds, Here, Attempting
  <2>8. /\ pipeline'.capabilityAuto = pipeline.capabilityAuto
        /\ \/ ~pipeline.iterationUsed /\ pipeline'.iterationUsed
           \/ /\ pipeline'.iterationUsed = pipeline.iterationUsed
              /\ pipeline'.jobs = pipeline.jobs /\ pipeline'.jobIndex = pipeline.jobIndex + 1
    BY <1>0, <2>1, <2>4, AfterJobRuns
  <2>9. CASE ~pipeline.iterationUsed /\ pipeline'.iterationUsed
    BY <2>7, <2>8, <2>9 DEF Runs, Lowered, Number
  <2>10. CASE /\ pipeline'.iterationUsed = pipeline.iterationUsed
              /\ pipeline'.jobs = pipeline.jobs /\ pipeline'.jobIndex = pipeline.jobIndex + 1
    <3>1. SameOptions(pipeline')
      BY <2>8, <2>10 DEF SameOptions
    <3>2. CASE JobsLeft > 0
      <4>1. JobsLeft' < JobsLeft
        BY <1>0, <2>10, <3>2 DEF JobsLeft
      <4>2. QED
        BY <2>7, <3>1, <4>1 DEF Runs, Lowered
    <3>3. CASE ~(JobsLeft > 0)
      <4>1. JobsLeft' = 0 /\ JobsLeft = 0
        BY <1>0, <2>10, <3>3 DEF JobsLeft
      <4>2. Stage = 2
        BY <2>1 DEF Stage, Working, Attempting
      <4>3. Stage' < 2
        BY <2>6, <4>1 DEF Stage, Working, Attempting
      <4>4. QED
        BY <2>7, <3>1, <4>1, <4>2, <4>3 DEF Runs, Lowered
    <3>4. QED
      BY <3>2, <3>3
  <2>11. QED
    BY <2>8, <2>9, <2>10
<1>17. CASE AutomaticDecision
  <2>1. loop.pc = "automatic" /\ loop.answer \in {"go", "pick"} /\ loop'.pc = "head"
    BY <1>17 DEF AutomaticDecision, LoopBounds, Here, AtHead, Idle
  <2>2. PICK i \in DOMAIN pipeline.gates :
          pipeline' \in Decided(pipeline, i, loop.answer, "orchestrator")
    BY <1>17 DEF AutomaticDecision, Decidable, Pending
  <2>3. /\ pipeline'.iterationUsed = pipeline.iterationUsed
        /\ \/ pipeline.capabilityAuto = TRUE /\ pipeline'.capabilityAuto = FALSE
           \/ /\ pipeline'.capabilityAuto = pipeline.capabilityAuto
              /\ pipeline'.jobs = pipeline.jobs /\ pipeline'.jobIndex = pipeline.jobIndex
    <3>1. pipeline \in Pipeline
      BY DEF TypeOK
    <3>2. OneAnswer(pipeline, pipeline')
      BY <2>1, <2>2, <3>1, DecidedRuns
    <3>3. QED
      BY <3>2 DEF OneAnswer
  <2>4. LoopBounds'
    BY <2>1 DEF LoopBounds, Here, Attempting
  <2>5. CASE pipeline.capabilityAuto = TRUE /\ pipeline'.capabilityAuto = FALSE
    BY <2>4, <2>5 DEF Runs, Lowered, Number
  <2>6. CASE SameJobs(pipeline')
    <3>1. JobsLeft' = JobsLeft
      BY <2>6, SameJobsLeft
    <3>2. Stage' < Stage
      BY <2>1, <3>1 DEF Stage, Working, Attempting
    <3>3. QED
      BY <2>4, <2>6, <3>1, <3>2 DEF Runs, Lowered, SameJobs
  <2>7. QED
    BY <2>3, <2>5, <2>6 DEF SameJobs, SameOptions
<1>18. QED
  BY <1>1, <1>2, <1>3, <1>4, <1>6, <1>7, <1>9, <1>10, <1>11, <1>13, <1>14, <1>15, <1>16, <1>17
  DEF LoopStep

\* Commands and the environment leave a loop its bounds: they start one at its head or
\* leave it where it is.
LEMMA BoundsKept ==
  ASSUME LoopBounds, loop' \in {loop, AtHead, Idle}
  PROVE  LoopBounds'
<1>1. CASE loop' = loop
  BY <1>1 DEF LoopBounds, Here, Open
<1>2. CASE loop' \in {AtHead, Idle}
  BY <1>2 DEF LoopBounds, Here, Attempting, AtHead, Idle
<1>3. QED
  BY <1>1, <1>2

LEMMA CommandBounds == LoopBounds /\ (Command \/ Environment \/ Restart) => LoopBounds'
<1> SUFFICES ASSUME LoopBounds, Command \/ Environment \/ Restart PROVE LoopBounds'
  OBVIOUS
<1>1. Advance(loop) \in {loop, AtHead}
  BY DEF Advance
<1>2. CASE Command
  <2>1. ASSUME NEW jobs, NEW mode, NEW auto, Starts(jobs, mode, auto)
        PROVE  loop' = Advance(loop)
    BY <2>1 DEF Starts
  <2>2. ASSUME Start \/ StartFeedback \/ StartSimulation PROVE loop' \in {loop, Advance(loop)}
    BY <2>1, <2>2 DEF Start, StartFeedback, StartSimulation
  <2>3. ASSUME StartShip \/ Stop \/ Kill PROVE loop' \in {loop, Advance(loop)}
    BY <2>3 DEF StartShip, Stop, Kill
  <2>4. ASSUME Decide PROVE loop' \in {loop, Advance(loop)}
    BY <2>4 DEF Decide
  <2>5. ASSUME SetControlMode PROVE loop' \in {loop, Advance(loop)}
    BY <2>5 DEF SetControlMode
  <2>6. ASSUME ContinuePipeline \/ Resume PROVE loop' \in {loop, Advance(loop)}
    BY <2>6 DEF ContinuePipeline, Resume
  <2>7. loop' \in {loop, Advance(loop)}
    BY <1>2, <2>2, <2>3, <2>4, <2>5, <2>6 DEF Command
  <2>8. QED
    BY <1>1, <2>7, BoundsKept
<1>3. CASE Environment \/ Restart
  BY <1>3, BoundsKept DEF Environment, ExecutorWrites, CooldownEnds, OwnerCleansTree, Restart
<1>4. QED
  BY <1>2, <1>3

\* What happens outside the engine gives the loop nothing to do.
LEMMA EnvironmentWork == TypeOK /\ Environment => Work' = Work
<1> SUFFICES ASSUME TypeOK, Environment PROVE Work' = Work
  OBVIOUS
<1>1. loop' = loop /\ SameJobs(pipeline')
  BY DEF TypeOK, Environment, ExecutorWrites, CooldownEnds, OwnerCleansTree, SameJobs, SameOptions, Pipeline
<1>2. JobsLeft' = JobsLeft
  BY <1>1, SameJobsLeft
<1>3. Stage' = Stage /\ AttemptsLeft' = AttemptsLeft /\ Turn' = Turn /\ PlayersLeft' = PlayersLeft
  BY <1>1, <1>2 DEF Stage, AttemptsLeft, Turn, PlayersLeft, Open, Here
<1>4. QED
  BY <1>1, <1>2, <1>3 DEF Work, SameJobs, SameOptions

\* Each step of the loop ends it or lowers what it has to do; nothing but a command or
\* a restart ever raises it.
RunsDown ==
  /\ LoopStep => loop'.pc = "idle" \/ <<Work', Work>> \in WorkOrder
  /\ Environment => Work' = Work

LEMMA NextBounds == IInv /\ LoopBounds /\ [Next]_vars => LoopBounds'
<1> SUFFICES ASSUME IInv, LoopBounds, [Next]_vars PROVE LoopBounds'
  OBVIOUS
<1>1. CASE LoopStep
  BY <1>1, LoopRuns DEF Runs, IInv
<1>2. CASE UNCHANGED vars
  BY <1>2, BoundsKept DEF vars
<1>3. QED
  BY <1>1, <1>2, CommandBounds DEF Next

WorkOK == Work \in Works

LEMMA NextRuns == IInv /\ LoopBounds /\ WorkOK /\ WorkOK' /\ [Next]_vars => [RunsDown]_vars
<1> SUFFICES ASSUME IInv, LoopBounds, WorkOK, WorkOK', [Next]_vars
             PROVE  RunsDown
  OBVIOUS
<1>1. TypeOK /\ LoopLocals
  BY DEF IInv
<1>2. ASSUME LoopStep PROVE loop'.pc = "idle" \/ <<Work', Work>> \in WorkOrder
  BY <1>1, <1>2, LoopRuns, LoweredWork DEF Runs, WorkOK
<1>3. QED
  BY <1>1, <1>2, EnvironmentWork DEF RunsDown

\* The loop cannot run for ever by itself: every one of its steps ends it or lowers
\* what it has left to do, a list of numbers ordered without infinite descent (the plan
\* of a GO, the simulator's iteration, jobs, the place in the job, players, attempts),
\* and the executor and the cooldowns raise nothing. Between two commands or restarts
\* the loop takes finitely many steps: LoopSettles needs no more of the scheduler than
\* that its own code runs on; only a program that never closes can hold it.
THEOREM LoopRunsDown == Spec => [][RunsDown]_vars
<1>1. Init => LoopBounds
  BY DEF Init, Idle, LoopBounds, Here, Attempting
<1>2. Spec => [](LoopBounds /\ IInv)
  BY <1>1, NextBounds, Invariance, PTL DEF Spec
<1>3. LoopBounds /\ IInv => WorkOK
  BY WorkType DEF IInv, WorkOK
<1>4. QED
  BY <1>2, <1>3, NextRuns, PTL DEF Spec
=============================================================================
