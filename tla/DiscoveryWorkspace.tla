------------------------- MODULE DiscoveryWorkspace -------------------------
(***************************************************************************)
(* The discovery workspace (maestro/discovery/workspace.mjs) and what it   *)
(* uses of the engine manager: theses gather evidence, open gates, get one *)
(* build, then one acquisition whose metrics come back from outside.       *)
(*                                                                         *)
(* All its state is one JSON file that every operation reads, changes and  *)
(* replaces without an await, so an operation is one step.  startBuild is  *)
(* the exception: it writes the reservation, starts a pipeline, which the  *)
(* engine writes to a file of its own, and writes the outcome.  No other   *)
(* operation runs in between, but the process may end there.               *)
(*                                                                         *)
(* Left out: rooms, messages and validation assets, which nothing reads    *)
(* back; texts and dates; the evidence that an experiment cites; the       *)
(* metric an imported return adds as evidence of a kind no gate asks for;  *)
(* the files of a prepared handoff and its exports; the `revision` of the  *)
(* file, which stale requests are compared with.                           *)
(***************************************************************************)
EXTENDS Naturals, Sequences, FiniteSets

CONSTANTS
  Theses,            \* ids of theses
  Apps,              \* ids of apps a build may go to
  Drafts,            \* the evidence that may be recorded, as its contents
  Decisions,         \* the verdicts the owner uses in the instance
  ValidationLimit,   \* theses in validation at a time (3 in the code)
  BuildLimit,        \* builds at a time (1 in the code)
  AcquisitionLimit,  \* acquisitions at a time (1 in the code)
  MaxProposals,      \* bound: build proposals, of all theses
  MaxExperiments,    \* bound: experiments
  MaxBuilds,         \* bound: builds ever reserved
  MaxAcquisitions,   \* bound: acquisitions ever started
  Amounts,           \* money: what may be approved and what may be spent
  MayCrash           \* BOOLEAN: may the process end while a build starts?

Validations == { "pain", "reach", "action", "economic" }

Draft == [ thesis : Theses, validation : Validations,
           counts : BOOLEAN ]    \* supporting and not synthetic

ASSUME InstanceAssumption ==
  /\ Drafts \subseteq Draft /\ Decisions \subseteq { "verified", "rejected" }
  /\ Amounts \subseteq Nat \ {0} /\ MayCrash \in BOOLEAN
ASSUME LimitsAssumption ==
  /\ ValidationLimit \in Nat /\ BuildLimit = 1 /\ AcquisitionLimit = 1
ASSUME BoundsAssumption ==
  /\ MaxProposals \in Nat /\ MaxExperiments \in Nat /\ MaxBuilds \in Nat
  /\ MaxAcquisitions \in Nat

VARIABLES
  theses,        \* thesis -> its record
  evidence,      \* draft -> "absent" or the decision on it
  experiments,   \* in the order of creation
  builds,        \* in the order of reservation
  acquisitions,  \* in the order they started
  handoffs,      \* what prepared handoffs freeze
  returns,       \* imported returns
  proposals,     \* number of proposals made, the source of their ids
  pipelines,     \* app -> its pipeline in the engine, kept in a file
  call           \* the startBuild in progress

vars == << theses, evidence, experiments, builds, acquisitions, handoffs, returns,
           proposals, pipelines, call >>

NoThesis == "none"
NoApp == "none"    \* null in the code, which no app's id is
None == 0          \* no proposal, no build, no acquisition, no approved spend

ASSUME NamesAssumption == NoApp \notin Apps

Stages == { "absent", "proposed", "confirmed", "validating", "building",
            "acquisition_ready", "killed", "failed" }

Thesis == [ stage : Stages, proposal : Nat, refs : SUBSET Drafts, build : Nat,
            acquisition : Nat ]
Experiment == [ thesis : Theses, status : {"draft", "running", "completed"}, ceiling : Nat ]
BuildStatus == { "starting", "building", "completed", "killed", "failed" }
Build == [ thesis : Theses, proposal : Nat, status : BuildStatus, app : Apps \cup {NoApp} ]
Acquisition == [ thesis : Theses, experiment : Nat,
                 status : {"active", "completed", "terminated"} ]
Handoff == [ thesis : Theses, experiment : Nat, build : Nat, proposal : Nat, ceiling : Nat ]
Return == [ experiment : Nat, spend : Nat ]
PipelineOf == [ thesis : Theses \cup {NoThesis}, proposal : Nat, active : BOOLEAN ]
Call == [ pc : {"idle", "reserved", "started", "refused"},
          build : Nat, app : Apps \cup {NoApp} ]

NoCall == [ pc |-> "idle", build |-> None, app |-> NoApp ]
Quiet == call = NoCall

-----------------------------------------------------------------------------
(* Gates: evaluateGates of discovery/gates.mjs.                             *)

\* a mistake: synthetic and contradicting evidence counts as well
CountingEverything(t) == { d \in Drafts : d.thesis = t /\ evidence[d] = "verified" }

\* the evidence of a thesis that a gate may use
Counting(t) == { d \in Drafts : d.thesis = t /\ evidence[d] = "verified" /\ d.counts }

Covers(refs, required) == required \subseteq { d.validation : d \in refs }

\* gates.build: e1 (pain, reach) and e2 (action)
E1 == { "pain", "reach" }
E2 == { "action" }
BuildGate(t) == Covers(Counting(t), E1 \cup E2)

-----------------------------------------------------------------------------
(* Work in progress.                                                        *)

Running == { e \in DOMAIN experiments : experiments[e].status = "running" }
InValidation == { experiments[e].thesis : e \in Running }
ActiveBuilds == { b \in DOMAIN builds : builds[b].status \in {"starting", "building"} }
ActiveAcquisitions == { a \in DOMAIN acquisitions : acquisitions[a].status = "active" }

Init ==
  /\ theses = [t \in Theses |-> [ stage |-> "absent", proposal |-> None, refs |-> {},
                                  build |-> None, acquisition |-> None ]]
  /\ evidence = [d \in Drafts |-> "absent"]
  /\ experiments = <<>> /\ builds = <<>> /\ acquisitions = <<>>
  /\ handoffs = {} /\ returns = {} /\ proposals = 0
  /\ pipelines = [a \in Apps |-> [ thesis |-> NoThesis, proposal |-> None, active |-> FALSE ]]
  /\ call = NoCall

-----------------------------------------------------------------------------
(* Theses, evidence, experiments.                                           *)

ProposeThesis(t) ==
  /\ Quiet /\ theses[t].stage = "absent"
  /\ theses' = [theses EXCEPT ![t].stage = "proposed"]
  /\ UNCHANGED << evidence, experiments, builds, acquisitions, handoffs, returns,
                  proposals, pipelines, call >>

ConfirmThesis(t) ==
  /\ Quiet /\ theses[t].stage = "proposed"
  /\ theses' = [theses EXCEPT ![t].stage = "confirmed"]
  /\ UNCHANGED << evidence, experiments, builds, acquisitions, handoffs, returns,
                  proposals, pipelines, call >>

RecordEvidence(d) ==
  /\ Quiet /\ theses[d.thesis].stage # "absent" /\ evidence[d] = "absent"
  /\ evidence' = [evidence EXCEPT ![d] = "unverified"]
  /\ UNCHANGED << theses, experiments, builds, acquisitions, handoffs, returns,
                  proposals, pipelines, call >>

\* The owner may decide again, at any time.
VerifyEvidence(d, decision) ==
  /\ Quiet /\ evidence[d] \notin { "absent", decision }
  /\ evidence' = [evidence EXCEPT ![d] = decision]
  /\ UNCHANGED << theses, experiments, builds, acquisitions, handoffs, returns,
                  proposals, pipelines, call >>

CreateExperiment(t) ==
  /\ Quiet /\ theses[t].stage # "absent" /\ Len(experiments) < MaxExperiments
  /\ experiments' =
       Append(experiments, [ thesis |-> t, status |-> "draft", ceiling |-> None ])
  /\ UNCHANGED << theses, evidence, builds, acquisitions, handoffs, returns,
                  proposals, pipelines, call >>

\* The experiment may be one that is already completed.
StartValidation(t, e) ==
  /\ Quiet /\ theses[t].stage \in { "confirmed", "validating" }
  /\ experiments[e].thesis = t /\ experiments[e].status # "running"
  /\ t \in InValidation \/ Cardinality(InValidation) < ValidationLimit
  /\ experiments' = [experiments EXCEPT ![e].status = "running"]
  /\ theses' = [theses EXCEPT ![t].stage = "validating"]
  /\ UNCHANGED << evidence, builds, acquisitions, handoffs, returns, proposals,
                  pipelines, call >>

CompleteExperiment(e) ==
  /\ Quiet /\ experiments[e].status # "completed"
  /\ experiments' = [experiments EXCEPT ![e].status = "completed"]
  /\ UNCHANGED << theses, evidence, builds, acquisitions, handoffs, returns,
                  proposals, pipelines, call >>

ApproveSpend(e, amount) ==
  /\ Quiet /\ experiments[e].ceiling # amount
  /\ experiments' = [experiments EXCEPT ![e].ceiling = amount]
  /\ UNCHANGED << theses, evidence, builds, acquisitions, handoffs, returns,
                  proposals, pipelines, call >>

-----------------------------------------------------------------------------
(* Builds.                                                                  *)

\* A new proposal replaces the thesis's proposal as long as no build runs.
ProposeBuild(t) ==
  /\ Quiet /\ theses[t].stage \in { "confirmed", "validating" }
  /\ BuildGate(t) /\ proposals < MaxProposals
  /\ proposals' = proposals + 1
  /\ theses' = [theses EXCEPT ![t].proposal = proposals + 1,
                              ![t].refs = { d \in Counting(t) : d.validation \in E1 \cup E2 }]
  /\ UNCHANGED << evidence, experiments, builds, acquisitions, handoffs, returns,
                  pipelines, call >>

Reserve(t, app) ==
  /\ builds' = Append(builds, [ thesis |-> t, proposal |-> theses[t].proposal,
                                status |-> "starting", app |-> NoApp ])
  /\ theses' = [theses EXCEPT ![t].build = Len(builds) + 1]
  /\ call' = [ pc |-> "reserved", build |-> Len(builds) + 1, app |-> app ]
  /\ UNCHANGED << evidence, experiments, acquisitions, handoffs, returns, proposals,
                  pipelines >>

\* a mistake: a build that is starting does not count against the limit
StartBuildBesideStarting(t, app) ==
  /\ Quiet /\ theses[t].build = None /\ theses[t].proposal # None
  /\ \A b \in DOMAIN builds : builds[b].status # "building"
  /\ Len(builds) < MaxBuilds
  /\ Reserve(t, app)

\* startBuild up to its reservation: the gates are not looked at again
StartBuild(t, app) ==
  /\ Quiet /\ theses[t].build = None /\ theses[t].proposal # None
  /\ ActiveBuilds = {} /\ Len(builds) < MaxBuilds
  /\ Reserve(t, app)

\* engineManager.startFromDiscovery: a pipeline of this very proposal is
\* returned as it is; any other active one makes the engine refuse
SameProposal(app, b) ==
  pipelines[app].thesis = b.thesis /\ pipelines[app].proposal = b.proposal

EngineStarts ==
  LET b == builds[call.build]  app == call.app
  IN  /\ call.pc = "reserved"
      /\ SameProposal(app, b) \/ ~pipelines[app].active
      /\ pipelines' = IF SameProposal(app, b) THEN pipelines
                      ELSE [pipelines EXCEPT ![app] = [ thesis |-> b.thesis,
                                              proposal |-> b.proposal, active |-> TRUE ]]
      /\ call' = [call EXCEPT !.pc = "started"]
      /\ UNCHANGED << theses, evidence, experiments, builds, acquisitions, handoffs,
                      returns, proposals >>

\* an active pipeline of the app, or any option the engine does not accept
EngineRefuses ==
  /\ call.pc = "reserved" /\ ~SameProposal(call.app, builds[call.build])
  /\ call' = [call EXCEPT !.pc = "refused"]
  /\ UNCHANGED << theses, evidence, experiments, builds, acquisitions, handoffs,
                  returns, proposals, pipelines >>

BuildMarked ==
  LET b == call.build
  IN  /\ call.pc = "started"
      /\ builds' = [builds EXCEPT ![b].status = "building", ![b].app = call.app]
      /\ theses' = [theses EXCEPT ![builds[b].thesis].stage = "building"]
      /\ call' = NoCall
      /\ UNCHANGED << evidence, experiments, acquisitions, handoffs, returns, proposals,
                      pipelines >>

\* a mistake: the failed build stays the build of its thesis
BuildReleasedHalfway ==
  /\ call.pc = "refused"
  /\ theses' = [theses EXCEPT ![builds[call.build].thesis].build = None]
  /\ call' = NoCall
  /\ UNCHANGED << evidence, experiments, builds, acquisitions, handoffs, returns,
                  proposals, pipelines >>

BuildReleased ==
  LET b == call.build
  IN  /\ call.pc = "refused"
      /\ builds' = [builds EXCEPT ![b].status = "failed"]
      /\ theses' = [theses EXCEPT ![builds[b].thesis].build = None]
      /\ call' = NoCall
      /\ UNCHANGED << evidence, experiments, acquisitions, handoffs, returns, proposals,
                      pipelines >>

\* The process ends inside startBuild; both files keep what was written.
Crash ==
  /\ MayCrash /\ ~Quiet
  /\ call' = NoCall
  /\ UNCHANGED << theses, evidence, experiments, builds, acquisitions, handoffs,
                  returns, proposals, pipelines >>

\* completeBuild: the status the build had is not looked at
CompleteBuild(b) ==
  /\ Quiet
  /\ builds' = [builds EXCEPT ![b].status = "completed"]
  /\ theses' = [theses EXCEPT ![builds[b].thesis].stage = "acquisition_ready"]
  /\ UNCHANGED << evidence, experiments, acquisitions, handoffs, returns, proposals,
                  pipelines, call >>

\* terminateBuild: the pipeline of the build is not told
TerminateBuild(b, status) ==
  /\ Quiet /\ b \in ActiveBuilds
  /\ builds' = [builds EXCEPT ![b].status = status]
  /\ theses' = [theses EXCEPT ![builds[b].thesis].stage = status]
  /\ UNCHANGED << evidence, experiments, acquisitions, handoffs, returns, proposals,
                  pipelines, call >>

\* The engine's side: the pipeline of an app is done or killed.
PipelineEnds(app) ==
  /\ Quiet /\ pipelines[app].active
  /\ pipelines' = [pipelines EXCEPT ![app].active = FALSE]
  /\ UNCHANGED << theses, evidence, experiments, builds, acquisitions, handoffs,
                  returns, proposals, call >>

-----------------------------------------------------------------------------
(* Handoff, acquisition, return.                                            *)

HasBuild(t) == theses[t].build # None /\ builds[theses[t].build].status = "completed"

\* a mistake: a build that never learned its app can be handed off
PrepareHandoffAnyApp(t, e) ==
  LET b == theses[t].build
  IN  /\ Quiet /\ experiments[e].thesis = t /\ HasBuild(t)
      /\ handoffs' = handoffs \cup { [ thesis |-> t, experiment |-> e, build |-> b,
                                       proposal |-> theses[t].proposal,
                                       ceiling |-> experiments[e].ceiling ] }
      /\ UNCHANGED << theses, evidence, experiments, builds, acquisitions, returns,
                      proposals, pipelines, call >>

\* prepareBragaHandoff: the contract freezes the proposal the thesis has now
PrepareHandoff(t, e) ==
  LET b == theses[t].build
  IN  /\ Quiet /\ experiments[e].thesis = t /\ HasBuild(t) /\ builds[b].app # NoApp
      /\ handoffs' = handoffs \cup { [ thesis |-> t, experiment |-> e, build |-> b,
                                       proposal |-> theses[t].proposal,
                                       ceiling |-> experiments[e].ceiling ] }
      /\ UNCHANGED << theses, evidence, experiments, builds, acquisitions, returns,
                      proposals, pipelines, call >>

Acquire(t, e) ==
  /\ acquisitions' = Append(acquisitions, [ thesis |-> t, experiment |-> e,
                                            status |-> "active" ])
  /\ theses' = [theses EXCEPT ![t].acquisition = Len(acquisitions) + 1]
  /\ UNCHANGED << evidence, experiments, builds, handoffs, returns, proposals,
                  pipelines, call >>

\* startAcquisition: a thesis has at most one, whatever became of it
StartAcquisition(t, e) ==
  /\ Quiet /\ Covers(Counting(t), E2) /\ experiments[e].thesis = t /\ HasBuild(t)
  /\ theses[t].acquisition = None /\ ActiveAcquisitions = {}
  /\ Len(acquisitions) < MaxAcquisitions
  /\ Acquire(t, e)

EndAcquisition(a, status) ==
  /\ Quiet /\ a \in ActiveAcquisitions
  /\ acquisitions' = [acquisitions EXCEPT ![a].status = status]
  /\ UNCHANGED << theses, evidence, experiments, builds, handoffs, returns, proposals,
                  pipelines, call >>

\* importBragaReturn: the first return of an experiment stands, and completes
\* the acquisition of that experiment if it is active
ImportReturn(e, spend) ==
  /\ Quiet /\ spend <= experiments[e].ceiling
  /\ \A r \in returns : r.experiment # e
  /\ returns' = returns \cup { [ experiment |-> e, spend |-> spend ] }
  /\ acquisitions' =
       [a \in DOMAIN acquisitions |->
          IF acquisitions[a].experiment = e /\ a \in ActiveAcquisitions
          THEN [acquisitions[a] EXCEPT !.status = "completed"] ELSE acquisitions[a]]
  /\ UNCHANGED << theses, evidence, experiments, builds, handoffs, proposals,
                  pipelines, call >>

-----------------------------------------------------------------------------
Research ==
  \/ \E t \in Theses : ProposeThesis(t) \/ ConfirmThesis(t) \/ CreateExperiment(t)
  \/ \E d \in Drafts : RecordEvidence(d)
  \/ \E d \in Drafts, decision \in Decisions : VerifyEvidence(d, decision)
  \/ \E e \in DOMAIN experiments : CompleteExperiment(e)
  \/ \E t \in Theses, e \in DOMAIN experiments : StartValidation(t, e)
  \/ \E e \in DOMAIN experiments, amount \in Amounts : ApproveSpend(e, amount)

Construction ==
  \/ \E t \in Theses : ProposeBuild(t)
  \/ \E t \in Theses, app \in Apps : StartBuild(t, app)
  \/ EngineStarts \/ EngineRefuses \/ BuildMarked \/ BuildReleased \/ Crash
  \/ \E b \in DOMAIN builds : CompleteBuild(b)
  \/ \E b \in DOMAIN builds, status \in {"killed", "failed"} : TerminateBuild(b, status)
  \/ \E app \in Apps : PipelineEnds(app)

Market ==
  \/ \E t \in Theses, e \in DOMAIN experiments : PrepareHandoff(t, e) \/ StartAcquisition(t, e)
  \/ \E a \in DOMAIN acquisitions, status \in {"completed", "terminated"} :
       EndAcquisition(a, status)
  \/ \E e \in DOMAIN experiments, spend \in Amounts \cup {0} : ImportReturn(e, spend)

Next == Research \/ Construction \/ Market

Spec == Init /\ [][Next]_vars

-----------------------------------------------------------------------------
\* The shape of the workspace file, of the pipelines and of the call.
TypeOK ==
  /\ theses \in [Theses -> Thesis]
  /\ evidence \in [Drafts -> {"absent", "unverified", "verified", "rejected"}]
  /\ experiments \in Seq(Experiment) /\ builds \in Seq(Build)
  /\ acquisitions \in Seq(Acquisition)
  /\ handoffs \subseteq Handoff /\ returns \subseteq Return /\ proposals \in Nat
  /\ pipelines \in [Apps -> PipelineOf]
  /\ call \in Call

\* Work in progress as the abstract pools see it.
Pool == { "validation", "build", "acquisition" }
Held == [p \in Pool |-> CASE p = "validation" -> InValidation
                          [] p = "build" -> ActiveBuilds
                          [] p = "acquisition" -> ActiveAcquisitions]
Places == [p \in Pool |-> CASE p = "validation" -> ValidationLimit
                            [] p = "build" -> BuildLimit
                            [] p = "acquisition" -> AcquisitionLimit]
Wip == INSTANCE WorkInProgress WITH Pools <- Pool, held <- Held, Limit <- Places

\* Every operation takes or gives back at most one place of one pool and never
\* goes over a limit (the checks "WIP ... atingido").
LimitsRespected == Wip!Spec

\* A build that holds the slot is the one its thesis refers to, and a build that
\* runs was started from the proposal its thesis still has: a failed start, a
\* crash and a second proposal in between change nothing of that.
ActiveBuildLinked ==
  \A b \in ActiveBuilds :
    LET t == builds[b].thesis
    IN  /\ theses[t].build = b
        /\ builds[b].status = "building" => theses[t].proposal = builds[b].proposal

\* the references of the proposal of t that are external, supporting and verified now
\* are enough for its gate
Proven(t) ==
  Covers({ d \in theses[t].refs : d.thesis = t /\ d.counts /\ evidence[d] = "verified" }, E1 \cup E2)

\* A proposal is proven when it is made, and only a rejection of evidence it rests on ends
\* that: no failed or interrupted start, later evidence or second proposal does. (It may
\* be rejected before the build starts, and startBuild does not look at it again.)
ProvenUntilRejected ==
  [][\A t \in Theses : (theses[t].proposal # None /\ ~Proven(t))' =>
       /\ UNCHANGED << theses[t].proposal, theses[t].refs >>
       /\ Proven(t) => \E d \in theses[t].refs : evidence[d] = "verified" /\ evidence'[d] = "rejected"]_vars

\* What a handoff promises outside is the proposal its build was started from,
\* whatever crashed, failed or was proposed again in between.
HandoffFrozen ==
  \A h \in handoffs : h.proposal = builds[h.build].proposal /\ builds[h.build].thesis = h.thesis

\* An acquisition that is active belongs to its thesis, whose build stays completed.
AcquisitionBacked ==
  \A a \in ActiveAcquisitions :
    LET t == acquisitions[a].thesis
    IN  theses[t].acquisition = a /\ HasBuild(t) /\ experiments[acquisitions[a].experiment].thesis = t

\* What holds a place is what its thesis refers to.
PlacesBacked == ActiveBuildLinked /\ AcquisitionBacked

=============================================================================
