----------------------- MODULE DiscoveryWorkspaceProofs -----------------------
(***************************************************************************)
(* What DiscoveryWorkspace promises, proved for every set of theses, apps  *)
(* and drafts: proposals rest on proven evidence, handoffs on the proposal *)
(* of their build, every place taken on its thesis, and the workspace      *)
(* implements the pools of WorkInProgress.                                 *)
(***************************************************************************)
EXTENDS DiscoveryWorkspace, FiniteSetTheorems, SequenceTheorems, TLAPS

\* Stages a thesis reaches only through a build, and never leaves for an earlier one.
Built == {"building", "acquisition_ready", "killed", "failed"}

\* A thesis refers to a build of its own; every build has the proposal it was reserved with.
BuildsOwned ==
  /\ \A t \in Theses : theses[t].build # None =>
       /\ theses[t].build \in DOMAIN builds
       /\ builds[theses[t].build].thesis = t
  /\ \A b \in DOMAIN builds : builds[b].proposal # None

\* The build of the call in progress holds the place, and nothing was proposed since.
CallBacked ==
  call # NoCall =>
    /\ call.pc # "idle" /\ call.build \in DOMAIN builds
    /\ builds[call.build].status = "starting" /\ builds[call.build].app = NoApp
         /\ call.app \in Apps
    /\ theses[builds[call.build].thesis].build = call.build
    /\ theses[builds[call.build].thesis].proposal = builds[call.build].proposal

\* A build that learned its app is the build of its thesis, which can propose no other.
MarkedBuildLinked ==
  \A b \in DOMAIN builds :
    LET t == builds[b].thesis
    IN  /\ builds[b].status = "building" => builds[b].app # NoApp
        /\ builds[b].app # NoApp =>
             /\ theses[t].build = b /\ theses[t].stage \in Built
             /\ theses[t].proposal = builds[b].proposal

\* One build and one acquisition at a time, and only so many theses in validation.
OneAtATime ==
  /\ \A b, c \in ActiveBuilds : b = c
  /\ \A a, c \in ActiveAcquisitions : a = c

HandoffsKnown == \A h \in handoffs : h.build \in DOMAIN builds

ExperimentsKnown == \A a \in ActiveAcquisitions : acquisitions[a].experiment \in DOMAIN experiments

ActiveLinked == \A b \in ActiveBuilds : theses[builds[b].thesis].build = b

\* What a proposal rests on was decided by the owner, who may have rejected it since.
RefsDecided ==
  \A t \in Theses : theses[t].proposal # None =>
    /\ Covers(theses[t].refs, E1 \cup E2)
    /\ \A d \in theses[t].refs : d.thesis = t /\ d.counts /\ evidence[d] \notin {"absent", "unverified"}

IInv ==
  /\ TypeOK /\ BuildsOwned /\ CallBacked /\ MarkedBuildLinked /\ OneAtATime
  /\ HandoffsKnown /\ ExperimentsKnown /\ ActiveLinked
  /\ RefsDecided /\ HandoffFrozen /\ AcquisitionBacked

-----------------------------------------------------------------------------
(* What setting one field of a record in the workspace changes.             *)

\* A thesis enters another stage.
LEMMA StageSet ==
  ASSUME NEW th \in [Theses -> Thesis], NEW t \in Theses, NEW s \in Stages
  PROVE  LET new == [th EXCEPT ![t].stage = s]
         IN  /\ new \in [Theses -> Thesis]
             /\ \A u \in Theses : /\ new[u].stage = IF u = t THEN s ELSE th[u].stage
                                  /\ new[u].proposal = th[u].proposal
                                  /\ new[u].refs = th[u].refs
                                  /\ new[u].build = th[u].build
                                  /\ new[u].acquisition = th[u].acquisition
<1>1. \A u \in Theses : th[u] \in Thesis
  OBVIOUS
<1> QED
  BY <1>1 DEF Thesis

\* A thesis refers to another build, or to none.
LEMMA BuildRefSet ==
  ASSUME NEW th \in [Theses -> Thesis], NEW t \in Theses, NEW n \in Nat
  PROVE  LET new == [th EXCEPT ![t].build = n]
         IN  /\ new \in [Theses -> Thesis]
             /\ \A u \in Theses : /\ new[u].build = IF u = t THEN n ELSE th[u].build
                                  /\ new[u].stage = th[u].stage
                                  /\ new[u].proposal = th[u].proposal
                                  /\ new[u].refs = th[u].refs
                                  /\ new[u].acquisition = th[u].acquisition
<1>1. \A u \in Theses : th[u] \in Thesis
  OBVIOUS
<1> QED
  BY <1>1 DEF Thesis

\* A thesis refers to an acquisition.
LEMMA AcquisitionRefSet ==
  ASSUME NEW th \in [Theses -> Thesis], NEW t \in Theses, NEW n \in Nat
  PROVE  LET new == [th EXCEPT ![t].acquisition = n]
         IN  /\ new \in [Theses -> Thesis]
             /\ \A u \in Theses : /\ new[u].acquisition = IF u = t THEN n ELSE th[u].acquisition
                                  /\ new[u].stage = th[u].stage
                                  /\ new[u].proposal = th[u].proposal
                                  /\ new[u].refs = th[u].refs
                                  /\ new[u].build = th[u].build
<1>1. \A u \in Theses : th[u] \in Thesis
  OBVIOUS
<1> QED
  BY <1>1 DEF Thesis

\* A sequence with another k-th element.
LEMMA ElementSet ==
  ASSUME NEW S, NEW sq \in Seq(S), NEW k \in DOMAIN sq, NEW r \in S
  PROVE  LET new == [sq EXCEPT ![k] = r]
         IN  /\ new \in Seq(S) /\ DOMAIN new = DOMAIN sq
             /\ \A c \in DOMAIN sq : new[c] = IF c = k THEN r ELSE sq[c]
<1>1. DOMAIN sq = 1..Len(sq) /\ Len(sq) \in Nat /\ sq \in [1..Len(sq) -> S]
  BY LenProperties
<1>2. [sq EXCEPT ![k] = r] \in [1..Len(sq) -> S]
  BY <1>1
<1> QED
  BY <1>1, <1>2, SeqDef

\* A sequence with one more element.
LEMMA ElementAdded ==
  ASSUME NEW S, NEW sq \in Seq(S), NEW r \in S
  PROVE  LET new == Append(sq, r)
         IN  /\ new \in Seq(S) /\ DOMAIN new = DOMAIN sq \cup {Len(sq) + 1}
             /\ Len(sq) + 1 \notin DOMAIN sq
             /\ \A c \in DOMAIN sq : new[c] = sq[c]
             /\ new[Len(sq) + 1] = r
<1>1. /\ DOMAIN sq = 1..Len(sq) /\ Len(sq) \in Nat
      /\ DOMAIN Append(sq, r) = 1..Len(Append(sq, r))
  BY LenProperties, AppendProperties
<1> QED
  BY <1>1, AppendProperties

\* A build changes its status.
LEMMA BuildStatusSet ==
  ASSUME NEW sq \in Seq(Build), NEW b \in DOMAIN sq, NEW s \in BuildStatus
  PROVE  LET new == [sq EXCEPT ![b].status = s]
         IN  /\ new \in Seq(Build) /\ DOMAIN new = DOMAIN sq
             /\ \A c \in DOMAIN sq : /\ new[c].status = IF c = b THEN s ELSE sq[c].status
                                    /\ new[c].thesis = sq[c].thesis
                                    /\ new[c].proposal = sq[c].proposal
                                    /\ new[c].app = sq[c].app
<1>1. DOMAIN sq = 1..Len(sq) /\ Len(sq) \in Nat /\ sq \in [1..Len(sq) -> Build]
  OBVIOUS
<1>2. \A c \in DOMAIN sq : sq[c] \in Build
  BY <1>1
<1>3. [sq EXCEPT ![b].status = s] \in [1..Len(sq) -> Build]
  BY <1>1, <1>2 DEF Build
<1>4. [sq EXCEPT ![b].status = s] \in Seq(Build)
  BY <1>1, <1>3, SeqDef
<1> QED
  BY <1>1, <1>2, <1>4 DEF Build

\* An experiment starts or ends.
LEMMA ExperimentStatusSet ==
  ASSUME NEW sq \in Seq(Experiment), NEW e \in DOMAIN sq, NEW s \in {"draft", "running",
    "completed"}
  PROVE  LET new == [sq EXCEPT ![e].status = s]
         IN  /\ new \in Seq(Experiment) /\ DOMAIN new = DOMAIN sq
             /\ \A c \in DOMAIN sq : /\ new[c].status = IF c = e THEN s ELSE sq[c].status
                                    /\ new[c].thesis = sq[c].thesis
                                    /\ new[c].ceiling = sq[c].ceiling
<1>1. DOMAIN sq = 1..Len(sq) /\ Len(sq) \in Nat /\ sq \in [1..Len(sq) -> Experiment]
  OBVIOUS
<1>2. \A c \in DOMAIN sq : sq[c] \in Experiment
  BY <1>1
<1>3. [sq EXCEPT ![e].status = s] \in [1..Len(sq) -> Experiment]
  BY <1>1, <1>2 DEF Experiment
<1>4. [sq EXCEPT ![e].status = s] \in Seq(Experiment)
  BY <1>1, <1>3, SeqDef
<1> QED
  BY <1>1, <1>2, <1>4 DEF Experiment

\* An experiment is granted money.
LEMMA CeilingSet ==
  ASSUME NEW sq \in Seq(Experiment), NEW e \in DOMAIN sq, NEW n \in Nat
  PROVE  LET new == [sq EXCEPT ![e].ceiling = n]
         IN  /\ new \in Seq(Experiment) /\ DOMAIN new = DOMAIN sq
             /\ \A c \in DOMAIN sq : /\ new[c].ceiling = IF c = e THEN n ELSE sq[c].ceiling
                                    /\ new[c].thesis = sq[c].thesis
                                    /\ new[c].status = sq[c].status
<1>1. DOMAIN sq = 1..Len(sq) /\ Len(sq) \in Nat /\ sq \in [1..Len(sq) -> Experiment]
  OBVIOUS
<1>2. \A c \in DOMAIN sq : sq[c] \in Experiment
  BY <1>1
<1>3. [sq EXCEPT ![e].ceiling = n] \in [1..Len(sq) -> Experiment]
  BY <1>1, <1>2 DEF Experiment
<1>4. [sq EXCEPT ![e].ceiling = n] \in Seq(Experiment)
  BY <1>1, <1>3, SeqDef
<1> QED
  BY <1>1, <1>2, <1>4 DEF Experiment

\* An acquisition ends.
LEMMA AcquisitionStatusSet ==
  ASSUME NEW sq \in Seq(Acquisition), NEW k \in DOMAIN sq, NEW s \in {"active", "completed",
    "terminated"},
         NEW new, new = [sq EXCEPT ![k].status = s]
  PROVE  /\ new \in Seq(Acquisition) /\ DOMAIN new = DOMAIN sq
         /\ \A c \in DOMAIN sq : /\ new[c].status = IF c = k THEN s ELSE sq[c].status
                                /\ new[c].thesis = sq[c].thesis
                                /\ new[c].experiment = sq[c].experiment
<1>1. PICK r : r = [sq[k] EXCEPT !.status = s]
  OBVIOUS
<1>2. sq[k] \in Acquisition /\ DOMAIN sq = 1..Len(sq) /\ Len(sq) \in Nat
        /\ sq \in [1..Len(sq) -> Acquisition]
  BY LenProperties
<1>3. r \in Acquisition /\ r.status = s /\ r.thesis = sq[k].thesis
        /\ r.experiment = sq[k].experiment
  BY <1>1, <1>2 DEF Acquisition
<1>4. [sq EXCEPT ![k].status = s] = [sq EXCEPT ![k] = r]
  BY <1>1, <1>2 DEF Acquisition
<1>5. /\ [sq EXCEPT ![k] = r] \in Seq(Acquisition) /\ DOMAIN [sq EXCEPT ![k] = r] = DOMAIN sq
      /\ \A c \in DOMAIN sq : [sq EXCEPT ![k] = r][c] = IF c = k THEN r ELSE sq[c]
  BY <1>3, ElementSet
<1> QED
  BY <1>3, <1>4, <1>5

\* What the types say of the records that are looked up.
Typed ==
  /\ DOMAIN experiments = 1..Len(experiments) /\ Len(experiments) \in Nat
  /\ \A e \in DOMAIN experiments : experiments[e].thesis \in Theses
       /\ experiments[e].ceiling \in Nat
  /\ DOMAIN builds = 1..Len(builds) /\ Len(builds) \in Nat
  /\ \A b \in DOMAIN builds : builds[b].thesis \in Theses /\ builds[b].proposal \in Nat
  /\ DOMAIN acquisitions = 1..Len(acquisitions) /\ Len(acquisitions) \in Nat
  /\ \A a \in DOMAIN acquisitions : acquisitions[a].thesis \in Theses
  /\ \A t \in Theses : /\ theses[t].build \in Nat /\ theses[t].proposal \in Nat
                       /\ theses[t].acquisition \in Nat /\ theses[t].refs \subseteq Drafts
  /\ \A d \in Drafts : d.thesis \in Theses

\* The types give what the records and lookups need.
LEMMA TypesGiveLookups == TypeOK => Typed
<1> SUFFICES ASSUME TypeOK PROVE Typed
  OBVIOUS
<1>1. /\ DOMAIN experiments = 1..Len(experiments) /\ Len(experiments) \in Nat
      /\ \A e \in DOMAIN experiments : experiments[e] \in Experiment
  BY LenProperties DEF TypeOK
<1>2. /\ DOMAIN builds = 1..Len(builds) /\ Len(builds) \in Nat
      /\ \A b \in DOMAIN builds : builds[b] \in Build
  BY LenProperties DEF TypeOK
<1>3. /\ DOMAIN acquisitions = 1..Len(acquisitions) /\ Len(acquisitions) \in Nat
      /\ \A a \in DOMAIN acquisitions : acquisitions[a] \in Acquisition
  BY LenProperties DEF TypeOK
<1>4. \A t \in Theses : theses[t] \in Thesis
  BY DEF TypeOK
<1>5. \A d \in Drafts : d.thesis \in Theses
  BY InstanceAssumption DEF Draft
<1> QED
  BY <1>1, <1>2, <1>3, <1>4, <1>5 DEF Typed, Experiment, Build, Acquisition, Thesis

\* An active acquisition and the records it leads to, without the sets they are in.
Backing ==
  \A a \in DOMAIN acquisitions : acquisitions[a].status = "active" =>
    LET u == acquisitions[a].thesis
    IN  /\ u \in Theses /\ acquisitions[a].experiment \in DOMAIN experiments
        /\ theses[u].acquisition = a
        /\ theses[u].build # None /\ theses[u].build \in DOMAIN builds
        /\ builds[theses[u].build].status = "completed"
        /\ experiments[acquisitions[a].experiment].thesis = u

\* An active acquisition leads to records that are there.
LEMMA ActiveBacked == IInv => Backing
<1> SUFFICES ASSUME IInv PROVE Backing
  OBVIOUS
<1>1. Typed
  BY TypesGiveLookups DEF IInv
<1> QED
  BY <1>1 DEF IInv, Typed, AcquisitionBacked, ExperimentsKnown, ActiveAcquisitions, HasBuild,
              BuildsOwned, Backing

-----------------------------------------------------------------------------
(* The places taken, as WorkInProgress sees them.                           *)

\* The three pools by name.
LEMMA HeldPools ==
  /\ DOMAIN Held = Pool
  /\ Held["validation"] = InValidation /\ Held["build"] = ActiveBuilds
  /\ Held["acquisition"] = ActiveAcquisitions
<1> QED
  BY DEF Held, Pool

\* The pools count with the same Cardinality.
LEMMA SameCardinality == \A S : Wip!Cardinality(S) = Cardinality(S)
<1> QED
  BY Zenon DEF Wip!Cardinality, Cardinality, Wip!IsFiniteSet, IsFiniteSet

\* Nothing taken, nothing given back.
LEMMA PlacesSame ==
  ASSUME InValidation' = InValidation, ActiveBuilds' = ActiveBuilds,
         ActiveAcquisitions' = ActiveAcquisitions
  PROVE  [Wip!Next]_Held
<1>1. Held' = Held
  BY DEF Held
<1> QED
  BY <1>1

\* A thesis enters validation, or leaves it.
LEMMA ValidationPlaceStep ==
  ASSUME NEW t, ActiveBuilds' = ActiveBuilds, ActiveAcquisitions' = ActiveAcquisitions,
         \/ /\ t \notin InValidation /\ Cardinality(InValidation) < ValidationLimit
            /\ InValidation' = InValidation \cup {t}
         \/ t \in InValidation /\ InValidation' = InValidation \ {t}
  PROVE  [Wip!Next]_Held
<1>1. Held' = [Held EXCEPT !["validation"] = InValidation']
  BY DEF Held, Pool
<1>2. "validation" \in Pool /\ Held["validation"] = InValidation
      /\ Held'["validation"] = InValidation'
  BY DEF Pool, Held
<1>3. t \in Held["validation"] \cup Held'["validation"]
  BY <1>2
<1>4. Places["validation"] = ValidationLimit
  BY DEF Pool, Places, Places
<1>5. CASE t \notin InValidation /\ Cardinality(InValidation) < ValidationLimit
        /\ InValidation' = InValidation \cup {t}
  <2>1. Wip!Take("validation", t)
    BY <1>5, <1>1, <1>2, <1>4, SameCardinality DEF Wip!Take
  <2> QED
    BY <2>1, <1>2, <1>3 DEF Wip!Next
<1>6. CASE t \in InValidation /\ InValidation' = InValidation \ {t}
  <2>1. Wip!Give("validation", t)
    BY <1>6, <1>1, <1>2 DEF Wip!Give
  <2> QED
    BY <2>1, <1>2, <1>3 DEF Wip!Next
<1> QED
  BY <1>5, <1>6

\* The build takes its place, or gives it back.
LEMMA BuildPlaceStep ==
  ASSUME NEW b, InValidation' = InValidation, ActiveAcquisitions' = ActiveAcquisitions,
         \/ ActiveBuilds = {} /\ ActiveBuilds' = {b}
         \/ b \in ActiveBuilds /\ ActiveBuilds' = ActiveBuilds \ {b}
  PROVE  [Wip!Next]_Held
<1>1. Held' = [Held EXCEPT !["build"] = ActiveBuilds']
  BY DEF Held, Pool
<1>2. "build" \in Pool /\ Held["build"] = ActiveBuilds /\ Held'["build"] = ActiveBuilds'
  BY DEF Pool, Held
<1>3. b \in Held["build"] \cup Held'["build"]
  BY <1>2
<1>4. Places["build"] = 1
  BY LimitsAssumption DEF Pool, Places
<1>5. Cardinality({}) = 0
  BY FS_EmptySet
<1>6. CASE ActiveBuilds = {} /\ ActiveBuilds' = {b}
  <2>1. Wip!Take("build", b)
    BY <1>6, <1>1, <1>2, <1>4, <1>5, SameCardinality DEF Wip!Take
  <2> QED
    BY <2>1, <1>2, <1>3 DEF Wip!Next
<1>7. CASE b \in ActiveBuilds /\ ActiveBuilds' = ActiveBuilds \ {b}
  <2>1. Wip!Give("build", b)
    BY <1>7, <1>1, <1>2 DEF Wip!Give
  <2> QED
    BY <2>1, <1>2, <1>3 DEF Wip!Next
<1> QED
  BY <1>6, <1>7

\* The acquisition takes its place, or gives it back.
LEMMA AcquisitionPlaceStep ==
  ASSUME NEW a, InValidation' = InValidation, ActiveBuilds' = ActiveBuilds,
         \/ ActiveAcquisitions = {} /\ ActiveAcquisitions' = {a}
         \/ a \in ActiveAcquisitions /\ ActiveAcquisitions' = ActiveAcquisitions \ {a}
  PROVE  [Wip!Next]_Held
<1>1. Held' = [Held EXCEPT !["acquisition"] = ActiveAcquisitions']
  BY DEF Held, Pool
<1>2. "acquisition" \in Pool /\ Held["acquisition"] = ActiveAcquisitions
      /\ Held'["acquisition"] = ActiveAcquisitions'
  BY DEF Pool, Held
<1>3. a \in Held["acquisition"] \cup Held'["acquisition"]
  BY <1>2
<1>4. Places["acquisition"] = 1
  BY LimitsAssumption DEF Pool, Places
<1>5. Cardinality({}) = 0
  BY FS_EmptySet
<1>6. CASE ActiveAcquisitions = {} /\ ActiveAcquisitions' = {a}
  <2>1. Wip!Take("acquisition", a)
    BY <1>6, <1>1, <1>2, <1>4, <1>5, SameCardinality DEF Wip!Take
  <2> QED
    BY <2>1, <1>2, <1>3 DEF Wip!Next
<1>7. CASE a \in ActiveAcquisitions /\ ActiveAcquisitions' = ActiveAcquisitions \ {a}
  <2>1. Wip!Give("acquisition", a)
    BY <1>7, <1>1, <1>2 DEF Wip!Give
  <2> QED
    BY <2>1, <1>2, <1>3 DEF Wip!Next
<1> QED
  BY <1>6, <1>7

\* Proposing a thesis changes only its stage.
LEMMA ProposeThesisStep ==
  ASSUME IInv, NEW t \in Theses, ProposeThesis(t)
  PROVE  IInv' /\ [Wip!Next]_Held
<1>types. Typed
  BY TypesGiveLookups DEF IInv
<1>to. theses' = [theses EXCEPT ![t].stage = "proposed"]
  BY DEF ProposeThesis
<1>now. theses[t].stage = "absent"
  BY DEF ProposeThesis
<1>kind. /\ theses \in [Theses -> Thesis]
         /\ "proposed" \in Stages
  BY DEF IInv, TypeOK, Stages
<1>thesesIn. theses' \in [Theses -> Thesis]
  BY <1>to, <1>kind, StageSet
<1>theses. /\ \A u \in Theses : theses'[u].stage = IF u = t THEN "proposed"
                ELSE theses[u].stage
           /\ \A u \in Theses : theses'[u].proposal = theses[u].proposal
                /\ theses'[u].refs = theses[u].refs /\ theses'[u].build = theses[u].build
                /\ theses'[u].acquisition = theses[u].acquisition
  BY <1>to, <1>kind, StageSet
<1>same. UNCHANGED << evidence, experiments, builds, acquisitions, handoffs, returns,
           proposals, pipelines, call >>
  BY DEF ProposeThesis
<1>1. TypeOK'
  BY <1>now, <1>thesesIn, <1>same DEF IInv, TypeOK
<1>2. BuildsOwned'
  BY <1>types, <1>now, <1>theses, <1>same DEF IInv, Typed, BuildsOwned, CallBacked, None,
     NoCall
<1>3. CallBacked'
  BY <1>types, <1>now, <1>theses, <1>same DEF IInv, Typed, BuildsOwned, CallBacked, NoCall,
     NoApp, None, MarkedBuildLinked, OneAtATime, ActiveBuilds
<1>4. MarkedBuildLinked'
  BY <1>types, <1>now, <1>theses, <1>same DEF IInv, Typed, BuildsOwned, CallBacked,
     MarkedBuildLinked, ActiveLinked, ActiveBuilds, Built, None, NoApp, OneAtATime
<1>5. OneAtATime'
  BY <1>same DEF IInv, OneAtATime, ActiveBuilds, ActiveAcquisitions, CallBacked, NoCall
<1>6. HandoffsKnown'
  BY <1>same DEF IInv, HandoffsKnown
<1>7. ExperimentsKnown'
  BY <1>same DEF IInv, ExperimentsKnown, ActiveAcquisitions
<1>8. ActiveLinked'
  BY <1>types, <1>now, <1>theses, <1>same DEF IInv, Typed, ActiveLinked, ActiveBuilds,
     CallBacked, BuildsOwned, OneAtATime, None
<1>9. RefsDecided'
  BY <1>types, <1>now, <1>theses, <1>same DEF IInv, Typed, RefsDecided, Covers,
     Counting, BuildGate, E1, E2, None
<1>10. HandoffFrozen'
  BY <1>same DEF IInv, HandoffFrozen, HandoffsKnown
<1>11. AcquisitionBacked'
  <2>1. Backing
    BY ActiveBacked
  <2>2. Backing'
    BY <2>1, <1>theses, <1>same DEF Backing
  <2> QED
    BY <2>2 DEF Backing, AcquisitionBacked, ActiveAcquisitions, HasBuild
<1>12. [Wip!Next]_Held
  <2>1. InValidation' = InValidation
    BY <1>same DEF InValidation, Running
  <2>2. ActiveBuilds' = ActiveBuilds
    BY <1>same DEF ActiveBuilds
  <2>3. ActiveAcquisitions' = ActiveAcquisitions
    BY <1>same DEF ActiveAcquisitions
  <2> QED
    BY <2>1, <2>2, <2>3, PlacesSame
<1> QED
  BY <1>1, <1>2, <1>3, <1>4, <1>5, <1>6, <1>7, <1>8, <1>9, <1>10, <1>11, <1>12 DEF IInv

\* So does confirming it.
LEMMA ConfirmThesisStep ==
  ASSUME IInv, NEW t \in Theses, ConfirmThesis(t)
  PROVE  IInv' /\ [Wip!Next]_Held
<1>types. Typed
  BY TypesGiveLookups DEF IInv
<1>to. theses' = [theses EXCEPT ![t].stage = "confirmed"]
  BY DEF ConfirmThesis
<1>now. theses[t].stage = "proposed"
  BY DEF ConfirmThesis
<1>kind. /\ theses \in [Theses -> Thesis]
         /\ "confirmed" \in Stages
  BY DEF IInv, TypeOK, Stages
<1>thesesIn. theses' \in [Theses -> Thesis]
  BY <1>to, <1>kind, StageSet
<1>theses. /\ \A u \in Theses : theses'[u].stage = IF u = t THEN "confirmed"
                ELSE theses[u].stage
           /\ \A u \in Theses : theses'[u].proposal = theses[u].proposal
                /\ theses'[u].refs = theses[u].refs /\ theses'[u].build = theses[u].build
                /\ theses'[u].acquisition = theses[u].acquisition
  BY <1>to, <1>kind, StageSet
<1>same. UNCHANGED << evidence, experiments, builds, acquisitions, handoffs, returns,
           proposals, pipelines, call >>
  BY DEF ConfirmThesis
<1>1. TypeOK'
  BY <1>now, <1>thesesIn, <1>same DEF IInv, TypeOK
<1>2. BuildsOwned'
  BY <1>types, <1>now, <1>theses, <1>same DEF IInv, Typed, BuildsOwned, CallBacked, None,
     NoCall
<1>3. CallBacked'
  BY <1>types, <1>now, <1>theses, <1>same DEF IInv, Typed, BuildsOwned, CallBacked, NoCall,
     NoApp, None, MarkedBuildLinked, OneAtATime, ActiveBuilds
<1>4. MarkedBuildLinked'
  BY <1>types, <1>now, <1>theses, <1>same DEF IInv, Typed, BuildsOwned, CallBacked,
     MarkedBuildLinked, ActiveLinked, ActiveBuilds, Built, None, NoApp, OneAtATime
<1>5. OneAtATime'
  BY <1>same DEF IInv, OneAtATime, ActiveBuilds, ActiveAcquisitions, CallBacked, NoCall
<1>6. HandoffsKnown'
  BY <1>same DEF IInv, HandoffsKnown
<1>7. ExperimentsKnown'
  BY <1>same DEF IInv, ExperimentsKnown, ActiveAcquisitions
<1>8. ActiveLinked'
  BY <1>types, <1>now, <1>theses, <1>same DEF IInv, Typed, ActiveLinked, ActiveBuilds,
     CallBacked, BuildsOwned, OneAtATime, None
<1>9. RefsDecided'
  BY <1>types, <1>now, <1>theses, <1>same DEF IInv, Typed, RefsDecided, Covers,
     Counting, BuildGate, E1, E2, None
<1>10. HandoffFrozen'
  BY <1>same DEF IInv, HandoffFrozen, HandoffsKnown
<1>11. AcquisitionBacked'
  <2>1. Backing
    BY ActiveBacked
  <2>2. Backing'
    BY <2>1, <1>theses, <1>same DEF Backing
  <2> QED
    BY <2>2 DEF Backing, AcquisitionBacked, ActiveAcquisitions, HasBuild
<1>12. [Wip!Next]_Held
  <2>1. InValidation' = InValidation
    BY <1>same DEF InValidation, Running
  <2>2. ActiveBuilds' = ActiveBuilds
    BY <1>same DEF ActiveBuilds
  <2>3. ActiveAcquisitions' = ActiveAcquisitions
    BY <1>same DEF ActiveAcquisitions
  <2> QED
    BY <2>1, <2>2, <2>3, PlacesSame
<1> QED
  BY <1>1, <1>2, <1>3, <1>4, <1>5, <1>6, <1>7, <1>8, <1>9, <1>10, <1>11, <1>12 DEF IInv

\* A thesis enters validation with one of its experiments, or already is in it.
LEMMA StartValidationStep ==
  ASSUME IInv, NEW t \in Theses, NEW e \in DOMAIN experiments, StartValidation(t, e)
  PROVE  IInv' /\ [Wip!Next]_Held
<1>types. Typed
  BY TypesGiveLookups DEF IInv
<1>to. /\ theses' = [theses EXCEPT ![t].stage = "validating"]
       /\ experiments' = [experiments EXCEPT ![e].status = "running"]
  BY DEF StartValidation
<1>now. theses[t].stage \in {"confirmed", "validating"} /\ experiments[e].thesis = t
  BY DEF StartValidation
<1>room. t \in InValidation \/ Cardinality(InValidation) < ValidationLimit
  BY DEF StartValidation
<1>kind. /\ theses \in [Theses -> Thesis]
         /\ experiments \in Seq(Experiment)
         /\ "validating" \in Stages
  BY DEF IInv, TypeOK, Stages
<1>thesesIn. theses' \in [Theses -> Thesis]
  BY <1>to, <1>kind, StageSet
<1>theses. /\ \A u \in Theses : theses'[u].stage = IF u = t THEN "validating"
                ELSE theses[u].stage
           /\ \A u \in Theses : theses'[u].proposal = theses[u].proposal
                /\ theses'[u].refs = theses[u].refs /\ theses'[u].build = theses[u].build
                /\ theses'[u].acquisition = theses[u].acquisition
  BY <1>to, <1>kind, StageSet
<1>experimentsIn. experiments' \in Seq(Experiment)
  BY <1>to, <1>kind, ExperimentStatusSet
<1>experiments. /\ DOMAIN experiments' = DOMAIN experiments
                /\ \A c \in DOMAIN experiments : experiments'[c].status = IF c
                     = e THEN "running" ELSE experiments[c].status
                /\ \A c \in DOMAIN experiments : experiments'[c].thesis
                     = experiments[c].thesis
                     /\ experiments'[c].ceiling = experiments[c].ceiling
  BY <1>to, <1>kind, ExperimentStatusSet
<1>same. UNCHANGED << evidence, builds, acquisitions, handoffs, returns, proposals,
           pipelines, call >>
  BY DEF StartValidation
<1>1. TypeOK'
  BY <1>now, <1>thesesIn, <1>experimentsIn, <1>same DEF IInv, TypeOK
<1>2. BuildsOwned'
  BY <1>types, <1>now, <1>theses, <1>same DEF IInv, Typed, BuildsOwned, CallBacked, None,
     NoCall
<1>3. CallBacked'
  BY <1>types, <1>now, <1>theses, <1>same DEF IInv, Typed, BuildsOwned, CallBacked, NoCall,
     NoApp, None, MarkedBuildLinked, OneAtATime, ActiveBuilds
<1>4. MarkedBuildLinked'
  <2>1. ASSUME NEW c \in DOMAIN builds, builds[c].app # NoApp
        PROVE  /\ theses'[builds[c].thesis].build = c
               /\ theses'[builds[c].thesis].stage \in Built
               /\ theses'[builds[c].thesis].proposal = builds[c].proposal
    <3>1. builds[c].thesis \in Theses /\ builds[c].thesis # t
      BY <2>1, <1>types, <1>now DEF Typed, IInv, MarkedBuildLinked, Built
    <3> QED
      BY <2>1, <3>1, <1>theses DEF IInv, MarkedBuildLinked
  <2> QED
    BY <2>1, <1>same DEF IInv, MarkedBuildLinked
<1>5. OneAtATime'
  BY <1>same DEF IInv, OneAtATime, ActiveBuilds, ActiveAcquisitions, CallBacked, NoCall
<1>6. HandoffsKnown'
  BY <1>same DEF IInv, HandoffsKnown
<1>7. ExperimentsKnown'
  BY <1>types, <1>now, <1>experiments, <1>same DEF IInv, Typed, ExperimentsKnown,
     ActiveAcquisitions
<1>8. ActiveLinked'
  BY <1>types, <1>now, <1>theses, <1>same DEF IInv, Typed, ActiveLinked, ActiveBuilds,
     CallBacked, BuildsOwned, OneAtATime, None
<1>9. RefsDecided'
  BY <1>types, <1>now, <1>theses, <1>same DEF IInv, Typed, RefsDecided, Covers,
     Counting, BuildGate, E1, E2, None
<1>10. HandoffFrozen'
  BY <1>same DEF IInv, HandoffFrozen, HandoffsKnown
<1>11. AcquisitionBacked'
  <2>1. Backing
    BY ActiveBacked
  <2>2. Backing'
    BY <2>1, <1>theses, <1>experiments, <1>same DEF Backing
  <2> QED
    BY <2>2 DEF Backing, AcquisitionBacked, ActiveAcquisitions, HasBuild
<1>12. [Wip!Next]_Held
  <2>1. InValidation' = InValidation \cup {t}
    BY <1>now, <1>experiments DEF InValidation, Running
  <2>2. t \in InValidation => InValidation' = InValidation
    BY <2>1
  <2>3. ActiveBuilds' = ActiveBuilds
    BY <1>same DEF ActiveBuilds
  <2>4. ActiveAcquisitions' = ActiveAcquisitions
    BY <1>same DEF ActiveAcquisitions
  <2>5. t \in InValidation \/ Cardinality(InValidation) < ValidationLimit
    BY <1>room
  <2> QED
    BY <2>1, <2>2, <2>3, <2>4, <2>5, PlacesSame, ValidationPlaceStep
<1> QED
  BY <1>1, <1>2, <1>3, <1>4, <1>5, <1>6, <1>7, <1>8, <1>9, <1>10, <1>11, <1>12 DEF IInv

\* The thesis leaves validation with its last running experiment.
LEMMA CompleteExperimentStep ==
  ASSUME IInv, NEW e \in DOMAIN experiments, CompleteExperiment(e)
  PROVE  IInv' /\ [Wip!Next]_Held
<1>types. Typed
  BY TypesGiveLookups DEF IInv
<1>to. experiments' = [experiments EXCEPT ![e].status = "completed"]
  BY DEF CompleteExperiment
<1>kind. experiments \in Seq(Experiment)
  BY DEF IInv, TypeOK
<1>experimentsIn. experiments' \in Seq(Experiment)
  BY <1>to, <1>kind, ExperimentStatusSet
<1>experiments. /\ DOMAIN experiments' = DOMAIN experiments
                /\ \A c \in DOMAIN experiments : experiments'[c].status = IF c
                     = e THEN "completed" ELSE experiments[c].status
                /\ \A c \in DOMAIN experiments : experiments'[c].thesis
                     = experiments[c].thesis
                     /\ experiments'[c].ceiling = experiments[c].ceiling
  BY <1>to, <1>kind, ExperimentStatusSet
<1>same. UNCHANGED << theses, evidence, builds, acquisitions, handoffs, returns, proposals,
           pipelines, call >>
  BY DEF CompleteExperiment
<1>1. TypeOK'
  BY <1>experimentsIn, <1>same DEF IInv, TypeOK
<1>2. BuildsOwned'
  BY <1>same DEF IInv, BuildsOwned, CallBacked, None, NoCall
<1>3. CallBacked'
  BY <1>same DEF IInv, BuildsOwned, CallBacked, NoCall, NoApp, None, MarkedBuildLinked,
     OneAtATime, ActiveBuilds
<1>4. MarkedBuildLinked'
  BY <1>same DEF IInv, BuildsOwned, CallBacked, MarkedBuildLinked, ActiveLinked,
     ActiveBuilds, Built, None, NoApp, OneAtATime
<1>5. OneAtATime'
  BY <1>same DEF IInv, OneAtATime, ActiveBuilds, ActiveAcquisitions, CallBacked, NoCall
<1>6. HandoffsKnown'
  BY <1>same DEF IInv, HandoffsKnown
<1>7. ExperimentsKnown'
  BY <1>types, <1>experiments, <1>same DEF IInv, Typed, ExperimentsKnown, ActiveAcquisitions
<1>8. ActiveLinked'
  BY <1>same DEF IInv, ActiveLinked, ActiveBuilds, CallBacked, BuildsOwned, OneAtATime, None
<1>9. RefsDecided'
  BY <1>same DEF IInv, RefsDecided, Covers, Counting, BuildGate, E1, E2, None
<1>10. HandoffFrozen'
  BY <1>same DEF IInv, HandoffFrozen, HandoffsKnown
<1>11. AcquisitionBacked'
  <2>1. Backing
    BY ActiveBacked
  <2>2. Backing'
    BY <2>1, <1>experiments, <1>same DEF Backing
  <2> QED
    BY <2>2 DEF Backing, AcquisitionBacked, ActiveAcquisitions, HasBuild
<1>12. [Wip!Next]_Held
  <2>1. ActiveBuilds' = ActiveBuilds
    BY <1>same DEF ActiveBuilds
  <2>2. ActiveAcquisitions' = ActiveAcquisitions
    BY <1>same DEF ActiveAcquisitions
  <2>3. Running' = Running \ {e}
    BY <1>experiments DEF Running
  <2>4. InValidation' = {experiments[c].thesis : c \in Running \ {e}}
    BY <1>experiments, <2>3 DEF InValidation, Running
  <2>5. CASE e \in Running /\ experiments[e].thesis \notin InValidation'
    <3>1. experiments[e].thesis \in InValidation
      BY <2>5 DEF InValidation
    <3>2. InValidation' = InValidation \ {experiments[e].thesis}
      BY <2>4, <2>5 DEF InValidation
    <3> QED
      BY <2>1, <2>2, <3>1, <3>2, ValidationPlaceStep
  <2>6. CASE e \notin Running \/ experiments[e].thesis \in InValidation'
    <3>1. InValidation' = InValidation
      BY <2>4, <2>6 DEF InValidation
    <3> QED
      BY <2>1, <2>2, <3>1, PlacesSame
  <2> QED
    BY <2>5, <2>6
<1> QED
  BY <1>1, <1>2, <1>3, <1>4, <1>5, <1>6, <1>7, <1>8, <1>9, <1>10, <1>11, <1>12 DEF IInv

\* Money changes nothing that is promised.
LEMMA ApproveSpendStep ==
  ASSUME IInv, NEW e \in DOMAIN experiments, NEW amount \in Amounts, ApproveSpend(e, amount)
  PROVE  IInv' /\ [Wip!Next]_Held
<1>types. Typed
  BY TypesGiveLookups DEF IInv
<1>to. experiments' = [experiments EXCEPT ![e].ceiling = amount]
  BY DEF ApproveSpend
<1>kind. experiments \in Seq(Experiment)
  BY InstanceAssumption DEF IInv, TypeOK
<1>in. amount \in Nat
  BY InstanceAssumption DEF IInv, TypeOK
<1>experimentsIn. experiments' \in Seq(Experiment)
  BY <1>to, <1>kind, <1>in, CeilingSet
<1>experiments. /\ DOMAIN experiments' = DOMAIN experiments
                /\ \A c \in DOMAIN experiments : experiments'[c].ceiling = IF c
                     = e THEN amount ELSE experiments[c].ceiling
                /\ \A c \in DOMAIN experiments : experiments'[c].thesis
                     = experiments[c].thesis /\ experiments'[c].status = experiments[c].status
  BY <1>to, <1>kind, <1>in, CeilingSet
<1>same. UNCHANGED << theses, evidence, builds, acquisitions, handoffs, returns, proposals,
           pipelines, call >>
  BY DEF ApproveSpend
<1>1. TypeOK'
  BY <1>in, <1>experimentsIn, <1>same DEF IInv, TypeOK
<1>2. BuildsOwned'
  BY <1>same DEF IInv, BuildsOwned, CallBacked, None, NoCall
<1>3. CallBacked'
  BY <1>same DEF IInv, BuildsOwned, CallBacked, NoCall, NoApp, None, MarkedBuildLinked,
     OneAtATime, ActiveBuilds
<1>4. MarkedBuildLinked'
  BY <1>same DEF IInv, BuildsOwned, CallBacked, MarkedBuildLinked, ActiveLinked,
     ActiveBuilds, Built, None, NoApp, OneAtATime
<1>5. OneAtATime'
  BY <1>same DEF IInv, OneAtATime, ActiveBuilds, ActiveAcquisitions, CallBacked, NoCall
<1>6. HandoffsKnown'
  BY <1>same DEF IInv, HandoffsKnown
<1>7. ExperimentsKnown'
  BY <1>types, <1>in, <1>experiments, <1>same DEF IInv, Typed, ExperimentsKnown,
     ActiveAcquisitions
<1>8. ActiveLinked'
  BY <1>same DEF IInv, ActiveLinked, ActiveBuilds, CallBacked, BuildsOwned, OneAtATime, None
<1>9. RefsDecided'
  BY <1>same DEF IInv, RefsDecided, Covers, Counting, BuildGate, E1, E2, None
<1>10. HandoffFrozen'
  BY <1>same DEF IInv, HandoffFrozen, HandoffsKnown
<1>11. AcquisitionBacked'
  <2>1. Backing
    BY ActiveBacked
  <2>2. Backing'
    BY <2>1, <1>experiments, <1>same DEF Backing
  <2> QED
    BY <2>2 DEF Backing, AcquisitionBacked, ActiveAcquisitions, HasBuild
<1>12. [Wip!Next]_Held
  <2>1. InValidation' = InValidation
    BY <1>experiments DEF InValidation, Running
  <2>2. ActiveBuilds' = ActiveBuilds
    BY <1>same DEF ActiveBuilds
  <2>3. ActiveAcquisitions' = ActiveAcquisitions
    BY <1>same DEF ActiveAcquisitions
  <2> QED
    BY <2>1, <2>2, <2>3, PlacesSame
<1> QED
  BY <1>1, <1>2, <1>3, <1>4, <1>5, <1>6, <1>7, <1>8, <1>9, <1>10, <1>11, <1>12 DEF IInv

\* A new experiment takes no place.
LEMMA CreateExperimentStep ==
  ASSUME IInv, NEW t \in Theses, CreateExperiment(t)
  PROVE  IInv' /\ [Wip!Next]_Held
<1>types. Typed
  BY TypesGiveLookups DEF IInv
<1>to. experiments' = Append(experiments, [thesis |-> t, status |-> "draft",
         ceiling |-> None])
  BY DEF CreateExperiment
<1>kind. /\ experiments \in Seq(Experiment)
         /\ [thesis |-> t, status |-> "draft", ceiling |-> None] \in Experiment
  BY DEF IInv, TypeOK, Experiment, None
<1>experimentsIn. experiments' \in Seq(Experiment)
  BY <1>to, <1>kind, ElementAdded
<1>experiments. /\ DOMAIN experiments' = DOMAIN experiments \cup {Len(experiments) + 1}
                /\ \A c \in DOMAIN experiments : experiments'[c] = experiments[c]
                /\ experiments'[Len(experiments) + 1].status = "draft"
  BY <1>to, <1>kind, ElementAdded
<1>same. UNCHANGED << theses, evidence, builds, acquisitions, handoffs, returns, proposals,
           pipelines, call >>
  BY DEF CreateExperiment
<1>1. TypeOK'
  BY <1>experimentsIn, <1>same DEF IInv, TypeOK
<1>2. BuildsOwned'
  BY <1>same DEF IInv, BuildsOwned, CallBacked, None, NoCall
<1>3. CallBacked'
  BY <1>same DEF IInv, BuildsOwned, CallBacked, NoCall, NoApp, None, MarkedBuildLinked,
     OneAtATime, ActiveBuilds
<1>4. MarkedBuildLinked'
  BY <1>same DEF IInv, BuildsOwned, CallBacked, MarkedBuildLinked, ActiveLinked,
     ActiveBuilds, Built, None, NoApp, OneAtATime
<1>5. OneAtATime'
  BY <1>same DEF IInv, OneAtATime, ActiveBuilds, ActiveAcquisitions, CallBacked, NoCall
<1>6. HandoffsKnown'
  BY <1>same DEF IInv, HandoffsKnown
<1>7. ExperimentsKnown'
  BY <1>types, <1>experiments, <1>same DEF IInv, Typed, ExperimentsKnown, ActiveAcquisitions
<1>8. ActiveLinked'
  BY <1>same DEF IInv, ActiveLinked, ActiveBuilds, CallBacked, BuildsOwned, OneAtATime, None
<1>9. RefsDecided'
  BY <1>same DEF IInv, RefsDecided, Covers, Counting, BuildGate, E1, E2, None
<1>10. HandoffFrozen'
  BY <1>same DEF IInv, HandoffFrozen, HandoffsKnown
<1>11. AcquisitionBacked'
  <2>1. Backing
    BY ActiveBacked
  <2>2. Backing'
    BY <2>1, <1>experiments, <1>same DEF Backing
  <2> QED
    BY <2>2 DEF Backing, AcquisitionBacked, ActiveAcquisitions, HasBuild
<1>12. [Wip!Next]_Held
  <2>1. InValidation' = InValidation
    BY <1>experiments DEF InValidation, Running
  <2>2. ActiveBuilds' = ActiveBuilds
    BY <1>same DEF ActiveBuilds
  <2>3. ActiveAcquisitions' = ActiveAcquisitions
    BY <1>same DEF ActiveAcquisitions
  <2> QED
    BY <2>1, <2>2, <2>3, PlacesSame
<1> QED
  BY <1>1, <1>2, <1>3, <1>4, <1>5, <1>6, <1>7, <1>8, <1>9, <1>10, <1>11, <1>12 DEF IInv

\* New evidence is in no proposal.
LEMMA RecordEvidenceStep ==
  ASSUME IInv, NEW d \in Drafts, RecordEvidence(d)
  PROVE  IInv' /\ [Wip!Next]_Held
<1>types. Typed
  BY TypesGiveLookups DEF IInv
<1>to. evidence' = [evidence EXCEPT ![d] = "unverified"]
  BY DEF IInv, TypeOK, RecordEvidence
<1>now. /\ evidence[d] = "absent"
        /\ evidence \in [Drafts -> {"absent", "unverified", "verified", "rejected"}]
  BY DEF IInv, TypeOK, RecordEvidence
<1>evidence. /\ evidence' \in [Drafts -> {"absent", "unverified", "verified", "rejected"}]
             /\ \A c \in Drafts : evidence'[c] = IF c = d THEN "unverified" ELSE evidence[c]
  BY <1>to, <1>now
<1>same. UNCHANGED << theses, experiments, builds, acquisitions, handoffs, returns,
           proposals, pipelines, call >>
  BY DEF RecordEvidence
<1>1. TypeOK'
  BY <1>now, <1>evidence, <1>same DEF IInv, TypeOK
<1>2. BuildsOwned'
  BY <1>same DEF IInv, BuildsOwned, CallBacked, None, NoCall
<1>3. CallBacked'
  BY <1>same DEF IInv, BuildsOwned, CallBacked, NoCall, NoApp, None, MarkedBuildLinked,
     OneAtATime, ActiveBuilds
<1>4. MarkedBuildLinked'
  BY <1>same DEF IInv, BuildsOwned, CallBacked, MarkedBuildLinked, ActiveLinked,
     ActiveBuilds, Built, None, NoApp, OneAtATime
<1>5. OneAtATime'
  BY <1>same DEF IInv, OneAtATime, ActiveBuilds, ActiveAcquisitions, CallBacked, NoCall
<1>6. HandoffsKnown'
  BY <1>same DEF IInv, HandoffsKnown
<1>7. ExperimentsKnown'
  BY <1>same DEF IInv, ExperimentsKnown, ActiveAcquisitions
<1>8. ActiveLinked'
  BY <1>same DEF IInv, ActiveLinked, ActiveBuilds, CallBacked, BuildsOwned, OneAtATime, None
<1>9. RefsDecided'
  BY <1>types, <1>now, <1>evidence, <1>same DEF IInv, Typed, RefsDecided, Covers,
     Counting, BuildGate, E1, E2, None
<1>10. HandoffFrozen'
  BY <1>same DEF IInv, HandoffFrozen, HandoffsKnown
<1>11. AcquisitionBacked'
  BY <1>same DEF IInv, AcquisitionBacked, ActiveAcquisitions, ExperimentsKnown, HasBuild,
     CallBacked, BuildsOwned, None, NoCall
<1>12. [Wip!Next]_Held
  <2>1. InValidation' = InValidation
    BY <1>same DEF InValidation, Running
  <2>2. ActiveBuilds' = ActiveBuilds
    BY <1>same DEF ActiveBuilds
  <2>3. ActiveAcquisitions' = ActiveAcquisitions
    BY <1>same DEF ActiveAcquisitions
  <2> QED
    BY <2>1, <2>2, <2>3, PlacesSame
<1> QED
  BY <1>1, <1>2, <1>3, <1>4, <1>5, <1>6, <1>7, <1>8, <1>9, <1>10, <1>11, <1>12 DEF IInv

\* Decided evidence stays decided.
LEMMA VerifyEvidenceStep ==
  ASSUME IInv, NEW d \in Drafts, NEW decision \in Decisions, VerifyEvidence(d, decision)
  PROVE  IInv' /\ [Wip!Next]_Held
<1>types. Typed
  BY TypesGiveLookups DEF IInv
<1>to. evidence' = [evidence EXCEPT ![d] = decision]
  BY InstanceAssumption DEF IInv, TypeOK, VerifyEvidence
<1>now. /\ decision \in {"verified", "rejected"}
        /\ evidence \in [Drafts -> {"absent", "unverified", "verified", "rejected"}]
  BY InstanceAssumption DEF IInv, TypeOK, VerifyEvidence
<1>evidence. /\ evidence' \in [Drafts -> {"absent", "unverified", "verified", "rejected"}]
             /\ \A c \in Drafts : evidence'[c] = IF c = d THEN decision ELSE evidence[c]
  BY <1>to, <1>now
<1>same. UNCHANGED << theses, experiments, builds, acquisitions, handoffs, returns,
           proposals, pipelines, call >>
  BY DEF VerifyEvidence
<1>1. TypeOK'
  BY <1>now, <1>evidence, <1>same DEF IInv, TypeOK
<1>2. BuildsOwned'
  BY <1>same DEF IInv, BuildsOwned, CallBacked, None, NoCall
<1>3. CallBacked'
  BY <1>same DEF IInv, BuildsOwned, CallBacked, NoCall, NoApp, None, MarkedBuildLinked,
     OneAtATime, ActiveBuilds
<1>4. MarkedBuildLinked'
  BY <1>same DEF IInv, BuildsOwned, CallBacked, MarkedBuildLinked, ActiveLinked,
     ActiveBuilds, Built, None, NoApp, OneAtATime
<1>5. OneAtATime'
  BY <1>same DEF IInv, OneAtATime, ActiveBuilds, ActiveAcquisitions, CallBacked, NoCall
<1>6. HandoffsKnown'
  BY <1>same DEF IInv, HandoffsKnown
<1>7. ExperimentsKnown'
  BY <1>same DEF IInv, ExperimentsKnown, ActiveAcquisitions
<1>8. ActiveLinked'
  BY <1>same DEF IInv, ActiveLinked, ActiveBuilds, CallBacked, BuildsOwned, OneAtATime, None
<1>9. RefsDecided'
  BY <1>types, <1>now, <1>evidence, <1>same DEF IInv, Typed, RefsDecided, Covers,
     Counting, BuildGate, E1, E2, None
<1>10. HandoffFrozen'
  BY <1>same DEF IInv, HandoffFrozen, HandoffsKnown
<1>11. AcquisitionBacked'
  BY <1>same DEF IInv, AcquisitionBacked, ActiveAcquisitions, ExperimentsKnown, HasBuild,
     CallBacked, BuildsOwned, None, NoCall
<1>12. [Wip!Next]_Held
  <2>1. InValidation' = InValidation
    BY <1>same DEF InValidation, Running
  <2>2. ActiveBuilds' = ActiveBuilds
    BY <1>same DEF ActiveBuilds
  <2>3. ActiveAcquisitions' = ActiveAcquisitions
    BY <1>same DEF ActiveAcquisitions
  <2> QED
    BY <2>1, <2>2, <2>3, PlacesSame
<1> QED
  BY <1>1, <1>2, <1>3, <1>4, <1>5, <1>6, <1>7, <1>8, <1>9, <1>10, <1>11, <1>12 DEF IInv

\* A thesis without a marked build may propose again; the refs are the evidence that counts now.
LEMMA ProposeBuildStep ==
  ASSUME IInv, NEW t \in Theses, ProposeBuild(t)
  PROVE  IInv' /\ [Wip!Next]_Held
<1>types. Typed
  BY TypesGiveLookups DEF IInv
<1>now. /\ theses[t].stage \in {"confirmed", "validating"} /\ call = NoCall /\ BuildGate(t)
        /\ proposals' = proposals + 1 /\ proposals + 1 \in Nat
  BY DEF IInv, TypeOK, ProposeBuild, Quiet
<1>refs. PICK refs : refs = {d \in Counting(t) : d.validation \in E1 \cup E2}
  OBVIOUS
<1>proven. /\ refs \in SUBSET Drafts /\ Covers(refs, E1 \cup E2)
           /\ \A d \in refs : d.thesis = t /\ d.counts /\ evidence[d] = "verified"
  BY <1>refs, <1>now DEF Counting, BuildGate, Covers
<1>r. PICK r : r = [theses[t] EXCEPT !.proposal = proposals + 1, !.refs = refs]
  OBVIOUS
<1>kind. /\ theses \in [Theses -> Thesis]
         /\ theses[t] \in Thesis
  BY DEF IInv, TypeOK
<1>rec. /\ r \in Thesis /\ r.proposal = proposals + 1 /\ r.refs = refs
        /\ r.stage = theses[t].stage /\ r.build = theses[t].build
             /\ r.acquisition = theses[t].acquisition
  BY <1>r, <1>kind, <1>now, <1>proven DEF Thesis
<1>proposed. theses' = [theses EXCEPT ![t] = r]
  BY <1>r, <1>kind, <1>refs DEF Thesis, ProposeBuild
<1>set. /\ theses' \in [Theses -> Thesis]
        /\ \A u \in Theses : theses'[u] = IF u = t THEN r ELSE theses[u]
  BY <1>proposed, <1>kind, <1>rec
<1>theses. /\ \A u \in Theses : theses'[u].proposal = IF u = t THEN proposals + 1
                ELSE theses[u].proposal
           /\ \A u \in Theses : theses'[u].refs = IF u = t THEN refs ELSE theses[u].refs
           /\ \A u \in Theses : theses'[u].stage = theses[u].stage
                /\ theses'[u].build = theses[u].build
                /\ theses'[u].acquisition = theses[u].acquisition
  BY <1>set, <1>rec
<1>same. UNCHANGED << evidence, experiments, builds, acquisitions, handoffs, returns,
           pipelines, call >>
  BY DEF ProposeBuild
<1>1. TypeOK'
  BY <1>now, <1>proven, <1>set, <1>same DEF IInv, TypeOK
<1>2. BuildsOwned'
  BY <1>types, <1>now, <1>proven, <1>theses, <1>same DEF IInv, Typed, BuildsOwned,
     CallBacked, None, NoCall
<1>3. CallBacked'
  BY <1>types, <1>now, <1>proven, <1>theses, <1>same DEF IInv, Typed, BuildsOwned,
     CallBacked, NoCall, NoApp, None, MarkedBuildLinked, OneAtATime, ActiveBuilds
<1>4. MarkedBuildLinked'
  BY <1>types, <1>now, <1>proven, <1>theses, <1>same DEF IInv, Typed, BuildsOwned,
     CallBacked, MarkedBuildLinked, ActiveLinked, ActiveBuilds, Built, None, NoApp, OneAtATime
<1>5. OneAtATime'
  BY <1>same DEF IInv, OneAtATime, ActiveBuilds, ActiveAcquisitions, CallBacked, NoCall
<1>6. HandoffsKnown'
  BY <1>same DEF IInv, HandoffsKnown
<1>7. ExperimentsKnown'
  BY <1>same DEF IInv, ExperimentsKnown, ActiveAcquisitions
<1>8. ActiveLinked'
  BY <1>types, <1>now, <1>proven, <1>theses, <1>same DEF IInv, Typed, ActiveLinked,
     ActiveBuilds, CallBacked, BuildsOwned, OneAtATime, None
<1>9. RefsDecided'
  BY <1>types, <1>now, <1>proven, <1>theses, <1>same DEF IInv, Typed, RefsDecided,
     Covers, Counting, BuildGate, E1, E2, None
<1>10. HandoffFrozen'
  BY <1>same DEF IInv, HandoffFrozen, HandoffsKnown
<1>11. AcquisitionBacked'
  <2>1. Backing
    BY ActiveBacked
  <2>2. Backing'
    BY <2>1, <1>theses, <1>same DEF Backing
  <2> QED
    BY <2>2 DEF Backing, AcquisitionBacked, ActiveAcquisitions, HasBuild
<1>12. [Wip!Next]_Held
  <2>1. InValidation' = InValidation
    BY <1>same DEF InValidation, Running
  <2>2. ActiveBuilds' = ActiveBuilds
    BY <1>same DEF ActiveBuilds
  <2>3. ActiveAcquisitions' = ActiveAcquisitions
    BY <1>same DEF ActiveAcquisitions
  <2> QED
    BY <2>1, <2>2, <2>3, PlacesSame
<1> QED
  BY <1>1, <1>2, <1>3, <1>4, <1>5, <1>6, <1>7, <1>8, <1>9, <1>10, <1>11, <1>12 DEF IInv

\* A reservation takes the place, for a thesis that had no build.
LEMMA StartBuildStep ==
  ASSUME IInv, NEW t \in Theses, NEW app \in Apps, StartBuild(t, app)
  PROVE  IInv' /\ [Wip!Next]_Held
<1>types. Typed
  BY TypesGiveLookups DEF IInv
<1>to. /\ theses' = [theses EXCEPT ![t].build = Len(builds) + 1]
       /\ builds' = Append(builds, [thesis |-> t, proposal |-> theses[t].proposal,
            status |-> "starting", app |-> NoApp])
  BY DEF StartBuild, Reserve, Quiet
<1>now. /\ call' = [pc |-> "reserved", build |-> Len(builds) + 1, app |-> app]
        /\ theses[t].build = None /\ theses[t].proposal # None /\ ActiveBuilds = {}
             /\ call = NoCall
  BY DEF StartBuild, Reserve, Quiet
<1>kind. /\ theses \in [Theses -> Thesis]
         /\ builds \in Seq(Build)
         /\ [thesis |-> t, proposal |-> theses[t].proposal, status |-> "starting",
              app |-> NoApp] \in Build
  BY <1>types DEF Typed, IInv, TypeOK, Build, BuildStatus, NoApp
<1>in. Len(builds) + 1 \in Nat
  BY <1>types DEF Typed, IInv, TypeOK, Build, BuildStatus, NoApp
<1>thesesIn. theses' \in [Theses -> Thesis]
  BY <1>to, <1>kind, <1>in, BuildRefSet
<1>theses. /\ \A u \in Theses : theses'[u].build = IF u = t THEN Len(builds) + 1
                ELSE theses[u].build
           /\ \A u \in Theses : theses'[u].stage = theses[u].stage
                /\ theses'[u].proposal = theses[u].proposal
                /\ theses'[u].refs = theses[u].refs
                /\ theses'[u].acquisition = theses[u].acquisition
  BY <1>to, <1>kind, <1>in, BuildRefSet
<1>buildsIn. builds' \in Seq(Build)
  BY <1>to, <1>kind, <1>in, ElementAdded
<1>builds. /\ DOMAIN builds' = DOMAIN builds \cup {Len(builds) + 1}
           /\ Len(builds) + 1 \notin DOMAIN builds
           /\ \A c \in DOMAIN builds : builds'[c] = builds[c]
           /\ builds'[Len(builds) + 1] = [thesis |-> t, proposal |-> theses[t].proposal,
                status |-> "starting", app |-> NoApp]
  BY <1>to, <1>kind, <1>in, ElementAdded
<1>same. UNCHANGED << evidence, experiments, acquisitions, handoffs, returns, proposals,
           pipelines >>
  BY DEF StartBuild, Reserve
<1>1. TypeOK'
  BY <1>now, <1>in, <1>thesesIn, <1>buildsIn, <1>same DEF IInv, TypeOK, Call, NoCall, NoApp,
     None
<1>2. BuildsOwned'
  BY <1>types, <1>now, <1>in, <1>theses, <1>builds, <1>same DEF IInv, Typed, BuildsOwned,
     CallBacked, None, NoCall
<1>3. CallBacked'
  BY <1>types, <1>now, <1>in, <1>theses, <1>builds, <1>same DEF IInv, Typed, BuildsOwned,
     CallBacked, NoCall, NoApp, None, MarkedBuildLinked, OneAtATime, ActiveBuilds
<1>4. MarkedBuildLinked'
  BY <1>types, <1>now, <1>in, <1>theses, <1>builds, <1>same DEF IInv, Typed, BuildsOwned,
     CallBacked, MarkedBuildLinked, ActiveLinked, ActiveBuilds, Built, None, NoApp, OneAtATime
<1>5. OneAtATime'
  BY <1>types, <1>now, <1>in, <1>builds, <1>same DEF IInv, Typed, OneAtATime, ActiveBuilds,
     ActiveAcquisitions, CallBacked, NoCall
<1>6. HandoffsKnown'
  BY <1>types, <1>now, <1>in, <1>builds, <1>same DEF IInv, Typed, HandoffsKnown
<1>7. ExperimentsKnown'
  BY <1>same DEF IInv, ExperimentsKnown, ActiveAcquisitions
<1>8. ActiveLinked'
  BY <1>types, <1>now, <1>in, <1>theses, <1>builds, <1>same DEF IInv, Typed, ActiveLinked,
     ActiveBuilds, CallBacked, BuildsOwned, OneAtATime, None
<1>9. RefsDecided'
  BY <1>types, <1>now, <1>in, <1>theses, <1>same DEF IInv, Typed, RefsDecided, Covers,
     Counting, BuildGate, E1, E2, None
<1>10. HandoffFrozen'
  BY <1>types, <1>now, <1>in, <1>builds, <1>same DEF IInv, Typed, HandoffFrozen, HandoffsKnown
<1>11. AcquisitionBacked'
  BY <1>types, <1>now, <1>in, <1>theses, <1>builds, <1>same DEF IInv, Typed,
     AcquisitionBacked, ActiveAcquisitions, ExperimentsKnown, HasBuild, CallBacked,
     BuildsOwned, None, NoCall
<1>12. [Wip!Next]_Held
  <2>1. InValidation' = InValidation
    BY <1>same DEF InValidation, Running
  <2>2. ActiveBuilds = {} /\ ActiveBuilds' = {Len(builds) + 1}
    BY <1>now, <1>builds DEF ActiveBuilds
  <2>3. ActiveAcquisitions' = ActiveAcquisitions
    BY <1>same DEF ActiveAcquisitions
  <2> QED
    BY <2>1, <2>2, <2>3, BuildPlaceStep
<1> QED
  BY <1>1, <1>2, <1>3, <1>4, <1>5, <1>6, <1>7, <1>8, <1>9, <1>10, <1>11, <1>12 DEF IInv

\* The engine touches only its pipeline.
LEMMA EngineStartsStep ==
  ASSUME IInv, EngineStarts
  PROVE  IInv' /\ [Wip!Next]_Held
<1>types. Typed
  BY TypesGiveLookups DEF IInv
<1>call. call' = [call EXCEPT !.pc = "started"] /\ call # NoCall
  BY DEF EngineStarts, NoCall
<1>callis. /\ call' \in Call
           /\ call' # NoCall /\ call'.pc = "started" /\ call'.build = call.build
                /\ call'.app = call.app
  BY <1>call DEF IInv, TypeOK, Call, NoCall
<1>b. builds[call.build] \in Build /\ call.app \in Apps
  BY <1>call DEF IInv, TypeOK, CallBacked
<1>new. [thesis |-> builds[call.build].thesis, proposal |-> builds[call.build].proposal,
          active |-> TRUE] \in PipelineOf
  BY <1>b DEF Build, PipelineOf
<1>pipelines. pipelines' \in [Apps -> PipelineOf]
  BY <1>b, <1>new DEF IInv, TypeOK, EngineStarts
<1>same. UNCHANGED << theses, evidence, experiments, builds, acquisitions, handoffs,
           returns, proposals >>
  BY DEF EngineStarts
<1>1. TypeOK'
  BY <1>call, <1>callis, <1>b, <1>pipelines, <1>same DEF IInv, TypeOK, Call, NoCall, NoApp,
     None
<1>2. BuildsOwned'
  BY <1>types, <1>call, <1>callis, <1>same DEF IInv, Typed, BuildsOwned, CallBacked, None,
     NoCall
<1>3. CallBacked'
  BY <1>types, <1>call, <1>callis, <1>same DEF IInv, Typed, BuildsOwned, CallBacked, NoCall,
     NoApp, None, MarkedBuildLinked, OneAtATime, ActiveBuilds
<1>4. MarkedBuildLinked'
  BY <1>types, <1>call, <1>callis, <1>same DEF IInv, Typed, BuildsOwned, CallBacked,
     MarkedBuildLinked, ActiveLinked, ActiveBuilds, Built, None, NoApp, OneAtATime
<1>5. OneAtATime'
  BY <1>same DEF IInv, OneAtATime, ActiveBuilds, ActiveAcquisitions, CallBacked, NoCall
<1>6. HandoffsKnown'
  BY <1>same DEF IInv, HandoffsKnown
<1>7. ExperimentsKnown'
  BY <1>same DEF IInv, ExperimentsKnown, ActiveAcquisitions
<1>8. ActiveLinked'
  BY <1>same DEF IInv, ActiveLinked, ActiveBuilds, CallBacked, BuildsOwned, OneAtATime, None
<1>9. RefsDecided'
  BY <1>same DEF IInv, RefsDecided, Covers, Counting, BuildGate, E1, E2, None
<1>10. HandoffFrozen'
  BY <1>same DEF IInv, HandoffFrozen, HandoffsKnown
<1>11. AcquisitionBacked'
  BY <1>same DEF IInv, AcquisitionBacked, ActiveAcquisitions, ExperimentsKnown, HasBuild,
     CallBacked, BuildsOwned, None, NoCall
<1>12. [Wip!Next]_Held
  <2>1. InValidation' = InValidation
    BY <1>same DEF InValidation, Running
  <2>2. ActiveBuilds' = ActiveBuilds
    BY <1>same DEF ActiveBuilds
  <2>3. ActiveAcquisitions' = ActiveAcquisitions
    BY <1>same DEF ActiveAcquisitions
  <2> QED
    BY <2>1, <2>2, <2>3, PlacesSame
<1> QED
  BY <1>1, <1>2, <1>3, <1>4, <1>5, <1>6, <1>7, <1>8, <1>9, <1>10, <1>11, <1>12 DEF IInv

\* A refusal touches nothing but the call.
LEMMA EngineRefusesStep ==
  ASSUME IInv, EngineRefuses
  PROVE  IInv' /\ [Wip!Next]_Held
<1>types. Typed
  BY TypesGiveLookups DEF IInv
<1>call. call' = [call EXCEPT !.pc = "refused"] /\ call # NoCall
  BY DEF EngineRefuses, NoCall
<1>callis. /\ call' \in Call
           /\ call' # NoCall /\ call'.pc = "refused" /\ call'.build = call.build
                /\ call'.app = call.app
  BY <1>call DEF IInv, TypeOK, Call, NoCall
<1>same. UNCHANGED << theses, evidence, experiments, builds, acquisitions, handoffs,
           returns, proposals, pipelines >>
  BY DEF EngineRefuses
<1>1. TypeOK'
  BY <1>call, <1>callis, <1>same DEF IInv, TypeOK, Call, NoCall, NoApp, None
<1>2. BuildsOwned'
  BY <1>types, <1>call, <1>callis, <1>same DEF IInv, Typed, BuildsOwned, CallBacked, None,
     NoCall
<1>3. CallBacked'
  BY <1>types, <1>call, <1>callis, <1>same DEF IInv, Typed, BuildsOwned, CallBacked, NoCall,
     NoApp, None, MarkedBuildLinked, OneAtATime, ActiveBuilds
<1>4. MarkedBuildLinked'
  BY <1>types, <1>call, <1>callis, <1>same DEF IInv, Typed, BuildsOwned, CallBacked,
     MarkedBuildLinked, ActiveLinked, ActiveBuilds, Built, None, NoApp, OneAtATime
<1>5. OneAtATime'
  BY <1>same DEF IInv, OneAtATime, ActiveBuilds, ActiveAcquisitions, CallBacked, NoCall
<1>6. HandoffsKnown'
  BY <1>same DEF IInv, HandoffsKnown
<1>7. ExperimentsKnown'
  BY <1>same DEF IInv, ExperimentsKnown, ActiveAcquisitions
<1>8. ActiveLinked'
  BY <1>same DEF IInv, ActiveLinked, ActiveBuilds, CallBacked, BuildsOwned, OneAtATime, None
<1>9. RefsDecided'
  BY <1>same DEF IInv, RefsDecided, Covers, Counting, BuildGate, E1, E2, None
<1>10. HandoffFrozen'
  BY <1>same DEF IInv, HandoffFrozen, HandoffsKnown
<1>11. AcquisitionBacked'
  BY <1>same DEF IInv, AcquisitionBacked, ActiveAcquisitions, ExperimentsKnown, HasBuild,
     CallBacked, BuildsOwned, None, NoCall
<1>12. [Wip!Next]_Held
  <2>1. InValidation' = InValidation
    BY <1>same DEF InValidation, Running
  <2>2. ActiveBuilds' = ActiveBuilds
    BY <1>same DEF ActiveBuilds
  <2>3. ActiveAcquisitions' = ActiveAcquisitions
    BY <1>same DEF ActiveAcquisitions
  <2> QED
    BY <2>1, <2>2, <2>3, PlacesSame
<1> QED
  BY <1>1, <1>2, <1>3, <1>4, <1>5, <1>6, <1>7, <1>8, <1>9, <1>10, <1>11, <1>12 DEF IInv

\* The build of the call becomes a marked build of its thesis.
LEMMA BuildMarkedStep ==
  ASSUME IInv, BuildMarked
  PROVE  IInv' /\ [Wip!Next]_Held
<1>types. Typed
  BY TypesGiveLookups DEF IInv
<1>to. theses' = [theses EXCEPT ![builds[call.build].thesis].stage = "building"]
  BY DEF BuildMarked, NoCall
<1>now. call # NoCall /\ call' = NoCall
  BY DEF BuildMarked, NoCall
<1>kind. /\ theses \in [Theses -> Thesis]
         /\ builds \in Seq(Build)
         /\ "building" \in Stages /\ builds[call.build] \in Build
  BY <1>now, <1>types, LenProperties DEF IInv, TypeOK, CallBacked, Typed, Stages
<1>in. call.build \in DOMAIN builds /\ call.app \in Apps
         /\ builds[call.build].thesis \in Theses
  BY <1>now, <1>types, LenProperties DEF IInv, TypeOK, CallBacked, Typed, Stages
<1>thesesIn. theses' \in [Theses -> Thesis]
  BY <1>to, <1>kind, <1>in, StageSet
<1>theses. /\ \A u \in Theses : theses'[u].stage = IF u
                = builds[call.build].thesis THEN "building" ELSE theses[u].stage
           /\ \A u \in Theses : theses'[u].proposal = theses[u].proposal
                /\ theses'[u].refs = theses[u].refs /\ theses'[u].build = theses[u].build
                /\ theses'[u].acquisition = theses[u].acquisition
  BY <1>to, <1>kind, <1>in, StageSet
<1>r. PICK r : r = [builds[call.build] EXCEPT !.status = "building", !.app = call.app]
  OBVIOUS
<1>rec. /\ r \in Build /\ r.status = "building" /\ r.app = call.app
        /\ r.thesis = builds[call.build].thesis /\ r.proposal = builds[call.build].proposal
  BY <1>r, <1>kind, <1>in DEF Build, BuildStatus
<1>marked. builds' = [builds EXCEPT ![call.build] = r]
  BY <1>r, <1>kind, <1>in DEF Build, BuildMarked
<1>set. /\ builds' \in Seq(Build) /\ DOMAIN builds' = DOMAIN builds
        /\ \A c \in DOMAIN builds : builds'[c] = IF c = call.build THEN r ELSE builds[c]
  BY <1>marked, <1>rec, <1>kind, <1>in, ElementSet
<1>builds. /\ DOMAIN builds' = DOMAIN builds
           /\ \A c \in DOMAIN builds : builds'[c].status = IF c
                = call.build THEN "building" ELSE builds[c].status
           /\ \A c \in DOMAIN builds : builds'[c].app = IF c = call.build THEN call.app
                ELSE builds[c].app
           /\ \A c \in DOMAIN builds : builds'[c].thesis = builds[c].thesis
                /\ builds'[c].proposal = builds[c].proposal
  BY <1>set, <1>rec
<1>same. UNCHANGED << evidence, experiments, acquisitions, handoffs, returns, proposals,
           pipelines >>
  BY DEF BuildMarked
<1>1. TypeOK'
  BY <1>now, <1>in, <1>thesesIn, <1>set, <1>same DEF IInv, TypeOK, Call, NoCall, NoApp, None
<1>2. BuildsOwned'
  BY <1>types, <1>now, <1>in, <1>theses, <1>builds, <1>same DEF IInv, Typed, BuildsOwned,
     CallBacked, None, NoCall
<1>3. CallBacked'
  BY <1>types, <1>now, <1>in, <1>theses, <1>builds, <1>same DEF IInv, Typed, BuildsOwned,
     CallBacked, NoCall, NoApp, None, MarkedBuildLinked, OneAtATime, ActiveBuilds
<1>4. MarkedBuildLinked'
  <2>1. \A c \in DOMAIN builds : builds'[c].status = "building" => builds'[c].app # NoApp
    BY <1>builds, <1>in, NamesAssumption DEF IInv, MarkedBuildLinked
  <2>2. ASSUME NEW c \in DOMAIN builds, builds[c].app # NoApp
        PROVE  /\ theses'[builds[c].thesis].build = c
               /\ theses'[builds[c].thesis].stage \in Built
               /\ theses'[builds[c].thesis].proposal = builds[c].proposal
    BY <2>2, <1>types, <1>theses DEF Typed, IInv, MarkedBuildLinked, Built
  <2>3. /\ theses'[builds[call.build].thesis].build = call.build
        /\ theses'[builds[call.build].thesis].stage \in Built
        /\ theses'[builds[call.build].thesis].proposal = builds[call.build].proposal
    BY <1>now, <1>in, <1>theses DEF IInv, CallBacked, Built
  <2> QED
    BY <2>1, <2>2, <2>3, <1>builds DEF MarkedBuildLinked
<1>5. OneAtATime'
  BY <1>types, <1>now, <1>in, <1>builds, <1>same DEF IInv, Typed, OneAtATime, ActiveBuilds,
     ActiveAcquisitions, CallBacked, NoCall
<1>6. HandoffsKnown'
  BY <1>types, <1>now, <1>in, <1>builds, <1>same DEF IInv, Typed, HandoffsKnown
<1>7. ExperimentsKnown'
  BY <1>same DEF IInv, ExperimentsKnown, ActiveAcquisitions
<1>8. ActiveLinked'
  BY <1>types, <1>now, <1>in, <1>theses, <1>builds, <1>same DEF IInv, Typed, ActiveLinked,
     ActiveBuilds, CallBacked, BuildsOwned, OneAtATime, None
<1>9. RefsDecided'
  BY <1>types, <1>now, <1>in, <1>theses, <1>same DEF IInv, Typed, RefsDecided, Covers,
     Counting, BuildGate, E1, E2, None
<1>10. HandoffFrozen'
  BY <1>types, <1>now, <1>in, <1>builds, <1>same DEF IInv, Typed, HandoffFrozen, HandoffsKnown
<1>11. AcquisitionBacked'
  <2>1. Backing
    BY ActiveBacked
  <2>2. Backing'
    BY <2>1, <1>now, <1>in, <1>theses, <1>builds, <1>same DEF Backing, IInv, CallBacked
  <2> QED
    BY <2>2 DEF Backing, AcquisitionBacked, ActiveAcquisitions, HasBuild
<1>12. [Wip!Next]_Held
  <2>1. InValidation' = InValidation
    BY <1>same DEF InValidation, Running
  <2>2. ActiveBuilds' = ActiveBuilds
    BY <1>now, <1>in, <1>builds DEF IInv, CallBacked, ActiveBuilds
  <2>3. ActiveAcquisitions' = ActiveAcquisitions
    BY <1>same DEF ActiveAcquisitions
  <2> QED
    BY <2>1, <2>2, <2>3, PlacesSame
<1> QED
  BY <1>1, <1>2, <1>3, <1>4, <1>5, <1>6, <1>7, <1>8, <1>9, <1>10, <1>11, <1>12 DEF IInv

\* A failed start gives the place back.
LEMMA BuildReleasedStep ==
  ASSUME IInv, BuildReleased
  PROVE  IInv' /\ [Wip!Next]_Held
<1>types. Typed
  BY TypesGiveLookups DEF IInv
<1>to. /\ builds' = [builds EXCEPT ![call.build].status = "failed"]
       /\ theses' = [theses EXCEPT ![builds[call.build].thesis].build = None]
  BY DEF BuildReleased, NoCall
<1>now. call # NoCall /\ call' = NoCall
  BY DEF BuildReleased, NoCall
<1>kind. /\ theses \in [Theses -> Thesis]
         /\ builds \in Seq(Build)
  BY <1>now, <1>types DEF IInv, TypeOK, CallBacked, Typed, None, BuildStatus
<1>in. /\ call.build \in DOMAIN builds /\ builds[call.build].thesis \in Theses
       /\ None \in Nat
       /\ "failed" \in BuildStatus
  BY <1>now, <1>types DEF IInv, TypeOK, CallBacked, Typed, None, BuildStatus
<1>thesesIn. theses' \in [Theses -> Thesis]
  BY <1>to, <1>kind, <1>in, BuildRefSet
<1>theses. /\ \A u \in Theses : theses'[u].build = IF u
                = builds[call.build].thesis THEN None ELSE theses[u].build
           /\ \A u \in Theses : theses'[u].stage = theses[u].stage
                /\ theses'[u].proposal = theses[u].proposal
                /\ theses'[u].refs = theses[u].refs
                /\ theses'[u].acquisition = theses[u].acquisition
  BY <1>to, <1>kind, <1>in, BuildRefSet
<1>buildsIn. builds' \in Seq(Build)
  BY <1>to, <1>kind, <1>in, BuildStatusSet
<1>builds. /\ DOMAIN builds' = DOMAIN builds
           /\ \A c \in DOMAIN builds : builds'[c].status = IF c
                = call.build THEN "failed" ELSE builds[c].status
           /\ \A c \in DOMAIN builds : builds'[c].thesis = builds[c].thesis
                /\ builds'[c].proposal = builds[c].proposal /\ builds'[c].app = builds[c].app
  BY <1>to, <1>kind, <1>in, BuildStatusSet
<1>same. UNCHANGED << evidence, experiments, acquisitions, handoffs, returns, proposals,
           pipelines >>
  BY DEF BuildReleased
<1>1. TypeOK'
  BY <1>now, <1>in, <1>thesesIn, <1>buildsIn, <1>same DEF IInv, TypeOK, Call, NoCall, NoApp,
     None
<1>2. BuildsOwned'
  BY <1>types, <1>now, <1>in, <1>theses, <1>builds, <1>same DEF IInv, Typed, BuildsOwned,
     CallBacked, None, NoCall
<1>3. CallBacked'
  BY <1>types, <1>now, <1>in, <1>theses, <1>builds, <1>same DEF IInv, Typed, BuildsOwned,
     CallBacked, NoCall, NoApp, None, MarkedBuildLinked, OneAtATime, ActiveBuilds
<1>4. MarkedBuildLinked'
  BY <1>types, <1>now, <1>in, <1>theses, <1>builds, <1>same DEF IInv, Typed, BuildsOwned,
     CallBacked, MarkedBuildLinked, ActiveLinked, ActiveBuilds, Built, None, NoApp, OneAtATime
<1>5. OneAtATime'
  BY <1>types, <1>now, <1>in, <1>builds, <1>same DEF IInv, Typed, OneAtATime, ActiveBuilds,
     ActiveAcquisitions, CallBacked, NoCall
<1>6. HandoffsKnown'
  BY <1>types, <1>now, <1>in, <1>builds, <1>same DEF IInv, Typed, HandoffsKnown
<1>7. ExperimentsKnown'
  BY <1>same DEF IInv, ExperimentsKnown, ActiveAcquisitions
<1>8. ActiveLinked'
  BY <1>types, <1>now, <1>in, <1>theses, <1>builds, <1>same DEF IInv, Typed, ActiveLinked,
     ActiveBuilds, CallBacked, BuildsOwned, OneAtATime, None
<1>9. RefsDecided'
  BY <1>types, <1>now, <1>in, <1>theses, <1>same DEF IInv, Typed, RefsDecided, Covers,
     Counting, BuildGate, E1, E2, None
<1>10. HandoffFrozen'
  BY <1>types, <1>now, <1>in, <1>builds, <1>same DEF IInv, Typed, HandoffFrozen, HandoffsKnown
<1>11. AcquisitionBacked'
  <2>1. Backing
    BY ActiveBacked
  <2>2. Backing'
    BY <2>1, <1>now, <1>in, <1>theses, <1>builds, <1>same DEF Backing, IInv, CallBacked
  <2> QED
    BY <2>2 DEF Backing, AcquisitionBacked, ActiveAcquisitions, HasBuild
<1>12. [Wip!Next]_Held
  <2>1. InValidation' = InValidation
    BY <1>same DEF InValidation, Running
  <2>2. call.build \in ActiveBuilds /\ ActiveBuilds' = ActiveBuilds \ {call.build}
    BY <1>now, <1>in, <1>builds DEF IInv, CallBacked, ActiveBuilds
  <2>3. ActiveAcquisitions' = ActiveAcquisitions
    BY <1>same DEF ActiveAcquisitions
  <2> QED
    BY <2>1, <2>2, <2>3, BuildPlaceStep
<1> QED
  BY <1>1, <1>2, <1>3, <1>4, <1>5, <1>6, <1>7, <1>8, <1>9, <1>10, <1>11, <1>12 DEF IInv

\* What a crash loses is only the call.
LEMMA CrashStep ==
  ASSUME IInv, Crash
  PROVE  IInv' /\ [Wip!Next]_Held
<1>types. Typed
  BY TypesGiveLookups DEF IInv
<1>now. call' = NoCall
  BY DEF Crash
<1>same. UNCHANGED << theses, evidence, experiments, builds, acquisitions, handoffs,
           returns, proposals, pipelines >>
  BY DEF Crash
<1>1. TypeOK'
  BY <1>now, <1>same DEF IInv, TypeOK, Call, NoCall, NoApp, None
<1>2. BuildsOwned'
  BY <1>types, <1>now, <1>same DEF IInv, Typed, BuildsOwned, CallBacked, None, NoCall
<1>3. CallBacked'
  BY <1>types, <1>now, <1>same DEF IInv, Typed, BuildsOwned, CallBacked, NoCall, NoApp,
     None, MarkedBuildLinked, OneAtATime, ActiveBuilds
<1>4. MarkedBuildLinked'
  BY <1>types, <1>now, <1>same DEF IInv, Typed, BuildsOwned, CallBacked, MarkedBuildLinked,
     ActiveLinked, ActiveBuilds, Built, None, NoApp, OneAtATime
<1>5. OneAtATime'
  BY <1>same DEF IInv, OneAtATime, ActiveBuilds, ActiveAcquisitions, CallBacked, NoCall
<1>6. HandoffsKnown'
  BY <1>same DEF IInv, HandoffsKnown
<1>7. ExperimentsKnown'
  BY <1>same DEF IInv, ExperimentsKnown, ActiveAcquisitions
<1>8. ActiveLinked'
  BY <1>same DEF IInv, ActiveLinked, ActiveBuilds, CallBacked, BuildsOwned, OneAtATime, None
<1>9. RefsDecided'
  BY <1>same DEF IInv, RefsDecided, Covers, Counting, BuildGate, E1, E2, None
<1>10. HandoffFrozen'
  BY <1>same DEF IInv, HandoffFrozen, HandoffsKnown
<1>11. AcquisitionBacked'
  BY <1>same DEF IInv, AcquisitionBacked, ActiveAcquisitions, ExperimentsKnown, HasBuild,
     CallBacked, BuildsOwned, None, NoCall
<1>12. [Wip!Next]_Held
  <2>1. InValidation' = InValidation
    BY <1>same DEF InValidation, Running
  <2>2. ActiveBuilds' = ActiveBuilds
    BY <1>same DEF ActiveBuilds
  <2>3. ActiveAcquisitions' = ActiveAcquisitions
    BY <1>same DEF ActiveAcquisitions
  <2> QED
    BY <2>1, <2>2, <2>3, PlacesSame
<1> QED
  BY <1>1, <1>2, <1>3, <1>4, <1>5, <1>6, <1>7, <1>8, <1>9, <1>10, <1>11, <1>12 DEF IInv

\* A completed build has given its place back, if it had one.
LEMMA CompleteBuildStep ==
  ASSUME IInv, NEW b \in DOMAIN builds, CompleteBuild(b)
  PROVE  IInv' /\ [Wip!Next]_Held
<1>types. Typed
  BY TypesGiveLookups DEF IInv
<1>to. /\ builds' = [builds EXCEPT ![b].status = "completed"]
       /\ theses' = [theses EXCEPT ![builds[b].thesis].stage = "acquisition_ready"]
  BY DEF CompleteBuild, Quiet
<1>now. call = NoCall
  BY DEF CompleteBuild, Quiet
<1>kind. /\ theses \in [Theses -> Thesis]
         /\ builds \in Seq(Build)
         /\ "acquisition_ready" \in Stages /\ "completed" \in BuildStatus
  BY <1>types DEF IInv, TypeOK, Typed, Stages, BuildStatus
<1>in. builds[b].thesis \in Theses
  BY <1>types DEF IInv, TypeOK, Typed, Stages, BuildStatus
<1>thesesIn. theses' \in [Theses -> Thesis]
  BY <1>to, <1>kind, <1>in, StageSet
<1>theses. /\ \A u \in Theses : theses'[u].stage = IF u
                = builds[b].thesis THEN "acquisition_ready" ELSE theses[u].stage
           /\ \A u \in Theses : theses'[u].proposal = theses[u].proposal
                /\ theses'[u].refs = theses[u].refs /\ theses'[u].build = theses[u].build
                /\ theses'[u].acquisition = theses[u].acquisition
  BY <1>to, <1>kind, <1>in, StageSet
<1>buildsIn. builds' \in Seq(Build)
  BY <1>to, <1>kind, <1>in, BuildStatusSet
<1>builds. /\ DOMAIN builds' = DOMAIN builds
           /\ \A c \in DOMAIN builds : builds'[c].status = IF c = b THEN "completed"
                ELSE builds[c].status
           /\ \A c \in DOMAIN builds : builds'[c].thesis = builds[c].thesis
                /\ builds'[c].proposal = builds[c].proposal /\ builds'[c].app = builds[c].app
  BY <1>to, <1>kind, <1>in, BuildStatusSet
<1>same. UNCHANGED << evidence, experiments, acquisitions, handoffs, returns, proposals,
           pipelines, call >>
  BY DEF CompleteBuild
<1>1. TypeOK'
  BY <1>now, <1>in, <1>thesesIn, <1>buildsIn, <1>same DEF IInv, TypeOK
<1>2. BuildsOwned'
  BY <1>types, <1>now, <1>in, <1>theses, <1>builds, <1>same DEF IInv, Typed, BuildsOwned,
     CallBacked, None, NoCall
<1>3. CallBacked'
  BY <1>types, <1>now, <1>in, <1>theses, <1>builds, <1>same DEF IInv, Typed, BuildsOwned,
     CallBacked, NoCall, NoApp, None, MarkedBuildLinked, OneAtATime, ActiveBuilds
<1>4. MarkedBuildLinked'
  <2>1. \A c \in DOMAIN builds : builds'[c].status = "building" => builds'[c].app # NoApp
    BY <1>builds DEF IInv, MarkedBuildLinked
  <2>2. ASSUME NEW c \in DOMAIN builds, builds[c].app # NoApp
        PROVE  /\ theses'[builds[c].thesis].build = c
               /\ theses'[builds[c].thesis].stage \in Built
               /\ theses'[builds[c].thesis].proposal = builds[c].proposal
    BY <2>2, <1>types, <1>theses DEF Typed, IInv, MarkedBuildLinked, Built
  <2> QED
    BY <2>1, <2>2, <1>builds DEF MarkedBuildLinked
<1>5. OneAtATime'
  BY <1>types, <1>now, <1>in, <1>builds, <1>same DEF IInv, Typed, OneAtATime, ActiveBuilds,
     ActiveAcquisitions, CallBacked, NoCall
<1>6. HandoffsKnown'
  BY <1>types, <1>now, <1>in, <1>builds, <1>same DEF IInv, Typed, HandoffsKnown
<1>7. ExperimentsKnown'
  BY <1>same DEF IInv, ExperimentsKnown, ActiveAcquisitions
<1>8. ActiveLinked'
  BY <1>types, <1>now, <1>in, <1>theses, <1>builds, <1>same DEF IInv, Typed, ActiveLinked,
     ActiveBuilds, CallBacked, BuildsOwned, OneAtATime, None
<1>9. RefsDecided'
  BY <1>types, <1>now, <1>in, <1>theses, <1>same DEF IInv, Typed, RefsDecided, Covers,
     Counting, BuildGate, E1, E2, None
<1>10. HandoffFrozen'
  BY <1>types, <1>now, <1>in, <1>builds, <1>same DEF IInv, Typed, HandoffFrozen, HandoffsKnown
<1>11. AcquisitionBacked'
  BY <1>types, <1>now, <1>in, <1>theses, <1>builds, <1>same DEF IInv, Typed,
     AcquisitionBacked, ActiveAcquisitions, ExperimentsKnown, HasBuild, CallBacked,
     BuildsOwned, None, NoCall
<1>12. [Wip!Next]_Held
  <2>1. InValidation' = InValidation
    BY <1>same DEF InValidation, Running
  <2>2. ActiveBuilds' = ActiveBuilds \ {b}
    BY <1>builds DEF ActiveBuilds
  <2>3. b \notin ActiveBuilds => ActiveBuilds' = ActiveBuilds
    BY <2>2
  <2>4. ActiveAcquisitions' = ActiveAcquisitions
    BY <1>same DEF ActiveAcquisitions
  <2> QED
    BY <2>1, <2>2, <2>3, <2>4, PlacesSame, BuildPlaceStep
<1> QED
  BY <1>1, <1>2, <1>3, <1>4, <1>5, <1>6, <1>7, <1>8, <1>9, <1>10, <1>11, <1>12 DEF IInv

\* A terminated build gives its place back.
LEMMA TerminateBuildStep ==
  ASSUME IInv, NEW b \in DOMAIN builds, NEW status \in {"killed", "failed"},
    TerminateBuild(b, status)
  PROVE  IInv' /\ [Wip!Next]_Held
<1>types. Typed
  BY TypesGiveLookups DEF IInv
<1>to. /\ builds' = [builds EXCEPT ![b].status = status]
       /\ theses' = [theses EXCEPT ![builds[b].thesis].stage = status]
  BY DEF TerminateBuild, Quiet
<1>now. call = NoCall /\ b \in ActiveBuilds
  BY DEF TerminateBuild, Quiet
<1>kind. /\ theses \in [Theses -> Thesis]
         /\ builds \in Seq(Build)
         /\ status \in Stages /\ status \in BuildStatus
  BY <1>types DEF IInv, TypeOK, Typed, Stages, BuildStatus
<1>in. builds[b].thesis \in Theses
  BY <1>types DEF IInv, TypeOK, Typed, Stages, BuildStatus
<1>thesesIn. theses' \in [Theses -> Thesis]
  BY <1>to, <1>kind, <1>in, StageSet
<1>theses. /\ \A u \in Theses : theses'[u].stage = IF u = builds[b].thesis THEN status
                ELSE theses[u].stage
           /\ \A u \in Theses : theses'[u].proposal = theses[u].proposal
                /\ theses'[u].refs = theses[u].refs /\ theses'[u].build = theses[u].build
                /\ theses'[u].acquisition = theses[u].acquisition
  BY <1>to, <1>kind, <1>in, StageSet
<1>buildsIn. builds' \in Seq(Build)
  BY <1>to, <1>kind, <1>in, BuildStatusSet
<1>builds. /\ DOMAIN builds' = DOMAIN builds
           /\ \A c \in DOMAIN builds : builds'[c].status = IF c = b THEN status
                ELSE builds[c].status
           /\ \A c \in DOMAIN builds : builds'[c].thesis = builds[c].thesis
                /\ builds'[c].proposal = builds[c].proposal /\ builds'[c].app = builds[c].app
  BY <1>to, <1>kind, <1>in, BuildStatusSet
<1>same. UNCHANGED << evidence, experiments, acquisitions, handoffs, returns, proposals,
           pipelines, call >>
  BY DEF TerminateBuild
<1>1. TypeOK'
  BY <1>now, <1>in, <1>thesesIn, <1>buildsIn, <1>same DEF IInv, TypeOK
<1>2. BuildsOwned'
  BY <1>types, <1>now, <1>in, <1>theses, <1>builds, <1>same DEF IInv, Typed, BuildsOwned,
     CallBacked, None, NoCall
<1>3. CallBacked'
  BY <1>types, <1>now, <1>in, <1>theses, <1>builds, <1>same DEF IInv, Typed, BuildsOwned,
     CallBacked, NoCall, NoApp, None, MarkedBuildLinked, OneAtATime, ActiveBuilds
<1>4. MarkedBuildLinked'
  BY <1>types, <1>now, <1>in, <1>theses, <1>builds, <1>same DEF IInv, Typed, BuildsOwned,
     CallBacked, MarkedBuildLinked, ActiveLinked, ActiveBuilds, Built, None, NoApp, OneAtATime
<1>5. OneAtATime'
  BY <1>types, <1>now, <1>in, <1>builds, <1>same DEF IInv, Typed, OneAtATime, ActiveBuilds,
     ActiveAcquisitions, CallBacked, NoCall
<1>6. HandoffsKnown'
  BY <1>types, <1>now, <1>in, <1>builds, <1>same DEF IInv, Typed, HandoffsKnown
<1>7. ExperimentsKnown'
  BY <1>same DEF IInv, ExperimentsKnown, ActiveAcquisitions
<1>8. ActiveLinked'
  BY <1>types, <1>now, <1>in, <1>theses, <1>builds, <1>same DEF IInv, Typed, ActiveLinked,
     ActiveBuilds, CallBacked, BuildsOwned, OneAtATime, None
<1>9. RefsDecided'
  BY <1>types, <1>now, <1>in, <1>theses, <1>same DEF IInv, Typed, RefsDecided, Covers,
     Counting, BuildGate, E1, E2, None
<1>10. HandoffFrozen'
  BY <1>types, <1>now, <1>in, <1>builds, <1>same DEF IInv, Typed, HandoffFrozen, HandoffsKnown
<1>11. AcquisitionBacked'
  <2>1. Backing
    BY ActiveBacked
  <2>2. Backing'
    BY <2>1, <1>now, <1>in, <1>theses, <1>builds, <1>same DEF Backing, ActiveBuilds
  <2> QED
    BY <2>2 DEF Backing, AcquisitionBacked, ActiveAcquisitions, HasBuild
<1>12. [Wip!Next]_Held
  <2>1. InValidation' = InValidation
    BY <1>same DEF InValidation, Running
  <2>2. b \in ActiveBuilds /\ ActiveBuilds' = ActiveBuilds \ {b}
    BY <1>now, <1>builds DEF ActiveBuilds
  <2>3. ActiveAcquisitions' = ActiveAcquisitions
    BY <1>same DEF ActiveAcquisitions
  <2> QED
    BY <2>1, <2>2, <2>3, BuildPlaceStep
<1> QED
  BY <1>1, <1>2, <1>3, <1>4, <1>5, <1>6, <1>7, <1>8, <1>9, <1>10, <1>11, <1>12 DEF IInv

\* The end of a pipeline touches only the pipeline.
LEMMA PipelineEndsStep ==
  ASSUME IInv, NEW app \in Apps, PipelineEnds(app)
  PROVE  IInv' /\ [Wip!Next]_Held
<1>types. Typed
  BY TypesGiveLookups DEF IInv
<1>pipelines. pipelines' \in [Apps -> PipelineOf]
  BY DEF IInv, TypeOK, PipelineOf, PipelineEnds
<1>same. UNCHANGED << theses, evidence, experiments, builds, acquisitions, handoffs,
           returns, proposals, call >>
  BY DEF PipelineEnds
<1>1. TypeOK'
  BY <1>pipelines, <1>same DEF IInv, TypeOK
<1>2. BuildsOwned'
  BY <1>same DEF IInv, BuildsOwned, CallBacked, None, NoCall
<1>3. CallBacked'
  BY <1>same DEF IInv, BuildsOwned, CallBacked, NoCall, NoApp, None, MarkedBuildLinked,
     OneAtATime, ActiveBuilds
<1>4. MarkedBuildLinked'
  BY <1>same DEF IInv, BuildsOwned, CallBacked, MarkedBuildLinked, ActiveLinked,
     ActiveBuilds, Built, None, NoApp, OneAtATime
<1>5. OneAtATime'
  BY <1>same DEF IInv, OneAtATime, ActiveBuilds, ActiveAcquisitions, CallBacked, NoCall
<1>6. HandoffsKnown'
  BY <1>same DEF IInv, HandoffsKnown
<1>7. ExperimentsKnown'
  BY <1>same DEF IInv, ExperimentsKnown, ActiveAcquisitions
<1>8. ActiveLinked'
  BY <1>same DEF IInv, ActiveLinked, ActiveBuilds, CallBacked, BuildsOwned, OneAtATime, None
<1>9. RefsDecided'
  BY <1>same DEF IInv, RefsDecided, Covers, Counting, BuildGate, E1, E2, None
<1>10. HandoffFrozen'
  BY <1>same DEF IInv, HandoffFrozen, HandoffsKnown
<1>11. AcquisitionBacked'
  BY <1>same DEF IInv, AcquisitionBacked, ActiveAcquisitions, ExperimentsKnown, HasBuild,
     CallBacked, BuildsOwned, None, NoCall
<1>12. [Wip!Next]_Held
  <2>1. InValidation' = InValidation
    BY <1>same DEF InValidation, Running
  <2>2. ActiveBuilds' = ActiveBuilds
    BY <1>same DEF ActiveBuilds
  <2>3. ActiveAcquisitions' = ActiveAcquisitions
    BY <1>same DEF ActiveAcquisitions
  <2> QED
    BY <2>1, <2>2, <2>3, PlacesSame
<1> QED
  BY <1>1, <1>2, <1>3, <1>4, <1>5, <1>6, <1>7, <1>8, <1>9, <1>10, <1>11, <1>12 DEF IInv

\* A handoff freezes the proposal of a marked build.
LEMMA PrepareHandoffStep ==
  ASSUME IInv, NEW t \in Theses, NEW e \in DOMAIN experiments, PrepareHandoff(t, e)
  PROVE  IInv' /\ [Wip!Next]_Held
<1>types. Typed
  BY TypesGiveLookups DEF IInv
<1>now. /\ handoffs' = handoffs \cup {[thesis |-> t, experiment |-> e,
             build |-> theses[t].build, proposal |-> theses[t].proposal,
             ceiling |-> experiments[e].ceiling]}
        /\ theses[t].build # None /\ builds[theses[t].build].app # NoApp
  BY DEF PrepareHandoff, HasBuild
<1>known. /\ theses[t].build \in DOMAIN builds
          /\ builds[theses[t].build].thesis = t
               /\ builds[theses[t].build].proposal = theses[t].proposal
  BY <1>now DEF IInv, BuildsOwned, MarkedBuildLinked
<1>new. [thesis |-> t, experiment |-> e, build |-> theses[t].build,
          proposal |-> theses[t].proposal, ceiling |-> experiments[e].ceiling] \in Handoff
  BY <1>types DEF Typed, Handoff
<1>handoffs. handoffs' \subseteq Handoff
  BY <1>now, <1>new DEF IInv, TypeOK
<1>same. UNCHANGED << theses, evidence, experiments, builds, acquisitions, returns,
           proposals, pipelines, call >>
  BY DEF PrepareHandoff
<1>1. TypeOK'
  BY <1>now, <1>handoffs, <1>same DEF IInv, TypeOK
<1>2. BuildsOwned'
  BY <1>same DEF IInv, BuildsOwned, CallBacked, None, NoCall
<1>3. CallBacked'
  BY <1>same DEF IInv, BuildsOwned, CallBacked, NoCall, NoApp, None, MarkedBuildLinked,
     OneAtATime, ActiveBuilds
<1>4. MarkedBuildLinked'
  BY <1>same DEF IInv, BuildsOwned, CallBacked, MarkedBuildLinked, ActiveLinked,
     ActiveBuilds, Built, None, NoApp, OneAtATime
<1>5. OneAtATime'
  BY <1>same DEF IInv, OneAtATime, ActiveBuilds, ActiveAcquisitions, CallBacked, NoCall
<1>6. HandoffsKnown'
  BY <1>types, <1>now, <1>known, <1>handoffs, <1>same DEF IInv, Typed, HandoffsKnown
<1>7. ExperimentsKnown'
  BY <1>same DEF IInv, ExperimentsKnown, ActiveAcquisitions
<1>8. ActiveLinked'
  BY <1>same DEF IInv, ActiveLinked, ActiveBuilds, CallBacked, BuildsOwned, OneAtATime, None
<1>9. RefsDecided'
  BY <1>same DEF IInv, RefsDecided, Covers, Counting, BuildGate, E1, E2, None
<1>10. HandoffFrozen'
  BY <1>types, <1>now, <1>known, <1>handoffs, <1>same DEF IInv, Typed, HandoffFrozen,
     HandoffsKnown
<1>11. AcquisitionBacked'
  BY <1>same DEF IInv, AcquisitionBacked, ActiveAcquisitions, ExperimentsKnown, HasBuild,
     CallBacked, BuildsOwned, None, NoCall
<1>12. [Wip!Next]_Held
  <2>1. InValidation' = InValidation
    BY <1>same DEF InValidation, Running
  <2>2. ActiveBuilds' = ActiveBuilds
    BY <1>same DEF ActiveBuilds
  <2>3. ActiveAcquisitions' = ActiveAcquisitions
    BY <1>same DEF ActiveAcquisitions
  <2> QED
    BY <2>1, <2>2, <2>3, PlacesSame
<1> QED
  BY <1>1, <1>2, <1>3, <1>4, <1>5, <1>6, <1>7, <1>8, <1>9, <1>10, <1>11, <1>12 DEF IInv

\* An acquisition takes the place, for a thesis with a completed build.
LEMMA StartAcquisitionStep ==
  ASSUME IInv, NEW t \in Theses, NEW e \in DOMAIN experiments, StartAcquisition(t, e)
  PROVE  IInv' /\ [Wip!Next]_Held
<1>types. Typed
  BY TypesGiveLookups DEF IInv
<1>to. /\ theses' = [theses EXCEPT ![t].acquisition = Len(acquisitions) + 1]
       /\ acquisitions' = Append(acquisitions, [thesis |-> t, experiment |-> e,
            status |-> "active"])
  BY DEF StartAcquisition, Acquire
<1>now. theses[t].acquisition = None /\ ActiveAcquisitions = {} /\ HasBuild(t)
          /\ experiments[e].thesis = t
  BY DEF StartAcquisition, Acquire
<1>kind. /\ theses \in [Theses -> Thesis]
         /\ acquisitions \in Seq(Acquisition)
         /\ [thesis |-> t, experiment |-> e, status |-> "active"] \in Acquisition
  BY <1>types DEF Typed, IInv, TypeOK, Acquisition
<1>in. Len(acquisitions) + 1 \in Nat
  BY <1>types DEF Typed, IInv, TypeOK, Acquisition
<1>thesesIn. theses' \in [Theses -> Thesis]
  BY <1>to, <1>kind, <1>in, AcquisitionRefSet
<1>theses. /\ \A u \in Theses : theses'[u].acquisition = IF u
                = t THEN Len(acquisitions) + 1 ELSE theses[u].acquisition
           /\ \A u \in Theses : theses'[u].stage = theses[u].stage
                /\ theses'[u].proposal = theses[u].proposal
                /\ theses'[u].refs = theses[u].refs /\ theses'[u].build = theses[u].build
  BY <1>to, <1>kind, <1>in, AcquisitionRefSet
<1>acquisitionsIn. acquisitions' \in Seq(Acquisition)
  BY <1>to, <1>kind, <1>in, ElementAdded
<1>acquisitions. /\ DOMAIN acquisitions' = DOMAIN acquisitions \cup {Len(acquisitions) + 1}
                 /\ Len(acquisitions) + 1 \notin DOMAIN acquisitions
                 /\ \A c \in DOMAIN acquisitions : acquisitions'[c] = acquisitions[c]
                 /\ acquisitions'[Len(acquisitions) + 1] = [thesis |-> t, experiment |-> e,
                      status |-> "active"]
  BY <1>to, <1>kind, <1>in, ElementAdded
<1>same. UNCHANGED << evidence, experiments, builds, handoffs, returns, proposals,
           pipelines, call >>
  BY DEF StartAcquisition, Acquire
<1>1. TypeOK'
  BY <1>now, <1>in, <1>thesesIn, <1>acquisitionsIn, <1>same DEF IInv, TypeOK
<1>2. BuildsOwned'
  BY <1>types, <1>now, <1>in, <1>theses, <1>same DEF IInv, Typed, BuildsOwned, CallBacked,
     None, NoCall
<1>3. CallBacked'
  BY <1>types, <1>now, <1>in, <1>theses, <1>same DEF IInv, Typed, BuildsOwned, CallBacked,
     NoCall, NoApp, None, MarkedBuildLinked, OneAtATime, ActiveBuilds
<1>4. MarkedBuildLinked'
  BY <1>types, <1>now, <1>in, <1>theses, <1>same DEF IInv, Typed, BuildsOwned, CallBacked,
     MarkedBuildLinked, ActiveLinked, ActiveBuilds, Built, None, NoApp, OneAtATime
<1>5. OneAtATime'
  BY <1>types, <1>now, <1>in, <1>acquisitions, <1>same DEF IInv, Typed, OneAtATime,
     ActiveBuilds, ActiveAcquisitions, CallBacked, NoCall
<1>6. HandoffsKnown'
  BY <1>same DEF IInv, HandoffsKnown
<1>7. ExperimentsKnown'
  BY <1>types, <1>now, <1>in, <1>acquisitions, <1>same DEF IInv, Typed, ExperimentsKnown,
     ActiveAcquisitions
<1>8. ActiveLinked'
  BY <1>types, <1>now, <1>in, <1>theses, <1>same DEF IInv, Typed, ActiveLinked,
     ActiveBuilds, CallBacked, BuildsOwned, OneAtATime, None
<1>9. RefsDecided'
  BY <1>types, <1>now, <1>in, <1>theses, <1>same DEF IInv, Typed, RefsDecided, Covers,
     Counting, BuildGate, E1, E2, None
<1>10. HandoffFrozen'
  BY <1>same DEF IInv, HandoffFrozen, HandoffsKnown
<1>11. AcquisitionBacked'
  BY <1>types, <1>now, <1>in, <1>theses, <1>acquisitions, <1>same DEF IInv, Typed,
     AcquisitionBacked, ActiveAcquisitions, ExperimentsKnown, HasBuild, CallBacked,
     BuildsOwned, None, NoCall
<1>12. [Wip!Next]_Held
  <2>1. InValidation' = InValidation
    BY <1>same DEF InValidation, Running
  <2>2. ActiveBuilds' = ActiveBuilds
    BY <1>same DEF ActiveBuilds
  <2>3. ActiveAcquisitions = {} /\ ActiveAcquisitions' = {Len(acquisitions) + 1}
    BY <1>now, <1>acquisitions DEF ActiveAcquisitions
  <2> QED
    BY <2>1, <2>2, <2>3, AcquisitionPlaceStep
<1> QED
  BY <1>1, <1>2, <1>3, <1>4, <1>5, <1>6, <1>7, <1>8, <1>9, <1>10, <1>11, <1>12 DEF IInv

\* An acquisition that ends gives its place back.
LEMMA EndAcquisitionStep ==
  ASSUME IInv, NEW a \in DOMAIN acquisitions, NEW status \in {"completed", "terminated"},
    EndAcquisition(a, status)
  PROVE  IInv' /\ [Wip!Next]_Held
<1>types. Typed
  BY TypesGiveLookups DEF IInv
<1>to. acquisitions' = [acquisitions EXCEPT ![a].status = status]
  BY DEF EndAcquisition
<1>now. a \in ActiveAcquisitions /\ status \in {"active", "completed", "terminated"}
  BY DEF EndAcquisition
<1>kind. acquisitions \in Seq(Acquisition)
  BY DEF IInv, TypeOK
<1>acquisitionsIn. acquisitions' \in Seq(Acquisition)
  BY <1>to, <1>kind, AcquisitionStatusSet
<1>acquisitions. /\ DOMAIN acquisitions' = DOMAIN acquisitions
                 /\ \A c \in DOMAIN acquisitions : acquisitions'[c].status = IF c
                      = a THEN status ELSE acquisitions[c].status
                 /\ \A c \in DOMAIN acquisitions : acquisitions'[c].thesis
                      = acquisitions[c].thesis
                      /\ acquisitions'[c].experiment = acquisitions[c].experiment
  BY <1>to, <1>kind, AcquisitionStatusSet
<1>ended. status # "active"
  OBVIOUS
<1>same. UNCHANGED << theses, evidence, experiments, builds, handoffs, returns, proposals,
           pipelines, call >>
  BY DEF EndAcquisition
<1>1. TypeOK'
  BY <1>now, <1>acquisitionsIn, <1>ended, <1>same DEF IInv, TypeOK
<1>2. BuildsOwned'
  BY <1>same DEF IInv, BuildsOwned, CallBacked, None, NoCall
<1>3. CallBacked'
  BY <1>same DEF IInv, BuildsOwned, CallBacked, NoCall, NoApp, None, MarkedBuildLinked,
     OneAtATime, ActiveBuilds
<1>4. MarkedBuildLinked'
  BY <1>same DEF IInv, BuildsOwned, CallBacked, MarkedBuildLinked, ActiveLinked,
     ActiveBuilds, Built, None, NoApp, OneAtATime
<1>5. OneAtATime'
  BY <1>types, <1>now, <1>acquisitions, <1>ended, <1>same DEF IInv, Typed, OneAtATime,
     ActiveBuilds, ActiveAcquisitions, CallBacked, NoCall
<1>6. HandoffsKnown'
  BY <1>same DEF IInv, HandoffsKnown
<1>7. ExperimentsKnown'
  BY <1>types, <1>now, <1>acquisitions, <1>ended, <1>same DEF IInv, Typed, ExperimentsKnown,
     ActiveAcquisitions
<1>8. ActiveLinked'
  BY <1>same DEF IInv, ActiveLinked, ActiveBuilds, CallBacked, BuildsOwned, OneAtATime, None
<1>9. RefsDecided'
  BY <1>same DEF IInv, RefsDecided, Covers, Counting, BuildGate, E1, E2, None
<1>10. HandoffFrozen'
  BY <1>same DEF IInv, HandoffFrozen, HandoffsKnown
<1>11. AcquisitionBacked'
  BY <1>types, <1>now, <1>acquisitions, <1>ended, <1>same DEF IInv, Typed,
     AcquisitionBacked, ActiveAcquisitions, ExperimentsKnown, HasBuild, CallBacked,
     BuildsOwned, None, NoCall
<1>12. [Wip!Next]_Held
  <2>1. InValidation' = InValidation
    BY <1>same DEF InValidation, Running
  <2>2. ActiveBuilds' = ActiveBuilds
    BY <1>same DEF ActiveBuilds
  <2>3. a \in ActiveAcquisitions /\ ActiveAcquisitions' = ActiveAcquisitions \ {a}
    BY <1>ended, <1>now, <1>acquisitions DEF ActiveAcquisitions
  <2> QED
    BY <2>1, <2>2, <2>3, AcquisitionPlaceStep
<1> QED
  BY <1>1, <1>2, <1>3, <1>4, <1>5, <1>6, <1>7, <1>8, <1>9, <1>10, <1>11, <1>12 DEF IInv

\* A return completes at most the one active acquisition.
LEMMA ImportReturnStep ==
  ASSUME IInv, NEW e \in DOMAIN experiments, NEW spend \in Amounts \cup {0}, ImportReturn(e,
    spend)
  PROVE  IInv' /\ [Wip!Next]_Held
<1>types. Typed
  BY TypesGiveLookups DEF IInv
<1>to. acquisitions' = [c \in DOMAIN acquisitions |-> IF acquisitions[c].experiment = e
         /\ c \in ActiveAcquisitions THEN [acquisitions[c] EXCEPT !.status
         = "completed"] ELSE acquisitions[c]]
  BY DEF ImportReturn
<1>now. returns' = returns \cup {[experiment |-> e, spend |-> spend]}
  BY DEF ImportReturn
<1>kind. /\ acquisitions \in [1..Len(acquisitions) -> Acquisition]
              /\ Len(acquisitions) \in Nat
         /\ DOMAIN acquisitions = 1..Len(acquisitions)
  BY LenProperties DEF IInv, TypeOK
<1>each. \A c \in 1..Len(acquisitions) : [acquisitions[c] EXCEPT !.status
           = "completed"] \in Acquisition
  BY <1>kind DEF Acquisition
<1>type. acquisitions' \in [1..Len(acquisitions) -> Acquisition]
  BY <1>to, <1>kind, <1>each
<1>seq. acquisitions' \in Seq(Acquisition)
  BY <1>type, <1>kind, SeqDef
<1>set. \A c \in DOMAIN acquisitions : [acquisitions[c] EXCEPT !.status
          = "completed"].status = "completed"
          /\ [acquisitions[c] EXCEPT !.status = "completed"].thesis
          = acquisitions[c].thesis
          /\ [acquisitions[c] EXCEPT !.status = "completed"].experiment
          = acquisitions[c].experiment
  BY <1>kind DEF Acquisition
<1>acquisitionsIn. acquisitions' \in Seq(Acquisition)
  BY <1>now, <1>seq, <1>set
<1>acquisitions. /\ DOMAIN acquisitions' = DOMAIN acquisitions
                 /\ \A c \in DOMAIN acquisitions : acquisitions'[c].status
                      = IF acquisitions[c].experiment = e
                      /\ c \in ActiveAcquisitions THEN "completed" ELSE acquisitions[c].status
                 /\ \A c \in DOMAIN acquisitions : acquisitions'[c].thesis
                      = acquisitions[c].thesis
                      /\ acquisitions'[c].experiment = acquisitions[c].experiment
  BY <1>to, <1>now, <1>seq, <1>set
<1>returns. returns' \subseteq Return
  BY <1>to, <1>now, <1>types, InstanceAssumption DEF IInv, TypeOK, Typed, Return
<1>same. UNCHANGED << theses, evidence, experiments, builds, handoffs, proposals, pipelines,
           call >>
  BY DEF ImportReturn
<1>1. TypeOK'
  BY <1>now, <1>each, <1>type, <1>seq, <1>set, <1>acquisitionsIn, <1>returns, <1>same
     DEF IInv, TypeOK
<1>2. BuildsOwned'
  BY <1>same DEF IInv, BuildsOwned, CallBacked, None, NoCall
<1>3. CallBacked'
  BY <1>same DEF IInv, BuildsOwned, CallBacked, NoCall, NoApp, None, MarkedBuildLinked,
     OneAtATime, ActiveBuilds
<1>4. MarkedBuildLinked'
  BY <1>same DEF IInv, BuildsOwned, CallBacked, MarkedBuildLinked, ActiveLinked,
     ActiveBuilds, Built, None, NoApp, OneAtATime
<1>5. OneAtATime'
  BY <1>types, <1>now, <1>acquisitions, <1>same DEF IInv, Typed, OneAtATime, ActiveBuilds,
     ActiveAcquisitions, CallBacked, NoCall
<1>6. HandoffsKnown'
  BY <1>same DEF IInv, HandoffsKnown
<1>7. ExperimentsKnown'
  BY <1>types, <1>now, <1>acquisitions, <1>same DEF IInv, Typed, ExperimentsKnown,
     ActiveAcquisitions
<1>8. ActiveLinked'
  BY <1>same DEF IInv, ActiveLinked, ActiveBuilds, CallBacked, BuildsOwned, OneAtATime, None
<1>9. RefsDecided'
  BY <1>same DEF IInv, RefsDecided, Covers, Counting, BuildGate, E1, E2, None
<1>10. HandoffFrozen'
  BY <1>same DEF IInv, HandoffFrozen, HandoffsKnown
<1>11. AcquisitionBacked'
  BY <1>types, <1>now, <1>acquisitions, <1>same DEF IInv, Typed, AcquisitionBacked,
     ActiveAcquisitions, ExperimentsKnown, HasBuild, CallBacked, BuildsOwned, None, NoCall
<1>12. [Wip!Next]_Held
  <2>1. InValidation' = InValidation
    BY <1>same DEF InValidation, Running
  <2>2. ActiveBuilds' = ActiveBuilds
    BY <1>same DEF ActiveBuilds
  <2>3. ActiveAcquisitions' = {c \in ActiveAcquisitions : acquisitions[c].experiment # e}
    BY <1>acquisitions DEF ActiveAcquisitions
  <2>4. CASE \A c \in ActiveAcquisitions : acquisitions[c].experiment # e
    <3>1. ActiveAcquisitions' = ActiveAcquisitions
      BY <2>3, <2>4
    <3> QED
      BY <2>1, <2>2, <3>1, PlacesSame
  <2>5. CASE \E c \in ActiveAcquisitions : acquisitions[c].experiment = e
    <3>1. PICK c \in ActiveAcquisitions : acquisitions[c].experiment = e
      BY <2>5
    <3>2. ActiveAcquisitions' = ActiveAcquisitions \ {c}
      BY <2>3, <3>1 DEF IInv, OneAtATime
    <3> QED
      BY <2>1, <2>2, <3>2, AcquisitionPlaceStep
  <2> QED
    BY <2>4, <2>5
<1> QED
  BY <1>1, <1>2, <1>3, <1>4, <1>5, <1>6, <1>7, <1>8, <1>9, <1>10, <1>11, <1>12 DEF IInv

-----------------------------------------------------------------------------
(* The theorems.                                                            *)

\* The empty workspace is well formed.
LEMMA InitTypes == Init => TypeOK
<1> SUFFICES ASSUME Init PROVE TypeOK
  OBVIOUS
<1>1. theses \in [Theses -> Thesis]
  BY DEF Init, Thesis, Stages, None
<1>2. evidence \in [Drafts -> {"absent", "unverified", "verified", "rejected"}]
  BY DEF Init
<1>3. /\ experiments \in Seq(Experiment) /\ builds \in Seq(Build)
      /\ acquisitions \in Seq(Acquisition)
  BY EmptySeq DEF Init
<1>4. handoffs \subseteq Handoff /\ returns \subseteq Return /\ proposals \in Nat
  BY DEF Init
<1>5. pipelines \in [Apps -> PipelineOf]
  BY DEF Init, PipelineOf, None, NoThesis
<1>6. call \in Call
  BY DEF Init, Call, NoCall, None, NoApp
<1> QED
  BY <1>1, <1>2, <1>3, <1>4, <1>5, <1>6 DEF TypeOK

\* It has the invariant, and holds no place.
LEMMA InitInvariant == Init => IInv /\ Wip!Init
<1> SUFFICES ASSUME Init PROVE IInv /\ Wip!Init
  OBVIOUS
<1>1. TypeOK
  BY InitTypes
<1>2. /\ DOMAIN experiments = {} /\ DOMAIN builds = {} /\ DOMAIN acquisitions = {}
      /\ handoffs = {} /\ call = NoCall
      /\ \A t \in Theses : theses[t].build = None /\ theses[t].proposal = None
  BY EmptySeq DEF Init
<1>3. ActiveBuilds = {} /\ ActiveAcquisitions = {} /\ InValidation = {}
  BY <1>2 DEF ActiveBuilds, ActiveAcquisitions, InValidation, Running
<1>4. BuildsOwned /\ CallBacked /\ MarkedBuildLinked /\ HandoffsKnown /\ HandoffFrozen
  BY <1>2 DEF BuildsOwned, CallBacked, MarkedBuildLinked, HandoffsKnown, HandoffFrozen
<1>5. OneAtATime /\ ExperimentsKnown /\ ActiveLinked /\ AcquisitionBacked
  BY <1>3 DEF OneAtATime, ExperimentsKnown, ActiveLinked, AcquisitionBacked
<1>6. RefsDecided
  BY <1>2 DEF RefsDecided
<1>7. Held = [p \in Pool |-> {}]
  BY <1>3 DEF Held, Pool
<1> QED
  BY <1>1, <1>4, <1>5, <1>6, <1>7 DEF IInv, Wip!Init

\* Every step keeps the invariant and takes or gives back at most one place.
LEMMA StepInvariant == IInv /\ [Next]_vars => IInv' /\ [Wip!Next]_Held
<1> SUFFICES ASSUME IInv, [Next]_vars PROVE IInv' /\ [Wip!Next]_Held
  OBVIOUS
<1>1. CASE Research
  BY <1>1, ProposeThesisStep, ConfirmThesisStep, CreateExperimentStep, RecordEvidenceStep,
     VerifyEvidenceStep, CompleteExperimentStep, StartValidationStep, ApproveSpendStep
     DEF Research
<1>2. CASE Construction
  BY <1>2, ProposeBuildStep, StartBuildStep, EngineStartsStep, EngineRefusesStep,
     BuildMarkedStep, BuildReleasedStep, CrashStep, CompleteBuildStep, TerminateBuildStep,
     PipelineEndsStep
     DEF Construction
<1>3. CASE Market
  BY <1>3, PrepareHandoffStep, StartAcquisitionStep, EndAcquisitionStep, ImportReturnStep
     DEF Market
<1>4. CASE UNCHANGED vars
  <2>1. IInv'
    <3>1. TypeOK'
      BY <1>4 DEF vars, IInv, TypeOK
    <3>2. BuildsOwned' /\ CallBacked' /\ MarkedBuildLinked'
      BY <1>4 DEF vars, IInv, BuildsOwned, CallBacked, MarkedBuildLinked
    <3>3. OneAtATime' /\ ExperimentsKnown' /\ ActiveLinked'
      BY <1>4 DEF vars, IInv, OneAtATime, ActiveBuilds, ActiveAcquisitions, ExperimentsKnown,
                  ActiveLinked
    <3>4. HandoffsKnown' /\ RefsDecided' /\ HandoffFrozen'
      BY <1>4 DEF vars, IInv, HandoffsKnown, RefsDecided, HandoffFrozen
    <3>5. AcquisitionBacked'
      BY <1>4 DEF vars, IInv, AcquisitionBacked, ActiveAcquisitions, HasBuild
    <3> QED
      BY <3>1, <3>2, <3>3, <3>4, <3>5 DEF IInv
  <2>2. InValidation' = InValidation
    BY <1>4 DEF vars, InValidation, Running
  <2>3. ActiveBuilds' = ActiveBuilds /\ ActiveAcquisitions' = ActiveAcquisitions
    BY <1>4 DEF vars, ActiveBuilds, ActiveAcquisitions
  <2> QED
    BY <2>1, <2>2, <2>3, PlacesSame
<1> QED
  BY <1>1, <1>2, <1>3, <1>4 DEF Next

\* The conjunction that every operation preserves.
THEOREM WorkspaceInvariant == Spec => []IInv
<1> QED
  BY InitInvariant, StepInvariant, PTL DEF Spec

\* The workspace file, the pipelines and the call keep their shape.
THEOREM WorkspaceTypes == Spec => []TypeOK
<1>1. IInv => TypeOK
  BY DEF IInv
<1> QED
  BY <1>1, WorkspaceInvariant, PTL

\* Where a step leaves the proposals and what is verified of their references alone.
LEMMA ProofStands ==
  ASSUME IInv, NEW t \in Theses,
         theses'[t].proposal = theses[t].proposal, theses'[t].refs = theses[t].refs,
         \A d \in theses[t].refs : evidence[d] = "verified" => evidence'[d] = "verified"
  PROVE  Proven(t) => Proven(t)'
<1> QED
  BY DEF Proven, Covers

\* What one step may do to the proof of a proposal.
KeepsProof(t) ==
  (theses[t].proposal # None /\ ~Proven(t))' =>
       /\ UNCHANGED << theses[t].proposal, theses[t].refs >>
       /\ Proven(t) => \E d \in theses[t].refs : evidence[d] = "verified" /\ evidence'[d] = "rejected"

\* Every step but a proposal and a decision leaves proposals and what is verified alone.
LEMMA OthersKeepProof ==
  ASSUME IInv, [Next]_vars,
         \A t \in Theses : ~ProposeBuild(t),
         \A d \in Drafts, decision \in Decisions : ~VerifyEvidence(d, decision)
  PROVE  \A t \in Theses :
           /\ theses'[t].proposal = theses[t].proposal /\ theses'[t].refs = theses[t].refs
           /\ \A d \in Drafts : evidence[d] = "verified" => evidence'[d] = "verified"
<1> DEFINE Stays ==
             \A t \in Theses :
               /\ theses'[t].proposal = theses[t].proposal /\ theses'[t].refs = theses[t].refs
               /\ \A d \in Drafts : evidence[d] = "verified" => evidence'[d] = "verified"
<1> SUFFICES Stays
  OBVIOUS
<1>1. TypeOK /\ theses \in [Theses -> Thesis] /\ Typed
  BY TypesGiveLookups DEF IInv, TypeOK
<1>2. ASSUME NEW d \in Drafts, RecordEvidence(d) PROVE Stays
  BY <1>1, <1>2 DEF RecordEvidence, TypeOK
<1>3. ASSUME NEW t \in Theses, NEW s \in Stages, theses' = [theses EXCEPT ![t].stage = s], UNCHANGED evidence
      PROVE  Stays
  BY <1>1, <1>3, StageSet
<1>4. ASSUME NEW t \in Theses, NEW n \in Nat, theses' = [theses EXCEPT ![t].build = n], UNCHANGED evidence
      PROVE  Stays
  BY <1>1, <1>4, BuildRefSet
<1>5. ASSUME NEW t \in Theses, NEW n \in Nat, theses' = [theses EXCEPT ![t].acquisition = n], UNCHANGED evidence
      PROVE  Stays
  BY <1>1, <1>5, AcquisitionRefSet
<1>6. ASSUME UNCHANGED << theses, evidence >> PROVE Stays
  BY <1>6
<1> HIDE DEF Stays
<1>7. CASE Research
  <2>1. ASSUME NEW t \in Theses, ProposeThesis(t) \/ ConfirmThesis(t) PROVE Stays
    BY <2>1, <1>3 DEF ProposeThesis, ConfirmThesis, Stages
  <2>2. ASSUME NEW t \in Theses, NEW e \in DOMAIN experiments, StartValidation(t, e) PROVE Stays
    BY <2>2, <1>3 DEF StartValidation, Stages
  <2> QED
    BY <1>2, <1>6, <1>7, <2>1, <2>2 DEF Research, CreateExperiment, CompleteExperiment, ApproveSpend
<1>8. CASE Construction
  <2>1. ASSUME NEW t \in Theses, NEW app \in Apps, StartBuild(t, app) PROVE Stays
    <3>1. Len(builds) + 1 \in Nat
      BY <1>1 DEF TypeOK
    <3> QED
      BY <2>1, <3>1, <1>4 DEF StartBuild, Reserve
  <2>2. ASSUME NEW b \in DOMAIN builds, CompleteBuild(b) PROVE Stays
    BY <1>1, <2>2, <1>3 DEF CompleteBuild, Typed, Stages
  <2>3. ASSUME NEW b \in DOMAIN builds, NEW status \in {"killed", "failed"}, TerminateBuild(b, status)
        PROVE  Stays
    BY <1>1, <2>3, <1>3 DEF TerminateBuild, Typed, Stages
  <2>4. ASSUME BuildMarked \/ BuildReleased PROVE Stays
    <3>1. builds[call.build].thesis \in Theses
      BY <1>1, <2>4 DEF IInv, CallBacked, BuildMarked, BuildReleased, NoCall, Typed
    <3> QED
      BY <2>4, <3>1, <1>3, <1>4 DEF BuildMarked, BuildReleased, Stages, None
  <2> QED
    BY <1>6, <1>8, <2>1, <2>2, <2>3, <2>4
       DEF Construction, EngineStarts, EngineRefuses, Crash, PipelineEnds
<1>9. CASE Market
  <2>1. ASSUME NEW t \in Theses, NEW e \in DOMAIN experiments, StartAcquisition(t, e) PROVE Stays
    <3>1. Len(acquisitions) + 1 \in Nat
      BY <1>1 DEF TypeOK
    <3> QED
      BY <2>1, <3>1, <1>5 DEF StartAcquisition, Acquire
  <2> QED
    BY <1>6, <1>9, <2>1 DEF Market, PrepareHandoff, EndAcquisition, ImportReturn
<1> QED
  BY <1>6, <1>7, <1>8, <1>9 DEF Next, vars

LEMMA StepKeepsProof == IInv /\ [Next]_vars => \A t \in Theses : KeepsProof(t)
<1> SUFFICES ASSUME IInv, [Next]_vars, NEW t \in Theses PROVE KeepsProof(t)
  OBVIOUS
<1>1. theses \in [Theses -> Thesis] /\ evidence \in [Drafts -> {"absent", "unverified", "verified", "rejected"}]
  BY DEF IInv, TypeOK
<1>2. theses[t].refs \subseteq Drafts
  BY <1>1 DEF Thesis
<1>3. ASSUME NEW u \in Theses, ProposeBuild(u) PROVE KeepsProof(t)
  <2>1. evidence' = evidence
    BY <1>3 DEF ProposeBuild
  <2>2. CASE t = u
    <3>1. theses'[t].refs = { d \in Counting(t) : d.validation \in E1 \cup E2 }
      BY <1>1, <1>3, <2>2 DEF ProposeBuild, Thesis
    <3>2. Covers(Counting(t), E1 \cup E2)
      BY <1>3, <2>2 DEF ProposeBuild, BuildGate
    <3>3. Proven(t)'
      BY <2>1, <3>1, <3>2 DEF Proven, Covers, Counting
    <3> QED
      BY <3>3 DEF KeepsProof
  <2>3. CASE t # u
    <3>1. theses'[t] = theses[t]
      BY <1>1, <1>3, <2>3 DEF ProposeBuild
    <3>2. Proven(t) => Proven(t)'
      BY <2>1, <3>1, ProofStands
    <3> QED
      BY <3>1, <3>2 DEF KeepsProof
  <2> QED
    BY <2>2, <2>3
<1>4. ASSUME NEW c \in Drafts, NEW decision \in Decisions, VerifyEvidence(c, decision) PROVE KeepsProof(t)
  <2>1. theses' = theses /\ evidence' = [evidence EXCEPT ![c] = decision]
    BY <1>4 DEF VerifyEvidence
  <2>2. decision \in {"verified", "rejected"}
    BY InstanceAssumption
  <2>3. CASE \E d \in theses[t].refs : evidence[d] = "verified" /\ evidence'[d] = "rejected"
    BY <2>1, <2>3 DEF KeepsProof
  <2>4. CASE ~\E d \in theses[t].refs : evidence[d] = "verified" /\ evidence'[d] = "rejected"
    <3>1. \A d \in theses[t].refs : evidence[d] = "verified" => evidence'[d] = "verified"
      BY <1>1, <1>2, <2>1, <2>2, <2>4
    <3>2. Proven(t) => Proven(t)'
      BY <2>1, <3>1, ProofStands
    <3> QED
      BY <2>1, <3>2 DEF KeepsProof
  <2> QED
    BY <2>3, <2>4
<1>5. CASE /\ \A u \in Theses : ~ProposeBuild(u)
           /\ \A d \in Drafts, decision \in Decisions : ~VerifyEvidence(d, decision)
  <2>1. /\ theses'[t].proposal = theses[t].proposal /\ theses'[t].refs = theses[t].refs
        /\ \A d \in Drafts : evidence[d] = "verified" => evidence'[d] = "verified"
    BY <1>5, OthersKeepProof
  <2>2. Proven(t) => Proven(t)'
    BY <1>2, <2>1, ProofStands
  <2> QED
    BY <2>1, <2>2 DEF KeepsProof
<1> QED
  BY <1>3, <1>4, <1>5

\* A proposal is proven when it is made, by evidence of its thesis that is external,
\* supporting and verified; only the owner's rejection of such evidence ends that.
THEOREM ProposalsStayProven == Spec => ProvenUntilRejected
<1>1. IInv /\ [Next]_vars =>
        [\A t \in Theses : (theses[t].proposal # None /\ ~Proven(t))' =>
           /\ UNCHANGED << theses[t].proposal, theses[t].refs >>
           /\ Proven(t) => \E d \in theses[t].refs :
                             evidence[d] = "verified" /\ evidence'[d] = "rejected"]_vars
  BY StepKeepsProof DEF KeepsProof
<1> QED
  BY <1>1, WorkspaceInvariant, PTL DEF Spec, ProvenUntilRejected

\* A handoff promises the proposal its build was started from, and the build is its
\* thesis's, through crashes, failed starts and second proposals.
THEOREM HandoffsAreFrozen == Spec => []HandoffFrozen
<1>1. IInv => HandoffFrozen
  BY DEF IInv
<1> QED
  BY <1>1, WorkspaceInvariant, PTL

\* The build or acquisition that takes a place is the one its thesis refers to, and the
\* build of an active acquisition stays completed.
THEOREM PlacesAreBacked == Spec => []PlacesBacked
<1>1. IInv => ActiveBuildLinked
  <2> SUFFICES ASSUME IInv, NEW b \in ActiveBuilds
               PROVE  /\ theses[builds[b].thesis].build = b
                      /\ builds[b].status = "building" =>
                           theses[builds[b].thesis].proposal = builds[b].proposal
    BY DEF ActiveBuildLinked
  <2> QED
    BY DEF IInv, ActiveLinked, MarkedBuildLinked, ActiveBuilds
<1>2. IInv => PlacesBacked
  BY <1>1 DEF IInv, PlacesBacked
<1> QED
  BY <1>2, WorkspaceInvariant, PTL

\* The workspace implements the pools of WorkInProgress: three theses in validation
\* (ValidationLimit), one build and one acquisition, each place taken and given back
\* by itself, through failed starts and crashes too.
THEOREM WorkspaceRespectsLimits == Spec => LimitsRespected
<1>1. Init => Wip!Init
  BY InitInvariant
<1>2. IInv /\ [Next]_vars => [Wip!Next]_Held
  BY StepInvariant
<1> QED
  BY <1>1, <1>2, WorkspaceInvariant, PTL DEF Spec, LimitsRespected, Wip!Spec

===============================================================================
