-------------------------- MODULE ControlPlaneProofs --------------------------
(***************************************************************************)
(* Theorems of the three services that keep their own records of what they *)
(* were asked to do. Of ControlDispatcher, for any keys, actions and       *)
(* bounds: the type invariant, one effect per idempotency key, one         *)
(* operation per confirmation. Of ExecutorRun, for any set of runs: one    *)
(* run at a time, settled once. Of MemoryOutbox, for any records and       *)
(* bounds: the type invariant, that nothing accepted is lost, that a       *)
(* drain's index is right after its await, and that a drain runs down.     *)
(***************************************************************************)
EXTENDS ControlDispatcher, ExecutorRun, MemoryOutbox, FiniteSetTheorems, SequenceTheorems,
        WellFoundedInduction, TLAPS

\* What a handler in flight implies about its key: its operation was stored
\* before, and its effect is to come exactly while it is "called".
Flights ==
  \A k \in Keys :
    /\ flights[k] # "none" => ops[k].status # "absent"
    /\ ops[k].status = "absent" => effects[k] = 0
    /\ flights[k] = "called" => effects[k] = 0
    /\ effects[k] <= 1

\* Nonces are numbers never issued twice.
Nonces ==
  /\ IsFiniteSet(issued) /\ pending \subseteq issued
  /\ \A c \in issued : c.nonce \in 1..Cardinality(issued)
  /\ \A c, d \in issued : c.nonce = d.nonce => c = d

\* A confirmation that may still be used was never used.
Unspent ==
  /\ \A c \in pending, k \in Keys : ops[k].nonce # c.nonce
  /\ \A k \in Keys : ops[k].action \notin Risky => ops[k].nonce = NoNonce

IInv == TypeOK /\ Flights /\ Nonces /\ Unspent /\ ConfirmedOnce

-----------------------------------------------------------------------------
(* Helpers: a version, served or changed, is a version.                     *)

\* The snapshot that is served has a version of the factory.
LEMMA ServedType == TypeOK => Served \in Version
BY DEF TypeOK, Served, Version

\* A change leads to another version.
LEMMA ChangeType ==
  ASSUME NEW v \in Version
  PROVE  HiddenChange(v) \in Version /\ KeyedChange(v) \in Version
BY DEF Version, HiddenChange, KeyedChange

\* Looking at the snapshot leaves a cache.
LEMMA LookType == TypeOK /\ Look => cache' \in [ version : Version, fresh : BOOLEAN ]
BY ServedType DEF Look

\* The initial states satisfy the invariant.
LEMMA InitKeeps == Init => IInv
<1> SUFFICES ASSUME Init PROVE IInv
  OBVIOUS
<1>1. NoVersion \in Version
  BY DEF NoVersion, Version
<1>2. NoOperation \in Operation
  BY <1>1 DEF NoOperation, Operation, NoNonce
<1>3. TypeOK
  BY <1>1, <1>2 DEF Init, TypeOK
<1>4. Flights
  BY DEF Init, Flights, NoOperation
<1>5. Nonces
  BY FS_EmptySet DEF Init, Nonces
<1>6. Unspent /\ ConfirmedOnce
  BY NoActionAssumption, ActionsAssumption
  DEF Init, Unspent, ConfirmedOnce, NoOperation, NoNonce
<1> QED
  BY <1>3, <1>4, <1>5, <1>6 DEF IInv

-----------------------------------------------------------------------------
(* Steps that store no operation under a new key.                           *)

\* A step that leaves operations, flights, effects and issued confirmations alone.
LEMMA QuietKeeps ==
  ASSUME IInv, TypeOK', UNCHANGED << ops, flights, effects, issued >>, pending' \subseteq pending
  PROVE  IInv'
<1>1. Flights'
  BY DEF IInv, Flights
<1>2. Nonces'
  BY DEF IInv, Nonces
<1>3. Unspent' /\ ConfirmedOnce'
  BY DEF IInv, Unspent, ConfirmedOnce
<1> QED
  BY <1>1, <1>2, <1>3 DEF IInv

\* A confirmation is issued with a number of its own.
LEMMA IssueKeeps ==
  ASSUME IInv, NEW a \in Actions, IssueConfirmation(a)
  PROVE  IInv'
<1> DEFINE n == Cardinality(issued) + 1
           c == [ nonce |-> n, action |-> a, version |-> Served ]
<1>1. IsFiniteSet(issued) /\ Cardinality(issued) \in Nat
  BY FS_CardinalityType DEF IInv, Nonces
<1>2. c \in Confirmation
  BY <1>1, ServedType DEF IInv, Confirmation
<1>3. c \notin issued
  BY <1>1 DEF IInv, Nonces
<1>4. /\ pending' = pending \cup {c} /\ issued' = issued \cup {c}
      /\ UNCHANGED << world, ops, flights, effects, changes, crashes >>
  BY DEF IssueConfirmation
<1>5. IsFiniteSet(issued') /\ Cardinality(issued') = n
  BY <1>1, <1>3, <1>4, FS_AddElement
<1>6. TypeOK'
  BY <1>2, <1>4, LookType DEF IInv, TypeOK, IssueConfirmation
<1>7. Flights'
  BY <1>4 DEF IInv, Flights
<1>8. Nonces'
  <2>1. \A d \in issued' : d.nonce \in 1..Cardinality(issued')
    BY <1>1, <1>4, <1>5 DEF IInv, Nonces
  <2>2. \A d, e \in issued' : d.nonce = e.nonce => d = e
    BY <1>1, <1>4 DEF IInv, Nonces
  <2> QED
    BY <1>4, <1>5, <2>1, <2>2 DEF IInv, Nonces
<1>9. \A k \in Keys : ops[k].nonce # n
  <2> SUFFICES ASSUME NEW k \in Keys, ops[k].nonce = n PROVE FALSE
    OBVIOUS
  <2>1. n # NoNonce
    BY <1>1 DEF NoNonce
  <2>2. ops[k].action \in Risky
    BY <2>1 DEF IInv, Unspent
  <2>3. [ nonce |-> ops[k].nonce, action |-> ops[k].action, version |-> ops[k].version ] \in issued
    BY <2>2 DEF IInv, ConfirmedOnce
  <2> QED
    BY <1>1, <2>3 DEF IInv, Nonces
<1>10. Unspent'
  BY <1>4, <1>9 DEF IInv, Unspent
<1>11. ConfirmedOnce'
  BY <1>4 DEF IInv, ConfirmedOnce
<1> QED
  BY <1>6, <1>7, <1>8, <1>10, <1>11 DEF IInv

-----------------------------------------------------------------------------
(* The beginning of an operation.                                           *)

\* An operation begins under a new key with no nonce, for an action that is safe,
\* or with the nonce of a confirmation that was pending and is so no more.
LEMMA BeginKeeps ==
  ASSUME IInv, NEW k \in Keys, NEW a \in Actions, NEW nonce \in Nat,
         Accepted(k), Begin(k, a, nonce),
         UNCHANGED << effects, issued, changes, crashes >>,
         \/ a \notin Risky /\ nonce = NoNonce /\ pending' = pending
         \/ /\ a \in Risky
            /\ \E c \in pending : /\ c.action = a /\ c.version = Served /\ c.nonce = nonce
                                 /\ pending' = pending \ {c}
  PROVE  IInv'
<1> DEFINE op == [ status |-> "running", action |-> a, version |-> Served, nonce |-> nonce ]
<1>1. op \in Operation
  BY ServedType DEF IInv, Operation
<1>2. ops' = [ops EXCEPT ![k] = op] /\ flights' = [flights EXCEPT ![k] = "called"]
  BY DEF Begin
<1>3. world' \in Version
  BY ChangeType DEF IInv, TypeOK, Begin
<1>4. pending' \subseteq pending
  OBVIOUS
<1>5. TypeOK'
  BY <1>1, <1>2, <1>3, <1>4, LookType DEF IInv, TypeOK, Accepted
<1>6. ops'[k] = op /\ \A j \in Keys \ {k} : ops'[j] = ops[j] /\ flights'[j] = flights[j]
  BY <1>2 DEF IInv, TypeOK
<1>7. Flights'
  <2> SUFFICES ASSUME NEW j \in Keys
               PROVE  /\ flights'[j] # "none" => ops'[j].status # "absent"
                      /\ ops'[j].status = "absent" => effects[j] = 0
                      /\ flights'[j] = "called" => effects[j] = 0
                      /\ effects[j] <= 1
    BY DEF Flights
  <2>1. CASE j = k
    BY <2>1, <1>6 DEF IInv, Flights, Accepted
  <2>2. CASE j # k
    BY <2>2, <1>6 DEF IInv, Flights
  <2> QED
    BY <2>1, <2>2
<1>8. Nonces'
  BY <1>4 DEF IInv, Nonces
<1>9. CASE a \notin Risky /\ nonce = NoNonce /\ pending' = pending
  <2>1. \A c \in pending : c.nonce # NoNonce
    BY FS_CardinalityType DEF IInv, Nonces, NoNonce
  <2>2. Unspent'
    BY <1>6, <1>9, <2>1 DEF IInv, Unspent
  <2>3. ConfirmedOnce'
    BY <1>6, <1>9 DEF IInv, ConfirmedOnce
  <2> QED
    BY <1>5, <1>7, <1>8, <2>2, <2>3 DEF IInv
<1>10. ASSUME NEW c \in pending, c.action = a, c.version = Served, c.nonce = nonce,
              pending' = pending \ {c}, a \in Risky
       PROVE  Unspent' /\ ConfirmedOnce'
  <2>1. \A d \in pending' : d.nonce # nonce
    BY <1>10 DEF IInv, Nonces
  <2>2. \A j \in Keys : ops[j].nonce # nonce
    BY <1>10 DEF IInv, Unspent
  <2>3. Unspent'
    BY <1>4, <1>6, <1>10, <2>1 DEF IInv, Unspent
  <2>4. [ nonce |-> nonce, action |-> a, version |-> Served ] \in issued
    <3>1. c \in Confirmation /\ c \in issued
      BY DEF IInv, TypeOK, Nonces
    <3>2. c = [ nonce |-> nonce, action |-> a, version |-> Served ]
      BY <1>10, <3>1 DEF Confirmation
    <3> QED
      BY <3>1, <3>2
  <2>5. ConfirmedOnce'
    BY <1>6, <2>2, <2>4 DEF IInv, ConfirmedOnce
  <2> QED
    BY <2>3, <2>5
<1> QED
  BY <1>5, <1>7, <1>8, <1>9, <1>10 DEF IInv

-----------------------------------------------------------------------------
(* The handler, and the crash that takes it.                                *)

\* A handler takes effect once: only from "called", where its key has had none.
LEMMA HandlerActsKeeps ==
  ASSUME IInv, NEW k \in Keys, HandlerActs(k)
  PROVE  IInv'
<1>1. /\ flights[k] = "called" /\ effects[k] = 0 /\ ops[k].status # "absent"
      /\ flights' = [flights EXCEPT ![k] = "acted"]
      /\ effects' = [effects EXCEPT ![k] = @ + 1]
      /\ UNCHANGED << cache, ops, pending, issued, changes, crashes >>
  BY DEF IInv, Flights, HandlerActs
<1>2. world' \in Version
  BY ChangeType DEF IInv, TypeOK, HandlerActs
<1>3. TypeOK'
  BY <1>1, <1>2 DEF IInv, TypeOK
<1>4. Flights'
  BY <1>1 DEF IInv, TypeOK, Flights
<1>5. Nonces' /\ Unspent' /\ ConfirmedOnce'
  BY <1>1 DEF IInv, Nonces, Unspent, ConfirmedOnce
<1> QED
  BY <1>3, <1>4, <1>5 DEF IInv

\* Recording an outcome keeps the action, the version and the nonce on record.
LEMMA SettleKeeps ==
  ASSUME IInv, NEW k \in Keys, NEW outcome \in {"succeeded", "failed"},
         flights[k] # "none", Settle(k, outcome)
  PROVE  IInv'
<1>1. /\ flights' = [flights EXCEPT ![k] = "none"]
      /\ ops' = [ops EXCEPT ![k].status = outcome]
      /\ UNCHANGED << cache, effects, pending, issued, changes, crashes >>
  BY DEF Settle
<1>2. world' \in Version
  BY ChangeType DEF IInv, TypeOK, Settle
<1>3. \A j \in Keys : /\ ops'[j].nonce = ops[j].nonce /\ ops'[j].action = ops[j].action
                      /\ ops'[j].version = ops[j].version
                      /\ ops'[j].status = IF j = k THEN outcome ELSE ops[j].status
  BY <1>1 DEF IInv, TypeOK, Operation
<1>4. TypeOK'
  <2>1. [ops[k] EXCEPT !.status = outcome] \in Operation
    <3>1. ops[k] \in Operation
      BY DEF IInv, TypeOK
    <3> QED
      BY <3>1 DEF Operation
  <2>2. ops' \in [Keys -> Operation]
    BY <1>1, <2>1 DEF IInv, TypeOK
  <2> QED
    BY <1>1, <1>2, <2>2 DEF IInv, TypeOK
<1>5. Flights'
  BY <1>1, <1>3 DEF IInv, TypeOK, Flights
<1>6. Nonces' /\ Unspent'
  BY <1>1, <1>3 DEF IInv, Nonces, Unspent
<1>7. ConfirmedOnce'
  BY <1>1, <1>3 DEF IInv, ConfirmedOnce
<1> QED
  BY <1>4, <1>5, <1>6, <1>7 DEF IInv

\* A handler that is gone, with its outcome unrecorded, takes no effect any more.
LEMMA FlightsLostKeeps ==
  ASSUME IInv, TypeOK', UNCHANGED << ops, effects, issued >>, pending' \subseteq pending,
         \A k \in Keys : flights'[k] \in {flights[k], "none"}
  PROVE  IInv'
<1>1. Flights'
  BY DEF IInv, Flights
<1>2. Nonces' /\ Unspent' /\ ConfirmedOnce'
  BY DEF IInv, Nonces, Unspent, ConfirmedOnce
<1> QED
  BY <1>1, <1>2 DEF IInv

-----------------------------------------------------------------------------
\* Every step keeps the invariant.
LEMMA NextKeeps == IInv /\ [Next]_vars => IInv'
<1> SUFFICES ASSUME IInv, [Next]_vars PROVE IInv'
  OBVIOUS
<1>1. CASE View
  <2>1. TypeOK'
    BY <1>1, LookType DEF IInv, TypeOK, View
  <2> QED
    BY <1>1, <2>1, QuietKeeps DEF View
<1>2. CASE TwoSecondsPass
  <2>1. TypeOK'
    BY <1>2 DEF IInv, TypeOK, TwoSecondsPass
  <2> QED
    BY <1>2, <2>1, QuietKeeps DEF TwoSecondsPass
<1>3. ASSUME NEW a \in Actions, IssueConfirmation(a) PROVE IInv'
  BY <1>3, IssueKeeps
<1>4. ASSUME NEW c \in pending, ConfirmationExpires(c) PROVE IInv'
  <2>1. TypeOK'
    BY <1>4 DEF IInv, TypeOK, ConfirmationExpires
  <2> QED
    BY <1>4, <2>1, QuietKeeps DEF ConfirmationExpires
<1>5. ASSUME NEW k \in Keys, NEW a \in Actions, ExecuteSafe(k, a) PROVE IInv'
  BY <1>5, BeginKeeps DEF ExecuteSafe, NoNonce
<1>6. ASSUME NEW k \in Keys, NEW a \in Actions, NEW c \in pending, ExecuteConfirmed(k, a, c)
      PROVE  IInv'
  <2>1. c.nonce \in Nat
    BY DEF IInv, TypeOK, Confirmation
  <2> QED
    BY <1>6, <2>1, BeginKeeps DEF ExecuteConfirmed, Spend
<1>7. ASSUME NEW k \in Keys, NEW a \in Actions, NEW c \in pending, ConfirmationWasted(k, a, c)
      PROVE  IInv'
  <2>1. TypeOK'
    BY <1>7, LookType DEF IInv, TypeOK, ConfirmationWasted, Accepted, Spend
  <2> QED
    BY <1>7, <2>1, QuietKeeps DEF ConfirmationWasted, Spend
<1>8. ASSUME NEW k \in Keys, HandlerActs(k) PROVE IInv'
  BY <1>8, HandlerActsKeeps
<1>9. ASSUME NEW k \in Keys, HandlerReturns(k) \/ HandlerFails(k) PROVE IInv'
  BY <1>9, SettleKeeps DEF HandlerReturns, HandlerFails
<1>10. ASSUME NEW k \in Keys, FailureUnrecorded(k) PROVE IInv'
  <2>1. TypeOK'
    BY <1>10 DEF IInv, TypeOK, FailureUnrecorded
  <2>2. \A j \in Keys : flights'[j] \in {flights[j], "none"}
    BY <1>10 DEF IInv, TypeOK, FailureUnrecorded
  <2> QED
    BY <1>10, <2>1, <2>2, FlightsLostKeeps DEF FailureUnrecorded
<1>11. CASE OutsideChange
  <2>1. TypeOK'
    BY <1>11, ChangeType DEF IInv, TypeOK, OutsideChange
  <2> QED
    BY <1>11, <2>1, QuietKeeps DEF OutsideChange
<1>12. CASE Crash
  <2>1. world' \in Version /\ NoVersion \in Version
    BY <1>12, ChangeType DEF IInv, TypeOK, Crash, NoVersion, Version
  <2>2. TypeOK'
    BY <1>12, <2>1 DEF IInv, TypeOK, Crash
  <2>3. \A j \in Keys : flights'[j] \in {flights[j], "none"}
    BY <1>12 DEF Crash
  <2> QED
    BY <1>12, <2>2, <2>3, FlightsLostKeeps DEF Crash
<1>13. CASE UNCHANGED vars
  BY <1>13 DEF vars, IInv, TypeOK, Flights, Nonces, Unspent, ConfirmedOnce
<1> QED
  BY <1>1, <1>2, <1>3, <1>4, <1>5, <1>6, <1>7, <1>8, <1>9, <1>10, <1>11, <1>12, <1>13
  DEF Next, Request, Handler

\* The invariant holds in every reachable state.
LEMMA Inductive == Spec => []IInv
<1> QED
  BY InitKeeps, NextKeeps, PTL DEF Spec

\* Every reachable state of the control plane has the shape of TypeOK, for any keys,
\* actions and bounds.
THEOREM DispatcherTypes == Spec => []TypeOK
<1>1. IInv => TypeOK
  BY DEF IInv
<1> QED
  BY <1>1, Inductive, PTL

\* A key takes effect at most once, whatever fails, crashes or is repeated between
\* the storing of its operation and the recording of its outcome.
THEOREM EffectsOnce == Spec => []OneEffectPerKey
<1>1. IInv => OneEffectPerKey
  <2> SUFFICES ASSUME IInv, NEW k \in Keys
               PROVE  effects[k] <= 1 /\ (effects[k] = 1 => ops[k].status # "absent")
    BY DEF OneEffectPerKey
  <2> QED
    BY DEF IInv, Flights
<1> QED
  BY <1>1, Inductive, PTL

\* No two operations are ever authorised by one confirmation, however many are
\* issued, refused, expired or lost.
THEOREM ConfirmationsOnce == Spec => []ConfirmedOnce
<1>1. IInv => ConfirmedOnce
  BY DEF IInv
<1> QED
  BY <1>1, Inductive, PTL

\* The snapshot that is served shows what is keyed as it is.
LEMMA ServedKeyed == Served.keyed = world.keyed
BY DEF Served

\* A risky operation begins on the pipelines, discovery, runs and deployments that
\* its confirmation showed, however old the cache is and whatever else has changed.
THEOREM BeginsAsConfirmed == Spec => BegunAsConfirmed
<1>1. ASSUME IInv, [Next]_vars, NEW k \in Keys, Begins(k), ops'[k].action \in Risky
      PROVE  \E c \in issued : c.nonce = ops'[k].nonce /\ c.version.keyed = world.keyed
  <2>1. IInv /\ Keys = DOMAIN ops
    BY <1>1 DEF IInv, TypeOK
  <2>2. CASE UNCHANGED ops
    BY <1>1, <2>2 DEF Begins
  <2>3. ASSUME NEW j \in Keys, NEW outcome \in {"succeeded", "failed"},
               flights[j] # "none", Settle(j, outcome)
        PROVE  FALSE
    <3>1. ops[j].status # "absent"
      BY <2>1, <2>3 DEF IInv, Flights
    <3>2. ops'[k].status = IF k = j THEN outcome ELSE ops[k].status
      BY <2>1, <2>3 DEF Settle, IInv, TypeOK, Operation
    <3> QED
      BY <1>1, <3>1, <3>2 DEF Begins
  <2>4. ASSUME NEW j \in Keys, NEW a \in Actions, ExecuteSafe(j, a)
        PROVE  FALSE
    <3>1. ops'[k] = ops[k] \/ ops'[k].action = a
      BY <2>1, <2>4 DEF ExecuteSafe, Begin
    <3> QED
      BY <1>1, <2>4, <3>1 DEF ExecuteSafe, Begins
  <2>5. ASSUME NEW j \in Keys, NEW a \in Actions, NEW c \in pending, ExecuteConfirmed(j, a, c)
        PROVE  \E d \in issued : d.nonce = ops'[k].nonce /\ d.version.keyed = world.keyed
    <3>1. ops'[k] = ops[k] \/ ops'[k].nonce = c.nonce
      BY <2>1, <2>5 DEF ExecuteConfirmed, Begin
    <3>2. c \in issued /\ c.version.keyed = world.keyed
      BY <2>1, <2>5, ServedKeyed DEF IInv, Nonces, ExecuteConfirmed
    <3> QED
      BY <1>1, <3>1, <3>2 DEF Begins
  <2> QED
    BY <1>1, <2>2, <2>3, <2>4, <2>5
    DEF Next, Request, Handler, View, IssueConfirmation, ConfirmationWasted, HandlerActs,
        HandlerReturns, HandlerFails, FailureUnrecorded, TwoSecondsPass, ConfirmationExpires,
        OutsideChange, Crash, vars
<1>2. IInv /\ [Next]_vars
        => [\A k \in Keys : Begins(k) /\ ops'[k].action \in Risky =>
              \E c \in issued : c.nonce = ops'[k].nonce /\ c.version.keyed = world.keyed]_vars
  BY <1>1
<1> QED
  BY <1>2, Inductive, PTL DEF Spec, BegunAsConfirmed

-----------------------------------------------------------------------------
(* The executor run service, which stands beside the dispatcher in the same *)
(* process and shares no state with it: for any set of runs.                *)

RunInv == RunsTyped /\ SlotIsHonest

\* What settles a run, whichever of the five events it is, keeps the slot honest.
LEMMA RunFinishKeeps ==
  ASSUME RunInv, NEW r \in Runs, NEW outcome \in Settled, Finish(r, outcome),
         process' \in [Runs -> {"none", "alive", "exited"}]
  PROVE  RunInv' /\ \A q \in Runs : status[q] \in Settled => status'[q] = status[q]
<1>1. CASE status[r] = "running"
  <2>1. /\ status' = [status EXCEPT ![r] = outcome]
        /\ active' = None /\ timer' = timer \ {r}
    BY <1>1 DEF Finish, RunInv, SlotIsHonest, RunsTyped
  <2>2. RunsTyped'
    BY <2>1 DEF RunInv, RunsTyped, Status
  <2>3. \A q \in Runs : status[q] = "running" => q = r
    BY <1>1 DEF RunInv, SlotIsHonest
  <2>4. SlotIsHonest'
    BY <2>1, <2>3, <1>1, RunsAssumption DEF RunInv, SlotIsHonest, RunsTyped, Settled
  <2> QED BY <2>1, <2>2, <2>4, <1>1 DEF RunInv, RunsTyped, Settled
<1>2. CASE status[r] # "running"
  BY <1>2 DEF Finish, RunInv, RunsTyped, SlotIsHonest
<1> QED BY <1>1, <1>2

LEMMA RunInitHonest == RunsInit => RunInv
BY RunsAssumption DEF RunsInit, RunInv, RunsTyped, SlotIsHonest, Status

LEMMA RunStepKeeps ==
  ASSUME RunInv, [RunsNext]_runsVars
  PROVE  RunInv' /\ \A q \in Runs : status[q] \in Settled => status'[q] = status[q]
<1> USE RunsAssumption
<1>1. ASSUME NEW r \in Runs, Start(r)
      PROVE  RunInv' /\ \A q \in Runs : status[q] \in Settled => status'[q] = status[q]
  <2>1. RunsTyped'
    BY <1>1 DEF Start, RunInv, RunsTyped, Status
  <2>2. \A q \in Runs : status[q] # "running"
    BY <1>1 DEF Start, RunInv, SlotIsHonest
  <2>3. SlotIsHonest'
    BY <1>1, <2>2 DEF Start, RunInv, RunsTyped, SlotIsHonest
  <2> QED BY <1>1, <2>1, <2>3 DEF Start, RunInv, RunsTyped, Settled
<1>2. ASSUME NEW r \in Runs, StartFails(r)
      PROVE  RunInv' /\ \A q \in Runs : status[q] \in Settled => status'[q] = status[q]
  <2>1. RunsTyped'
    BY <1>2 DEF StartFails, RunInv, RunsTyped, Status, Settled
  <2>2. SlotIsHonest'
    BY <1>2 DEF StartFails, RunInv, RunsTyped, SlotIsHonest
  <2> QED BY <1>2, <2>1, <2>2 DEF StartFails, RunInv, RunsTyped, Settled
<1>3. ASSUME NEW r \in Runs, ProcessExits(r)
      PROVE  RunInv' /\ \A q \in Runs : status[q] \in Settled => status'[q] = status[q]
  BY <1>3 DEF ProcessExits, RunInv, RunsTyped, SlotIsHonest
<1>4. ASSUME NEW r \in Runs, Errs(r)
      PROVE  RunInv' /\ \A q \in Runs : status[q] \in Settled => status'[q] = status[q]
  <2>1. process' \in [Runs -> {"none", "alive", "exited"}]
    BY <1>4 DEF Errs, RunInv, RunsTyped
  <2> QED BY <1>4, <2>1, RunFinishKeeps DEF Errs, Settled
<1>5. ASSUME NEW r \in Runs, TimesOut(r)
      PROVE  RunInv' /\ \A q \in Runs : status[q] \in Settled => status'[q] = status[q]
  <2>1. status[r] = "running"
    BY <1>5 DEF TimesOut, RunInv, SlotIsHonest
  <2>2. process' \in [Runs -> {"none", "alive", "exited"}]
    BY <1>5 DEF TimesOut, RunInv, RunsTyped
  <2> QED BY <1>5, <2>1, <2>2, RunFinishKeeps DEF TimesOut, Settled
<1>6. ASSUME NEW r \in Runs, Stop(r)
      PROVE  RunInv' /\ \A q \in Runs : status[q] \in Settled => status'[q] = status[q]
  <2>1. process' \in [Runs -> {"none", "alive", "exited"}]
    BY <1>6 DEF Stop, RunInv, RunsTyped
  <2> QED BY <1>6, <2>1, RunFinishKeeps DEF Stop, Settled
<1>7. ASSUME NEW r \in Runs, NEW code \in {0, 1}, Closes(r, code)
      PROVE  RunInv' /\ \A q \in Runs : status[q] \in Settled => status'[q] = status[q]
  <2>1. process' \in [Runs -> {"none", "alive", "exited"}]
    BY <1>7 DEF Closes, RunInv, RunsTyped
  <2>2. Finish(r, "done") \/ Finish(r, "error")
    BY <1>7 DEF Closes
  <2> QED BY <2>1, <2>2, RunFinishKeeps DEF Settled
<1>8. CASE UNCHANGED runsVars
  BY <1>8 DEF runsVars, RunInv, RunsTyped, SlotIsHonest
<1> QED BY <1>1, <1>2, <1>3, <1>4, <1>5, <1>6, <1>7, <1>8 DEF RunsNext

LEMMA RunInductive ==
  RunsSpec => []RunInv
<1>1. RunInv /\ [RunsNext]_runsVars => RunInv'
  BY RunStepKeeps
<1> QED BY <1>1, RunInitHonest, PTL DEF RunsSpec

\* The state of the service keeps its shape.
THEOREM ExecutorTypes ==
  RunsSpec => []RunsTyped
<1>1. RunInv => RunsTyped
  BY DEF RunInv
<1> QED BY <1>1, RunInductive, PTL

\* The slot is taken exactly while a run runs, with a timer that will end it
\* (finish and start of executor-run-service.mjs).
THEOREM SlotStaysHonest ==
  RunsSpec => []SlotIsHonest
<1>1. RunInv => SlotIsHonest
  BY DEF RunInv
<1> QED BY <1>1, RunInductive, PTL

\* Of close, error, timeout and stop only the first decides how a run ended
\* (`finalized` of finish).
THEOREM RunsSettleOnce ==
  RunsSpec => SettledOnce
<1>1. RunInv /\ [RunsNext]_runsVars =>
        [\A r \in Runs : status[r] \in Settled => status'[r] = status[r]]_runsVars
  BY RunStepKeeps
<1> QED BY <1>1, RunInductive, PTL DEF RunsSpec, SettledOnce

-----------------------------------------------------------------------------
(* The outbox.                                                              *)

\* Between two steps the outbox is in its file, and a write the service has
\* carried out is one the service holds.
Stored == file = entries
Applied ==
  /\ drain.pc = "applied" => drain.at \in delivered
  /\ \A r \in Records : direct[r] = "applied" => r \in delivered

OutboxInv == OutboxTypeOK /\ Stored /\ Applied /\ NothingLost /\ IndexHolds

-----------------------------------------------------------------------------
(* The helpers on entries.                                                  *)

\* An outbox without its k-th entry.
LEMMA WithoutType ==
  ASSUME NEW es \in Seq(Entry), NEW k \in DOMAIN es
  PROVE  /\ Without(es, k) \in Seq(Entry)
         /\ \A i \in DOMAIN es : i # k => es[i].record \in Held(Without(es, k))
<1> DEFINE rest == Without(es, k)
<1>1. Len(es) \in Nat /\ k \in 1..Len(es) /\ DOMAIN es = 1..Len(es)
  OBVIOUS
<1>2. \A i \in 1..(Len(es) - 1) : rest[i] \in Entry
  BY <1>1 DEF Without
<1>3. rest \in [1..(Len(es) - 1) -> Entry]
  BY <1>1, <1>2 DEF Without
<1>4. rest \in Seq(Entry)
  BY <1>1, <1>3, SeqDef
<1>5. ASSUME NEW i \in DOMAIN es, i # k
      PROVE  es[i].record \in Held(rest)
  <2>1. CASE i < k
    <3>1. i \in DOMAIN rest /\ rest[i] = es[i]
      BY <1>1, <2>1 DEF Without
    <3> QED
      BY <3>1 DEF Held
  <2>2. CASE i > k
    <3>1. i - 1 \in DOMAIN rest /\ rest[i - 1] = es[i]
      BY <1>1, <2>2 DEF Without
    <3> QED
      BY <3>1 DEF Held
  <2> QED
    BY <1>1, <1>5, <2>1, <2>2
<1> QED
  BY <1>4, <1>5

\* An entry that changes its backoff is still there.
LEMMA DueType ==
  ASSUME NEW es \in Seq(Entry), NEW k \in DOMAIN es, NEW b \in BOOLEAN
  PROVE  LET new == [es EXCEPT ![k].due = b]
         IN  /\ new \in Seq(Entry) /\ DOMAIN new = DOMAIN es
             /\ \A i \in DOMAIN es : new[i].record = es[i].record
             /\ Held(new) = Held(es)
<1> DEFINE new == [es EXCEPT ![k].due = b]
<1>1. DOMAIN new = DOMAIN es /\ \A i \in DOMAIN es : new[i].record = es[i].record
  BY DEF Entry
<1>2. new \in Seq(Entry)
  <2>1. [es[k] EXCEPT !.due = b] \in Entry
    <3>1. es[k] \in Entry
      OBVIOUS
    <3>2. ASSUME NEW e \in Entry PROVE [e EXCEPT !.due = b] \in Entry
      BY DEF Entry
    <3> QED
      BY <3>1, <3>2
  <2>2. new = [es EXCEPT ![k] = [es[k] EXCEPT !.due = b]] /\ k \in 1..Len(es)
    OBVIOUS
  <2> QED
    BY <2>1, <2>2, ExceptSeq
<1>3. Held(new) = Held(es)
  BY <1>1 DEF Held
<1> QED
  BY <1>1, <1>2, <1>3

\* Enqueueing keeps what is there where it is, and holds the record.
LEMMA EnqueueType ==
  ASSUME OutboxTypeOK, NEW r \in Records, Enqueue(r)
  PROVE  /\ entries' \in Seq(Entry) /\ file' = entries'
         /\ Held(entries') = Held(entries) \cup {r}
         /\ DOMAIN entries \subseteq DOMAIN entries'
         /\ \A i \in DOMAIN entries : entries'[i] = entries[i]
<1> DEFINE e == [ record |-> r, due |-> TRUE ]
<1>1. entries \in Seq(Entry) /\ e \in Entry
  BY DEF OutboxTypeOK, Entry
<1>2. CASE r \in Held(entries)
  BY <1>1, <1>2 DEF Enqueue
<1>3. CASE r \notin Held(entries)
  <2>1. entries' = Append(entries, e) /\ file' = entries'
    BY <1>3 DEF Enqueue
  <2>2. /\ entries' \in Seq(Entry) /\ DOMAIN entries' = 1..(Len(entries) + 1)
        /\ \A i \in DOMAIN entries : entries'[i] = entries[i]
        /\ entries'[Len(entries) + 1] = e
    BY <1>1, <2>1
  <2>3. DOMAIN entries = 1..Len(entries) /\ Len(entries) \in Nat
    BY <1>1
  <2>4. Held(entries') = Held(entries) \cup {r}
    BY <2>2, <2>3 DEF Held
  <2>5. DOMAIN entries \subseteq DOMAIN entries'
    BY <2>2, <2>3
  <2> QED
    BY <2>1, <2>2, <2>4, <2>5
<1> QED
  BY <1>2, <1>3

\* A set of numbers has a least one.
LEMMA LeastNumber ==
  ASSUME NEW S \in SUBSET Nat, S # {}
  PROVE  \E n \in S : \A m \in S : n <= m
<1> DEFINE R == OpToRel(<, Nat)
<1>1. PICK n \in S : \A m \in S : << m, n >> \notin R
  BY NatLessThanWellFounded, WFMin
<1>2. \A m \in S : ~(m < n)
  BY <1>1 DEF OpToRel
<1> QED
  BY <1>2

\* A drain that goes on awaits an entry it has just found; it has lost none.
LEMMA AdvanceType ==
  ASSUME NEW es \in Seq(Entry), NEW todo \in Seq(Records), NEW force \in BOOLEAN
  PROVE  LET d == Advance(es, todo, force)
         IN  /\ d \in Drain /\ d.pc # "applied"
             /\ d.pc # "idle" => d.index \in DOMAIN es /\ es[d.index].record = d.at
<1> DEFINE ready == { k \in DOMAIN todo : \E i \in DOMAIN es :
                        es[i].record = todo[k] /\ (force \/ es[i].due) }
           k == CHOOSE n \in ready : \A m \in ready : n <= m
           found == CHOOSE i \in DOMAIN es : es[i].record = todo[k]
<1>1. CASE ready = {}
  BY <1>1 DEF Advance, NoDrain, Drain
<1>2. CASE ready # {}
  <2>1. ready \subseteq Nat
    OBVIOUS
  <2>2. \E n \in ready : \A m \in ready : n <= m
    BY <1>2, <2>1, LeastNumber
  <2>3. k \in ready
    BY <2>2
  <2>4. k \in DOMAIN todo /\ \E i \in DOMAIN es : es[i].record = todo[k]
    BY <2>3
  <2>5. found \in DOMAIN es /\ es[found].record = todo[k]
    BY <2>4
  <2>6. SubSeq(todo, k + 1, Len(todo)) \in Seq(Records)
    <3>1. k \in 1..Len(todo) /\ Len(todo) \in Nat
      BY <2>4
    <3> HIDE DEF k
    <3>2. k + 1 \in Int /\ Len(todo) \in Int
      BY <3>1
    <3>3. \A i \in (k + 1)..Len(todo) : todo[i] \in Records
      BY <3>1
    <3> QED
      BY <3>2, <3>3, SubSeqProperties
  <2>7. found \in Nat /\ todo[k] \in Records
    BY <2>4, <2>5
  <2>8. Advance(es, todo, force) =
          [ pc |-> "sent", at |-> todo[k], force |-> force,
            todo |-> SubSeq(todo, k + 1, Len(todo)), index |-> found ]
    BY <1>2 DEF Advance
  <2> HIDE DEF k, found
  <2> QED
    BY <2>5, <2>6, <2>7, <2>8 DEF Drain
<1> QED
  BY <1>1, <1>2

-----------------------------------------------------------------------------
(* The steps.                                                               *)

\* The initial states satisfy the invariant.
LEMMA OutboxInitKeeps == OutboxInit => OutboxInv
<1> SUFFICES ASSUME OutboxInit PROVE OutboxInv
  OBVIOUS
<1>1. NoDrain \in Drain /\ NoDrain.pc = "idle"
  BY DEF NoDrain, Drain
<1>2. OutboxTypeOK
  <2>1. entries \in Seq(Entry) /\ file \in Seq(Entry) /\ drain \in Drain
    BY <1>1 DEF OutboxInit
  <2>2. direct \in [Records -> {"none", "sent", "applied"}] /\ submits \in [Records -> Nat]
    BY DEF OutboxInit
  <2>3. healthy \in BOOLEAN /\ up \in BOOLEAN
    BY Zenon DEF OutboxInit
  <2> QED
    BY <2>1, <2>2, <2>3 DEF OutboxInit, OutboxTypeOK
<1>3. Stored /\ Applied /\ NothingLost /\ IndexHolds
  BY <1>1 DEF OutboxInit, Stored, Applied, NothingLost, IndexHolds
<1> QED
  BY <1>2, <1>3 DEF OutboxInv

\* A drain that begins, or that joins the one in progress.
LEMMA StartDrainType ==
  ASSUME OutboxInv, NEW force \in BOOLEAN, StartDrain(force)
  PROVE  /\ drain' \in Drain
         /\ drain'.pc = "applied" => drain'.at \in delivered
         /\ drain'.pc # "idle" =>
              drain'.index \in DOMAIN entries /\ entries[drain'.index].record = drain'.at
<1>1. CASE drain.pc # "idle"
  BY <1>1 DEF StartDrain, OutboxInv, OutboxTypeOK, Applied, IndexHolds
<1>2. CASE drain.pc = "idle"
  <2>1. entries \in Seq(Entry)
    BY DEF OutboxInv, OutboxTypeOK
  <2>2. Candidates(entries) \in Seq(Records)
    <3>1. Len(entries) \in Nat /\ DOMAIN entries = 1..Len(entries)
      BY <2>1
    <3>2. \A i \in 1..Len(entries) : entries[i].record \in Records
      <4>1. \A i \in 1..Len(entries) : entries[i] \in Entry
        BY <2>1
      <4> QED
        BY <4>1 DEF Entry
    <3>3. Candidates(entries) \in [1..Len(entries) -> Records]
      BY <3>1, <3>2 DEF Candidates
    <3> QED
      BY <3>1, <3>3, SeqDef
  <2>3. drain' = Advance(entries, Candidates(entries), force)
    BY <1>2 DEF StartDrain
  <2> QED
    BY <2>1, <2>2, <2>3, AdvanceType
<1> QED
  BY <1>1, <1>2

\* A step that leaves the outbox and its file alone, forgets no delivery, and accepts
\* only what was delivered.
LEMMA OutboxUntouched ==
  ASSUME OutboxInv, OutboxTypeOK', UNCHANGED << entries, file >>, delivered \subseteq delivered',
         accepted' \subseteq accepted \cup delivered, Applied',
         drain'.pc # "idle" =>
           drain'.index \in DOMAIN entries /\ entries[drain'.index].record = drain'.at
  PROVE  OutboxInv'
<1>1. Stored' /\ IndexHolds'
  BY DEF OutboxInv, Stored, IndexHolds
<1>2. NothingLost'
  BY DEF OutboxInv, NothingLost
<1> QED
  BY <1>1, <1>2 DEF OutboxInv

\* A record is put in the outbox, and so accepted.
LEMMA EnqueueKeeps ==
  ASSUME OutboxInv, NEW r \in Records, Enqueue(r), accepted' = accepted \cup {r},
         UNCHANGED << drain, delivered, healthy, up >>,
         direct' \in [Records -> {"none", "sent", "applied"}],
         \A q \in Records : direct'[q] \in {direct[q], "none"},
         submits' \in [Records -> Nat], trouble' \in Nat
  PROVE  OutboxInv'
<1>1. /\ entries' \in Seq(Entry) /\ file' = entries'
      /\ Held(entries') = Held(entries) \cup {r}
      /\ DOMAIN entries \subseteq DOMAIN entries'
      /\ \A i \in DOMAIN entries : entries'[i] = entries[i]
  BY EnqueueType DEF OutboxInv
<1>2. OutboxTypeOK'
  BY <1>1 DEF OutboxInv, OutboxTypeOK
<1>3. Stored' /\ Applied'
  BY <1>1 DEF OutboxInv, Stored, Applied
<1>4. NothingLost'
  <2>1. Held(file') = Held(file) \cup {r}
    BY <1>1 DEF OutboxInv, Stored
  <2> QED
    BY <2>1 DEF OutboxInv, NothingLost
<1>5. IndexHolds'
  BY <1>1 DEF OutboxInv, IndexHolds
<1> QED
  BY <1>2, <1>3, <1>4, <1>5 DEF OutboxInv

\* The drain removes the entry it wrote, which the service holds.
LEMMA DrainSucceedsKeeps ==
  ASSUME OutboxInv, DrainSucceeds
  PROVE  OutboxInv'
<1> DEFINE rest == Without(entries, drain.index)
<1>1. /\ drain.pc = "applied" /\ entries' = rest /\ file' = rest
      /\ drain' = Advance(rest, drain.todo, drain.force)
      /\ UNCHANGED << direct, healthy, up, delivered, accepted, submits, trouble >>
  BY DEF DrainSucceeds
<1>2. /\ entries \in Seq(Entry) /\ drain \in Drain
      /\ drain.index \in DOMAIN entries /\ entries[drain.index].record = drain.at
      /\ drain.at \in delivered
  BY <1>1 DEF OutboxInv, OutboxTypeOK, IndexHolds, Applied
<1>3. /\ rest \in Seq(Entry)
      /\ \A i \in DOMAIN entries : i # drain.index => entries[i].record \in Held(rest)
  BY <1>2, WithoutType
<1>4. drain.todo \in Seq(Records) /\ drain.force \in BOOLEAN
  BY <1>2 DEF Drain
<1> HIDE DEF rest
<1>5. /\ drain' \in Drain /\ drain'.pc # "applied"
      /\ drain'.pc # "idle" => drain'.index \in DOMAIN rest /\ rest[drain'.index].record = drain'.at
  BY <1>1, <1>3, <1>4, AdvanceType
<1>6. OutboxTypeOK'
  BY <1>1, <1>3, <1>5 DEF OutboxInv, OutboxTypeOK
<1>7. Stored' /\ Applied' /\ IndexHolds'
  BY <1>1, <1>5 DEF OutboxInv, Stored, Applied, IndexHolds
<1>8. NothingLost'
  <2>1. Held(file) \subseteq Held(rest) \cup delivered
    BY <1>2, <1>3 DEF OutboxInv, Stored, Held
  <2> QED
    BY <1>1, <2>1 DEF OutboxInv, NothingLost
<1> QED
  BY <1>6, <1>7, <1>8 DEF OutboxInv

\* An entry that was not written, or not acknowledged, stays.
LEMMA DrainFailsKeeps ==
  ASSUME OutboxInv, DrainFails
  PROVE  OutboxInv'
<1> DEFINE waiting == [entries EXCEPT ![drain.index].due = FALSE]
<1>1. /\ drain.pc # "idle" /\ entries' = waiting /\ file' = waiting
      /\ drain' = Advance(waiting, drain.todo, drain.force)
      /\ UNCHANGED << direct, healthy, up, delivered, accepted, submits >>
  BY DEF DrainFails
<1>2. trouble' \in Nat
  BY DEF DrainFails, Trouble, OutboxInv, OutboxTypeOK
<1>3. entries \in Seq(Entry) /\ drain \in Drain /\ drain.index \in DOMAIN entries
  BY <1>1 DEF OutboxInv, OutboxTypeOK, IndexHolds
<1>4. waiting \in Seq(Entry) /\ Held(waiting) = Held(entries)
  BY <1>3, DueType
<1>5. drain.todo \in Seq(Records) /\ drain.force \in BOOLEAN
  BY <1>3 DEF Drain
<1> HIDE DEF waiting
<1>6. /\ drain' \in Drain /\ drain'.pc # "applied"
      /\ drain'.pc # "idle"
           => drain'.index \in DOMAIN waiting /\ waiting[drain'.index].record = drain'.at
  BY <1>1, <1>4, <1>5, AdvanceType
<1>7. OutboxTypeOK'
  BY <1>1, <1>2, <1>4, <1>6 DEF OutboxInv, OutboxTypeOK
<1>8. Stored' /\ Applied' /\ IndexHolds'
  BY <1>1, <1>6 DEF OutboxInv, Stored, Applied, IndexHolds
<1>9. NothingLost'
  BY <1>1, <1>4 DEF OutboxInv, Stored, NothingLost
<1> QED
  BY <1>7, <1>8, <1>9 DEF OutboxInv

\* The clock passes; no entry moves.
LEMMA BackoffEndsKeeps ==
  ASSUME OutboxInv, NEW k \in DOMAIN entries, BackoffEnds(k)
  PROVE  OutboxInv'
<1>1. entries \in Seq(Entry) /\ file = entries
  BY DEF OutboxInv, OutboxTypeOK, Stored
<1>2. /\ entries' = [entries EXCEPT ![k].due = TRUE] /\ file' = entries'
      /\ UNCHANGED << drain, direct, healthy, up, delivered, accepted, submits, trouble >>
  BY <1>1 DEF BackoffEnds
<1>3. /\ entries' \in Seq(Entry) /\ DOMAIN entries' = DOMAIN entries
      /\ \A i \in DOMAIN entries : entries'[i].record = entries[i].record
      /\ Held(entries') = Held(entries)
  BY <1>1, <1>2, DueType
<1>4. OutboxTypeOK'
  BY <1>2, <1>3 DEF OutboxInv, OutboxTypeOK
<1>5. Stored' /\ Applied' /\ IndexHolds'
  BY <1>2, <1>3 DEF OutboxInv, Stored, Applied, IndexHolds
<1>6. NothingLost'
  BY <1>1, <1>2, <1>3 DEF OutboxInv, NothingLost
<1> QED
  BY <1>4, <1>5, <1>6 DEF OutboxInv

-----------------------------------------------------------------------------
\* Every step keeps the invariant.
LEMMA OutboxNextKeeps == OutboxInv /\ [OutboxNext]_outboxVars => OutboxInv'
<1> SUFFICES ASSUME OutboxInv, [OutboxNext]_outboxVars PROVE OutboxInv'
  OBVIOUS
<1> USE DEF OutboxInv
<1>1. ASSUME NEW r \in Records, RecordQueued(r) PROVE OutboxInv'
  <2>1. submits' \in [Records -> Nat] /\ trouble' \in Nat
    BY <1>1 DEF RecordQueued, OutboxTypeOK
  <2>2. direct' \in [Records -> {"none", "sent", "applied"}]
    BY <1>1 DEF RecordQueued, OutboxTypeOK
  <2> QED
    BY <1>1, <2>1, <2>2, EnqueueKeeps DEF RecordQueued
<1>2. ASSUME NEW r \in Records, RecordDirectly(r) PROVE OutboxInv'
  <2>1. OutboxTypeOK' /\ Applied'
    BY <1>2 DEF RecordDirectly, OutboxTypeOK, Applied
  <2> QED
    BY <1>2, <2>1, OutboxUntouched DEF RecordDirectly, IndexHolds
<1>3. ASSUME NEW r \in Records, DirectSucceeds(r) PROVE OutboxInv'
  <2>1. StartDrain(FALSE) /\ r \in delivered /\ accepted' = accepted \cup {r}
    BY <1>3 DEF DirectSucceeds, Applied
  <2>2. OutboxTypeOK' /\ Applied'
    BY <1>3, <2>1, StartDrainType DEF DirectSucceeds, OutboxTypeOK, Applied
  <2> QED
    BY <1>3, <2>1, <2>2, StartDrainType, OutboxUntouched DEF DirectSucceeds
<1>4. ASSUME NEW r \in Records, DirectFails(r) PROVE OutboxInv'
  <2>1. submits' \in [Records -> Nat] /\ trouble' \in Nat
    BY <1>4 DEF DirectFails, Trouble, OutboxTypeOK
  <2>2. /\ direct' \in [Records -> {"none", "sent", "applied"}]
        /\ \A q \in Records : direct'[q] \in {direct[q], "none"}
    BY <1>4 DEF DirectFails, OutboxTypeOK
  <2> QED
    BY <1>4, <2>1, <2>2, EnqueueKeeps DEF DirectFails
<1>5. ASSUME NEW r \in Records, ServiceAppliesDirect(r) PROVE OutboxInv'
  <2>1. OutboxTypeOK' /\ Applied'
    BY <1>5 DEF ServiceAppliesDirect, Apply, OutboxTypeOK, Applied
  <2> QED
    BY <1>5, <2>1, OutboxUntouched DEF ServiceAppliesDirect, Apply, IndexHolds
<1>6. CASE DrainSucceeds
  BY <1>6, DrainSucceedsKeeps
<1>7. CASE DrainFails
  BY <1>7, DrainFailsKeeps
<1>8. CASE ServiceAppliesDrained
  <2>1. drain' \in Drain /\ drain.at \in Records
    <3>1. drain \in Drain /\ entries \in Seq(Entry) /\ drain' = [drain EXCEPT !.pc = "applied"]
      BY <1>8 DEF ServiceAppliesDrained, OutboxTypeOK
    <3>2. drain.index \in DOMAIN entries /\ entries[drain.index].record = drain.at
      BY <1>8 DEF ServiceAppliesDrained, IndexHolds
    <3>3. entries[drain.index] \in Entry
      BY <3>1, <3>2
    <3> QED
      BY <3>1, <3>2, <3>3 DEF Drain, Entry
  <2>2. drain'.at = drain.at /\ drain'.index = drain.index /\ drain.pc # "idle"
    BY <1>8 DEF ServiceAppliesDrained, OutboxTypeOK, Drain
  <2>3. OutboxTypeOK' /\ Applied'
    BY <1>8, <2>1, <2>2 DEF ServiceAppliesDrained, Apply, OutboxTypeOK, Applied
  <2> QED
    BY <1>8, <2>2, <2>3, OutboxUntouched DEF ServiceAppliesDrained, Apply, IndexHolds
<1>9. ASSUME NEW k \in DOMAIN entries, BackoffEnds(k) PROVE OutboxInv'
  BY <1>9, BackoffEndsKeeps
<1>10. CASE Retry
  <2>1. StartDrain(FALSE)
    BY <1>10 DEF Retry
  <2>2. OutboxTypeOK' /\ Applied'
    BY <1>10, <2>1, StartDrainType DEF Retry, OutboxTypeOK, Applied
  <2> QED
    BY <1>10, <2>1, <2>2, StartDrainType, OutboxUntouched DEF Retry
<1>11. CASE Setup
  <2>1. StartDrain(TRUE)
    BY <1>11 DEF Setup
  <2>2. OutboxTypeOK' /\ Applied'
    BY <1>11, <2>1, StartDrainType DEF Setup, OutboxTypeOK, Applied
  <2> QED
    BY <1>11, <2>1, <2>2, StartDrainType, OutboxUntouched DEF Setup
<1>12. CASE Outage \/ Recovery
  <2>1. trouble' \in Nat
    <3>1. CASE Outage
      BY <3>1 DEF Outage, Trouble, OutboxTypeOK
    <3>2. CASE Recovery
      BY <3>2 DEF Recovery, OutboxTypeOK
    <3> QED
      BY <1>12, <3>1, <3>2
  <2>2. up' \in BOOLEAN /\ healthy' \in BOOLEAN
    <3>1. CASE Outage
      <4>1. up' = FALSE /\ (healthy' = healthy \/ healthy' = FALSE)
        BY <3>1 DEF Outage
      <4> QED
        BY <4>1, Zenon DEF OutboxTypeOK
    <3>2. CASE Recovery
      <4>1. up' = TRUE /\ healthy' = healthy
        BY <3>2 DEF Recovery
      <4> QED
        BY <4>1, Zenon DEF OutboxTypeOK
    <3> QED
      BY <1>12, <3>1, <3>2
  <2>3. OutboxTypeOK' /\ Applied'
    BY <1>12, <2>1, <2>2 DEF Outage, Recovery, OutboxTypeOK, Applied
  <2> QED
    BY <1>12, <2>3, OutboxUntouched DEF Outage, Recovery, IndexHolds
<1>13. CASE OutboxCrash
  <2>1. NoDrain \in Drain /\ NoDrain.pc = "idle"
    BY DEF NoDrain, Drain
  <2>2. entries' = entries
    BY <1>13 DEF OutboxCrash, Stored
  <2>3. trouble' \in Nat
    BY <1>13 DEF OutboxCrash, Trouble, OutboxTypeOK
  <2>4. direct' \in [Records -> {"none", "sent", "applied"}] /\ \A r \in Records : direct'[r] = "none"
    BY <1>13 DEF OutboxCrash
  <2>5. drain' = NoDrain /\ healthy' = FALSE
        /\ UNCHANGED << file, up, delivered, accepted, submits >>
    BY <1>13 DEF OutboxCrash
  <2>6. OutboxTypeOK'
    <3>1. healthy' \in BOOLEAN /\ up' \in BOOLEAN
      BY <2>5, Zenon DEF OutboxTypeOK
    <3> QED
      BY <2>1, <2>2, <2>3, <2>4, <2>5, <3>1 DEF OutboxTypeOK
  <2>7. Applied'
    BY <2>1, <2>4, <2>5 DEF Applied
  <2> QED
    BY <2>1, <2>2, <2>5, <2>6, <2>7, OutboxUntouched
<1>14. CASE UNCHANGED outboxVars
  BY <1>14 DEF outboxVars, OutboxTypeOK, Stored, Applied, NothingLost, IndexHolds
<1> QED
  BY <1>1, <1>2, <1>3, <1>4, <1>5, <1>6, <1>7, <1>8, <1>9, <1>10, <1>11, <1>12, <1>13, <1>14
  DEF OutboxNext, Client

\* The invariant holds in every reachable state.
LEMMA OutboxInductive == OutboxSpec => []OutboxInv
<1> QED
  BY OutboxInitKeeps, OutboxNextKeeps, PTL DEF OutboxSpec

\* Every reachable state of the outbox has the shape of OutboxTypeOK, for any records and bounds.
THEOREM OutboxTypes == OutboxSpec => []OutboxTypeOK
<1>1. OutboxInv => OutboxTypeOK
  BY DEF OutboxInv
<1> QED
  BY <1>1, OutboxInductive, PTL

\* What record() accepted is never lost: no order of drains, direct writes, failures,
\* lost answers and crashes leaves it neither in the service nor in the file.
THEOREM NothingIsLost == OutboxSpec => []NothingLost
<1>1. OutboxInv => NothingLost
  BY DEF OutboxInv
<1> QED
  BY <1>1, OutboxInductive, PTL

\* The index computed before the await of a drain is that of the same entry after it,
\* however many records are queued meanwhile.
THEOREM IndexStaysRight == OutboxSpec => []IndexHolds
<1>1. OutboxInv => IndexHolds
  BY DEF OutboxInv
<1> QED
  BY <1>1, OutboxInductive, PTL

-----------------------------------------------------------------------------
(* The outbox gives nothing away, and a drain visits what it found once.    *)

\* What a drain has before it grows shorter at every entry it goes on to.
LEMMA AdvanceShortens ==
  ASSUME NEW es \in Seq(Entry), NEW todo \in Seq(Records), NEW force \in BOOLEAN
  PROVE  LET d == Advance(es, todo, force)
         IN  d.pc # "idle" => Len(d.todo) < Len(todo) /\ d.force = force
<1> DEFINE ready == { k \in DOMAIN todo : \E i \in DOMAIN es :
                        es[i].record = todo[k] /\ (force \/ es[i].due) }
           k == CHOOSE n \in ready : \A m \in ready : n <= m
           found == CHOOSE i \in DOMAIN es : es[i].record = todo[k]
<1>1. CASE ready = {}
  BY <1>1 DEF Advance, NoDrain
<1>2. CASE ready # {}
  <2>1. \E n \in ready : \A m \in ready : n <= m
    <3>1. ready \subseteq Nat
      OBVIOUS
    <3> QED
      BY <1>2, <3>1, LeastNumber
  <2>2. k \in DOMAIN todo
    BY <2>1
  <2>3. Advance(es, todo, force) =
          [ pc |-> "sent", at |-> todo[k], force |-> force,
            todo |-> SubSeq(todo, k + 1, Len(todo)), index |-> found ]
    BY <1>2 DEF Advance
  <2> HIDE DEF k, found
  <2>4. k \in 1..Len(todo) /\ Len(todo) \in Nat
    BY <2>2
  <2>5. Len(SubSeq(todo, k + 1, Len(todo))) = Len(todo) - k
    <3>1. \A i \in (k + 1)..Len(todo) : todo[i] \in Records
      BY <2>4
    <3> QED
      BY <2>4, <3>1, SubSeqProperties
  <2> QED
    BY <2>3, <2>4, <2>5
<1> QED
  BY <1>1, <1>2

\* A drain in progress ends, stays where it is, sees its write applied, or goes on to an
\* entry further down the list it began with: nobody gives it more to do.
DrainRunsDown ==
  drain.pc # "idle" =>
    \/ drain'.pc = "idle"
    \/ drain' = drain
    \/ drain.pc = "sent" /\ drain' = [drain EXCEPT !.pc = "applied"]
    \/ Len(drain'.todo) < Len(drain.todo) /\ drain'.force = drain.force

\* What was accepted or delivered stays so, and the file gives up a record only to the
\* service.
GivesNothingAway ==
  /\ accepted \subseteq accepted' /\ delivered \subseteq delivered'
  /\ \A r \in Held(file) \ Held(file') : r \in delivered

LEMMA OutboxSteps == OutboxInv /\ [OutboxNext]_outboxVars => DrainRunsDown /\ GivesNothingAway
<1> SUFFICES ASSUME OutboxInv, [OutboxNext]_outboxVars PROVE DrainRunsDown /\ GivesNothingAway
  OBVIOUS
<1> DEFINE Quiet == UNCHANGED file /\ accepted \subseteq accepted' /\ delivered \subseteq delivered'
<1>0. /\ entries \in Seq(Entry) /\ file = entries /\ drain \in Drain
      /\ drain.todo \in Seq(Records) /\ drain.force \in BOOLEAN
  BY DEF OutboxInv, OutboxTypeOK, Stored, Drain
<1>1. ASSUME Quiet PROVE GivesNothingAway
  BY <1>1 DEF GivesNothingAway
<1>2. ASSUME NEW r \in Records, Enqueue(r), accepted' = accepted \cup {r},
             UNCHANGED << drain, delivered >>
      PROVE  DrainRunsDown /\ GivesNothingAway
  <2>1. Held(file') = Held(file) \cup {r}
    BY <1>0, <1>2, EnqueueType DEF OutboxInv
  <2> QED
    BY <1>2, <2>1 DEF DrainRunsDown, GivesNothingAway
<1>3. ASSUME NEW r \in Records, RecordQueued(r) \/ DirectFails(r)
      PROVE  DrainRunsDown /\ GivesNothingAway
  BY <1>2, <1>3 DEF RecordQueued, DirectFails
<1>4. ASSUME Quiet,
             \/ UNCHANGED drain \/ drain' = NoDrain \/ drain.pc = "idle"
             \/ drain.pc = "sent" /\ drain' = [drain EXCEPT !.pc = "applied"]
      PROVE  DrainRunsDown /\ GivesNothingAway
  BY <1>1, <1>4 DEF DrainRunsDown, NoDrain
<1>5. ASSUME NEW r \in Records,
             RecordDirectly(r) \/ DirectSucceeds(r) \/ ServiceAppliesDirect(r)
      PROVE  DrainRunsDown /\ GivesNothingAway
  BY <1>4, <1>5 DEF RecordDirectly, DirectSucceeds, ServiceAppliesDirect, Apply, StartDrain
<1>6. CASE Retry \/ Setup
  BY <1>4, <1>6 DEF Retry, Setup, StartDrain
<1>7. CASE Outage \/ Recovery \/ OutboxCrash
  BY <1>4, <1>7 DEF Outage, Recovery, OutboxCrash
<1>8. CASE ServiceAppliesDrained
  BY <1>4, <1>8 DEF ServiceAppliesDrained, Apply
<1>9. CASE UNCHANGED outboxVars
  BY <1>4, <1>9 DEF outboxVars
<1>10. CASE DrainSucceeds
  <2> DEFINE rest == Without(entries, drain.index)
  <2>1. /\ drain.pc = "applied" /\ file' = rest
        /\ drain' = Advance(rest, drain.todo, drain.force) /\ UNCHANGED << delivered, accepted >>
    BY <1>10 DEF DrainSucceeds
  <2>2. /\ drain.index \in DOMAIN entries /\ entries[drain.index].record = drain.at
        /\ drain.at \in delivered
    BY <2>1 DEF OutboxInv, IndexHolds, Applied
  <2>3. /\ rest \in Seq(Entry)
        /\ \A i \in DOMAIN entries : i # drain.index => entries[i].record \in Held(rest)
    BY <1>0, <2>2, WithoutType
  <2> HIDE DEF rest
  <2>4. DrainRunsDown
    BY <1>0, <2>1, <2>3, AdvanceShortens DEF DrainRunsDown
  <2>5. GivesNothingAway
    BY <1>0, <2>1, <2>2, <2>3 DEF GivesNothingAway, Held
  <2> QED
    BY <2>4, <2>5
<1>11. CASE DrainFails
  <2> DEFINE waiting == [entries EXCEPT ![drain.index].due = FALSE]
  <2>1. /\ drain.pc # "idle" /\ file' = waiting
        /\ drain' = Advance(waiting, drain.todo, drain.force) /\ UNCHANGED << delivered, accepted >>
    BY <1>11 DEF DrainFails
  <2>2. drain.index \in DOMAIN entries
    BY <2>1 DEF OutboxInv, IndexHolds
  <2>3. waiting \in Seq(Entry) /\ Held(waiting) = Held(entries)
    BY <1>0, <2>2, DueType
  <2> HIDE DEF waiting
  <2> QED
    BY <1>0, <2>1, <2>3, AdvanceShortens DEF DrainRunsDown, GivesNothingAway
<1>12. ASSUME NEW k \in DOMAIN entries, BackoffEnds(k)
      PROVE  DrainRunsDown /\ GivesNothingAway
  <2>1. /\ file' = [entries EXCEPT ![k].due = TRUE]
        /\ UNCHANGED << drain, delivered, accepted >>
    BY <1>0, <1>12 DEF BackoffEnds
  <2>2. Held(file') = Held(file)
    BY <1>0, <2>1, DueType
  <2> QED
    BY <2>1, <2>2 DEF DrainRunsDown, GivesNothingAway
<1> QED
  BY <1>3, <1>5, <1>6, <1>7, <1>8, <1>9, <1>10, <1>11, <1>12 DEF OutboxNext, Client

\* A drain is bounded by what it found when it began: each entry is awaited at most once,
\* and neither new records nor joined drains nor backoffs that end lengthen it. What
\* DrainSettles needs besides is that each await is answered or times out.
THEOREM DrainsRunDown == OutboxSpec => [][DrainRunsDown]_outboxVars
<1>1. OutboxInv /\ [OutboxNext]_outboxVars => [DrainRunsDown]_outboxVars
  BY OutboxSteps
<1> QED
  BY <1>1, OutboxInductive, PTL DEF OutboxSpec

\* The outbox forgets nothing: acceptance and delivery are for good, and a record leaves
\* the file only when the service already holds it.
THEOREM OutboxGivesToServiceOnly == OutboxSpec => [][GivesNothingAway]_outboxVars
<1>1. OutboxInv /\ [OutboxNext]_outboxVars => [GivesNothingAway]_outboxVars
  BY OutboxSteps
<1> QED
  BY <1>1, OutboxInductive, PTL DEF OutboxSpec
===============================================================================
