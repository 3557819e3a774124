-------------------------- MODULE ControlDispatcher --------------------------
(***************************************************************************)
(* The control plane: maestro/control/dispatcher.mjs with its operation    *)
(* store, its confirmations and the cached snapshot it checks requests     *)
(* against.                                                                *)
(*                                                                         *)
(* A client sees a snapshot of the factory, with a version, and asks for   *)
(* an action under an idempotency key; an action with an external or       *)
(* destructive effect needs a confirmation, a nonce that is issued for     *)
(* that action and version.  execute() runs without an await up to the     *)
(* call of the handler; while the handler works, other requests are        *)
(* served.  The operation is stored before the call and after it.          *)
(*                                                                         *)
(* A version stands for everything the snapshot shows.  What the key of    *)
(* the snapshot's cache looks at is its `keyed` part: how far each         *)
(* pipeline is, discovery's revision, interactive runs, deployments.  The  *)
(* rest (a pipeline's target, lifecycle, profiles, rosters, memory,        *)
(* operations, the server's own process) is its `hidden` part, and a       *)
(* cached snapshot may be two seconds behind it.                           *)
(*                                                                         *)
(* Left out: the validation of fields, whether an action is enabled, which *)
(* only refuses requests, and requests that change nothing: a repeated     *)
(* one is answered with the stored operation, a conflicting one refused.   *)
(***************************************************************************)
EXTENDS Naturals, FiniteSets

CONSTANTS
  Keys,              \* idempotency keys
  Actions,           \* actions of the catalog
  Risky,             \* those with the risk "external" or "destructive"
  MaxConfirmations,  \* bound: confirmations ever issued
  MaxChanges,        \* bound: changes that do not come from the dispatcher
  MaxCrashes         \* bound: crashes

ASSUME ActionsAssumption == Risky \subseteq Actions
ASSUME BoundsAssumption ==
  MaxConfirmations \in Nat /\ MaxChanges \in Nat /\ MaxCrashes \in Nat

VARIABLES
  world,      \* the version of the factory's state
  cache,      \* the cached snapshot: its version, and whether it is under two seconds old
  ops,        \* key -> the operation stored under it, in a file
  flights,    \* key -> its handler: "none", "called", or "acted" after its effect
  effects,    \* key -> how often its handler took effect
  pending,    \* confirmations that may be used, in memory
  issued,     \* confirmations ever issued
  changes,    \* changes that did not come from the dispatcher
  crashes     \* crashes so far

vars == << world, cache, ops, flights, effects, pending, issued, changes, crashes >>

Version == [ keyed : Nat, hidden : Nat ]
Confirmation == [ nonce : Nat, action : Actions, version : Version ]

NoNonce == 0
NoAction == "none"
ASSUME NoActionAssumption == NoAction \notin Actions

\* action, version and nonce are those of the request that stored the operation
Operation == [ status : {"absent", "running", "succeeded", "failed"},
               action : Actions \cup {NoAction}, version : Version, nonce : Nat ]
NoVersion == [ keyed |-> 0, hidden |-> 0 ]
NoOperation == [ status |-> "absent", action |-> NoAction, version |-> NoVersion,
                 nonce |-> NoNonce ]

Init ==
  /\ world = NoVersion
  /\ cache = [ version |-> NoVersion, fresh |-> FALSE ]
  /\ ops = [k \in Keys |-> NoOperation]
  /\ flights = [k \in Keys |-> "none"]
  /\ effects = [k \in Keys |-> 0]
  /\ pending = {} /\ issued = {} /\ changes = 0 /\ crashes = 0

-----------------------------------------------------------------------------
(* The snapshot.                                                            *)

\* a mistake: the cache lives for two seconds whatever happens
ServedByAge == IF cache.fresh THEN cache.version ELSE world

\* buildControlSnapshot: the version of what getSnapshot() returns
Served == IF cache.fresh /\ cache.version.keyed = world.keyed THEN cache.version ELSE world
Look == cache' = [ version |-> Served, fresh |-> TRUE ]

HiddenChange(v) == [v EXCEPT !.hidden = @ + 1]
KeyedChange(v) == [v EXCEPT !.keyed = @ + 1]

View ==
  /\ Look
  /\ UNCHANGED << world, ops, flights, effects, pending, issued, changes, crashes >>

TwoSecondsPass ==
  /\ cache.fresh /\ cache' = [cache EXCEPT !.fresh = FALSE]
  /\ UNCHANGED << world, ops, flights, effects, pending, issued, changes, crashes >>

-----------------------------------------------------------------------------
(* Confirmations: issue and consume.                                        *)

IssueConfirmation(a) ==
  LET c == [ nonce |-> Cardinality(issued) + 1, action |-> a, version |-> Served ]
  IN  /\ Look
      /\ a \in Risky /\ Cardinality(issued) < MaxConfirmations
      /\ pending' = pending \cup {c} /\ issued' = issued \cup {c}
      /\ UNCHANGED << world, ops, flights, effects, changes, crashes >>

\* a mistake: a confirmation that fits stays where it is
SpendMismatched(c, a) == pending' = IF c.action = a THEN pending ELSE pending \ {c}

\* consume: a confirmation is gone after its first use, whether it fits or not
Spend(c, a) == pending' = pending \ {c}

ConfirmationExpires(c) ==
  /\ pending' = pending \ {c}
  /\ UNCHANGED << world, cache, ops, flights, effects, issued, changes, crashes >>

-----------------------------------------------------------------------------
(* execute().                                                               *)

\* a mistake: the operation is not stored before the handler is called
BeginUnrecorded(k, a, nonce) ==
  /\ flights' = [flights EXCEPT ![k] = "called"]
  /\ UNCHANGED << ops, world >>

\* the operation is stored, which the snapshot shows, and the handler called
Begin(k, a, nonce) ==
  /\ ops' = [ops EXCEPT ![k] = [ status |-> "running", action |-> a, version |-> Served,
                                 nonce |-> nonce ]]
  /\ flights' = [flights EXCEPT ![k] = "called"]
  /\ world' = HiddenChange(world)

\* a request under a new key; its version is the one the snapshot has now, which
\* a client has seen when it looked just before
Accepted(k) == ops[k].status = "absent" /\ Look

ExecuteSafe(k, a) ==
  /\ Accepted(k) /\ a \notin Risky
  /\ Begin(k, a, NoNonce)
  /\ UNCHANGED << effects, pending, issued, changes, crashes >>

ExecuteConfirmed(k, a, c) ==
  /\ Accepted(k) /\ a \in Risky
  /\ c.action = a /\ c.version = Served
  /\ Spend(c, a)
  /\ Begin(k, a, c.nonce)
  /\ UNCHANGED << effects, issued, changes, crashes >>

\* Refused once the confirmation is used: it was issued for something else, has
\* expired, or the operation cannot be stored.
ConfirmationWasted(k, a, c) ==
  /\ Accepted(k) /\ a \in Risky
  /\ Spend(c, a)
  /\ UNCHANGED << world, ops, flights, effects, issued, changes, crashes >>

HandlerActs(k) ==
  /\ flights[k] = "called"
  /\ flights' = [flights EXCEPT ![k] = "acted"]
  /\ effects' = [effects EXCEPT ![k] = @ + 1]
  /\ world' \in { HiddenChange(world), KeyedChange(world) }
  /\ UNCHANGED << cache, ops, pending, issued, changes, crashes >>

Settle(k, outcome) ==
  /\ flights' = [flights EXCEPT ![k] = "none"]
  /\ ops' = [ops EXCEPT ![k].status = outcome]
  /\ world' = HiddenChange(world)
  /\ UNCHANGED << cache, effects, pending, issued, changes, crashes >>

HandlerReturns(k) == flights[k] = "acted" /\ Settle(k, "succeeded")

\* The handler throws, before its effect or after it, or its result is not recorded.
HandlerFails(k) == flights[k] # "none" /\ Settle(k, "failed")

\* The handler, or the recording of its result, fails and so does recording that.
FailureUnrecorded(k) ==
  /\ flights[k] # "none"
  /\ flights' = [flights EXCEPT ![k] = "none"]
  /\ UNCHANGED << world, cache, ops, effects, pending, issued, changes, crashes >>

-----------------------------------------------------------------------------
(* The rest of the factory, and its crashes.                                *)

OutsideChange ==
  /\ changes < MaxChanges /\ changes' = changes + 1
  /\ world' \in { HiddenChange(world), KeyedChange(world) }
  /\ UNCHANGED << cache, ops, flights, effects, pending, issued, crashes >>

\* A new process: the operations stay, the process is part of what a snapshot shows.
Crash ==
  /\ crashes < MaxCrashes /\ crashes' = crashes + 1
  /\ world' = HiddenChange(world)
  /\ cache' = [ version |-> NoVersion, fresh |-> FALSE ]
  /\ flights' = [k \in Keys |-> "none"] /\ pending' = {}
  /\ UNCHANGED << ops, effects, issued, changes >>

Request ==
  \/ View
  \/ \E a \in Actions : IssueConfirmation(a)
  \/ \E k \in Keys, a \in Actions :
       \/ ExecuteSafe(k, a)
       \/ \E c \in pending : ExecuteConfirmed(k, a, c) \/ ConfirmationWasted(k, a, c)

Handler == \E k \in Keys :
  HandlerActs(k) \/ HandlerReturns(k) \/ HandlerFails(k) \/ FailureUnrecorded(k)

Next ==
  \/ Request \/ Handler
  \/ TwoSecondsPass \/ (\E c \in pending : ConfirmationExpires(c))
  \/ OutsideChange \/ Crash

Spec == Init /\ [][Next]_vars

-----------------------------------------------------------------------------
\* The shape of the stored operations, of the confirmations and of the cache.
TypeOK ==
  /\ world \in Version
  /\ cache \in [ version : Version, fresh : BOOLEAN ]
  /\ ops \in [Keys -> Operation]
  /\ flights \in [Keys -> {"none", "called", "acted"}]
  /\ effects \in [Keys -> Nat]
  /\ pending \subseteq Confirmation /\ issued \subseteq Confirmation
  /\ changes \in Nat /\ crashes \in Nat

\* Whatever is requested again, fails or crashes, an idempotency key takes effect
\* at most once, and its operation is on record when it does.
OneEffectPerKey ==
  \A k \in Keys : effects[k] <= 1 /\ (effects[k] = 1 => ops[k].status # "absent")

\* A confirmation authorises one operation: every risky operation on record was
\* begun with a confirmation issued for its action and version, and no two with
\* the same, whatever was refused, expired or lost in a crash before.
ConfirmedOnce ==
  /\ \A k \in Keys : ops[k].action \in Risky =>
       [ nonce |-> ops[k].nonce, action |-> ops[k].action, version |-> ops[k].version ] \in issued
  /\ \A j, k \in Keys : ops[j].nonce = ops[k].nonce /\ ops[j].nonce # NoNonce => j = k

Begins(k) == ops[k].status = "absent" /\ ops'[k].status # "absent"

\* However long ago the owner confirmed and however old the cached snapshot is,
\* a risky operation begins while what the key of the snapshot cache holds of the
\* pipelines, discovery, runs and deployments is as it was when its confirmation
\* was issued. What the key leaves out may have changed.
BegunAsConfirmed ==
  [][\A k \in Keys : Begins(k) /\ ops'[k].action \in Risky =>
       \E c \in issued : c.nonce = ops'[k].nonce /\ c.version.keyed = world.keyed]_vars
=============================================================================
