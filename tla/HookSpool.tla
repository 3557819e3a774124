------------------------------ MODULE HookSpool ------------------------------
(***************************************************************************)
(* The spool of lifecycle events between the coding agents and the memory  *)
(* server: ai-memory-cli/src/commands/hook.rs, hook_spool.rs,              *)
(* hook_capture.rs and hook_drain_process.rs on the client, the batch      *)
(* route of ai-memory-hooks/src/router.rs on the server.                   *)
(*                                                                         *)
(* A hook writes its event to a file of its own and never waits for the    *)
(* network; a drain posts the files, oldest first, and removes those the   *)
(* server took. Drains are started by several hooks at once and exclude    *)
(* each other by a file lock. Requests fail, time out after the server did *)
(* its part, or are refused; drains die at any point.                      *)
(*                                                                         *)
(* Events are numbered in the order of their file names. An item of a      *)
(* request is named by its event, so "index" below is an event.            *)
(***************************************************************************)
EXTENDS Naturals, FiniteSets, FiniteSetsExt

CONSTANTS
    MaxEvents,      \* bound: events ever spooled
    Drainers,       \* bound: processes that may be draining or waiting to
    DestOf(_),      \* the endpoint and the credentials an event is sent with
    Malformed,      \* events whose body is not JSON
    MAX_ATTEMPTS, MAX_SPOOL_FILES, MAX_BATCH_ITEMS,
    Threshold,      \* files that make a tool-use hook drain
    MaxFaults,      \* bound: drains that die and replies that get lost
    NULL

Events == 1..MaxEvents

ASSUME SpoolAssumption ==
    /\ MaxEvents \in Nat /\ MaxFaults \in Nat
    /\ MAX_ATTEMPTS \in Nat \ {0} /\ MAX_SPOOL_FILES \in Nat \ {0} /\ MAX_BATCH_ITEMS \in Nat \ {0}
    /\ Threshold \in Nat
    /\ Malformed \subseteq Events
    /\ NULL \notin Drainers \cup Events /\ \A S \in SUBSET Events : S # NULL

VARIABLES
    spool,        \* the files: event -> attempts
    born,         \* events written so far
    old,          \* events past MAX_AGE
    dropped,      \* events given up: too old, too often failed, over capacity
    drains,       \* what each drain is doing
    lock,         \* the drain that holds .drain.lock, or NULL
    taken,        \* event -> how often the server took it
    healthy,      \* from now on the server answers everything in time
    faults

spoolVars == <<spool, born, old, dropped, drains, lock, taken, healthy, faults>>
serverVars == <<taken, faults>>

Files == DOMAIN spool
Held == UNION {[S -> 0..MAX_ATTEMPTS] : S \in SUBSET Events}   \* entries in memory
Without(f, S) == [e \in DOMAIN f \ S |-> f[e]]
Upto(S, e) == {x \in S : x <= e}

\* The kinds of drains: a quick one on a busy stream, one at a session's
\* start, and the detached process of stop, pre-compact and session-end.
Kinds == {"busy", "start", "background"}

Idle == [step |-> "idle"]
Active(d) == drains[d].step # "idle"

Init ==
    /\ spool = [e \in {} |-> 0]
    /\ born = 0 /\ old = {} /\ dropped = {}
    /\ drains = [d \in Drainers |-> Idle]
    /\ lock = NULL
    /\ taken = [e \in Events |-> 0]
    /\ healthy = FALSE /\ faults = 0

-----------------------------------------------------------------------------
(* The hook.                                                               *)

\* Over capacity the oldest files are evicted.
Pruned(files) == {e \in files : Cardinality({x \in files : x >= e}) > MAX_SPOOL_FILES}

\* The drain a hook starts, if its kind calls for one and can be started.
StartDrain(kind, files) ==
    \/ /\ kind = "none" \/ (kind = "busy" /\ Cardinality(files) < Threshold)
       /\ UNCHANGED drains
    \/ /\ kind = "busy" /\ Cardinality(files) >= Threshold /\ lock # NULL   \* NoWait
       /\ UNCHANGED drains
    \/ /\ kind = "background" /\ ~healthy                                   \* spawn fails
       /\ UNCHANGED drains
    \/ /\ kind \in Kinds
       /\ kind = "busy" => Cardinality(files) >= Threshold /\ lock = NULL
       /\ \E d \in Drainers : ~Active(d) /\ drains' = [drains EXCEPT ![d] = [step |-> "waiting", kind |-> kind]]

Enqueue(kind) ==
    LET e == born + 1
        files == Files \cup {e}
    IN /\ e <= MaxEvents
       /\ born' = e
       /\ spool' = [x \in files \ Pruned(files) |-> IF x = e THEN 0 ELSE spool[x]]
       /\ dropped' = dropped \cup Pruned(files)
       /\ StartDrain(kind, files \ Pruned(files))
       /\ UNCHANGED <<old, lock, healthy, serverVars>>

Ages(e) ==
    /\ ~healthy /\ e \in Files \ old
    /\ old' = old \cup {e}
    /\ UNCHANGED <<spool, born, dropped, drains, lock, healthy, serverVars>>

-----------------------------------------------------------------------------
(* The drain.                                                              *)

\* A pass over the files as they are listed now.
Pass(kind) == [step |-> "loading", kind |-> kind, files |-> Files, chunk |-> [e \in {} |-> 0],
               batch |-> TRUE, left |-> FALSE, reply |-> NULL]

\* Mutant: the lock is not looked at.
AcquireAnyway(d) ==
    /\ drains[d].step = "waiting"
    /\ lock' = d
    /\ drains' = [drains EXCEPT ![d] = Pass(drains[d].kind)]
    /\ UNCHANGED <<spool, born, old, dropped, healthy, serverVars>>

Acquire(d) ==
    /\ drains[d].step = "waiting" /\ lock = NULL
    /\ lock' = d
    /\ drains' = [drains EXCEPT ![d] = Pass(drains[d].kind)]
    /\ UNCHANGED <<spool, born, old, dropped, healthy, serverVars>>

\* The waits are bounded: the start's by its own budget of 3 seconds, the
\* background's by 30 seconds, which only another background drain outlasts.
GivesUp(d) ==
    /\ drains[d].step = "waiting" /\ lock # NULL
    /\ drains[d].kind = "background" => drains[lock].kind = "background"
    /\ drains' = [drains EXCEPT ![d] = Idle]
    /\ UNCHANGED <<spool, born, old, dropped, lock, healthy, serverVars>>

\* A failed attempt; the last one drops the event. What is written back is
\* the entry in memory, even over a file evicted meanwhile.
bump_or_drop(e, attempts, files) ==
    IF attempts + 1 >= MAX_ATTEMPTS
    THEN /\ spool' = Without(files, {e})
         /\ dropped' = dropped \cup {e}
    ELSE /\ spool' = [x \in DOMAIN files \cup {e} |-> IF x = e THEN attempts + 1 ELSE files[x]]
         /\ UNCHANGED dropped

Limit(d) == IF drains[d].batch THEN MAX_BATCH_ITEMS ELSE 1

Fits(d, e) ==
    LET chunk == DOMAIN drains[d].chunk IN
    /\ Cardinality(chunk) < Limit(d)
    /\ \A x \in chunk : DestOf(x) = DestOf(e)

\* The next file: gone, too old, not JSON, into the chunk, or for later.
LoadNext(d) ==
    /\ drains[d].step = "loading" /\ drains[d].files # {}
    /\ LET e == Min(drains[d].files)
           rest == [drains[d] EXCEPT !.files = @ \ {e}]
       IN \/ /\ e \notin Files
             /\ drains' = [drains EXCEPT ![d] = [rest EXCEPT !.left = TRUE]]
             /\ UNCHANGED <<spool, dropped>>
          \/ /\ e \in Files \cap old
             /\ spool' = Without(spool, {e}) /\ dropped' = dropped \cup {e}
             /\ drains' = [drains EXCEPT ![d] = rest]
          \/ /\ e \in (Files \ old) \cap Malformed
             /\ bump_or_drop(e, spool[e], spool)
             /\ drains' = [drains EXCEPT ![d] =
                    [rest EXCEPT !.left = @ \/ spool[e] + 1 < MAX_ATTEMPTS]]
          \/ /\ e \in Files \ (old \cup Malformed)
             /\ drains' = [drains EXCEPT ![d] =
                    IF Fits(d, e)
                    THEN [rest EXCEPT !.chunk = [x \in DOMAIN @ \cup {e} |-> IF x = e THEN spool[e] ELSE @[x]]]
                    ELSE [drains[d] EXCEPT !.step = "posting"]]
             /\ UNCHANGED <<spool, dropped>>
    /\ UNCHANGED <<born, old, lock, healthy, serverVars>>

\* The list is finished: post what was collected. (An empty chunk ends the pass.)
LoadEnds(d) ==
    /\ drains[d].step = "loading" /\ drains[d].files = {} /\ DOMAIN drains[d].chunk # {}
    /\ drains' = [drains EXCEPT ![d].step = "posting"]
    /\ UNCHANGED <<spool, born, old, dropped, lock, healthy, serverVars>>

\* Mutant: no second look.
EndsAtOnce(d, left) == drains' = [drains EXCEPT ![d] = Idle] /\ lock' = NULL

\* The pass is over. A background drain that left nothing looks again.
Ends(d, left) ==
    IF drains[d].kind = "background" /\ ~left /\ Files # {}
    THEN drains' = [drains EXCEPT ![d] = Pass("background")] /\ UNCHANGED lock
    ELSE drains' = [drains EXCEPT ![d] = Idle] /\ lock' = NULL

PassEnds(d) ==
    /\ drains[d].step = "loading" /\ drains[d].files = {} /\ DOMAIN drains[d].chunk = {}
    /\ Ends(d, drains[d].left)
    /\ UNCHANGED <<spool, born, old, dropped, healthy, serverVars>>

BudgetEnds(d) ==
    /\ ~healthy /\ drains[d].step \in {"loading", "posting", "single"}
    /\ drains' = [drains EXCEPT ![d] = Idle] /\ lock' = NULL
    /\ UNCHANGED <<spool, born, old, dropped, healthy, serverVars>>

DrainDies(d) ==
    /\ ~healthy /\ faults < MaxFaults /\ Active(d)
    /\ faults' = faults + 1
    /\ drains' = [drains EXCEPT ![d] = Idle]
    /\ lock' = IF lock = d THEN NULL ELSE lock
    /\ UNCHANGED <<spool, born, old, dropped, taken, healthy>>

-----------------------------------------------------------------------------
(* The batch request.                                                      *)

\* Mutant: the number of items taken stands for the prefix.
CountAsPrefix(items, ok, status, failed) ==
    [status |-> status, failed |-> failed, indices |-> NULL,
     prefix |-> {e \in items : Cardinality(Upto(items, e)) <= Cardinality(ok)}]

\* Mutant: the items taken behind a skipped one are not named.
PrefixOnly(items, ok, status, failed) ==
    [status |-> status, failed |-> failed, indices |-> NULL,
     prefix |-> {e \in items : Upto(items, e) \subseteq ok}]

\* The answer: the leading prefix taken, and the items taken when they are
\* not that prefix, or none of a request that was scanned in full.
HookBatchAck(items, ok, status, failed) ==
    LET prefix == {e \in items : Upto(items, e) \subseteq ok} IN
    [status |-> status, failed |-> failed, prefix |-> prefix,
     indices |-> IF ok = prefix /\ ~(status = "ok" /\ ok = {}) THEN NULL ELSE ok]

NoAnswer == [status |-> "failed", failed |-> NULL, prefix |-> {}, indices |-> NULL]

\* The items in order: taken (or a subagent's, accepted and not stored) or
\* rate limited and skipped, up to one that fails or meets a full server.
handle_hook_batch(d) ==
    LET items == DOMAIN drains[d].chunk IN
    /\ drains[d].step = "posting" /\ drains[d].batch
    /\ \E stop \in items \cup {NULL}, limited \in SUBSET items :
       \E status \in {"ok", "saturated"} :
          LET seen == IF stop = NULL THEN items ELSE Upto(items, stop) \ {stop}
              ok == seen \ limited
          IN /\ limited \subseteq seen
             /\ stop = NULL => status = "ok"
             /\ healthy => stop = NULL /\ limited = {}
             /\ taken' = [e \in Events |-> IF e \in ok THEN taken[e] + 1 ELSE taken[e]]
             /\ \/ /\ drains' = [drains EXCEPT ![d].step = "answered",
                          ![d].reply = HookBatchAck(items, ok, status,
                                           IF status = "ok" THEN stop ELSE NULL)]
                   /\ UNCHANGED faults
                \/ /\ ~healthy /\ faults < MaxFaults
                   /\ faults' = faults + 1
                   /\ drains' = [drains EXCEPT ![d].step = "answered", ![d].reply = NoAnswer]
    /\ UNCHANGED <<spool, born, old, dropped, lock, healthy>>

\* A server without the batch route: the chunk is posted one by one.
Unsupported(d) ==
    /\ drains[d].step = "posting"
    /\ drains[d].batch => ~healthy
    /\ drains' = [drains EXCEPT ![d].step = "single", ![d].batch = FALSE]
    /\ UNCHANGED <<spool, born, old, dropped, lock, healthy, serverVars>>

\* The answer is applied to the files. What stays of the chunk, and of the list when the
\* pass breaks off here, is left; an item dropped at its last attempt is not.
BatchAnswered(d) ==
    LET items == DOMAIN drains[d].chunk
        reply == drains[d].reply
        done == IF reply.indices = NULL THEN reply.prefix ELSE reply.indices
        files == Without(spool, done)
        rest == items \ done
        \* the item charged: the one named, else the one after the prefix
        charged == IF reply.status = "saturated" \/ rest = {} THEN NULL
                   ELSE IF reply.indices # NULL THEN reply.failed ELSE Min(rest)
        bumped == charged # NULL /\ drains[d].chunk[charged] + 1 < MAX_ATTEMPTS
        breaks == reply.status # "ok" \/ charged # NULL
        listed == drains[d].files
    IN /\ drains[d].step = "answered" /\ drains[d].batch
       /\ IF charged = NULL
          THEN spool' = files /\ UNCHANGED dropped
          ELSE bump_or_drop(charged, drains[d].chunk[charged], files)
       /\ drains' = [drains EXCEPT ![d] = [drains[d] EXCEPT !.step = "loading", !.chunk = [e \in {} |-> 0],
              !.files = IF breaks THEN {} ELSE @,
              !.left = @ \/ bumped \/ rest \ {charged} # {} \/ (breaks /\ listed # {}), !.reply = NULL]]
       /\ UNCHANGED <<born, old, lock, healthy, serverVars>>

-----------------------------------------------------------------------------
(* One request per event.                                                  *)

\* The server queues the event and answers before it works on it.
handle_hook(d) ==
    LET e == Min(DOMAIN drains[d].chunk) IN
    /\ drains[d].step = "single" /\ DOMAIN drains[d].chunk # {}
    /\ \/ /\ taken' = [taken EXCEPT ![e] = @ + 1]
          /\ drains' = [drains EXCEPT ![d].step = "answered", ![d].reply = [status |-> "ok"]]
          /\ UNCHANGED faults
       \/ /\ ~healthy
          /\ drains' = [drains EXCEPT ![d].step = "answered", ![d].reply = [status |-> "saturated"]]
          /\ UNCHANGED serverVars
       \/ /\ ~healthy /\ faults < MaxFaults
          /\ faults' = faults + 1
          /\ drains' = [drains EXCEPT ![d].step = "answered", ![d].reply = [status |-> "failed"]]
          /\ taken' = [taken EXCEPT ![e] = @ + 1] \/ UNCHANGED taken
    /\ UNCHANGED <<spool, born, old, dropped, lock, healthy>>

SingleAnswered(d) ==
    LET e == Min(DOMAIN drains[d].chunk)
        reply == drains[d].reply
        attempts == drains[d].chunk[e]
    IN /\ drains[d].step = "answered" /\ ~drains[d].batch
       /\ CASE reply.status = "ok" -> spool' = Without(spool, {e}) /\ UNCHANGED dropped
            [] reply.status = "saturated" -> UNCHANGED <<spool, dropped>>
            [] reply.status = "failed" -> bump_or_drop(e, attempts, spool)
       /\ drains' = [drains EXCEPT ![d] = [drains[d] EXCEPT !.step = "single", !.chunk = Without(@, {e}), !.reply = NULL,
              !.left = @ \/ reply.status = "saturated"
                         \/ (reply.status = "failed" /\ attempts + 1 < MAX_ATTEMPTS)]]
       /\ UNCHANGED <<born, old, lock, healthy, serverVars>>

SinglesEnd(d) ==
    /\ drains[d].step = "single" /\ DOMAIN drains[d].chunk = {}
    /\ drains' = [drains EXCEPT ![d].step = "loading"]
    /\ UNCHANGED <<spool, born, old, dropped, lock, healthy, serverVars>>

-----------------------------------------------------------------------------
\* From here on the server answers in time and no drain dies. (No drain is
\* left over from before.)
Recovers ==
    /\ ~healthy /\ healthy' = TRUE
    /\ \A d \in Drainers : ~Active(d)
    /\ UNCHANGED <<spool, born, old, dropped, drains, lock, serverVars>>

Drain(d) == LoadNext(d) \/ LoadEnds(d) \/ PassEnds(d) \/ handle_hook_batch(d) \/ Unsupported(d)
            \/ BatchAnswered(d) \/ handle_hook(d) \/ SingleAnswered(d) \/ SinglesEnd(d)

Next ==
    \/ \E kind \in Kinds \cup {"none"} : Enqueue(kind)
    \/ \E e \in Events : Ages(e)
    \/ \E d \in Drainers : Acquire(d) \/ GivesUp(d) \/ Drain(d) \/ BudgetEnds(d) \/ DrainDies(d)
    \/ Recovers

\* A process that has the lock goes on; one that waits polls for the lock.
Spec == Init /\ [][Next]_spoolVars
             /\ \A d \in Drainers : WF_spoolVars(Drain(d)) /\ WF_spoolVars(Acquire(d))

-----------------------------------------------------------------------------
(* Properties.                                                             *)

Replies == [status : {"ok", "saturated", "failed"}, failed : Events \cup {NULL},
            prefix : SUBSET Events, indices : (SUBSET Events) \cup {NULL}]
           \cup [status : {"ok", "saturated", "failed"}] \cup {NULL}

DrainTypeOK(r) ==
    \/ r = Idle
    \/ r.step = "waiting" /\ r.kind \in Kinds
    \/ /\ r.step \in {"loading", "posting", "single", "answered"}
       /\ r.kind \in Kinds /\ r.files \subseteq Events /\ r.chunk \in Held
       /\ r.batch \in BOOLEAN /\ r.left \in BOOLEAN /\ r.reply \in Replies

\* Types.
SpoolTypeOK ==
    /\ Files \subseteq 1..born /\ \A e \in Files : spool[e] \in 0..(MAX_ATTEMPTS - 1)
    /\ born \in 0..MaxEvents
    /\ old \subseteq Events /\ dropped \subseteq Events
    /\ DOMAIN drains = Drainers /\ \A d \in Drainers : DrainTypeOK(drains[d])
    /\ lock \in Drainers \cup {NULL}
    /\ taken \in [Events -> Nat]
    /\ healthy \in BOOLEAN /\ faults \in 0..MaxFaults

\* hook_spool.rs promises that an event's file stays until the server took
\* it: an event that is no longer in the spool was taken, or was given up for
\* one of the three reasons the client names.
NoEventVanishes == \A e \in 1..born : e \in Files \/ e \in dropped \/ taken[e] > 0

\* The server takes an event once, and once more for every acceptance the
\* client did not hear of or did not live to record: never because two
\* drains met.
TwiceOnlyUnheard == \A e \in Events : taken[e] <= 1 + faults

\* One drain at a time works on the files.
OneDrain == \A d \in Drainers : Active(d) /\ drains[d].step # "waiting" => lock = d

\* A drain at work that leaves something: while the server is well, listed files it
\* found evicted.
Overrun(d) == Active(d) /\ drains[d].step # "waiting" /\ drains[d].left

\* Once the server is well, what is in the spool when the detached drain of a
\* session's end starts waiting is sent, whoever gets the lock (and
\* no body the drain cannot parse is in it). The exception is a spool that
\* overflows meanwhile: a drain that finds its files evicted counts them as
\* left and does not look again, and the one that waited may have given up.
BoundaryFlushes ==
    \A e \in Events :
        (healthy /\ e \in Files /\ Malformed \subseteq 1..born \ Files /\ \E d \in Drainers : drains[d] = [step |-> "waiting", kind |-> "background"])
            ~> (e \notin Files \/ \E d \in Drainers : Overrun(d))
=============================================================================
