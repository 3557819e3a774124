---------------------------- MODULE MemoryOutbox ----------------------------
(***************************************************************************)
(* How memories reach the memory service: record, setup, retry and         *)
(* startIfInstalled of maestro/memory/service.mjs over the outbox of       *)
(* maestro/memory/outbox.mjs.                                              *)
(*                                                                         *)
(* A record is written directly while the service is believed healthy, and *)
(* put in the outbox otherwise.  One drain at a time goes through the      *)
(* entries the outbox had when it began and awaits a write for each; an    *)
(* entry whose write failed waits for its backoff.  The service may be     *)
(* down without anybody noticing, and may keep what it then fails to       *)
(* acknowledge.  The outbox file is replaced after every change; the       *)
(* process may end at any await.                                           *)
(*                                                                         *)
(* Left out: the contents of records, redaction, the number of attempts    *)
(* (only whether the backoff has passed matters), and a file that somebody *)
(* else damaged.                                                           *)
(***************************************************************************)
EXTENDS Naturals, Sequences, FiniteSets

CONSTANTS
  Records,      \* source hashes of the records
  MaxSubmits,   \* bound: how often the engine submits each record
  MaxTrouble    \* bound: outages, failures and crashes in a behaviour

ASSUME OutboxAssumption == MaxSubmits \in Nat /\ MaxTrouble \in Nat

VARIABLES
  entries,     \* the outbox in memory: [record, due]; due: its backoff has passed
  file,        \* the outbox file
  drain,       \* the drain in progress
  direct,      \* record -> its direct write: "none", "sent", "applied"
  healthy,     \* the runtime's state is "healthy"
  up,          \* does the service answer?
  delivered,   \* records the service holds
  accepted,    \* records whose record() returned
  submits,     \* record -> how often it was submitted
  trouble      \* outages, failures and crashes so far

outboxVars == << entries, file, drain, direct, healthy, up, delivered, accepted, submits, trouble >>

NoRecord == "none"
ASSUME RecordsAssumption == NoRecord \notin Records

Entry == [ record : Records, due : BOOLEAN ]

\* pc: "idle", or the entry `at` (found at `index` before the await) is being
\* written; todo: the candidates after it
Drain == [ pc : {"idle", "sent", "applied"}, todo : Seq(Records),
           at : Records \cup {NoRecord}, index : Nat, force : BOOLEAN ]
NoDrain == [ pc |-> "idle", todo |-> <<>>, at |-> NoRecord, index |-> 0, force |-> FALSE ]

Held(es) == { es[i].record : i \in DOMAIN es }
Without(es, k) == [i \in 1..(Len(es) - 1) |-> IF i < k THEN es[i] ELSE es[i + 1]]
Trouble == trouble < MaxTrouble /\ trouble' = trouble + 1

OutboxInit ==
  /\ entries = <<>> /\ file = <<>> /\ drain = NoDrain
  /\ direct = [r \in Records |-> "none"]
  /\ healthy = FALSE /\ up = TRUE
  /\ delivered = {} /\ accepted = {}
  /\ submits = [r \in Records |-> 0] /\ trouble = 0

-----------------------------------------------------------------------------
(* The outbox.                                                              *)

\* a mistake: the newest entry goes first
EnqueueFirst(r) ==
  LET new == IF r \in Held(entries) THEN entries
             ELSE << [ record |-> r, due |-> TRUE ] >> \o entries
  IN  entries' = new /\ file' = new

\* enqueue: an entry that is there already is kept, the file is replaced
Enqueue(r) ==
  LET new == IF r \in Held(entries) THEN entries
             ELSE Append(entries, [ record |-> r, due |-> TRUE ])
  IN  entries' = new /\ file' = new

\* where performDrain stops next over the entries es: at the first candidate
\* that is still there and due, or at its end
Advance(es, todo, force) ==
  LET ready == { k \in DOMAIN todo : \E i \in DOMAIN es :
                   es[i].record = todo[k] /\ (force \/ es[i].due) }
  IN  IF ready = {} THEN NoDrain
      ELSE LET k == CHOOSE k \in ready : \A m \in ready : k <= m
           IN  [ pc |-> "sent", at |-> todo[k], force |-> force,
                 todo |-> SubSeq(todo, k + 1, Len(todo)),
                 index |-> CHOOSE i \in DOMAIN es : es[i].record = todo[k] ]

Candidates(es) == [i \in DOMAIN es |-> es[i].record]

\* drain(): joins the drain in progress, without a look at its options
StartDrain(force) ==
  drain' = IF drain.pc # "idle" THEN drain ELSE Advance(entries, Candidates(entries), force)

\* The write was acknowledged: the entry at the index found before the await goes.
DrainSucceeds ==
  LET rest == Without(entries, drain.index)
  IN  /\ drain.pc = "applied" /\ up
      /\ entries' = rest /\ file' = rest
      /\ drain' = Advance(rest, drain.todo, drain.force)
      /\ UNCHANGED << direct, healthy, up, delivered, accepted, submits, trouble >>

\* a mistake: an entry whose write failed is dropped
DrainFailsForGood ==
  LET rest == Without(entries, drain.index)
  IN  /\ drain.pc # "idle"
      /\ IF up THEN Trouble ELSE UNCHANGED trouble
      /\ entries' = rest /\ file' = rest
      /\ drain' = Advance(rest, drain.todo, drain.force)
      /\ UNCHANGED << direct, healthy, up, delivered, accepted, submits >>

\* a mistake: a write to a service that is down has no timeout
DrainFailsAnswered ==
  LET waiting == [entries EXCEPT ![drain.index].due = FALSE]
  IN  /\ drain.pc # "idle" /\ up /\ Trouble
      /\ entries' = waiting /\ file' = waiting
      /\ drain' = Advance(waiting, drain.todo, drain.force)
      /\ UNCHANGED << direct, healthy, up, delivered, accepted, submits >>

\* The write failed, or its acknowledgement was lost: the entry begins its backoff.
DrainFails ==
  LET waiting == [entries EXCEPT ![drain.index].due = FALSE]
  IN  /\ drain.pc # "idle"
      /\ IF up THEN Trouble ELSE UNCHANGED trouble
      /\ entries' = waiting /\ file' = waiting
      /\ drain' = Advance(waiting, drain.todo, drain.force)
      /\ UNCHANGED << direct, healthy, up, delivered, accepted, submits >>

BackoffEnds(i) ==
  /\ ~entries[i].due
  /\ entries' = [entries EXCEPT ![i].due = TRUE]
  /\ file' = [file EXCEPT ![i].due = TRUE]     \* nextAttemptAt is a time: the clock passes for both
  /\ UNCHANGED << drain, direct, healthy, up, delivered, accepted, submits, trouble >>

-----------------------------------------------------------------------------
(* The service.                                                             *)

\* record(): a memory the service believes unhealthy goes to the outbox
RecordQueued(r) ==
  /\ ~healthy /\ submits[r] < MaxSubmits /\ direct[r] = "none"
  /\ submits' = [submits EXCEPT ![r] = @ + 1]
  /\ Enqueue(r)
  /\ accepted' = accepted \cup {r}
  /\ UNCHANGED << drain, direct, healthy, up, delivered, trouble >>

RecordDirectly(r) ==
  /\ healthy /\ submits[r] < MaxSubmits /\ direct[r] = "none"
  /\ submits' = [submits EXCEPT ![r] = @ + 1]
  /\ direct' = [direct EXCEPT ![r] = "sent"]
  /\ UNCHANGED << entries, file, drain, healthy, up, delivered, accepted, trouble >>

\* writeRecord resolved: record() returns and starts a drain it does not await
DirectSucceeds(r) ==
  /\ direct[r] = "applied" /\ up
  /\ direct' = [direct EXCEPT ![r] = "none"]
  /\ accepted' = accepted \cup {r}
  /\ StartDrain(FALSE)
  /\ UNCHANGED << entries, file, healthy, up, delivered, submits, trouble >>

\* writeRecord rejected: the record goes to the outbox
DirectFails(r) ==
  /\ direct[r] # "none"
  /\ IF up THEN Trouble ELSE UNCHANGED trouble
  /\ direct' = [direct EXCEPT ![r] = "none"]
  /\ Enqueue(r)
  /\ accepted' = accepted \cup {r}
  /\ UNCHANGED << drain, healthy, up, delivered, submits >>

\* retry() and startIfInstalled(): the runtime becomes healthy, and a drain begins
Retry ==
  /\ ~healthy /\ up
  /\ healthy' = TRUE
  /\ StartDrain(FALSE)
  /\ UNCHANGED << entries, file, direct, up, delivered, accepted, submits, trouble >>

\* setup(): the same, with a drain that ignores the backoff
Setup ==
  /\ ~healthy /\ up
  /\ healthy' = TRUE
  /\ StartDrain(TRUE)
  /\ UNCHANGED << entries, file, direct, up, delivered, accepted, submits, trouble >>

-----------------------------------------------------------------------------
(* The environment: the memory service's process and ours.                  *)

Apply(r) == delivered' = delivered \cup {r}

ServiceAppliesDrained ==
  /\ up /\ drain.pc = "sent"
  /\ drain' = [drain EXCEPT !.pc = "applied"]
  /\ Apply(drain.at)
  /\ UNCHANGED << entries, file, direct, healthy, up, accepted, submits, trouble >>

ServiceAppliesDirect(r) ==
  /\ up /\ direct[r] = "sent"
  /\ direct' = [direct EXCEPT ![r] = "applied"]
  /\ Apply(r)
  /\ UNCHANGED << entries, file, drain, healthy, up, accepted, submits, trouble >>

\* The service stops answering; a managed process that exits is noticed.
Outage ==
  /\ up /\ Trouble
  /\ up' = FALSE /\ healthy' \in { healthy, FALSE }
  /\ UNCHANGED << entries, file, drain, direct, delivered, accepted, submits >>

Recovery ==
  /\ ~up /\ up' = TRUE
  /\ UNCHANGED << entries, file, drain, direct, healthy, delivered, accepted, submits, trouble >>

\* Our process ends and starts again from the file; callers of record() are gone.
OutboxCrash ==
  /\ Trouble
  /\ entries' = file /\ drain' = NoDrain
  /\ direct' = [r \in Records |-> "none"] /\ healthy' = FALSE
  /\ UNCHANGED << file, up, delivered, accepted, submits >>

Client == \E r \in Records : RecordQueued(r) \/ RecordDirectly(r)

OutboxNext ==
  \/ Client
  \/ \E r \in Records : DirectSucceeds(r) \/ DirectFails(r) \/ ServiceAppliesDirect(r)
  \/ DrainSucceeds \/ DrainFails \/ ServiceAppliesDrained
  \/ \E i \in DOMAIN entries : BackoffEnds(i)
  \/ Retry \/ Setup \/ Outage \/ Recovery \/ OutboxCrash

\* Writes are answered or time out, and clocks advance.
Answers ==
  /\ WF_outboxVars(DrainSucceeds) /\ WF_outboxVars(DrainFails) /\ WF_outboxVars(ServiceAppliesDrained)
  /\ \A r \in Records :
       WF_outboxVars(DirectSucceeds(r)) /\ WF_outboxVars(DirectFails(r)) /\ WF_outboxVars(ServiceAppliesDirect(r))
  /\ WF_outboxVars(\E i \in DOMAIN entries : BackoffEnds(i))

\* The service comes back, and the owner retries a memory that is not healthy.
Care == WF_outboxVars(Recovery) /\ WF_outboxVars(Retry)

OutboxSpec == OutboxInit /\ [][OutboxNext]_outboxVars
AnsweredSpec == OutboxSpec /\ Answers
FairSpec == AnsweredSpec /\ Care

-----------------------------------------------------------------------------
\* The shape of the outbox, its file and the writes in progress.
OutboxTypeOK ==
  /\ entries \in Seq(Entry) /\ file \in Seq(Entry) /\ drain \in Drain
  /\ direct \in [Records -> {"none", "sent", "applied"}]
  /\ healthy \in BOOLEAN /\ up \in BOOLEAN
  /\ delivered \subseteq Records /\ accepted \subseteq Records
  /\ submits \in [Records -> Nat] /\ trouble \in Nat

\* A record whose record() returned is held by the service or by the outbox file,
\* whatever failed, was recorded again or crashed since.
NothingLost == \A r \in accepted : r \in delivered \cup Held(file)

\* The index a drain found before its await still points at the same entry after
\* it, so the entry it removes or puts off is the one it wrote.
IndexHolds ==
  drain.pc # "idle" => drain.index \in DOMAIN entries /\ entries[drain.index].record = drain.at

\* A drain ends: an outbox is never locked by a drain in progress.
DrainSettles == drain.pc # "idle" ~> drain.pc = "idle"
=============================================================================
