----------------------------- MODULE ExecutorRun -----------------------------
(***************************************************************************)
(* The executor run service (maestro/executor-run-service.mjs): it runs    *)
(* one coding command line tool at a time for chats and playbooks.  Five   *)
(* things may end a run, in any order and more than one of them: its       *)
(* process closes, the child object reports an error, the timer fires, the *)
(* owner stops it, or the spawn itself throws.  Each of them calls         *)
(* finish(), which settles the run the first time only.                    *)
(*                                                                         *)
(* A stop and a timeout send SIGTERM and settle the run at once; the       *)
(* process ends when it ends, and its `close` arrives after that.          *)
(*                                                                         *)
(* Left out: the output, the arguments and the resume token, and a start   *)
(* that is refused before a run exists (prompt, player, spawn arguments).  *)
(***************************************************************************)
EXTENDS Naturals

CONSTANT Runs      \* ids of runs, as many as are ever started

None == "none"     \* active === null

ASSUME RunsAssumption == None \notin Runs

Settled == { "done", "error", "timeout", "stopped" }
Status == { "new", "running" } \cup Settled

VARIABLES
  active,     \* the run that holds the slot, or None
  status,     \* run -> its status ("new": not started); settled = finalized
  process,    \* run -> "none", "alive", or "exited" with its close event to come
  timer       \* runs whose timer is armed

runsVars == << active, status, process, timer >>

RunsInit ==
  /\ active = None
  /\ status = [r \in Runs |-> "new"]
  /\ process = [r \in Runs |-> "none"]
  /\ timer = {}

\* a mistake: the slot is freed by whoever finishes
FinishFreely(r, outcome) ==
  /\ status' = IF status[r] = "running" THEN [status EXCEPT ![r] = outcome] ELSE status
  /\ active' = None
  /\ timer' = timer \ {r}

\* a mistake: a run may be settled again
FinishAgain(r, outcome) ==
  /\ status' = [status EXCEPT ![r] = outcome]
  /\ active' = IF active = r THEN None ELSE active
  /\ timer' = timer \ {r}

\* finish: only the first call of a run does anything
Finish(r, outcome) ==
  IF status[r] = "running"
  THEN /\ status' = [status EXCEPT ![r] = outcome]
       /\ active' = IF active = r THEN None ELSE active
       /\ timer' = timer \ {r}
  ELSE UNCHANGED << status, active, timer >>

\* start: the spawn succeeds and the timer is armed
Start(r) ==
  /\ active = None /\ status[r] = "new"
  /\ active' = r
  /\ status' = [status EXCEPT ![r] = "running"]
  /\ process' = [process EXCEPT ![r] = "alive"]
  /\ timer' = timer \cup {r}

\* start: the spawn throws, and the run is settled before start returns
StartFails(r) ==
  /\ active = None /\ status[r] = "new"
  /\ status' = [status EXCEPT ![r] = "error"]
  /\ UNCHANGED << active, process, timer >>

\* The process of a run ends, on its own or because of a SIGTERM.
ProcessExits(r) ==
  /\ process[r] = "alive"
  /\ process' = [process EXCEPT ![r] = "exited"]
  /\ UNCHANGED << active, status, timer >>

\* child "close": the event of an ended process, whatever settled the run
Closes(r, code) ==
  /\ process[r] = "exited"
  /\ process' = [process EXCEPT ![r] = "none"]
  /\ Finish(r, IF code = 0 THEN "done" ELSE "error")

\* child "error": the tool could not be started after all
Errs(r) ==
  /\ process[r] = "alive"
  /\ process' = [process EXCEPT ![r] = "none"]
  /\ Finish(r, "error")

\* a mistake: the timer only asks the process to end
TimesOutPolitely(r) ==
  /\ r \in timer
  /\ timer' = timer \ {r}
  /\ UNCHANGED << active, status, process >>

\* the timer fires: SIGTERM, and the run is settled without waiting
TimesOut(r) ==
  /\ r \in timer
  /\ timer' = timer \ {r}
  /\ IF status[r] = "running"
     THEN Finish(r, "timeout") ELSE UNCHANGED << active, status >>
  /\ UNCHANGED process

\* stop: SIGTERM, and the run is settled without waiting
Stop(r) ==
  /\ status[r] = "running"
  /\ Finish(r, "stopped")
  /\ UNCHANGED process

RunsNext == \E r \in Runs :
  \/ Start(r) \/ StartFails(r) \/ ProcessExits(r) \/ Errs(r) \/ TimesOut(r) \/ Stop(r)
  \/ \E code \in {0, 1} : Closes(r, code)

\* Timers fire.  A process need not end: the command line tool may hang.
Fairness == \A r \in Runs : WF_runsVars(TimesOut(r))

RunsSpec == RunsInit /\ [][RunsNext]_runsVars
RunsFairSpec == RunsSpec /\ Fairness

-----------------------------------------------------------------------------
\* The shape of the service's state.
RunsTyped ==
  /\ active \in Runs \cup {None}
  /\ status \in [Runs -> Status]
  /\ process \in [Runs -> {"none", "alive", "exited"}]
  /\ timer \subseteq Runs

\* The slot is taken exactly while a run runs, by that run, and that run has a
\* timer that will end it: the late close of an earlier run frees nothing.
SlotIsHonest ==
  /\ \A r \in Runs : status[r] = "running" <=> active = r
  /\ timer = { r \in Runs : status[r] = "running" }

\* A run is settled once: whatever comes later, the outcome that was reported stands.
SettledOnce ==
  [][\A r \in Runs : status[r] \in Settled => status'[r] = status[r]]_runsVars

\* The slot is never held for ever, even by a tool that hangs.
SlotFrees == \A r \in Runs : active = r ~> active # r

=============================================================================
