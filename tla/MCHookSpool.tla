------------------------------ MODULE MCHookSpool ------------------------------
(* Instances of HookSpool for TLC: all events go to one server, and the      *)
(* checks of the installers (InstallChecks), which TLC evaluates first.      *)
EXTENDS HookSpool, InstallChecks

CONSTANTS d1, d2

OneServer(e) == "server"
SecondMalformed == {2}

\* The last event, which overflows the spool a second time, comes once the server is well.
MCNext == Next /\ (born' < MaxEvents \/ healthy')
MCSpec == Init /\ [][MCNext]_spoolVars
               /\ \A d \in Drainers : WF_spoolVars(Drain(d)) /\ WF_spoolVars(Acquire(d))
===============================================================================
