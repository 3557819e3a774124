-------------------------- MODULE MCPipelineEngine --------------------------
(***************************************************************************)
(* Instances of PipelineEngine for TLC.  The plans are the generic sequence *)
(* of JOBS_BY_CAPABILITY with some of its jobs left out: each keeps the     *)
(* order of the code and the jobs that matter to the run it is used in.     *)
(***************************************************************************)
EXTENDS PipelineEngine

CONSTANTS p1, p2

OnePlayer == {p1}
OneChain == <<p1>>
TwoPlayers == {p1, p2}
TwoChain == <<p1, p2>>

NoJobs == {}
Never == {FALSE}
Always == {TRUE}

ShortPlans == { <<"L1/B1", "L1/B5", "P3">> }
SimPlans == { <<"L1/B5", "SIMULATE", "P3">> }
AutoPlans == { <<"L0/P0", "L1/B5", "SIMULATE", "P3">> }
BothPlans == ShortPlans \cup SimPlans
GoPlans == { <<"L0/P0", "DS-GEN", "L1/B5", "SIMULATE", "P3">>,
             <<"L0/P0", "L1/B5", "SIMULATE", "P3">> }

ReviewB1 == {"L1/B1"}
ReviewB5 == {"L1/B5"}

GateOnly == {"autopilot_to_gate"}
FullOrGuided == {"full_auto", "guided"}
AutoOrGate == {"full_auto", "autopilot_to_gate"}
=============================================================================
