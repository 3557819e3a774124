\* No stop and no overlap: two runs in turn, the type chosen by P0.
CONSTANTS
  p1 = p1
  p2 = p2
  Players <- OnePlayer
  Chain <- OneChain
  MaxAttempts = 1
  StartPlans <- AutoPlans
  CapabilityPlans <- GoPlans
  AutoCapability <- Always
  Modes <- AutoOrGate
  Reviewed <- NoJobs
  OwnerStops = FALSE
  OwnerOverlaps = FALSE
  MaxRuns = 2
  MaxGates = 3
SPECIFICATION Spec
INVARIANT JobsVerified
INVARIANT ShipsOnFreshGo
INVARIANT OneAutomaticIteration
