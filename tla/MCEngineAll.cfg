\* Every command: two players, two attempts, review, stops, overlaps, simulation; the loop comes to rest.
CONSTANTS
  p1 = p1
  p2 = p2
  Players <- TwoPlayers
  Chain <- TwoChain
  MaxAttempts = 2
  StartPlans <- BothPlans
  CapabilityPlans <- GoPlans
  AutoCapability <- Never
  Modes <- FullOrGuided
  Reviewed <- ReviewB1
  OwnerStops = TRUE
  OwnerOverlaps = TRUE
  MaxRuns = 2
  MaxGates = 1
SPECIFICATION FairSpec
INVARIANT RunningHasLoop
INVARIANT WaitingHasGate
INVARIANT CrashLosesNothing
PROPERTY LoopSettles
