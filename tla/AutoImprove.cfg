CONSTANTS
  Sessions = {s1}
  Patchable = {rule}
  Slot = slot
  Fresh = {}
  Report = report
  Evaluated = {rule}
  Pinnable = {rule}
  Edited = {rule, slot}
  MaxRecent = 2
  MaxPatchable = 1
  Proposals = {q1, q2}
  Scheduler = scheduler
  Manual = manual
  Curator = curator
  PerTick = 1
  MaxDrafts = 1
  MaxEnds = 2
  MaxVersions = 3
  MaxReviews = 1
  MaxFaults = 1
  NULL = NULL
SPECIFICATION Spec
CHECK_DEADLOCK FALSE
INVARIANT OnlyApprovedStays
PROPERTY NoBlindOverwrite
PROPERTY SessionsReached
