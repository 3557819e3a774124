\* Four events (the last one once the server is well), two drains that may meet, one fault.
CONSTANTS
  d1 = d1
  d2 = d2
  MaxEvents = 4
  Drainers = {d1, d2}
  DestOf <- OneServer
  Malformed <- SecondMalformed
  MAX_ATTEMPTS = 2
  MAX_SPOOL_FILES = 2
  MAX_BATCH_ITEMS = 2
  Threshold = 2
  MaxFaults = 1
  NULL = NULL
SPECIFICATION MCSpec
CHECK_DEADLOCK FALSE
INVARIANT NoEventVanishes
INVARIANT TwiceOnlyUnheard
INVARIANT OneDrain
PROPERTY BoundaryFlushes
