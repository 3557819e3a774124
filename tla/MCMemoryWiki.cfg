CONSTANTS
  w1 = w1
  w2 = w2
  p1 = p1
  p2 = p2
  x = x
  y = y
  WorkspaceIds = {w1, w2}
  ProjectIds = {p1, p2}
  WsNames = {"default", "team"}
  ProjNames = {"a", "b"}
  RepoPaths = {"repo"}
  Reserved = {}
  Unborn = Unborn
  Gone = Gone
  NULL = NULL
  Paths = {x, y, z}
  Batch = {x, y}
  Asked = {x}
  InitialStates <- MCInitialStates
  Tasks = {1, 2}
  Watcher = 3
  MaxBodies = 3
  MaxOps = 2
  MaxFaults = 1
  MaxLooks = 1
SPECIFICATION Spec
CHECK_DEADLOCK FALSE
INVARIANT FilesInScope
INVARIANT MergeLosesNothing
PROPERTY IndexFollowsFiles
