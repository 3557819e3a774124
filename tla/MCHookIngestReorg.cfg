CONSTANTS
  w1 = w1
  w2 = w2
  p1 = p1
  p2 = p2
  p3 = p3
  s1 = s1
  t1 = t1
  WorkspaceIds = {w1, w2}
  ProjectIds = {p1, p2, p3}
  WsNames = {"default", "team"}
  ProjNames = {"scratch", "unknown", "p", "q"}
  RepoPaths = {"repo"}
  Reserved = {"scratch"}
  Unborn = Unborn
  Gone = Gone
  NULL = NULL
  Sessions = {s1}
  Dirs = {"repo", "sub"}
  Within <- MCWithin
  TooBroad = {}
  Length <- MCLength
  Tasks = {t1}
  Places <- MCPlaces
  NameOf <- MCNameOf
  RootOf <- MCRootOf
  DefaultWs = w1
  DefaultProj = p1
  DefaultName = "default"
  Unknown = "unknown"
  Global = "_global"
  MaxCache = 2
  MaxEvents <- MCFewEvents
  MaxAdmin = 2
  ReorgAlone = FALSE
SPECIFICATION Spec
SYMMETRY Symmetric
CHECK_DEADLOCK FALSE
INVARIANT ScopesPaired
