SPECIFICATION MCSpec
CONSTANTS
    WorkspaceIds = {w1, w2}
    w1 = w1
    w2 = w2
    p1 = p1
    p2 = p2
    ProjectIds = {p1, p2}
    WsNames = {"default", "team"}
    ProjNames = {"p", "q"}
    RepoPaths <- MCRepoPaths
    Reserved <- MCReserved
    Unborn = Unborn
    Gone = Gone
    NULL = NULL
    Paths = {"a", "b"}
    Contents <- MCContents
    LinksOf <- MCLinksOf
    Episodic <- MCEpisodic
    Pinned <- MCPinned
    EmbedModels = {"m1", "m2"}
    MaxPages = 3
    Queries <- MCQueries
    RulePaths = {"a"}
    SlotPaths = {"b"}
    SearchLimit = 1
    RecentLimit = 1
    GlobalProject = "q"
    MaxScopes = 2
    Limits = {1, 3}
CHECK_DEADLOCK FALSE
INVARIANTS
    VersionsWellFormed
    BareLinksFollow
    NoDanglingRows
    SearchStaysInProject
    AnswersAgree
PROPERTIES
    PinnedKept
