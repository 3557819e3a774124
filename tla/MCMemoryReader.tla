---------------------------- MODULE MCMemoryReader ----------------------------
(***************************************************************************)
(* An instance of MemoryReader for TLC. The whole next-state relation over  *)
(* two workspaces and two projects has millions of states with three       *)
(* versions already; each behaviour here keeps to one slice of it, chosen  *)
(* at the start: the scopes and the links, the sweep, or the vectors.      *)
(***************************************************************************)
EXTENDS MemoryTools, TLC

CONSTANTS w1, w2, p1, p2

VARIABLE slice

MCRepoPaths == {}
MCReserved == {}

\* "index" links inside its project and to project "q" of its own workspace;
\* "note" decays; "kept" is an episodic page with a pin.
MCContents == {"index", "note", "kept"}
MCLinksOf(c) ==
    IF c = "index"
    THEN {[ws |-> NULL, proj |-> NULL, path |-> "b"], [ws |-> NULL, proj |-> "q", path |-> "b"]}
    ELSE {}
MCEpisodic == {"note", "kept"}
MCQueries == {{"note"}}
MCPinned == {"kept"}

\* One workspace with two projects; two workspaces and one project when projects
\* come, go and move.
MCInit ==
    /\ slice \in {"scopes", "sweep", "vectors", "search"}
    /\ workspaces = (w1 :> "default") @@ (w2 :> IF slice = "scopes" THEN "team" ELSE Unborn)
    /\ projects = (p1 :> [ws |-> w1, name |-> "p", repo |-> NULL])
               @@ (p2 :> IF slice = "scopes" THEN Unborn ELSE [ws |-> w1, name |-> "q", repo |-> NULL])
    /\ pages = [i \in PageIds |-> Unborn]
    /\ links = {}
    /\ embeddings = [i \in PageIds |-> NULL]
    /\ sweeping = NULL
    /\ embedding = NoPage
    /\ search = NoSearch

Write(ps, paths, cs) == \E page \in [ws : WorkspaceIds, proj : ps, path : paths, content : cs] :
    UpsertPage(page)

\* A batch of two pages that decay.
Batch == \E c \in Episodic :
    UpsertPages([ws |-> w1, proj |-> p1, path |-> "a", content |-> c],
                [ws |-> w1, proj |-> p1, path |-> "b", content |-> "note"])

MCNext ==
    /\ UNCHANGED slice
    /\ \/ /\ slice = "scopes" /\ UNCHANGED search
          /\ \/ Write({p1}, {"a"}, {"index"}) \/ Write(ProjectIds, {"b"}, {"note"})
             \/ RemovePages \/ RelabelPages \/ CreateProject
       \/ /\ slice = "sweep" /\ UNCHANGED search
          /\ Write({p1}, {"a"}, Contents) \/ Batch \/ Decay \/ DeletePage(w1, p1, "a")
       \/ /\ slice = "vectors" /\ UNCHANGED search
          /\ Write({p1}, {"a"}, {"note", "kept"}) \/ DeletePage(w1, p1, "a") \/ ReorgPages(w1) \/ Embed
       \/ /\ slice = "search"
          /\ \/ Search
             \/ /\ UNCHANGED search
                /\ \/ Write({p1}, {"a"}, {"index"}) \/ Write({p1, p2}, {"b"}, {"note"})
                   \/ CreateWorkspace \/ MoveProjectPages(p2, w1, w2) \/ PurgeProjectPages(w1, p1)
                   \/ EmbedStart(1) \/ StoreEmbedding("m1")

MCSpec == MCInit /\ [][MCNext]_<<readerVars, slice>>
==============================================================================
