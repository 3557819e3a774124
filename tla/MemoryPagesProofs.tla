-------------------------- MODULE MemoryPagesProofs --------------------------
(***************************************************************************)
(* Theorems about MemoryPages, the hybrid search and the queries of         *)
(* MemoryReader, and the surfaces of MemoryTools that answer with them, for  *)
(* every set of workspaces, projects, paths, contents, links and models     *)
(* and every bound on the versions, the hits and the scopes of a query.     *)
(*                                                                         *)
(* The first part follows the writer: versions, links, vectors, the sweep   *)
(* and a search between its readings. The second follows the answers: the   *)
(* scopes stay sound and the tables finite, and from that alone every two   *)
(* roads to a page lead to the same rows and every two counts agree.        *)
(***************************************************************************)
EXTENDS MemoryTools, FiniteSetTheorems, WellFoundedInduction, TLAPS

-----------------------------------------------------------------------------
(* The inductive invariant, about tables, so that a batch can be followed   *)
(* from one page to the next.                                               *)

Live(pgs, i) == i \in PageIds /\ pgs[i] \notin {Unborn, Gone}
OnPath(pgs, i, j) == pgs[i].proj = pgs[j].proj /\ pgs[i].path = pgs[j].path

\* Ids are drawn in order.
Drawn(pgs) == \E n \in 0..MaxPages : \A i \in PageIds : pgs[i] = Unborn <=> i > n

\* A latest version is the newest of its path and was never evicted.
LatestIsNewest(pgs) == \A i, j \in PageIds :
    Live(pgs, i) /\ Live(pgs, j) /\ pgs[i].latest /\ OnPath(pgs, i, j) => j <= i
LatestIsKept(pgs) == \A i \in PageIds : Live(pgs, i) /\ pgs[i].latest => pgs[i].evicted = "no"

\* A version supersedes an older one of its path, which nothing evicts any more.
ChainedTo(pgs, i, old) ==
    /\ Live(pgs, old) /\ old < i /\ OnPath(pgs, i, old)
    /\ ~pgs[old].latest /\ pgs[old].evicted = "no"
Chained(pgs) == \A i \in PageIds :
    Live(pgs, i) /\ pgs[i].supersedes # NoPage => ChainedTo(pgs, i, pgs[i].supersedes)

PagesType(pgs) == pgs \in [PageIds -> PageRows \cup {Unborn, Gone}]
VersionsInv(pgs) ==
    PagesType(pgs) /\ Drawn(pgs) /\ LatestIsNewest(pgs) /\ LatestIsKept(pgs) /\ Chained(pgs)

Filed(pgs) == \A i \in PageIds : Live(pgs, i) => ProjectInWorkspace(pgs[i].ws, pgs[i].proj)

\* The versions of the path a bare link names.
OnLink(pgs, l, i) == Live(pgs, i) /\ pgs[i].proj = pgs[l.from].proj /\ pgs[i].path = l.path

Ends(pgs, l) == Live(pgs, l.from) /\ (l.to = NoPage \/ Live(pgs, l.to))
Follows(pgs, l) ==
    /\ l.to # NoPage => OnLink(pgs, l, l.to)
    /\ \A i \in PageIds : OnLink(pgs, l, i) =>
           /\ l.to # NoPage => i <= l.to
           /\ pgs[i].latest => l.to = i
LinkInv(pgs, l) == l \in LinkRows /\ Ends(pgs, l) /\ (l.proj = NULL => Follows(pgs, l))
LinksInv(pgs, lks) == \A l \in lks : LinkInv(pgs, l)

VectorsInv ==
    /\ embeddings \in [PageIds -> EmbedModels \cup {NULL}]
    /\ embedding \in 0..MaxPages
    /\ \A i \in PageIds : embeddings[i] # NULL => Live(pages, i)

\* What the sweep chose may be gone by now, but is never something else.
SweepInv == sweeping # NULL =>
    /\ sweeping \subseteq PageIds
    /\ \A i \in sweeping : pages[i] # Unborn /\ (Live(pages, i) => IsDecayable(i))

\* The hits of a search, and the pages it may still meet.
Known(i) == i \in search.seen \/ i \notin search.born
Searches == [step : {"vectors", "graph", "reinforce"}, ws : WorkspaceIds, proj : ProjectIds,
             hits : SUBSET PageIds, seen : SUBSET PageIds, born : SUBSET PageIds]
SearchInv == search # NoSearch =>
    /\ search \in Searches
    /\ \A i \in search.born : pages[i] # Unborn
    /\ \A i \in search.hits : /\ pages[i] # Unborn /\ Known(i)
                              /\ Live(pages, i) => pages[i].proj = search.proj
    /\ \A i \in PageIds : Live(pages, i) /\ pages[i].latest /\ pages[i].proj = search.proj => Known(i)

IInv ==
    /\ ScopesTypeOK
    /\ VersionsInv(pages) /\ Filed(pages) /\ LinksInv(pages, links)
    /\ VectorsInv /\ SweepInv /\ SearchInv

-----------------------------------------------------------------------------
(* Rows and ids.                                                            *)

LEMMA RowTypes ==
  ASSUME NEW pgs, PagesType(pgs), NEW i, Live(pgs, i)
  PROVE  /\ i \in PageIds /\ i \in Nat /\ i # NoPage /\ pgs[i] \in PageRows
         /\ pgs[i].ws \in WorkspaceIds /\ pgs[i].proj \in ProjectIds /\ pgs[i].path \in Paths
         /\ pgs[i].content \in Contents /\ pgs[i].latest \in BOOLEAN
         /\ pgs[i].supersedes \in 0..MaxPages /\ pgs[i].evicted \in {"no", "recent", "old"}
<1>1. i \in PageIds /\ pgs[i] \in PageRows
  BY DEF Live, PagesType
<1>2. i \in Nat /\ i # NoPage
  BY <1>1 DEF PageIds, NoPage
<1>3. QED
  BY <1>1, <1>2 DEF PageRows

LEMMA RowsAreLive ==
  /\ \A i : i \in Rows <=> Live(pages, i)
  /\ \A i : i \in LatestRows <=> Live(pages, i) /\ pages[i].latest
  /\ \A i \in PageRows : i \notin {Unborn, Gone}
  BY RowsAssumption DEF Rows, LatestRows, Live

LEMMA NextId ==
  ASSUME NEW pgs, VersionsInv(pgs), HasRoom(pgs, 1)
  PROVE  /\ NextPageId(pgs) \in PageIds
         /\ pgs[NextPageId(pgs)] = Unborn
         /\ \A i \in PageIds : pgs[i] # Unborn <=> i < NextPageId(pgs)
<1>1. PICK n \in 0..MaxPages : \A i \in PageIds : pgs[i] = Unborn <=> i > n
  BY DEF VersionsInv, Drawn
<1>2. PICK k \in PageIds : pgs[k] = Unborn
  BY DEF HasRoom
<1>3. n + 1 \in PageIds /\ n + 1 > n
  BY <1>1, <1>2, PagesAssumption DEF PageIds
<1>4. pgs[n + 1] = Unborn /\ \A j \in 1..n : pgs[j] # Unborn
  BY <1>1, <1>3, PagesAssumption DEF PageIds
<1>5. (n + 1) - 1 = n
  OBVIOUS
<1> DEFINE First(i) == pgs[i] = Unborn /\ \A j \in 1..(i - 1) : pgs[j] # Unborn
<1>6. First(n + 1)
  BY <1>4, <1>5
<1>7. NextPageId(pgs) = CHOOSE i \in PageIds : First(i)
  BY DEF NextPageId
<1> HIDE DEF First
<1>8. NextPageId(pgs) \in PageIds /\ First(NextPageId(pgs))
  BY <1>3, <1>6, <1>7
<1> USE DEF First
<1>9. ASSUME NEW i \in PageIds
      PROVE  pgs[i] # Unborn <=> i < NextPageId(pgs)
  <2>1. i < NextPageId(pgs) => i \in 1..(NextPageId(pgs) - 1)
    BY <1>8 DEF PageIds
  <2>2. NextPageId(pgs) > n
    BY <1>1, <1>8
  <2>3. pgs[i] # Unborn => i <= n
    BY <1>1 DEF PageIds
  <2>4. QED
    BY <1>8, <2>1, <2>2, <2>3 DEF PageIds
<1>10. QED
  BY <1>8, <1>9

\* The latest version of a path is the one there is.
LEMMA LatestOfPath ==
  ASSUME NEW pgs, VersionsInv(pgs), NEW w, NEW p, NEW path
  PROVE  LET j == LatestOf(pgs, w, p, path)
             Found(i) == /\ Live(pgs, i) /\ pgs[i].latest
                         /\ pgs[i].ws = w /\ pgs[i].proj = p /\ pgs[i].path = path
         IN /\ j # NoPage => Found(j)
            /\ \A i : Found(i) => j = i
<1> DEFINE found == {i \in LiveIn(pgs) : /\ pgs[i].ws = w /\ pgs[i].proj = p
                                        /\ pgs[i].path = path /\ pgs[i].latest}
           Found(i) == /\ Live(pgs, i) /\ pgs[i].latest
                       /\ pgs[i].ws = w /\ pgs[i].proj = p /\ pgs[i].path = path
           j == LatestOf(pgs, w, p, path)
<1>1. \A i : i \in found <=> Found(i)
  BY DEF LiveIn, Live
<1>2. j = IF found = {} THEN NoPage ELSE CHOOSE i \in found : TRUE
  BY DEF LatestOf
<1> HIDE DEF found, j
<1>3. found # {} => j \in found
  BY <1>2
<1>4. j # NoPage => Found(j)
  BY <1>1, <1>2, <1>3
<1>5. ASSUME NEW i, Found(i)
      PROVE  j = i
  <2>1. j \in found
    BY <1>1, <1>3, <1>5
  <2>2. Found(j)
    BY <1>1, <2>1
  <2>3. i \in PageIds /\ j \in PageIds
    BY <1>5, <2>2 DEF Live
  <2>4. i <= j /\ j <= i
    BY <1>5, <2>2, <2>3 DEF VersionsInv, LatestIsNewest, OnPath
  <2>5. QED
    BY <2>3, <2>4 DEF PageIds
<1>6. QED
  BY <1>4, <1>5 DEF j

-----------------------------------------------------------------------------
(* What a write does to the rows.                                           *)

PageInputs == [ws : WorkspaceIds, proj : ProjectIds, path : Paths, content : Contents]

NewRow(page, old) ==
    [ws |-> page.ws, proj |-> page.proj, path |-> page.path,
     content |-> page.content, latest |-> TRUE, supersedes |-> old,
     evicted |-> "no", accessed |-> FALSE, warm |-> TRUE]
Before(pgs, page) == LatestOf(pgs, page.ws, page.proj, page.path)
Retired(pgs, old) == IF old = NoPage THEN pgs ELSE [pgs EXCEPT ![old].latest = FALSE]
WithRow(pgs, page) ==
    [Retired(pgs, Before(pgs, page)) EXCEPT ![NextPageId(pgs)] = NewRow(page, Before(pgs, page))]

\* Row id is new, its predecessor is retired, and the others stay.
Added(q, page, old, id) ==
    /\ q[id].ws = page.ws /\ q[id].proj = page.proj /\ q[id].path = page.path
    /\ q[id].latest = TRUE /\ q[id].supersedes = old /\ q[id].evicted = "no"
SameVersion(pgs, q, i) ==
    /\ q[i].ws = pgs[i].ws /\ q[i].proj = pgs[i].proj /\ q[i].path = pgs[i].path
    /\ q[i].content = pgs[i].content /\ q[i].supersedes = pgs[i].supersedes
    /\ q[i].evicted = pgs[i].evicted
Precedes(pgs, page, old, id) ==
    old # NoPage => /\ Live(pgs, old) /\ pgs[old].latest /\ old < id
                    /\ pgs[old].proj = page.proj /\ pgs[old].path = page.path
RowAdded(pgs, q, page, old, id) ==
    /\ PagesType(q)
    /\ id \in PageIds /\ pgs[id] = Unborn /\ Live(q, id) /\ Added(q, page, old, id)
    /\ \A i \in PageIds : q[i] # Unborn <=> i <= id
    /\ \A i \in PageIds : i # id => (Live(q, i) <=> Live(pgs, i))
    /\ \A i \in PageIds : Live(pgs, i) =>
           SameVersion(pgs, q, i) /\ q[i].latest = (pgs[i].latest /\ i # old)
    /\ Precedes(pgs, page, old, id)
    /\ \A i \in PageIds : Live(pgs, i) /\ pgs[i].latest /\ pgs[i].proj = page.proj
                          /\ pgs[i].path = page.path => i = old

LEMMA NewRowType ==
  ASSUME NEW page \in PageInputs, NEW old \in 0..MaxPages
  PROVE  NewRow(page, old) \in PageRows
  BY DEF NewRow, PageRows, PageInputs

LEMMA WriteAddsRow ==
  ASSUME NEW pgs, VersionsInv(pgs), Filed(pgs), HasRoom(pgs, 1),
         NEW page \in PageInputs, Fits(page)
  PROVE  RowAdded(pgs, WithRow(pgs, page), page, Before(pgs, page), NextPageId(pgs))
<1> DEFINE old == Before(pgs, page)
           id == NextPageId(pgs)
           r == Retired(pgs, old)
           q == WithRow(pgs, page)
           row == NewRow(page, old)
<1>1. /\ id \in PageIds /\ pgs[id] = Unborn
      /\ \A i \in PageIds : pgs[i] # Unborn <=> i < id
  BY NextId
<1>2. /\ old # NoPage => /\ Live(pgs, old) /\ pgs[old].latest
                         /\ pgs[old].ws = page.ws /\ pgs[old].proj = page.proj /\ pgs[old].path = page.path
      /\ \A i : Live(pgs, i) /\ pgs[i].latest /\ pgs[i].ws = page.ws
                /\ pgs[i].proj = page.proj /\ pgs[i].path = page.path => old = i
  BY LatestOfPath DEF Before
<1>3. PagesType(pgs)
  BY DEF VersionsInv
<1>4. q = [r EXCEPT ![id] = row]
  BY DEF WithRow
<1> HIDE DEF id, old
<1>5. old \in 0..MaxPages
  BY <1>2, PagesAssumption DEF Live, PageIds, NoPage
<1>6. row \in PageRows
  BY <1>5, NewRowType
<1>7. old # NoPage => /\ old \in PageIds /\ pgs[old] \in PageRows /\ old < id /\ old # id
  BY <1>1, <1>2, <1>3, RowTypes DEF Live, PageIds
<1>8. /\ r \in [PageIds -> PageRows \cup {Unborn, Gone}]
      /\ \A i \in PageIds : r[i] = IF i = old THEN [pgs[i] EXCEPT !.latest = FALSE] ELSE pgs[i]
      /\ old # NoPage => r[old] \in PageRows
  <2>1. CASE old = NoPage
    <3>1. \A i \in PageIds : i # old
      BY <2>1 DEF PageIds, NoPage
    <3>2. QED
      BY <2>1, <3>1, <1>3 DEF Retired, PagesType
  <2>2. CASE old # NoPage
    <3>1. r = [pgs EXCEPT ![old] = [pgs[old] EXCEPT !.latest = FALSE]]
      BY <2>2 DEF Retired
    <3>2. [pgs[old] EXCEPT !.latest = FALSE] \in PageRows
      BY <2>2, <1>7 DEF PageRows
    <3> HIDE DEF r
    <3>3. QED
      BY <2>2, <3>1, <3>2, <1>7, <1>3 DEF PagesType
  <2>3. QED
    BY <2>1, <2>2
<1> HIDE DEF r, row
<1>9. /\ q \in [PageIds -> PageRows \cup {Unborn, Gone}]
      /\ q[id] = row
      /\ \A i \in PageIds : i # id => q[i] = r[i]
  BY <1>1, <1>4, <1>6, <1>8
<1> HIDE DEF q
<1>10. Live(q, id) /\ Added(q, page, old, id)
  <2>1. q[id] \notin {Unborn, Gone}
    BY <1>6, <1>9, RowsAssumption
  <2>2. QED
    BY <2>1, <1>1, <1>9 DEF Live, Added, row, NewRow
<1>11. ASSUME NEW i \in PageIds, i # id
       PROVE  /\ Live(q, i) <=> Live(pgs, i)
              /\ q[i] # Unborn <=> pgs[i] # Unborn
  <2>1. CASE i = old
    BY <2>1, <1>2, <1>8, <1>9, <1>11, <1>7, RowsAssumption DEF Live, PageIds, NoPage
  <2>2. CASE i # old
    BY <2>2, <1>8, <1>9, <1>11 DEF Live
  <2>3. QED
    BY <2>1, <2>2
<1>12. ASSUME NEW i \in PageIds
       PROVE  q[i] # Unborn <=> i <= id
  BY <1>1, <1>9, <1>10, <1>11 DEF Live, PageIds
<1>13. ASSUME NEW i \in PageIds, Live(pgs, i)
       PROVE  SameVersion(pgs, q, i) /\ q[i].latest = (pgs[i].latest /\ i # old)
  <2>1. i # id /\ pgs[i] \in PageRows /\ pgs[i].latest \in BOOLEAN
    BY <1>1, <1>13, <1>3, RowTypes DEF Live
  <2>2. q[i] = IF i = old THEN [pgs[i] EXCEPT !.latest = FALSE] ELSE pgs[i]
    BY <2>1, <1>8, <1>9
  <2>3. SameVersion(pgs, q, i)
    BY <2>1, <2>2 DEF SameVersion, PageRows
  <2>4. CASE i = old
    <3>1. q[i].latest = FALSE
      BY <2>1, <2>2, <2>4 DEF PageRows
    <3>2. QED
      BY <2>3, <2>4, <3>1
  <2>5. CASE i # old
    BY <2>1, <2>2, <2>3, <2>5
  <2>6. QED
    BY <2>4, <2>5
<1>14. \A i \in PageIds : Live(pgs, i) /\ pgs[i].latest /\ pgs[i].proj = page.proj
                          /\ pgs[i].path = page.path => i = old
  BY <1>2 DEF Filed, Fits, ProjectInWorkspace
<1>15. Precedes(pgs, page, old, id)
  BY <1>2, <1>7 DEF Precedes
<1>16. PagesType(q)
  BY <1>9 DEF PagesType
<1>17. RowAdded(pgs, q, page, old, id)
  BY <1>1, <1>10, <1>11, <1>12, <1>13, <1>14, <1>15, <1>16 DEF RowAdded
<1>18. QED
  BY <1>17 DEF q, old, id

\* No id comes back, and a row keeps its project, its path and its content.
Onward(pgs, q) == \A i \in PageIds : pgs[i] # Unborn =>
    /\ q[i] # Unborn
    /\ Live(q, i) => /\ Live(pgs, i) /\ q[i].proj = pgs[i].proj
                     /\ q[i].path = pgs[i].path /\ q[i].content = pgs[i].content
                     /\ q[i].latest => pgs[i].latest

LEMMA AddedVersions ==
  ASSUME NEW pgs, VersionsInv(pgs), Filed(pgs), NEW page \in PageInputs, Fits(page),
         NEW q, NEW old, NEW id, RowAdded(pgs, q, page, old, id)
  PROVE  VersionsInv(q) /\ Filed(q) /\ Onward(pgs, q)
<1>1. /\ PagesType(q) /\ PagesType(pgs)
      /\ id \in PageIds /\ pgs[id] = Unborn /\ Live(q, id) /\ Added(q, page, old, id)
      /\ \A i \in PageIds : q[i] # Unborn <=> i <= id
      /\ \A i \in PageIds : i # id => (Live(q, i) <=> Live(pgs, i))
      /\ \A i \in PageIds : Live(pgs, i) =>
             SameVersion(pgs, q, i) /\ q[i].latest = (pgs[i].latest /\ i # old)
      /\ Precedes(pgs, page, old, id)
      /\ \A i \in PageIds : Live(pgs, i) /\ pgs[i].latest /\ pgs[i].proj = page.proj
                            /\ pgs[i].path = page.path => i = old
  BY DEF RowAdded, VersionsInv
<1>2. \A i \in PageIds : i \in Nat /\ (Live(q, i) => i <= id)
  BY <1>1 DEF PageIds, Live
<1>3. ASSUME NEW i \in PageIds, Live(q, i), i # id
      PROVE  Live(pgs, i) /\ SameVersion(pgs, q, i) /\ q[i].latest = (pgs[i].latest /\ i # old)
  BY <1>1, <1>3
<1>4. Drawn(q)
  <2>1. id \in 0..MaxPages /\ \A i \in PageIds : q[i] = Unborn <=> i > id
    BY <1>1, <1>2 DEF PageIds
  <2>2. QED
    BY <2>1 DEF Drawn
<1>5. LatestIsNewest(q)
  <2> SUFFICES ASSUME NEW i \in PageIds, NEW j \in PageIds, Live(q, i), Live(q, j),
                      q[i].latest, OnPath(q, i, j)
               PROVE  j <= i
    BY DEF LatestIsNewest
  <2>1. CASE i = id
    BY <2>1, <1>2
  <2>2. CASE i # id /\ j = id
    <3>1. Live(pgs, i) /\ pgs[i].latest /\ i # old /\ pgs[i].proj = page.proj /\ pgs[i].path = page.path
      BY <2>2, <1>1, <1>3 DEF OnPath, Added, SameVersion
    <3>2. QED
      BY <3>1, <1>1
  <2>3. CASE i # id /\ j # id
    <3>1. Live(pgs, i) /\ Live(pgs, j) /\ pgs[i].latest /\ OnPath(pgs, i, j)
      BY <2>3, <1>3 DEF OnPath, SameVersion
    <3>2. QED
      BY <3>1 DEF VersionsInv, LatestIsNewest
  <2>4. QED
    BY <2>1, <2>2, <2>3
<1>6. LatestIsKept(q)
  <2> SUFFICES ASSUME NEW i \in PageIds, Live(q, i), q[i].latest PROVE q[i].evicted = "no"
    BY DEF LatestIsKept
  <2>1. CASE i = id
    BY <2>1, <1>1 DEF Added
  <2>2. CASE i # id
    BY <2>2, <1>3 DEF LatestIsKept, VersionsInv, SameVersion
  <2>3. QED
    BY <2>1, <2>2
<1>7. Chained(q)
  <2> SUFFICES ASSUME NEW i \in PageIds, Live(q, i), q[i].supersedes # NoPage
               PROVE  ChainedTo(q, i, q[i].supersedes)
    BY DEF Chained
  <2>1. CASE i = id
    <3>1. q[i].supersedes = old /\ old # NoPage /\ old < id /\ Live(pgs, old)
          /\ pgs[old].proj = page.proj /\ pgs[old].path = page.path /\ pgs[old].latest
      BY <2>1, <1>1 DEF Added, Precedes
    <3>2. old \in PageIds /\ SameVersion(pgs, q, old) /\ q[old].latest = FALSE /\ old # id
      BY <3>1, <1>1, <1>2 DEF Live
    <3>3. Live(q, old) /\ q[old].evicted = "no"
      BY <3>1, <3>2, <1>1 DEF SameVersion, VersionsInv, LatestIsKept
    <3>4. QED
      BY <2>1, <3>1, <3>2, <3>3, <1>1 DEF ChainedTo, OnPath, Added, SameVersion
  <2>2. CASE i # id
    <3> DEFINE s == pgs[i].supersedes
    <3>1. Live(pgs, i) /\ q[i].supersedes = s /\ s # NoPage /\ SameVersion(pgs, q, i)
      BY <2>2, <1>3 DEF SameVersion
    <3>2. ChainedTo(pgs, i, s)
      BY <3>1 DEF VersionsInv, Chained
    <3>3. s \in PageIds /\ Live(pgs, s) /\ s # id /\ SameVersion(pgs, q, s) /\ q[s].latest = FALSE
      BY <3>2, <1>1 DEF ChainedTo, Live
    <3>4. Live(q, s)
      BY <3>3, <1>1
    <3>5. QED
      BY <3>1, <3>2, <3>3, <3>4 DEF ChainedTo, OnPath, SameVersion
  <2>3. QED
    BY <2>1, <2>2
<1>8. Filed(q)
  <2> SUFFICES ASSUME NEW i \in PageIds, Live(q, i) PROVE ProjectInWorkspace(q[i].ws, q[i].proj)
    BY DEF Filed
  <2>1. CASE i = id
    BY <2>1, <1>1 DEF Added, Fits
  <2>2. CASE i # id
    BY <2>2, <1>3 DEF SameVersion, Filed
  <2>3. QED
    BY <2>1, <2>2
<1>9. Onward(pgs, q)
  <2> SUFFICES ASSUME NEW i \in PageIds, pgs[i] # Unborn
               PROVE  /\ q[i] # Unborn
                      /\ Live(q, i) => /\ Live(pgs, i) /\ q[i].proj = pgs[i].proj
                                       /\ q[i].path = pgs[i].path /\ q[i].content = pgs[i].content
                                       /\ q[i].latest => pgs[i].latest
    BY DEF Onward
  <2>1. i # id
    BY <1>1
  <2>2. q[i] # Unborn
    <3>1. CASE Live(pgs, i)
      BY <3>1, <2>1, <1>1 DEF Live
    <3>2. CASE ~Live(pgs, i)
      <4>1. PICK n \in 0..MaxPages : \A k \in PageIds : pgs[k] = Unborn <=> k > n
        BY DEF VersionsInv, Drawn
      <4>2. i <= n /\ id > n
        BY <4>1, <1>1, <1>2
      <4>3. QED
        BY <4>2, <1>1, <1>2
    <3>3. QED
      BY <3>1, <3>2
  <2>3. QED
    BY <2>1, <2>2, <1>3 DEF SameVersion
<1>10. QED
  BY <1>1, <1>4, <1>5, <1>6, <1>7, <1>8, <1>9 DEF VersionsInv

-----------------------------------------------------------------------------
(* What a write does to the links.                                          *)

LEMMA Resolved ==
  ASSUME ScopesTypeOK, NEW pgs, VersionsInv(pgs), NEW w, NEW p, ProjectInWorkspace(w, p),
         NEW l \in LinkTargets
  PROVE  LET to == latest_page_id_for_link(pgs, w, p, l) IN
         /\ to = NoPage \/ Live(pgs, to)
         /\ l.proj = NULL => to = LatestOf(pgs, w, p, l.path)
<1> DEFINE target == LinkProject(w, p, l)
           q == CHOOSE q \in target : TRUE
           to == latest_page_id_for_link(pgs, w, p, l)
<1>1. to = IF target = {} THEN NoPage ELSE LatestOf(pgs, projects[q].ws, q, l.path)
  BY DEF latest_page_id_for_link
<1>2. \A v, r, path : LatestOf(pgs, v, r, path) = NoPage \/ Live(pgs, LatestOf(pgs, v, r, path))
  BY LatestOfPath
<1>3. to = NoPage \/ Live(pgs, to)
  BY <1>1, <1>2
<1>4. ASSUME l.proj = NULL
      PROVE  to = LatestOf(pgs, w, p, l.path)
  <2>1. target = {p}
    BY <1>4 DEF LinkProject
  <2>2. q = p
    BY <2>1
  <2>3. projects[p].ws = w
    BY DEF ProjectInWorkspace
  <2>4. QED
    BY <1>1, <2>1, <2>2, <2>3
<1>5. QED
  BY <1>3, <1>4

\* A link of a new version, before the refresh.
NewLink(pgs, id, l) ==
    [from |-> id, ws |-> l.ws, proj |-> l.proj, path |-> l.path,
     to |-> latest_page_id_for_link(pgs, pgs[id].ws, pgs[id].proj, l)]

LEMMA NewLinkHolds ==
  ASSUME ScopesTypeOK, NEW pgs, VersionsInv(pgs), Filed(pgs), NEW id, Live(pgs, id),
         NEW l \in LinksOf(pgs[id].content)
  PROVE  LinkInv(pgs, NewLink(pgs, id, l))
<1> DEFINE k == NewLink(pgs, id, l)
           to == latest_page_id_for_link(pgs, pgs[id].ws, pgs[id].proj, l)
<1>1. PagesType(pgs)
  BY DEF VersionsInv
<1>2. l \in LinkTargets /\ id \in PageIds
  BY <1>1, RowTypes, PagesAssumption
<1>3. ProjectInWorkspace(pgs[id].ws, pgs[id].proj)
  BY <1>2 DEF Filed
<1>4. /\ to = NoPage \/ Live(pgs, to)
      /\ l.proj = NULL => to = LatestOf(pgs, pgs[id].ws, pgs[id].proj, l.path)
  BY <1>2, <1>3, Resolved
<1>5. k.from = id /\ k.ws = l.ws /\ k.proj = l.proj /\ k.path = l.path /\ k.to = to
  BY DEF NewLink
<1>6. to \in 0..MaxPages
  BY <1>4, PagesAssumption DEF Live, PageIds, NoPage
<1>7. k \in LinkRows
  BY <1>2, <1>6 DEF NewLink, LinkRows, LinkTargets
<1> HIDE DEF k, to
<1>8. Ends(pgs, k)
  BY <1>4, <1>5 DEF Ends
<1>9. ASSUME k.proj = NULL
      PROVE  Follows(pgs, k)
  <2> DEFINE Found(i) == /\ Live(pgs, i) /\ pgs[i].latest /\ pgs[i].ws = pgs[id].ws
                         /\ pgs[i].proj = pgs[id].proj /\ pgs[i].path = l.path
  <2>1. to # NoPage => Found(to)
    BY <1>4, <1>5, <1>9, LatestOfPath
  <2>2. \A i : Found(i) => to = i
    BY <1>4, <1>5, <1>9, LatestOfPath
  <2>3. to # NoPage => OnLink(pgs, k, to)
    BY <2>1, <1>5 DEF OnLink
  <2>4. ASSUME NEW i \in PageIds, OnLink(pgs, k, i)
        PROVE  /\ k.to # NoPage => i <= k.to
               /\ pgs[i].latest => k.to = i
    <3>1. Live(pgs, i) /\ pgs[i].proj = pgs[id].proj /\ pgs[i].path = l.path
      BY <2>4, <1>5 DEF OnLink
    <3>2. to # NoPage => i <= to
      BY <3>1, <2>1 DEF VersionsInv, LatestIsNewest, OnPath, Live
    <3>3. pgs[i].ws = pgs[id].ws
      BY <3>1, <1>3 DEF Filed, ProjectInWorkspace
    <3>4. pgs[i].latest => to = i
      BY <3>1, <3>3, <2>2
    <3>5. QED
      BY <3>2, <3>4, <1>5
  <2>5. QED
    BY <2>3, <2>4, <1>5 DEF Follows
<1>10. QED
  BY <1>7, <1>8, <1>9 DEF LinkInv, k

\* Whether the refresh moves a link to row id.
Incoming(pgs, id, l) ==
    /\ l.path = pgs[id].path
    /\ \/ l.proj = NULL /\ pgs[l.from].proj = pgs[id].proj /\ pgs[l.from].ws = pgs[id].ws
       \/ /\ l.proj = projects[pgs[id].proj].name
          /\ \/ l.ws = workspaces[pgs[id].ws]
             \/ l.ws = NULL /\ pgs[l.from].ws = pgs[id].ws
Moved(pgs, id, l) == IF Incoming(pgs, id, l) THEN [l EXCEPT !.to = id] ELSE l

LEMMA RefreshMoves ==
  ASSUME NEW pgs, NEW lks, NEW id
  PROVE  refresh_incoming_links(pgs, lks, id) = {Moved(pgs, id, l) : l \in lks}
  BY DEF refresh_incoming_links, Moved, Incoming

\* A link of an older version that the new row does not take over.
LEMMA OldLinkHolds ==
  ASSUME NEW pgs, VersionsInv(pgs), NEW page, NEW q, VersionsInv(q), Filed(q), NEW old, NEW id,
         RowAdded(pgs, q, page, old, id), NEW l, LinkInv(pgs, l), ~Incoming(q, id, l)
  PROVE  LinkInv(q, l)
<1>1. /\ id \in PageIds /\ pgs[id] = Unborn /\ Added(q, page, old, id) /\ Live(q, id)
      /\ \A i \in PageIds : i # id => (Live(q, i) <=> Live(pgs, i))
      /\ \A i \in PageIds : Live(pgs, i) =>
             SameVersion(pgs, q, i) /\ q[i].latest = (pgs[i].latest /\ i # old)
      /\ Precedes(pgs, page, old, id)
  BY DEF RowAdded
<1>2. /\ Live(pgs, l.from) /\ Live(q, l.from) /\ SameVersion(pgs, q, l.from)
      /\ l.to # NoPage => Live(pgs, l.to) /\ Live(q, l.to) /\ SameVersion(pgs, q, l.to)
  BY <1>1 DEF LinkInv, Ends, Live
<1>3. ASSUME l.proj = NULL
      PROVE  Follows(q, l)
  <2>1. ASSUME q[id].proj = q[l.from].proj, q[id].path = l.path
        PROVE  FALSE
    <3>1. q[id].ws = q[l.from].ws
      BY <1>1, <1>2, <2>1 DEF Filed, ProjectInWorkspace, Live
    <3>2. QED
      BY <1>3, <2>1, <3>1 DEF Incoming
  <2>2. ASSUME NEW i \in PageIds, OnLink(q, l, i)
        PROVE  i # id /\ i # old /\ OnLink(pgs, l, i) /\ q[i].latest = pgs[i].latest
    <3>1. i # id
      BY <2>1, <2>2 DEF OnLink
    <3>2. Live(pgs, i) /\ SameVersion(pgs, q, i) /\ q[i].latest = (pgs[i].latest /\ i # old)
      BY <3>1, <2>2, <1>1 DEF OnLink
    <3>3. OnLink(pgs, l, i)
      BY <3>2, <2>2, <1>2 DEF OnLink, SameVersion
    <3>4. i # old
      <4>1. SUFFICES ASSUME i = old PROVE FALSE
        OBVIOUS
      <4>2. i # NoPage
        BY DEF PageIds, NoPage
      <4>3. pgs[old].proj = page.proj /\ pgs[old].path = page.path
        BY <4>1, <4>2, <1>1 DEF Precedes
      <4>4. q[id].proj = q[l.from].proj /\ q[id].path = l.path
        BY <4>1, <4>3, <3>3, <1>1, <1>2 DEF Added, OnLink, SameVersion
      <4>5. QED
        BY <4>4, <2>1
    <3>5. pgs[i].latest \in BOOLEAN
      BY <3>2, RowTypes DEF VersionsInv
    <3>6. QED
      BY <3>1, <3>2, <3>3, <3>4, <3>5
  <2>3. Follows(pgs, l)
    BY <1>3 DEF LinkInv
  <2>4. l.to # NoPage => OnLink(q, l, l.to)
    BY <2>3, <1>2 DEF Follows, OnLink, SameVersion
  <2>5. QED
    BY <2>2, <2>3, <2>4 DEF Follows
<1>4. QED
  BY <1>2, <1>3 DEF LinkInv, Ends

\* A link the new row takes over.
LEMMA MovedLinkHolds ==
  ASSUME ScopesTypeOK, NEW q, VersionsInv(q), Filed(q), NEW id, Live(q, id), q[id].latest,
         \A i \in PageIds : Live(q, i) => i <= id,
         NEW l \in LinkRows, Live(q, l.from), Incoming(q, id, l)
  PROVE  LinkInv(q, [l EXCEPT !.to = id])
<1> DEFINE k == [l EXCEPT !.to = id]
<1>1. id \in PageIds /\ id \in 0..MaxPages
  BY DEF Live, PageIds
<1>2. /\ k \in LinkRows /\ k.from = l.from /\ k.proj = l.proj /\ k.path = l.path /\ k.to = id
      /\ l.ws = k.ws
  BY <1>1 DEF LinkRows
<1> HIDE DEF k
<1>3. Ends(q, k)
  BY <1>2 DEF Ends
<1>4. ASSUME k.proj = NULL
      PROVE  Follows(q, k)
  <2>1. projects[q[id].proj].name # NULL
    <3>1. q[id].proj \in LiveProjects
      BY <1>1 DEF Filed, ProjectInWorkspace
    <3>2. projects[q[id].proj] \in ProjectRows
      BY <3>1 DEF LiveProjects, ScopesTypeOK
    <3>3. QED
      BY <3>2, NamesAssumption DEF ProjectRows
  <2>2. q[l.from].proj = q[id].proj /\ l.path = q[id].path
    BY <2>1, <1>2, <1>4 DEF Incoming
  <2>3. OnLink(q, k, id)
    BY <2>2, <1>2 DEF OnLink
  <2>4. ASSUME NEW i \in PageIds, OnLink(q, k, i)
        PROVE  i <= id /\ (q[i].latest => id = i)
    <3>1. Live(q, i) /\ OnPath(q, i, id)
      BY <2>2, <2>4, <1>2 DEF OnLink, OnPath
    <3>2. i <= id
      BY <3>1
    <3>3. q[i].latest => id <= i
      BY <3>1, <1>1 DEF VersionsInv, LatestIsNewest
    <3>4. QED
      BY <3>2, <3>3, <1>1 DEF PageIds
  <2>5. QED
    BY <2>3, <2>4, <1>2 DEF Follows
<1>5. QED
  BY <1>2, <1>3, <1>4 DEF LinkInv, k

LEMMA AddedLinks ==
  ASSUME ScopesTypeOK, NEW pgs, VersionsInv(pgs), NEW page, NEW q, VersionsInv(q), Filed(q),
         NEW old, NEW id, RowAdded(pgs, q, page, old, id), NEW lks, LinksInv(pgs, lks)
  PROVE  LinksInv(q, refresh_incoming_links(q, replace_links(q, lks, id), id))
<1>1. /\ id \in PageIds /\ pgs[id] = Unborn /\ Live(q, id) /\ q[id].latest
      /\ \A i \in PageIds : q[i] # Unborn <=> i <= id
  BY DEF RowAdded, Added
<1>2. \A i \in PageIds : Live(q, i) => i <= id
  BY <1>1 DEF Live
<1> SUFFICES ASSUME NEW l \in replace_links(q, lks, id)
             PROVE  LinkInv(q, Moved(q, id, l))
  BY RefreshMoves DEF LinksInv
<1>3. CASE l \in lks
  <2>1. LinkInv(pgs, l) /\ Live(pgs, l.from)
    BY <1>3 DEF LinksInv, LinkInv, Ends
  <2>2. Live(q, l.from)
    BY <2>1, <1>1 DEF RowAdded, Live
  <2>3. CASE Incoming(q, id, l)
    BY <2>1, <2>2, <2>3, <1>1, <1>2, MovedLinkHolds DEF Moved, LinkInv
  <2>4. CASE ~Incoming(q, id, l)
    BY <2>1, <2>4, OldLinkHolds DEF Moved
  <2>5. QED
    BY <2>3, <2>4
<1>4. CASE l \notin lks
  <2>1. PICK k \in LinksOf(q[id].content) : l = NewLink(q, id, k)
    BY <1>4 DEF replace_links, NewLink
  <2>2. LinkInv(q, l)
    BY <2>1, <1>1, NewLinkHolds
  <2>3. CASE Incoming(q, id, l)
    BY <2>2, <2>3, <1>1, <1>2, MovedLinkHolds DEF Moved, LinkInv, Ends
  <2>4. QED
    BY <2>2, <2>3 DEF Moved
<1>5. QED
  BY <1>3, <1>4

-----------------------------------------------------------------------------
(* A write as a whole, and a batch.                                         *)

TablesInv(db) == VersionsInv(db.pages) /\ Filed(db.pages) /\ LinksInv(db.pages, db.links)

LEMMA OnwardTrans ==
  ASSUME NEW a, NEW b, NEW c, Onward(a, b), Onward(b, c)
  PROVE  Onward(a, c)
  BY DEF Onward, Live

LEMMA OnwardSelf == \A a : Onward(a, a)
  BY DEF Onward

\* The version the writer compares with keeps its row, retired or not.
Outlives(pgs, q) == \A i \in PageIds : Live(pgs, i) => Live(q, i) /\ q[i].evicted = pgs[i].evicted

LEMMA WriteKeeps ==
  ASSUME ScopesTypeOK, NEW db, TablesInv(db), HasRoom(db.pages, 1),
         NEW page \in PageInputs, Fits(page)
  PROVE  LET r == upsert_page_in_tx(db, page) IN
         /\ TablesInv(r) /\ Onward(db.pages, r.pages) /\ Outlives(db.pages, r.pages)
         /\ HasRoom(db.pages, 2) => HasRoom(r.pages, 1)
<1> DEFINE old == Before(db.pages, page)
           id == NextPageId(db.pages)
           q == WithRow(db.pages, page)
           new == [pages |-> q, links |-> refresh_incoming_links(q, replace_links(q, db.links, id), id)]
           r == upsert_page_in_tx(db, page)
<1>1. r = db \/ r = new
  BY DEF upsert_page_in_tx, WithRow, Retired, Before, NewRow
<1>2. VersionsInv(db.pages) /\ Filed(db.pages) /\ LinksInv(db.pages, db.links)
  BY DEF TablesInv
<1>3. RowAdded(db.pages, q, page, old, id)
  BY <1>2, WriteAddsRow
<1> HIDE DEF old, q
<1>4. VersionsInv(q) /\ Filed(q) /\ Onward(db.pages, q)
  BY <1>2, <1>3, AddedVersions
<1>5. new.pages = q /\ new.links = refresh_incoming_links(q, replace_links(q, db.links, id), id)
  OBVIOUS
<1>6. LinksInv(new.pages, new.links)
  BY <1>2, <1>3, <1>4, <1>5, AddedLinks
<1>7. TablesInv(new)
  BY <1>4, <1>5, <1>6 DEF TablesInv
<1>8. Outlives(db.pages, q)
  <2>1. /\ db.pages[id] = Unborn
        /\ \A i \in PageIds : i # id => (Live(q, i) <=> Live(db.pages, i))
        /\ \A i \in PageIds : Live(db.pages, i) => SameVersion(db.pages, q, i)
    BY <1>3 DEF RowAdded
  <2>2. QED
    BY <2>1 DEF Outlives, SameVersion, Live
<1>9. ASSUME HasRoom(db.pages, 2)
      PROVE  HasRoom(q, 1) /\ HasRoom(db.pages, 1)
  <2>1. PICK i \in PageIds : db.pages[i] = Unborn /\ i + 2 - 1 <= MaxPages
    BY <1>9 DEF HasRoom
  <2>2. id \in PageIds /\ ~(i < id)
    BY <1>2, <2>1, NextId
  <2>3. MaxPages \in PageIds /\ ~(MaxPages <= id) /\ MaxPages + 1 - 1 <= MaxPages
    BY <2>1, <2>2, PagesAssumption DEF PageIds
  <2>4. q[MaxPages] = Unborn
    BY <2>3, <1>3 DEF RowAdded
  <2>5. QED
    BY <2>3, <2>4 DEF HasRoom
<1> HIDE DEF new, id, r
<1>10. Outlives(db.pages, db.pages)
  BY DEF Outlives
<1>11. CASE r = db
  BY <1>9, <1>10, <1>11, OnwardSelf DEF r
<1>12. CASE r = new
  BY <1>4, <1>5, <1>7, <1>8, <1>9, <1>12 DEF r
<1>13. QED
  BY <1>1, <1>11, <1>12

-----------------------------------------------------------------------------
(* What a removal leaves.                                                   *)

Left(pgs, gone) ==
    [i \in PageIds |->
        IF i \in gone THEN Gone
        ELSE IF Live(pgs, i) /\ pgs[i].supersedes \in gone
             THEN [pgs[i] EXCEPT !.supersedes = NoPage] ELSE pgs[i]]
LeftLinks(lks, gone) ==
    {IF l.to \in gone THEN [l EXCEPT !.to = NoPage] ELSE l : l \in {k \in lks : k.from \notin gone}}

LEMMA RemovalIs ==
  ASSUME NEW gone, RemoveRows(gone)
  PROVE  /\ pages' = Left(pages, gone) /\ links' = LeftLinks(links, gone)
         /\ embeddings' = [i \in PageIds |-> IF i \in gone THEN NULL ELSE embeddings[i]]
  BY DEF RemoveRows, Left, LeftLinks, Live, Rows

\* Row by row.
LeftRows(pgs, gone, q) ==
    /\ PagesType(q)
    /\ \A i \in PageIds : /\ q[i] = Unborn <=> pgs[i] = Unborn
                          /\ Live(q, i) <=> Live(pgs, i) /\ i \notin gone
    /\ \A i \in PageIds : Live(q, i) =>
           /\ q[i].ws = pgs[i].ws /\ q[i].proj = pgs[i].proj /\ q[i].path = pgs[i].path
           /\ q[i].content = pgs[i].content /\ q[i].evicted = pgs[i].evicted
           /\ q[i].latest = pgs[i].latest
           /\ q[i].supersedes = IF pgs[i].supersedes \in gone THEN NoPage ELSE pgs[i].supersedes

LEMMA RemovalLeaves ==
  ASSUME NEW pgs, PagesType(pgs), NEW gone, \A i \in gone : Live(pgs, i)
  PROVE  LeftRows(pgs, gone, Left(pgs, gone))
<1> DEFINE q == Left(pgs, gone)
<1>1. ASSUME NEW i \in PageIds
      PROVE  /\ q[i] \in PageRows \cup {Unborn, Gone}
             /\ q[i] = Unborn <=> pgs[i] = Unborn
             /\ Live(q, i) <=> Live(pgs, i) /\ i \notin gone
             /\ Live(q, i) =>
                  /\ q[i].ws = pgs[i].ws /\ q[i].proj = pgs[i].proj /\ q[i].path = pgs[i].path
                  /\ q[i].content = pgs[i].content /\ q[i].evicted = pgs[i].evicted
                  /\ q[i].latest = pgs[i].latest
                  /\ q[i].supersedes = IF pgs[i].supersedes \in gone THEN NoPage ELSE pgs[i].supersedes
  <2>1. CASE i \in gone
    <3>1. q[i] = Gone
      BY <2>1 DEF Left
    <3>2. Live(pgs, i)
      BY <2>1
    <3>3. QED
      BY <2>1, <3>1, <3>2, NamesAssumption DEF Live
  <2>2. CASE i \notin gone /\ Live(pgs, i) /\ pgs[i].supersedes \in gone
    <3>1. q[i] = [pgs[i] EXCEPT !.supersedes = NoPage] /\ pgs[i] \in PageRows
      BY <2>2, RowTypes DEF Left
    <3>2. NoPage \in 0..MaxPages
      BY PagesAssumption DEF NoPage
    <3> HIDE DEF q
    <3>3. q[i] \in PageRows
      BY <3>1, <3>2 DEF PageRows
    <3>4. Live(q, i) /\ q[i] # Unborn /\ pgs[i] # Unborn
      BY <3>1, <3>3, <2>2, RowsAssumption DEF Live
    <3>5. /\ q[i].ws = pgs[i].ws /\ q[i].proj = pgs[i].proj /\ q[i].path = pgs[i].path
          /\ q[i].content = pgs[i].content /\ q[i].evicted = pgs[i].evicted
          /\ q[i].latest = pgs[i].latest /\ q[i].supersedes = NoPage
      BY <3>1 DEF PageRows
    <3>6. QED
      BY <2>2, <3>3, <3>4, <3>5
  <2>3. CASE i \notin gone /\ ~(Live(pgs, i) /\ pgs[i].supersedes \in gone)
    <3>1. q[i] = pgs[i]
      BY <2>3 DEF Left
    <3>2. QED
      BY <2>3, <3>1 DEF Live, PagesType
  <2>4. QED
    BY <2>1, <2>2, <2>3
<1>2. q = [i \in PageIds |-> q[i]]
  BY DEF Left
<1> HIDE DEF q
<1>3. PagesType(q)
  BY <1>1, <1>2 DEF PagesType
<1>4. QED
  BY <1>1, <1>3 DEF LeftRows, q

LEMMA RemovalKeeps ==
  ASSUME NEW pgs, VersionsInv(pgs), NEW gone, NEW q, LeftRows(pgs, gone, q)
  PROVE  VersionsInv(q) /\ Onward(pgs, q)
<1>1. /\ PagesType(q) /\ PagesType(pgs)
      /\ \A i \in PageIds : /\ q[i] = Unborn <=> pgs[i] = Unborn
                            /\ Live(q, i) <=> Live(pgs, i) /\ i \notin gone
      /\ \A i \in PageIds : Live(q, i) =>
           /\ q[i].ws = pgs[i].ws /\ q[i].proj = pgs[i].proj /\ q[i].path = pgs[i].path
           /\ q[i].content = pgs[i].content /\ q[i].evicted = pgs[i].evicted
           /\ q[i].latest = pgs[i].latest
           /\ q[i].supersedes = IF pgs[i].supersedes \in gone THEN NoPage ELSE pgs[i].supersedes
  BY DEF LeftRows, VersionsInv
<1>2. Drawn(q)
  BY <1>1 DEF Drawn, VersionsInv
<1>3. LatestIsNewest(q)
  BY <1>1 DEF LatestIsNewest, VersionsInv, OnPath
<1>4. LatestIsKept(q)
  BY <1>1 DEF LatestIsKept, VersionsInv
<1>5. Chained(q)
  <2> SUFFICES ASSUME NEW i \in PageIds, Live(q, i), q[i].supersedes # NoPage
               PROVE  ChainedTo(q, i, q[i].supersedes)
    BY DEF Chained
  <2> DEFINE s == q[i].supersedes
  <2>1. Live(pgs, i) /\ pgs[i].supersedes = s /\ s # NoPage /\ s \notin gone
    BY <1>1
  <2>2. ChainedTo(pgs, i, s)
    BY <2>1 DEF VersionsInv, Chained
  <2>3. s \in PageIds /\ Live(q, s)
    BY <2>1, <2>2, <1>1 DEF ChainedTo, Live
  <2>4. QED
    BY <2>2, <2>3, <1>1 DEF ChainedTo, OnPath
<1>6. Onward(pgs, q)
  BY <1>1 DEF Onward
<1>7. QED
  BY <1>1, <1>2, <1>3, <1>4, <1>5, <1>6 DEF VersionsInv

LEMMA RemovalKeepsLinks ==
  ASSUME NEW pgs, VersionsInv(pgs), NEW gone, NEW q, LeftRows(pgs, gone, q),
         NEW lks, LinksInv(pgs, lks)
  PROVE  LinksInv(q, LeftLinks(lks, gone))
<1>1. /\ \A i \in PageIds : Live(q, i) <=> Live(pgs, i) /\ i \notin gone
      /\ \A i \in PageIds : Live(q, i) =>
           q[i].proj = pgs[i].proj /\ q[i].path = pgs[i].path /\ q[i].latest = pgs[i].latest
  BY DEF LeftRows
<1> SUFFICES ASSUME NEW l \in lks, l.from \notin gone
             PROVE  LinkInv(q, IF l.to \in gone THEN [l EXCEPT !.to = NoPage] ELSE l)
  BY DEF LeftLinks, LinksInv
<1> DEFINE k == IF l.to \in gone THEN [l EXCEPT !.to = NoPage] ELSE l
<1>2. LinkInv(pgs, l) /\ l \in LinkRows
  BY DEF LinksInv, LinkInv
<1>3. /\ k \in LinkRows /\ k.from = l.from /\ k.proj = l.proj /\ k.path = l.path
      /\ k.to = IF l.to \in gone THEN NoPage ELSE l.to
  <2>1. NoPage \in 0..MaxPages
    BY PagesAssumption DEF NoPage
  <2>2. QED
    BY <1>2, <2>1 DEF LinkRows
<1> HIDE DEF k
<1>4. Live(pgs, l.from) /\ Live(q, l.from)
  BY <1>1, <1>2 DEF LinkInv, Ends, Live
<1>5. Ends(q, k)
  BY <1>1, <1>2, <1>3, <1>4 DEF LinkInv, Ends, Live
<1>6. ASSUME k.proj = NULL
      PROVE  Follows(q, k)
  <2>1. Follows(pgs, l)
    BY <1>2, <1>3, <1>6 DEF LinkInv
  <2>2. \A i \in PageIds : OnLink(q, k, i) <=> OnLink(pgs, l, i) /\ i \notin gone
    BY <1>1, <1>3, <1>4 DEF OnLink, Live
  <2>3. k.to # NoPage => OnLink(q, k, k.to)
    BY <2>1, <2>2, <1>3 DEF Follows, OnLink, Live
  <2>4. ASSUME NEW i \in PageIds, OnLink(q, k, i)
        PROVE  /\ k.to # NoPage => i <= k.to
               /\ q[i].latest => k.to = i
    <3>1. OnLink(pgs, l, i) /\ i \notin gone /\ q[i].latest = pgs[i].latest
      BY <2>2, <2>4, <1>1 DEF OnLink
    <3>2. QED
      BY <2>1, <3>1, <1>3 DEF Follows
  <2>5. QED
    BY <2>3, <2>4 DEF Follows
<1>7. QED
  BY <1>3, <1>5, <1>6 DEF LinkInv, k

-----------------------------------------------------------------------------
(* What changes rows in place: moves, reorganisations, decay, reinforcement. *)

\* The row keeps its path, and is latest only if it was; what nothing evicts stays so.
InPlace(old, new) ==
    /\ new.proj = old.proj /\ new.path = old.path /\ new.content = old.content
    /\ new.supersedes = old.supersedes
    /\ new.latest => old.latest /\ new.evicted = old.evicted
    /\ ~old.latest /\ old.evicted = "no" => ~new.latest /\ new.evicted = "no"
Steady(pgs, q) ==
    /\ PagesType(q)
    /\ \A i \in PageIds : IF Live(pgs, i) THEN Live(q, i) /\ InPlace(pgs[i], q[i]) ELSE q[i] = pgs[i]

LEMMA SteadyRows ==
  ASSUME NEW pgs, NEW q, Steady(pgs, q)
  PROVE  \A i \in PageIds : /\ Live(q, i) <=> Live(pgs, i)
                            /\ q[i] = Unborn <=> pgs[i] = Unborn
                            /\ Live(pgs, i) => InPlace(pgs[i], q[i])
  BY DEF Steady, Live

LEMMA SteadyKeeps ==
  ASSUME NEW pgs, VersionsInv(pgs), NEW q, Steady(pgs, q), NEW lks, LinksInv(pgs, lks)
  PROVE  VersionsInv(q) /\ LinksInv(q, lks) /\ Onward(pgs, q)
<1>1. PagesType(q)
  BY DEF Steady
<1>2. Drawn(q)
  BY SteadyRows DEF Drawn, VersionsInv
<1>3. LatestIsNewest(q)
  BY SteadyRows DEF LatestIsNewest, VersionsInv, OnPath, InPlace
<1>4. LatestIsKept(q)
  BY SteadyRows DEF LatestIsKept, VersionsInv, InPlace
<1>5. Chained(q)
  <2> SUFFICES ASSUME NEW i \in PageIds, Live(q, i), q[i].supersedes # NoPage
               PROVE  ChainedTo(q, i, q[i].supersedes)
    BY DEF Chained
  <2> DEFINE s == q[i].supersedes
  <2>1. Live(pgs, i) /\ pgs[i].supersedes = s /\ s # NoPage
    BY SteadyRows DEF InPlace
  <2>2. ChainedTo(pgs, i, s)
    BY <2>1 DEF VersionsInv, Chained
  <2>3. s \in PageIds /\ Live(q, s)
    BY <2>2, SteadyRows DEF ChainedTo, Live
  <2>4. QED
    BY <2>1, <2>2, <2>3, SteadyRows DEF ChainedTo, OnPath, InPlace
<1>6. Onward(pgs, q)
  BY SteadyRows DEF Onward, InPlace
<1>7. ASSUME NEW l \in lks
      PROVE  LinkInv(q, l)
  <2>1. LinkInv(pgs, l)
    BY DEF LinksInv
  <2>2. Ends(q, l) /\ Live(pgs, l.from) /\ Live(q, l.from)
    BY <2>1, SteadyRows DEF LinkInv, Ends, Live
  <2>3. ASSUME l.proj = NULL
        PROVE  Follows(q, l)
    <3>1. Follows(pgs, l)
      BY <2>1, <2>3 DEF LinkInv
    <3>2. \A i \in PageIds : OnLink(q, l, i) <=> OnLink(pgs, l, i)
      BY <2>2, SteadyRows DEF OnLink, InPlace, Live
    <3>3. \A i \in PageIds : OnLink(q, l, i) => (q[i].latest => pgs[i].latest)
      BY SteadyRows DEF OnLink, InPlace
    <3>4. l.to # NoPage => OnLink(q, l, l.to)
      BY <3>1, <3>2 DEF Follows, OnLink, Live
    <3>5. QED
      BY <3>1, <3>2, <3>3, <3>4 DEF Follows
  <2>4. QED
    BY <2>1, <2>2, <2>3 DEF LinkInv
<1>8. QED
  BY <1>1, <1>2, <1>3, <1>4, <1>5, <1>6, <1>7 DEF VersionsInv, LinksInv

-----------------------------------------------------------------------------
(* The operations on pages.                                                 *)

\* The page of a latest row that gets evicted decays and is not pinned.
PinnedStep == \A i \in LatestRows : pages'[i] \notin {Unborn, Gone} =>
    (pages'[i].evicted # "no" => pages[i].content \in Episodic \ Pinned)

PagesInv ==
    /\ ScopesTypeOK
    /\ VersionsInv(pages) /\ Filed(pages) /\ LinksInv(pages, links)
    /\ VectorsInv /\ SweepInv

\* What every step but those on scopes shows.
RowsStep ==
    /\ VersionsInv(pages') /\ LinksInv(pages', links') /\ Onward(pages, pages')
    /\ VectorsInv' /\ SweepInv' /\ PinnedStep
Step == ScopesTypeOK' /\ Filed(pages)' /\ RowsStep

LEMMA SweepLasts ==
  ASSUME PagesInv, Onward(pages, pages'), UNCHANGED sweeping
  PROVE  SweepInv'
<1> SUFFICES ASSUME sweeping # NULL
             PROVE  /\ sweeping \subseteq PageIds
                    /\ \A i \in sweeping : pages'[i] # Unborn /\
                         (Live(pages', i) => pages'[i].content \in Episodic /\ pages'[i].content \notin Pinned)
  BY DEF SweepInv, IsDecayable, Live
<1>1. /\ sweeping \subseteq PageIds
      /\ \A i \in sweeping : pages[i] # Unborn /\
           (Live(pages, i) => pages[i].content \in Episodic /\ pages[i].content \notin Pinned)
  BY DEF PagesInv, SweepInv, IsDecayable
<1>2. QED
  BY <1>1 DEF Onward

LEMMA VectorsLast ==
  ASSUME PagesInv, \A i \in PageIds : Live(pages, i) => Live(pages', i),
         UNCHANGED <<embeddings, embedding>>
  PROVE  VectorsInv'
  BY DEF PagesInv, VectorsInv, Live

LEMMA FiledInScopes ==
  ASSUME UNCHANGED <<workspaces, projects>>
  PROVE  /\ ScopesTypeOK => ScopesTypeOK'
         /\ Filed(pages') => Filed(pages)'
  BY DEF ScopesTypeOK, Filed, ProjectInWorkspace, LiveProjects, Live

\* What a latest row is before the step.
LEMMA LatestBefore ==
  ASSUME PagesInv, NEW i \in LatestRows
  PROVE  i \in PageIds /\ Live(pages, i) /\ pages[i].latest /\ pages[i].evicted = "no"
<1>1. i \in PageIds /\ Live(pages, i) /\ pages[i].latest
  BY RowsAreLive DEF Live
<1>2. QED
  BY <1>1 DEF PagesInv, VersionsInv, LatestIsKept

LEMMA RemovalStep ==
  ASSUME PagesInv, NEW gone, \A i \in gone : Live(pages, i), RemoveRows(gone),
         UNCHANGED <<sweeping, embedding>>
  PROVE  RowsStep /\ LeftRows(pages, gone, pages')
<1>1. VersionsInv(pages) /\ LinksInv(pages, links) /\ PagesType(pages)
  BY DEF PagesInv, VersionsInv
<1>2. /\ pages' = Left(pages, gone) /\ links' = LeftLinks(links, gone)
      /\ embeddings' = [i \in PageIds |-> IF i \in gone THEN NULL ELSE embeddings[i]]
  BY RemovalIs
<1>3. LeftRows(pages, gone, pages')
  BY <1>1, <1>2, RemovalLeaves
<1>4. VersionsInv(pages') /\ Onward(pages, pages')
  BY <1>1, <1>3, RemovalKeeps
<1>5. LinksInv(pages', links')
  BY <1>1, <1>2, <1>3, RemovalKeepsLinks
<1>6. SweepInv'
  BY <1>4, SweepLasts
<1>7. VectorsInv'
  <2>1. embeddings' \in [PageIds -> EmbedModels \cup {NULL}] /\ embedding' \in 0..MaxPages
    BY <1>2 DEF PagesInv, VectorsInv
  <2>2. ASSUME NEW i \in PageIds, embeddings'[i] # NULL
        PROVE  Live(pages', i)
    BY <2>2, <1>2, <1>3 DEF PagesInv, VectorsInv, LeftRows
  <2>3. QED
    BY <2>1, <2>2 DEF VectorsInv, Live
<1>8. PinnedStep
  <2> SUFFICES ASSUME NEW i \in LatestRows, pages'[i] \notin {Unborn, Gone}, pages'[i].evicted # "no"
               PROVE  FALSE
    BY DEF PinnedStep
  <2>1. i \in PageIds /\ Live(pages, i) /\ pages[i].evicted = "no"
    BY LatestBefore
  <2>2. pages'[i].evicted = pages[i].evicted
    BY <2>1, <1>3 DEF LeftRows, Live
  <2>3. QED
    BY <2>1, <2>2
<1>9. QED
  BY <1>3, <1>4, <1>5, <1>6, <1>7, <1>8 DEF RowsStep

\* Rows that stay under projects that stay are filed.
LEMMA RemovalFiled ==
  ASSUME PagesInv, NEW gone, LeftRows(pages, gone, pages'),
         \A i \in PageIds : Live(pages, i) /\ i \notin gone =>
             projects'[pages[i].proj] = projects[pages[i].proj]
  PROVE  Filed(pages)'
<1> SUFFICES ASSUME NEW i \in PageIds, Live(pages', i)
             PROVE  /\ pages'[i].proj \in LiveProjects'
                    /\ projects'[pages'[i].proj].ws = pages'[i].ws
  BY DEF Filed, Live, ProjectInWorkspace
<1>1. Live(pages, i) /\ i \notin gone /\ pages'[i].ws = pages[i].ws /\ pages'[i].proj = pages[i].proj
  BY DEF LeftRows
<1>2. ProjectInWorkspace(pages[i].ws, pages[i].proj)
  BY <1>1 DEF PagesInv, Filed
<1>3. QED
  BY <1>1, <1>2 DEF ProjectInWorkspace, LiveProjects

LEMMA WriteStep ==
  ASSUME PagesInv, NEW db, TablesInv(db), Onward(pages, db.pages), Outlives(pages, db.pages), Commit(db)
  PROVE  Step
<1>1. pages' = db.pages /\ links' = db.links
      /\ UNCHANGED <<workspaces, projects>> /\ UNCHANGED <<embeddings, embedding>> /\ UNCHANGED sweeping
  BY DEF Commit
<1>2. VersionsInv(pages') /\ LinksInv(pages', links') /\ Onward(pages, pages') /\ Filed(pages')
  BY <1>1 DEF TablesInv
<1>3. SweepInv'
  BY <1>1, <1>2, SweepLasts
<1>4. VectorsInv'
  BY <1>1, VectorsLast DEF Outlives
<1>5. PinnedStep
  BY <1>1, LatestBefore DEF PinnedStep, Outlives
<1>6. ScopesTypeOK' /\ Filed(pages)'
  BY <1>1, <1>2, FiledInScopes DEF PagesInv
<1>7. QED
  BY <1>2, <1>3, <1>4, <1>5, <1>6 DEF Step, RowsStep

LEMMA UpsertPageStep ==
  ASSUME PagesInv, NEW page \in PageInputs, UpsertPage(page)
  PROVE  Step
<1>1. ScopesTypeOK /\ TablesInv(Tables) /\ Tables.pages = pages
  BY DEF PagesInv, TablesInv, Tables
<1>2. HasRoom(pages, 1) /\ Fits(page) /\ Commit(upsert_page_in_tx(Tables, page))
  BY DEF UpsertPage
<1>3. TablesInv(upsert_page_in_tx(Tables, page)) /\ Onward(pages, upsert_page_in_tx(Tables, page).pages)
      /\ Outlives(pages, upsert_page_in_tx(Tables, page).pages)
  BY <1>1, <1>2, WriteKeeps
<1>4. QED
  BY <1>2, <1>3, WriteStep

LEMMA UpsertPagesStep ==
  ASSUME PagesInv, NEW first \in PageInputs, NEW second \in PageInputs, UpsertPages(first, second)
  PROVE  Step
<1> DEFINE one == upsert_page_in_tx(Tables, first)
           two == upsert_page_in_tx(one, second)
<1>1. ScopesTypeOK /\ TablesInv(Tables) /\ Tables.pages = pages
  BY DEF PagesInv, TablesInv, Tables
<1>2. HasRoom(pages, 2) /\ Fits(first) /\ Fits(second) /\ Commit(two)
  BY DEF UpsertPages
<1>3. HasRoom(pages, 1)
  BY <1>2, PagesAssumption DEF HasRoom, PageIds
<1>4. TablesInv(one) /\ Onward(pages, one.pages) /\ Outlives(pages, one.pages) /\ HasRoom(one.pages, 1)
  BY <1>1, <1>2, <1>3, WriteKeeps
<1> HIDE DEF one
<1>5. TablesInv(two) /\ Onward(one.pages, two.pages) /\ Outlives(one.pages, two.pages)
  BY <1>1, <1>2, <1>4, WriteKeeps
<1> HIDE DEF two
<1>6. Onward(pages, two.pages)
  BY <1>4, <1>5, OnwardTrans
<1>7. Outlives(pages, two.pages)
  BY <1>4, <1>5 DEF Outlives
<1>8. QED
  BY <1>2, <1>5, <1>6, <1>7, WriteStep

LEMMA ScopesStep ==
  ASSUME PagesInv, UNCHANGED <<pages, links, embeddings, sweeping, embedding>>, ScopesTypeOK',
         \A p \in LiveProjects : p \in LiveProjects' /\ projects'[p].ws = projects[p].ws
  PROVE  Step
<1>1. Filed(pages)'
  <2> SUFFICES ASSUME NEW i \in PageIds, Live(pages, i)
               PROVE  pages[i].proj \in LiveProjects' /\ projects'[pages[i].proj].ws = pages[i].ws
    BY DEF Filed, Live, ProjectInWorkspace
  <2>1. ProjectInWorkspace(pages[i].ws, pages[i].proj)
    BY DEF PagesInv, Filed
  <2>2. QED
    BY <2>1 DEF ProjectInWorkspace
<1>2. Onward(pages, pages') /\ VersionsInv(pages') /\ LinksInv(pages', links')
  BY OnwardSelf DEF PagesInv
<1>3. VectorsInv'
  BY VectorsLast
<1>4. SweepInv'
  BY <1>2, SweepLasts
<1>5. PinnedStep
  BY LatestBefore DEF PinnedStep
<1>6. QED
  BY <1>1, <1>2, <1>3, <1>4, <1>5 DEF Step, RowsStep

LEMMA CreateWorkspaceStep == ASSUME PagesInv, CreateWorkspace PROVE Step
<1>1. PICK n \in WsNames, w \in WorkspaceIds :
        GetOrCreateWorkspace(n, w) /\ UNCHANGED <<pages, links, embeddings, sweeping, embedding>>
  BY DEF CreateWorkspace
<1>2. workspaces' = [workspaces EXCEPT ![w] = n] /\ projects' = projects
  BY <1>1 DEF GetOrCreateWorkspace
<1>3. ScopesTypeOK'
  BY <1>2 DEF PagesInv, ScopesTypeOK
<1>4. \A p \in LiveProjects : p \in LiveProjects' /\ projects'[p].ws = projects[p].ws
  BY <1>2 DEF LiveProjects
<1>5. QED
  BY <1>1, <1>3, <1>4, ScopesStep

LEMMA CreateProjectStep == ASSUME PagesInv, CreateProject PROVE Step
<1>1. PICK w \in WorkspaceIds, n \in ProjNames, p \in ProjectIds :
        GetOrCreateProject(w, n, NULL, p) /\ UNCHANGED <<pages, links, embeddings, sweeping, embedding>>
  BY DEF CreateProject
<1> DEFINE row == [ws |-> w, name |-> n, repo |-> NULL]
<1>2. workspaces' = workspaces /\ projects[p] = Unborn /\ projects' = [projects EXCEPT ![p] = row]
  BY <1>1 DEF GetOrCreateProject
<1>3. row \in ProjectRows
  BY DEF ProjectRows
<1>4. ScopesTypeOK'
  BY <1>2, <1>3 DEF PagesInv, ScopesTypeOK
<1>5. \A r \in LiveProjects : r \in LiveProjects' /\ projects'[r].ws = projects[r].ws
  BY <1>2 DEF LiveProjects, PagesInv, ScopesTypeOK
<1>6. QED
  BY <1>1, <1>4, <1>5, ScopesStep

LEMMA RenameProjectStep ==
  ASSUME PagesInv, NEW w \in WorkspaceIds, NEW p \in ProjectIds, NEW n \in ProjNames, RenameProjectPages(w, p, n)
  PROVE  Step
<1>1. /\ p \in LiveProjects /\ projects' = [projects EXCEPT ![p].name = n] /\ workspaces' = workspaces
      /\ UNCHANGED <<pages, links, embeddings, sweeping, embedding>>
  BY DEF RenameProjectPages, RenameProject, ProjectInWorkspace
<1>2. projects[p] \in ProjectRows
  BY <1>1 DEF LiveProjects, PagesInv, ScopesTypeOK
<1> DEFINE row == [projects[p] EXCEPT !.name = n]
<1>3. row \in ProjectRows /\ row.ws = projects[p].ws
  BY <1>2 DEF ProjectRows
<1> HIDE DEF row
<1>4. projects' = [projects EXCEPT ![p] = row]
  BY <1>1 DEF row
<1>5. ScopesTypeOK'
  BY <1>1, <1>3, <1>4 DEF PagesInv, ScopesTypeOK
<1>6. \A r \in LiveProjects : r \in LiveProjects' /\ projects'[r].ws = projects[r].ws
  BY <1>3, <1>4, NamesAssumption DEF LiveProjects, PagesInv, ScopesTypeOK
<1>7. QED
  BY <1>1, <1>5, <1>6, ScopesStep

LEMMA RenameWorkspaceStep ==
  ASSUME PagesInv, NEW w \in WorkspaceIds, NEW n \in WsNames, RenameWorkspacePages(w, n)
  PROVE  Step
<1>1. /\ workspaces' = [workspaces EXCEPT ![w] = n] /\ projects' = projects
      /\ UNCHANGED <<pages, links, embeddings, sweeping, embedding>>
  BY DEF RenameWorkspacePages, RenameWorkspace
<1>2. ScopesTypeOK'
  BY <1>1 DEF PagesInv, ScopesTypeOK
<1>3. \A p \in LiveProjects : p \in LiveProjects' /\ projects'[p].ws = projects[p].ws
  BY <1>1 DEF LiveProjects
<1>4. QED
  BY <1>1, <1>2, <1>3, ScopesStep

-----------------------------------------------------------------------------
(* Removals.                                                                *)

LEMMA DeletePageStep ==
  ASSUME PagesInv, NEW w, NEW p, NEW path, DeletePage(w, p, path)
  PROVE  Step
<1> DEFINE gone == {i \in Rows : pages[i].ws = w /\ pages[i].proj = p /\ pages[i].path = path}
<1>1. RemoveRows(gone) /\ UNCHANGED <<workspaces, projects>> /\ UNCHANGED <<sweeping, embedding>>
  BY DEF DeletePage
<1>2. \A i \in gone : Live(pages, i)
  BY RowsAreLive
<1> HIDE DEF gone
<1>3. RowsStep /\ LeftRows(pages, gone, pages')
  BY <1>1, <1>2, RemovalStep
<1>4. Filed(pages)'
  BY <1>1, <1>3, RemovalFiled
<1>5. QED
  BY <1>1, <1>3, <1>4, FiledInScopes DEF Step, PagesInv

\* Dropping projects keeps the types, and the other projects' rows.
LEMMA DropType ==
  ASSUME PagesInv, NEW ps, DropProjects(ps)
  PROVE  projects' \in [ProjectIds -> ProjectRows \cup {Unborn, Gone}]
  BY DEF DropProjects, PagesInv, ScopesTypeOK

LEMMA PurgeProjectStep ==
  ASSUME PagesInv, NEW w, NEW p, PurgeProjectPages(w, p)
  PROVE  Step
<1> DEFINE gone == {i \in Rows : pages[i].proj = p}
<1>1. /\ DropProjects({p}) /\ workspaces' = workspaces
      /\ RemoveRows(gone) /\ UNCHANGED <<sweeping, embedding>>
  BY DEF PurgeProjectPages, PurgeProject
<1>2. \A i : i \in gone <=> Live(pages, i) /\ pages[i].proj = p
  BY RowsAreLive
<1> HIDE DEF gone
<1>3. RowsStep /\ LeftRows(pages, gone, pages')
  BY <1>1, <1>2, RemovalStep
<1>4. \A i \in PageIds : Live(pages, i) /\ i \notin gone => projects'[pages[i].proj] = projects[pages[i].proj]
  <2>1. \A i \in PageIds : Live(pages, i) => pages[i].proj \in ProjectIds
    BY RowTypes DEF PagesInv, VersionsInv
  <2>2. QED
    BY <1>1, <1>2, <2>1 DEF DropProjects
<1>5. Filed(pages)'
  BY <1>3, <1>4, RemovalFiled
<1>6. ScopesTypeOK'
  BY <1>1, DropType DEF PagesInv, ScopesTypeOK
<1>7. QED
  BY <1>3, <1>5, <1>6 DEF Step

LEMMA DeleteWorkspaceStep ==
  ASSUME PagesInv, NEW w \in WorkspaceIds, NEW force, DeleteWorkspacePages(w, force)
  PROVE  Step
<1> DEFINE gone == {i \in Rows : pages[i].proj \in ProjectsOf(w)}
<1>1. /\ DropProjects(ProjectsOf(w)) /\ workspaces' = [workspaces EXCEPT ![w] = Gone]
      /\ RemoveRows(gone) /\ UNCHANGED <<sweeping, embedding>>
  BY DEF DeleteWorkspacePages, DeleteWorkspace
<1>2. \A i : i \in gone <=> Live(pages, i) /\ pages[i].proj \in ProjectsOf(w)
  BY RowsAreLive
<1> HIDE DEF gone
<1>3. RowsStep /\ LeftRows(pages, gone, pages')
  BY <1>1, <1>2, RemovalStep
<1>4. \A i \in PageIds : Live(pages, i) /\ i \notin gone => projects'[pages[i].proj] = projects[pages[i].proj]
  <2>1. \A i \in PageIds : Live(pages, i) => pages[i].proj \in ProjectIds
    BY RowTypes DEF PagesInv, VersionsInv
  <2>2. QED
    BY <1>1, <1>2, <2>1 DEF DropProjects
<1>5. Filed(pages)'
  BY <1>3, <1>4, RemovalFiled
<1>6. ScopesTypeOK'
  <2>1. workspaces' \in [WorkspaceIds -> WsNames \cup {Unborn, Gone}]
    BY <1>1 DEF PagesInv, ScopesTypeOK
  <2>2. QED
    BY <1>1, <2>1, DropType DEF ScopesTypeOK
<1>7. QED
  BY <1>3, <1>5, <1>6 DEF Step

LEMMA HardDeleteStep == ASSUME PagesInv, HardDeleteDecayed PROVE Step
<1>1. /\ RemoveRows(Expired) /\ UNCHANGED <<workspaces, projects>> /\ UNCHANGED <<sweeping, embedding>>
  BY DEF HardDeleteDecayed
<1>2. \A i \in Expired : Live(pages, i)
  BY RowsAreLive DEF Expired
<1>3. RowsStep /\ LeftRows(pages, Expired, pages')
  BY <1>1, <1>2, RemovalStep
<1>4. Filed(pages)'
  BY <1>1, <1>3, RemovalFiled
<1>5. QED
  BY <1>1, <1>3, <1>4, FiledInScopes DEF Step, PagesInv

-----------------------------------------------------------------------------
(* Changes in place.                                                        *)

LEMMA SteadyFrom ==
  ASSUME PagesInv, NEW q, q = [i \in PageIds |-> q[i]],
         \A i \in PageIds : IF Live(pages, i) THEN q[i] \in PageRows /\ InPlace(pages[i], q[i])
                            ELSE q[i] = pages[i]
  PROVE  Steady(pages, q)
<1>1. PagesType(pages)
  BY DEF PagesInv, VersionsInv
<1>2. \A i \in PageIds : q[i] \in PageRows \cup {Unborn, Gone}
  BY <1>1 DEF PagesType
<1>3. PagesType(q)
  BY <1>2 DEF PagesType
<1>4. \A i \in PageIds : q[i] \in PageRows => Live(q, i)
  BY RowsAssumption DEF Live
<1>5. QED
  BY <1>3, <1>4 DEF Steady

LEMMA SteadyStep ==
  ASSUME PagesInv, Steady(pages, pages'), UNCHANGED <<links, embeddings, embedding>>,
         sweeping' = sweeping \/ sweeping' = NULL,
         \A i \in LatestRows : pages'[i].evicted # "no" => pages[i].content \in Episodic \ Pinned
  PROVE  RowsStep
<1>1. VersionsInv(pages') /\ LinksInv(pages', links') /\ Onward(pages, pages')
  BY SteadyKeeps DEF PagesInv
<1>2. SweepInv'
  <2>1. CASE sweeping' = sweeping
    BY <1>1, <2>1, SweepLasts
  <2>2. CASE sweeping' = NULL
    BY <2>2 DEF SweepInv
  <2>3. QED
    BY <2>1, <2>2
<1>3. VectorsInv'
  BY SteadyRows, VectorsLast
<1>4. PinnedStep
  BY DEF PinnedStep
<1>5. QED
  BY <1>1, <1>2, <1>3, <1>4 DEF RowsStep

\* Rows that keep their workspace under scopes that stay are filed.
LEMMA SteadyFiled ==
  ASSUME PagesInv, Steady(pages, pages'), UNCHANGED <<workspaces, projects>>,
         \A i \in PageIds : Live(pages, i) => pages'[i].ws = pages[i].ws
  PROVE  ScopesTypeOK' /\ Filed(pages)'
<1>1. Filed(pages')
  BY SteadyRows DEF PagesInv, Filed, InPlace
<1>2. QED
  BY <1>1, FiledInScopes DEF PagesInv

LEMMA MoveProjectStep ==
  ASSUME PagesInv, NEW p \in ProjectIds, NEW from \in WorkspaceIds, NEW to \in WorkspaceIds,
         MoveProjectPages(p, from, to)
  PROVE  Step
<1>1. /\ p \in LiveProjects /\ projects' = [projects EXCEPT ![p].ws = to] /\ workspaces' = workspaces
      /\ UNCHANGED <<links, embeddings, embedding>> /\ sweeping' = sweeping
      /\ pages' = [i \in PageIds |->
             IF i \in Rows /\ pages[i].proj = p THEN [pages[i] EXCEPT !.ws = to] ELSE pages[i]]
  BY DEF MoveProjectPages, MoveProjectWorkspace, ProjectInWorkspace
<1>2. ASSUME NEW i \in PageIds, Live(pages, i)
      PROVE  /\ pages'[i] \in PageRows /\ InPlace(pages[i], pages'[i])
             /\ pages'[i].ws = IF pages[i].proj = p THEN to ELSE pages[i].ws
             /\ pages'[i].evicted = pages[i].evicted
  <2>1. pages[i] \in PageRows /\ i \in Rows
    BY <1>2, RowTypes, RowsAreLive DEF PagesInv, VersionsInv
  <2>2. pages'[i] = IF pages[i].proj = p THEN [pages[i] EXCEPT !.ws = to] ELSE pages[i]
    BY <1>1, <2>1
  <2>3. QED
    BY <2>1, <2>2 DEF PageRows, InPlace
<1>3. \A i \in PageIds : ~Live(pages, i) => pages'[i] = pages[i]
  BY <1>1, RowsAreLive
<1>4. pages' = [i \in PageIds |-> pages'[i]]
  BY <1>1
<1>5. Steady(pages, pages')
  BY <1>2, <1>3, <1>4, SteadyFrom
<1>6. \A i \in LatestRows : pages'[i].evicted = "no"
  BY <1>2, LatestBefore
<1>7. RowsStep
  BY <1>1, <1>5, <1>6, SteadyStep
<1>8. projects[p] \in ProjectRows
  BY <1>1 DEF LiveProjects, PagesInv, ScopesTypeOK
<1> DEFINE row == [projects[p] EXCEPT !.ws = to]
<1>9. row \in ProjectRows /\ row.ws = to
  BY <1>8 DEF ProjectRows
<1> HIDE DEF row
<1>10. projects' = [projects EXCEPT ![p] = row]
  BY <1>1 DEF row
<1>11. ScopesTypeOK'
  BY <1>1, <1>9, <1>10 DEF PagesInv, ScopesTypeOK
<1>12. Filed(pages)'
  <2> SUFFICES ASSUME NEW i \in PageIds, Live(pages', i)
               PROVE  /\ pages'[i].proj \in LiveProjects'
                      /\ projects'[pages'[i].proj].ws = pages'[i].ws
    BY DEF Filed, Live, ProjectInWorkspace
  <2>1. Live(pages, i) /\ pages'[i].proj = pages[i].proj
    BY <1>2, <1>5, SteadyRows DEF InPlace
  <2>2. pages[i].proj \in LiveProjects /\ projects[pages[i].proj].ws = pages[i].ws
    BY <2>1 DEF PagesInv, Filed, ProjectInWorkspace
  <2>3. pages[i].proj \in ProjectIds
    BY <2>2 DEF LiveProjects
  <2>4. CASE pages[i].proj = p
    <3>1. projects'[p] = row
      BY <1>10, <2>3, <2>4 DEF PagesInv, ScopesTypeOK
    <3>2. p \in LiveProjects'
      BY <3>1, <1>9, <2>3, <2>4, NamesAssumption DEF LiveProjects
    <3>3. QED
      BY <3>1, <3>2, <1>2, <1>9, <2>1, <2>4
  <2>5. CASE pages[i].proj # p
    <3>1. projects'[pages[i].proj] = projects[pages[i].proj]
      BY <1>10, <2>3, <2>5 DEF PagesInv, ScopesTypeOK
    <3>2. QED
      BY <3>1, <2>1, <2>2, <2>5, <1>2 DEF LiveProjects
  <2>6. QED
    BY <2>4, <2>5
<1>13. QED
  BY <1>7, <1>11, <1>12 DEF Step

LEMMA ReorgStep == ASSUME PagesInv, NEW w, ReorgPages(w) PROVE Step
<1>1. /\ UNCHANGED <<workspaces, projects>> /\ UNCHANGED <<links, embeddings, embedding>> /\ sweeping' = sweeping
      /\ pages' = [i \in PageIds |->
             IF i \in LatestRows /\ pages[i].ws = w THEN [pages[i] EXCEPT !.latest = FALSE] ELSE pages[i]]
  BY DEF ReorgPages
<1>2. ASSUME NEW i \in PageIds, Live(pages, i)
      PROVE  /\ pages'[i] \in PageRows /\ InPlace(pages[i], pages'[i])
             /\ pages'[i].ws = pages[i].ws /\ pages'[i].evicted = pages[i].evicted
  <2>1. pages[i] \in PageRows
    BY <1>2, RowTypes DEF PagesInv, VersionsInv
  <2>2. pages'[i] = [pages[i] EXCEPT !.latest = FALSE] \/ pages'[i] = pages[i]
    BY <1>1
  <2>3. QED
    BY <2>1, <2>2 DEF PageRows, InPlace
<1>3. \A i \in PageIds : ~Live(pages, i) => pages'[i] = pages[i]
  BY <1>1, RowsAreLive
<1>4. pages' = [i \in PageIds |-> pages'[i]]
  BY <1>1
<1>5. Steady(pages, pages')
  BY <1>2, <1>3, <1>4, SteadyFrom
<1>6. \A i \in LatestRows : pages'[i].evicted = "no"
  BY <1>2, LatestBefore
<1>7. RowsStep
  BY <1>1, <1>5, <1>6, SteadyStep
<1>8. QED
  BY <1>1, <1>2, <1>5, <1>7, SteadyFiled DEF Step

LEMMA BumpStep == ASSUME PagesInv, NEW ids, BumpAccess(ids) PROVE Step
<1>1. /\ UNCHANGED <<workspaces, projects>> /\ UNCHANGED <<links, embeddings, embedding>> /\ sweeping' = sweeping
      /\ pages' = [i \in PageIds |->
             IF i \in ids \cap LatestRows
             THEN [pages[i] EXCEPT !.accessed = TRUE, !.warm = TRUE] ELSE pages[i]]
  BY DEF BumpAccess
<1>2. ASSUME NEW i \in PageIds, Live(pages, i)
      PROVE  /\ pages'[i] \in PageRows /\ InPlace(pages[i], pages'[i])
             /\ pages'[i].ws = pages[i].ws /\ pages'[i].evicted = pages[i].evicted
  <2>1. pages[i] \in PageRows
    BY <1>2, RowTypes DEF PagesInv, VersionsInv
  <2>2. \/ pages'[i] = [pages[i] EXCEPT !.accessed = TRUE, !.warm = TRUE]
        \/ pages'[i] = pages[i]
    BY <1>1
  <2>3. QED
    BY <2>1, <2>2 DEF PageRows, InPlace
<1>3. \A i \in PageIds : ~Live(pages, i) => pages'[i] = pages[i]
  BY <1>1, RowsAreLive
<1>4. pages' = [i \in PageIds |-> pages'[i]]
  BY <1>1
<1>5. Steady(pages, pages')
  BY <1>2, <1>3, <1>4, SteadyFrom
<1>6. \A i \in LatestRows : pages'[i].evicted = "no"
  BY <1>2, LatestBefore
<1>7. RowsStep
  BY <1>1, <1>5, <1>6, SteadyStep
<1>8. QED
  BY <1>1, <1>2, <1>5, <1>7, SteadyFiled DEF Step

LEMMA RetentionStep == ASSUME PagesInv, RetentionPasses PROVE Step
<1>1. /\ UNCHANGED <<workspaces, projects>> /\ UNCHANGED <<links, embeddings, embedding>> /\ sweeping' = sweeping
      /\ pages' = [i \in PageIds |->
             IF i \in Rows
             THEN [pages[i] EXCEPT !.warm = FALSE,
                                   !.evicted = IF @ = "recent" THEN "old" ELSE @]
             ELSE pages[i]]
  BY DEF RetentionPasses
<1>2. ASSUME NEW i \in PageIds, Live(pages, i)
      PROVE  /\ pages'[i] \in PageRows /\ InPlace(pages[i], pages'[i])
             /\ pages'[i].ws = pages[i].ws /\ (pages[i].evicted = "no" => pages'[i].evicted = "no")
  <2>1. pages[i] \in PageRows /\ i \in Rows
    BY <1>2, RowTypes, RowsAreLive DEF PagesInv, VersionsInv
  <2>2. pages[i].latest => pages[i].evicted = "no"
    BY <1>2 DEF PagesInv, VersionsInv, LatestIsKept
  <2> DEFINE e == IF pages[i].evicted = "recent" THEN "old" ELSE pages[i].evicted
  <2>3. e \in {"no", "recent", "old"} /\ (pages[i].evicted = "no" => e = "no")
    BY <2>1 DEF PageRows
  <2>4. pages'[i] = [pages[i] EXCEPT !.warm = FALSE, !.evicted = e]
    BY <1>1, <2>1
  <2> HIDE DEF e
  <2>5. /\ pages'[i] \in PageRows /\ pages'[i].ws = pages[i].ws /\ pages'[i].proj = pages[i].proj
        /\ pages'[i].path = pages[i].path /\ pages'[i].content = pages[i].content
        /\ pages'[i].supersedes = pages[i].supersedes /\ pages'[i].latest = pages[i].latest
        /\ pages'[i].evicted = e
    BY <2>1, <2>3, <2>4 DEF PageRows
  <2>6. QED
    BY <2>2, <2>3, <2>5 DEF InPlace
<1>3. \A i \in PageIds : ~Live(pages, i) => pages'[i] = pages[i]
  BY <1>1, RowsAreLive
<1>4. pages' = [i \in PageIds |-> pages'[i]]
  BY <1>1
<1>5. Steady(pages, pages')
  BY <1>2, <1>3, <1>4, SteadyFrom
<1>6. \A i \in LatestRows : pages'[i].evicted = "no"
  BY <1>2, LatestBefore
<1>7. RowsStep
  BY <1>1, <1>5, <1>6, SteadyStep
<1>8. QED
  BY <1>1, <1>2, <1>5, <1>7, SteadyFiled DEF Step

LEMMA SoftDeleteStep == ASSUME PagesInv, SoftDeleteForDecay PROVE Step
<1>1. /\ UNCHANGED <<workspaces, projects>> /\ UNCHANGED <<links, embeddings, embedding>>
      /\ sweeping # NULL /\ sweeping' = NULL
      /\ pages' = [i \in PageIds |->
             IF i \in sweeping \cap LatestRows
             THEN [pages[i] EXCEPT !.latest = FALSE, !.evicted = "recent"] ELSE pages[i]]
  BY DEF SoftDeleteForDecay
<1>2. ASSUME NEW i \in PageIds, Live(pages, i)
      PROVE  /\ pages'[i] \in PageRows /\ InPlace(pages[i], pages'[i]) /\ pages'[i].ws = pages[i].ws
  <2>1. pages[i] \in PageRows
    BY <1>2, RowTypes DEF PagesInv, VersionsInv
  <2>2. CASE i \in sweeping \cap LatestRows
    <3>1. pages[i].latest
      BY <2>2, RowsAreLive
    <3>2. pages'[i] = [pages[i] EXCEPT !.latest = FALSE, !.evicted = "recent"]
      BY <1>1, <2>2
    <3>3. pages'[i] \in PageRows
      BY <2>1, <3>2 DEF PageRows
    <3>4. /\ pages'[i].proj = pages[i].proj /\ pages'[i].path = pages[i].path
          /\ pages'[i].content = pages[i].content /\ pages'[i].ws = pages[i].ws
          /\ pages'[i].supersedes = pages[i].supersedes /\ ~pages'[i].latest
      BY <2>1, <3>2 DEF PageRows
    <3>5. QED
      BY <3>1, <3>3, <3>4 DEF InPlace
  <2>3. CASE i \notin sweeping \cap LatestRows
    <3>1. pages'[i] = pages[i]
      BY <1>1, <2>3
    <3>2. QED
      BY <2>1, <3>1 DEF InPlace
  <2>4. QED
    BY <2>2, <2>3
<1>3. \A i \in PageIds : ~Live(pages, i) => pages'[i] = pages[i]
  BY <1>1, RowsAreLive
<1>4. pages' = [i \in PageIds |-> pages'[i]]
  BY <1>1
<1>5. Steady(pages, pages')
  BY <1>2, <1>3, <1>4, SteadyFrom
<1>6. ASSUME NEW i \in LatestRows, pages'[i].evicted # "no"
      PROVE  pages[i].content \in Episodic \ Pinned
  <2>1. i \in PageIds /\ Live(pages, i) /\ pages[i].evicted = "no"
    BY LatestBefore
  <2>2. i \in sweeping
    BY <1>1, <1>6, <2>1
  <2>3. QED
    BY <1>1, <2>1, <2>2 DEF PagesInv, SweepInv, IsDecayable
<1>7. RowsStep
  BY <1>1, <1>5, <1>6, SteadyStep
<1>8. QED
  BY <1>1, <1>2, <1>5, <1>7, SteadyFiled DEF Step

-----------------------------------------------------------------------------
(* What leaves the rows alone: the reading of the sweep, the vectors.       *)

LEMMA StillStep ==
  ASSUME PagesInv, UNCHANGED <<workspaces, projects>>, UNCHANGED <<pages, links>>, VectorsInv', SweepInv'
  PROVE  Step
<1>1. ScopesTypeOK' /\ Filed(pages)'
  BY FiledInScopes DEF PagesInv
<1>2. Onward(pages, pages') /\ VersionsInv(pages') /\ LinksInv(pages', links')
  BY OnwardSelf DEF PagesInv
<1>3. PinnedStep
  BY LatestBefore DEF PinnedStep
<1>4. QED
  BY <1>1, <1>2, <1>3 DEF Step, RowsStep

LEMMA SweepReadStep == ASSUME PagesInv, NEW w, NEW p, SweepRead(w, p) PROVE Step
<1>1. /\ UNCHANGED <<workspaces, projects>> /\ UNCHANGED <<pages, links>> /\ UNCHANGED <<embeddings, embedding>>
      /\ \A i \in sweeping' : i \in LatestRows /\ IsDecayable(i)
  BY DEF SweepRead
<1>2. VectorsInv'
  BY <1>1, VectorsLast
<1>3. SweepInv'
  <2>1. \A i \in sweeping' : i \in PageIds /\ pages'[i] # Unborn /\ IsDecayable(i)'
    BY <1>1, RowsAreLive DEF IsDecayable, Live
  <2>2. QED
    BY <2>1 DEF SweepInv
<1>4. QED
  BY <1>1, <1>2, <1>3, StillStep

LEMMA EmbedStep == ASSUME PagesInv, Embed PROVE Step
<1>1. /\ UNCHANGED <<workspaces, projects>> /\ UNCHANGED <<pages, links>> /\ UNCHANGED sweeping
  BY DEF Embed, EmbedStart, StoreEmbedding, DeleteStaleEmbeddings
<1>2. SweepInv'
  BY <1>1, OnwardSelf, SweepLasts
<1>3. VectorsInv'
  <2>1. ASSUME NEW i \in PageIds, EmbedStart(i)
        PROVE  VectorsInv'
    <3>1. embedding' = i /\ embeddings' = embeddings /\ pages' = pages
      BY <2>1 DEF EmbedStart
    <3>2. i \in 0..MaxPages
      BY PagesAssumption DEF PageIds
    <3>3. /\ embeddings' \in [PageIds -> EmbedModels \cup {NULL}]
          /\ \A k \in PageIds : embeddings'[k] # NULL => Live(pages, k)
      BY <3>1 DEF PagesInv, VectorsInv
    <3>4. QED
      BY <3>1, <3>2, <3>3 DEF VectorsInv, Live
  <2>2. ASSUME NEW m \in EmbedModels, StoreEmbedding(m)
        PROVE  VectorsInv'
    <3>1. /\ embeddings' = IF embedding \in Rows THEN [embeddings EXCEPT ![embedding] = m] ELSE embeddings
          /\ embedding' = NoPage /\ pages' = pages
      BY <2>2 DEF StoreEmbedding
    <3>2. embedding' \in 0..MaxPages
      BY <3>1, PagesAssumption DEF NoPage
    <3>3. embeddings' \in [PageIds -> EmbedModels \cup {NULL}]
      BY <3>1 DEF PagesInv, VectorsInv
    <3>4. ASSUME NEW i \in PageIds, embeddings'[i] # NULL
          PROVE  Live(pages, i)
      <4>1. embeddings'[i] = embeddings[i] \/ (i = embedding /\ embedding \in Rows)
        BY <3>1 DEF PagesInv, VectorsInv
      <4>2. QED
        BY <3>4, <4>1, RowsAreLive DEF PagesInv, VectorsInv
    <3>5. QED
      BY <3>1, <3>2, <3>3, <3>4 DEF VectorsInv, Live
  <2>3. ASSUME NEW w, NEW m, DeleteStaleEmbeddings(w, m)
        PROVE  VectorsInv'
    <3>1. PICK stale : /\ embeddings' = [i \in PageIds |-> IF i \in stale THEN NULL ELSE embeddings[i]]
                       /\ embedding' = embedding /\ pages' = pages
      BY <2>3 DEF DeleteStaleEmbeddings
    <3>2. QED
      BY <3>1 DEF PagesInv, VectorsInv, Live
  <2>4. QED
    BY <2>1, <2>2, <2>3 DEF Embed
<1>4. QED
  BY <1>1, <1>2, <1>3, StillStep

LEMMA NextStep == ASSUME PagesInv, Next PROVE Step
<1>1. ASSUME WritePage PROVE Step
  <2>1. PICK w \in WorkspaceIds, p \in ProjectIds : \E page \in PagesOf(w, p) : UpsertPage(page)
    BY <1>1 DEF WritePage
  <2>2. PagesOf(w, p) \subseteq PageInputs
    BY DEF PagesOf, PageInputs
  <2>3. QED
    BY <2>1, <2>2, UpsertPageStep
<1>2. ASSUME WriteBatch PROVE Step
  <2>1. PICK w \in WorkspaceIds, p \in ProjectIds :
          \E first, second \in PagesOf(w, p) : UpsertPages(first, second)
    BY <1>2 DEF WriteBatch
  <2>2. PagesOf(w, p) \subseteq PageInputs
    BY DEF PagesOf, PageInputs
  <2>3. QED
    BY <2>1, <2>2, UpsertPagesStep
<1>3. ASSUME RemovePages PROVE Step
  BY <1>3, DeletePageStep, PurgeProjectStep, DeleteWorkspaceStep DEF RemovePages
<1>4. ASSUME RelabelPages PROVE Step
  BY <1>4, MoveProjectStep, RenameProjectStep, RenameWorkspaceStep, ReorgStep DEF RelabelPages
<1>5. ASSUME Decay PROVE Step
  BY <1>5, BumpStep, RetentionStep, SweepReadStep, SoftDeleteStep, HardDeleteStep DEF Decay
<1>6. QED
  BY <1>1, <1>2, <1>3, <1>4, <1>5, CreateWorkspaceStep, CreateProjectStep, EmbedStep DEF Next

-----------------------------------------------------------------------------
(* The hybrid search.                                                       *)

LEMMA InvParts == IInv <=> PagesInv /\ SearchInv
  BY DEF IInv, PagesInv

\* Whatever the writer does between two steps of a search, its hits stay.
LEMMA SearchLasts ==
  ASSUME VersionsInv(pages), SearchInv, Onward(pages, pages'), VersionsInv(pages'), UNCHANGED search
  PROVE  SearchInv'
<1> SUFFICES ASSUME search # NoSearch
             PROVE  /\ search \in Searches
                    /\ \A i \in search.born : pages'[i] # Unborn
                    /\ \A i \in search.hits : /\ pages'[i] # Unborn /\ Known(i)
                                              /\ Live(pages', i) => pages'[i].proj = search.proj
                    /\ \A i \in PageIds : Live(pages', i) /\ pages'[i].latest
                                          /\ pages'[i].proj = search.proj => Known(i)
  BY DEF SearchInv, Live, Known
<1>1. /\ search \in Searches
      /\ \A i \in search.born : pages[i] # Unborn
      /\ \A i \in search.hits : /\ pages[i] # Unborn /\ Known(i)
                                /\ Live(pages, i) => pages[i].proj = search.proj
      /\ \A i \in PageIds : Live(pages, i) /\ pages[i].latest /\ pages[i].proj = search.proj => Known(i)
  BY DEF SearchInv
<1>2. search.born \subseteq PageIds /\ search.hits \subseteq PageIds
  BY <1>1 DEF Searches
<1>3. ASSUME NEW i \in PageIds, Live(pages', i), pages'[i].latest, pages'[i].proj = search.proj
      PROVE  Known(i)
  <2>1. CASE pages[i] = Unborn
    BY <2>1, <1>1 DEF Known
  <2>2. CASE pages[i] # Unborn
    BY <2>2, <1>1, <1>3 DEF Onward
  <2>3. QED
    BY <2>1, <2>2
<1>4. QED
  BY <1>1, <1>2, <1>3 DEF Onward

LEMMA PagesUnchanged ==
  ASSUME PagesInv, UNCHANGED pageVars
  PROVE  PagesInv' /\ PinnedStep
<1>1. UNCHANGED <<workspaces, projects>> /\ UNCHANGED <<pages, links>>
      /\ UNCHANGED <<embeddings, embedding>> /\ UNCHANGED sweeping
  BY DEF pageVars
<1>2. VectorsInv'
  BY <1>1, VectorsLast
<1>3. SweepInv'
  BY <1>1, OnwardSelf, SweepLasts
<1>4. Step
  BY <1>1, <1>2, <1>3, StillStep
<1>5. QED
  BY <1>4, <1>1 DEF Step, RowsStep, PagesInv

LEMMA StepKeeps ==
  ASSUME PagesInv, Step
  PROVE  PagesInv' /\ PinnedStep /\ Onward(pages, pages')
<1>1. VersionsInv(pages)' /\ LinksInv(pages, links)'
  BY DEF Step, RowsStep, VersionsInv, LinksInv, LinkInv, PagesType, Drawn, LatestIsNewest, LatestIsKept,
         Chained, ChainedTo, Live, OnPath, Ends, Follows, OnLink
<1>2. QED
  BY <1>1 DEF Step, RowsStep, PagesInv

LEMMA SearchTextStep ==
  ASSUME PagesInv, NEW w \in WorkspaceIds, NEW p \in ProjectIds, NEW q, SearchText(w, p, q)
  PROVE  SearchInv'
<1> DEFINE seen == {i \in LatestRows : pages[i].proj = p}
           born == {i \in PageIds : pages[i] # Unborn}
<1>1. PICK hits \in AnyOf(search_pages_for_project(w, p, q), 2 * SearchLimit) :
        search' = [step |-> "vectors", ws |-> w, proj |-> p, hits |-> hits, seen |-> seen, born |-> born]
  BY DEF SearchText
<1>2. pages' = pages
  BY DEF SearchText, pageVars
<1>3. hits \subseteq seen /\ seen \subseteq PageIds
  BY RowsAreLive DEF AnyOf, search_pages_for_project, Matching, InProject, Live
<1>4. \A i \in seen : Live(pages, i) /\ pages[i].proj = p
  BY RowsAreLive
<1>5. \A i \in PageIds : Live(pages, i) /\ pages[i].latest /\ pages[i].proj = p => i \in seen
  BY RowsAreLive
<1>6. born \subseteq PageIds /\ \A i \in born : pages[i] # Unborn
  OBVIOUS
<1> HIDE DEF seen, born
<1>7. search' \in Searches /\ search'.proj = p /\ search'.hits = hits /\ search'.seen = seen /\ search'.born = born
  BY <1>1, <1>3, <1>6 DEF Searches
<1>8. QED
  BY <1>2, <1>3, <1>4, <1>5, <1>6, <1>7 DEF SearchInv, Known, Live

\* What a later step adds or keeps are pages of the project the search may meet.
LEMMA SearchAdds ==
  ASSUME PagesInv, SearchInv, search # NoSearch, NEW hits, UNCHANGED pages,
         NEW step \in {"graph", "reinforce"},
         search' = [search EXCEPT !.step = step, !.hits = hits],
         \A i \in hits : i \in search.hits \/ (i \in LatestRows /\ pages[i].proj = search.proj)
  PROVE  SearchInv'
<1>1. /\ search \in Searches
      /\ \A i \in search.born : pages[i] # Unborn
      /\ \A i \in search.hits : /\ pages[i] # Unborn /\ Known(i)
                                /\ Live(pages, i) => pages[i].proj = search.proj
      /\ \A i \in PageIds : Live(pages, i) /\ pages[i].latest /\ pages[i].proj = search.proj => Known(i)
  BY DEF SearchInv
<1>2. \A i \in hits : /\ i \in PageIds /\ pages[i] # Unborn /\ Known(i)
                      /\ Live(pages, i) => pages[i].proj = search.proj
  <2>1. search.hits \subseteq PageIds
    BY <1>1 DEF Searches
  <2>2. ASSUME NEW i \in LatestRows, pages[i].proj = search.proj
        PROVE  i \in PageIds /\ pages[i] # Unborn /\ Known(i)
    <3>1. i \in PageIds /\ Live(pages, i) /\ pages[i].latest
      BY RowsAreLive DEF Live
    <3>2. QED
      BY <3>1, <2>2, <1>1 DEF Live
  <2>3. QED
    BY <2>1, <2>2, <1>1
<1>3. /\ search' \in Searches /\ search'.proj = search.proj /\ search'.hits = hits
      /\ search'.seen = search.seen /\ search'.born = search.born
  BY <1>1, <1>2 DEF Searches
<1>4. QED
  BY <1>1, <1>2, <1>3 DEF SearchInv, Known, Live

LEMMA SearchVectorsStep ==
  ASSUME PagesInv, SearchInv, NEW m, SearchVectors(m)
  PROVE  SearchInv'
<1>1. search.step = "vectors" /\ UNCHANGED pages
  BY DEF SearchVectors, pageVars
<1>2. search # NoSearch
  BY <1>1 DEF NoSearch
<1>3. search \in Searches
  BY <1>2 DEF SearchInv
<1>4. \/ search' = [search EXCEPT !.step = "graph"]
      \/ \E near \in AnyOf(load_embeddings(search.ws, search.proj, m), 2 * SearchLimit) :
             search' = [search EXCEPT !.step = "graph", !.hits = search.hits \cup near]
  BY DEF SearchVectors
<1>5. CASE search' = [search EXCEPT !.step = "graph"]
  <2>1. search' = [search EXCEPT !.step = "graph", !.hits = search.hits]
    BY <1>3, <1>5 DEF Searches
  <2>2. QED
    BY <1>1, <1>2, <2>1, SearchAdds
<1>6. ASSUME NEW near \in AnyOf(load_embeddings(search.ws, search.proj, m), 2 * SearchLimit),
             search' = [search EXCEPT !.step = "graph", !.hits = search.hits \cup near]
      PROVE  SearchInv'
  <2>1. \A i \in near : i \in LatestRows /\ pages[i].proj = search.proj
    BY DEF AnyOf, load_embeddings, InProject
  <2>2. QED
    BY <1>1, <1>2, <1>6, <2>1, SearchAdds
<1>7. QED
  BY <1>4, <1>5, <1>6

LEMMA SearchGraphStep ==
  ASSUME PagesInv, SearchInv, SearchGraph
  PROVE  SearchInv'
<1>1. search.step = "graph" /\ UNCHANGED pages
  BY DEF SearchGraph, pageVars
<1>2. search # NoSearch
  BY <1>1 DEF NoSearch
<1>3. PICK near \in AnyOf(graph_neighbors(search.ws, search.proj, search.hits), 2 * SearchLimit) :
        \E hits \in AnyOf(search.hits \cup near, SearchLimit) :
          search' = [search EXCEPT !.step = "reinforce", !.hits = hits]
  BY DEF SearchGraph
<1>4. PICK hits \in AnyOf(search.hits \cup near, SearchLimit) :
        search' = [search EXCEPT !.step = "reinforce", !.hits = hits]
  BY <1>3
<1>5. \A i \in near : i \in LatestRows /\ pages[i].proj = search.proj
  BY DEF AnyOf, graph_neighbors, InProject
<1>6. hits \subseteq search.hits \cup near
  BY DEF AnyOf
<1>7. QED
  BY <1>1, <1>2, <1>4, <1>5, <1>6, SearchAdds

LEMMA SearchStep ==
  ASSUME PagesInv, SearchInv, Search
  PROVE  PagesInv' /\ SearchInv' /\ PinnedStep /\ Onward(pages, pages')
<1>1. ASSUME SearchReinforce
      PROVE  PagesInv' /\ SearchInv' /\ PinnedStep /\ Onward(pages, pages')
  <2>1. SearchInv'
    BY <1>1 DEF SearchReinforce, SearchInv
  <2>2. BumpAccess(search.hits) \/ UNCHANGED pageVars
    BY <1>1 DEF SearchReinforce
  <2>3. QED
    BY <2>1, <2>2, BumpStep, StepKeeps, PagesUnchanged, OnwardSelf DEF pageVars
<1>2. ASSUME NEW w \in WorkspaceIds, NEW p \in ProjectIds, NEW q \in Queries, SearchText(w, p, q)
      PROVE  PagesInv' /\ SearchInv' /\ PinnedStep /\ Onward(pages, pages')
  BY <1>2, SearchTextStep, PagesUnchanged, OnwardSelf DEF SearchText, pageVars
<1>3. ASSUME NEW m \in EmbedModels, SearchVectors(m)
      PROVE  PagesInv' /\ SearchInv' /\ PinnedStep /\ Onward(pages, pages')
  BY <1>3, SearchVectorsStep, PagesUnchanged, OnwardSelf DEF SearchVectors, pageVars
<1>4. ASSUME SearchGraph
      PROVE  PagesInv' /\ SearchInv' /\ PinnedStep /\ Onward(pages, pages')
  BY <1>4, SearchGraphStep, PagesUnchanged, OnwardSelf DEF SearchGraph, pageVars
<1>5. QED
  BY <1>1, <1>2, <1>3, <1>4 DEF Search

-----------------------------------------------------------------------------
(* The theorems.                                                            *)

LEMMA InitInv == InitR => IInv
<1> SUFFICES ASSUME InitR PROVE IInv
  OBVIOUS
<1>1. /\ workspaces = [w \in WorkspaceIds |-> Unborn] /\ projects = [p \in ProjectIds |-> Unborn]
      /\ pages = [i \in PageIds |-> Unborn] /\ links = {} /\ embeddings = [i \in PageIds |-> NULL]
      /\ sweeping = NULL /\ embedding = NoPage /\ search = NoSearch
  BY DEF InitR, Init, ScopesInit
<1>2. \A i \in PageIds : pages[i] = Unborn /\ ~Live(pages, i)
  BY <1>1 DEF Live
<1>3. ScopesTypeOK
  BY <1>1 DEF ScopesTypeOK
<1>4. PagesType(pages)
  BY <1>1 DEF PagesType
<1>5. Drawn(pages)
  <2>1. 0 \in 0..MaxPages /\ \A i \in PageIds : pages[i] = Unborn <=> i > 0
    BY <1>2, PagesAssumption DEF PageIds
  <2>2. QED
    BY <2>1 DEF Drawn
<1>6. VersionsInv(pages) /\ Filed(pages)
  BY <1>2, <1>4, <1>5 DEF VersionsInv, Filed, LatestIsNewest, LatestIsKept, Chained
<1>7. LinksInv(pages, links)
  BY <1>1 DEF LinksInv
<1>8. VectorsInv
  BY <1>1, PagesAssumption DEF VectorsInv, NoPage
<1>9. SweepInv /\ SearchInv
  BY <1>1 DEF SweepInv, SearchInv
<1>10. QED
  BY <1>3, <1>6, <1>7, <1>8, <1>9 DEF IInv

LEMMA NextInv == IInv /\ [NextR]_readerVars => IInv' /\ PinnedStep /\ Onward(pages, pages')
<1> SUFFICES ASSUME IInv, [NextR]_readerVars PROVE IInv' /\ PinnedStep /\ Onward(pages, pages')
  OBVIOUS
<1>1. PagesInv /\ SearchInv /\ VersionsInv(pages)
  BY InvParts DEF PagesInv
<1>2. ASSUME Next, UNCHANGED search
      PROVE  IInv' /\ PinnedStep /\ Onward(pages, pages')
  <2>1. PagesInv' /\ PinnedStep /\ Onward(pages, pages') /\ VersionsInv(pages')
    BY <1>1, <1>2, NextStep, StepKeeps DEF Step, RowsStep
  <2>2. SearchInv'
    BY <1>1, <1>2, <2>1, SearchLasts
  <2>3. QED
    BY <2>1, <2>2 DEF IInv, PagesInv
<1>3. ASSUME Search
      PROVE  IInv' /\ PinnedStep /\ Onward(pages, pages')
  BY <1>1, <1>3, SearchStep DEF IInv, PagesInv
<1>4. ASSUME UNCHANGED readerVars
      PROVE  IInv' /\ PinnedStep /\ Onward(pages, pages')
  <2>1. PagesInv' /\ PinnedStep /\ Onward(pages, pages')
    BY <1>1, <1>4, PagesUnchanged, OnwardSelf DEF readerVars, pageVars
  <2>2. SearchInv'
    <3>1. UNCHANGED pages /\ UNCHANGED search
      BY <1>4 DEF readerVars, pageVars
    <3>2. QED
      BY <1>1, <3>1, OnwardSelf, SearchLasts
  <2>3. QED
    BY <2>1, <2>2 DEF IInv, PagesInv
<1>5. QED
  BY <1>2, <1>3, <1>4 DEF NextR

\* In every reachable state of the store and of the search that reads it: ids are drawn
\* in order, the latest version of a path is its newest, links follow, what the sweep
\* and the search hold by id is what it was.
THEOREM StoreInvariant == SpecR => []IInv
  BY InitInv, NextInv, PTL DEF SpecR

\* Types.
THEOREM StoreTypes == SpecR => []PagesTypeOK
<1>1. IInv => PagesTypeOK
  <2> SUFFICES ASSUME IInv PROVE PagesTypeOK
    OBVIOUS
  <2>1. links \subseteq LinkRows
    BY DEF IInv, LinksInv, LinkInv
  <2>2. sweeping \in (SUBSET PageIds) \cup {NULL}
    BY DEF IInv, SweepInv
  <2>3. QED
    BY <2>1, <2>2 DEF IInv, VersionsInv, PagesType, VectorsInv, PagesTypeOK
<1>2. QED
  BY <1>1, StoreInvariant, PTL

\* Whatever the order of writes, evictions, moves and purges, a path has at most one
\* latest version and every version supersedes an older one of its path.
THEOREM VersionsAreChained == SpecR => []VersionsWellFormed
<1>1. IInv => VersionsWellFormed
  <2> SUFFICES ASSUME IInv PROVE VersionsWellFormed
    OBVIOUS
  <2>1. VersionsInv(pages) /\ Filed(pages)
    BY DEF IInv
  <2>2. \A i, j \in LatestRows : SamePath(i, j) => i = j
    <3> SUFFICES ASSUME NEW i \in LatestRows, NEW j \in LatestRows, SamePath(i, j) PROVE i = j
      OBVIOUS
    <3>1. /\ i \in PageIds /\ Live(pages, i) /\ pages[i].latest
          /\ j \in PageIds /\ Live(pages, j) /\ pages[j].latest
      BY RowsAreLive DEF Live
    <3>2. i <= j /\ j <= i
      BY <3>1, <2>1 DEF VersionsInv, LatestIsNewest, OnPath, SamePath
    <3>3. QED
      BY <3>1, <3>2 DEF PageIds
  <2>3. ASSUME NEW i \in Rows, pages[i].supersedes # NoPage
        PROVE  LET old == pages[i].supersedes IN
               /\ old \in Rows /\ old < i /\ SamePath(i, old)
               /\ ~pages[old].latest /\ pages[old].evicted = "no"
    <3>1. Live(pages, i) /\ i \in PageIds
      BY RowsAreLive DEF Live
    <3>2. ChainedTo(pages, i, pages[i].supersedes)
      BY <3>1, <2>1, <2>3 DEF VersionsInv, Chained
    <3>3. QED
      BY <3>2, RowsAreLive DEF ChainedTo, OnPath, SamePath
  <2>4. \A i \in Rows : ProjectInWorkspace(pages[i].ws, pages[i].proj)
    BY <2>1, RowsAreLive DEF Filed, Live
  <2>5. QED
    BY <2>2, <2>3, <2>4 DEF VersionsWellFormed
<1>2. QED
  BY <1>1, StoreInvariant, PTL

\* A link inside a project follows the path it names through every change.
THEOREM BareLinksAreFollowed == SpecR => []BareLinksFollow
<1>1. IInv => BareLinksFollow
  <2> SUFFICES ASSUME IInv, NEW l \in links, l.proj = NULL
               PROVE  LET p == pages[l.from].proj
                          versions == {i \in Rows : pages[i].proj = p /\ pages[i].path = l.path}
                      IN /\ l.to # NoPage => l.to \in versions /\ \A i \in versions : i <= l.to
                         /\ \A i \in versions : pages[i].latest => l.to = i
    BY DEF BareLinksFollow
  <2>1. Follows(pages, l)
    BY DEF IInv, LinksInv, LinkInv
  <2>2. \A i : i \in Rows /\ pages[i].proj = pages[l.from].proj /\ pages[i].path = l.path
               <=> i \in PageIds /\ OnLink(pages, l, i)
    BY RowsAreLive DEF OnLink, Live
  <2>3. l.to # NoPage => OnLink(pages, l, l.to) /\ l.to \in PageIds
    BY <2>1 DEF Follows, OnLink, Live
  <2>4. \A i : i \in PageIds /\ OnLink(pages, l, i) =>
            /\ l.to # NoPage => i <= l.to
            /\ pages[i].latest => l.to = i
    BY <2>1 DEF Follows
  <2>5. QED
    BY <2>2, <2>3, <2>4
<1>2. QED
  BY <1>1, StoreInvariant, PTL

\* No link and no vector refers to a row that is gone.
THEOREM NothingDangles == SpecR => []NoDanglingRows
<1>1. IInv => NoDanglingRows
  BY RowsAreLive DEF IInv, LinksInv, LinkInv, Ends, VectorsInv, NoDanglingRows
<1>2. QED
  BY <1>1, StoreInvariant, PTL

\* A hybrid search answers with pages of its own project only, although the writer may
\* do anything between its three readings.
THEOREM SearchIsConfined == SpecR => []SearchStaysInProject
<1>1. IInv => SearchStaysInProject
  <2> SUFFICES ASSUME IInv, search.step # "idle", NEW i \in search.hits
               PROVE  /\ i \in search.seen \/ i \notin search.born
                      /\ i \in Rows => pages[i].proj = search.proj
    BY DEF SearchStaysInProject
  <2>1. search # NoSearch
    BY DEF NoSearch
  <2>2. QED
    BY <2>1, RowsAreLive DEF IInv, SearchInv, Known
<1>2. QED
  BY <1>1, StoreInvariant, PTL

\* The sweep evicts no pinned and no semantic page, whatever happened since it chose.
THEOREM PinnedStays == SpecR => PinnedKept
<1>1. IInv /\ [NextR]_readerVars =>
        [\A i \in LatestRows : pages'[i] \notin {Unborn, Gone} =>
            (pages'[i].evicted # "no" => pages[i].content \in Episodic \ Pinned)]_pageVars
  BY NextInv DEF PinnedStep
<1>2. QED
  BY <1>1, StoreInvariant, PTL DEF SpecR, PinnedKept

\* A row is written once: whatever writes, moves, renames, evictions and purges follow, no
\* id comes back to another row, and as long as a row is there it keeps its project, its
\* path and its content and is never again the latest once it was superseded. The search,
\* the sweep and the embedding job, which hold ids between two readings, rest on it.
THEOREM RowsArePermanent == SpecR => [][Onward(pages, pages')]_readerVars
<1>1. IInv /\ [NextR]_readerVars => [Onward(pages, pages')]_readerVars
  BY NextInv
<1>2. QED
  BY <1>1, StoreInvariant, PTL DEF SpecR

-----------------------------------------------------------------------------
(* Sums over finite sets. What the fold of the community modules computes   *)
(* is not given by its definition: the recursive function it chooses has to  *)
(* be shown to exist. A least counterexample stands for the induction.       *)

Chosen(s) == CHOOSE x \in s : TRUE
SumStep(F, g, s) == IF s = {} THEN 0 ELSE F[Chosen(s)] + g[s \ {Chosen(s)}]

SumTable(F) == CHOOSE g : g = [s \in SUBSET DOMAIN F |-> SumStep(F, g, s)]

LEMMA SumIs == \A F : SumFunction(F) = SumTable(F)[DOMAIN F]
  BY DEF SumTable, SumFunction, SumFunctionOnSet, FoldFunctionOnSet, MapThenFoldSet, SumStep, Chosen

\* A set of numbers has a least one.
LEMMA LeastOf ==
  ASSUME NEW T \in SUBSET Nat, T # {}
  PROVE  \E n \in T : \A m \in T : n <= m
<1>1. PICK n \in T : \A m \in T : ~(<<m, n>> \in OpToRel(<, Nat))
  BY NatLessThanWellFounded, WFMin
<1>2. ASSUME NEW m \in T PROVE n <= m
  <2>1. m \in Nat /\ n \in Nat
    OBVIOUS
  <2>2. m < n => <<m, n>> \in OpToRel(<, Nat)
    BY <2>1 DEF OpToRel
  <2>3. ~(m < n)
    BY <1>1, <2>2
  <2>4. QED
    BY <2>1, <2>3
<1>3. QED
  BY <1>2

\* The sum is computed: a function obeys its equation on the sets of at most
\* n elements, for every n.
Sums(F, S, g, n) ==
    /\ g = [s \in SUBSET S |-> g[s]]
    /\ \A s \in SUBSET S : Cardinality(s) <= n => g[s] = SumStep(F, g, s)

LEMMA Less ==
  ASSUME NEW s, IsFiniteSet(s), s # {}
  PROVE  /\ Chosen(s) \in s /\ IsFiniteSet(s \ {Chosen(s)})
         /\ Cardinality(s \ {Chosen(s)}) \in Nat
         /\ Cardinality(s) = Cardinality(s \ {Chosen(s)}) + 1
<1>1. Chosen(s) \in s
  BY DEF Chosen
<1>2. Cardinality(s) \in Nat
  BY FS_CardinalityType
<1>3. IsFiniteSet(s \ {Chosen(s)}) /\ Cardinality(s \ {Chosen(s)}) = Cardinality(s) - 1
  BY <1>1, FS_RemoveElement
<1>4. Cardinality(s \ {Chosen(s)}) \in Nat
  BY <1>3, FS_CardinalityType
<1>5. QED
  BY <1>1, <1>2, <1>3, <1>4

LEMMA SumsUpTo ==
  ASSUME NEW S, IsFiniteSet(S), NEW F, NEW n \in Nat
  PROVE  \E g : Sums(F, S, g, n)
<1> DEFINE Bad == {m \in Nat : ~ \E g : Sums(F, S, g, m)}
<1> SUFFICES ASSUME Bad # {} PROVE FALSE
  OBVIOUS
<1>0. ASSUME NEW s \in SUBSET S
      PROVE  /\ IsFiniteSet(s) /\ Cardinality(s) \in Nat
             /\ s = {} <=> Cardinality(s) = 0
             /\ s # {} => /\ Chosen(s) \in S /\ s \ {Chosen(s)} \in SUBSET S
                          /\ Cardinality(s \ {Chosen(s)}) + 1 = Cardinality(s)
                          /\ Cardinality(s \ {Chosen(s)}) \in Nat
  BY Less, FS_Subset, FS_CardinalityType, FS_EmptySet
<1>1. PICK m \in Bad : \A k \in Bad : m <= k
  BY LeastOf
<1>2. m # 0
  <2> DEFINE g == [s \in SUBSET S |-> 0]
  <2>1. ASSUME NEW s \in SUBSET S, Cardinality(s) <= 0 PROVE g[s] = SumStep(F, g, s)
    <3>1. Cardinality(s) \in Nat /\ (s = {} <=> Cardinality(s) = 0)
      BY <1>0
    <3>3. s = {}
      BY <2>1, <3>1
    <3>2. QED
      BY <3>3 DEF SumStep
  <2>4. Sums(F, S, g, 0)
    BY <2>1 DEF Sums
  <2>2. \E h : Sums(F, S, h, 0)
    BY <2>4
  <2>3. QED
    BY <2>2
<1>3. m - 1 \in Nat /\ m - 1 \notin Bad
  BY <1>1, <1>2
<1>4. PICK g : Sums(F, S, g, m - 1)
  BY <1>3
<1> DEFINE h == [s \in SUBSET S |-> SumStep(F, g, s)]
<1>5. h = [s \in SUBSET S |-> h[s]]
  OBVIOUS
<1>6. ASSUME NEW s \in SUBSET S, Cardinality(s) <= m
      PROVE  h[s] = SumStep(F, h, s)
  <2>1. CASE s = {}
    BY <2>1 DEF SumStep
  <2>2. CASE s # {}
    <3> DEFINE t == s \ {Chosen(s)}
    <3>1. t \in SUBSET S /\ Cardinality(t) <= m - 1
      BY <1>0, <1>6, <2>2
    <3>2. g[t] = SumStep(F, g, t)
      BY <1>4, <3>1 DEF Sums
    <3>3. h[t] = g[t]
      BY <3>1, <3>2
    <3>4. QED
      BY <2>2, <3>3 DEF SumStep
  <2>3. QED
    BY <2>1, <2>2
<1>7. Sums(F, S, h, m)
  BY <1>5, <1>6 DEF Sums
<1>8. \E k : Sums(F, S, k, m)
  BY <1>7
<1>9. QED
  BY <1>1, <1>8

\* The sum over a function obeys its equation.
LEMMA SumObeys ==
  ASSUME NEW S, IsFiniteSet(S), NEW F, S = DOMAIN F
  PROVE  \E g : /\ SumFunction(F) = g[S]
                /\ \A s \in SUBSET S : g[s] = SumStep(F, g, s)
<1>1. PICK h : Sums(F, S, h, Cardinality(S))
  BY SumsUpTo, FS_CardinalityType
<1>2. \A s \in SUBSET S : Cardinality(s) <= Cardinality(S)
  BY FS_Subset
<1>3. h = [s \in SUBSET S |-> SumStep(F, h, s)]
  BY <1>1, <1>2 DEF Sums
<1> DEFINE g == SumTable(F)
<1>4. g = [s \in SUBSET S |-> SumStep(F, g, s)]
  BY <1>3 DEF SumTable
<1>5. SumFunction(F) = g[S]
  BY SumIs
<1> HIDE DEF g
<1>6. \A s \in SUBSET S : g[s] = SumStep(F, g, s)
  BY <1>4
<1>7. QED
  BY <1>5, <1>6

\* The sum of the sizes of disjoint finite sets is the size of their union.
Disjoint(A) == \A x, y \in DOMAIN A : x # y => A[x] \cap A[y] = {}
LEMMA SumOfSizes ==
  ASSUME NEW S, IsFiniteSet(S), NEW A, DOMAIN A = S,
         \A x \in S : IsFiniteSet(A[x]), Disjoint(A)
  PROVE  LET F == [x \in S |-> Cardinality(A[x])] IN
         /\ SumFunction(F) = Cardinality(UNION {A[x] : x \in S})
         /\ IsFiniteSet(UNION {A[x] : x \in S})
<1> DEFINE F == [x \in S |-> Cardinality(A[x])]
           All(s) == UNION {A[x] : x \in s}
           Right(g, s) == IsFiniteSet(All(s)) /\ g[s] = Cardinality(All(s))
<1>0. DOMAIN F = S
  OBVIOUS
<1>1. PICK g : SumFunction(F) = g[S] /\ \A s \in SUBSET S : g[s] = SumStep(F, g, s)
  <2> HIDE DEF F
  <2>1. QED
    BY <1>0, SumObeys
<1> DEFINE Bad == {n \in Nat : \E s \in SUBSET S : Cardinality(s) = n /\ ~Right(g, s)}
<1>2. ASSUME Bad # {} PROVE FALSE
  <2>1. PICK n \in Bad : \A k \in Bad : n <= k
    BY <1>2, LeastOf
  <2>2. PICK s \in SUBSET S : Cardinality(s) = n /\ ~Right(g, s)
    BY <2>1
  <2>3. IsFiniteSet(s) /\ g[s] = SumStep(F, g, s)
    BY <1>1, FS_Subset
  <2>4. s # {}
    <3>1. SUFFICES ASSUME s = {} PROVE FALSE
      OBVIOUS
    <3>2. All(s) = {} /\ g[s] = 0
      BY <2>3, <3>1 DEF SumStep
    <3>3. QED
      BY <2>2, <3>2, FS_EmptySet
  <2> DEFINE x == Chosen(s)
             t == s \ {x}
  <2>5. /\ x \in s /\ x \in S /\ t \in SUBSET S
        /\ Cardinality(t) \in Nat /\ Cardinality(s) = Cardinality(t) + 1
    BY <2>3, <2>4, Less
  <2>6. Right(g, t)
    <3>1. SUFFICES ASSUME ~Right(g, t) PROVE FALSE
      OBVIOUS
    <3>2. Cardinality(t) \in Bad
      BY <2>5, <3>1
    <3>3. n <= Cardinality(t) /\ n = Cardinality(t) + 1
      BY <2>1, <2>2, <2>5, <3>2
    <3>4. QED
      BY <2>5, <3>3
  <2>7. g[s] = Cardinality(A[x]) + Cardinality(All(t))
    BY <2>3, <2>4, <2>5, <2>6 DEF SumStep
  <2>8. All(s) = A[x] \cup All(t)
    BY <2>5
  <2>9. A[x] \cap All(t) = {}
    BY <2>5 DEF Disjoint
  <2> HIDE DEF x, t
  <2>10. IsFiniteSet(A[x]) /\ IsFiniteSet(All(t))
    BY <2>5, <2>6
  <2>11. IsFiniteSet(All(s)) /\ Cardinality(All(s)) = Cardinality(A[x]) + Cardinality(All(t)) - Cardinality({})
    BY <2>8, <2>9, <2>10, FS_Union
  <2>12. Cardinality(A[x]) \in Nat /\ Cardinality(All(t)) \in Nat /\ Cardinality({}) = 0
    BY <2>10, FS_CardinalityType, FS_EmptySet
  <2>13. Right(g, s)
    BY <2>7, <2>11, <2>12
  <2>14. QED
    BY <2>2, <2>13
<1>3. Right(g, S)
  <2>1. SUFFICES ASSUME ~Right(g, S) PROVE FALSE
    OBVIOUS
  <2>2. Cardinality(S) \in Bad
    BY <2>1, FS_CardinalityType
  <2>3. QED
    BY <1>2, <2>2
<1>4. QED
  BY <1>1, <1>3

-----------------------------------------------------------------------------
(* Scopes: names are unique, and there are finitely many of them.           *)

ScopesInv == ScopesSound /\ IsFiniteSet(LiveProjects) /\ IsFiniteSet(LiveWorkspaces)

\* Live ids hold names and rows, and nothing else does.
LEMMA LiveTypes ==
  ASSUME ScopesTypeOK
  PROVE  /\ \A w : w \in LiveWorkspaces <=> w \in WorkspaceIds /\ workspaces[w] \in WsNames
         /\ \A p : p \in LiveProjects <=> p \in ProjectIds /\ projects[p] \in ProjectRows
         /\ \A p \in LiveProjects : projects[p].ws \in WorkspaceIds /\ projects[p].name \in ProjNames
<1>1. \A w : w \in LiveWorkspaces <=> w \in WorkspaceIds /\ workspaces[w] \in WsNames
  BY NamesAssumption DEF ScopesTypeOK, LiveWorkspaces
<1>2. \A p : p \in LiveProjects <=> p \in ProjectIds /\ projects[p] \in ProjectRows
  BY NamesAssumption DEF ScopesTypeOK, LiveProjects
<1>3. QED
  BY <1>1, <1>2 DEF ProjectRows

\* What a step does to the scopes, project by project and name by name.
LEMMA SoundAfter ==
  ASSUME ScopesInv,
         \A v, w \in LiveWorkspaces' : workspaces'[v] = workspaces'[w] => v = w,
         \A p, q \in LiveProjects' :
             projects'[p].ws = projects'[q].ws /\ projects'[p].name = projects'[q].name => p = q,
         \A p \in LiveProjects' : projects'[p].ws \in LiveWorkspaces',
         \E w : LiveWorkspaces' \subseteq LiveWorkspaces \cup {w},
         \E p : LiveProjects' \subseteq LiveProjects \cup {p}
  PROVE  ScopesInv'
<1>1. IsFiniteSet(LiveWorkspaces')
  <2>1. PICK w : LiveWorkspaces' \subseteq LiveWorkspaces \cup {w}
    OBVIOUS
  <2>2. IsFiniteSet(LiveWorkspaces \cup {w})
    BY FS_AddElement DEF ScopesInv
  <2>3. QED
    BY <2>1, <2>2, FS_Subset
<1>2. IsFiniteSet(LiveProjects')
  <2>1. PICK p : LiveProjects' \subseteq LiveProjects \cup {p}
    OBVIOUS
  <2>2. IsFiniteSet(LiveProjects \cup {p})
    BY FS_AddElement DEF ScopesInv
  <2>3. QED
    BY <2>1, <2>2, FS_Subset
<1>3. QED
  BY <1>1, <1>2 DEF ScopesInv, ScopesSound

LEMMA SoundUnchanged ==
  ASSUME ScopesInv, UNCHANGED <<workspaces, projects>>
  PROVE  ScopesInv'
  BY DEF ScopesInv, ScopesSound, LiveProjects, LiveWorkspaces

LEMMA SoundCreateWorkspace ==
  ASSUME ScopesTypeOK, ScopesInv, NEW n \in WsNames, NEW w \in WorkspaceIds, GetOrCreateWorkspace(n, w)
  PROVE  ScopesInv'
<1>1. /\ workspaces' = [workspaces EXCEPT ![w] = n] /\ projects' = projects
      /\ \A v \in LiveWorkspaces : workspaces[v] # n
      /\ w \notin LiveWorkspaces
  BY DEF GetOrCreateWorkspace, WorkspaceNamed, LiveWorkspaces
<1>2. /\ LiveWorkspaces' = LiveWorkspaces \cup {w} /\ LiveProjects' = LiveProjects
      /\ \A v \in LiveWorkspaces : workspaces'[v] = workspaces[v]
      /\ workspaces'[w] = n
  BY <1>1, NamesAssumption DEF ScopesTypeOK, LiveWorkspaces, LiveProjects
<1>3. QED
  BY <1>1, <1>2, SoundAfter DEF ScopesInv, ScopesSound

LEMMA SoundCreateProject ==
  ASSUME ScopesTypeOK, ScopesInv, NEW w \in WorkspaceIds, NEW n \in ProjNames, NEW p \in ProjectIds,
         GetOrCreateProject(w, n, NULL, p)
  PROVE  ScopesInv'
<1> DEFINE row == [ws |-> w, name |-> n, repo |-> NULL]
<1>1. /\ projects' = [projects EXCEPT ![p] = row] /\ workspaces' = workspaces
      /\ \A q \in LiveProjects : ~(projects[q].ws = w /\ projects[q].name = n)
      /\ p \notin LiveProjects /\ w \in LiveWorkspaces
  BY DEF GetOrCreateProject, ProjectNamed, LiveProjects
<1>2. row \in ProjectRows /\ row.ws = w /\ row.name = n
  BY DEF ProjectRows
<1> HIDE DEF row
<1>3. /\ LiveProjects' = LiveProjects \cup {p} /\ LiveWorkspaces' = LiveWorkspaces
      /\ \A q \in LiveProjects : projects'[q] = projects[q]
      /\ projects'[p] = row
  BY <1>1, <1>2, NamesAssumption DEF ScopesTypeOK, LiveProjects, LiveWorkspaces
<1>4. QED
  BY <1>1, <1>2, <1>3, SoundAfter DEF ScopesInv, ScopesSound

\* A project is renamed or moved: its row changes to one no other project has.
LEMMA SoundRelabelProject ==
  ASSUME ScopesTypeOK, ScopesInv, NEW p \in LiveProjects, NEW row \in ProjectRows,
         projects' = [projects EXCEPT ![p] = row], workspaces' = workspaces,
         row.ws \in LiveWorkspaces, ProjectNamed(row.ws, row.name) \subseteq {p}
  PROVE  ScopesInv'
<1>1. /\ LiveProjects' = LiveProjects /\ LiveWorkspaces' = LiveWorkspaces
      /\ \A q \in LiveProjects : projects'[q] = IF q = p THEN row ELSE projects[q]
  BY NamesAssumption DEF ScopesTypeOK, LiveProjects, LiveWorkspaces
<1>2. \A q \in LiveProjects : projects[q].ws = row.ws /\ projects[q].name = row.name => q = p
  BY DEF ProjectNamed
<1>3. \A q, r \in LiveProjects :
        projects'[q].ws = projects'[r].ws /\ projects'[q].name = projects'[r].name => q = r
  BY <1>1, <1>2 DEF ScopesInv, ScopesSound
<1>4. \A q \in LiveProjects : projects'[q].ws \in LiveWorkspaces
  BY <1>1 DEF ScopesInv, ScopesSound
<1>5. QED
  BY <1>1, <1>3, <1>4, SoundAfter DEF ScopesInv, ScopesSound

LEMMA SoundRenameProject ==
  ASSUME ScopesTypeOK, ScopesInv, NEW w, NEW p \in ProjectIds, NEW n \in ProjNames, RenameProject(w, p, n)
  PROVE  ScopesInv'
<1> DEFINE row == [projects[p] EXCEPT !.name = n]
<1>1. /\ p \in LiveProjects /\ projects[p].ws = w /\ ProjectNamed(w, n) \subseteq {p}
      /\ projects' = [projects EXCEPT ![p] = row] /\ workspaces' = workspaces
  BY DEF RenameProject, ProjectInWorkspace
<1>2. row \in ProjectRows /\ row.ws = w /\ row.name = n
  BY <1>1, LiveTypes DEF ProjectRows
<1>3. w \in LiveWorkspaces
  BY <1>1 DEF ScopesInv, ScopesSound
<1> HIDE DEF row
<1>4. QED
  BY <1>1, <1>2, <1>3, SoundRelabelProject

LEMMA SoundMoveProject ==
  ASSUME ScopesTypeOK, ScopesInv, NEW p \in ProjectIds, NEW from, NEW to \in WorkspaceIds,
         MoveProjectWorkspace(p, from, to)
  PROVE  ScopesInv'
<1> DEFINE row == [projects[p] EXCEPT !.ws = to]
<1>1. /\ p \in LiveProjects /\ to \in LiveWorkspaces /\ ProjectNamed(to, projects[p].name) \subseteq {p}
      /\ projects' = [projects EXCEPT ![p] = row] /\ workspaces' = workspaces
  BY DEF MoveProjectWorkspace, ProjectInWorkspace
<1>2. row \in ProjectRows /\ row.ws = to /\ row.name = projects[p].name
  BY <1>1, LiveTypes DEF ProjectRows
<1> HIDE DEF row
<1>3. QED
  BY <1>1, <1>2, SoundRelabelProject

LEMMA SoundRenameWorkspace ==
  ASSUME ScopesTypeOK, ScopesInv, NEW w \in WorkspaceIds, NEW n \in WsNames, RenameWorkspace(w, n)
  PROVE  ScopesInv'
<1>1. /\ w \in LiveWorkspaces /\ workspaces' = [workspaces EXCEPT ![w] = n] /\ projects' = projects
      /\ \A v \in LiveWorkspaces : workspaces[v] = n => v = w
  BY DEF RenameWorkspace, WorkspaceNamed
<1>2. /\ LiveWorkspaces' = LiveWorkspaces /\ LiveProjects' = LiveProjects
      /\ \A v \in LiveWorkspaces : workspaces'[v] = IF v = w THEN n ELSE workspaces[v]
  BY <1>1, NamesAssumption DEF ScopesTypeOK, LiveWorkspaces, LiveProjects
<1>3. \A u, v \in LiveWorkspaces : workspaces'[u] = workspaces'[v] => u = v
  BY <1>1, <1>2 DEF ScopesInv, ScopesSound
<1>4. QED
  BY <1>1, <1>2, <1>3, SoundAfter DEF ScopesInv, ScopesSound

\* Projects that go, alone or with their workspace.
LEMMA SoundDrop ==
  ASSUME ScopesTypeOK, ScopesInv, NEW ps, DropProjects(ps)
  PROVE  /\ LiveProjects' = LiveProjects \ ps
         /\ \A p \in LiveProjects' : projects'[p] = projects[p]
  BY NamesAssumption DEF DropProjects, ScopesTypeOK, LiveProjects

LEMMA SoundPurge ==
  ASSUME ScopesTypeOK, ScopesInv, NEW w, NEW p, PurgeProject(w, p)
  PROVE  ScopesInv'
<1>1. DropProjects({p}) /\ workspaces' = workspaces
  BY DEF PurgeProject
<1>2. LiveProjects' = LiveProjects \ {p} /\ (\A q \in LiveProjects' : projects'[q] = projects[q])
      /\ LiveWorkspaces' = LiveWorkspaces
  BY <1>1, SoundDrop DEF LiveWorkspaces
<1>3. QED
  BY <1>1, <1>2, SoundAfter DEF ScopesInv, ScopesSound

LEMMA SoundDeleteWorkspace ==
  ASSUME ScopesTypeOK, ScopesInv, NEW w \in WorkspaceIds, NEW force, DeleteWorkspace(w, force)
  PROVE  ScopesInv'
<1>1. DropProjects(ProjectsOf(w)) /\ workspaces' = [workspaces EXCEPT ![w] = Gone]
  BY DEF DeleteWorkspace
<1>2. LiveProjects' = LiveProjects \ ProjectsOf(w) /\ (\A q \in LiveProjects' : projects'[q] = projects[q])
  BY <1>1, SoundDrop
<1>3. LiveWorkspaces' = LiveWorkspaces \ {w} /\ \A v \in LiveWorkspaces' : workspaces'[v] = workspaces[v]
  BY <1>1, NamesAssumption DEF LiveWorkspaces, ScopesTypeOK
<1>4. \A p \in LiveProjects' : projects[p].ws # w
  BY <1>2 DEF ProjectsOf
<1>5. QED
  BY <1>2, <1>3, <1>4, SoundAfter DEF ScopesInv, ScopesSound

\* The image of a finite set.
LEMMA ImageIsFinite ==
  ASSUME NEW S, IsFiniteSet(S), NEW F, DOMAIN F = S
  PROVE  IsFiniteSet({F[x] : x \in S})
<1> DEFINE T == {F[x] : x \in S}
           G == [x \in S |-> F[x]]
<1>1. G \in Surjection(S, T)
  BY DEF Surjection
<1>2. QED
  BY <1>1, FS_Surjection

LEMMA LinksAfterWrite ==
  ASSUME NEW db, TablesInv(db), HasRoom(db.pages, 1), NEW page \in PageInputs, Fits(page),
         IsFiniteSet(db.links)
  PROVE  IsFiniteSet(upsert_page_in_tx(db, page).links)
<1> DEFINE id == NextPageId(db.pages)
           q == WithRow(db.pages, page)
           made == replace_links(q, db.links, id)
           new == [pages |-> q, links |-> refresh_incoming_links(q, made, id)]
           r == upsert_page_in_tx(db, page)
<1>1. r = db \/ r = new
  BY DEF upsert_page_in_tx, WithRow, Retired, Before, NewRow
<1> DEFINE kept == {l \in db.links : l.from # id}
           own == {NewLink(q, id, l) : l \in LinksOf(q[id].content)}
<1>2. made = kept \cup own
  BY DEF replace_links, NewLink
<1>3. IsFiniteSet(kept)
  BY FS_Subset
<1>8. IsFiniteSet(LinksOf(q[id].content))
  <2>1. RowAdded(db.pages, q, page, Before(db.pages, page), id)
    BY WriteAddsRow DEF TablesInv
  <2> HIDE DEF q, id
  <2>2. q[id].content \in Contents
    BY <2>1, RowTypes DEF RowAdded
  <2>3. QED
    BY <2>2, PagesAssumption
<1>4. IsFiniteSet(own)
  <2> DEFINE F == [l \in LinksOf(q[id].content) |-> NewLink(q, id, l)]
  <2>1. own = {F[l] : l \in LinksOf(q[id].content)} /\ DOMAIN F = LinksOf(q[id].content)
    OBVIOUS
  <2> HIDE DEF F, own, q, id
  <2>2. QED
    BY <1>8, <2>1, ImageIsFinite
<1> HIDE DEF made, kept, own, q, id
<1>5. IsFiniteSet(made)
  BY <1>2, <1>3, <1>4, FS_Union
<1>6. IsFiniteSet(refresh_incoming_links(q, made, id))
  <2> DEFINE F == [l \in made |-> Moved(q, id, l)]
  <2>1. refresh_incoming_links(q, made, id) = {F[l] : l \in made} /\ DOMAIN F = made
    BY RefreshMoves
  <2> HIDE DEF F
  <2>2. QED
    BY <1>5, <2>1, ImageIsFinite
<1>7. QED
  BY <1>1, <1>6

LEMMA LinksAfterRemoval ==
  ASSUME NEW lks, IsFiniteSet(lks), NEW gone
  PROVE  IsFiniteSet(LeftLinks(lks, gone))
<1> DEFINE kept == {k \in lks : k.from \notin gone}
           F == [l \in kept |-> IF l.to \in gone THEN [l EXCEPT !.to = NoPage] ELSE l]
<1>1. IsFiniteSet(kept)
  BY FS_Subset
<1>2. LeftLinks(lks, gone) = {F[l] : l \in kept} /\ DOMAIN F = kept
  BY DEF LeftLinks
<1> HIDE DEF F, kept
<1>3. QED
  BY <1>1, <1>2, ImageIsFinite

-----------------------------------------------------------------------------
(* The scopes are sound and the tables finite, after any step.              *)

FiniteInv == ScopesInv /\ IsFiniteSet(links)

LEMMA FiniteStep == ASSUME PagesInv, FiniteInv, Next PROVE FiniteInv'
<1>0. ScopesTypeOK /\ ScopesInv
  BY DEF PagesInv, FiniteInv
<1>1. ASSUME UNCHANGED <<workspaces, projects>>, IsFiniteSet(links') PROVE FiniteInv'
  BY <1>1, SoundUnchanged DEF FiniteInv
<1>2. ASSUME UNCHANGED <<workspaces, projects>>, UNCHANGED links PROVE FiniteInv'
  BY <1>1, <1>2 DEF FiniteInv
<1>3. ASSUME NEW gone, RemoveRows(gone) PROVE IsFiniteSet(links')
  BY <1>3, RemovalIs, LinksAfterRemoval DEF FiniteInv
<1>4. ASSUME ScopesInv', UNCHANGED links PROVE FiniteInv'
  BY <1>4 DEF FiniteInv
<1>5. TablesInv(Tables) /\ Tables.pages = pages /\ Tables.links = links
  BY DEF PagesInv, TablesInv, Tables
<1>6. CASE CreateWorkspace
  <2>1. PICK n \in WsNames, w \in WorkspaceIds : GetOrCreateWorkspace(n, w) /\ UNCHANGED links
    BY <1>6 DEF CreateWorkspace
  <2>2. QED
    BY <1>0, <1>4, <2>1, SoundCreateWorkspace
<1>7. CASE CreateProject
  <2>1. PICK w \in WorkspaceIds, n \in ProjNames, p \in ProjectIds :
          GetOrCreateProject(w, n, NULL, p) /\ UNCHANGED links
    BY <1>7 DEF CreateProject
  <2>2. QED
    BY <1>0, <1>4, <2>1, SoundCreateProject
<1>8. CASE WritePage
  <2>1. PICK w \in WorkspaceIds, p \in ProjectIds : \E page \in PagesOf(w, p) : UpsertPage(page)
    BY <1>8 DEF WritePage
  <2>2. PICK page \in PageInputs : UpsertPage(page)
    BY <2>1 DEF PagesOf, PageInputs
  <2>3. HasRoom(pages, 1) /\ Fits(page) /\ links' = upsert_page_in_tx(Tables, page).links
        /\ UNCHANGED <<workspaces, projects>>
    BY <2>2 DEF UpsertPage, Commit
  <2>4. QED
    BY <1>1, <1>5, <2>3, LinksAfterWrite DEF FiniteInv
<1>9. CASE WriteBatch
  <2>1. PICK w \in WorkspaceIds, p \in ProjectIds :
          \E first, second \in PagesOf(w, p) : UpsertPages(first, second)
    BY <1>9 DEF WriteBatch
  <2>2. PICK first \in PageInputs, second \in PageInputs : UpsertPages(first, second)
    BY <2>1 DEF PagesOf, PageInputs
  <2> DEFINE one == upsert_page_in_tx(Tables, first)
             two == upsert_page_in_tx(one, second)
  <2>3. HasRoom(pages, 2) /\ Fits(first) /\ Fits(second) /\ links' = two.links
        /\ UNCHANGED <<workspaces, projects>>
    BY <2>2 DEF UpsertPages, Commit
  <2>4. HasRoom(pages, 1)
    BY <2>3, PagesAssumption DEF HasRoom, PageIds
  <2>5. TablesInv(one) /\ HasRoom(one.pages, 1) /\ IsFiniteSet(one.links)
    BY <1>0, <1>5, <2>3, <2>4, WriteKeeps, LinksAfterWrite DEF FiniteInv
  <2> HIDE DEF one
  <2>6. IsFiniteSet(two.links)
    BY <2>3, <2>5, LinksAfterWrite
  <2>7. QED
    BY <1>1, <2>3, <2>6
<1>10. CASE RemovePages
  <2>1. ASSUME NEW w, NEW p, NEW path, DeletePage(w, p, path) PROVE FiniteInv'
    BY <1>1, <1>3, <2>1 DEF DeletePage
  <2>2. ASSUME NEW w, NEW p, PurgeProjectPages(w, p) PROVE FiniteInv'
    BY <1>0, <1>3, <2>2, SoundPurge DEF PurgeProjectPages, FiniteInv
  <2>3. ASSUME NEW w \in WorkspaceIds, NEW force, DeleteWorkspacePages(w, force) PROVE FiniteInv'
    BY <1>0, <1>3, <2>3, SoundDeleteWorkspace DEF DeleteWorkspacePages, FiniteInv
  <2>4. QED
    BY <1>10, <2>1, <2>2, <2>3 DEF RemovePages
<1>11. CASE RelabelPages
  <2>1. ASSUME NEW p \in ProjectIds, NEW v \in WorkspaceIds, NEW w \in WorkspaceIds, MoveProjectPages(p, v, w)
        PROVE  FiniteInv'
    BY <1>0, <1>4, <2>1, SoundMoveProject DEF MoveProjectPages
  <2>2. ASSUME NEW w, NEW p \in ProjectIds, NEW n \in ProjNames, RenameProjectPages(w, p, n) PROVE FiniteInv'
    BY <1>0, <1>4, <2>2, SoundRenameProject DEF RenameProjectPages
  <2>3. ASSUME NEW w \in WorkspaceIds, NEW n \in WsNames, RenameWorkspacePages(w, n) PROVE FiniteInv'
    BY <1>0, <1>4, <2>3, SoundRenameWorkspace DEF RenameWorkspacePages
  <2>4. ASSUME NEW w, ReorgPages(w) PROVE FiniteInv'
    BY <1>2, <2>4 DEF ReorgPages
  <2>5. QED
    BY <1>11, <2>1, <2>2, <2>3, <2>4 DEF RelabelPages
<1>12. CASE Decay
  <2>1. ASSUME NEW i, BumpAccess({i}) PROVE FiniteInv'
    BY <1>2, <2>1 DEF BumpAccess
  <2>2. ASSUME RetentionPasses PROVE FiniteInv'
    BY <1>2, <2>2 DEF RetentionPasses
  <2>3. ASSUME NEW w, NEW p, SweepRead(w, p) PROVE FiniteInv'
    BY <1>2, <2>3 DEF SweepRead
  <2>4. ASSUME SoftDeleteForDecay PROVE FiniteInv'
    BY <1>2, <2>4 DEF SoftDeleteForDecay
  <2>5. ASSUME HardDeleteDecayed PROVE FiniteInv'
    BY <1>1, <1>3, <2>5 DEF HardDeleteDecayed
  <2>6. QED
    BY <1>12, <2>1, <2>2, <2>3, <2>4, <2>5 DEF Decay
<1>13. CASE Embed
  <2>1. UNCHANGED <<workspaces, projects>> /\ UNCHANGED links
    BY <1>13 DEF Embed, EmbedStart, StoreEmbedding, DeleteStaleEmbeddings
  <2>2. QED
    BY <1>2, <2>1
<1>14. QED
  BY <1>6, <1>7, <1>8, <1>9, <1>10, <1>11, <1>12, <1>13 DEF Next

LEMMA FiniteInit == InitR => FiniteInv
<1> SUFFICES ASSUME InitR PROVE FiniteInv
  OBVIOUS
<1>1. LiveProjects = {} /\ LiveWorkspaces = {} /\ links = {}
  BY DEF InitR, Init, ScopesInit, LiveProjects, LiveWorkspaces
<1>2. QED
  BY <1>1, FS_EmptySet DEF FiniteInv, ScopesInv, ScopesSound

\* At every moment workspace names are unique, project names are unique in their
\* workspace, every project is in a workspace that exists, and the tables are finite:
\* the purges, moves and renames of the store keep the names a request is resolved by.
THEOREM ScopesStaySound == SpecR => []FiniteInv
<1>1. IInv /\ FiniteInv /\ [NextR]_readerVars => FiniteInv'
  <2> SUFFICES ASSUME IInv, FiniteInv, [NextR]_readerVars PROVE FiniteInv'
    OBVIOUS
  <2>1. PagesInv
    BY InvParts
  <2>2. CASE Next
    BY <2>1, <2>2, FiniteStep
  <2>3. ASSUME UNCHANGED <<workspaces, projects, links>> PROVE FiniteInv'
    BY <2>3, SoundUnchanged DEF FiniteInv
  <2>4. CASE Search
    <3>1. ASSUME SearchReinforce PROVE FiniteInv'
      BY <2>3, <3>1 DEF SearchReinforce, BumpAccess, pageVars
    <3>2. QED
      BY <2>3, <2>4, <3>1 DEF Search, SearchText, SearchVectors, SearchGraph, pageVars
  <2>5. CASE UNCHANGED readerVars
    BY <2>3, <2>5 DEF readerVars, pageVars
  <2>6. QED
    BY <2>2, <2>4, <2>5 DEF NextR
<1>2. QED
  BY <1>1, FiniteInit, StoreInvariant, PTL DEF SpecR

-----------------------------------------------------------------------------
(* Names and scopes.                                                        *)

\* A live scope by its ids and by its names.
LEMMA ScopeOf ==
  ASSUME ScopesTypeOK, ScopesInv, NEW s \in LiveScopes
  PROVE  /\ s[2] \in LiveProjects /\ s[1] = projects[s[2]].ws /\ s = <<s[1], s[2]>>
         /\ s[1] \in LiveWorkspaces /\ s[1] \in WorkspaceIds /\ s[2] \in ProjectIds
         /\ workspaces[s[1]] \in WsNames /\ projects[s[2]].name \in ProjNames
         /\ find_workspace(workspaces[s[1]]) = {s[1]}
         /\ find_project(s[1], projects[s[2]].name) = {s[2]}
         /\ NameOf(s).ws # NULL /\ NameOf(s).proj # NULL
         /\ lookup_existing_scope(NameOf(s).ws, NameOf(s).proj) = {s}
         /\ s # NULL /\ {s} # Everywhere /\ {s} # Refused
<1>1. PICK p \in LiveProjects : s = <<projects[p].ws, p>>
  BY DEF LiveScopes
<1>2. s[2] \in LiveProjects /\ s[1] = projects[s[2]].ws /\ s = <<s[1], s[2]>>
  BY <1>1
<1>3. /\ s[1] \in LiveWorkspaces /\ s[1] \in WorkspaceIds /\ s[2] \in ProjectIds
      /\ workspaces[s[1]] \in WsNames /\ projects[s[2]].name \in ProjNames
  BY <1>2, LiveTypes DEF ScopesInv, ScopesSound
<1>4. find_workspace(workspaces[s[1]]) = {s[1]}
  BY <1>3 DEF find_workspace, WorkspaceNamed, ScopesInv, ScopesSound
<1>5. find_project(s[1], projects[s[2]].name) = {s[2]}
  BY <1>2 DEF find_project, ProjectNamed, ScopesInv, ScopesSound
<1>6. NameOf(s).ws = workspaces[s[1]] /\ NameOf(s).proj = projects[s[2]].name
  BY DEF NameOf
<1>7. lookup_existing_scope(workspaces[s[1]], projects[s[2]].name) = {<<s[1], s[2]>>}
  BY <1>4, <1>5 DEF lookup_existing_scope
<1>8. NULL \notin WsNames \cup ProjNames
  BY NamesAssumption
<1>9. s # NULL
  BY <1>2, <1>3, ToolsAssumption, ReaderAssumption
<1>10. s # <<NULL, NULL>>
  BY <1>2, <1>3, ToolsAssumption, ReaderAssumption
<1>11. QED
  BY <1>2, <1>3, <1>4, <1>5, <1>6, <1>7, <1>8, <1>9, <1>10 DEF Everywhere, Refused

\* A bare project name, looked up in one workspace.
In(w, pn) == {<<w, p>> : p \in find_project(w, pn)}
LEMMA InWorkspaceOnly ==
  ASSUME NEW w, NEW pn
  PROVE  \A s \in In(w, pn) : s \in LiveScopes /\ s[1] = w /\ s[2] \in LiveProjects
  BY DEF In, find_project, ProjectNamed, LiveScopes

LEMMA CurrentOrProject ==
  ASSUME NEW pn, pn # NULL, NEW active, NEW default
  PROVE  resolve_current_or_project(pn, active, default)
             = IF active # NULL /\ In(active[1], pn) # {} THEN In(active[1], pn) ELSE In(default[1], pn)
  BY DEF resolve_current_or_project, In

LEMMA NamesDoAgree ==
  ASSUME ScopesTypeOK, ScopesInv
  PROVE  NamesAgree
<1> SUFFICES ASSUME NEW default \in LiveScopes, NEW active \in LiveScopes \cup {NULL}
             PROVE
        /\ \A s \in LiveScopes :
               /\ resolve_read_args(NameOf(s), active, default) = {s}
               /\ resolve_read_args(NoNames, s, default) = {s}
               /\ resolve_current_or_project(NameOf(s).proj, s, default) = {s}
               /\ s[1] = default[1] => resolve_current_or_project(NameOf(s).proj, active, default) # {}
        /\ \A pn \in ProjNames : \A s \in resolve_current_or_project(pn, active, default) :
               s \in LiveScopes /\ s[1] \in {default[1]} \cup (IF active = NULL THEN {} ELSE {active[1]})
        /\ \A wn \in WsNames : resolve_read_args([ws |-> wn, proj |-> NULL], active, default) = {}
        /\ \A pn \in ProjNames : LET write == resolve_write_args([ws |-> NULL, proj |-> pn], active, default)
                                     read  == resolve_read_args([ws |-> NULL, proj |-> pn], active, default)
                                 IN active = NULL \/ active[1] = default[1] =>
                                        read \subseteq {<<w, p>> : w \in write.ws, p \in LiveProjects}
  BY DEF NamesAgree
<1>1. ASSUME NEW s \in LiveScopes
      PROVE  /\ resolve_read_args(NameOf(s), active, default) = {s}
             /\ resolve_read_args(NoNames, s, default) = {s}
             /\ resolve_current_or_project(NameOf(s).proj, s, default) = {s}
             /\ s[1] = default[1] => resolve_current_or_project(NameOf(s).proj, active, default) # {}
  <2> DEFINE pn == NameOf(s).proj
  <2>1. pn # NULL /\ NameOf(s).ws # NULL /\ s # NULL /\ s = <<s[1], s[2]>>
        /\ lookup_existing_scope(NameOf(s).ws, pn) = {s}
    BY <1>1, ScopeOf
  <2>2. resolve_read_args(NameOf(s), active, default) = {s}
    BY <2>1 DEF resolve_read_args
  <2>3. resolve_read_args(NoNames, s, default) = {s}
    BY <2>1 DEF resolve_read_args, NoNames, resolve_current_or_project
  <2>4. In(s[1], pn) = {s}
    BY <1>1, <2>1, ScopeOf DEF In, NameOf
  <2> HIDE DEF pn
  <2>5. resolve_current_or_project(pn, s, default) = {s}
    BY <2>1, <2>4, CurrentOrProject
  <2>6. s[1] = default[1] => resolve_current_or_project(pn, active, default) # {}
    BY <2>1, <2>4, CurrentOrProject
  <2>7. QED
    BY <2>2, <2>3, <2>5, <2>6 DEF pn
<1>2. ASSUME NEW pn \in ProjNames
      PROVE  /\ pn # NULL
             /\ resolve_read_args([ws |-> NULL, proj |-> pn], active, default)
                    = resolve_current_or_project(pn, active, default)
             /\ \A s \in resolve_current_or_project(pn, active, default) :
                    /\ s \in LiveScopes /\ s[2] \in LiveProjects /\ s = <<s[1], s[2]>>
                    /\ s[1] = default[1] \/ (active # NULL /\ s[1] = active[1])
  <2>1. pn # NULL
    BY <1>2, NamesAssumption
  <2>2. resolve_read_args([ws |-> NULL, proj |-> pn], active, default)
            = resolve_current_or_project(pn, active, default)
    BY <2>1 DEF resolve_read_args
  <2>3. \A s \in resolve_current_or_project(pn, active, default) :
            /\ s \in LiveScopes /\ s[2] \in LiveProjects
            /\ s[1] = default[1] \/ (active # NULL /\ s[1] = active[1])
    <3>1. resolve_current_or_project(pn, active, default)
              = IF active # NULL /\ In(active[1], pn) # {} THEN In(active[1], pn) ELSE In(default[1], pn)
      BY <2>1, CurrentOrProject
    <3>2. CASE active # NULL /\ In(active[1], pn) # {}
      BY <3>1, <3>2, InWorkspaceOnly
    <3>3. CASE ~(active # NULL /\ In(active[1], pn) # {})
      BY <3>1, <3>3, InWorkspaceOnly
    <3>4. QED
      BY <3>2, <3>3
  <2>4. QED
    BY <2>1, <2>2, <2>3, ScopeOf
<1>3. ASSUME NEW wn \in WsNames
      PROVE  resolve_read_args([ws |-> wn, proj |-> NULL], active, default) = {}
  BY <1>3, NamesAssumption DEF resolve_read_args, Refused
<1>4. ASSUME NEW pn \in ProjNames, active = NULL \/ active[1] = default[1]
      PROVE  resolve_read_args([ws |-> NULL, proj |-> pn], active, default)
                 \subseteq {<<w, p>> : w \in resolve_write_args([ws |-> NULL, proj |-> pn], active, default).ws,
                                       p \in LiveProjects}
  <2>1. resolve_write_args([ws |-> NULL, proj |-> pn], active, default).ws = {default[1]}
    BY <1>2, <1>4 DEF resolve_write_args
  <2>2. ASSUME NEW s \in resolve_read_args([ws |-> NULL, proj |-> pn], active, default)
        PROVE  s \in {<<w, p>> : w \in {default[1]}, p \in LiveProjects}
    <3>1. s[2] \in LiveProjects /\ s = <<s[1], s[2]>> /\ s[1] = default[1]
      BY <1>2, <1>4, <2>2
    <3>2. QED
      BY <3>1
  <2>3. QED
    BY <2>1, <2>2
<1>5. \A pn \in ProjNames : \A s \in resolve_current_or_project(pn, active, default) :
          s \in LiveScopes /\ s[1] \in {default[1]} \cup (IF active = NULL THEN {} ELSE {active[1]})
  BY <1>2
<1>6. \A pn \in ProjNames :
          LET write == resolve_write_args([ws |-> NULL, proj |-> pn], active, default)
              read  == resolve_read_args([ws |-> NULL, proj |-> pn], active, default)
          IN active = NULL \/ active[1] = default[1] =>
                 read \subseteq {<<w, p>> : w \in write.ws, p \in LiveProjects}
  BY <1>4
<1>7. QED
  BY <1>1, <1>3, <1>5, <1>6

-----------------------------------------------------------------------------
(* The pages of a scope.                                                    *)

Stored == PagesInv /\ FiniteInv

LEMMA StoredScopes == Stored => ScopesTypeOK /\ ScopesInv
  BY DEF Stored, PagesInv, FiniteInv

LEMMA RowScope ==
  ASSUME Stored, NEW i \in Rows
  PROVE  /\ i \in PageIds /\ i \in Nat /\ i # NoPage
         /\ pages[i].proj \in LiveProjects /\ pages[i].ws = projects[pages[i].proj].ws
         /\ pages[i].ws \in LiveWorkspaces
         /\ <<pages[i].ws, pages[i].proj>> \in LiveScopes
         /\ pages[i].path \in Paths /\ pages[i].content \in Contents
<1>1. Live(pages, i)
  BY RowsAreLive
<1>2. /\ i \in PageIds /\ i \in Nat /\ i # NoPage
      /\ pages[i].path \in Paths /\ pages[i].content \in Contents
  BY <1>1, RowTypes DEF Stored, PagesInv, VersionsInv
<1>3. pages[i].proj \in LiveProjects /\ projects[pages[i].proj].ws = pages[i].ws
  BY <1>1, <1>2 DEF Stored, PagesInv, Filed, ProjectInWorkspace
<1>4. <<pages[i].ws, pages[i].proj>> \in LiveScopes /\ pages[i].ws \in LiveWorkspaces
  BY <1>3 DEF LiveScopes, Stored, FiniteInv, ScopesInv, ScopesSound
<1>5. QED
  BY <1>2, <1>3, <1>4

LEMMA LatestAreRows == LatestRows \subseteq Rows
  BY DEF LatestRows

\* The latest pages that carry the names of a scope are the ones filed in it.
LEMMA ListedByName ==
  ASSUME Stored, NEW s \in LiveScopes
  PROVE  /\ list_pages(NameOf(s).ws, NameOf(s).proj) = InProject(s[1], s[2])
         /\ pages_handler(NameOf(s).ws, NameOf(s).proj) = InProject(s[1], s[2])
         /\ InProject(s[1], s[2]) = {i \in LatestRows : pages[i].proj = s[2]}
<1>0. ScopesTypeOK /\ ScopesInv
  BY StoredScopes
<1>1. ASSUME NEW i \in LatestRows
      PROVE  /\ workspaces[pages[i].ws] = NameOf(s).ws /\ projects[pages[i].proj].name = NameOf(s).proj
                    => pages[i].ws = s[1] /\ pages[i].proj = s[2]
             /\ pages[i].proj = s[2] => pages[i].ws = s[1]
  <2>1. pages[i].proj \in LiveProjects /\ pages[i].ws = projects[pages[i].proj].ws /\ pages[i].ws \in LiveWorkspaces
    BY RowScope, LatestAreRows
  <2>2. s[2] \in LiveProjects /\ s[1] = projects[s[2]].ws /\ s[1] \in LiveWorkspaces
    BY <1>0, ScopeOf
  <2>3. NameOf(s).ws = workspaces[s[1]] /\ NameOf(s).proj = projects[s[2]].name
    BY DEF NameOf
  <2>4. QED
    BY <1>0, <2>1, <2>2, <2>3 DEF ScopesInv, ScopesSound
<1>2. list_pages(NameOf(s).ws, NameOf(s).proj) = InProject(s[1], s[2])
  BY <1>1 DEF list_pages, InProject, NameOf
<1>3. lookup_project(NameOf(s).ws, NameOf(s).proj) # {}
  BY <1>0, ScopeOf DEF lookup_project
<1>4. QED
  BY <1>1, <1>2, <1>3 DEF pages_handler, InProject

\* Every latest page is in one live scope.
LEMMA ScopesCover ==
  ASSUME Stored
  PROVE  LatestRows = UNION {InProject(s[1], s[2]) : s \in LiveScopes}
<1>1. ASSUME NEW i \in LatestRows
      PROVE  i \in UNION {InProject(s[1], s[2]) : s \in LiveScopes}
  <2> DEFINE t == <<pages[i].ws, pages[i].proj>>
  <2>1. t \in LiveScopes /\ i \in InProject(t[1], t[2])
    BY RowScope, LatestAreRows DEF InProject
  <2>2. QED
    BY <2>1
<1>2. QED
  BY <1>1 DEF InProject

-----------------------------------------------------------------------------
(* The three surfaces.                                                      *)

LEMMA RowsAreFinite ==
  /\ IsFiniteSet(PageIds) /\ IsFiniteSet(Rows) /\ IsFiniteSet(LatestRows)
  /\ Rows \subseteq PageIds /\ LatestRows \subseteq PageIds
  /\ \A i \in PageIds : {j \in PageIds : j > i} \subseteq (i + 1)..MaxPages
<1>1. IsFiniteSet(PageIds)
  BY FS_Interval, PagesAssumption DEF PageIds
<1>2. Rows \subseteq PageIds /\ LatestRows \subseteq PageIds
  BY DEF Rows, LatestRows
<1>3. \A i \in PageIds : {j \in PageIds : j > i} \subseteq (i + 1)..MaxPages
  BY PagesAssumption DEF PageIds
<1>4. QED
  BY <1>1, <1>2, <1>3, FS_Subset

\* The limit leaves a set that fits as it is, and what it cut once.
LEMMA AllOfFew ==
  ASSUME NEW S, IsFiniteSet(S), NEW n \in Nat
  PROVE  /\ Cardinality(S) <= n => AnyOf(S, n) = {S}
         /\ \A T \in AnyOf(S, n) : T \subseteq S /\ IsFiniteSet(T) /\ Cardinality(T) <= n /\ AnyOf(T, n) = {T}
<1>1. ASSUME NEW X, IsFiniteSet(X), Cardinality(X) <= n
      PROVE  AnyOf(X, n) = {X}
  <2>1. Cardinality(X) \in Nat
    BY <1>1, FS_CardinalityType
  <2>2. (IF Cardinality(X) < n THEN Cardinality(X) ELSE n) = Cardinality(X)
    BY <1>1, <2>1
  <2>3. \A T \in SUBSET X : Cardinality(T) = Cardinality(X) => T = X
    BY <1>1, FS_Subset
  <2>4. QED
    BY <2>2, <2>3 DEF AnyOf
<1>2. ASSUME NEW T \in AnyOf(S, n)
      PROVE  T \subseteq S /\ IsFiniteSet(T) /\ Cardinality(T) <= n
  <2>1. T \subseteq S /\ Cardinality(T) = IF Cardinality(S) < n THEN Cardinality(S) ELSE n
    BY DEF AnyOf
  <2>2. IsFiniteSet(T) /\ Cardinality(S) \in Nat
    BY <2>1, FS_Subset, FS_CardinalityType
  <2>3. QED
    BY <2>1, <2>2
<1>3. QED
  BY <1>1, <1>2

\* There are no more pages than ids.
LEMMA PagesFit ==
  ASSUME NEW S \in SUBSET LatestRows, NEW n \in Nat, n >= MaxPages
  PROVE  IsFiniteSet(S) /\ AnyOf(S, n) = {S} /\ AnyOf(S, 2 * n) = {S}
<1>1. MaxPages \in Nat /\ S \in SUBSET (1..MaxPages)
  BY RowsAreFinite, PagesAssumption DEF PageIds
<1>2. IsFiniteSet(1..MaxPages) /\ Cardinality(1..MaxPages) <= MaxPages
  BY <1>1, FS_Interval
<1>3. IsFiniteSet(S) /\ Cardinality(S) <= Cardinality(1..MaxPages)
  BY <1>1, <1>2, FS_Subset
<1>4. Cardinality(S) \in Nat /\ Cardinality(1..MaxPages) \in Nat
  BY <1>2, <1>3, FS_CardinalityType
<1>5. Cardinality(S) <= n /\ Cardinality(S) <= 2 * n /\ 2 * n \in Nat
  BY <1>1, <1>2, <1>3, <1>4
<1>6. QED
  BY <1>3, <1>5, AllOfFew

LEMMA AskedByName ==
  ASSUME Stored, NEW s \in LiveScopes, NEW q, NEW limit
  PROVE  /\ lookup_ws_proj_no_create(NameOf(s)) = {s}
         /\ handle_search(NameOf(s), q, limit) = search_project(s, q, NULL, limit)
         /\ resolve_many_existing_scopes({NameOf(s)}, MaxScopes) = {s}
         /\ \A active, default : resolve_read_args(NameOf(s), active, default) = {s}
         /\ \A default : resolve_read_args(NoNames, s, default) = {s}
<1>1. /\ lookup_existing_scope(NameOf(s).ws, NameOf(s).proj) = {s}
      /\ NameOf(s).ws # NULL /\ NameOf(s).proj # NULL /\ s # NULL /\ {s} # Everywhere /\ {s} # Refused
  BY StoredScopes, ScopeOf
<1>2. lookup_ws_proj_no_create(NameOf(s)) = {s}
  BY <1>1 DEF lookup_ws_proj_no_create
<1>3. handle_search(NameOf(s), q, limit) = search_project(s, q, NULL, limit)
  BY <1>1, <1>2 DEF handle_search
<1>4. ~(Cardinality({NameOf(s)}) > MaxScopes)
  <2>1. Cardinality({NameOf(s)}) = 1
    BY FS_Singleton
  <2>2. MaxScopes \in Nat \ {0}
    BY ToolsAssumption
  <2>3. QED
    BY <2>1, <2>2
<1>5. resolve_many_existing_scopes({NameOf(s)}, MaxScopes) = {s}
  <2>1. {lookup_existing_scope(n.ws, n.proj) : n \in {NameOf(s)}} = {{s}}
    BY <1>1
  <2>2. UNION {{s}} = {s}
    OBVIOUS
  <2>3. ~ \E n \in {NameOf(s)} : lookup_existing_scope(n.ws, n.proj) = {}
    BY <1>1
  <2>4. resolve_many_existing_scopes({NameOf(s)}, MaxScopes)
            = UNION {lookup_existing_scope(n.ws, n.proj) : n \in {NameOf(s)}}
    BY <1>4, <2>3, Zenon DEF resolve_many_existing_scopes
  <2>5. QED
    BY <2>1, <2>2, <2>4
<1>6. \A active, default : resolve_read_args(NameOf(s), active, default) = {s}
  BY <1>1 DEF resolve_read_args
<1>7. \A default : resolve_read_args(NoNames, s, default) = {s}
  BY <1>1 DEF resolve_read_args, NoNames, resolve_current_or_project
<1>8. QED
  BY <1>2, <1>3, <1>5, <1>6, <1>7

\* A search answers with pages of its scope, within the limit; with room for all, with all
\* that its words match.
LEMMA SearchFinds ==
  ASSUME NEW s, NEW q, NEW m, NEW n \in Nat, NEW h \in search_project(s, q, m, n)
  PROVE  /\ h \subseteq InProject(s[1], s[2]) /\ IsFiniteSet(h) /\ Cardinality(h) <= n /\ AnyOf(h, n) = {h}
         /\ n >= MaxPages => Matching(InProject(s[1], s[2]), q) \subseteq h
         /\ n >= MaxPages /\ m = NULL => h = Matching(InProject(s[1], s[2]), q)
<1> DEFINE P == InProject(s[1], s[2])
           text == Matching(P, q)
<1>1. P \subseteq LatestRows /\ text \subseteq P /\ IsFiniteSet(LatestRows)
  BY RowsAreFinite DEF InProject, Matching
<1>2. \A S \in SUBSET P : IsFiniteSet(S) /\ (n >= MaxPages => AnyOf(S, n) = {S} /\ AnyOf(S, 2 * n) = {S})
  <2>1. ASSUME NEW S \in SUBSET P PROVE S \in SUBSET LatestRows /\ IsFiniteSet(S)
    BY <1>1, FS_Subset
  <2>2. QED
    BY <2>1, PagesFit
<1>3. search_pages_for_project(s[1], s[2], q) = text
  BY DEF search_pages_for_project
<1> HIDE DEF P, text
<1>4. PICK S \in SUBSET P : /\ h \in AnyOf(S, n)
                            /\ n >= MaxPages => text \subseteq S
                            /\ m = NULL => S = text
  <2>1. CASE m = NULL
    BY <2>1, <1>1, <1>3 DEF search_project
  <2>2. CASE m # NULL
    <3> DEFINE near == load_embeddings(s[1], s[2], m)
               Linked(seeds) == graph_neighbors(s[1], s[2], seeds)
    <3>1. near \subseteq P /\ \A seeds : Linked(seeds) \subseteq P
      BY DEF load_embeddings, graph_neighbors, P
    <3> DEFINE Fused(seeds) == UNION {AnyOf(seeds \cup l, n) : l \in AnyOf(Linked(seeds), 2 * n)}
               words == AnyOf(search_pages_for_project(s[1], s[2], q), 2 * n)
               vectors == AnyOf(near, 2 * n)
    <3>2. hybrid_search(s[1], s[2], q, m, n) = UNION {Fused(t \cup v) : t \in words, v \in vectors}
      BY DEF hybrid_search
    <3> HIDE DEF Fused, words, vectors
    <3>10. h \in hybrid_search(s[1], s[2], q, m, n)
      BY <2>2 DEF search_project
    <3>8. PICK t \in words, v \in vectors : h \in Fused(t \cup v)
      BY <3>2, <3>10
    <3>3. t \in AnyOf(text, 2 * n) /\ v \in AnyOf(near, 2 * n)
      BY <1>3 DEF words, vectors
    <3>9. h \in UNION {AnyOf((t \cup v) \cup l, n) : l \in AnyOf(Linked(t \cup v), 2 * n)}
      BY <3>8 DEF Fused
    <3> HIDE DEF near, Linked
    <3>4. PICK l \in AnyOf(Linked(t \cup v), 2 * n) : h \in AnyOf((t \cup v) \cup l, n)
      BY <3>9
    <3>5. (t \cup v) \cup l \in SUBSET P
      BY <3>1, <3>3, <1>1 DEF AnyOf
    <3>6. n >= MaxPages => text \subseteq (t \cup v) \cup l
      BY <3>3, <1>1, <1>2
    <3>7. QED
      BY <3>4, <3>5, <3>6, <2>2
  <2>3. QED
    BY <2>1, <2>2
<1>5. IsFiniteSet(S)
  BY <1>2
<1>6. h \subseteq S /\ IsFiniteSet(h) /\ Cardinality(h) <= n /\ AnyOf(h, n) = {h}
  BY <1>4, <1>5, AllOfFew
<1>7. n >= MaxPages => h = S
  BY <1>2, <1>4
<1>8. QED
  BY <1>4, <1>6, <1>7 DEF P, text

\* The answers put together are one answer of each scope.
LEMMA AnswersOfScopes ==
  ASSUME NEW S, NEW q, NEW m, NEW n
  PROVE  LET answers == UNION {search_project(s, q, m, n) : s \in S}
             found   == {f \in [S -> answers] : \A s \in S : f[s] \in search_project(s, q, m, n)}
         IN search_scopes(S, q, m, n) = UNION {AnyOf(UNION {f[s] : s \in S}, n) : f \in found}
<1> DEFINE Answer(s) == search_project(s, q, m, n)
           answers == UNION {Answer(s) : s \in S}
           found == {f \in [S -> answers] : \A s \in S : f[s] \in Answer(s)}
           pairs == UNION {{s} \X Answer(s) : s \in S}
           picked == {f \in [S -> {a[2] : a \in pairs}] : \A s \in S : <<s, f[s]>> \in pairs}
<1>1. search_scopes(S, q, m, n) = UNION {AnyOf(UNION {f[s] : s \in S}, n) : f \in picked}
  BY DEF search_scopes
<1> HIDE DEF Answer
<1>2. \A s \in S : \A h : <<s, h>> \in pairs <=> h \in Answer(s)
  OBVIOUS
<1>3. {a[2] : a \in pairs} = answers
  <2>1. ASSUME NEW h \in answers PROVE h \in {a[2] : a \in pairs}
    <3>1. PICK s \in S : h \in Answer(s)
      OBVIOUS
    <3>2. <<s, h>> \in pairs /\ <<s, h>>[2] = h
      BY <3>1, <1>2
    <3> HIDE DEF pairs
    <3>3. QED
      BY <3>2
  <2>2. ASSUME NEW a \in pairs PROVE a[2] \in answers
    OBVIOUS
  <2> HIDE DEF pairs, answers
  <2>3. QED
    BY <2>1, <2>2
<1> HIDE DEF pairs, answers
<1>4. picked = found
  BY <1>2, <1>3
<1>5. search_scopes(S, q, m, n) = UNION {AnyOf(UNION {f[s] : s \in S}, n) : f \in found}
  BY <1>1, <1>4
<1> QED
  BY <1>5 DEF answers, Answer

\* A search of one scope among several is the search of that scope.
LEMMA OneScope ==
  ASSUME NEW s, NEW q, NEW m, NEW n \in Nat
  PROVE  search_scopes({s}, q, m, n) = search_project(s, q, m, n)
<1> DEFINE answers == UNION {search_project(t, q, m, n) : t \in {s}}
           found == {f \in [{s} -> answers] : \A t \in {s} : f[t] \in search_project(t, q, m, n)}
<1>1. search_scopes({s}, q, m, n) = UNION {AnyOf(UNION {f[t] : t \in {s}}, n) : f \in found}
  BY AnswersOfScopes, Zenon
<1>2. answers = search_project(s, q, m, n)
  OBVIOUS
<1>3. \A f \in found : UNION {f[t] : t \in {s}} = f[s] /\ f[s] \in search_project(s, q, m, n)
  OBVIOUS
<1>4. \A h \in search_project(s, q, m, n) : AnyOf(h, n) = {h}
  BY SearchFinds
<1>5. \A h \in search_project(s, q, m, n) : [t \in {s} |-> h] \in found /\ [t \in {s} |-> h][s] = h
  BY <1>2
<1> HIDE DEF answers, found
<1>6. ASSUME NEW h \in search_scopes({s}, q, m, n)
      PROVE  h \in search_project(s, q, m, n)
  <2>1. PICK f \in found : h \in AnyOf(UNION {f[t] : t \in {s}}, n)
    BY <1>1
  <2>2. UNION {f[t] : t \in {s}} = f[s] /\ AnyOf(f[s], n) = {f[s]} /\ f[s] \in search_project(s, q, m, n)
    BY <1>3, <1>4
  <2>3. h \in AnyOf(f[s], n)
    BY <2>1, <2>2
  <2>4. QED
    BY <2>2, <2>3
<1>7. ASSUME NEW h \in search_project(s, q, m, n)
      PROVE  h \in search_scopes({s}, q, m, n)
  <2>1. PICK f \in found : f[s] = h
    BY <1>5
  <2>2. h \in AnyOf(UNION {f[t] : t \in {s}}, n)
    BY <2>1, <1>3, <1>4
  <2>3. QED
    BY <2>2, <1>1
<1>8. QED
  BY <1>6, <1>7

\* The answers to a query about one scope, named by its names or by a list of one.
LEMMA QueryOfScope ==
  ASSUME Stored, NEW s \in LiveScopes, NEW q, NEW m, NEW n \in Nat
  PROVE  LET answer == {[hits       |-> h,
                         raw        |-> IF h # {} THEN {} ELSE {s},
                         everywhere |-> {},
                         standing   |-> {}] : h \in search_project(s, q, m, n)} IN
         /\ memory_query(Asking(NameOf(s), {}, FALSE), q, m, n, TRUE, <<s, s, s>>, s) = answer
         /\ memory_query(Asking(NoNames, {NameOf(s)}, FALSE), q, m, n, TRUE, <<s, s, s>>, s) = answer
<1> DEFINE name == NameOf(s)
           still == <<s, s, s>>
           one == Asking(name, {}, FALSE)
           many == Asking(NoNames, {name}, FALSE)
           hits == search_project(s, q, m, n)
           answer == {[hits       |-> h,
                       raw        |-> IF h # {} THEN {} ELSE {s},
                       everywhere |-> {},
                       standing   |-> {}] : h \in hits}
           product == {[hits       |-> h,
                        raw        |-> IF h # {} THEN {} ELSE {s},
                        everywhere |-> {},
                        standing   |-> t] : h \in hits, t \in {{}}}
<1>1. /\ name.ws # NULL /\ name.proj # NULL /\ {s} # Refused
      /\ resolve_many_existing_scopes({name}, MaxScopes) = {s}
      /\ resolve_read_args(name, s, s) = {s}
  BY StoredScopes, ScopeOf, AskedByName
<1>2. one.ws = name.ws /\ one.proj = name.proj /\ one.scopes = {} /\ one.global = FALSE
  BY DEF Asking
<1>3. many.ws = NULL /\ many.proj = NULL /\ many.scopes = {name} /\ many.global = FALSE /\ many.scopes # {}
  BY DEF Asking, NoNames
<1>4. resolve_read_args(one, s, s) = {s}
  BY <1>1, <1>2 DEF resolve_read_args
<1>5. Named(one) /\ ~Named(many)
  BY <1>1, <1>2, <1>3 DEF Named
<1>6. UNION {search_project(t, q, m, n) : t \in {s}} = hits /\ search_scopes({s}, q, m, n) = hits
  BY OneScope
<1>7. product = answer
  OBVIOUS
<1> HIDE DEF one, many, name, hits, answer
<1>8. memory_query(one, q, m, n, TRUE, still, s) = product
  BY <1>1, <1>2, <1>4, <1>5, <1>6 DEF memory_query, Refused
<1>9. memory_query(many, q, m, n, TRUE, still, s) = product
  BY <1>1, <1>3, <1>5, <1>6 DEF memory_query, Refused
<1> HIDE DEF product
<1>10. memory_query(one, q, m, n, TRUE, still, s) = answer /\ memory_query(many, q, m, n, TRUE, still, s) = answer
  BY <1>7, <1>8, <1>9
<1>11. QED
  BY <1>10, Zenon DEF one, many, name, hits, answer

\* The hits of a search, with their names, are the pages with theirs.
LEMMA EnrichedAre ==
  ASSUME NEW S \in SUBSET LatestRows
  PROVE  enrich_hits(S) = with_meta(S)
<1>1. UNION {page_meta_by_id(h) : h \in S} = S
  BY DEF page_meta_by_id
<1>2. QED
  BY <1>1 DEF enrich_hits

LEMMA ScopeTold ==
  ASSUME Stored, NEW s \in LiveScopes
  PROVE  /\ memory_briefing(NoNames, s, s) = briefing_handler(NameOf(s).ws, NameOf(s).proj)
         /\ memory_recent(NoNames, RecentLimit, FALSE, s, s).hits
                = recent_handler(NameOf(s).ws, NameOf(s).proj, RecentLimit)
<1>1. resolve_read_args(NoNames, s, s) = {s}
  BY AskedByName
<1>2. lookup_project(NameOf(s).ws, NameOf(s).proj) = {s}
  BY StoredScopes, ScopeOf DEF lookup_project
<1>3. memory_briefing(NoNames, s, s) = {briefing_for_project(s[1], s[2])}
      /\ briefing_handler(NameOf(s).ws, NameOf(s).proj) = {briefing_for_project(s[1], s[2])}
  BY <1>1, <1>2 DEF memory_briefing, briefing_handler
<1>4. memory_recent(NoNames, RecentLimit, FALSE, s, s).hits = recent_pages_for_project(s[1], s[2], RecentLimit)
  BY <1>1 DEF memory_recent
<1>5. recent_handler(NameOf(s).ws, NameOf(s).proj, RecentLimit) = Newest(InProject(s[1], s[2]), RecentLimit)
  BY ListedByName DEF recent_handler
<1>6. QED
  BY <1>3, <1>4, <1>5 DEF recent_pages_for_project

\* Without names, a query searches the active scope and the standing preferences of
\* another one, or everywhere when it says so.
LEMMA QueryOfNone ==
  ASSUME Stored, NEW s \in LiveScopes, NEW q, NEW m, NEW n \in Nat
  PROVE  /\ \A a \in memory_query(Asking(NoNames, {}, FALSE), q, m, n, FALSE, <<s, s, s>>, s) :
                a.hits \cap a.standing = {}
         /\ {a.everywhere : a \in memory_query(Asking(NoNames, {}, TRUE), q, m, n, FALSE, <<s, s, s>>, s)}
                = {with_meta(h) : h \in AnyOf(search_pages(q), n)}
<1> DEFINE still == <<s, s, s>>
           here == Asking(NoNames, {}, FALSE)
           all == Asking(NoNames, {}, TRUE)
           hits == search_project(s, q, m, n)
           standing == StandingHits(q, m, n, s, s)
           Told(h, t) == [hits |-> h, raw |-> IF h # {} THEN {} ELSE {s}, everywhere |-> {}, standing |-> t]
           All(h) == [hits |-> {}, raw |-> {}, everywhere |-> with_meta(h), standing |-> {}]
           found == AnyOf(search_pages(q), n)
<1>1. here.ws = NULL /\ here.proj = NULL /\ here.scopes = {} /\ here.global = FALSE
  BY DEF Asking, NoNames
<1>2. all.ws = NULL /\ all.proj = NULL /\ all.scopes = {} /\ all.global = TRUE
  BY DEF Asking, NoNames
<1>3. ~Named(here) /\ ~Named(all)
  BY <1>1, <1>2 DEF Named
<1>4. /\ resolve_read_args(here, s, s) = {s} /\ s = <<s[1], s[2]>>
      /\ resolve_read_args([ws |-> NULL, proj |-> NULL], s, s) = {s} /\ {s} # {}
  BY <1>1, AskedByName, StoredScopes, ScopeOf DEF NoNames, resolve_read_args, resolve_current_or_project
<1>5. UNION {search_project(t, q, m, n) : t \in {s}} = hits
  OBVIOUS
<1>6. ASSUME NEW h \in hits, NEW t \in standing
      PROVE  h \cap t = {}
  <2>1. CASE t = {}
    BY <2>1
  <2>2. CASE t # {}
    <3>1. PICK o \in lookup_global_scope \ {s} : t \in search_project(o, q, m, n)
      BY <1>4, <2>2 DEF StandingHits
    <3>2. o = <<o[1], o[2]>> /\ o # s
      BY <3>1 DEF lookup_global_scope, lookup_existing_scope
    <3>3. h \subseteq InProject(s[1], s[2]) /\ t \subseteq InProject(o[1], o[2])
      BY <3>1, SearchFinds
    <3>4. QED
      BY <1>4, <3>2, <3>3 DEF InProject
  <2>3. QED
    BY <2>1, <2>2
<1> HIDE DEF here, all, hits, standing, found
<1>7. \A a \in memory_query(here, q, m, n, FALSE, still, s) : \E h \in hits, t \in standing : a = Told(h, t)
  BY <1>1, <1>3, <1>4, <1>5 DEF memory_query, Refused, standing
<1>8. memory_query(all, q, m, n, FALSE, still, s)
          = {All(h) : h \in found}
  BY <1>2, <1>3 DEF memory_query, found
<1>12. \A h, t : Told(h, t).hits = h /\ Told(h, t).standing = t /\ All(h).everywhere = with_meta(h)
  OBVIOUS
<1> HIDE DEF All
<1>9. \A a \in memory_query(here, q, m, n, FALSE, still, s) : a.hits \cap a.standing = {}
  <2> SUFFICES ASSUME NEW a \in memory_query(here, q, m, n, FALSE, still, s) PROVE a.hits \cap a.standing = {}
    OBVIOUS
  <2>1. PICK h \in hits, t \in standing : a = Told(h, t)
    BY <1>7
  <2>2. a.hits = h /\ a.standing = t
    BY <2>1, <1>12
  <2>3. QED
    BY <2>2, <1>6
<1>10. {a.everywhere : a \in memory_query(all, q, m, n, FALSE, still, s)} = {with_meta(h) : h \in found}
  <2>1. {a.everywhere : a \in memory_query(all, q, m, n, FALSE, still, s)} = {All(h).everywhere : h \in found}
    BY <1>8
  <2>2. \A h : All(h).everywhere = with_meta(h)
    BY <1>12
  <2>3. QED
    BY <2>1, <2>2
<1>11. QED
  BY <1>9, <1>10 DEF here, all, found

LEMMA SearchOfWeb ==
  ASSUME Stored, NEW s \in LiveScopes, NEW q, NEW n \in Nat
  PROVE  /\ search_with_request(Asking(NoNames, {NameOf(s)}, FALSE), q, n)
                = {enrich_hits(h) : h \in search_project(s, q, NULL, n)}
         /\ search_with_request(Asking(NoNames, {}, FALSE), q, n) = {with_meta(h) : h \in AnyOf(search_pages(q), n)}
<1> DEFINE many == Asking(NoNames, {NameOf(s)}, FALSE)
           none == Asking(NoNames, {}, FALSE)
<1>1. many.ws = NULL /\ many.proj = NULL /\ many.scopes = {NameOf(s)} /\ many.scopes # {}
  BY DEF Asking, NoNames
<1>2. none.ws = NULL /\ none.proj = NULL /\ none.scopes = {}
  BY DEF Asking, NoNames
<1>3. ~Named(many) /\ ~Named(none)
  BY <1>1, <1>2 DEF Named
<1>4. resolve_many_existing_scopes({NameOf(s)}, MaxScopes) = {s} /\ {s} # Everywhere /\ {s} # Refused
  BY AskedByName, StoredScopes, ScopeOf
<1> HIDE DEF many, none
<1>5. scoped_search_mode(many) = {s} /\ scoped_search_mode(none) = Everywhere /\ Everywhere # Refused
  BY <1>1, <1>2, <1>4 DEF scoped_search_mode, lookup_ws_proj_no_create, Everywhere, Refused
<1>6. search_scopes({s}, q, NULL, n) = search_project(s, q, NULL, n)
  BY OneScope
<1>7. search_with_request(many, q, n) = {enrich_hits(h) : h \in search_project(s, q, NULL, n)}
  BY <1>3, <1>4, <1>5, <1>6 DEF search_with_request
<1>8. search_with_request(none, q, n) = {enrich_hits(h) : h \in AnyOf(search_pages(q), n)}
  BY <1>2, <1>5 DEF search_with_request
<1>9. \A h \in AnyOf(search_pages(q), n) : h \in SUBSET LatestRows
  BY DEF search_pages, Matching, AnyOf
<1>10. {enrich_hits(h) : h \in AnyOf(search_pages(q), n)} = {with_meta(h) : h \in AnyOf(search_pages(q), n)}
  BY <1>9, EnrichedAre
<1>11. QED
  BY <1>7, <1>8, <1>10 DEF many, none

\* With room for all, a search of every scope finds what a search of the store finds.
LEMMA ScopesTogether ==
  ASSUME Stored, NEW q
  PROVE  search_scopes(LiveScopes, q, NULL, MaxPages) = {Matching(LatestRows, q)}
<1> DEFINE n == MaxPages
           Answer(s) == search_project(s, q, NULL, n)
           answers == UNION {Answer(s) : s \in LiveScopes}
           found == {f \in [LiveScopes -> answers] : \A s \in LiveScopes : f[s] \in Answer(s)}
           Own(s) == Matching(InProject(s[1], s[2]), q)
           whole == Matching(LatestRows, q)
<1>1. n \in Nat /\ n >= MaxPages
  BY PagesAssumption
<1>2. \A s \in LiveScopes : Answer(s) = {Own(s)}
  <2>1. \A s \in LiveScopes : AnyOf(Own(s), n) = {Own(s)}
    BY <1>1, PagesFit DEF InProject, Matching
  <2>2. QED
    BY <2>1 DEF search_project, search_pages_for_project
<1>3. search_scopes(LiveScopes, q, NULL, n) = UNION {AnyOf(UNION {f[s] : s \in LiveScopes}, n) : f \in found}
  BY AnswersOfScopes, Zenon
<1>4. whole = UNION {Own(s) : s \in LiveScopes}
  BY ScopesCover DEF Matching
<1>5. AnyOf(whole, n) = {whole}
  BY <1>1, PagesFit DEF Matching
<1> HIDE DEF Own, whole, Answer
<1>6. \A f \in found : UNION {f[s] : s \in LiveScopes} = whole
  <2>1. ASSUME NEW f \in found PROVE \A s \in LiveScopes : f[s] = Own(s)
    BY <1>2
  <2>2. ASSUME NEW f \in found PROVE UNION {f[s] : s \in LiveScopes} = UNION {Own(s) : s \in LiveScopes}
    BY <2>1
  <2>3. QED
    BY <2>2, <1>4
<1>7. [s \in LiveScopes |-> Own(s)] \in found
  BY <1>2
<1> HIDE DEF found
<1>8. {AnyOf(UNION {f[s] : s \in LiveScopes}, n) : f \in found} = {{whole}}
  <2>1. \A f \in found : AnyOf(UNION {f[s] : s \in LiveScopes}, n) = {whole}
    BY <1>5, <1>6
  <2>2. QED
    BY <2>1, <1>7
<1>9. QED
  BY <1>3, <1>8 DEF whole

LEMMA SurfacesDoAgree == Stored => SurfacesAgree
<1> SUFFICES ASSUME Stored PROVE SurfacesAgree
  OBVIOUS
<1>1. ASSUME NEW q, NEW n \in Limits, NEW s \in LiveScopes, NEW m \in EmbedModels \cup {NULL}
      PROVE  LET name   == NameOf(s)
                 still  == <<s, s, s>>
                 answer == memory_query(Asking(name, {}, FALSE), q, m, n, TRUE, still, s)
             IN /\ answer = memory_query(Asking(NoNames, {name}, FALSE), q, m, n, TRUE, still, s)
                /\ \A a \in answer :
                       /\ a.hits \subseteq InProject(s[1], s[2]) /\ Cardinality(a.hits) <= n /\ a.standing = {}
                       /\ n = MaxPages => \A h \in handle_search(name, q, n) : h \subseteq a.hits
                /\ m = NULL =>
                       /\ {a.hits : a \in answer} = handle_search(name, q, n)
                       /\ {enrich_hits(a.hits) : a \in answer}
                              = search_with_request(Asking(NoNames, {name}, FALSE), q, n)
                /\ \A a \in memory_query(Asking(NoNames, {}, FALSE), q, m, n, FALSE, still, s) :
                       a.hits \cap a.standing = {}
  <2> DEFINE name == NameOf(s)
             still == <<s, s, s>>
             answer == memory_query(Asking(name, {}, FALSE), q, m, n, TRUE, still, s)
             hits == search_project(s, q, m, n)
             Told(h) == [hits |-> h, raw |-> IF h # {} THEN {} ELSE {s}, everywhere |-> {}, standing |-> {}]
  <2>1. n \in Nat /\ MaxPages \in Nat
    BY PagesAssumption, ToolsAssumption
  <2>2. answer = {Told(h) : h \in hits}
        /\ answer = memory_query(Asking(NoNames, {name}, FALSE), q, m, n, TRUE, still, s)
    <3>1. memory_query(Asking(NameOf(s), {}, FALSE), q, m, n, TRUE, <<s, s, s>>, s)
              = {[hits |-> h, raw |-> IF h # {} THEN {} ELSE {s}, everywhere |-> {}, standing |-> {}]
                     : h \in search_project(s, q, m, n)}
      BY <2>1, QueryOfScope, Zenon
    <3>2. memory_query(Asking(NoNames, {NameOf(s)}, FALSE), q, m, n, TRUE, <<s, s, s>>, s)
              = {[hits |-> h, raw |-> IF h # {} THEN {} ELSE {s}, everywhere |-> {}, standing |-> {}]
                     : h \in search_project(s, q, m, n)}
      BY <2>1, QueryOfScope, Zenon
    <3>3. QED
      BY <3>1, <3>2, Zenon
  <2>3. handle_search(name, q, n) = search_project(s, q, NULL, n)
    BY AskedByName
  <2>4. search_with_request(Asking(NoNames, {name}, FALSE), q, n)
            = {enrich_hits(h) : h \in search_project(s, q, NULL, n)}
    BY <2>1, SearchOfWeb
  <2>5. \A a \in memory_query(Asking(NoNames, {}, FALSE), q, m, n, FALSE, still, s) : a.hits \cap a.standing = {}
    BY <2>1, QueryOfNone
  <2>6. \A h : Told(h).hits = h /\ Told(h).standing = {}
    OBVIOUS
  <2>7. ASSUME NEW h \in hits
        PROVE  /\ h \subseteq InProject(s[1], s[2]) /\ Cardinality(h) <= n
               /\ n = MaxPages => \A g \in handle_search(name, q, n) : g \subseteq h
    <3>1. /\ h \subseteq InProject(s[1], s[2]) /\ Cardinality(h) <= n
          /\ n >= MaxPages => Matching(InProject(s[1], s[2]), q) \subseteq h
      BY <2>1, SearchFinds
    <3>2. n >= MaxPages => \A g \in search_project(s, q, NULL, n) : g = Matching(InProject(s[1], s[2]), q)
      BY <2>1, SearchFinds
    <3>3. n = MaxPages => n >= MaxPages
      BY <2>1
    <3>4. QED
      BY <2>3, <3>1, <3>2, <3>3
  <2> HIDE DEF name, still, answer, hits, Told
  <2>8. \A a \in answer :
            /\ a.hits \subseteq InProject(s[1], s[2]) /\ Cardinality(a.hits) <= n /\ a.standing = {}
            /\ n = MaxPages => \A h \in handle_search(name, q, n) : h \subseteq a.hits
    <3>1. SUFFICES ASSUME NEW h \in hits
                   PROVE  LET a == Told(h) IN
                          /\ a.hits \subseteq InProject(s[1], s[2]) /\ Cardinality(a.hits) <= n /\ a.standing = {}
                          /\ n = MaxPages => \A g \in handle_search(name, q, n) : g \subseteq a.hits
      BY <2>2
    <3>2. QED
      BY <2>6, <2>7
  <2>9. {a.hits : a \in answer} = hits /\ {enrich_hits(a.hits) : a \in answer} = {enrich_hits(h) : h \in hits}
    <3>1. {a.hits : a \in answer} = {Told(h).hits : h \in hits}
          /\ {enrich_hits(a.hits) : a \in answer} = {enrich_hits(Told(h).hits) : h \in hits}
      BY <2>2
    <3>2. \A h : Told(h).hits = h
      BY <2>6
    <3>3. {Told(h).hits : h \in hits} = hits /\ {enrich_hits(Told(h).hits) : h \in hits} = {enrich_hits(h) : h \in hits}
      BY <3>2
    <3>4. QED
      BY <3>1, <3>3
  <2>10. m = NULL => hits = search_project(s, q, NULL, n)
    BY DEF hits
  <2>11. m = NULL => /\ {a.hits : a \in answer} = handle_search(name, q, n)
                     /\ {enrich_hits(a.hits) : a \in answer}
                            = search_with_request(Asking(NoNames, {name}, FALSE), q, n)
    BY <2>3, <2>4, <2>9, <2>10
  <2>12. QED
    BY <2>2, <2>5, <2>8, <2>11 DEF name, still, answer
<1>2. ASSUME NEW q, NEW n \in Limits, NEW s \in LiveScopes
      PROVE  {a.everywhere : a \in memory_query(Asking(NoNames, {}, TRUE), q, NULL, n, FALSE, <<s, s, s>>, s)}
                 = search_with_request(Asking(NoNames, {}, FALSE), q, n)
  <2>1. n \in Nat
    BY ToolsAssumption
  <2>2. {a.everywhere : a \in memory_query(Asking(NoNames, {}, TRUE), q, NULL, n, FALSE, <<s, s, s>>, s)}
            = {with_meta(h) : h \in AnyOf(search_pages(q), n)}
    BY <2>1, QueryOfNone, Zenon
  <2>3. search_with_request(Asking(NoNames, {}, FALSE), q, n) = {with_meta(h) : h \in AnyOf(search_pages(q), n)}
    BY <2>1, SearchOfWeb, Zenon
  <2>4. QED
    BY <2>2, <2>3, Zenon
<1>3. ASSUME NEW q
      PROVE  search_scopes(LiveScopes, q, NULL, MaxPages) = handle_search(NoNames, q, MaxPages)
  <2>1. handle_search(NoNames, q, MaxPages) = AnyOf(Matching(LatestRows, q), MaxPages)
    BY DEF handle_search, NoNames, lookup_ws_proj_no_create, search_pages
  <2>2. AnyOf(Matching(LatestRows, q), MaxPages) = {Matching(LatestRows, q)}
    BY PagesFit, PagesAssumption DEF Matching
  <2>3. QED
    BY <2>1, <2>2, ScopesTogether
<1>4. QED
  BY <1>1, <1>2, <1>3, ScopeTold DEF SurfacesAgree

-----------------------------------------------------------------------------
(* Finite sets of rows, and the most recent of them.                        *)

LEMMA NewestOfPart ==
  ASSUME NEW S \in SUBSET PageIds, NEW T \in SUBSET S, NEW n \in Nat, NEW i \in T, i \in Newest(S, n)
  PROVE  i \in Newest(T, n)
<1> DEFINE a == {j \in T : j > i}
           b == {j \in S : j > i}
<1>1. IsFiniteSet(b) /\ a \in SUBSET b
  BY RowsAreFinite, FS_Subset
<1>2. Cardinality(a) <= Cardinality(b) /\ Cardinality(a) \in Nat /\ Cardinality(b) \in Nat
  BY <1>1, FS_Subset, FS_CardinalityType
<1>3. Cardinality(b) < n
  BY DEF Newest
<1>4. Cardinality(a) < n
  BY <1>2, <1>3
<1>5. QED
  BY <1>4 DEF Newest

LEMMA AllAreRecent == Newest(LatestRows, MaxPages) = LatestRows
<1> SUFFICES ASSUME NEW i \in LatestRows PROVE Cardinality({j \in LatestRows : j > i}) < MaxPages
  BY DEF Newest
<1> DEFINE a == {j \in LatestRows : j > i}
           b == (i + 1)..MaxPages
<1>1. i \in PageIds /\ a \in SUBSET b
  BY RowsAreFinite
<1>2. i \in Nat /\ 1 <= i /\ i <= MaxPages /\ MaxPages \in Nat
  BY <1>1, PagesAssumption DEF PageIds
<1>3. IsFiniteSet(b) /\ Cardinality(b) = IF i + 1 > MaxPages THEN 0 ELSE MaxPages - (i + 1) + 1
  BY <1>2, FS_Interval
<1>4. Cardinality(a) <= Cardinality(b) /\ Cardinality(a) \in Nat
  BY <1>1, <1>3, FS_Subset, FS_CardinalityType
<1>5. QED
  BY <1>2, <1>3, <1>4

-----------------------------------------------------------------------------
(* A workspace is its projects taken together.                              *)

LEMMA ProjectScope ==
  ASSUME Stored, NEW w \in LiveWorkspaces, NEW p \in ProjectsOf(w)
  PROVE  LET s == <<w, p>> IN
         /\ s \in LiveScopes /\ s[1] = w /\ s[2] = p /\ p \in LiveProjects
         /\ NameOf(s).ws = workspaces[w] /\ NameOf(s).proj = projects[p].name
         /\ lookup_project(workspaces[w], projects[p].name) = {s}
<1> DEFINE s == <<w, p>>
<1>1. p \in LiveProjects /\ projects[p].ws = w
  BY DEF ProjectsOf
<1>2. s \in LiveScopes
  BY <1>1 DEF LiveScopes
<1>3. NameOf(s).ws = workspaces[w] /\ NameOf(s).proj = projects[p].name
  BY DEF NameOf
<1> HIDE DEF s
<1>4. lookup_project(NameOf(s).ws, NameOf(s).proj) = {s}
  BY <1>2, StoredScopes, ScopeOf DEF lookup_project
<1>5. QED
  BY <1>1, <1>2, <1>3, <1>4 DEF s

LEMMA RowsOfWorkspace ==
  ASSUME Stored, NEW w \in LiveWorkspaces
  PROVE  /\ InWorkspace(w) = UNION {InProject(w, p) : p \in ProjectsOf(w)}
         /\ \A p : InProject(w, p) \subseteq InWorkspace(w)
         /\ \A i \in InWorkspace(w) : pages[i].proj \in ProjectsOf(w) /\ i \in InProject(w, pages[i].proj)
<1>1. ASSUME NEW i \in InWorkspace(w)
      PROVE  pages[i].proj \in ProjectsOf(w) /\ i \in InProject(w, pages[i].proj)
  BY RowScope, LatestAreRows DEF InWorkspace, InProject, ProjectsOf
<1>2. \A p : InProject(w, p) \subseteq InWorkspace(w)
  BY DEF InProject, InWorkspace
<1>3. QED
  BY <1>1, <1>2

LEMMA WorkspaceIsItsProjects ==
  ASSUME Stored, NEW w \in LiveWorkspaces
  PROVE  /\ briefing_for_workspace(w).rules = UNION {briefing_for_project(w, p).rules : p \in ProjectsOf(w)}
         /\ briefing_for_workspace(w).slots = UNION {briefing_for_project(w, p).slots : p \in ProjectsOf(w)}
         /\ briefing_for_workspace(w).recent
                \subseteq UNION {recent_pages_for_project(w, p, RecentLimit) : p \in ProjectsOf(w)}
         /\ health_detail(w, NULL).orphans = UNION {health_detail(w, p).orphans : p \in ProjectsOf(w)}
<1>1. /\ InWorkspace(w) = UNION {InProject(w, p) : p \in ProjectsOf(w)}
      /\ \A p : InProject(w, p) \subseteq InWorkspace(w)
      /\ \A i \in InWorkspace(w) : pages[i].proj \in ProjectsOf(w) /\ i \in InProject(w, pages[i].proj)
  BY RowsOfWorkspace
<1>2. /\ briefing_for_workspace(w).rules = {i \in InWorkspace(w) : pages[i].path \in RulePaths}
      /\ briefing_for_workspace(w).slots = {i \in InWorkspace(w) : pages[i].path \in SlotPaths}
      /\ briefing_for_workspace(w).recent = Newest(InWorkspace(w), RecentLimit)
  BY DEF briefing_for_workspace
<1>3. \A p : /\ briefing_for_project(w, p).rules = {i \in InProject(w, p) : pages[i].path \in RulePaths}
             /\ briefing_for_project(w, p).slots = {i \in InProject(w, p) : pages[i].path \in SlotPaths}
  BY DEF briefing_for_project
<1>4. ASSUME NEW i \in Newest(InWorkspace(w), RecentLimit)
      PROVE  i \in UNION {recent_pages_for_project(w, p, RecentLimit) : p \in ProjectsOf(w)}
  <2>1. i \in InWorkspace(w)
    BY DEF Newest
  <2> DEFINE p == pages[i].proj
  <2>2. p \in ProjectsOf(w) /\ i \in InProject(w, p) /\ InProject(w, p) \in SUBSET InWorkspace(w)
    BY <1>1, <2>1
  <2>3. InWorkspace(w) \in SUBSET PageIds
    BY RowsAreFinite DEF InWorkspace
  <2>4. i \in Newest(InProject(w, p), RecentLimit)
    BY <2>2, <2>3, NewestOfPart, ReaderAssumption
  <2>5. QED
    BY <2>2, <2>4 DEF recent_pages_for_project
<1>5. health_detail(w, NULL).orphans = UNION {health_detail(w, p).orphans : p \in ProjectsOf(w)}
  <2> DEFINE Orphan(i) == \A l \in links : i \notin {l.from, l.to}
  <2>1. health_detail(w, NULL).orphans = {i \in InWorkspace(w) : Orphan(i)}
    BY DEF health_detail
  <2>2. \A p : health_detail(w, p).orphans = {i \in InWorkspace(w) : (p = NULL \/ pages[i].proj = p) /\ Orphan(i)}
    BY DEF health_detail
  <2> HIDE DEF Orphan
  <2>3. QED
    BY <1>1, <2>1, <2>2
<1>6. QED
  BY <1>1, <1>2, <1>3, <1>4, <1>5

LEMMA OverviewsDoAgree == Stored => OverviewsAgree
<1> SUFFICES ASSUME Stored, NEW w \in LiveWorkspaces, NEW whole \in overview_handler(workspaces[w])
             PROVE
        LET parts == UNION {project_overview_handler(workspaces[w], projects[p].name) : p \in ProjectsOf(w)} IN
        /\ whole.health.orphans = UNION {o.health.orphans : o \in parts}
        /\ whole.briefing.rules = UNION {o.briefing.rules : o \in parts}
        /\ whole.briefing.recent \subseteq UNION {o.briefing.recent : o \in parts}
        /\ UNION {pages_handler(workspaces[w], projects[p].name) : p \in ProjectsOf(w)} = InWorkspace(w)
  BY DEF OverviewsAgree
<1> DEFINE Part(p) == [briefing |-> briefing_for_project(w, p), counts |-> memory_health(w, p),
                       health |-> health_detail(w, p)]
           parts == UNION {project_overview_handler(workspaces[w], projects[p].name) : p \in ProjectsOf(w)}
           all == [briefing |-> briefing_for_workspace(w), counts |-> memory_health(w, NULL),
                   health |-> health_detail(w, NULL)]
<1>1. find_workspace(workspaces[w]) = {w}
  BY StoredScopes DEF find_workspace, WorkspaceNamed, ScopesInv, ScopesSound
<1>2. whole = all
  BY <1>1 DEF overview_handler
<1>3. all.briefing = briefing_for_workspace(w) /\ all.health = health_detail(w, NULL)
  OBVIOUS
<1>4. ASSUME NEW p \in ProjectsOf(w)
      PROVE  project_overview_handler(workspaces[w], projects[p].name) = {Part(p)}
  <2>1. lookup_project(workspaces[w], projects[p].name) = {<<w, p>>}
    BY ProjectScope
  <2>2. QED
    BY <2>1 DEF project_overview_handler
<1>5. \A p : /\ Part(p).briefing = briefing_for_project(w, p) /\ Part(p).health = health_detail(w, p)
             /\ Part(p).briefing.recent = recent_pages_for_project(w, p, RecentLimit)
  BY DEF briefing_for_project
<1> HIDE DEF Part, all
<1>6. \A o : o \in parts <=> \E p \in ProjectsOf(w) : o = Part(p)
  BY <1>4
<1> HIDE DEF parts
<1>7. whole.health.orphans = UNION {o.health.orphans : o \in parts}
  <2>1. UNION {o.health.orphans : o \in parts} = UNION {health_detail(w, p).orphans : p \in ProjectsOf(w)}
    BY <1>5, <1>6
  <2>2. QED
    BY <1>2, <1>3, <2>1, WorkspaceIsItsProjects
<1>8. whole.briefing.rules = UNION {o.briefing.rules : o \in parts}
  <2>1. UNION {o.briefing.rules : o \in parts} = UNION {briefing_for_project(w, p).rules : p \in ProjectsOf(w)}
    BY <1>5, <1>6
  <2>2. QED
    BY <1>2, <1>3, <2>1, WorkspaceIsItsProjects
<1>9. whole.briefing.recent \subseteq UNION {o.briefing.recent : o \in parts}
  <2>1. UNION {o.briefing.recent : o \in parts}
            = UNION {recent_pages_for_project(w, p, RecentLimit) : p \in ProjectsOf(w)}
    BY <1>5, <1>6
  <2>2. QED
    BY <1>2, <1>3, <2>1, WorkspaceIsItsProjects
<1>10. UNION {pages_handler(workspaces[w], projects[p].name) : p \in ProjectsOf(w)} = InWorkspace(w)
  <2>1. ASSUME NEW p \in ProjectsOf(w)
        PROVE  pages_handler(workspaces[w], projects[p].name) = InProject(w, p)
    <3> DEFINE s == <<w, p>>
    <3>1. s \in LiveScopes /\ NameOf(s).ws = workspaces[w] /\ NameOf(s).proj = projects[p].name
          /\ s[1] = w /\ s[2] = p
      BY ProjectScope
    <3> HIDE DEF s
    <3>2. QED
      BY <3>1, ListedByName
  <2>2. QED
    BY <2>1, RowsOfWorkspace
<1>11. QED
  BY <1>7, <1>8, <1>9, <1>10 DEF parts

-----------------------------------------------------------------------------
(* Roads.                                                                   *)

LEMMA OnePagePerPath ==
  ASSUME Stored, NEW i \in LatestRows, NEW j \in LatestRows,
         pages[i].proj = pages[j].proj, pages[i].path = pages[j].path
  PROVE  i = j
<1>1. LatestIsNewest(pages) /\ Live(pages, i) /\ Live(pages, j) /\ pages[i].latest /\ pages[j].latest
  BY RowsAreLive DEF Stored, PagesInv, VersionsInv
<1>2. i \in PageIds /\ j \in PageIds /\ i <= j /\ j <= i
  BY <1>1 DEF LatestIsNewest, OnPath, Live
<1>3. QED
  BY <1>2 DEF PageIds

LEMMA RoadsLeadTo ==
  ASSUME Stored, NEW i \in LatestRows
  PROVE  LET row == pages[i]
             wn  == workspaces[row.ws]
             pn  == projects[row.proj].name
         IN /\ page_meta_by_id(i) = {i} /\ i \in page_meta_by_path(row.path)
            /\ page_meta(wn, pn, row.path) = {i}
            /\ page_body_by_ids(row.ws, row.proj, row.path) = {i}
            /\ [ws |-> wn, proj |-> pn, path |-> row.path]
                   \in search_pages_with_meta(Contents) \cap recent_pages_global(MaxPages)
            /\ i \in search_pages_for_project(row.ws, row.proj, Contents)
<1> DEFINE s == <<pages[i].ws, pages[i].proj>>
<1>1. s \in LiveScopes /\ pages[i].content \in Contents
  BY RowScope, LatestAreRows
<1>2. s[1] = pages[i].ws /\ s[2] = pages[i].proj
      /\ NameOf(s).ws = workspaces[pages[i].ws] /\ NameOf(s).proj = projects[pages[i].proj].name
  BY DEF NameOf
<1> HIDE DEF s
<1>3. list_pages(NameOf(s).ws, NameOf(s).proj) = {j \in LatestRows : pages[j].proj = pages[i].proj}
      /\ InProject(pages[i].ws, pages[i].proj) = {j \in LatestRows : pages[j].proj = pages[i].proj}
  BY <1>1, <1>2, ListedByName
<1>4. page_meta(NameOf(s).ws, NameOf(s).proj, pages[i].path) = {i}
  BY <1>3, OnePagePerPath DEF page_meta
<1>5. page_body_by_ids(pages[i].ws, pages[i].proj, pages[i].path) = {i}
  BY <1>3, OnePagePerPath DEF page_body_by_ids
<1>6. page_meta_by_id(i) = {i} /\ i \in page_meta_by_path(pages[i].path)
  BY DEF page_meta_by_id, page_meta_by_path
<1>7. [ws |-> workspaces[pages[i].ws], proj |-> projects[pages[i].proj].name, path |-> pages[i].path]
          \in search_pages_with_meta(Contents) \cap recent_pages_global(MaxPages)
  BY <1>1, AllAreRecent DEF search_pages_with_meta, recent_pages_global, with_meta, Matching
<1>8. i \in search_pages_for_project(pages[i].ws, pages[i].proj, Contents)
  BY <1>1, <1>3 DEF search_pages_for_project, Matching
<1>9. QED
  BY <1>2, <1>4, <1>5, <1>6, <1>7, <1>8

\* The stale pages of a workspace, counted whole and project by project.
LEMMA StaleAddUp ==
  ASSUME Stored, NEW w \in LiveWorkspaces
  PROVE  memory_health(w, NULL).stale
             = SumFunction([p \in ProjectsOf(w) |-> Cardinality(health_detail(w, p).stale)])
<1> DEFINE S == ProjectsOf(w)
           Old(i) == pages[i].content \in Episodic /\ ~pages[i].warm
           A == [p \in S |-> {i \in InProject(w, p) : Old(i)}]
<1>1. /\ InWorkspace(w) = UNION {InProject(w, p) : p \in S}
      /\ \A p : InProject(w, p) \subseteq InWorkspace(w)
      /\ \A i \in InWorkspace(w) : pages[i].proj \in S /\ i \in InProject(w, pages[i].proj)
  BY RowsOfWorkspace
<1>2. IsFiniteSet(S)
  BY FS_Subset DEF ProjectsOf, Stored, FiniteInv, ScopesInv
<1>3. InWorkspace(w) \subseteq LatestRows
  BY DEF InWorkspace
<1>4. DOMAIN A = S /\ \A p \in S : IsFiniteSet(A[p])
  <2>1. \A p \in S : A[p] \subseteq LatestRows
    BY <1>1, <1>3
  <2>2. QED
    BY <2>1, RowsAreFinite, FS_Subset
<1>5. Disjoint(A)
  BY DEF Disjoint, InProject
<1>6. UNION {A[p] : p \in S} = {i \in InWorkspace(w) : Old(i)}
  BY <1>1
<1>7. \A p \in S : p # NULL
  BY ReaderAssumption DEF ProjectsOf, LiveProjects
<1>8. \A p \in S : Cardinality(health_detail(w, p).stale) = Cardinality(A[p])
  <2> SUFFICES ASSUME NEW p \in S PROVE health_detail(w, p).stale = A[p]
    OBVIOUS
  <2>1. health_detail(w, p).stale = {i \in {k \in InWorkspace(w) : pages[k].proj = p} : Old(i)}
    BY <1>7 DEF health_detail
  <2>2. InProject(w, p) = {k \in InWorkspace(w) : pages[k].proj = p}
    BY DEF InProject, InWorkspace
  <2>3. QED
    BY <2>1, <2>2
<1>9. memory_health(w, NULL).stale = Cardinality({i \in InWorkspace(w) : Old(i)})
  <2>1. {i \in InWorkspace(w) : NULL = NULL \/ pages[i].proj = NULL} = InWorkspace(w)
    OBVIOUS
  <2>2. QED
    BY <2>1 DEF memory_health
<1> HIDE DEF A, S, Old
<1>10. SumFunction([p \in S |-> Cardinality(A[p])]) = Cardinality(UNION {A[p] : p \in S})
  BY <1>2, <1>4, <1>5, SumOfSizes
<1>11. [p \in S |-> Cardinality(health_detail(w, p).stale)] = [p \in S |-> Cardinality(A[p])]
  BY <1>8
<1>12. QED
  BY <1>6, <1>9, <1>10, <1>11 DEF S

LEMMA RoadsDoAgree == Stored => RoadsAgree
<1> SUFFICES ASSUME Stored PROVE RoadsAgree
  OBVIOUS
<1>1. \A i \in search_pages(Contents) : i \in LatestRows
  BY DEF search_pages, Matching
<1>2. ASSUME NEW w \in LiveWorkspaces
      PROVE  /\ briefing_for_workspace(w).recent
                    \subseteq UNION {session_brief_pages(w, p).recent : p \in ProjectsOf(w)}
             /\ \A p \in ProjectsOf(w) :
                    briefing_for_project(w, p).rules \subseteq session_brief_pages(w, p).core \cap briefing.rules
             /\ \A p \in ProjectsOf(w) :
                    memory_health(w, p).orphans = Cardinality(health_detail(w, p).orphans)
  <2>1. \A p : session_brief_pages(w, p).recent = recent_pages_for_project(w, p, RecentLimit)
    BY DEF session_brief_pages
  <2>2. briefing_for_workspace(w).recent
            \subseteq UNION {session_brief_pages(w, p).recent : p \in ProjectsOf(w)}
    BY <2>1, WorkspaceIsItsProjects
  <2>3. \A p : briefing_for_project(w, p).rules \subseteq session_brief_pages(w, p).core
    BY DEF briefing_for_project, session_brief_pages
  <2>4. \A p : briefing_for_project(w, p).rules \subseteq briefing.rules
    BY DEF briefing_for_project, briefing, InProject
  <2>5. \A p : memory_health(w, p).orphans = Cardinality(health_detail(w, p).orphans)
    BY DEF memory_health, health_detail
  <2>6. QED
    BY <2>2, <2>3, <2>4, <2>5
<1>3. \A i \in search_pages(Contents) :
          LET row == pages[i]
              wn  == workspaces[row.ws]
              pn  == projects[row.proj].name
          IN /\ page_meta_by_id(i) = {i} /\ i \in page_meta_by_path(row.path)
             /\ page_meta(wn, pn, row.path) = {i}
             /\ page_body_by_ids(row.ws, row.proj, row.path) = {i}
             /\ [ws |-> wn, proj |-> pn, path |-> row.path]
                    \in search_pages_with_meta(Contents) \cap recent_pages_global(MaxPages)
             /\ i \in search_pages_for_project(row.ws, row.proj, Contents)
  BY <1>1, RoadsLeadTo
<1>4. QED
  BY <1>2, <1>3, WorkspaceIsItsProjects, StaleAddUp DEF RoadsAgree

-----------------------------------------------------------------------------
(* Counts.                                                                  *)

\* What is counted by a key adds up to all there is.
LEMMA CountedByKey ==
  ASSUME NEW T, IsFiniteSet(T), NEW S, IsFiniteSet(S), NEW K, \A i \in T : K[i] \in S,
         NEW F, F = [x \in S |-> Cardinality({i \in T : K[i] = x})]
  PROVE  SumFunction(F) = Cardinality(T)
<1> DEFINE A == [x \in S |-> {i \in T : K[i] = x}]
<1>1. DOMAIN A = S /\ \A x \in S : IsFiniteSet(A[x])
  BY FS_Subset
<1>2. Disjoint(A)
  BY DEF Disjoint
<1>3. UNION {A[x] : x \in S} = T
  OBVIOUS
<1>4. F = [x \in S |-> Cardinality(A[x])]
  OBVIOUS
<1> HIDE DEF A
<1>5. SumFunction([x \in S |-> Cardinality(A[x])]) = Cardinality(UNION {A[x] : x \in S})
  BY <1>1, <1>2, SumOfSizes
<1>6. QED
  BY <1>3, <1>4, <1>5

LEMMA CountedByProject ==
  ASSUME Stored
  PROVE  /\ status_counts.latest = SumFunction([p \in LiveProjects |->
                briefing_for_project(projects[p].ws, p).counts.latest])
         /\ status_counts.all = SumFunction([w \in LiveWorkspaces |-> briefing_for_workspace(w).counts.all])
         /\ status_counts.latest = Cardinality(LatestRows)
<1> DEFINE F == [p \in LiveProjects |-> briefing_for_project(projects[p].ws, p).counts.latest]
           G == [w \in LiveWorkspaces |-> briefing_for_workspace(w).counts.all]
           K == [i \in LatestRows |-> pages[i].proj]
           L == [i \in Rows |-> pages[i].ws]
<1>1. \A i \in Rows : pages[i].proj \in LiveProjects /\ pages[i].ws = projects[pages[i].proj].ws
                      /\ pages[i].ws \in LiveWorkspaces
  BY RowScope
<1>2. IsFiniteSet(LiveProjects) /\ IsFiniteSet(LiveWorkspaces) /\ IsFiniteSet(Rows) /\ IsFiniteSet(LatestRows)
  BY RowsAreFinite DEF Stored, FiniteInv, ScopesInv
<1>3. /\ \A i \in LatestRows : K[i] \in LiveProjects
      /\ \A i \in Rows : L[i] \in LiveWorkspaces
  BY <1>1, LatestAreRows
<1>4. F = [p \in LiveProjects |-> Cardinality({i \in LatestRows : K[i] = p})]
  <2>1. ASSUME NEW p \in LiveProjects
        PROVE  InProject(projects[p].ws, p) = {i \in LatestRows : K[i] = p}
    BY <1>1, LatestAreRows DEF InProject
  <2>2. QED
    BY <2>1 DEF briefing_for_project, status_counts_for_project
<1>5. G = [w \in LiveWorkspaces |-> Cardinality({i \in Rows : L[i] = w})]
  <2>1. \A w \in LiveWorkspaces : {i \in Rows : pages[i].ws = w} = {i \in Rows : L[i] = w}
    OBVIOUS
  <2>2. QED
    BY <2>1 DEF briefing_for_workspace
<1> HIDE DEF F, G, K, L
<1>6. SumFunction(F) = Cardinality(LatestRows) /\ SumFunction(G) = Cardinality(Rows)
  BY <1>2, <1>3, <1>4, <1>5, CountedByKey
<1>7. QED
  BY <1>6 DEF F, G, status_counts

LEMMA CountedByName ==
  ASSUME Stored
  PROVE  /\ Cardinality(LatestRows) = SumFunction([r \in list_workspaces_with_stats |-> r.count])
         /\ Cardinality(LatestRows) = SumFunction([r \in list_projects_with_stats(NULL) |-> r.count])
<1> DEFINE Rw == [w \in LiveWorkspaces |->
                     [ws |-> workspaces[w], projects |-> Cardinality(ProjectsOf(w)),
                      count |-> Cardinality({i \in LatestRows : pages[i].proj \in ProjectsOf(w)})]]
           Rp == [p \in LiveProjects |->
                     [ws |-> workspaces[projects[p].ws], proj |-> projects[p].name,
                      count |-> Cardinality({i \in LatestRows : pages[i].proj = p})]]
           Ws == {Rw[w] : w \in LiveWorkspaces}
           Ps == {Rp[p] : p \in LiveProjects}
           K == [i \in LatestRows |-> Rw[pages[i].ws]]
           L == [i \in LatestRows |-> Rp[pages[i].proj]]
           F == [r \in Ws |-> r.count]
           G == [r \in Ps |-> r.count]
<1>1. \A i \in LatestRows : pages[i].proj \in LiveProjects /\ pages[i].ws = projects[pages[i].proj].ws
                            /\ pages[i].ws \in LiveWorkspaces
  BY RowScope, LatestAreRows
<1>2. /\ \A v, w \in LiveWorkspaces : workspaces[v] = workspaces[w] => v = w
      /\ \A p, q \in LiveProjects :
             projects[p].ws = projects[q].ws /\ projects[p].name = projects[q].name => p = q
      /\ \A p \in LiveProjects : projects[p].ws \in LiveWorkspaces
      /\ IsFiniteSet(LiveProjects) /\ IsFiniteSet(LiveWorkspaces) /\ IsFiniteSet(LatestRows)
  BY RowsAreFinite DEF Stored, FiniteInv, ScopesInv, ScopesSound
<1>3. /\ list_workspaces_with_stats = Ws
      /\ list_projects_with_stats(NULL) = Ps
  BY DEF list_workspaces_with_stats, list_projects_with_stats
<1>4. /\ \A v, w \in LiveWorkspaces : Rw[v] = Rw[w] => v = w
      /\ \A p, q \in LiveProjects : Rp[p] = Rp[q] => p = q
  <2>1. ASSUME NEW v \in LiveWorkspaces, NEW w \in LiveWorkspaces, Rw[v] = Rw[w] PROVE v = w
    <3>1. Rw[v].ws = Rw[w].ws
      BY <2>1
    <3>2. QED
      BY <1>2, <3>1
  <2>2. ASSUME NEW p \in LiveProjects, NEW q \in LiveProjects, Rp[p] = Rp[q] PROVE p = q
    <3>1. Rp[p].ws = Rp[q].ws /\ Rp[p].proj = Rp[q].proj
      BY <2>2
    <3>2. QED
      BY <1>2, <3>1
  <2>3. QED
    BY <2>1, <2>2
<1>5. \A w \in LiveWorkspaces : Rw[w].count = Cardinality({i \in LatestRows : pages[i].ws = w})
  <2>1. \A w \in LiveWorkspaces :
            {i \in LatestRows : pages[i].proj \in ProjectsOf(w)} = {i \in LatestRows : pages[i].ws = w}
    BY <1>1 DEF ProjectsOf
  <2>2. QED
    BY <2>1
<1>6. \A p \in LiveProjects : Rp[p].count = Cardinality({i \in LatestRows : pages[i].proj = p})
  OBVIOUS
<1>7. DOMAIN Rw = LiveWorkspaces /\ DOMAIN Rp = LiveProjects
  OBVIOUS
<1> HIDE DEF Rw, Rp
<1>8. IsFiniteSet(Ws) /\ IsFiniteSet(Ps)
  BY <1>2, <1>7, ImageIsFinite
<1>9. (\A i \in LatestRows : K[i] \in Ws) /\ \A i \in LatestRows : L[i] \in Ps
  BY <1>1
<1>10. F = [r \in Ws |-> Cardinality({i \in LatestRows : K[i] = r})]
  <2>1. ASSUME NEW w \in LiveWorkspaces
        PROVE  {i \in LatestRows : K[i] = Rw[w]} = {i \in LatestRows : pages[i].ws = w}
    BY <1>1, <1>4
  <2>2. \A w \in LiveWorkspaces : Rw[w].count = Cardinality({i \in LatestRows : K[i] = Rw[w]})
    BY <1>5, <2>1
  <2> HIDE DEF K
  <2>3. \A r \in Ws : r.count = Cardinality({i \in LatestRows : K[i] = r})
    BY <2>2
  <2>4. QED
    BY <2>3
<1>11. G = [r \in Ps |-> Cardinality({i \in LatestRows : L[i] = r})]
  <2>1. ASSUME NEW p \in LiveProjects
        PROVE  {i \in LatestRows : L[i] = Rp[p]} = {i \in LatestRows : pages[i].proj = p}
    BY <1>1, <1>4
  <2>2. \A p \in LiveProjects : Rp[p].count = Cardinality({i \in LatestRows : L[i] = Rp[p]})
    BY <1>6, <2>1
  <2> HIDE DEF L
  <2>3. \A r \in Ps : r.count = Cardinality({i \in LatestRows : L[i] = r})
    BY <2>2
  <2>4. QED
    BY <2>3
<1> HIDE DEF K, L, F, G, Ws, Ps
<1>12. IsFiniteSet(LatestRows) /\ IsFiniteSet(Ps) /\ \A i \in LatestRows : L[i] \in Ps
  BY <1>2, <1>8, <1>9
<1>13. IsFiniteSet(LatestRows) /\ IsFiniteSet(Ws) /\ \A i \in LatestRows : K[i] \in Ws
  BY <1>2, <1>8, <1>9
<1>14. SumFunction(F) = Cardinality(LatestRows)
  BY <1>10, <1>13, CountedByKey
<1>15. SumFunction(G) = Cardinality(LatestRows)
  BY <1>11, <1>12, CountedByKey
<1>16. QED
  BY <1>3, <1>14, <1>15 DEF F, G

LEMMA CountsDoAgree == Stored => CountsAgree
<1> SUFFICES ASSUME Stored PROVE CountsAgree
  OBVIOUS
<1>1. /\ \A v, w \in LiveWorkspaces : workspaces[v] = workspaces[w] => v = w
      /\ \A p, q \in LiveProjects :
             projects[p].ws = projects[q].ws /\ projects[p].name = projects[q].name => p = q
      /\ \A p \in LiveProjects : projects[p].ws \in LiveWorkspaces
  BY DEF Stored, FiniteInv, ScopesInv, ScopesSound
<1>2. ASSUME NEW w \in LiveWorkspaces PROVE find_workspace(workspaces[w]) = {w}
  BY <1>1 DEF find_workspace, WorkspaceNamed
<1>3. ASSUME NEW p \in LiveProjects PROVE find_project(projects[p].ws, projects[p].name) = {p}
  BY <1>1 DEF find_project, ProjectNamed
<1>4. ASSUME NEW p \in LiveProjects
      PROVE  [ws |-> workspaces[projects[p].ws], proj |-> projects[p].name,
              count |-> Cardinality(list_pages(workspaces[projects[p].ws], projects[p].name))]
                 \in list_projects_with_stats(workspaces[projects[p].ws])
  <2> DEFINE s == <<projects[p].ws, p>>
  <2>1. s \in LiveScopes /\ s[1] = projects[p].ws /\ s[2] = p
        /\ NameOf(s).ws = workspaces[projects[p].ws] /\ NameOf(s).proj = projects[p].name
    BY DEF LiveScopes, NameOf
  <2> HIDE DEF s
  <2>2. list_pages(NameOf(s).ws, NameOf(s).proj) = {i \in LatestRows : pages[i].proj = s[2]}
    BY <2>1, ListedByName
  <2>3. QED
    BY <2>1, <2>2 DEF list_projects_with_stats
<1>5. \A s \in list_all_scopes :
          /\ [ws |-> s.wn, proj |-> s.pn, count |-> Cardinality(list_pages(s.wn, s.pn))]
                 \in list_projects_with_stats(s.wn)
          /\ find_project(s.w, s.pn) = {s.p} /\ find_workspace(s.wn) = {s.w}
  BY <1>1, <1>2, <1>3, <1>4 DEF list_all_scopes
<1>6. \A s \in list_all_workspace_scopes : find_workspace(s.wn) = {s.w}
  BY <1>2 DEF list_all_workspace_scopes
<1>7. briefing.counts.all = derived_index_status.pages
  BY DEF briefing, status_counts, derived_index_status
<1>8. QED
  BY <1>5, <1>6, <1>7, CountedByProject, CountedByName DEF CountsAgree

-----------------------------------------------------------------------------
(* Links and vectors.                                                       *)

\* A finite set is two disjoint parts of it and the rest.
LEMMA ThreeParts ==
  ASSUME NEW T, IsFiniteSet(T), NEW A \in SUBSET T, NEW B \in SUBSET (T \ A)
  PROVE  Cardinality(T) = Cardinality(A) + Cardinality(B) + Cardinality((T \ A) \ B)
<1> DEFINE R == T \ A
           C == R \ B
<1>1. IsFiniteSet(R) /\ IsFiniteSet(A) /\ IsFiniteSet(B) /\ IsFiniteSet(C)
  BY FS_Subset
<1>2. T \cap A = A /\ R \cap B = B
  OBVIOUS
<1>3. Cardinality(R) = Cardinality(T) - Cardinality(A)
  <2>1. Cardinality(R) = Cardinality(T) - Cardinality(T \cap A)
    BY FS_Difference
  <2>2. QED
    BY <1>2, <2>1, Zenon
<1> HIDE DEF R
<1>4. Cardinality(C) = Cardinality(R) - Cardinality(B)
  <2>1. Cardinality(C) = Cardinality(R) - Cardinality(R \cap B)
    BY <1>1, FS_Difference
  <2>2. QED
    BY <1>2, <2>1, Zenon
<1> HIDE DEF C
<1>5. /\ Cardinality(T) \in Nat /\ Cardinality(A) \in Nat /\ Cardinality(B) \in Nat
      /\ Cardinality(C) \in Nat /\ Cardinality(R) \in Nat
  BY <1>1, FS_CardinalityType
<1>6. Cardinality(T) = Cardinality(A) + Cardinality(B) + Cardinality(C)
  BY <1>3, <1>4, <1>5
<1>7. QED
  BY <1>6 DEF C, R

\* A finite set with an element has an image of at least one.
LEMMA ImageIsSome ==
  ASSUME NEW S, IsFiniteSet(S), NEW e \in S, NEW F, DOMAIN F = S
  PROVE  Cardinality({F[f] : f \in S}) > 0
<1> DEFINE T == {F[f] : f \in S}
<1>1. IsFiniteSet(T)
  BY ImageIsFinite
<1>2. T # {}
  OBVIOUS
<1> HIDE DEF T
<1>3. Cardinality(T) # 0
  BY <1>1, <1>2, FS_EmptySet
<1>4. Cardinality(T) \in Nat
  BY <1>1, FS_CardinalityType
<1>5. QED
  BY <1>3, <1>4 DEF T

LEMMA EdgeSeenFromBothEnds ==
  ASSUME Stored, NEW e \in cross_project_edges(NULL)
  PROVE  LET i == pages[e[1]]
             j == pages[e[2]]
         IN /\ e[2] \in page_links(i.ws, i.proj, i.path).links
            /\ e[1] \in page_links(j.ws, j.proj, j.path).backlinks
            /\ cross_project_degree(i.ws, i.proj).dependencies > 0
            /\ cross_project_degree(j.ws, j.proj).dependents > 0
            /\ e \in cross_project_edges(i.proj) \cap cross_project_edges(j.proj)
<1> DEFINE E == cross_project_edges(NULL)
           i == pages[e[1]]
           j == pages[e[2]]
           Onto == {f \in E : pages[f[1]].proj = i.proj /\ pages[f[1]].ws = i.ws}
           From == {f \in E : pages[f[2]].proj = j.proj /\ pages[f[2]].ws = j.ws}
           Pn == [f \in Onto |-> pages[f[2]].proj]
           Pt == [f \in From |-> pages[f[1]].proj]
<1>1. e \in LatestRows \X LatestRows /\ LinksBetween(e[1], e[2]) # {} /\ i.proj # j.proj
  BY DEF cross_project_edges
<1>2. e[1] \in LatestRows /\ e[2] \in LatestRows
  BY <1>1
<1>3. page_body_by_ids(i.ws, i.proj, i.path) = {e[1]} /\ page_body_by_ids(j.ws, j.proj, j.path) = {e[2]}
  BY <1>2, RoadsLeadTo
<1>4. /\ e[2] \in page_links(i.ws, i.proj, i.path).links
      /\ e[1] \in page_links(j.ws, j.proj, j.path).backlinks
  BY <1>1, <1>2, <1>3 DEF page_links
<1>5. e \in cross_project_edges(i.proj) \cap cross_project_edges(j.proj)
  BY <1>1 DEF cross_project_edges
<1>6. IsFiniteSet(E)
  <2>1. E \in SUBSET (LatestRows \X LatestRows)
    BY DEF cross_project_edges
  <2>2. IsFiniteSet(LatestRows \X LatestRows)
    BY RowsAreFinite, FS_Product
  <2>3. QED
    BY <2>1, <2>2, FS_Subset
<1>7. IsFiniteSet(Onto) /\ IsFiniteSet(From) /\ e \in Onto /\ e \in From
  BY <1>6, FS_Subset
<1>8. /\ {pages[f[2]].proj : f \in Onto} = {Pn[f] : f \in Onto}
      /\ {pages[f[1]].proj : f \in From} = {Pt[f] : f \in From}
  OBVIOUS
<1>9. DOMAIN Pn = Onto /\ DOMAIN Pt = From
  OBVIOUS
<1> HIDE DEF Pn, Pt, Onto, From
<1>10. Cardinality({Pn[f] : f \in Onto}) > 0
  BY <1>7, <1>9, ImageIsSome
<1>11. Cardinality({Pt[f] : f \in From}) > 0
  BY <1>7, <1>9, ImageIsSome
<1>12. /\ cross_project_degree(i.ws, i.proj).dependencies = Cardinality({pages[f[2]].proj : f \in Onto})
       /\ cross_project_degree(j.ws, j.proj).dependents = Cardinality({pages[f[1]].proj : f \in From})
  BY DEF cross_project_degree, Onto, From
<1>13. QED
  BY <1>4, <1>5, <1>8, <1>10, <1>11, <1>12

LEMMA LinksAddUp ==
  ASSUME Stored
  PROVE  derived_index_status.links =
             derived_index_status.stale + derived_index_status.unresolved
             + SumFunction([i \in LatestRows |->
                   Cardinality({l \in links : l.from = i /\ l.to \in LatestRows})])
<1> DEFINE T == {l \in links : l.from \in LatestRows}
           U == {l \in T : l.to = NoPage}
           Old == {l \in T : l.to # NoPage /\ l.to \notin LatestRows}
           Ok == {l \in T : l.to \in LatestRows}
           K == [l \in Ok |-> l.from]
           F == [i \in LatestRows |-> Cardinality({l \in links : l.from = i /\ l.to \in LatestRows})]
<1>1. IsFiniteSet(T) /\ IsFiniteSet(LatestRows)
  BY RowsAreFinite, FS_Subset DEF Stored, FiniteInv
<1>2. NoPage \notin LatestRows
  BY RowScope, LatestAreRows
<1>3. U \in SUBSET T /\ Ok \in SUBSET (T \ U) /\ Old = (T \ U) \ Ok
  BY <1>2
<1>4. \A l \in Ok : K[l] \in LatestRows
  OBVIOUS
<1>5. F = [i \in LatestRows |-> Cardinality({l \in Ok : K[l] = i})]
  <2>1. \A i \in LatestRows : {l \in links : l.from = i /\ l.to \in LatestRows} = {l \in Ok : K[l] = i}
    OBVIOUS
  <2>2. QED
    BY <2>1
<1>6. /\ derived_index_status.links = Cardinality(T)
      /\ derived_index_status.unresolved = Cardinality(U)
      /\ derived_index_status.stale = Cardinality(Old)
  BY DEF derived_index_status
<1> HIDE DEF T, U, Old, Ok, K, F
<1>7. Cardinality(T) = Cardinality(U) + Cardinality(Ok) + Cardinality(Old)
  <2>1. Cardinality(T) = Cardinality(U) + Cardinality(Ok) + Cardinality((T \ U) \ Ok)
    BY <1>1, <1>3, ThreeParts
  <2>2. QED
    BY <1>3, <2>1, Zenon
<1>8. IsFiniteSet(U) /\ IsFiniteSet(Old) /\ IsFiniteSet(Ok)
  BY <1>1, <1>3, FS_Subset
<1>9. SumFunction(F) = Cardinality(Ok)
  BY <1>1, <1>4, <1>5, <1>8, CountedByKey
<1>10. Cardinality(U) \in Nat /\ Cardinality(Old) \in Nat /\ Cardinality(Ok) \in Nat
  BY <1>8, FS_CardinalityType
<1>11. QED
  BY <1>6, <1>7, <1>9, <1>10 DEF F

LEMMA GraphDoesAgree == Stored => GraphAgrees
<1> SUFFICES ASSUME Stored PROVE GraphAgrees
  OBVIOUS
<1>1. ASSUME NEW p, NEW l \in dangling_cross_project_links(projects[p].ws, p),
             NEW e \in cross_project_edges(p)
      PROVE  l \notin LinksBetween(e[1], e[2])
  <2>1. e[2] \in LatestRows /\ l.to = NoPage
    BY DEF cross_project_edges, dangling_cross_project_links
  <2>2. e[2] # NoPage
    BY <2>1, RowScope, LatestAreRows
  <2>3. QED
    BY <2>1, <2>2 DEF LinksBetween
<1>2. QED
  BY <1>1, EdgeSeenFromBothEnds, LinksAddUp DEF GraphAgrees

LEMMA VectorsAreOfOneModel == Stored => VectorsOfOneModel
<1> SUFFICES ASSUME Stored, NEW m \in EmbedModels
             PROVE  LET other == embedding_meta_for_mismatch(m) IN
        /\ \A p \in LiveProjects : LET w == projects[p].ws IN
               /\ load_embeddings(w, p, m) = embedded_page_ids(w, p, m)
               /\ load_embeddings(w, p, m) \cap other = {}
        /\ derived_index_status.missing + Cardinality(other)
               + SumFunction([p \in LiveProjects |-> Cardinality(load_embeddings(projects[p].ws, p, m))])
               = status_counts.latest
  BY DEF VectorsOfOneModel
<1> DEFINE Other == embedding_meta_for_mismatch(m)
           None == {i \in LatestRows : embeddings[i] = NULL}
           Own == {i \in LatestRows : embeddings[i] = m}
           K == [i \in Own |-> pages[i].proj]
           F == [p \in LiveProjects |-> Cardinality(load_embeddings(projects[p].ws, p, m))]
<1>1. m # NULL
  BY ReaderAssumption
<1>2. /\ None \in SUBSET LatestRows /\ Own \in SUBSET (LatestRows \ None)
      /\ Other = (LatestRows \ None) \ Own
  BY <1>1 DEF embedding_meta_for_mismatch
<1>3. \A i \in Own : K[i] \in LiveProjects /\ pages[i].ws = projects[pages[i].proj].ws
  BY RowScope, LatestAreRows
<1>4. F = [p \in LiveProjects |-> Cardinality({i \in Own : K[i] = p})]
  <2>1. ASSUME NEW p \in LiveProjects
        PROVE  load_embeddings(projects[p].ws, p, m) = {i \in Own : K[i] = p}
    BY <1>3 DEF load_embeddings, InProject
  <2>2. QED
    BY <2>1
<1>5. \A w, p : load_embeddings(w, p, m) = embedded_page_ids(w, p, m) /\ load_embeddings(w, p, m) \cap Other = {}
  BY DEF load_embeddings, embedded_page_ids, embedding_meta_for_mismatch
<1>6. derived_index_status.missing = Cardinality(None) /\ status_counts.latest = Cardinality(LatestRows)
  BY DEF derived_index_status, status_counts
<1>7. IsFiniteSet(LatestRows) /\ IsFiniteSet(LiveProjects)
  BY RowsAreFinite DEF Stored, FiniteInv, ScopesInv
<1> HIDE DEF Other, None, Own, K, F
<1>8. Cardinality(LatestRows) = Cardinality(None) + Cardinality(Own) + Cardinality(Other)
  <2>1. Cardinality(LatestRows) = Cardinality(None) + Cardinality(Own) + Cardinality((LatestRows \ None) \ Own)
    BY <1>2, <1>7, ThreeParts
  <2>2. QED
    BY <1>2, <2>1, Zenon
<1>9. IsFiniteSet(Own) /\ IsFiniteSet(None) /\ IsFiniteSet(Other)
  BY <1>2, <1>7, FS_Subset
<1>10. SumFunction(F) = Cardinality(Own)
  BY <1>3, <1>4, <1>7, <1>9, CountedByKey
<1>11. Cardinality(None) \in Nat /\ Cardinality(Own) \in Nat /\ Cardinality(Other) \in Nat
  BY <1>9, FS_CardinalityType
<1>12. QED
  BY <1>5, <1>6, <1>8, <1>10, <1>11 DEF F, Other

\* Workspace names are unique, project names are unique in their workspace and every
\* project is in a workspace that exists: the purges, moves and renames of the store keep
\* the names a request is resolved by.
THEOREM NamesStayUnique == SpecR => []ScopesSound
<1>1. FiniteInv => ScopesSound
  BY DEF FiniteInv, ScopesInv
<1>2. QED
  BY <1>1, ScopesStaySound, PTL

\* Every road to a page leads to the same rows: the counts of the store, of its workspaces
\* and of its projects are the same pages; what one query names, every other resolves; an
\* edge is seen from both of its ends; and a search by name, by ids or for one scope among
\* several reads one and the same project. It holds at every moment, also while a search
\* is in progress, whatever was moved, renamed, purged, superseded or evicted before.
THEOREM RoadsAlwaysAgree == SpecR => [](ReadersAgree /\ NamesAgree /\ SurfacesAgree /\ OverviewsAgree)
<1>1. Stored => ReadersAgree /\ NamesAgree /\ SurfacesAgree /\ OverviewsAgree
  BY StoredScopes, CountsDoAgree, RoadsDoAgree, GraphDoesAgree, VectorsAreOfOneModel, NamesDoAgree,
     SurfacesDoAgree, OverviewsDoAgree DEF ReadersAgree
<1>2. IInv => PagesInv
  BY InvParts
<1>3. QED
  BY <1>1, <1>2, StoreInvariant, ScopesStaySound, PTL DEF Stored

\* The same, at the moments the runs look: when no search is in progress.
THEOREM AnswersAlwaysAgree == SpecR => []AnswersAgree
<1>1. ReadersAgree /\ NamesAgree /\ SurfacesAgree /\ OverviewsAgree => AnswersAgree
  BY DEF AnswersAgree
<1>2. QED
  BY <1>1, RoadsAlwaysAgree, PTL
=============================================================================
