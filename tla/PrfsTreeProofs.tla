---------------------------- MODULE PrfsTreeProofs ----------------------------
(***************************************************************************)
(* What the transactions of PrfsStore do to the tree a reader sees, and    *)
(* what follows: the two link indexes and the link counts agree, the tree  *)
(* has no cycle, a move cannot stop half-way, and the store implements     *)
(* VersionedFs.                                                            *)
(***************************************************************************)
EXTENDS PrfsRefinement, PrfsStoreProofs, FiniteSetTheorems

-----------------------------------------------------------------------------
(* The invariant of the tables behind the tree, failed snapshots included.     *)

\* A link set stored under a version belongs to the record of that version, and
\* only directories have entries; so a set about to be copied has nothing in its way.
OwnLinks(d) ==
    \A id \in Ids, s \in Snaps :
        /\ d.down[id][s] # NoEntries =>
             d.nodes[id][s] # NoRec /\ d.nodes[id][s].dnLinkVer = s /\ d.nodes[id][s].type = "DIR"
        /\ d.up[id][s] # {} => d.nodes[id][s] # NoRec /\ d.nodes[id][s].upLinkVer = s

\* Every version of a node has the same type.
TypesFixed(d) ==
    \A id \in Ids, s, t \in Snaps :
        d.nodes[id][s] # NoRec /\ d.nodes[id][t] # NoRec => d.nodes[id][s].type = d.nodes[id][t].type

\* Up-link sets are finite, whatever the set of names.
UpFinite(d) == \A id \in Ids, s \in Snaps : IsFiniteSet(d.up[id][s])

TreeInv(d) == DbInv(d) /\ OwnLinks(d) /\ TypesFixed(d) /\ UpFinite(d)

-----------------------------------------------------------------------------
(* What a write under version cur does to reads at cur. *)

\* What a link operation leaves alone in a record.
SameBody(r, q) == /\ q # NoRec <=> r # NoRec
                  /\ q.type = r.type /\ q.data = r.data /\ q.attr = r.attr /\ q.stamp = r.stamp

\* Node i reads the same in d and e at cur, but for the versions of its link sets.
SameNode(d, e, i, cur) ==
    /\ loadNode(d, i, cur) = NoRec => loadNode(e, i, cur) = NoRec
    /\ loadNode(d, i, cur) # NoRec =>
         /\ loadNode(e, i, cur) # NoRec
         /\ SameBody(loadNode(d, i, cur), loadNode(e, i, cur))
         /\ loadNode(e, i, cur).nlink = loadNode(d, i, cur).nlink
    /\ linkSet(e, i, cur) = linkSet(d, i, cur)
    /\ parents(e, i, cur) = parents(d, i, cur)

SameTree(d, e, cur) == \A i \in Ids : SameNode(d, e, i, cur)

\* A record put at cur is what is read at cur; other nodes read as before.
LEMMA LoadStored ==
    ASSUME NEW d \in DbType, NEW id \in Ids, NEW cur \in Snaps, NEW r \in NodeRec
    PROVE  LET e == storeNode(d, id, cur, r)
           IN  /\ loadNode(e, id, cur) = r
               /\ \A i \in Ids : i # id => loadNode(e, i, cur) = loadNode(d, i, cur)
<1> DEFINE e == storeNode(d, id, cur, r)
<1>1. /\ e \in DbType
      /\ e.nodes[id][cur] = r
      /\ \A i \in Ids, s \in Snaps : ~(i = id /\ s = cur) => e.nodes[i][s] = d.nodes[i][s]
  BY StoreNodeFields
<1> HIDE DEF e
<1>2. loadNode(e, id, cur) = r
  <2> DEFINE vs == VersionsUpTo(e, id, cur)
  <2>1. cur \in vs /\ vs \in SUBSET Snaps /\ \A t \in vs : t <= cur
    BY <1>1, NoRecIsNoNode, BoundsAssumption DEF VersionsUpTo, Snaps
  <2>2. Newest(vs) = cur
    <3> HIDE DEF vs
    <3> QED BY <2>1, NewestOf
  <2> QED BY <1>1, <2>1, <2>2 DEF loadNode
<1>3. ASSUME NEW i \in Ids, i # id
      PROVE  loadNode(e, i, cur) = loadNode(d, i, cur)
  <2>1. \A s \in Snaps : e.nodes[i][s] = d.nodes[i][s]
    BY <1>1, <1>3
  <2>2. VersionsUpTo(e, i, cur) = VersionsUpTo(d, i, cur)
    BY <2>1 DEF VersionsUpTo
  <2>3. CASE VersionsUpTo(d, i, cur) = {}
    BY <2>2, <2>3 DEF loadNode
  <2>4. CASE VersionsUpTo(d, i, cur) # {}
    <3>1. VersionsUpTo(d, i, cur) \in SUBSET Snaps
      BY DEF VersionsUpTo
    <3>2. Newest(VersionsUpTo(d, i, cur)) \in Snaps
      BY <2>4, <3>1, NewestIsMax
    <3> QED BY <2>1, <2>2, <2>4, <3>2 DEF loadNode
  <2> QED BY <2>3, <2>4
<1> QED BY <1>2, <1>3 DEF e

\* If there is a record at cur it is the one read at cur; and a record that names
\* cur as the version of a link set is stored at cur.
LEMMA LoadAtCur ==
    ASSUME NEW d, DbInv(d), NEW id \in Ids, NEW cur \in Snaps
    PROVE  /\ d.nodes[id][cur] # NoRec => loadNode(d, id, cur) = d.nodes[id][cur]
           /\ existedAt(d, id, cur)
              /\ (loadNode(d, id, cur).dnLinkVer = cur \/ loadNode(d, id, cur).upLinkVer = cur)
              => d.nodes[id][cur] # NoRec
<1>1. d \in DbType /\ cur \in Int
  BY BoundsAssumption DEF DbInv, Snaps
<1>2. ASSUME d.nodes[id][cur] # NoRec PROVE loadNode(d, id, cur) = d.nodes[id][cur]
  <2> DEFINE vs == VersionsUpTo(d, id, cur)
  <2>1. cur \in vs /\ vs \in SUBSET Snaps /\ \A t \in vs : t <= cur
    BY <1>1, <1>2 DEF VersionsUpTo
  <2>2. Newest(vs) = cur
    <3> HIDE DEF vs
    <3> QED BY <2>1, NewestOf
  <2> QED BY <2>1, <2>2 DEF loadNode
<1>3. ASSUME existedAt(d, id, cur),
             loadNode(d, id, cur).dnLinkVer = cur \/ loadNode(d, id, cur).upLinkVer = cur
      PROVE  d.nodes[id][cur] # NoRec
  <2>1. PICK s \in Snaps : /\ s <= cur
                           /\ d.nodes[id][s] # NoRec
                           /\ loadNode(d, id, cur) = d.nodes[id][s]
    BY <1>1, <1>3, LoadNode DEF existedAt
  <2>2. d.nodes[id][s].dnLinkVer <= s /\ d.nodes[id][s].upLinkVer <= s
    BY <2>1 DEF DbInv, VersionsBounded
  <2>3. s = cur
    BY <1>3, <2>1, <2>2, BoundsAssumption DEF Snaps
  <2> QED BY <2>1, <2>3
<1> QED BY <1>2, <1>3

\* Any record of a node has the type of the one read at cur.
LEMMA TypeOfNode ==
    ASSUME NEW d, TreeInv(d), NEW id \in Ids, NEW cur \in Snaps, existedAt(d, id, cur),
           NEW s \in Snaps, d.nodes[id][s] # NoRec
    PROVE  d.nodes[id][s].type = loadNode(d, id, cur).type
<1>1. d \in DbType /\ cur \in Int
  BY BoundsAssumption DEF TreeInv, DbInv, Snaps
<1>2. PICK t \in Snaps : d.nodes[id][t] # NoRec /\ loadNode(d, id, cur) = d.nodes[id][t]
  BY <1>1, LoadNode DEF existedAt
<1> QED BY <1>2 DEF TreeInv, TypesFixed

\* The link sets of a node not yet copied to cur are empty at cur.
LEMMA NothingInTheWay ==
    ASSUME NEW d, TreeInv(d), NEW id \in Ids, NEW cur \in Snaps, existedAt(d, id, cur)
    PROVE  /\ loadNode(d, id, cur).dnLinkVer # cur => d.down[id][cur] = NoEntries
           /\ loadNode(d, id, cur).upLinkVer # cur => d.up[id][cur] = {}
  BY LoadAtCur DEF TreeInv, OwnLinks
-----------------------------------------------------------------------------
(* The pieces of a link operation. *)

\* putDown, field by field.
LEMMA PutDownFields ==
    ASSUME NEW d \in DbType, NEW dir \in Ids, NEW cur \in Snaps, NEW es \in Entries
    PROVE  LET e == putDown(d, dir, cur, es)
           IN  /\ e \in DbType
               /\ e.nodes = d.nodes /\ e.up = d.up
               /\ e.down[dir][cur] = es
               /\ \A i \in Ids, s \in Snaps : ~(i = dir /\ s = cur) => e.down[i][s] = d.down[i][s]
<1> DEFINE e == putDown(d, dir, cur, es)
<1>1. e.nodes = d.nodes /\ e.up = d.up /\ e.down = [d.down EXCEPT ![dir][cur] = es]
  BY DEF putDown, DbType
<1>2. e.down \in [Ids -> [Snaps -> Entries]]
  BY <1>1 DEF DbType
<1>3. e \in DbType
  BY <1>2 DEF DbType, putDown
<1> HIDE DEF e
<1>4. e.down[dir][cur] = es
      /\ \A i \in Ids, s \in Snaps : ~(i = dir /\ s = cur) => e.down[i][s] = d.down[i][s]
  BY <1>1 DEF DbType
<1> QED BY <1>1, <1>3, <1>4 DEF e

\* putUp, field by field.
LEMMA PutUpFields ==
    ASSUME NEW d \in DbType, NEW id \in Ids, NEW cur \in Snaps, NEW ls \in SUBSET (Ids \X Names)
    PROVE  LET e == putUp(d, id, cur, ls)
           IN  /\ e \in DbType
               /\ e.nodes = d.nodes /\ e.down = d.down
               /\ e.up[id][cur] = ls
               /\ \A i \in Ids, s \in Snaps : ~(i = id /\ s = cur) => e.up[i][s] = d.up[i][s]
<1> DEFINE e == putUp(d, id, cur, ls)
<1>1. e.nodes = d.nodes /\ e.down = d.down /\ e.up = [d.up EXCEPT ![id][cur] = ls]
  BY DEF putUp, DbType
<1>2. e.up \in [Ids -> [Snaps -> SUBSET (Ids \X Names)]]
  BY <1>1 DEF DbType
<1>3. e \in DbType
  BY <1>2 DEF DbType, putUp
<1> HIDE DEF e
<1>4. e.up[id][cur] = ls
      /\ \A i \in Ids, s \in Snaps : ~(i = id /\ s = cur) => e.up[i][s] = d.up[i][s]
  BY <1>1 DEF DbType
<1> QED BY <1>1, <1>3, <1>4 DEF e

\* The same records are read the same.
LEMMA LoadSameNodes ==
    ASSUME NEW d, NEW e, e.nodes = d.nodes
    PROVE  \A g : \A i \in Ids : loadNode(e, i, g) = loadNode(d, i, g)
  BY DEF loadNode, VersionsUpTo

\* A record stored at cur that keeps the node's type and the versions of its link
\* sets keeps the invariant, and no link set is read differently.
LEMMA StoreTree ==
    ASSUME NEW d, TreeInv(d), NEW id \in Ids, NEW cur \in Snaps, existedAt(d, id, cur),
           NEW r \in NodeRec, r.type = loadNode(d, id, cur).type,
           r.dnLinkVer = loadNode(d, id, cur).dnLinkVer,
           r.upLinkVer = loadNode(d, id, cur).upLinkVer
    PROVE  LET e == storeNode(d, id, cur, r)
           IN  /\ TreeInv(e)
               /\ loadNode(e, id, cur) = r
               /\ \A i \in Ids : i # id => SameNode(d, e, i, cur)
               /\ linkSet(e, id, cur) = linkSet(d, id, cur)
               /\ parents(e, id, cur) = parents(d, id, cur)
<1> DEFINE e == storeNode(d, id, cur, r)
           q == loadNode(d, id, cur)
<1>1. DbInv(d) /\ d \in DbType
  BY DEF TreeInv, DbInv
<1>2. q \in NodeRec /\ q.dnLinkVer <= cur /\ q.upLinkVer <= cur /\ id < d.next /\ q # NoRec
  BY <1>1, LoadBounded DEF existedAt
<1>3. DbInv(e)
  BY <1>1, <1>2, StoreNodeFollows DEF Follows
<1>4. /\ e.down = d.down /\ e.up = d.up
      /\ e.nodes[id][cur] = r
      /\ \A i \in Ids, s \in Snaps : ~(i = id /\ s = cur) => e.nodes[i][s] = d.nodes[i][s]
  BY <1>1, StoreNodeFields
<1>5. loadNode(e, id, cur) = r /\ \A i \in Ids : i # id => loadNode(e, i, cur) = loadNode(d, i, cur)
  BY <1>1, LoadStored
<1>6. d.nodes[id][cur] # NoRec => q = d.nodes[id][cur]
  BY <1>1, LoadAtCur
<1>7. \A s \in Snaps : d.nodes[id][s] # NoRec => d.nodes[id][s].type = r.type
  BY TypeOfNode
<1> HIDE DEF e, q
<1>8. r # NoRec
  BY NoRecIsNoNode
<1>9. OwnLinks(e)
  BY <1>4, <1>6, <1>8 DEF TreeInv, OwnLinks, q
<1>10. TypesFixed(e)
  BY <1>4, <1>7 DEF TreeInv, TypesFixed
<1>11. UpFinite(e)
  BY <1>4 DEF TreeInv, UpFinite
<1>12. \A i \in Ids : i # id => SameNode(d, e, i, cur)
  BY <1>4, <1>5 DEF SameNode, SameBody, linkSet, parents
<1>13. linkSet(e, id, cur) = linkSet(d, id, cur) /\ parents(e, id, cur) = parents(d, id, cur)
  BY <1>2, <1>4, <1>5, <1>8 DEF linkSet, parents, q
<1> QED BY <1>3, <1>5, <1>9, <1>10, <1>11, <1>12, <1>13 DEF TreeInv, e

\* ensureWritableDnLinks: the directory's entries become its own at cur, and nobody
\* sees a difference.
LEMMA EnsureDnTree ==
    ASSUME NEW d, TreeInv(d), NEW dir \in Ids, NEW cur \in Snaps, isDir(d, dir, cur)
    PROVE  LET e == ensureWritableDnLinks(d, cur, dir)
           IN  /\ TreeInv(e)
               /\ SameTree(d, e, cur)
               /\ loadNode(e, dir, cur).dnLinkVer = cur
<1> DEFINE r   == loadNode(d, dir, cur)
           old == d.down[dir][r.dnLinkVer]
           new == d.down[dir][cur]
           es  == copyEntries(old, new)
           d1  == putDown(d, dir, cur, es)
           r1  == [r EXCEPT !.dnLinkVer = cur]
           e   == storeNode(d1, dir, cur, r1)
<1>1. DbInv(d) /\ d \in DbType /\ existedAt(d, dir, cur) /\ r.type = "DIR"
  BY NoRecIsNoNode DEF TreeInv, DbInv, isDir, existedAt
<1>2. r \in NodeRec /\ r.dnLinkVer \in Snaps /\ r.upLinkVer \in Snaps /\ r # NoRec
  BY <1>1, LoadBounded DEF NodeRec, existedAt
<1>3. CASE r.dnLinkVer = cur
  <2>1. SameTree(d, d, cur)
    BY DEF SameTree, SameNode, SameBody
  <2> QED BY <1>3, <2>1 DEF ensureWritableDnLinks
<1>4. CASE r.dnLinkVer # cur
  <2>1. ensureWritableDnLinks(d, cur, dir) = e
    BY <1>4 DEF ensureWritableDnLinks
  <2>2. DbInv(e)
    BY <1>1, <2>1, EnsureDnFollows DEF Follows
  <2>3. old \in Entries /\ new \in Entries /\ new = NoEntries
    BY <1>1, <1>2, <1>4, NothingInTheWay DEF DbType
  <2>4. es = old /\ es \in Entries
    BY <2>3 DEF copyEntries, NoEntries, Entries
  <2> HIDE DEF es
  <2>5. /\ d1 \in DbType /\ d1.nodes = d.nodes /\ d1.up = d.up
        /\ d1.down[dir][cur] = old
        /\ \A i \in Ids, s \in Snaps : ~(i = dir /\ s = cur) => d1.down[i][s] = d.down[i][s]
    BY <1>1, <2>4, PutDownFields
  <2> HIDE DEF d1
  <2>6. /\ r1 \in NodeRec /\ r1.type = "DIR" /\ r1.dnLinkVer = cur /\ r1.upLinkVer = r.upLinkVer
        /\ r1.nlink = r.nlink /\ SameBody(r, r1) /\ r1 # NoRec
    BY <1>1, <1>2, NoRecIsNoNode DEF NodeRec, SameBody
  <2> HIDE DEF r1
  <2>7. /\ e.down = d1.down /\ e.up = d.up
        /\ e.nodes[dir][cur] = r1
        /\ \A i \in Ids, s \in Snaps : ~(i = dir /\ s = cur) => e.nodes[i][s] = d.nodes[i][s]
    BY <2>5, <2>6, StoreNodeFields
  <2>8. /\ loadNode(e, dir, cur) = r1
        /\ \A i \in Ids : i # dir => loadNode(e, i, cur) = loadNode(d, i, cur)
    BY <2>5, <2>6, LoadStored, LoadSameNodes
  <2> HIDE DEF e
  <2>9. d.nodes[dir][cur] # NoRec => r = d.nodes[dir][cur]
    BY <1>1, LoadAtCur
  <2>10. \A s \in Snaps : d.nodes[dir][s] # NoRec => d.nodes[dir][s].type = "DIR"
    BY <1>1, TypeOfNode
  <2> HIDE DEF old, new
  <2>11. OwnLinks(e)
    BY <2>5, <2>6, <2>7, <2>9 DEF TreeInv, OwnLinks
  <2>12. TypesFixed(e)
    BY <2>6, <2>7, <2>10 DEF TreeInv, TypesFixed
  <2>13. UpFinite(e)
    BY <2>7 DEF TreeInv, UpFinite
  <2>14. ASSUME NEW i \in Ids, i # dir PROVE SameNode(d, e, i, cur)
    <3>1. loadNode(e, i, cur) = loadNode(d, i, cur)
      BY <2>8, <2>14
    <3>2. linkSet(e, i, cur) = linkSet(d, i, cur)
      <4>1. CASE loadNode(d, i, cur).type # "DIR"
        BY <3>1, <4>1 DEF linkSet
      <4>2. CASE loadNode(d, i, cur).type = "DIR"
        <5>1. loadNode(d, i, cur).dnLinkVer \in Snaps
          BY <1>1, <4>2, NoRecIsNoNode, LoadBounded DEF existedAt, NodeRec
        <5> QED BY <3>1, <4>2, <5>1, <2>5, <2>7, <2>14 DEF linkSet
      <4> QED BY <4>1, <4>2
    <3> QED BY <3>1, <3>2, <2>7 DEF SameNode, SameBody, parents
  <2>15. SameNode(d, e, dir, cur)
    <3>1. linkSet(e, dir, cur) = linkSet(d, dir, cur)
      BY <1>1, <2>5, <2>6, <2>7, <2>8 DEF linkSet, old
    <3>2. parents(e, dir, cur) = parents(d, dir, cur)
      BY <1>2, <2>6, <2>7, <2>8 DEF parents
    <3> QED BY <1>2, <2>6, <2>8, <3>1, <3>2 DEF SameNode
  <2> QED BY <2>1, <2>2, <2>6, <2>8, <2>11, <2>12, <2>13, <2>14, <2>15 DEF TreeInv, SameTree
<1> QED BY <1>3, <1>4

\* ensureWritableUpLinks, likewise; the down-links' version stays.
LEMMA EnsureUpTree ==
    ASSUME NEW d, TreeInv(d), NEW id \in Ids, NEW cur \in Snaps, existedAt(d, id, cur)
    PROVE  LET e == ensureWritableUpLinks(d, cur, id)
           IN  /\ TreeInv(e)
               /\ SameTree(d, e, cur)
               /\ loadNode(e, id, cur).upLinkVer = cur
               /\ \A i \in Ids : loadNode(e, i, cur).dnLinkVer = loadNode(d, i, cur).dnLinkVer
<1> DEFINE r  == loadNode(d, id, cur)
           ls == d.up[id][cur] \cup d.up[id][r.upLinkVer]
           d1 == putUp(d, id, cur, ls)
           r1 == [r EXCEPT !.upLinkVer = cur]
           e  == storeNode(d1, id, cur, r1)
<1>1. DbInv(d) /\ d \in DbType
  BY DEF TreeInv, DbInv
<1>2. r \in NodeRec /\ r.dnLinkVer \in Snaps /\ r.upLinkVer \in Snaps /\ r # NoRec
  BY <1>1, LoadBounded DEF NodeRec, existedAt
<1>3. CASE r.upLinkVer = cur
  <2>1. SameTree(d, d, cur)
    BY DEF SameTree, SameNode, SameBody
  <2> QED BY <1>3, <2>1 DEF ensureWritableUpLinks
<1>4. CASE r.upLinkVer # cur
  <2>1. ensureWritableUpLinks(d, cur, id) = e
    BY <1>4 DEF ensureWritableUpLinks
  <2>2. DbInv(e)
    BY <1>1, <2>1, EnsureUpFollows DEF Follows
  <2>3. ls = d.up[id][r.upLinkVer] /\ ls \in SUBSET (Ids \X Names)
    BY <1>1, <1>2, <1>4, NothingInTheWay DEF DbType
  <2> HIDE DEF ls
  <2>5. /\ d1 \in DbType /\ d1.nodes = d.nodes /\ d1.down = d.down
        /\ d1.up[id][cur] = ls
        /\ \A i \in Ids, s \in Snaps : ~(i = id /\ s = cur) => d1.up[i][s] = d.up[i][s]
    BY <1>1, <2>3, PutUpFields
  <2> HIDE DEF d1
  <2>6. /\ r1 \in NodeRec /\ r1.type = r.type /\ r1.dnLinkVer = r.dnLinkVer /\ r1.upLinkVer = cur
        /\ r1.nlink = r.nlink /\ SameBody(r, r1) /\ r1 # NoRec
    BY <1>1, <1>2, NoRecIsNoNode DEF NodeRec, SameBody
  <2> HIDE DEF r1
  <2>7. /\ e.down = d.down /\ e.up = d1.up
        /\ e.nodes[id][cur] = r1
        /\ \A i \in Ids, s \in Snaps : ~(i = id /\ s = cur) => e.nodes[i][s] = d.nodes[i][s]
    BY <2>5, <2>6, StoreNodeFields
  <2>8. /\ loadNode(e, id, cur) = r1
        /\ \A i \in Ids : i # id => loadNode(e, i, cur) = loadNode(d, i, cur)
    BY <2>5, <2>6, LoadStored, LoadSameNodes
  <2> HIDE DEF e
  <2>9. d.nodes[id][cur] # NoRec => r = d.nodes[id][cur]
    BY <1>1, LoadAtCur
  <2>10. \A s \in Snaps : d.nodes[id][s] # NoRec => d.nodes[id][s].type = r.type
    BY <1>1, TypeOfNode
  <2>11. OwnLinks(e)
    BY <2>5, <2>6, <2>7, <2>9 DEF TreeInv, OwnLinks
  <2>12. TypesFixed(e)
    BY <2>6, <2>7, <2>10 DEF TreeInv, TypesFixed
  <2>13. UpFinite(e)
    BY <1>2, <2>3, <2>5, <2>7 DEF TreeInv, UpFinite
  <2>14. ASSUME NEW i \in Ids, i # id PROVE SameNode(d, e, i, cur)
    <3>1. loadNode(e, i, cur) = loadNode(d, i, cur)
      BY <2>8, <2>14
    <3>2. parents(e, i, cur) = parents(d, i, cur)
      <4>1. CASE loadNode(d, i, cur) = NoRec
        BY <3>1, <4>1 DEF parents
      <4>2. CASE loadNode(d, i, cur) # NoRec
        <5>1. loadNode(d, i, cur).upLinkVer \in Snaps
          BY <1>1, <4>2, LoadBounded DEF existedAt, NodeRec
        <5> QED BY <3>1, <4>2, <5>1, <2>5, <2>7, <2>14 DEF parents
      <4> QED BY <4>1, <4>2
    <3> QED BY <3>1, <3>2, <2>7 DEF SameNode, SameBody, linkSet
  <2>15. SameNode(d, e, id, cur)
    <3>1. linkSet(e, id, cur) = linkSet(d, id, cur)
      BY <2>6, <2>7, <2>8 DEF linkSet
    <3>2. parents(e, id, cur) = parents(d, id, cur)
      BY <1>2, <2>3, <2>5, <2>6, <2>7, <2>8 DEF parents
    <3> QED BY <1>2, <2>6, <2>8, <3>1, <3>2 DEF SameNode
  <2>16. \A i \in Ids : loadNode(e, i, cur).dnLinkVer = loadNode(d, i, cur).dnLinkVer
    BY <2>6, <2>8
  <2> QED BY <2>1, <2>2, <2>6, <2>8, <2>11, <2>12, <2>13, <2>14, <2>15, <2>16 DEF TreeInv, SameTree
<1> QED BY <1>3, <1>4

\* putDown at cur on a directory whose entries are its own at cur: they become es, and
\* nothing else is read differently.
LEMMA PutDownTree ==
    ASSUME NEW d, TreeInv(d), NEW dir \in Ids, NEW cur \in Snaps, isDir(d, dir, cur),
           loadNode(d, dir, cur).dnLinkVer = cur, NEW es \in Entries,
           \A n \in Names : es[n] # NoId =>
               \/ es[n] = linkSet(d, dir, cur)[n]
               \/ n # SNAPSHOT_NAME /\ existedAt(d, es[n], cur)
    PROVE  LET e == putDown(d, dir, cur, es)
           IN  /\ TreeInv(e)
               /\ e.up = d.up
               /\ \A i \in Ids : loadNode(e, i, cur) = loadNode(d, i, cur)
               /\ linkSet(e, dir, cur) = es
               /\ \A i \in Ids : i # dir => linkSet(e, i, cur) = linkSet(d, i, cur)
               /\ \A i \in Ids : parents(e, i, cur) = parents(d, i, cur)
<1> DEFINE e == putDown(d, dir, cur, es)
           r == loadNode(d, dir, cur)
<1>1. DbInv(d) /\ d \in DbType /\ r # NoRec /\ existedAt(d, dir, cur) /\ cur \in Int
  BY NoRecIsNoNode, BoundsAssumption DEF TreeInv, DbInv, isDir, existedAt, Snaps
<1>2. linkSet(d, dir, cur) = d.down[dir][cur]
  BY DEF linkSet, isDir
<1>3. es[SNAPSHOT_NAME] = NoId
  BY <1>1, <1>2, NamesAssumption DEF DbInv, NameReserved
<1>4. ASSUME NEW n \in Names, es[n] # NoId
      PROVE  \E s \in Snaps : s <= cur /\ d.nodes[es[n]][s] # NoRec
  <2>1. CASE es[n] = linkSet(d, dir, cur)[n]
    BY <1>1, <1>2, <1>4, <2>1 DEF DbInv, EntriesBacked
  <2>2. CASE existedAt(d, es[n], cur)
    <3>1. es[n] \in Ids
      BY <1>4 DEF Entries
    <3> QED BY <1>1, <2>2, <3>1, ExistsIff
  <2> QED BY <1>4, <2>1, <2>2
<1>5. DbInv(e)
  BY <1>1, <1>3, <1>4, PutDownFollows DEF Follows
<1>6. /\ e.nodes = d.nodes /\ e.up = d.up
      /\ e.down[dir][cur] = es
      /\ \A i \in Ids, s \in Snaps : ~(i = dir /\ s = cur) => e.down[i][s] = d.down[i][s]
  <2>1. d \in DbType
    BY <1>1
  <2> HIDE DEF r
  <2> QED BY <2>1, PutDownFields
<1> HIDE DEF e
<1>7. \A i \in Ids : loadNode(e, i, cur) = loadNode(d, i, cur)
  BY <1>6, LoadSameNodes
<1>8. d.nodes[dir][cur] # NoRec /\ r = d.nodes[dir][cur]
  BY <1>1, LoadAtCur
<1>9. OwnLinks(e)
  BY <1>6, <1>8 DEF TreeInv, OwnLinks, isDir
<1>10. TypesFixed(e) /\ UpFinite(e)
  BY <1>6 DEF TreeInv, TypesFixed, UpFinite
<1>11. linkSet(e, dir, cur) = es
  BY <1>6, <1>7 DEF linkSet, isDir
<1>12. ASSUME NEW i \in Ids, i # dir PROVE linkSet(e, i, cur) = linkSet(d, i, cur)
  <2>1. CASE loadNode(d, i, cur).type # "DIR"
    BY <1>7, <2>1 DEF linkSet
  <2>2. CASE loadNode(d, i, cur).type = "DIR"
    <3>1. loadNode(d, i, cur).dnLinkVer \in Snaps
      BY <1>1, <2>2, NoRecIsNoNode, LoadBounded DEF existedAt, NodeRec
    <3> QED BY <1>6, <1>7, <1>12, <2>2, <3>1 DEF linkSet
  <2> QED BY <2>1, <2>2
<1>13. \A i \in Ids : parents(e, i, cur) = parents(d, i, cur)
  BY <1>6, <1>7 DEF parents
<1> QED BY <1>5, <1>6, <1>7, <1>9, <1>10, <1>11, <1>12, <1>13 DEF TreeInv, e

\* putUp at cur on a node whose up-links are its own at cur, likewise.
LEMMA PutUpTree ==
    ASSUME NEW d, TreeInv(d), NEW id \in Ids, NEW cur \in Snaps, existedAt(d, id, cur),
           loadNode(d, id, cur).upLinkVer = cur,
           NEW ls \in SUBSET (Ids \X Names), IsFiniteSet(ls)
    PROVE  LET e == putUp(d, id, cur, ls)
           IN  /\ TreeInv(e)
               /\ \A i \in Ids : loadNode(e, i, cur) = loadNode(d, i, cur)
               /\ \A i \in Ids : linkSet(e, i, cur) = linkSet(d, i, cur)
               /\ parents(e, id, cur) = ls
               /\ \A i \in Ids : i # id => parents(e, i, cur) = parents(d, i, cur)
<1> DEFINE e == putUp(d, id, cur, ls)
           r == loadNode(d, id, cur)
<1>1. DbInv(d) /\ d \in DbType /\ r # NoRec
  BY DEF TreeInv, DbInv, existedAt
<1>2. DbInv(e)
  BY <1>1, PutUpFollows DEF Follows
<1>3. /\ e.nodes = d.nodes /\ e.down = d.down
      /\ e.up[id][cur] = ls
      /\ \A i \in Ids, s \in Snaps : ~(i = id /\ s = cur) => e.up[i][s] = d.up[i][s]
  BY <1>1, PutUpFields
<1> HIDE DEF e
<1>4. \A i \in Ids : loadNode(e, i, cur) = loadNode(d, i, cur)
  BY <1>3, LoadSameNodes
<1>5. d.nodes[id][cur] # NoRec /\ r = d.nodes[id][cur]
  BY <1>1, LoadAtCur
<1>6. OwnLinks(e)
  BY <1>3, <1>5 DEF TreeInv, OwnLinks
<1>7. TypesFixed(e) /\ UpFinite(e)
  BY <1>3 DEF TreeInv, TypesFixed, UpFinite
<1>8. \A i \in Ids : linkSet(e, i, cur) = linkSet(d, i, cur)
  BY <1>3, <1>4 DEF linkSet
<1>9. parents(e, id, cur) = ls
  BY <1>1, <1>3, <1>4 DEF parents
<1>10. ASSUME NEW i \in Ids, i # id PROVE parents(e, i, cur) = parents(d, i, cur)
  <2>1. CASE loadNode(d, i, cur) = NoRec
    BY <1>4, <2>1 DEF parents
  <2>2. CASE loadNode(d, i, cur) # NoRec
    <3>1. loadNode(d, i, cur).upLinkVer \in Snaps
      BY <1>1, <2>2, LoadBounded DEF existedAt, NodeRec
    <3> QED BY <1>3, <1>4, <1>10, <2>2, <3>1 DEF parents
  <2> QED BY <2>1, <2>2
<1> QED BY <1>2, <1>4, <1>6, <1>7, <1>8, <1>9, <1>10 DEF TreeInv, e

\* storeNlink: the link count moves by one and nothing else is read differently.
LEMMA StoreNlinkTree ==
    ASSUME NEW d, TreeInv(d), NEW id \in Ids, NEW cur \in Snaps, existedAt(d, id, cur),
           NEW step \in {1, -1}
    PROVE  LET e == storeNlink(d, cur, id, step)
               n == loadNode(d, id, cur).nlink
           IN  /\ TreeInv(e)
               /\ \A i \in Ids : SameBody(loadNode(d, i, cur), loadNode(e, i, cur))
               /\ loadNode(e, id, cur).nlink = IF n + step >= 0 THEN n + step ELSE n
               /\ \A i \in Ids : i # id => loadNode(e, i, cur).nlink = loadNode(d, i, cur).nlink
               /\ \A i \in Ids : linkSet(e, i, cur) = linkSet(d, i, cur)
               /\ \A i \in Ids : parents(e, i, cur) = parents(d, i, cur)
<1> DEFINE r  == loadNode(d, id, cur)
           r1 == [r EXCEPT !.nlink = IF @ + step >= 0 THEN @ + step ELSE @]
           e  == storeNode(d, id, cur, r1)
<1>1. DbInv(d) /\ d \in DbType /\ r # NoRec
  BY DEF TreeInv, DbInv, existedAt
<1>2. r \in NodeRec
  BY <1>1, LoadBounded
<1>3. /\ r1 \in NodeRec /\ r1.type = r.type /\ r1.dnLinkVer = r.dnLinkVer /\ r1.upLinkVer = r.upLinkVer
      /\ r1.nlink = IF r.nlink + step >= 0 THEN r.nlink + step ELSE r.nlink
      /\ r1.data = r.data /\ r1.attr = r.attr /\ r1.stamp = r.stamp
  BY <1>2 DEF NodeRec
<1>4. r1 # NoRec
  BY <1>3, NoRecIsNoNode
<1> HIDE DEF r1
<1>5. /\ TreeInv(e)
      /\ loadNode(e, id, cur) = r1
      /\ linkSet(e, id, cur) = linkSet(d, id, cur)
      /\ parents(e, id, cur) = parents(d, id, cur)
  BY <1>3, StoreTree
<1>6. \A i \in Ids : i # id => /\ loadNode(e, i, cur) = loadNode(d, i, cur)
                               /\ linkSet(e, i, cur) = linkSet(d, i, cur)
                               /\ parents(e, i, cur) = parents(d, i, cur)
  <2>1. \A i \in Ids : i # id => SameNode(d, e, i, cur)
    BY <1>3, StoreTree
  <2>2. \A i \in Ids : i # id => loadNode(e, i, cur) = loadNode(d, i, cur)
    BY <1>1, <1>3, LoadStored
  <2> QED BY <2>1, <2>2 DEF SameNode
<1>7. e = storeNlink(d, cur, id, step)
  BY DEF storeNlink, r1
<1> HIDE DEF e
<1>8. \A i \in Ids : SameBody(loadNode(d, i, cur), loadNode(e, i, cur))
  BY <1>1, <1>3, <1>4, <1>5, <1>6 DEF SameBody
<1> QED BY <1>3, <1>5, <1>6, <1>7, <1>8

-----------------------------------------------------------------------------
(* The link operations as a reader of the live tree sees them. *)

\* Entry `name' of dir leads to target, child's up-links are ps, its link count is nl,
\* and everything else reads at cur as before.
Edited(d, e, cur, dir, name, target, child, ps, nl) ==
    /\ \A i \in Ids : SameBody(loadNode(d, i, cur), loadNode(e, i, cur))
    /\ linkSet(e, dir, cur) = [linkSet(d, dir, cur) EXCEPT ![name] = target]
    /\ \A i \in Ids : i # dir => linkSet(e, i, cur) = linkSet(d, i, cur)
    /\ parents(e, child, cur) = ps
    /\ \A i \in Ids : i # child => parents(e, i, cur) = parents(d, i, cur)
    /\ loadNode(e, child, cur).nlink = nl
    /\ \A i \in Ids : i # child => loadNode(e, i, cur).nlink = loadNode(d, i, cur).nlink

\* Reading link sets and up-links gives entries and pairs.
LEMMA ReadTypes ==
    ASSUME NEW d, DbInv(d), NEW id \in Ids, NEW g \in Snaps
    PROVE  /\ linkSet(d, id, g) \in Entries
           /\ parents(d, id, g) \in SUBSET (Ids \X Names)
           /\ existedAt(d, id, g) => loadNode(d, id, g).nlink \in Nat
<1>1. d \in DbType
  BY DEF DbInv
<1>2. CASE loadNode(d, id, g) = NoRec
  BY <1>2, NoRecIsNoNode DEF linkSet, parents, NoEntries, Entries, existedAt
<1>3. CASE loadNode(d, id, g) # NoRec
  <2>1. loadNode(d, id, g) \in NodeRec
    BY <1>3, LoadBounded DEF existedAt
  <2>2. /\ loadNode(d, id, g).dnLinkVer \in Snaps
        /\ loadNode(d, id, g).upLinkVer \in Snaps
        /\ loadNode(d, id, g).nlink \in Nat
    BY <2>1 DEF NodeRec
  <2>3. NoEntries \in Entries
    BY DEF NoEntries, Entries
  <2>4. d.down[id][loadNode(d, id, g).dnLinkVer] \in Entries
    BY <1>1, <2>2 DEF DbType
  <2>5. d.up[id][loadNode(d, id, g).upLinkVer] \in SUBSET (Ids \X Names)
    BY <1>1, <2>2 DEF DbType
  <2> QED BY <1>3, <2>2, <2>3, <2>4, <2>5 DEF linkSet, parents
<1> QED BY <1>2, <1>3

\* The up-links of a node are finitely many.
LEMMA ParentsFinite ==
    ASSUME NEW d, TreeInv(d), NEW id \in Ids, NEW g \in Snaps
    PROVE  IsFiniteSet(parents(d, id, g))
<1>1. CASE loadNode(d, id, g) = NoRec
  BY <1>1, FS_EmptySet DEF parents
<1>2. CASE loadNode(d, id, g) # NoRec
  <2>1. loadNode(d, id, g).upLinkVer \in Snaps
    BY <1>2, LoadBounded DEF TreeInv, existedAt, NodeRec
  <2> QED BY <1>2, <2>1 DEF parents, TreeInv, UpFinite
<1> QED BY <1>1, <1>2

\* The body of linkT and unlinkT: both link sets made writable, the entry put or
\* deleted, the up-links ls put, the link count moved.
LEMMA EditEntry ==
    ASSUME NEW d, TreeInv(d), NEW dir \in Ids, NEW child \in Ids, NEW cur \in Snaps,
           isDir(d, dir, cur), existedAt(d, child, cur),
           NEW name \in Names, NEW target \in {child, NoId},
           target = child => name # SNAPSHOT_NAME,
           NEW ls \in SUBSET (Ids \X Names), IsFiniteSet(ls), NEW step \in {1, -1}
    PROVE  LET d1 == ensureWritable(d, cur, dir, child)
               d2 == putDown(d1, dir, cur, [d1.down[dir][cur] EXCEPT ![name] = target])
               e  == storeNlink(putUp(d2, child, cur, ls), cur, child, step)
               n  == loadNode(d, child, cur).nlink
           IN  /\ d2.up[child][cur] = parents(d, child, cur)
               /\ TreeInv(e)
               /\ Edited(d, e, cur, dir, name, target, child, ls,
                         IF n + step >= 0 THEN n + step ELSE n)
<1> DEFINE d0 == ensureWritableDnLinks(d, cur, dir)
           d1 == ensureWritable(d, cur, dir, child)
           es == [d1.down[dir][cur] EXCEPT ![name] = target]
           d2 == putDown(d1, dir, cur, es)
           d3 == putUp(d2, child, cur, ls)
           e  == storeNlink(d3, cur, child, step)
           n  == loadNode(d, child, cur).nlink
<1>1. TreeInv(d0) /\ SameTree(d, d0, cur) /\ loadNode(d0, dir, cur).dnLinkVer = cur
  BY EnsureDnTree
<1>2. existedAt(d0, child, cur)
  BY <1>1 DEF SameTree, SameNode, existedAt
<1>3. /\ TreeInv(d1) /\ SameTree(d0, d1, cur)
      /\ loadNode(d1, child, cur).upLinkVer = cur
      /\ loadNode(d1, dir, cur).dnLinkVer = cur
  <2> HIDE DEF d0
  <2>1. d1 = ensureWritableUpLinks(d0, cur, child)
    BY DEF ensureWritable, d0
  <2> HIDE DEF d1
  <2> QED BY <1>1, <1>2, <2>1, EnsureUpTree
<1> HIDE DEF d0, d1
<1>4. /\ \A i \in Ids : SameBody(loadNode(d, i, cur), loadNode(d1, i, cur))
      /\ \A i \in Ids : loadNode(d1, i, cur).nlink = loadNode(d, i, cur).nlink
      /\ \A i \in Ids : linkSet(d1, i, cur) = linkSet(d, i, cur)
      /\ \A i \in Ids : parents(d1, i, cur) = parents(d, i, cur)
  BY <1>1, <1>3 DEF SameTree, SameNode, SameBody
<1>5. /\ isDir(d1, dir, cur) /\ existedAt(d1, child, cur)
      /\ DbInv(d1) /\ d1 \in DbType
  BY <1>3, <1>4 DEF SameBody, isDir, existedAt, TreeInv, DbInv
<1>6. linkSet(d, dir, cur) = d1.down[dir][cur] /\ parents(d, child, cur) = d1.up[child][cur]
  BY <1>3, <1>4, <1>5 DEF linkSet, parents, isDir, existedAt
<1>7. /\ es \in Entries /\ es = [linkSet(d, dir, cur) EXCEPT ![name] = target]
      /\ \A m \in Names : es[m] = IF m = name THEN target ELSE linkSet(d1, dir, cur)[m]
  <2>1. d1.down[dir][cur] \in Entries
    BY <1>5 DEF DbType
  <2> QED BY <1>4, <1>6, <2>1 DEF Entries
<1> HIDE DEF es
<1>8. \A m \in Names : es[m] # NoId => \/ es[m] = linkSet(d1, dir, cur)[m]
                                       \/ m # SNAPSHOT_NAME /\ existedAt(d1, es[m], cur)
  BY <1>5, <1>7
<1>9. /\ TreeInv(d2)
      /\ d2.up = d1.up
      /\ \A i \in Ids : loadNode(d2, i, cur) = loadNode(d1, i, cur)
      /\ linkSet(d2, dir, cur) = es
      /\ \A i \in Ids : i # dir => linkSet(d2, i, cur) = linkSet(d1, i, cur)
      /\ \A i \in Ids : parents(d2, i, cur) = parents(d1, i, cur)
  <2>1. TreeInv(d1) /\ isDir(d1, dir, cur) /\ loadNode(d1, dir, cur).dnLinkVer = cur /\ es \in Entries
    BY <1>3, <1>5, <1>7
  <2> QED BY <2>1, <1>8, PutDownTree
<1> HIDE DEF d2
<1>10. existedAt(d2, child, cur) /\ loadNode(d2, child, cur).upLinkVer = cur
  BY <1>3, <1>5, <1>9 DEF existedAt
<1>11. /\ TreeInv(d3)
       /\ \A i \in Ids : loadNode(d3, i, cur) = loadNode(d2, i, cur)
       /\ \A i \in Ids : linkSet(d3, i, cur) = linkSet(d2, i, cur)
       /\ parents(d3, child, cur) = ls
       /\ \A i \in Ids : i # child => parents(d3, i, cur) = parents(d2, i, cur)
  BY <1>9, <1>10, PutUpTree
<1> HIDE DEF d3
<1>12. existedAt(d3, child, cur)
  BY <1>10, <1>11 DEF existedAt
<1>13. /\ TreeInv(e)
       /\ \A i \in Ids : SameBody(loadNode(d3, i, cur), loadNode(e, i, cur))
       /\ LET m == loadNode(d3, child, cur).nlink
          IN  loadNode(e, child, cur).nlink = IF m + step >= 0 THEN m + step ELSE m
       /\ \A i \in Ids : i # child => loadNode(e, i, cur).nlink = loadNode(d3, i, cur).nlink
       /\ \A i \in Ids : linkSet(e, i, cur) = linkSet(d3, i, cur)
       /\ \A i \in Ids : parents(e, i, cur) = parents(d3, i, cur)
  BY <1>11, <1>12, StoreNlinkTree
<1> HIDE DEF e
<1>14. \A i \in Ids : loadNode(d3, i, cur) = loadNode(d1, i, cur)
  BY <1>9, <1>11
<1>15. \A i \in Ids : SameBody(loadNode(d, i, cur), loadNode(e, i, cur))
  BY <1>4, <1>13, <1>14 DEF SameBody
<1>16. loadNode(e, child, cur).nlink = IF n + step >= 0 THEN n + step ELSE n
  BY <1>4, <1>13, <1>14
<1>17. Edited(d, e, cur, dir, name, target, child, ls, IF n + step >= 0 THEN n + step ELSE n)
  BY <1>4, <1>7, <1>9, <1>11, <1>13, <1>14, <1>15, <1>16 DEF Edited
<1> QED BY <1>6, <1>9, <1>13, <1>17 DEF d1, d2, d3, e, es

\* linkT as a reader sees it.
LEMMA LinkView ==
    ASSUME NEW d, TreeInv(d), NEW dir \in Ids, NEW child \in Ids, NEW cur \in Snaps,
           NEW name \in Names, name # SNAPSHOT_NAME,
           isDir(d, dir, cur), existedAt(d, child, cur)
    PROVE  LET e == linkDb(d, cur, dir, name, child)
           IN  /\ TreeInv(e)
               /\ Edited(d, e, cur, dir, name, child, child,
                         parents(d, child, cur) \cup {<<dir, name>>},
                         loadNode(d, child, cur).nlink + 1)
<1> DEFINE d1 == ensureWritable(d, cur, dir, child)
           d2 == putDown(d1, dir, cur, [d1.down[dir][cur] EXCEPT ![name] = child])
           ls == parents(d, child, cur) \cup {<<dir, name>>}
           e  == storeNlink(putUp(d2, child, cur, ls), cur, child, 1)
           n  == loadNode(d, child, cur).nlink
<1>1. ls \in SUBSET (Ids \X Names) /\ IsFiniteSet(ls) /\ n \in Nat
  <2>1. /\ parents(d, child, cur) \in SUBSET (Ids \X Names)
        /\ IsFiniteSet(parents(d, child, cur))
        /\ n \in Nat
    BY ReadTypes, ParentsFinite DEF TreeInv
  <2>2. IsFiniteSet(ls)
    BY <2>1, FS_AddElement
  <2> QED BY <2>1, <2>2
<1>2. /\ d2.up[child][cur] = parents(d, child, cur)
      /\ TreeInv(e)
      /\ Edited(d, e, cur, dir, name, child, child, ls, IF n + 1 >= 0 THEN n + 1 ELSE n)
  <2> HIDE DEF ls
  <2> QED BY <1>1, EditEntry
<1>3. linkDb(d, cur, dir, name, child) = e
  BY <1>2 DEF linkDb
<1>4. (IF n + 1 >= 0 THEN n + 1 ELSE n) = n + 1
  BY <1>1
<1> QED BY <1>2, <1>3, <1>4

\* An entry unlinkT finds is the entry a reader of the directory finds.
LEMMA UnlinkChildRead ==
    ASSUME NEW d, TreeInv(d), NEW dir \in Ids, NEW name \in Names, NEW cur \in Snaps
    PROVE  /\ unlinkChild(d, cur, dir, name) = linkSet(d, dir, cur)[name]
           /\ unlinkChild(d, cur, dir, name) # NoId => isDir(d, dir, cur)
<1> DEFINE r == loadNode(d, dir, cur)
<1>1. CASE r = NoRec
  BY <1>1, NoRecIsNoNode DEF unlinkChild, existedAt, linkSet, NoEntries
<1>2. CASE r # NoRec /\ r.type = "DIR"
  BY <1>2 DEF unlinkChild, existedAt, linkSet, isDir
<1>3. CASE r # NoRec /\ r.type # "DIR"
  <2>1. r.dnLinkVer \in Snaps
    BY <1>3, LoadBounded DEF TreeInv, existedAt, NodeRec
  <2>2. d.nodes[dir][r.dnLinkVer] # NoRec => d.nodes[dir][r.dnLinkVer].type # "DIR"
    BY <1>3, <2>1, TypeOfNode DEF existedAt
  <2>3. d.down[dir][r.dnLinkVer] = NoEntries
    BY <2>1, <2>2 DEF TreeInv, OwnLinks
  <2> QED BY <1>3, <2>3 DEF unlinkChild, existedAt, linkSet, NoEntries
<1> QED BY <1>1, <1>2, <1>3

\* unlinkT as a reader sees it.
LEMMA UnlinkView ==
    ASSUME NEW d, TreeInv(d), NEW dir \in Ids, NEW name \in Names, NEW cur \in Snaps,
           unlinkChild(d, cur, dir, name) # NoId
    PROVE  LET e == unlinkDb(d, cur, dir, name)
               c == linkSet(d, dir, cur)[name]
               n == loadNode(d, c, cur).nlink
           IN  /\ TreeInv(e)
               /\ c \in Ids /\ existedAt(d, c, cur) /\ isDir(d, dir, cur)
               /\ Edited(d, e, cur, dir, name, NoId, c, parents(d, c, cur) \ {<<dir, name>>},
                         IF n - 1 >= 0 THEN n - 1 ELSE n)
<1> DEFINE c  == unlinkChild(d, cur, dir, name)
           d1 == ensureWritable(d, cur, dir, c)
           d2 == putDown(d1, dir, cur, [d1.down[dir][cur] EXCEPT ![name] = NoId])
           ls == parents(d, c, cur) \ {<<dir, name>>}
           e  == storeNlink(putUp(d2, c, cur, ls), cur, c, -1)
           n  == loadNode(d, c, cur).nlink
<1>1. c \in Ids /\ existedAt(d, c, cur)
  BY UnlinkChildExists DEF TreeInv
<1>2. c = linkSet(d, dir, cur)[name] /\ isDir(d, dir, cur)
  BY UnlinkChildRead
<1>3. e = unlinkDb(d, cur, dir, name) \/ d2.up[c][cur] # parents(d, c, cur)
  BY DEF unlinkDb
<1>4. /\ d2.up[c][cur] = parents(d, c, cur)
      /\ TreeInv(e)
      /\ Edited(d, e, cur, dir, name, NoId, c, ls, IF n + (-1) >= 0 THEN n + (-1) ELSE n)
  <2> HIDE DEF c
  <2>1. NoId # c /\ NoId \in {c, NoId}
    BY <1>1, BoundsAssumption DEF Ids, NoId
  <2>2. parents(d, c, cur) \in SUBSET (Ids \X Names) /\ IsFiniteSet(parents(d, c, cur))
    BY <1>1, ReadTypes, ParentsFinite DEF TreeInv
  <2>3. ls \in SUBSET (Ids \X Names) /\ IsFiniteSet(ls)
    BY <2>2, FS_RemoveElement
  <2> HIDE DEF ls
  <2>4. ASSUME NEW step \in {1, -1}
        PROVE  LET f == storeNlink(putUp(d2, c, cur, ls), cur, c, step)
               IN  /\ d2.up[c][cur] = parents(d, c, cur)
                   /\ TreeInv(f)
                   /\ Edited(d, f, cur, dir, name, NoId, c, ls,
                             IF n + step >= 0 THEN n + step ELSE n)
    <3>1. isDir(d, dir, cur)
      BY <1>2
    <3> QED BY <1>1, <2>1, <2>3, <3>1, EditEntry, ZenonT(60)
  <2> HIDE DEF d2, n
  <2> QED BY <2>4
<1>5. n \in Nat
  <2> HIDE DEF c
  <2> QED BY <1>1, ReadTypes DEF TreeInv
<1>6. (IF n + (-1) >= 0 THEN n + (-1) ELSE n) = (IF n - 1 >= 0 THEN n - 1 ELSE n)
  BY <1>5
<1> HIDE DEF c, d1, d2, ls, e, n
<1> QED BY <1>1, <1>2, <1>3, <1>4, <1>6 DEF ls, n

-----------------------------------------------------------------------------
(* The other transactions as a reader sees them. *)

\* A transaction on the meta keys changes no read and keeps the invariant.
LEMMA MetaTree ==
    ASSUME NEW d, TreeInv(d), NEW e, DbInv(e), e.nodes = d.nodes, e.down = d.down, e.up = d.up
    PROVE  /\ TreeInv(e)
           /\ \A g : \A i \in Ids : /\ loadNode(e, i, g) = loadNode(d, i, g)
                                    /\ linkSet(e, i, g) = linkSet(d, i, g)
                                    /\ parents(e, i, g) = parents(d, i, g)
<1>1. \A g : \A i \in Ids : loadNode(e, i, g) = loadNode(d, i, g)
  BY LoadSameNodes
<1>2. \A g : \A i \in Ids : linkSet(e, i, g) = linkSet(d, i, g) /\ parents(e, i, g) = parents(d, i, g)
  BY <1>1 DEF linkSet, parents
<1>3. OwnLinks(e) /\ TypesFixed(e) /\ UpFinite(e)
  BY DEF TreeInv, OwnLinks, TypesFixed, UpFinite
<1> QED BY <1>1, <1>2, <1>3 DEF TreeInv

\* The first record of a node: it appears with no entries and no up-links.
LEMMA StoreNew ==
    ASSUME NEW d, TreeInv(d), NEW id \in Ids, id < d.next, NEW cur \in Snaps,
           \A s \in Snaps : d.nodes[id][s] = NoRec,
           NEW r \in NodeRec, r.dnLinkVer = cur, r.upLinkVer = cur
    PROVE  LET e == storeNode(d, id, cur, r)
           IN  /\ TreeInv(e)
               /\ loadNode(d, id, cur) = NoRec
               /\ loadNode(e, id, cur) = r
               /\ linkSet(e, id, cur) = NoEntries /\ parents(e, id, cur) = {}
               /\ \A i \in Ids : i # id => /\ loadNode(e, i, cur) = loadNode(d, i, cur)
                                           /\ linkSet(e, i, cur) = linkSet(d, i, cur)
                                           /\ parents(e, i, cur) = parents(d, i, cur)
<1> DEFINE e == storeNode(d, id, cur, r)
<1>1. DbInv(d) /\ d \in DbType /\ cur \in Int
  BY BoundsAssumption DEF TreeInv, DbInv, Snaps
<1>2. DbInv(e)
  BY <1>1, StoreNodeFollows DEF Follows
<1>3. /\ e.down = d.down /\ e.up = d.up
      /\ e.nodes[id][cur] = r
      /\ \A i \in Ids, s \in Snaps : ~(i = id /\ s = cur) => e.nodes[i][s] = d.nodes[i][s]
  BY <1>1, StoreNodeFields
<1>4. loadNode(e, id, cur) = r /\ \A i \in Ids : i # id => loadNode(e, i, cur) = loadNode(d, i, cur)
  BY <1>1, LoadStored
<1> HIDE DEF e
<1>5. r # NoRec
  BY NoRecIsNoNode
<1>6. loadNode(d, id, cur) = NoRec
  BY <1>1, ExistsIff DEF existedAt
<1>7. d.down[id][cur] = NoEntries /\ d.up[id][cur] = {}
  BY DEF TreeInv, OwnLinks
<1>8. OwnLinks(e)
  BY <1>3 DEF TreeInv, OwnLinks
<1>9. TypesFixed(e)
  BY <1>3 DEF TreeInv, TypesFixed
<1>10. UpFinite(e)
  BY <1>3 DEF TreeInv, UpFinite
<1>11. linkSet(e, id, cur) = NoEntries /\ parents(e, id, cur) = {}
  BY <1>3, <1>4, <1>5, <1>7 DEF linkSet, parents
<1>12. \A i \in Ids : i # id => /\ linkSet(e, i, cur) = linkSet(d, i, cur)
                                /\ parents(e, i, cur) = parents(d, i, cur)
  BY <1>3, <1>4 DEF linkSet, parents
<1> QED BY <1>2, <1>4, <1>6, <1>8, <1>9, <1>10, <1>11, <1>12 DEF TreeInv, e

\* alloc as a reader sees it.
LEMMA AllocView ==
    ASSUME NEW d, TreeInv(d), NEW id \in Ids, d.next <= id, NEW cur \in Snaps,
           NEW type \in Types, NEW data \in Data, NEW now \in Times
    PROVE  LET e == allocDb(d, cur, id, type, data, now)
           IN  /\ TreeInv(e)
               /\ loadNode(d, id, cur) = NoRec
               /\ loadNode(e, id, cur) =
                    [type |-> type, nlink |-> 0, data |-> data, attr |-> now, stamp |-> now,
                     dnLinkVer |-> cur, upLinkVer |-> cur]
               /\ linkSet(e, id, cur) = NoEntries /\ parents(e, id, cur) = {}
               /\ \A i \in Ids : i # id => /\ loadNode(e, i, cur) = loadNode(d, i, cur)
                                           /\ linkSet(e, i, cur) = linkSet(d, i, cur)
                                           /\ parents(e, i, cur) = parents(d, i, cur)
<1> DEFINE d1 == [d EXCEPT !.next = id + 1]
           r  == [type |-> type, nlink |-> 0, data |-> data, attr |-> now, stamp |-> now,
                  dnLinkVer |-> cur, upLinkVer |-> cur]
<1>1. DbInv(d) /\ d \in DbType /\ d.next \in Int /\ id + 1 \in 1..(MaxNode + 1) /\ d.next <= id + 1
  BY BoundsAssumption DEF TreeInv, DbInv, DbType, Ids
<1>2. /\ d1 \in DbType /\ d1.nodes = d.nodes /\ d1.down = d.down
      /\ d1.up = d.up /\ d1.changes = d.changes /\ d1.next = id + 1
  BY <1>1 DEF DbType
<1> HIDE DEF d1
<1>3. DbInv(d1)
  BY <1>1, <1>2, MetaInv
<1>4. /\ TreeInv(d1)
      /\ \A i \in Ids : /\ loadNode(d1, i, cur) = loadNode(d, i, cur)
                        /\ linkSet(d1, i, cur) = linkSet(d, i, cur)
                        /\ parents(d1, i, cur) = parents(d, i, cur)
  BY <1>2, <1>3, MetaTree
<1>5. r \in NodeRec /\ r.dnLinkVer = cur /\ r.upLinkVer = cur
  BY BoundsAssumption DEF NodeRec, Snaps
<1>6. id < d1.next
  BY <1>2, BoundsAssumption DEF Ids
<1>7. \A s \in Snaps : d1.nodes[id][s] = NoRec
  <2>1. \A s \in Snaps : d.nodes[id][s] # NoRec => id < d.next
    BY <1>1 DEF DbInv, RecordsIndexed
  <2> QED BY <1>1, <1>2, <2>1, BoundsAssumption DEF Ids
<1> HIDE DEF r
<1>8. LET e == storeNode(d1, id, cur, r)
      IN  /\ TreeInv(e)
          /\ loadNode(d1, id, cur) = NoRec
          /\ loadNode(e, id, cur) = r
          /\ linkSet(e, id, cur) = NoEntries /\ parents(e, id, cur) = {}
          /\ \A i \in Ids : i # id => /\ loadNode(e, i, cur) = loadNode(d1, i, cur)
                                      /\ linkSet(e, i, cur) = linkSet(d1, i, cur)
                                      /\ parents(e, i, cur) = parents(d1, i, cur)
  BY <1>4, <1>5, <1>6, <1>7, StoreNew
<1>9. allocDb(d, cur, id, type, data, now) = storeNode(d1, id, cur, r)
  BY DEF allocDb, d1, r
<1> QED BY <1>4, <1>8, <1>9 DEF r

\* A setter as a reader sees it: r1 is the record read, but for data, attr and stamp.
LEMMA RewriteView ==
    ASSUME NEW d, TreeInv(d), NEW id \in Ids, NEW cur \in Snaps, existedAt(d, id, cur),
           NEW r1 \in NodeRec, r1.type = loadNode(d, id, cur).type,
           r1.nlink = loadNode(d, id, cur).nlink,
           r1.dnLinkVer = loadNode(d, id, cur).dnLinkVer,
           r1.upLinkVer = loadNode(d, id, cur).upLinkVer
    PROVE  LET e == storeNode(d, id, cur, r1)
           IN  /\ TreeInv(e)
               /\ loadNode(e, id, cur) = r1
               /\ \A i \in Ids : i # id => loadNode(e, i, cur) = loadNode(d, i, cur)
               /\ \A i \in Ids : /\ existedAt(e, i, cur) <=> existedAt(d, i, cur)
                                 /\ loadNode(e, i, cur).type = loadNode(d, i, cur).type
                                 /\ loadNode(e, i, cur).nlink = loadNode(d, i, cur).nlink
                                 /\ linkSet(e, i, cur) = linkSet(d, i, cur)
                                 /\ parents(e, i, cur) = parents(d, i, cur)
<1> DEFINE e == storeNode(d, id, cur, r1)
<1>1. d \in DbType /\ r1 # NoRec
  BY NoRecIsNoNode DEF TreeInv, DbInv
<1>2. /\ TreeInv(e)
      /\ loadNode(e, id, cur) = r1
      /\ \A i \in Ids : i # id => SameNode(d, e, i, cur)
      /\ linkSet(e, id, cur) = linkSet(d, id, cur)
      /\ parents(e, id, cur) = parents(d, id, cur)
  BY StoreTree
<1>3. \A i \in Ids : i # id => loadNode(e, i, cur) = loadNode(d, i, cur)
  BY <1>1, LoadStored
<1> HIDE DEF e
<1>4. \A i \in Ids : /\ linkSet(e, i, cur) = linkSet(d, i, cur)
                     /\ parents(e, i, cur) = parents(d, i, cur)
  BY <1>2 DEF SameNode
<1>5. \A i \in Ids : /\ existedAt(e, i, cur) <=> existedAt(d, i, cur)
                     /\ loadNode(e, i, cur).type = loadNode(d, i, cur).type
                     /\ loadNode(e, i, cur).nlink = loadNode(d, i, cur).nlink
  BY <1>1, <1>2, <1>3 DEF existedAt
<1> QED BY <1>2, <1>3, <1>4, <1>5 DEF e

-----------------------------------------------------------------------------
(* move: the second leg finds what the first one found. *)

\* Once child has been linked as entry dn of ddir, entry sn of sdir still leads to it.
LEMMA MoveLegs ==
    ASSUME NEW d, TreeInv(d), NEW cur \in Snaps, NEW sdir \in Ids, NEW ddir \in Ids,
           NEW sn \in Names, NEW dn \in Names,
           unlinkChild(d, cur, sdir, sn) # NoId,
           linkErr(d, cur, ddir, dn, unlinkChild(d, cur, sdir, sn)) = "OK"
    PROVE  LET c == linkSet(d, sdir, cur)[sn]
               e == linkDb(d, cur, ddir, dn, c)
           IN  /\ c \in Ids /\ existedAt(d, c, cur) /\ c = unlinkChild(d, cur, sdir, sn)
               /\ isDir(d, sdir, cur) /\ isDir(d, ddir, cur) /\ dn # SNAPSHOT_NAME
               /\ linkSet(d, ddir, cur)[dn] = NoId
               /\ TreeInv(e)
               /\ Edited(d, e, cur, ddir, dn, c, c, parents(d, c, cur) \cup {<<ddir, dn>>},
                         loadNode(d, c, cur).nlink + 1)
               /\ linkSet(e, sdir, cur)[sn] = c
               /\ unlinkChild(e, cur, sdir, sn) = c
<1> DEFINE c == linkSet(d, sdir, cur)[sn]
           e == linkDb(d, cur, ddir, dn, c)
<1>1. c = unlinkChild(d, cur, sdir, sn) /\ isDir(d, sdir, cur)
  BY UnlinkChildRead
<1>2. c \in Ids /\ existedAt(d, c, cur)
  BY <1>1, UnlinkChildExists DEF TreeInv
<1> HIDE DEF c
<1>3. isDir(d, ddir, cur) /\ dn # SNAPSHOT_NAME /\ linkSet(d, ddir, cur)[dn] = NoId
  BY <1>1 DEF linkErr, isDir, linkSet
<1>4. /\ TreeInv(e)
      /\ Edited(d, e, cur, ddir, dn, c, c, parents(d, c, cur) \cup {<<ddir, dn>>},
                loadNode(d, c, cur).nlink + 1)
  BY <1>2, <1>3, LinkView
<1> HIDE DEF e
<1>5. linkSet(d, sdir, cur) \in Entries /\ linkSet(d, ddir, cur) \in Entries
  BY ReadTypes DEF TreeInv
<1>6. linkSet(e, sdir, cur)[sn] = c
  <2>1. CASE sdir = ddir
    BY <1>4, <1>5, <2>1 DEF Edited, Entries, c
  <2>2. CASE sdir # ddir
    BY <1>4, <2>2 DEF Edited, c
  <2> QED BY <2>1, <2>2
<1>7. unlinkChild(e, cur, sdir, sn) = c
  BY <1>4, <1>6, UnlinkChildRead
<1> QED BY <1>1, <1>2, <1>3, <1>4, <1>6, <1>7 DEF c, e

\* move as a reader sees it, leg by leg.
LEMMA MoveView ==
    ASSUME NEW d, TreeInv(d), NEW cur \in Snaps, NEW sdir \in Ids, NEW ddir \in Ids,
           NEW sn \in Names, NEW dn \in Names,
           moveErr(d, cur, sdir, sn, ddir, dn) = "OK"
    PROVE  LET c == linkSet(d, sdir, cur)[sn]
               e == linkDb(d, cur, ddir, dn, c)
               n == loadNode(e, c, cur).nlink
           IN  /\ unlinkChild(d, cur, sdir, sn) # NoId
               /\ linkErr(d, cur, ddir, dn, unlinkChild(d, cur, sdir, sn)) = "OK"
               /\ TreeInv(moveDb(d, cur, sdir, sn, ddir, dn))
               /\ Edited(e, moveDb(d, cur, sdir, sn, ddir, dn), cur, sdir, sn, NoId, c,
                         parents(e, c, cur) \ {<<sdir, sn>>}, IF n - 1 >= 0 THEN n - 1 ELSE n)
<1> DEFINE c == linkSet(d, sdir, cur)[sn]
           e == linkDb(d, cur, ddir, dn, c)
           f == moveDb(d, cur, sdir, sn, ddir, dn)
           n == loadNode(e, c, cur).nlink
<1>1. unlinkChild(d, cur, sdir, sn) # NoId /\ linkErr(d, cur, ddir, dn, unlinkChild(d, cur, sdir, sn)) = "OK"
  BY DEF moveErr
<1>2. /\ c = unlinkChild(d, cur, sdir, sn) /\ TreeInv(e)
      /\ linkSet(e, sdir, cur)[sn] = c /\ unlinkChild(e, cur, sdir, sn) = c
  <2>1. /\ c \in Ids /\ existedAt(d, c, cur) /\ c = unlinkChild(d, cur, sdir, sn)
        /\ isDir(d, sdir, cur) /\ isDir(d, ddir, cur) /\ dn # SNAPSHOT_NAME
        /\ linkSet(d, ddir, cur)[dn] = NoId
        /\ TreeInv(e)
        /\ Edited(d, e, cur, ddir, dn, c, c, parents(d, c, cur) \cup {<<ddir, dn>>},
                  loadNode(d, c, cur).nlink + 1)
        /\ linkSet(e, sdir, cur)[sn] = c
        /\ unlinkChild(e, cur, sdir, sn) = c
    BY <1>1, MoveLegs
  <2> QED BY <2>1
<1>3. f = unlinkDb(e, cur, sdir, sn)
  BY <1>2 DEF moveDb
<1>4. c # NoId
  BY <1>1, <1>2
<1> HIDE DEF c, e
<1>5. LET c1 == linkSet(e, sdir, cur)[sn]
          n1 == loadNode(e, c1, cur).nlink
      IN  /\ TreeInv(f)
          /\ Edited(e, f, cur, sdir, sn, NoId, c1, parents(e, c1, cur) \ {<<sdir, sn>>},
                    IF n1 - 1 >= 0 THEN n1 - 1 ELSE n1)
  BY <1>2, <1>3, <1>4, UnlinkView
<1>6. TreeInv(f) /\ Edited(e, f, cur, sdir, sn, NoId, c, parents(e, c, cur) \ {<<sdir, sn>>},
                           IF n - 1 >= 0 THEN n - 1 ELSE n)
  BY <1>2, <1>5
<1> QED BY <1>1, <1>6 DEF c, e

-----------------------------------------------------------------------------
(* The tree: what is true of a view that transactions on the live view built.   *)

\* Node a's entry b leads to id exactly when (a, b) is an up-link of id.
Mirrored(d, g) ==
    \A id, a \in Ids, b \in Names : <<a, b>> \in parents(d, id, g) <=> linkSet(d, a, g)[b] = id

\* The link count is the number of up-links (one more for the root).
Counted(d, g) ==
    \A id \in Ids : existedAt(d, id, g) =>
        loadNode(d, id, g).nlink = Cardinality(parents(d, id, g)) + (IF id = Root THEN 1 ELSE 0)

\* Every set of nodes has a member with no child directory in the set.
NoCycle(d, g) ==
    \A S \in (SUBSET Ids) \ {{}} : \E n \in S : subdirs(d, n, g) \cap S = {}

TreeAt(d, g) == Mirrored(d, g) /\ Counted(d, g) /\ NoCycle(d, g) /\ isDir(d, Root, g)

\* A view that reads like a tree is one.
LEMMA SameReads ==
    ASSUME NEW d, NEW g, NEW e, NEW h, TreeAt(d, g),
           \A i \in Ids : /\ existedAt(e, i, h) <=> existedAt(d, i, g)
                          /\ loadNode(e, i, h).type = loadNode(d, i, g).type
                          /\ loadNode(e, i, h).nlink = loadNode(d, i, g).nlink
                          /\ linkSet(e, i, h) = linkSet(d, i, g)
                          /\ parents(e, i, h) = parents(d, i, g),
           \A i \in Ids : linkSet(d, i, g) \in Entries
    PROVE  TreeAt(e, h)
<1>1. Mirrored(e, h)
  <2> SUFFICES ASSUME NEW id \in Ids, NEW a \in Ids, NEW b \in Names
               PROVE  <<a, b>> \in parents(e, id, h) <=> linkSet(e, a, h)[b] = id
    BY DEF Mirrored
  <2>1. <<a, b>> \in parents(d, id, g) <=> linkSet(d, a, g)[b] = id
    BY DEF TreeAt, Mirrored
  <2> QED BY <2>1
<1>2. Counted(e, h)
  BY DEF TreeAt, Counted
<1>3. \A n \in Ids : subdirs(e, n, h) = subdirs(d, n, g)
  <2> SUFFICES ASSUME NEW n \in Ids PROVE subdirs(e, n, h) = subdirs(d, n, g)
    OBVIOUS
  <2>1. \A c \in Ids : isDir(e, c, h) <=> isDir(d, c, g)
    BY DEF isDir
  <2>2. {linkSet(d, n, g)[nm] : nm \in Names} \ {NoId} \subseteq Ids
    BY DEF Entries
  <2> QED BY <2>1, <2>2 DEF subdirs
<1>4. NoCycle(e, h)
  BY <1>3 DEF TreeAt, NoCycle
<1>5. isDir(e, Root, h)
  BY BoundsAssumption DEF TreeAt, isDir, Root, Ids
<1> QED BY <1>1, <1>2, <1>4, <1>5 DEF TreeAt

\* Fewer child directories make no cycle.
LEMMA FewerSubdirs ==
    ASSUME NEW d, NEW e, NEW g, NoCycle(d, g),
           \A n \in Ids : subdirs(e, n, g) \subseteq subdirs(d, n, g)
    PROVE  NoCycle(e, g)
  BY DEF NoCycle

\* The child directories of a node, entry by entry.
LEMMA SubdirsIff ==
    ASSUME NEW d, DbInv(d), NEW g \in Snaps, NEW n \in Ids
    PROVE  /\ subdirs(d, n, g) \subseteq Ids
           /\ \A c \in Ids : c \in subdirs(d, n, g) <=>
                 isDir(d, c, g) /\ \E nm \in Names : linkSet(d, n, g)[nm] = c
<1>1. linkSet(d, n, g) \in Entries
  BY ReadTypes
<1>2. \A c \in Ids : c # NoId
  BY BoundsAssumption DEF Ids, NoId
<1> QED BY <1>1, <1>2 DEF subdirs, Entries

\* An edit of one entry leaves the directories directories.
LEMMA EditedDirs ==
    ASSUME NEW d, NEW e, NEW cur, NEW dir, NEW name, NEW target, NEW child, NEW ps, NEW nl,
           Edited(d, e, cur, dir, name, target, child, ps, nl)
    PROVE  \A i \in Ids : /\ isDir(e, i, cur) <=> isDir(d, i, cur)
                          /\ existedAt(e, i, cur) <=> existedAt(d, i, cur)
  BY DEF Edited, SameBody, isDir, existedAt

\* The entries after an edit, one by one.
LEMMA EditedEntries ==
    ASSUME NEW d, DbInv(d), NEW e, NEW cur \in Snaps, NEW dir \in Ids, NEW name \in Names,
           NEW target, NEW child, NEW ps, NEW nl,
           Edited(d, e, cur, dir, name, target, child, ps, nl)
    PROVE  \A a \in Ids, b \in Names :
               linkSet(e, a, cur)[b] = IF a = dir /\ b = name THEN target ELSE linkSet(d, a, cur)[b]
<1>1. linkSet(d, dir, cur) \in Entries
  BY ReadTypes
<1> QED BY <1>1 DEF Edited, Entries

\* Some set of nodes closed under going down to directories holds `from' and not `to'.
Apart(d, from, to, g) ==
    \E R \in SUBSET Ids : /\ from \in R /\ to \notin R
                          /\ \A n \in R : subdirs(d, n, g) \subseteq R

\* What linkT checks before it links: the entry is free, and a child that is a
\* directory does not lead to dir.
LEMMA LinkChecks ==
    ASSUME NEW d, NEW cur, NEW dir \in Ids, NEW name \in Names, NEW child \in Ids,
           linkErr(d, cur, dir, name, child) = "OK"
    PROVE  /\ name # SNAPSHOT_NAME /\ isDir(d, dir, cur) /\ existedAt(d, child, cur)
           /\ linkSet(d, dir, cur)[name] = NoId
           /\ isDir(d, child, cur) => Apart(d, child, dir, cur)
<1>1. name # SNAPSHOT_NAME /\ isDir(d, dir, cur) /\ existedAt(d, child, cur)
      /\ ~(isDir(d, child, cur) /\ reachable(d, child, dir, cur))
  BY DEF linkErr
<1>2. linkSet(d, dir, cur)[name] = NoId
  BY DEF linkErr, linkSet, isDir
<1>3. ASSUME isDir(d, child, cur) PROVE Apart(d, child, dir, cur)
  BY <1>1, <1>3 DEF reachable, Apart
<1> QED BY <1>1, <1>2, <1>3

\* linkT keeps the tree a tree.
LEMMA LinkTree ==
    ASSUME NEW d, TreeInv(d), NEW cur \in Snaps, TreeAt(d, cur), NEW e, DbInv(e),
           NEW dir \in Ids, NEW name \in Names, NEW child \in Ids,
           linkErr(d, cur, dir, name, child) = "OK",
           Edited(d, e, cur, dir, name, child, child, parents(d, child, cur) \cup {<<dir, name>>},
                  loadNode(d, child, cur).nlink + 1)
    PROVE  TreeAt(e, cur)
<1>1. linkSet(d, dir, cur)[name] = NoId /\ existedAt(d, child, cur) /\ DbInv(d)
  BY LinkChecks DEF TreeInv
<1>2. \A a \in Ids, b \in Names :
         linkSet(e, a, cur)[b] = IF a = dir /\ b = name THEN child ELSE linkSet(d, a, cur)[b]
  BY <1>1, EditedEntries
<1>3. \A i \in Ids : /\ isDir(e, i, cur) <=> isDir(d, i, cur)
                     /\ existedAt(e, i, cur) <=> existedAt(d, i, cur)
  BY EditedDirs
<1>4. /\ parents(e, child, cur) = parents(d, child, cur) \cup {<<dir, name>>}
      /\ \A i \in Ids : i # child => parents(e, i, cur) = parents(d, i, cur)
      /\ loadNode(e, child, cur).nlink = loadNode(d, child, cur).nlink + 1
      /\ \A i \in Ids : i # child => loadNode(e, i, cur).nlink = loadNode(d, i, cur).nlink
  BY DEF Edited
<1>5. \A i \in Ids : <<dir, name>> \notin parents(d, i, cur)
  BY <1>1, BoundsAssumption DEF TreeAt, Mirrored, Ids, NoId
<1>6. Mirrored(e, cur)
  <2> SUFFICES ASSUME NEW id \in Ids, NEW a \in Ids, NEW b \in Names
               PROVE  <<a, b>> \in parents(e, id, cur) <=> linkSet(e, a, cur)[b] = id
    BY DEF Mirrored
  <2>1. <<a, b>> \in parents(d, id, cur) <=> linkSet(d, a, cur)[b] = id
    BY DEF TreeAt, Mirrored
  <2> QED BY <1>2, <1>4, <1>5, <2>1
<1>7. Counted(e, cur)
  <2> SUFFICES ASSUME NEW id \in Ids, existedAt(e, id, cur)
               PROVE  loadNode(e, id, cur).nlink =
                         Cardinality(parents(e, id, cur)) + (IF id = Root THEN 1 ELSE 0)
    BY DEF Counted
  <2>1. loadNode(d, id, cur).nlink =
           Cardinality(parents(d, id, cur)) + (IF id = Root THEN 1 ELSE 0)
    BY <1>3 DEF TreeAt, Counted
  <2>2. CASE id # child
    BY <1>4, <2>1, <2>2
  <2>3. CASE id = child
    <3>1. IsFiniteSet(parents(d, id, cur))
      BY ParentsFinite
    <3>2. Cardinality(parents(e, id, cur)) = Cardinality(parents(d, id, cur)) + 1
      BY <1>4, <1>5, <2>3, <3>1, FS_AddElement
    <3>3. Cardinality(parents(d, id, cur)) \in Nat
      BY <3>1, FS_CardinalityType
    <3> QED BY <1>4, <2>1, <2>3, <3>2, <3>3
  <2> QED BY <2>2, <2>3
<1>8. NoCycle(e, cur)
  <2>1. \A n, c \in Ids : c \in subdirs(e, n, cur) =>
           c \in subdirs(d, n, cur) \/ (n = dir /\ c = child /\ isDir(d, child, cur))
    BY <1>1, <1>2, <1>3, SubdirsIff
  <2>2. \A n \in Ids : subdirs(e, n, cur) \subseteq Ids /\ subdirs(d, n, cur) \subseteq Ids
    BY <1>1, SubdirsIff
  <2>3. CASE ~isDir(d, child, cur)
    BY <2>1, <2>2, <2>3, FewerSubdirs DEF TreeAt
  <2>4. CASE isDir(d, child, cur)
    <3>1. PICK R \in SUBSET Ids : /\ child \in R /\ dir \notin R
                                  /\ \A n \in R : subdirs(d, n, cur) \subseteq R
      <4>1. Apart(d, child, dir, cur)
        BY <2>4, LinkChecks
      <4> QED BY <4>1 DEF Apart
    <3> SUFFICES ASSUME NEW S \in (SUBSET Ids) \ {{}}
                 PROVE  \E n \in S : subdirs(e, n, cur) \cap S = {}
      BY DEF NoCycle
    <3>2. CASE S \cap R # {}
      <4> DEFINE T == S \cap R
      <4>0. T \in (SUBSET Ids) \ {{}}
        BY <3>2
      <4> HIDE DEF T
      <4>1. PICK n \in T : subdirs(d, n, cur) \cap T = {}
        BY <4>0 DEF TreeAt, NoCycle
      <4> USE DEF T
      <4>2. subdirs(e, n, cur) \subseteq subdirs(d, n, cur)
        BY <2>1, <2>2, <3>1, <4>1
      <4>3. subdirs(d, n, cur) \subseteq R
        BY <3>1, <4>1
      <4> QED BY <4>1, <4>2, <4>3
    <3>3. CASE S \cap R = {}
      <4>1. PICK n \in S : subdirs(d, n, cur) \cap S = {}
        BY DEF TreeAt, NoCycle
      <4>2. child \notin S
        BY <3>1, <3>3
      <4> QED BY <2>1, <2>2, <4>1, <4>2
    <3> QED BY <3>2, <3>3
  <2> QED BY <2>3, <2>4
<1>9. isDir(e, Root, cur)
  BY <1>3, BoundsAssumption DEF TreeAt, Root, Ids
<1> QED BY <1>6, <1>7, <1>8, <1>9 DEF TreeAt

\* unlinkT keeps the tree a tree.
LEMMA UnlinkTree ==
    ASSUME NEW d, TreeInv(d), NEW cur \in Snaps, TreeAt(d, cur), NEW e, DbInv(e),
           NEW dir \in Ids, NEW name \in Names, NEW c \in Ids,
           linkSet(d, dir, cur)[name] = c, existedAt(d, c, cur), NEW n,
           n = loadNode(d, c, cur).nlink,
           Edited(d, e, cur, dir, name, NoId, c, parents(d, c, cur) \ {<<dir, name>>},
                  IF n - 1 >= 0 THEN n - 1 ELSE n)
    PROVE  TreeAt(e, cur)
<1>1. DbInv(d) /\ NoId \notin Ids
  BY BoundsAssumption DEF TreeInv, Ids, NoId
<1>2. \A a \in Ids, b \in Names :
         linkSet(e, a, cur)[b] = IF a = dir /\ b = name THEN NoId ELSE linkSet(d, a, cur)[b]
  BY <1>1, EditedEntries
<1>3. \A i \in Ids : /\ isDir(e, i, cur) <=> isDir(d, i, cur)
                     /\ existedAt(e, i, cur) <=> existedAt(d, i, cur)
  BY EditedDirs
<1>4. /\ parents(e, c, cur) = parents(d, c, cur) \ {<<dir, name>>}
      /\ \A i \in Ids : i # c => parents(e, i, cur) = parents(d, i, cur)
      /\ loadNode(e, c, cur).nlink = IF n - 1 >= 0 THEN n - 1 ELSE n
      /\ \A i \in Ids : i # c => loadNode(e, i, cur).nlink = loadNode(d, i, cur).nlink
  BY DEF Edited
<1>5. \A i \in Ids : <<dir, name>> \in parents(d, i, cur) <=> i = c
  BY DEF TreeAt, Mirrored
<1>6. Mirrored(e, cur)
  <2> SUFFICES ASSUME NEW id \in Ids, NEW a \in Ids, NEW b \in Names
               PROVE  <<a, b>> \in parents(e, id, cur) <=> linkSet(e, a, cur)[b] = id
    BY DEF Mirrored
  <2>1. <<a, b>> \in parents(d, id, cur) <=> linkSet(d, a, cur)[b] = id
    BY DEF TreeAt, Mirrored
  <2> QED BY <1>1, <1>2, <1>4, <1>5, <2>1
<1>7. Counted(e, cur)
  <2> SUFFICES ASSUME NEW id \in Ids, existedAt(e, id, cur)
               PROVE  loadNode(e, id, cur).nlink =
                         Cardinality(parents(e, id, cur)) + (IF id = Root THEN 1 ELSE 0)
    BY DEF Counted
  <2>1. loadNode(d, id, cur).nlink =
           Cardinality(parents(d, id, cur)) + (IF id = Root THEN 1 ELSE 0)
    BY <1>3 DEF TreeAt, Counted
  <2>2. CASE id # c
    BY <1>4, <2>1, <2>2
  <2>3. CASE id = c
    <3>1. IsFiniteSet(parents(d, id, cur))
      BY ParentsFinite
    <3>2. Cardinality(parents(e, id, cur)) = Cardinality(parents(d, id, cur)) - 1
      BY <1>4, <1>5, <2>3, <3>1, FS_RemoveElement
    <3>3. Cardinality(parents(d, id, cur)) \in Nat /\ Cardinality(parents(d, id, cur)) # 0
      BY <1>5, <2>3, <3>1, FS_CardinalityType, FS_EmptySet
    <3> QED BY <1>4, <2>1, <2>3, <3>2, <3>3
  <2> QED BY <2>2, <2>3
<1>8. NoCycle(e, cur)
  <2>1. \A m, k \in Ids : k \in subdirs(e, m, cur) => k \in subdirs(d, m, cur)
    BY <1>1, <1>2, <1>3, SubdirsIff
  <2>2. \A m \in Ids : subdirs(e, m, cur) \subseteq subdirs(d, m, cur)
    BY <1>1, <2>1, SubdirsIff
  <2> QED BY <2>2, FewerSubdirs DEF TreeAt
<1>9. isDir(e, Root, cur)
  BY <1>3, BoundsAssumption DEF TreeAt, Root, Ids
<1> QED BY <1>6, <1>7, <1>8, <1>9 DEF TreeAt

\* alloc keeps the tree a tree: nothing leads to the new node yet.
LEMMA AllocTree ==
    ASSUME NEW d, TreeInv(d), NEW cur \in Snaps, TreeAt(d, cur), NEW e, DbInv(e), NEW id \in Ids,
           loadNode(d, id, cur) = NoRec,
           existedAt(e, id, cur), loadNode(e, id, cur).nlink = 0,
           linkSet(e, id, cur) = NoEntries, parents(e, id, cur) = {},
           \A i \in Ids : i # id => /\ loadNode(e, i, cur) = loadNode(d, i, cur)
                                    /\ linkSet(e, i, cur) = linkSet(d, i, cur)
                                    /\ parents(e, i, cur) = parents(d, i, cur)
    PROVE  TreeAt(e, cur)
<1>0. isDir(d, Root, cur) /\ id # Root /\ Root \in Ids
  BY NoRecIsNoNode, BoundsAssumption DEF TreeAt, isDir, Root, Ids
<1>1. DbInv(d) /\ NoId \notin Ids
  BY BoundsAssumption DEF TreeInv, Ids, NoId
<1>2. linkSet(d, id, cur) = NoEntries /\ parents(d, id, cur) = {}
  BY NoRecIsNoNode DEF linkSet, parents
<1>3. \A i \in Ids : linkSet(e, i, cur) = linkSet(d, i, cur) /\ parents(e, i, cur) = parents(d, i, cur)
  BY <1>2
<1>4. Mirrored(e, cur)
  <2> SUFFICES ASSUME NEW k \in Ids, NEW a \in Ids, NEW b \in Names
               PROVE  <<a, b>> \in parents(e, k, cur) <=> linkSet(e, a, cur)[b] = k
    BY DEF Mirrored
  <2>1. <<a, b>> \in parents(d, k, cur) <=> linkSet(d, a, cur)[b] = k
    BY DEF TreeAt, Mirrored
  <2> QED BY <1>3, <2>1
<1>5. Counted(e, cur)
  <2> SUFFICES ASSUME NEW k \in Ids, existedAt(e, k, cur)
               PROVE  loadNode(e, k, cur).nlink =
                         Cardinality(parents(e, k, cur)) + (IF k = Root THEN 1 ELSE 0)
    BY DEF Counted
  <2>1. CASE k = id
    <3>1. Cardinality(parents(e, k, cur)) = 0
      BY <2>1, FS_EmptySet
    <3> QED BY <1>0, <2>1, <3>1
  <2>2. CASE k # id
    <3>1. existedAt(d, k, cur) /\ loadNode(e, k, cur) = loadNode(d, k, cur)
      BY <2>2 DEF existedAt
    <3> QED BY <1>3, <3>1 DEF TreeAt, Counted
  <2> QED BY <2>1, <2>2
<1>6. \A a \in Ids, b \in Names : linkSet(d, a, cur)[b] # id
  <2> SUFFICES ASSUME NEW a \in Ids, NEW b \in Names PROVE linkSet(d, a, cur)[b] # id
    OBVIOUS
  <2>1. <<a, b>> \in parents(d, id, cur) <=> linkSet(d, a, cur)[b] = id
    BY DEF TreeAt, Mirrored
  <2> QED BY <1>2, <2>1
<1>7. \A m, k \in Ids : k \in subdirs(e, m, cur) => k \in subdirs(d, m, cur)
  <2> SUFFICES ASSUME NEW m \in Ids, NEW k \in Ids, k \in subdirs(e, m, cur)
               PROVE  k \in subdirs(d, m, cur)
    OBVIOUS
  <2>1. isDir(e, k, cur) /\ \E nm \in Names : linkSet(e, m, cur)[nm] = k
    BY SubdirsIff
  <2>2. PICK nm \in Names : linkSet(d, m, cur)[nm] = k
    BY <1>3, <2>1
  <2>3. k # id
    BY <1>6, <2>2
  <2>4. isDir(d, k, cur)
    BY <2>1, <2>3 DEF isDir
  <2> QED BY <1>1, <2>2, <2>4, SubdirsIff
<1>8. \A m \in Ids : subdirs(e, m, cur) \subseteq subdirs(d, m, cur)
  BY <1>7, SubdirsIff
<1>9. NoCycle(e, cur)
  BY <1>8, FewerSubdirs DEF TreeAt
<1>10. isDir(e, Root, cur)
  BY <1>0 DEF isDir
<1> QED BY <1>4, <1>5, <1>9, <1>10 DEF TreeAt

-----------------------------------------------------------------------------
(* The steps. *)

\* Every node that was there at cur has the type it had.
TypesKept(d, e, cur) ==
    \A i \in Ids : existedAt(d, i, cur) => loadNode(e, i, cur).type = loadNode(d, i, cur).type

\* An edit of one entry leaves every node its type.
LEMMA EditedTypes ==
    ASSUME NEW d, NEW e, NEW cur, NEW dir, NEW name, NEW target, NEW child, NEW ps, NEW nl,
           Edited(d, e, cur, dir, name, target, child, ps, nl)
    PROVE  TypesKept(d, e, cur)
  BY DEF Edited, SameBody, TypesKept

\* Every step, failures included, keeps the invariant of the tables, the live view a
\* tree and the types of its nodes; only snapshot moves the persisted counter.
LEMMA StepTree ==
    ASSUME IndInv, TreeInv(db), [Next]_vars
    PROVE  /\ TreeInv(db')
           /\ TreeAt(db, m_cur) => TreeAt(db', m_cur)
           /\ Snapshot \/ db'.cur = db.cur
           /\ TypesKept(db, db', m_cur)
<1> DEFINE Kept == /\ TreeInv(db')
                   /\ TreeAt(db, m_cur) => TreeAt(db', m_cur)
                   /\ Snapshot \/ db'.cur = db.cur
                   /\ TypesKept(db, db', m_cur)
<1>0. /\ DbInv(db) /\ DbInv(db)' /\ db \in DbType /\ db.next <= m_next
      /\ m_cur \in Snaps /\ m_next \in 1..(MaxNode + 1) /\ m_clock \in Times
  BY StepInv DEF IndInv, TypeOK
<1>L. \A i \in Ids : linkSet(db, i, m_cur) \in Entries
  BY <1>0, ReadTypes
<1>M. ASSUME db'.nodes = db.nodes, db'.down = db.down, db'.up = db.up
      PROVE  /\ TreeInv(db') /\ (TreeAt(db, m_cur) => TreeAt(db', m_cur))
             /\ TypesKept(db, db', m_cur)
  <2>1. /\ TreeInv(db')
        /\ \A i \in Ids : /\ loadNode(db', i, m_cur) = loadNode(db, i, m_cur)
                          /\ linkSet(db', i, m_cur) = linkSet(db, i, m_cur)
                          /\ parents(db', i, m_cur) = parents(db, i, m_cur)
    BY <1>0, <1>M, MetaTree
  <2>2. \A i \in Ids : existedAt(db', i, m_cur) <=> existedAt(db, i, m_cur)
    BY <2>1 DEF existedAt
  <2>3. TypesKept(db, db', m_cur)
    BY <2>1 DEF TypesKept
  <2> QED BY <1>L, <2>1, <2>2, <2>3, SameReads
<1>1. ASSUME NEW type \in Types, NEW data \in Data, Alloc(type, data) PROVE Kept
  <2> DEFINE r == [type |-> type, nlink |-> 0, data |-> data, attr |-> m_clock, stamp |-> m_clock,
                   dnLinkVer |-> m_cur, upLinkVer |-> m_cur]
  <2>1. m_next \in Ids /\ db.next <= m_next
    BY <1>0, <1>1, BoundsAssumption DEF Alloc, Ids
  <2>2. db' = allocDb(db, m_cur, m_next, type, data, m_clock)
    BY <1>1 DEF Alloc
  <2>3. /\ TreeInv(db')
        /\ loadNode(db, m_next, m_cur) = NoRec
        /\ loadNode(db', m_next, m_cur) = r
        /\ linkSet(db', m_next, m_cur) = NoEntries /\ parents(db', m_next, m_cur) = {}
        /\ \A i \in Ids : i # m_next => /\ loadNode(db', i, m_cur) = loadNode(db, i, m_cur)
                                        /\ linkSet(db', i, m_cur) = linkSet(db, i, m_cur)
                                        /\ parents(db', i, m_cur) = parents(db, i, m_cur)
    BY <1>0, <2>1, <2>2, AllocView
  <2>4. db'.cur = db.cur
    BY <1>0, <2>1, <2>2, AllocInv
  <2>5. r.nlink = 0 /\ r # NoRec
    BY DEF NoRec
  <2>6. ASSUME TreeAt(db, m_cur) PROVE TreeAt(db', m_cur)
    <3>1. existedAt(db', m_next, m_cur) /\ loadNode(db', m_next, m_cur).nlink = 0
      BY <2>3, <2>5 DEF existedAt
    <3> HIDE DEF r
    <3> QED BY <1>0, <2>1, <2>3, <2>6, <3>1, AllocTree
  <2>7. TypesKept(db, db', m_cur)
    <3> HIDE DEF r
    <3> QED BY <2>3 DEF TypesKept, existedAt
  <2> QED BY <2>3, <2>4, <2>6, <2>7
<1>2. ASSUME NEW dir \in Ids, NEW child \in Ids, NEW name \in Names, Link(dir, name, child) PROVE Kept
  <2>1. linkErr(db, m_cur, dir, name, child) = "OK" /\ db' = linkDb(db, m_cur, dir, name, child)
    BY <1>2 DEF Link
  <2>2. name # SNAPSHOT_NAME /\ isDir(db, dir, m_cur) /\ existedAt(db, child, m_cur)
    BY <2>1, LinkChecks
  <2>3. /\ TreeInv(db')
        /\ Edited(db, db', m_cur, dir, name, child, child,
                  parents(db, child, m_cur) \cup {<<dir, name>>},
                  loadNode(db, child, m_cur).nlink + 1)
    BY <1>0, <2>1, <2>2, LinkView
  <2>4. existedAt(db, dir, m_cur)
    BY <2>2, NoRecIsNoNode DEF isDir, existedAt
  <2>5. db'.cur = db.cur
    BY <1>0, <2>1, <2>2, <2>4, LinkFollows DEF Follows
  <2>6. TreeAt(db, m_cur) => TreeAt(db', m_cur)
    BY <1>0, <2>1, <2>3, LinkTree
  <2>7. TypesKept(db, db', m_cur)
    BY <2>3, EditedTypes
  <2> QED BY <2>3, <2>5, <2>6, <2>7
<1>U. ASSUME NEW d, TreeInv(d), NEW dir \in Ids, NEW name \in Names,
             unlinkChild(d, m_cur, dir, name) # NoId, NEW e, e = unlinkDb(d, m_cur, dir, name)
      PROVE  /\ TreeInv(e) /\ (TreeAt(d, m_cur) => TreeAt(e, m_cur)) /\ e.cur = d.cur
             /\ TypesKept(d, e, m_cur)
             /\ \A i \in Ids : existedAt(e, i, m_cur) <=> existedAt(d, i, m_cur)
  <2> DEFINE c == linkSet(d, dir, m_cur)[name]
             n == loadNode(d, c, m_cur).nlink
  <2>1. /\ TreeInv(e)
        /\ c \in Ids /\ existedAt(d, c, m_cur) /\ isDir(d, dir, m_cur)
        /\ Edited(d, e, m_cur, dir, name, NoId, c, parents(d, c, m_cur) \ {<<dir, name>>},
                  IF n - 1 >= 0 THEN n - 1 ELSE n)
    BY <1>0, <1>U, UnlinkView
  <2>2. e.cur = d.cur
    BY <1>0, <1>U, UnlinkFollows DEF TreeInv, Follows
  <2>3. ASSUME TreeAt(d, m_cur) PROVE TreeAt(e, m_cur)
    <3>1. c = linkSet(d, dir, m_cur)[name] /\ n = loadNode(d, c, m_cur).nlink /\ DbInv(e)
      BY <2>1 DEF TreeInv
    <3> HIDE DEF c, n
    <3> QED BY <1>0, <1>U, <2>1, <2>3, <3>1, UnlinkTree
  <2>4. TypesKept(d, e, m_cur)
    BY <2>1, EditedTypes
  <2>5. \A i \in Ids : existedAt(e, i, m_cur) <=> existedAt(d, i, m_cur)
    BY <2>1, EditedDirs
  <2> QED BY <2>1, <2>2, <2>3, <2>4, <2>5
<1>3. ASSUME NEW dir \in Ids, NEW name \in Names, Unlink(dir, name) PROVE Kept
  <2>1. unlinkChild(db, m_cur, dir, name) # NoId /\ db' = unlinkDb(db, m_cur, dir, name)
    BY <1>3 DEF Unlink, unlinkErr
  <2> QED BY <1>U, <2>1
<1>4. ASSUME NEW sdir \in Ids, NEW ddir \in Ids, NEW sn \in Names, NEW dn \in Names,
             Move(sdir, sn, ddir, dn)
      PROVE  Kept
  <2> DEFINE c == linkSet(db, sdir, m_cur)[sn]
             e == linkDb(db, m_cur, ddir, dn, c)
  <2>1. moveErr(db, m_cur, sdir, sn, ddir, dn) = "OK" /\ db' = moveDb(db, m_cur, sdir, sn, ddir, dn)
    BY <1>4 DEF Move
  <2>2. /\ unlinkChild(db, m_cur, sdir, sn) # NoId
        /\ linkErr(db, m_cur, ddir, dn, unlinkChild(db, m_cur, sdir, sn)) = "OK"
    BY <2>1 DEF moveErr
  <2>3. /\ c \in Ids /\ existedAt(db, c, m_cur) /\ c = unlinkChild(db, m_cur, sdir, sn)
        /\ isDir(db, sdir, m_cur) /\ isDir(db, ddir, m_cur) /\ dn # SNAPSHOT_NAME
        /\ linkSet(db, ddir, m_cur)[dn] = NoId
        /\ TreeInv(e)
        /\ Edited(db, e, m_cur, ddir, dn, c, c, parents(db, c, m_cur) \cup {<<ddir, dn>>},
                  loadNode(db, c, m_cur).nlink + 1)
        /\ linkSet(e, sdir, m_cur)[sn] = c
        /\ unlinkChild(e, m_cur, sdir, sn) = c
    BY <1>0, <2>2, MoveLegs, SMTT(60)
  <2>4. db' = unlinkDb(e, m_cur, sdir, sn) /\ linkErr(db, m_cur, ddir, dn, c) = "OK"
        /\ unlinkChild(e, m_cur, sdir, sn) # NoId
    BY <2>1, <2>2, <2>3 DEF moveDb
  <2>5. existedAt(db, ddir, m_cur)
    BY <2>3, NoRecIsNoNode DEF isDir, existedAt
  <2>6. e.cur = db.cur
    <3> HIDE DEF c
    <3> QED BY <1>0, <2>3, <2>5, LinkFollows DEF Follows
  <2> HIDE DEF c, e
  <2>7. TreeAt(db, m_cur) => TreeAt(e, m_cur)
    <3>1. DbInv(e)
      BY <2>3 DEF TreeInv
    <3> QED BY <1>0, <2>3, <2>4, <3>1, LinkTree
  <2>8. /\ TreeInv(db') /\ (TreeAt(e, m_cur) => TreeAt(db', m_cur)) /\ db'.cur = e.cur
        /\ TypesKept(e, db', m_cur)
    BY <1>U, <2>3, <2>4
  <2>9. TypesKept(db, e, m_cur) /\ \A i \in Ids : existedAt(e, i, m_cur) <=> existedAt(db, i, m_cur)
    BY <2>3, EditedTypes, EditedDirs
  <2>10. TypesKept(db, db', m_cur)
    BY <2>8, <2>9 DEF TypesKept
  <2> QED BY <2>6, <2>7, <2>8, <2>10
<1>R. ASSUME NEW id \in Ids, NEW r1 \in NodeRec, loadNode(db, id, m_cur) # NoRec,
             r1.type = loadNode(db, id, m_cur).type, r1.nlink = loadNode(db, id, m_cur).nlink,
             r1.dnLinkVer = loadNode(db, id, m_cur).dnLinkVer,
             r1.upLinkVer = loadNode(db, id, m_cur).upLinkVer,
             db' = storeNode(db, id, m_cur, r1)
      PROVE  Kept
  <2>1. existedAt(db, id, m_cur)
    BY <1>R DEF existedAt
  <2>2. /\ TreeInv(db')
        /\ \A i \in Ids : /\ existedAt(db', i, m_cur) <=> existedAt(db, i, m_cur)
                          /\ loadNode(db', i, m_cur).type = loadNode(db, i, m_cur).type
                          /\ loadNode(db', i, m_cur).nlink = loadNode(db, i, m_cur).nlink
                          /\ linkSet(db', i, m_cur) = linkSet(db, i, m_cur)
                          /\ parents(db', i, m_cur) = parents(db, i, m_cur)
    BY <1>0, <1>R, <2>1, RewriteView
  <2>3. db'.cur = db.cur
    BY <1>0, <1>R, StoreNodeFields
  <2>4. TypesKept(db, db', m_cur)
    BY <2>2 DEF TypesKept
  <2> QED BY <1>L, <2>2, <2>3, <2>4, SameReads
<1>5. ASSUME NEW id \in Ids, NEW types \in DataSetters, NEW v \in Data, SetData(id, types, v) PROVE Kept
  <2> DEFINE r  == loadNode(db, id, m_cur)
             r1 == [r EXCEPT !.data = v]
  <2>1. r # NoRec /\ db' = storeNode(db, id, m_cur, r1)
    BY <1>5 DEF SetData, Rewrite
  <2>2. r \in NodeRec
    BY <1>0, <2>1, LoadBounded DEF existedAt
  <2>3. r1 \in NodeRec /\ r1.type = r.type /\ r1.nlink = r.nlink
        /\ r1.dnLinkVer = r.dnLinkVer /\ r1.upLinkVer = r.upLinkVer
    BY <2>2 DEF NodeRec
  <2> HIDE DEF r1
  <2> QED BY <1>R, <2>1, <2>3
<1>6. ASSUME NEW id \in Ids, NEW at \in Times, NEW st \in Times, SetAttr(id, at, st) PROVE Kept
  <2> DEFINE r  == loadNode(db, id, m_cur)
             r1 == [r EXCEPT !.attr = at, !.stamp = st]
  <2>1. r # NoRec /\ db' = storeNode(db, id, m_cur, r1)
    BY <1>6 DEF SetAttr, Rewrite
  <2>2. r \in NodeRec
    BY <1>0, <2>1, LoadBounded DEF existedAt
  <2>3. r1 \in NodeRec /\ r1.type = r.type /\ r1.nlink = r.nlink
        /\ r1.dnLinkVer = r.dnLinkVer /\ r1.upLinkVer = r.upLinkVer
    BY <2>2 DEF NodeRec
  <2> HIDE DEF r1
  <2> QED BY <1>R, <2>1, <2>3
<1>7. ASSUME NEW t \in Times, SetTime(t) PROVE Kept
  BY <1>0, <1>7, <1>M DEF SetTime, DbType
<1>8. CASE Snapshot
  BY <1>0, <1>8, <1>M DEF Snapshot, DbType
<1>9. CASE db' = db
  BY <1>9 DEF TypesKept
<1>10. CASE Reopen \/ AllocFails \/ SnapshotFails \/ (\E t \in Times : SetTimeFails(t)) \/ UNCHANGED vars
  BY <1>9, <1>10 DEF Reopen, AllocFails, SnapshotFails, SetTimeFails, vars
<1> QED BY <1>1, <1>2, <1>3, <1>4, <1>5, <1>6, <1>7, <1>8, <1>10 DEF Next

\* The constructor's store satisfies the invariant of the tables, and its view is a tree.
LEMMA InitTree ==
    ASSUME Init
    PROVE  /\ TreeInv(db)
           /\ TreeAt(db, 1)
           /\ \A id \in Ids, s \in Snaps : s > 1 => db.nodes[id][s] = NoRec
           /\ db.cur = 1
           /\ loadNode(db, Root, 1) = RootRec
           /\ \A i \in Ids : linkSet(db, i, 1) = NoEntries
           /\ \A i \in Ids : i # Root => loadNode(db, i, 1) = NoRec
<1>1. EmptyDb \in DbType /\ EmptyDb.next = 2 /\ EmptyDb.cur = 1
  BY BoundsAssumption, ValuesAssumption, NamesAssumption
     DEF EmptyDb, DbType, Entries, NoEntries, NoId, Snaps
<1>2. \A id \in Ids, s \in Snaps : /\ EmptyDb.nodes[id][s] = NoRec
                                   /\ EmptyDb.down[id][s] = NoEntries
                                   /\ EmptyDb.up[id][s] = {}
  BY DEF EmptyDb
<1>3. DbInv(EmptyDb)
  BY <1>1, <1>2, NamesAssumption
     DEF DbInv, VersionsBounded, EntriesBacked, RecordsIndexed, NameReserved, NoEntries
<1>4. TreeInv(EmptyDb)
  BY <1>2, <1>3, FS_EmptySet DEF TreeInv, OwnLinks, TypesFixed, UpFinite
<1>5. RootRec \in NodeRec /\ RootRec.dnLinkVer = 1 /\ RootRec.upLinkVer = 1
      /\ RootRec.type = "DIR" /\ RootRec.nlink = 1
  BY BoundsAssumption, TypesAssumption, ValuesAssumption DEF RootRec, NodeRec, Snaps
<1>6. Root \in Ids /\ 1 \in Snaps /\ Root < EmptyDb.next /\ NoId \notin Ids
  BY <1>1, BoundsAssumption DEF Root, Ids, Snaps, NoId
<1>7. \A i \in Ids : /\ loadNode(EmptyDb, i, 1) = NoRec
                     /\ linkSet(EmptyDb, i, 1) = NoEntries
                     /\ parents(EmptyDb, i, 1) = {}
  <2>1. \A i \in Ids : loadNode(EmptyDb, i, 1) = NoRec
    BY <1>1, <1>2, <1>6, ExistsIff DEF existedAt
  <2> QED BY <2>1, NoRecIsNoNode DEF linkSet, parents
<1>8. db = storeNode(EmptyDb, Root, 1, RootRec)
  BY DEF Init
<1>9. /\ TreeInv(db)
      /\ loadNode(db, Root, 1) = RootRec
      /\ linkSet(db, Root, 1) = NoEntries /\ parents(db, Root, 1) = {}
      /\ \A i \in Ids : i # Root => /\ loadNode(db, i, 1) = loadNode(EmptyDb, i, 1)
                                    /\ linkSet(db, i, 1) = linkSet(EmptyDb, i, 1)
                                    /\ parents(db, i, 1) = parents(EmptyDb, i, 1)
  BY <1>2, <1>4, <1>5, <1>6, <1>8, StoreNew
<1>10. \A i \in Ids : linkSet(db, i, 1) = NoEntries /\ parents(db, i, 1) = {}
  BY <1>7, <1>9
<1>11. Mirrored(db, 1)
  BY <1>6, <1>10 DEF Mirrored, NoEntries
<1>12. Counted(db, 1)
  BY <1>5, <1>7, <1>9, <1>10, FS_EmptySet DEF Counted, existedAt
<1>13. NoCycle(db, 1)
  <2>1. \A n \in Ids : subdirs(db, n, 1) = {}
    BY <1>10 DEF subdirs, NoEntries
  <2>2. ASSUME NEW S \in (SUBSET Ids) \ {{}} PROVE \E n \in S : subdirs(db, n, 1) \cap S = {}
    <3>1. PICK n \in S : TRUE
      OBVIOUS
    <3> QED BY <2>1, <3>1
  <2> QED BY <2>2 DEF NoCycle
<1>14. isDir(db, Root, 1)
  BY <1>5, <1>9 DEF isDir
<1>15. db.cur = 1 /\ \A id \in Ids, s \in Snaps : s > 1 => db.nodes[id][s] = NoRec
  BY <1>1, <1>2, <1>5, <1>6, <1>8, StoreNodeFields
<1> QED BY <1>7, <1>9, <1>10, <1>11, <1>12, <1>13, <1>14, <1>15 DEF TreeAt

\* The tables keep their invariant through every operation, failed transaction and
\* reopening: link sets are only ever written at the version their record names, by
\* directories, and a node never changes its type.
THEOREM TreeInvariance == Spec => []TreeInv(db)
<1>1. Init => IndInv /\ TreeInv(db)
  BY InitInv, InitTree
<1>2. IndInv /\ TreeInv(db) /\ [Next]_vars => (IndInv /\ TreeInv(db))'
  BY StepInv, StepTree
<1> QED BY <1>1, <1>2, PTL DEF Spec

\* move(): after its link leg the unlink leg always finds its entry, so the engine
\* without rollback is never left with the node in two places.
THEOREM MoveCompletes == Spec => []MoveNeverStopsHalfway
<1>1. ASSUME IndInv, TreeInv(db) PROVE MoveNeverStopsHalfway
  <2> SUFFICES ASSUME NEW sdir \in Ids, NEW ddir \in Ids, NEW sn \in Names, NEW dn \in Names,
                      unlinkChild(db, m_cur, sdir, sn) # NoId,
                      linkErr(db, m_cur, ddir, dn, unlinkChild(db, m_cur, sdir, sn)) = "OK"
               PROVE  moveErr(db, m_cur, sdir, sn, ddir, dn) = "OK"
    BY DEF MoveNeverStopsHalfway
  <2> DEFINE c == linkSet(db, sdir, m_cur)[sn]
             e == linkDb(db, m_cur, ddir, dn, c)
  <2>1. m_cur \in Snaps /\ TreeInv(db)
    BY <1>1 DEF IndInv, TypeOK
  <2>2. /\ c \in Ids /\ existedAt(db, c, m_cur) /\ c = unlinkChild(db, m_cur, sdir, sn)
        /\ isDir(db, sdir, m_cur) /\ isDir(db, ddir, m_cur) /\ dn # SNAPSHOT_NAME
        /\ linkSet(db, ddir, m_cur)[dn] = NoId
        /\ TreeInv(e)
        /\ Edited(db, e, m_cur, ddir, dn, c, c, parents(db, c, m_cur) \cup {<<ddir, dn>>},
                  loadNode(db, c, m_cur).nlink + 1)
        /\ linkSet(e, sdir, m_cur)[sn] = c
        /\ unlinkChild(e, m_cur, sdir, sn) = c
    BY <2>1, MoveLegs, SMTT(60)
  <2>3. unlinkErr(e, m_cur, sdir, sn) = "OK"
    BY <2>2 DEF unlinkErr
  <2> HIDE DEF e
  <2>4. e = linkDb(db, m_cur, ddir, dn, unlinkChild(db, m_cur, sdir, sn))
    BY <2>2 DEF e
  <2> QED BY <2>3, <2>4 DEF moveErr
<1>2. IndInv /\ TreeInv(db) => MoveNeverStopsHalfway
  BY <1>1
<1> QED BY Invariance, TreeInvariance, <1>2, PTL

-----------------------------------------------------------------------------
(* Every view is a tree, as long as no snapshot transaction fails.  One that does *)
(* leaves m_cur ahead of the persisted counter: what is then written is lost to   *)
(* the next process and resurfaces, half of it, when the counter gets there again. *)

SnapshotsSucceed == [][~SnapshotFails]_vars

\* No record is younger than c.
NothingAbove(d, c) == \A id \in Ids, s \in Snaps : s > c => d.nodes[id][s] = NoRec

\* Sealed and live views are trees, the counter on disk is the one in memory, and
\* nothing is stored above it.
Trees == /\ db.cur = m_cur
         /\ NothingAbove(db, m_cur)
         /\ \A g \in Visible : TreeAt(db, g)

\* With nothing stored above c, the view after c reads as the one at c.
LEMMA NextViewSame ==
    ASSUME NEW d, TreeInv(d), NEW c \in Snaps, c + 1 \in Snaps, NothingAbove(d, c), NEW i \in Ids
    PROVE  /\ loadNode(d, i, c + 1) = loadNode(d, i, c)
           /\ linkSet(d, i, c + 1) = linkSet(d, i, c)
           /\ parents(d, i, c + 1) = parents(d, i, c)
<1>1. d \in DbType /\ c <= c + 1
  BY BoundsAssumption DEF TreeInv, DbInv, Snaps
<1>2. \A s \in Snaps : c < s /\ s <= c + 1 => d.nodes[i][s] = NoRec
  BY BoundsAssumption DEF NothingAbove, Snaps
<1>3. loadNode(d, i, c + 1) = loadNode(d, i, c)
  BY <1>1, <1>2, SameBetween
<1> QED BY <1>3 DEF linkSet, parents

\* Only a snapshot moves m_cur while it agrees with the counter on disk.
LEMMA CurMoves ==
    ASSUME [Next]_vars, db.cur = m_cur, ~Snapshot, ~SnapshotFails
    PROVE  m_cur' = m_cur
  BY DEF Next, Alloc, Link, Unlink, Move, SetData, SetAttr, Rewrite, SetTime, Reopen, AllocFails,
         SetTimeFails, vars

\* Every step that is not a failed snapshot keeps every view a tree.
LEMMA StepTrees ==
    ASSUME IndInv, TreeInv(db), Trees, [Next]_vars, ~SnapshotFails
    PROVE  Trees'
<1>0. /\ IndInv' /\ Untouched(db, db', m_cur) /\ TreeInv(db') /\ TreeInv(db)
      /\ TreeAt(db, m_cur) => TreeAt(db', m_cur)
      /\ Snapshot \/ db'.cur = db.cur
  BY StepInv, StepTree
<1>1. DbInv(db) /\ m_cur \in Snaps /\ m_cur \in Nat /\ m_cur \in Visible /\ db \in DbType
  BY BoundsAssumption DEF IndInv, TypeOK, DbInv, Snaps, Visible
<1>2. TreeAt(db', m_cur)
  BY <1>0, <1>1 DEF Trees
<1>3. ASSUME NEW g \in Snaps, g < m_cur PROVE TreeAt(db', g)
  <2>1. TreeAt(db, g)
    BY <1>1, <1>3, BoundsAssumption DEF Trees, Visible, Snaps
  <2>2. \A i \in Ids : /\ loadNode(db', i, g) = loadNode(db, i, g)
                       /\ linkSet(db', i, g) = linkSet(db, i, g)
                       /\ parents(db', i, g) = parents(db, i, g)
    BY <1>0, <1>1, <1>3, ReadUntouched
  <2>3. \A i \in Ids : linkSet(db, i, g) \in Entries
    BY <1>1, ReadTypes
  <2>4. \A i \in Ids : existedAt(db', i, g) <=> existedAt(db, i, g)
    BY <2>2 DEF existedAt
  <2> QED BY <2>1, <2>2, <2>3, <2>4, SameReads
<1>4. NothingAbove(db', m_cur)
  BY <1>0, <1>1, BoundsAssumption DEF Trees, NothingAbove, Untouched, Snaps
<1>5. CASE ~Snapshot
  <2>1. m_cur' = m_cur /\ db'.cur = db.cur
    BY <1>0, <1>5, CurMoves DEF Trees
  <2>2. \A g \in 1..m_cur : g \in Snaps /\ (g = m_cur \/ g < m_cur)
    BY <1>1, BoundsAssumption DEF Snaps
  <2> QED BY <1>2, <1>3, <1>4, <2>1, <2>2 DEF Trees, Visible
<1>6. CASE Snapshot
  <2>1. m_cur' = m_cur + 1 /\ m_cur' \in Snaps /\ db'.cur = m_cur + 1
    BY <1>0, <1>1, <1>6 DEF Snapshot, DbType, IndInv, TypeOK
  <2>2. NothingAbove(db', m_cur')
    BY <1>1, <1>4, <2>1, BoundsAssumption DEF NothingAbove, Snaps
  <2>3. TreeAt(db', m_cur + 1)
    <3>1. \A i \in Ids : /\ loadNode(db', i, m_cur + 1) = loadNode(db', i, m_cur)
                         /\ linkSet(db', i, m_cur + 1) = linkSet(db', i, m_cur)
                         /\ parents(db', i, m_cur + 1) = parents(db', i, m_cur)
      BY <1>0, <1>1, <1>4, <2>1, NextViewSame
    <3>2. \A i \in Ids : linkSet(db', i, m_cur) \in Entries
      BY <1>0, <1>1, ReadTypes DEF TreeInv
    <3>3. \A i \in Ids : existedAt(db', i, m_cur + 1) <=> existedAt(db', i, m_cur)
      BY <3>1 DEF existedAt
    <3> QED BY <1>2, <3>1, <3>2, <3>3, SameReads
  <2>4. \A g \in 1..(m_cur + 1) : g = m_cur + 1 \/ (g \in Snaps /\ (g = m_cur \/ g < m_cur))
    BY <1>1, BoundsAssumption DEF Snaps
  <2> QED BY <1>2, <1>3, <2>1, <2>2, <2>3, <2>4 DEF Trees, Visible
<1> QED BY <1>5, <1>6

\* Every view, sealed or live, is a tree.
THEOREM TreesInvariance == Spec /\ SnapshotsSucceed => []Trees
<1>1. Init => IndInv /\ TreeInv(db) /\ Trees
  <2> SUFFICES ASSUME Init PROVE IndInv /\ TreeInv(db) /\ Trees
    OBVIOUS
  <2>1. m_cur = 1
    BY DEF Init
  <2>2. \A g \in 1..1 : g = 1
    OBVIOUS
  <2> QED BY InitInv, InitTree, <2>1, <2>2 DEF Trees, NothingAbove, Visible
<1>2. IndInv /\ TreeInv(db) /\ Trees /\ [Next]_vars /\ [~SnapshotFails]_vars
      => (IndInv /\ TreeInv(db) /\ Trees)'
  <2> SUFFICES ASSUME IndInv, TreeInv(db), Trees, [Next]_vars, [~SnapshotFails]_vars
               PROVE  (IndInv /\ TreeInv(db) /\ Trees)'
    OBVIOUS
  <2>1. IndInv' /\ TreeInv(db')
    BY StepInv, StepTree
  <2>2. CASE ~SnapshotFails
    BY <2>1, <2>2, StepTrees
  <2>3. CASE UNCHANGED vars
    BY <2>1, <2>3 DEF vars, Trees, Visible
  <2> QED BY <2>2, <2>3
<1> QED BY <1>1, <1>2, PTL DEF Spec, SnapshotsSucceed

\* Down-links and up-links agree in every view, although each side is versioned and
\* copied on its own.
THEOREM LinksAgree == Spec /\ SnapshotsSucceed => []LinksMirror
<1>1. ASSUME IndInv, Trees PROVE LinksMirror
  <2> SUFFICES ASSUME NEW g \in Visible, NEW id \in Ids
               PROVE  parents(db, id, g) =
                        {x \in Ids \X Names : [dir \in Ids |-> linkSet(db, dir, g)][x[1]][x[2]] = id}
    BY DEF LinksMirror
  <2>1. g \in Snaps /\ DbInv(db) /\ Mirrored(db, g)
    BY <1>1, BoundsAssumption DEF IndInv, TypeOK, Visible, Snaps, Trees, TreeAt
  <2>2. parents(db, id, g) \in SUBSET (Ids \X Names)
    BY <2>1, ReadTypes
  <2>3. ASSUME NEW x \in Ids \X Names
        PROVE  x \in parents(db, id, g) <=> [dir \in Ids |-> linkSet(db, dir, g)][x[1]][x[2]] = id
    <3>1. PICK a \in Ids, b \in Names : x = <<a, b>>
      OBVIOUS
    <3>2. <<a, b>> \in parents(db, id, g) <=> linkSet(db, a, g)[b] = id
      BY <2>1 DEF Mirrored
    <3> QED BY <3>1, <3>2
  <2> QED BY <2>2, <2>3
<1>2. IndInv /\ Trees => LinksMirror
  BY <1>1
<1> QED BY Invariance, TreesInvariance, <1>2, PTL

\* The link count a caller reads is the number of entries that lead to the node.
THEOREM LinkCounts == Spec /\ SnapshotsSucceed => []NlinkIsUplinks
<1>1. Trees => NlinkIsUplinks
  BY DEF Trees, TreeAt, Counted, NlinkIsUplinks, existedAt
<1> QED BY TreesInvariance, <1>1, PTL

\* No view has a cycle of directories: the search of reachable() on the live view is
\* enough for all of them.
THEOREM NoCycles == Spec /\ SnapshotsSucceed => []Acyclic
<1>1. Trees => Acyclic
  BY DEF Trees, TreeAt, NoCycle, Acyclic
<1> QED BY TreesInvariance, <1>1, PTL

\* Dying and reopening gives back the tree that was being served.
THEOREM ReopenIsSafe == Spec /\ SnapshotsSucceed => []ReopenKeepsLiveView
<1>1. Trees => ReopenKeepsLiveView
  BY DEF Trees, ReopenKeepsLiveView
<1> QED BY TreesInvariance, <1>1, PTL

-----------------------------------------------------------------------------
(* The store implements VersionedFs. *)

\* The tree of a view, node by node.
LEMMA TreeNode ==
    ASSUME NEW d, NEW g, NEW id \in Ids
    PROVE  LET r == loadNode(d, id, g)
           IN  /\ r = NoRec => Tree(d, g)[id] = NoRec
               /\ r # NoRec => /\ Tree(d, g)[id] =
                                    [type |-> r.type, data |-> r.data, attr |-> r.attr,
                                     stamp |-> r.stamp, entries |-> linkSet(d, id, g)]
                              /\ Tree(d, g)[id].type = r.type
                              /\ Tree(d, g)[id].entries = linkSet(d, id, g)
                              /\ Tree(d, g)[id] # NoRec
<1> DEFINE r == loadNode(d, id, g)
           t == [type |-> r.type, data |-> r.data, attr |-> r.attr,
                 stamp |-> r.stamp, entries |-> linkSet(d, id, g)]
<1>1. r = NoRec => Tree(d, g)[id] = NoRec
  BY DEF Tree
<1>2. r # NoRec => Tree(d, g)[id] = t
  BY DEF Tree
<1>3. t.type = r.type /\ t.entries = linkSet(d, id, g)
  OBVIOUS
<1>4. t # NoRec
  <2>1. "entries" \in DOMAIN t /\ "entries" \notin DOMAIN NoRec
    BY DEF NoRec
  <2> HIDE DEF t
  <2> QED BY <2>1
<1> HIDE DEF t
<1> QED BY <1>1, <1>2, <1>3, <1>4 DEF t

\* Views that read the same have the same tree.
LEMMA SameTreeOf ==
    ASSUME NEW d, NEW g, NEW e, NEW h,
           \A i \in Ids : /\ loadNode(e, i, h) = loadNode(d, i, g)
                          /\ linkSet(e, i, h) = linkSet(d, i, g)
    PROVE  Tree(e, h) = Tree(d, g)
  BY DEF Tree

\* An edit of one entry is Bind on the tree.
LEMMA BindTree ==
    ASSUME NEW d, DbInv(d), NEW e, NEW cur \in Snaps, NEW dir \in Ids, isDir(d, dir, cur),
           NEW name \in Names, NEW target, NEW child, NEW ps, NEW nl,
           Edited(d, e, cur, dir, name, target, child, ps, nl)
    PROVE  Tree(e, cur) = Fs!Bind(Tree(d, cur), dir, name, target)
<1> DEFINE t == Tree(d, cur)
           u == [t EXCEPT ![dir].entries[name] = target]
<1>1. Tree(e, cur) = [i \in Ids |-> Tree(e, cur)[i]] /\ u = [i \in Ids |-> u[i]]
  BY DEF Tree
<1>2. ASSUME NEW i \in Ids, i # dir PROVE Tree(e, cur)[i] = u[i]
  <2>1. u[i] = t[i]
    BY <1>2 DEF Tree
  <2>2. SameBody(loadNode(d, i, cur), loadNode(e, i, cur)) /\ linkSet(e, i, cur) = linkSet(d, i, cur)
    BY <1>2 DEF Edited
  <2>3. CASE loadNode(d, i, cur) = NoRec
    BY <2>1, <2>2, <2>3, TreeNode, ZenonT(60) DEF SameBody
  <2>4. CASE loadNode(d, i, cur) # NoRec
    <3>1. loadNode(e, i, cur) # NoRec
      BY <2>2, <2>4 DEF SameBody
    <3>2. Tree(e, cur)[i] =
             [type |-> loadNode(e, i, cur).type, data |-> loadNode(e, i, cur).data,
              attr |-> loadNode(e, i, cur).attr, stamp |-> loadNode(e, i, cur).stamp,
              entries |-> linkSet(e, i, cur)]
      BY <3>1, TreeNode
    <3>3. t[i] = [type |-> loadNode(d, i, cur).type, data |-> loadNode(d, i, cur).data,
                  attr |-> loadNode(d, i, cur).attr, stamp |-> loadNode(d, i, cur).stamp,
                  entries |-> linkSet(d, i, cur)]
      BY <2>4, TreeNode
    <3> HIDE DEF t, u
    <3> QED BY <2>1, <2>2, <3>2, <3>3 DEF SameBody
  <2> QED BY <2>3, <2>4
<1>3. Tree(e, cur)[dir] = u[dir]
  <2>1. SameBody(loadNode(d, dir, cur), loadNode(e, dir, cur))
        /\ linkSet(e, dir, cur) = [linkSet(d, dir, cur) EXCEPT ![name] = target]
        /\ loadNode(d, dir, cur) # NoRec
    BY NoRecIsNoNode DEF Edited, isDir
  <2>2. t[dir] = [type |-> loadNode(d, dir, cur).type, data |-> loadNode(d, dir, cur).data,
                  attr |-> loadNode(d, dir, cur).attr, stamp |-> loadNode(d, dir, cur).stamp,
                  entries |-> linkSet(d, dir, cur)]
    BY <2>1, TreeNode
  <2>3. u[dir] = [t[dir] EXCEPT !.entries = [t[dir].entries EXCEPT ![name] = target]]
    BY DEF Tree
  <2>4. u[dir] = [type |-> loadNode(d, dir, cur).type, data |-> loadNode(d, dir, cur).data,
                  attr |-> loadNode(d, dir, cur).attr, stamp |-> loadNode(d, dir, cur).stamp,
                  entries |-> linkSet(e, dir, cur)]
    BY <2>1, <2>2, <2>3
  <2>5. Tree(e, cur)[dir] = u[dir]
    <3> HIDE DEF u
    <3> QED BY <2>1, <2>4, TreeNode DEF SameBody
  <2> QED BY <2>5
<1> HIDE DEF u
<1>4. Tree(e, cur) = u
  BY <1>1, <1>2, <1>3
<1> QED BY <1>4 DEF u, Fs!Bind

\* The search of reachable(), over directories only, decides whether the child leads
\* to the directory at all.
LEMMA LinkableTree ==
    ASSUME NEW d, DbInv(d), NEW cur \in Snaps, NEW dir \in Ids, NEW name \in Names, NEW child \in Ids,
           linkErr(d, cur, dir, name, child) = "OK"
    PROVE  Fs!Linkable(Tree(d, cur), dir, name, child)
<1> DEFINE t == Tree(d, cur)
           below == [n \in Ids |-> IF t[n] = Fs!NoNode THEN {}
                                   ELSE {t[n].entries[nm] : nm \in Names} \ {Fs!NoId}]
<1>1. /\ name # SNAPSHOT_NAME /\ isDir(d, dir, cur) /\ existedAt(d, child, cur)
      /\ linkSet(d, dir, cur)[name] = NoId
      /\ isDir(d, child, cur) => Apart(d, child, dir, cur)
  BY LinkChecks
<1>2. Fs!NoNode = NoRec /\ Fs!NoId = NoId
  BY DEF Fs!NoNode, Fs!NoId, NoRec, NoId
<1>3. t[dir].type = "DIR" /\ t[dir].entries[name] = NoId /\ t[child] # NoRec
  <2>1. loadNode(d, dir, cur) # NoRec /\ loadNode(d, child, cur) # NoRec
        /\ loadNode(d, dir, cur).type = "DIR"
    BY <1>1, NoRecIsNoNode DEF isDir, existedAt
  <2> QED BY <1>1, <2>1, TreeNode
<1>4. \A n \in Ids : below[n] \subseteq {linkSet(d, n, cur)[nm] : nm \in Names} \ {NoId}
  <2> SUFFICES ASSUME NEW n \in Ids
               PROVE  below[n] \subseteq {linkSet(d, n, cur)[nm] : nm \in Names} \ {NoId}
    OBVIOUS
  <2>1. CASE t[n] = NoRec
    BY <1>2, <2>1
  <2>2. CASE t[n] # NoRec
    <3>1. t[n].entries = linkSet(d, n, cur)
      BY <2>2, TreeNode
    <3> QED BY <1>2, <2>2, <3>1
  <2> QED BY <2>1, <2>2
<1>5. PICK R \in SUBSET Ids : /\ isDir(d, child, cur) => child \in R
                              /\ dir \notin R
                              /\ \A n \in R : subdirs(d, n, cur) \subseteq R
  <2>1. CASE isDir(d, child, cur)
    <3>1. Apart(d, child, dir, cur)
      BY <1>1, <2>1
    <3> QED BY <3>1 DEF Apart
  <2>2. CASE ~isDir(d, child, cur)
    <3>1. {} \in SUBSET Ids /\ dir \notin {} /\ \A n \in {} : subdirs(d, n, cur) \subseteq {}
      OBVIOUS
    <3> QED BY <2>2, <3>1
  <2> QED BY <2>1, <2>2
<1> DEFINE S == R \cup {n \in Ids : ~isDir(d, n, cur)}
<1>6. S \in SUBSET Ids /\ child \in S /\ dir \notin S
  BY <1>1, <1>5
<1>7. ASSUME NEW n \in S PROVE below[n] \subseteq S
  <2>1. n \in Ids /\ linkSet(d, n, cur) \in Entries
    BY <1>6, ReadTypes
  <2>2. ASSUME NEW c \in below[n] PROVE c \in S
    <3>1. PICK nm \in Names : c = linkSet(d, n, cur)[nm]
      BY <1>4, <2>1, <2>2
    <3>2. c \in Ids /\ c # NoId
      BY <1>4, <2>1, <2>2, <3>1 DEF Entries
    <3>3. CASE ~isDir(d, c, cur)
      BY <3>2, <3>3
    <3>4. CASE isDir(d, c, cur)
      <4>1. n \in R
        BY <1>7, <2>1, <3>1, <3>2 DEF linkSet, isDir, NoEntries
      <4>2. c \in subdirs(d, n, cur)
        BY <2>1, <3>1, <3>2, <3>4, SubdirsIff
      <4> QED BY <1>5, <4>1, <4>2
    <3> QED BY <3>3, <3>4
  <2> QED BY <2>2
<1>8. ~Fs!CanReach(t, child, dir)
  <2> HIDE DEF S, t
  <2> QED BY <1>6, <1>7 DEF Fs!CanReach
<1> HIDE DEF t
<1> QED BY <1>1, <1>2, <1>3, <1>8 DEF Fs!Linkable, t

\* alloc is Created.
LEMMA AllocFs ==
    ASSUME NEW d, TreeInv(d), NEW id \in Ids, d.next <= id, NEW cur \in Snaps,
           NEW type \in Types, NEW data \in Data, NEW now \in Times
    PROVE  Fs!Created(Tree(d, cur), Tree(allocDb(d, cur, id, type, data, now), cur), id, type, data, now)
<1> DEFINE e == allocDb(d, cur, id, type, data, now)
           r == [type |-> type, nlink |-> 0, data |-> data, attr |-> now, stamp |-> now,
                 dnLinkVer |-> cur, upLinkVer |-> cur]
           t == Tree(d, cur)
           nn == Fs!NewNode(type, data, now)
           u == [t EXCEPT ![id] = nn]
<1>1. /\ loadNode(d, id, cur) = NoRec
      /\ loadNode(e, id, cur) = r
      /\ linkSet(e, id, cur) = NoEntries
      /\ \A i \in Ids : i # id => /\ loadNode(e, i, cur) = loadNode(d, i, cur)
                                  /\ linkSet(e, i, cur) = linkSet(d, i, cur)
  BY AllocView
<1>2. nn = [type |-> type, data |-> data, attr |-> now, stamp |-> now, entries |-> NoEntries]
  BY DEF Fs!NewNode, Fs!NoEntries, Fs!NoId, NoEntries, NoId
<1>3. Tree(e, cur)[id] = nn
  <2>1. r # NoRec /\ r.type = type /\ r.data = data /\ r.attr = now /\ r.stamp = now
    BY DEF NoRec
  <2> HIDE DEF r, nn, e
  <2> QED BY <1>1, <1>2, <2>1, TreeNode
<1>4. \A i \in Ids : i # id => Tree(e, cur)[i] = t[i]
  <2> HIDE DEF e
  <2> QED BY <1>1 DEF Tree
<1>5. Tree(e, cur) = [i \in Ids |-> Tree(e, cur)[i]] /\ t = [i \in Ids |-> t[i]]
  BY DEF Tree
<1> HIDE DEF e, nn, t
<1>6. u[id] = nn /\ \A i \in Ids : i # id => u[i] = t[i]
  BY <1>5
<1>7. Tree(e, cur) = u
  BY <1>3, <1>4, <1>5, <1>6
<1>8. t[id] = Fs!NoNode
  BY <1>1, TreeNode DEF t, Fs!NoNode, NoRec
<1> QED BY <1>7, <1>8 DEF Fs!Created, e, t, nn

\* A setter is Rewritten.
LEMMA RewriteFs ==
    ASSUME NEW d, TreeInv(d), NEW id \in Ids, NEW cur \in Snaps, existedAt(d, id, cur),
           NEW r1 \in NodeRec, r1.type = loadNode(d, id, cur).type,
           r1.nlink = loadNode(d, id, cur).nlink,
           r1.dnLinkVer = loadNode(d, id, cur).dnLinkVer,
           r1.upLinkVer = loadNode(d, id, cur).upLinkVer
    PROVE  Fs!Rewritten(Tree(d, cur), Tree(storeNode(d, id, cur, r1), cur), id, r1.data, r1.attr, r1.stamp)
<1> DEFINE e == storeNode(d, id, cur, r1)
           r == loadNode(d, id, cur)
           t == Tree(d, cur)
           u == [t EXCEPT ![id].data = r1.data, ![id].attr = r1.attr, ![id].stamp = r1.stamp]
<1>1. /\ loadNode(e, id, cur) = r1
      /\ \A i \in Ids : i # id => loadNode(e, i, cur) = loadNode(d, i, cur)
      /\ \A i \in Ids : linkSet(e, i, cur) = linkSet(d, i, cur)
  BY RewriteView
<1>2. r # NoRec /\ r1 # NoRec
  BY NoRecIsNoNode DEF existedAt
<1> HIDE DEF e
<1>3. /\ t[id] = [type |-> r.type, data |-> r.data, attr |-> r.attr, stamp |-> r.stamp,
                  entries |-> linkSet(d, id, cur)]
      /\ t[id] # NoRec
  BY <1>2, TreeNode
<1>4. Tree(e, cur)[id] = [type |-> r.type, data |-> r1.data, attr |-> r1.attr, stamp |-> r1.stamp,
                          entries |-> linkSet(d, id, cur)]
  BY <1>1, <1>2, TreeNode
<1>5. \A i \in Ids : i # id => Tree(e, cur)[i] = t[i]
  BY <1>1 DEF Tree
<1>6. Tree(e, cur) = [i \in Ids |-> Tree(e, cur)[i]] /\ t = [i \in Ids |-> t[i]]
  BY DEF Tree
<1> HIDE DEF t, r
<1>7. u = [i \in Ids |-> u[i]] /\ \A i \in Ids : i # id => u[i] = t[i]
  BY <1>6
<1>8. u[id] = [type |-> r.type, data |-> r1.data, attr |-> r1.attr, stamp |-> r1.stamp,
               entries |-> linkSet(d, id, cur)]
  <2>1. u[id] = [t[id] EXCEPT !.data = r1.data, !.attr = r1.attr, !.stamp = r1.stamp]
    BY <1>6
  <2> DEFINE t1 == [t[id] EXCEPT !.data = r1.data]
             t2 == [t1 EXCEPT !.attr = r1.attr]
             t3 == [t2 EXCEPT !.stamp = r1.stamp]
  <2> HIDE DEF u
  <2>2. u[id] = t3
    BY <2>1
  <2>3. t1 = [type |-> r.type, data |-> r1.data, attr |-> r.attr, stamp |-> r.stamp,
              entries |-> linkSet(d, id, cur)]
    BY <1>3
  <2> HIDE DEF t1
  <2>4. t2 = [type |-> r.type, data |-> r1.data, attr |-> r1.attr, stamp |-> r.stamp,
              entries |-> linkSet(d, id, cur)]
    BY <2>3
  <2> HIDE DEF t2
  <2>5. t3 = [type |-> r.type, data |-> r1.data, attr |-> r1.attr, stamp |-> r1.stamp,
              entries |-> linkSet(d, id, cur)]
    BY <2>4
  <2> HIDE DEF t3
  <2> QED BY <2>2, <2>5
<1> HIDE DEF u
<1>9. \A i \in Ids : Tree(e, cur)[i] = u[i]
  BY <1>4, <1>5, <1>7, <1>8
<1>10. Tree(e, cur) = u
  BY <1>6, <1>7, <1>9
<1>11. t[id] # Fs!NoNode
  BY <1>3 DEF Fs!NoNode, NoRec
<1> QED BY <1>10, <1>11 DEF Fs!Rewritten, e, t, u

\* An entry that reads as bound is Bound in the tree.
LEMMA BoundTree ==
    ASSUME NEW d, NEW cur, NEW dir \in Ids, NEW name \in Names, isDir(d, dir, cur),
           linkSet(d, dir, cur)[name] # NoId
    PROVE  Fs!Bound(Tree(d, cur), dir, name) /\ Tree(d, cur)[dir].entries[name] = linkSet(d, dir, cur)[name]
<1>1. loadNode(d, dir, cur) # NoRec /\ loadNode(d, dir, cur).type = "DIR"
  BY NoRecIsNoNode DEF isDir
<1>2. Tree(d, cur)[dir].type = "DIR" /\ Tree(d, cur)[dir].entries = linkSet(d, dir, cur)
  BY <1>1, TreeNode
<1> QED BY <1>2 DEF Fs!Bound, Fs!NoId, NoId

\* Every transaction is a change of the tree, or leaves it alone.
LEMMA StepChange ==
    ASSUME IndInv, TreeInv(db), [Next]_vars
    PROVE  Tree(db', m_cur) = Tree(db, m_cur) \/ Fs!Change(Tree(db, m_cur), Tree(db', m_cur))
<1> DEFINE t == Tree(db, m_cur)
           u == Tree(db', m_cur)
<1>0. /\ DbInv(db) /\ db \in DbType /\ db.next <= m_next
      /\ m_cur \in Snaps /\ m_next \in 1..(MaxNode + 1) /\ m_clock \in Times
  BY DEF IndInv, TypeOK
<1>M. ASSUME db'.nodes = db.nodes, db'.down = db.down PROVE u = t
  <2>1. \A g : \A i \in Ids : loadNode(db', i, g) = loadNode(db, i, g)
    BY <1>M, LoadSameNodes
  <2>2. \A i \in Ids : linkSet(db', i, m_cur) = linkSet(db, i, m_cur)
    BY <1>M, <2>1 DEF linkSet
  <2> QED BY <2>1, <2>2, SameTreeOf
<1>1. ASSUME NEW type \in Types, NEW data \in Data, Alloc(type, data) PROVE Fs!Change(t, u)
  <2>1. m_next \in Ids /\ db.next <= m_next /\ db' = allocDb(db, m_cur, m_next, type, data, m_clock)
    BY <1>0, <1>1, BoundsAssumption DEF Alloc, Ids
  <2>2. Fs!Created(t, u, m_next, type, data, m_clock)
    BY <1>0, <2>1, AllocFs
  <2> QED BY <1>0, <2>1, <2>2 DEF Fs!Change
<1>2. ASSUME NEW dir \in Ids, NEW child \in Ids, NEW name \in Names, Link(dir, name, child)
      PROVE  Fs!Change(t, u)
  <2>1. linkErr(db, m_cur, dir, name, child) = "OK" /\ db' = linkDb(db, m_cur, dir, name, child)
    BY <1>2 DEF Link
  <2>2. name # SNAPSHOT_NAME /\ isDir(db, dir, m_cur) /\ existedAt(db, child, m_cur)
    BY <2>1, LinkChecks
  <2>3. Edited(db, db', m_cur, dir, name, child, child,
               parents(db, child, m_cur) \cup {<<dir, name>>}, loadNode(db, child, m_cur).nlink + 1)
    BY <1>0, <2>1, <2>2, LinkView
  <2>4. u = Fs!Bind(t, dir, name, child)
    BY <1>0, <2>2, <2>3, BindTree
  <2>5. Fs!Linked(t, u, dir, name, child)
    BY <1>0, <2>1, <2>4, LinkableTree DEF Fs!Linked
  <2> QED BY <2>5 DEF Fs!Change
<1>3. ASSUME NEW dir \in Ids, NEW name \in Names, Unlink(dir, name) PROVE Fs!Change(t, u)
  <2> DEFINE c == linkSet(db, dir, m_cur)[name]
             n == loadNode(db, c, m_cur).nlink
  <2>1. unlinkChild(db, m_cur, dir, name) # NoId /\ db' = unlinkDb(db, m_cur, dir, name)
    BY <1>3 DEF Unlink, unlinkErr
  <2>2. /\ TreeInv(db')
        /\ c \in Ids /\ existedAt(db, c, m_cur) /\ isDir(db, dir, m_cur)
        /\ Edited(db, db', m_cur, dir, name, NoId, c, parents(db, c, m_cur) \ {<<dir, name>>},
                  IF n - 1 >= 0 THEN n - 1 ELSE n)
    BY <1>0, <2>1, UnlinkView
  <2>3. c # NoId
    BY <1>0, <2>1, UnlinkChildRead
  <2> HIDE DEF n
  <2>4. u = Fs!Bind(t, dir, name, NoId)
    BY <1>0, <2>2, BindTree
  <2>5. Fs!Unlinked(t, u, dir, name)
    BY <2>2, <2>3, <2>4, BoundTree DEF Fs!Unlinked, Fs!NoId, NoId
  <2> QED BY <2>5 DEF Fs!Change
<1>4. ASSUME NEW sdir \in Ids, NEW ddir \in Ids, NEW sn \in Names, NEW dn \in Names,
             Move(sdir, sn, ddir, dn)
      PROVE  Fs!Change(t, u)
  <2> DEFINE c == linkSet(db, sdir, m_cur)[sn]
             e == linkDb(db, m_cur, ddir, dn, c)
             n == loadNode(e, c, m_cur).nlink
  <2>1. moveErr(db, m_cur, sdir, sn, ddir, dn) = "OK" /\ db' = moveDb(db, m_cur, sdir, sn, ddir, dn)
    BY <1>4 DEF Move
  <2>2. /\ unlinkChild(db, m_cur, sdir, sn) # NoId
        /\ linkErr(db, m_cur, ddir, dn, unlinkChild(db, m_cur, sdir, sn)) = "OK"
        /\ TreeInv(db')
        /\ Edited(e, db', m_cur, sdir, sn, NoId, c,
                  parents(e, c, m_cur) \ {<<sdir, sn>>}, IF n - 1 >= 0 THEN n - 1 ELSE n)
    BY <1>0, <2>1, MoveView
  <2>3. /\ c \in Ids /\ existedAt(db, c, m_cur) /\ c = unlinkChild(db, m_cur, sdir, sn)
        /\ isDir(db, sdir, m_cur) /\ isDir(db, ddir, m_cur) /\ dn # SNAPSHOT_NAME
        /\ linkSet(db, ddir, m_cur)[dn] = NoId
        /\ TreeInv(e)
        /\ Edited(db, e, m_cur, ddir, dn, c, c, parents(db, c, m_cur) \cup {<<ddir, dn>>},
                  loadNode(db, c, m_cur).nlink + 1)
        /\ linkSet(e, sdir, m_cur)[sn] = c
        /\ unlinkChild(e, m_cur, sdir, sn) = c
    <3>1. /\ unlinkChild(db, m_cur, sdir, sn) # NoId
          /\ linkErr(db, m_cur, ddir, dn, unlinkChild(db, m_cur, sdir, sn)) = "OK"
      BY <2>1 DEF moveErr
    <3> QED BY <1>0, <3>1, MoveLegs, SMTT(60)
  <2>4. c # NoId /\ linkErr(db, m_cur, ddir, dn, c) = "OK" /\ c = linkSet(db, sdir, m_cur)[sn]
    BY <2>2, <2>3
  <2> HIDE DEF c, e, n
  <2>5. Tree(e, m_cur) = Fs!Bind(t, ddir, dn, c)
    BY <1>0, <2>3, BindTree
  <2>6. isDir(e, sdir, m_cur) /\ DbInv(e)
    BY <2>3, EditedDirs DEF TreeInv
  <2>7. u = Fs!Bind(Tree(e, m_cur), sdir, sn, NoId)
    BY <1>0, <2>2, <2>6, BindTree
  <2>8. Fs!Bound(t, sdir, sn) /\ t[sdir].entries[sn] = c
    BY <2>3, <2>4, BoundTree
  <2>9. Fs!Linkable(t, ddir, dn, c)
    BY <1>0, <2>3, <2>4, LinkableTree
  <2>10. Fs!Moved(t, u, sdir, sn, ddir, dn)
    BY <2>5, <2>7, <2>8, <2>9 DEF Fs!Moved, Fs!NoId, NoId
  <2> QED BY <2>10 DEF Fs!Change
<1>R. ASSUME NEW id \in Ids, NEW r1 \in NodeRec, loadNode(db, id, m_cur) # NoRec,
             r1.type = loadNode(db, id, m_cur).type, r1.nlink = loadNode(db, id, m_cur).nlink,
             r1.dnLinkVer = loadNode(db, id, m_cur).dnLinkVer,
             r1.upLinkVer = loadNode(db, id, m_cur).upLinkVer,
             db' = storeNode(db, id, m_cur, r1)
      PROVE  Fs!Change(t, u)
  <2>1. Fs!Rewritten(t, u, id, r1.data, r1.attr, r1.stamp)
    BY <1>0, <1>R, RewriteFs DEF existedAt
  <2>2. r1.data \in Data /\ r1.attr \in Times /\ r1.stamp \in Times
    BY <1>R DEF NodeRec
  <2> QED BY <1>R, <2>1, <2>2 DEF Fs!Change
<1>5. ASSUME NEW id \in Ids, NEW types \in DataSetters, NEW v \in Data, SetData(id, types, v)
      PROVE  Fs!Change(t, u)
  <2> DEFINE r  == loadNode(db, id, m_cur)
             r1 == [r EXCEPT !.data = v]
  <2>1. r # NoRec /\ db' = storeNode(db, id, m_cur, r1)
    BY <1>5 DEF SetData, Rewrite
  <2>2. r \in NodeRec
    BY <1>0, <2>1, LoadBounded DEF existedAt
  <2>3. r1 \in NodeRec /\ r1.type = r.type /\ r1.nlink = r.nlink
        /\ r1.dnLinkVer = r.dnLinkVer /\ r1.upLinkVer = r.upLinkVer
    BY <2>2 DEF NodeRec
  <2> HIDE DEF r1
  <2> QED BY <1>R, <2>1, <2>3
<1>6. ASSUME NEW id \in Ids, NEW at \in Times, NEW st \in Times, SetAttr(id, at, st)
      PROVE  Fs!Change(t, u)
  <2> DEFINE r  == loadNode(db, id, m_cur)
             r1 == [r EXCEPT !.attr = at, !.stamp = st]
  <2>1. r # NoRec /\ db' = storeNode(db, id, m_cur, r1)
    BY <1>6 DEF SetAttr, Rewrite
  <2>2. r \in NodeRec
    BY <1>0, <2>1, LoadBounded DEF existedAt
  <2>3. r1 \in NodeRec /\ r1.type = r.type /\ r1.nlink = r.nlink
        /\ r1.dnLinkVer = r.dnLinkVer /\ r1.upLinkVer = r.upLinkVer
    BY <2>2 DEF NodeRec
  <2> HIDE DEF r1
  <2> QED BY <1>R, <2>1, <2>3
<1>7. ASSUME NEW x \in Times, SetTime(x) PROVE u = t
  BY <1>0, <1>7, <1>M DEF SetTime, DbType
<1>8. ASSUME Snapshot PROVE u = t
  BY <1>0, <1>8, <1>M DEF Snapshot, DbType
<1>9. ASSUME Reopen \/ AllocFails \/ SnapshotFails \/ (\E x \in Times : SetTimeFails(x)) \/ UNCHANGED vars
      PROVE  u = t
  <2>1. db' = db
    BY <1>9 DEF Reopen, AllocFails, SnapshotFails, SetTimeFails, vars
  <2> QED BY <2>1
<1> HIDE DEF t, u
<1>10. u = t \/ Fs!Change(t, u)
  BY <1>1, <1>2, <1>3, <1>4, <1>5, <1>6, <1>7, <1>8, <1>9 DEF Next
<1> QED BY <1>10 DEF t, u

\* Appending to a sequence written as a function on 1..n-1.
LEMMA AppendUpTo ==
    ASSUME NEW n \in Nat, n >= 1, NEW f, NEW v
    PROVE  Append([g \in 1..(n - 1) |-> f[g]], v) = [g \in 1..n |-> IF g = n THEN v ELSE f[g]]
  OBVIOUS

\* The constructor's store is the initial file system.
LEMMA InitFs ==
    ASSUME Init
    PROVE  Fs!FsInit
<1>1. /\ loadNode(db, Root, 1) = RootRec
      /\ \A i \in Ids : linkSet(db, i, 1) = NoEntries
      /\ \A i \in Ids : i # Root => loadNode(db, i, 1) = NoRec
      /\ m_cur = 1
  BY InitTree DEF Init
<1> DEFINE nn == Fs!NewNode("DIR", 0, 0)
<1>2. nn = [type |-> "DIR", data |-> 0, attr |-> 0, stamp |-> 0, entries |-> NoEntries]
  BY DEF Fs!NewNode, Fs!NoEntries, Fs!NoId, NoEntries, NoId
<1> HIDE DEF nn
<1>3. RootRec # NoRec /\ RootRec.type = "DIR" /\ RootRec.data = 0 /\ RootRec.attr = 0 /\ RootRec.stamp = 0
      /\ Root \in Ids
  BY BoundsAssumption DEF RootRec, NoRec, Root, Ids
<1>4. Tree(db, 1)[Root] = nn
  BY <1>1, <1>2, <1>3, TreeNode
<1>5. \A i \in Ids : i # Root => Tree(db, 1)[i] = NoRec
  BY <1>1, TreeNode
<1>6. Tree(db, 1) = [i \in Ids |-> Tree(db, 1)[i]]
  BY DEF Tree
<1>7. Tree(db, 1) = [i \in Ids |-> IF i = Root THEN nn ELSE NoRec]
  BY <1>4, <1>5, <1>6
<1>8. Tree(db, m_cur) = [i \in Ids |-> IF i = Fs!Root THEN Fs!NewNode("DIR", 0, 0) ELSE Fs!NoNode]
  BY <1>1, <1>7 DEF nn, Fs!Root, Fs!NoNode, Root, NoRec
<1>9. [g \in 1..(m_cur - 1) |-> Tree(db, g)] = << >>
  BY <1>1
<1> QED BY <1>8, <1>9 DEF Fs!FsInit

\* Every step that is not a failed snapshot is a step of the abstract file system.
LEMMA StepFs ==
    ASSUME IndInv, TreeInv(db), Trees, [Next]_vars, ~SnapshotFails
    PROVE  [Fs!FsNext]_(Fs!fsvars)
<1> DEFINE s0 == [g \in 1..(m_cur - 1) |-> Tree(db, g)]
           s1 == [g \in 1..(m_cur' - 1) |-> Tree(db', g)]
<1>1. /\ DbInv(db) /\ m_cur \in Snaps /\ m_cur \in Nat /\ m_cur >= 1
      /\ IndInv' /\ Untouched(db, db', m_cur) /\ TreeInv(db')
  BY StepInv, StepTree, BoundsAssumption DEF IndInv, TypeOK, Snaps
<1>2. ASSUME NEW g \in 1..(m_cur - 1) PROVE Tree(db', g) = Tree(db, g)
  <2>1. g \in Snaps /\ g < m_cur
    BY <1>1, BoundsAssumption DEF Snaps
  <2>2. \A i \in Ids : /\ loadNode(db', i, g) = loadNode(db, i, g)
                       /\ linkSet(db', i, g) = linkSet(db, i, g)
    BY <1>1, <2>1, ReadUntouched
  <2> QED BY <2>2, SameTreeOf
<1>3. Tree(db', m_cur) = Tree(db, m_cur) \/ Fs!Change(Tree(db, m_cur), Tree(db', m_cur))
  BY StepChange
<1>4. CASE ~Snapshot
  <2>1. m_cur' = m_cur
    BY <1>4, CurMoves DEF Trees
  <2>2. s1 = s0
    BY <1>2, <2>1
  <2>3. CASE Tree(db', m_cur) = Tree(db, m_cur)
    BY <2>1, <2>2, <2>3 DEF Fs!fsvars
  <2>4. CASE Fs!Change(Tree(db, m_cur), Tree(db', m_cur)) /\ Tree(db', m_cur) # Tree(db, m_cur)
    <3>1. Fs!Change(Tree(db, m_cur), Tree(db, m_cur)') /\ Tree(db, m_cur)' # Tree(db, m_cur)
      BY <2>1, <2>4
    <3> QED BY <2>2, <3>1 DEF Fs!FsNext
  <2> QED BY <1>3, <2>3, <2>4
<1>5. CASE Snapshot
  <2>1. m_cur' = m_cur + 1 /\ m_cur + 1 \in Snaps
    BY <1>1, <1>5 DEF Snapshot, IndInv, TypeOK
  <2>2. db'.nodes = db.nodes /\ db'.down = db.down
    BY <1>1, <1>5 DEF Snapshot, DbInv, DbType
  <2>3. \A g : \A i \in Ids : loadNode(db', i, g) = loadNode(db, i, g)
    BY <2>2, LoadSameNodes
  <2>4. \A g : \A i \in Ids : linkSet(db', i, g) = linkSet(db, i, g)
    BY <2>2, <2>3 DEF linkSet
  <2>5. Tree(db', m_cur) = Tree(db, m_cur)
    BY <2>3, <2>4, SameTreeOf
  <2>6. \A i \in Ids : /\ loadNode(db, i, m_cur + 1) = loadNode(db, i, m_cur)
                       /\ linkSet(db, i, m_cur + 1) = linkSet(db, i, m_cur)
    BY <1>1, <2>1, NextViewSame DEF Trees
  <2>7. Tree(db', m_cur + 1) = Tree(db, m_cur)
    BY <2>3, <2>4, <2>6, SameTreeOf
  <2>8. s1 = Append(s0, Tree(db, m_cur))
    <3>1. m_cur' - 1 = m_cur
      BY <1>1, <2>1
    <3>2. s1 = [g \in 1..m_cur |-> Tree(db', g)]
      BY <3>1
    <3>3. \A g \in 1..m_cur : Tree(db', g) = IF g = m_cur THEN Tree(db, m_cur) ELSE Tree(db, g)
      <4>1. \A g \in 1..m_cur : g = m_cur \/ g \in 1..(m_cur - 1)
        BY <1>1
      <4> QED BY <1>2, <2>5, <4>1
    <3>4. m_cur - 1 \in Nat /\ (m_cur - 1) + 1 = m_cur
      BY <1>1
    <3>5. Append(s0, Tree(db, m_cur)) =
             [g \in 1..m_cur |-> IF g = m_cur THEN Tree(db, m_cur) ELSE Tree(db, g)]
      <4> DEFINE f == [g \in 1..m_cur |-> Tree(db, g)]
      <4>1. s0 = [g \in 1..(m_cur - 1) |-> f[g]]
        BY <3>4
      <4>2. \A g \in 1..m_cur : f[g] = Tree(db, g)
        OBVIOUS
      <4> HIDE DEF f, s0
      <4>3. Append(s0, Tree(db, m_cur)) =
               [g \in 1..m_cur |-> IF g = m_cur THEN Tree(db, m_cur) ELSE f[g]]
        BY <1>1, <4>1, AppendUpTo
      <4> QED BY <4>2, <4>3
    <3> QED BY <3>2, <3>3, <3>5
  <2>9. Tree(db, m_cur)' = Tree(db, m_cur)
    BY <2>1, <2>7
  <2> QED BY <2>8, <2>9 DEF Fs!FsNext, Fs!FsSnapshot
<1> QED BY <1>4, <1>5

\* The copy-on-write store implements the file system that copies the whole tree at
\* every snapshot.
THEOREM Refinement == Spec /\ SnapshotsSucceed => RefinesVersionedFs
<1>1. Init => Fs!FsInit
  BY InitFs
<1>2. IndInv /\ TreeInv(db) /\ Trees /\ [Next]_vars /\ [~SnapshotFails]_vars
      => [Fs!FsNext]_(Fs!fsvars)
  <2> SUFFICES ASSUME IndInv, TreeInv(db), Trees, [Next]_vars, [~SnapshotFails]_vars
               PROVE  [Fs!FsNext]_(Fs!fsvars)
    OBVIOUS
  <2>1. CASE ~SnapshotFails
    BY <2>1, StepFs
  <2>2. CASE UNCHANGED vars
    BY <2>2 DEF vars, Fs!fsvars
  <2> QED BY <2>1, <2>2
<1> QED BY Invariance, TreeInvariance, TreesInvariance, <1>1, <1>2, PTL
       DEF Spec, SnapshotsSucceed, RefinesVersionedFs, Fs!FsSpec
=============================================================================
