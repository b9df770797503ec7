--------------------------- MODULE PrfsStoreProofs ---------------------------
(* Theorems about PrfsStore, for every value of its constants. *)
EXTENDS PrfsStore, WellFoundedInduction, TLAPS

-----------------------------------------------------------------------------
(* Reading the newest version. *)

\* A non-empty set of snapshot ids has a largest element, and Newest is it.
LEMMA NewestIsMax ==
    ASSUME NEW S \in SUBSET Snaps, S # {}
    PROVE  /\ Newest(S) \in S
           /\ \A t \in S : t <= Newest(S)
<1> DEFINE T == {MaxSnap - s : s \in S}
<1>1. T \subseteq Nat /\ T # {}
  <2>1. \A s \in S : MaxSnap - s \in Nat
    BY BoundsAssumption DEF Snaps
  <2>2. PICK s \in S : TRUE
    OBVIOUS
  <2>3. MaxSnap - s \in T
    BY <2>2
  <2> QED BY <2>1, <2>3
<1>2. PICK x \in T : \A y \in T : ~(<<y, x>> \in OpToRel(<, Nat))
  <2> HIDE DEF T
  <2> QED BY <1>1, WFMin, NatLessThanWellFounded
<1>3. PICK s \in S : x = MaxSnap - s
  OBVIOUS
<1>4. ASSUME NEW t \in S PROVE t <= s
  <2>1. MaxSnap - t \in T /\ MaxSnap - t \in Nat /\ x \in Nat
    BY <1>1
  <2>2. ~(MaxSnap - t < x)
    BY <2>1, <1>2 DEF OpToRel
  <2> QED BY <2>2, <1>3, BoundsAssumption DEF Snaps
<1> QED BY <1>4 DEF Newest

\* A set whose largest element is known: Newest picks that one.
LEMMA NewestOf ==
    ASSUME NEW S \in SUBSET Snaps, NEW m \in S, \A t \in S : t <= m
    PROVE  Newest(S) = m
<1>1. Newest(S) \in S /\ \A t \in S : t <= Newest(S)
  BY NewestIsMax
<1>2. Newest(S) \in Int /\ m \in Int
  <2>1. Newest(S) \in Snaps /\ m \in Snaps
    BY <1>1
  <2> QED BY <2>1, BoundsAssumption DEF Snaps
<1>3. Newest(S) <= m /\ m <= Newest(S)
  BY <1>1
<1> QED BY <1>2, <1>3

\* NoRec is not the record of a node.
LEMMA NoRecIsNoNode == NoRec \notin NodeRec /\ NoRec.type = "NONE"
  BY TypesAssumption DEF NoRec, NodeRec

\* What loadNode returns: nothing, or the record of some version not above rg.
LEMMA LoadNode ==
    ASSUME NEW d \in DbType, NEW id \in Ids, NEW rg \in Int
    PROVE  /\ loadNode(d, id, rg) \in NodeRec \cup {NoRec}
           /\ loadNode(d, id, rg) # NoRec =>
                \E s \in Snaps : /\ s <= rg
                                 /\ d.nodes[id][s] # NoRec
                                 /\ loadNode(d, id, rg) = d.nodes[id][s]
<1> DEFINE vs == VersionsUpTo(d, id, rg)
<1>1. vs \in SUBSET Snaps
  BY DEF VersionsUpTo
<1>2. CASE vs = {}
  BY <1>2 DEF loadNode
<1>3. CASE vs # {}
  <2>1. Newest(vs) \in vs
    BY <1>1, <1>3, NewestIsMax
  <2>2. Newest(vs) \in Snaps /\ Newest(vs) <= rg /\ d.nodes[id][Newest(vs)] # NoRec
    BY <2>1 DEF VersionsUpTo
  <2>3. loadNode(d, id, rg) = d.nodes[id][Newest(vs)]
    BY <1>3 DEF loadNode
  <2>4. d.nodes[id][Newest(vs)] \in NodeRec \cup {NoRec}
    BY <2>2 DEF DbType
  <2> QED BY <2>2, <2>3, <2>4
<1> QED BY <1>2, <1>3

-----------------------------------------------------------------------------
(* Writes under one version. *)

\* The tables of d and e differ under version cur only.
Untouched(d, e, cur) ==
    \A id \in Ids, s \in Snaps : s # cur =>
        /\ e.nodes[id][s] = d.nodes[id][s]
        /\ e.down[id][s] = d.down[id][s]
        /\ e.up[id][s] = d.up[id][s]

\* No record of d is missing from e.
NoneLost(d, e) == \A id \in Ids, s \in Snaps : d.nodes[id][s] # NoRec => e.nodes[id][s] # NoRec

\* e follows d by puts and deletes under version cur only, and satisfies the
\* invariant of the tables; no record is ever deleted.
Follows(d, e, cur) ==
    /\ DbInv(e)
    /\ e.next = d.next /\ e.cur = d.cur
    /\ Untouched(d, e, cur)
    /\ NoneLost(d, e)

\* One piece of a transaction after another.
LEMMA FollowsTrans ==
    ASSUME NEW d, NEW e, NEW f, NEW cur, Follows(d, e, cur), Follows(e, f, cur)
    PROVE  Follows(d, f, cur)
  BY DEF Follows, Untouched, NoneLost

\* Doing nothing.
LEMMA FollowsSelf ==
    ASSUME NEW d, NEW cur, DbInv(d)
    PROVE  Follows(d, d, cur)
  BY DEF Follows, Untouched, NoneLost

\* storeNode, field by field.
LEMMA StoreNodeFields ==
    ASSUME NEW d \in DbType, NEW id \in Ids, NEW g \in Snaps, NEW r \in NodeRec
    PROVE  LET e == storeNode(d, id, g, r)
           IN  /\ e \in DbType
               /\ e.down = d.down /\ e.up = d.up /\ e.next = d.next /\ e.cur = d.cur
               /\ e.changes = d.changes \cup {<<g, id>>}
               /\ e.nodes[id][g] = r
               /\ \A i \in Ids, s \in Snaps : ~(i = id /\ s = g) => e.nodes[i][s] = d.nodes[i][s]
<1> DEFINE e == storeNode(d, id, g, r)
<1>1. e.down = d.down /\ e.up = d.up /\ e.next = d.next /\ e.snaps = d.snaps
      /\ e.cur = d.cur /\ e.clock = d.clock
      /\ e.changes = d.changes \cup {<<g, id>>}
      /\ e.nodes = [d.nodes EXCEPT ![id][g] = r]
  BY DEF storeNode, DbType
<1>3. e.nodes \in [Ids -> [Snaps -> NodeRec \cup {NoRec}]]
  BY <1>1 DEF DbType
<1>4. e.changes \in SUBSET (Snaps \X Ids)
  BY <1>1 DEF DbType
<1>5. e \in DbType
  BY <1>3, <1>4 DEF DbType, storeNode
<1> HIDE DEF e
<1>6. e.nodes[id][g] = r /\ \A i \in Ids, s \in Snaps :
         ~(i = id /\ s = g) => e.nodes[i][s] = d.nodes[i][s]
  BY <1>1 DEF DbType
<1> QED BY <1>1, <1>5, <1>6 DEF e

\* What a stored entry leads to has a record no younger than the entry.
LEMMA BackedAt ==
    ASSUME NEW d, DbInv(d), NEW dir \in Ids, NEW v \in Snaps, NEW n \in Names,
           NEW c, c = d.down[dir][v][n], c # NoId
    PROVE  \E s \in Snaps : s <= v /\ d.nodes[c][s] # NoRec
  BY DEF DbInv, EntriesBacked

\* A put of a record at cur keeps the invariant when the record's link sets
\* are not younger than cur and its id has been handed out.
LEMMA StoreNodeFollows ==
    ASSUME NEW d, DbInv(d), NEW id \in Ids, NEW cur \in Snaps, NEW r \in NodeRec,
           r.dnLinkVer <= cur, r.upLinkVer <= cur, id < d.next
    PROVE  Follows(d, storeNode(d, id, cur, r), cur)
<1> DEFINE e == storeNode(d, id, cur, r)
<1>1. d \in DbType
  BY DEF DbInv
<1>2. /\ e \in DbType
      /\ e.down = d.down /\ e.up = d.up /\ e.next = d.next /\ e.cur = d.cur
      /\ e.changes = d.changes \cup {<<cur, id>>}
      /\ e.nodes[id][cur] = r
      /\ \A i \in Ids, s \in Snaps : ~(i = id /\ s = cur) => e.nodes[i][s] = d.nodes[i][s]
  BY <1>1, StoreNodeFields
<1> HIDE DEF e
<1>3. r # NoRec
  BY NoRecIsNoNode
<1>4. \A i \in Ids, s \in Snaps : d.nodes[i][s] # NoRec => e.nodes[i][s] # NoRec
  BY <1>2, <1>3
<1>5. VersionsBounded(e)
  BY <1>2 DEF DbInv, VersionsBounded
<1>6. EntriesBacked(e)
  <2> SUFFICES ASSUME NEW dir \in Ids, NEW v \in Snaps, NEW n \in Names,
                      e.down[dir][v][n] # NoId
               PROVE  \E s \in Snaps : s <= v /\ e.nodes[e.down[dir][v][n]][s] # NoRec
    BY DEF EntriesBacked
  <2> DEFINE c == d.down[dir][v][n]
  <2>1. e.down[dir][v][n] = c /\ c \in Ids
    BY <1>1, <1>2 DEF DbType, Entries
  <2> HIDE DEF c
  <2>2. PICK s \in Snaps : s <= v /\ d.nodes[c][s] # NoRec
    BY <2>1, BackedAt DEF c
  <2>3. e.nodes[c][s] # NoRec
    BY <1>4, <2>1, <2>2
  <2> QED BY <2>1, <2>2, <2>3
<1>7. RecordsIndexed(e)
  BY <1>2 DEF DbInv, RecordsIndexed
<1>8. NameReserved(e)
  BY <1>2 DEF DbInv, NameReserved
<1> QED BY <1>2, <1>4, <1>5, <1>6, <1>7, <1>8 DEF Follows, Untouched, NoneLost, DbInv, e

\* Rewriting one link set at cur keeps the invariant: the entries are backed.
LEMMA PutDownFollows ==
    ASSUME NEW d, DbInv(d), NEW dir \in Ids, NEW cur \in Snaps, NEW es \in Entries,
           es[SNAPSHOT_NAME] = NoId,
           \A n \in Names : es[n] # NoId => \E s \in Snaps : s <= cur /\ d.nodes[es[n]][s] # NoRec
    PROVE  /\ Follows(d, putDown(d, dir, cur, es), cur)
           /\ putDown(d, dir, cur, es).nodes = d.nodes
           /\ putDown(d, dir, cur, es).up = d.up
<1> DEFINE e == putDown(d, dir, cur, es)
<1>1. d \in DbType
  BY DEF DbInv
<1>2. e.nodes = d.nodes /\ e.up = d.up /\ e.next = d.next /\ e.snaps = d.snaps
      /\ e.cur = d.cur /\ e.clock = d.clock /\ e.changes = d.changes
      /\ e.down = [d.down EXCEPT ![dir][cur] = es]
  BY <1>1 DEF putDown, DbType
<1>4. e.down \in [Ids -> [Snaps -> Entries]]
  BY <1>1, <1>2 DEF DbType
<1>5. e \in DbType
  BY <1>1, <1>4 DEF DbType, putDown
<1> HIDE DEF e
<1>6. e.down[dir][cur] = es /\ \A i \in Ids, s \in Snaps :
         ~(i = dir /\ s = cur) => e.down[i][s] = d.down[i][s]
  BY <1>1, <1>2 DEF DbType
<1>7. VersionsBounded(e) /\ RecordsIndexed(e)
  BY <1>2 DEF DbInv, VersionsBounded, RecordsIndexed
<1>8. EntriesBacked(e)
  <2> SUFFICES ASSUME NEW i \in Ids, NEW v \in Snaps, NEW n \in Names, e.down[i][v][n] # NoId
               PROVE  \E s \in Snaps : s <= v /\ e.nodes[e.down[i][v][n]][s] # NoRec
    BY DEF EntriesBacked
  <2>1. CASE i = dir /\ v = cur
    BY <1>2, <1>6, <2>1
  <2>2. CASE ~(i = dir /\ v = cur)
    <3>1. e.down[i][v] = d.down[i][v]
      BY <1>6, <2>2
    <3>2. \E s \in Snaps : s <= v /\ d.nodes[d.down[i][v][n]][s] # NoRec
      BY <3>1 DEF DbInv, EntriesBacked
    <3> QED BY <1>2, <3>1, <3>2
  <2> QED BY <2>1, <2>2
<1>9. NameReserved(e)
  BY <1>6 DEF DbInv, NameReserved
<1> QED BY <1>2, <1>5, <1>6, <1>7, <1>8, <1>9 DEF Follows, Untouched, NoneLost, DbInv, e

\* Writing a link set under the current version keeps the invariant (up-links).
LEMMA PutUpFollows ==
    ASSUME NEW d, DbInv(d), NEW id \in Ids, NEW cur \in Snaps,
           NEW ls \in SUBSET (Ids \X Names)
    PROVE  /\ Follows(d, putUp(d, id, cur, ls), cur)
           /\ putUp(d, id, cur, ls).nodes = d.nodes
<1> DEFINE e == putUp(d, id, cur, ls)
<1>1. d \in DbType
  BY DEF DbInv
<1>2. e.nodes = d.nodes /\ e.down = d.down /\ e.next = d.next /\ e.snaps = d.snaps
      /\ e.cur = d.cur /\ e.clock = d.clock /\ e.changes = d.changes
      /\ e.up = [d.up EXCEPT ![id][cur] = ls]
  BY <1>1 DEF putUp, DbType
<1>4. e.up \in [Ids -> [Snaps -> SUBSET (Ids \X Names)]]
  BY <1>1, <1>2 DEF DbType
<1>5. e \in DbType
  BY <1>1, <1>4 DEF DbType, putUp
<1> HIDE DEF e
<1>6. \A i \in Ids, s \in Snaps : s # cur => e.up[i][s] = d.up[i][s]
  BY <1>1, <1>2 DEF DbType
<1>7. VersionsBounded(e) /\ RecordsIndexed(e) /\ EntriesBacked(e) /\ NameReserved(e)
  BY <1>2, SMTT(60) DEF DbInv, VersionsBounded, RecordsIndexed, EntriesBacked, NameReserved
<1> QED BY <1>2, <1>5, <1>6, <1>7 DEF Follows, Untouched, NoneLost, DbInv, e

-----------------------------------------------------------------------------
(* The transactions. *)

\* A node exists at rg iff some version of it is not above rg.
LEMMA ExistsIff ==
    ASSUME NEW d \in DbType, NEW id \in Ids, NEW rg \in Int
    PROVE  existedAt(d, id, rg) <=> \E s \in Snaps : s <= rg /\ d.nodes[id][s] # NoRec
<1>1. existedAt(d, id, rg) => \E s \in Snaps : s <= rg /\ d.nodes[id][s] # NoRec
  BY LoadNode DEF existedAt
<1>2. ASSUME NEW s \in Snaps, s <= rg, d.nodes[id][s] # NoRec
      PROVE  existedAt(d, id, rg)
  <2> DEFINE vs == VersionsUpTo(d, id, rg)
  <2>1. vs \in SUBSET Snaps /\ vs # {}
    BY <1>2 DEF VersionsUpTo
  <2>2. Newest(vs) \in vs
    BY <2>1, NewestIsMax
  <2>3. d.nodes[id][Newest(vs)] # NoRec
    BY <2>2 DEF VersionsUpTo
  <2> QED BY <2>1, <2>3 DEF existedAt, loadNode
<1> QED BY <1>1, <1>2

\* A loaded record is well formed, its link sets are not younger than the
\* snapshot it was read at, and its id has been handed out.
LEMMA LoadBounded ==
    ASSUME NEW d, DbInv(d), NEW id \in Ids, NEW rg \in Snaps, existedAt(d, id, rg)
    PROVE  /\ loadNode(d, id, rg) \in NodeRec
           /\ loadNode(d, id, rg).dnLinkVer <= rg
           /\ loadNode(d, id, rg).upLinkVer <= rg
           /\ id < d.next
<1>1. d \in DbType /\ rg \in Int
  BY BoundsAssumption DEF DbInv, Snaps
<1>2. loadNode(d, id, rg) # NoRec
  BY DEF existedAt
<1>3. PICK s \in Snaps : /\ s <= rg
                         /\ d.nodes[id][s] # NoRec
                         /\ loadNode(d, id, rg) = d.nodes[id][s]
  BY <1>1, <1>2, LoadNode
<1>4. loadNode(d, id, rg) \in NodeRec
  BY <1>1, <1>2, LoadNode
<1>5. loadNode(d, id, rg).dnLinkVer \in Snaps /\ loadNode(d, id, rg).upLinkVer \in Snaps
  BY <1>4 DEF NodeRec
<1>6. loadNode(d, id, rg).dnLinkVer <= s /\ loadNode(d, id, rg).upLinkVer <= s /\ id < d.next
  BY <1>3 DEF DbInv, VersionsBounded, RecordsIndexed
<1> QED BY <1>1, <1>3, <1>4, <1>5, <1>6, BoundsAssumption DEF Snaps

\* A node that exists goes on existing.
LEMMA FollowsExists ==
    ASSUME NEW d, NEW e, NEW cur \in Snaps, DbInv(d), Follows(d, e, cur),
           NEW id \in Ids, existedAt(d, id, cur)
    PROVE  existedAt(e, id, cur)
<1>1. d \in DbType /\ e \in DbType /\ cur \in Int
  BY BoundsAssumption DEF DbInv, Snaps, Follows
<1>2. PICK s \in Snaps : s <= cur /\ d.nodes[id][s] # NoRec
  BY <1>1, ExistsIff
<1>3. e.nodes[id][s] # NoRec
  BY <1>2 DEF Follows, NoneLost
<1> QED BY <1>1, <1>2, <1>3, ExistsIff

\* Copying a down-link set keeps the invariant: what it copies was stored under
\* an older version, and so is backed by records old enough.
LEMMA EnsureDnFollows ==
    ASSUME NEW d, DbInv(d), NEW dir \in Ids, NEW cur \in Snaps, existedAt(d, dir, cur)
    PROVE  Follows(d, ensureWritableDnLinks(d, cur, dir), cur)
<1> DEFINE r   == loadNode(d, dir, cur)
           old == d.down[dir][r.dnLinkVer]
           new == d.down[dir][cur]
           es  == copyEntries(old, new)
           d1  == putDown(d, dir, cur, es)
           r1  == [r EXCEPT !.dnLinkVer = cur]
<1>1. r \in NodeRec /\ r.dnLinkVer <= cur /\ r.upLinkVer <= cur /\ dir < d.next
  BY LoadBounded
<1>2. r.dnLinkVer \in Snaps
  BY <1>1 DEF NodeRec
<1>3. old \in Entries /\ new \in Entries
  BY <1>2 DEF DbInv, DbType
<1>4. es \in Entries
  BY <1>3 DEF copyEntries, Entries
<1>5. es[SNAPSHOT_NAME] = NoId
  BY <1>2, NamesAssumption DEF copyEntries, DbInv, NameReserved
<1>6. ASSUME NEW n \in Names, es[n] # NoId
      PROVE  \E s \in Snaps : s <= cur /\ d.nodes[es[n]][s] # NoRec
  <2>1. (es[n] = old[n] /\ old[n] # NoId) \/ (es[n] = new[n] /\ new[n] # NoId)
    BY <1>6 DEF copyEntries
  <2>2. CASE es[n] = old[n] /\ old[n] # NoId
    <3>1. PICK s \in Snaps : s <= r.dnLinkVer /\ d.nodes[old[n]][s] # NoRec
      BY <2>2, <1>2 DEF DbInv, EntriesBacked
    <3>2. s <= cur
      BY <3>1, <1>1, <1>2, BoundsAssumption DEF Snaps
    <3> QED BY <3>1, <3>2, <2>2
  <2>3. CASE es[n] = new[n] /\ new[n] # NoId
    BY <2>3 DEF DbInv, EntriesBacked
  <2> QED BY <2>1, <2>2, <2>3
<1>7. Follows(d, d1, cur)
  <2> HIDE DEF es
  <2> QED BY <1>4, <1>5, <1>6, PutDownFollows
<1>8. r1 \in NodeRec /\ r1.dnLinkVer <= cur /\ r1.upLinkVer <= cur
  BY <1>1, BoundsAssumption DEF NodeRec, Snaps
<1>9. DbInv(d1) /\ dir < d1.next
  BY <1>7, <1>1 DEF Follows
<1>10. Follows(d1, storeNode(d1, dir, cur, r1), cur)
  <2> HIDE DEF d1, r1
  <2> QED BY <1>8, <1>9, StoreNodeFollows
<1>11. Follows(d, storeNode(d1, dir, cur, r1), cur)
  <2> HIDE DEF d1, r1
  <2> QED BY <1>7, <1>10, FollowsTrans
<1> QED BY <1>11, FollowsSelf DEF ensureWritableDnLinks

\* Copying a node's up-links keeps the invariant, and the copy is current.
LEMMA EnsureUpFollows ==
    ASSUME NEW d, DbInv(d), NEW id \in Ids, NEW cur \in Snaps, existedAt(d, id, cur)
    PROVE  Follows(d, ensureWritableUpLinks(d, cur, id), cur)
<1> DEFINE r  == loadNode(d, id, cur)
           ls == d.up[id][cur] \cup d.up[id][r.upLinkVer]
           d1 == putUp(d, id, cur, ls)
           r1 == [r EXCEPT !.upLinkVer = cur]
<1>1. r \in NodeRec /\ r.dnLinkVer <= cur /\ r.upLinkVer <= cur /\ id < d.next
  BY LoadBounded
<1>2. r.upLinkVer \in Snaps
  BY <1>1 DEF NodeRec
<1>3. ls \in SUBSET (Ids \X Names)
  BY <1>2 DEF DbInv, DbType
<1>4. Follows(d, d1, cur)
  <2> HIDE DEF ls
  <2> QED BY <1>3, PutUpFollows
<1>5. r1 \in NodeRec /\ r1.dnLinkVer <= cur /\ r1.upLinkVer <= cur
  BY <1>1, BoundsAssumption DEF NodeRec, Snaps
<1>6. DbInv(d1) /\ id < d1.next
  BY <1>4, <1>1 DEF Follows
<1>7. Follows(d1, storeNode(d1, id, cur, r1), cur)
  <2> HIDE DEF d1, r1
  <2> QED BY <1>5, <1>6, StoreNodeFollows
<1>8. Follows(d, storeNode(d1, id, cur, r1), cur)
  <2> HIDE DEF d1, r1
  <2> QED BY <1>4, <1>7, FollowsTrans
<1> QED BY <1>8, FollowsSelf DEF ensureWritableUpLinks

\* Both copies of linkT and unlinkT.
LEMMA EnsureWritableFollows ==
    ASSUME NEW d, DbInv(d), NEW dir \in Ids, NEW child \in Ids, NEW cur \in Snaps,
           existedAt(d, dir, cur), existedAt(d, child, cur)
    PROVE  Follows(d, ensureWritable(d, cur, dir, child), cur)
<1> DEFINE d1 == ensureWritableDnLinks(d, cur, dir)
<1>1. Follows(d, d1, cur)
  BY EnsureDnFollows
<1> HIDE DEF d1
<1>2. DbInv(d1) /\ existedAt(d1, child, cur)
  BY <1>1, FollowsExists DEF Follows
<1>3. Follows(d1, ensureWritableUpLinks(d1, cur, child), cur)
  BY <1>2, EnsureUpFollows
<1>4. Follows(d, ensureWritableUpLinks(d1, cur, child), cur)
  BY <1>1, <1>3, FollowsTrans
<1> QED BY <1>4 DEF ensureWritable, d1

\* Rewriting the link count.
LEMMA StoreNlinkFollows ==
    ASSUME NEW d, DbInv(d), NEW id \in Ids, NEW cur \in Snaps, existedAt(d, id, cur),
           NEW step \in {1, -1}
    PROVE  Follows(d, storeNlink(d, cur, id, step), cur)
<1> DEFINE r  == loadNode(d, id, cur)
           r1 == [r EXCEPT !.nlink = IF @ + step >= 0 THEN @ + step ELSE @]
<1>1. r \in NodeRec /\ r.dnLinkVer <= cur /\ r.upLinkVer <= cur /\ id < d.next
  BY LoadBounded
<1>2. r1 \in NodeRec /\ r1.dnLinkVer <= cur /\ r1.upLinkVer <= cur
  BY <1>1 DEF NodeRec
<1>3. Follows(d, storeNode(d, id, cur, r1), cur)
  <2> HIDE DEF r1
  <2> QED BY <1>1, <1>2, StoreNodeFollows
<1> QED BY <1>3 DEF storeNlink

\* linkT, once its checks have passed.
LEMMA LinkFollows ==
    ASSUME NEW d, DbInv(d), NEW dir \in Ids, NEW child \in Ids, NEW cur \in Snaps,
           NEW name \in Names, name # SNAPSHOT_NAME,
           existedAt(d, dir, cur), existedAt(d, child, cur)
    PROVE  Follows(d, linkDb(d, cur, dir, name, child), cur)
<1> DEFINE d1 == ensureWritable(d, cur, dir, child)
           es == [d1.down[dir][cur] EXCEPT ![name] = child]
           d2 == putDown(d1, dir, cur, es)
           ls == d2.up[child][cur] \cup {<<dir, name>>}
           d3 == putUp(d2, child, cur, ls)
           d4 == storeNlink(d3, cur, child, 1)
<1>1. Follows(d, d1, cur)
  BY EnsureWritableFollows
<1>2. DbInv(d1) /\ existedAt(d1, child, cur)
  BY <1>1, FollowsExists DEF Follows
<1>3. Follows(d1, d2, cur)
  <2> HIDE DEF d1
  <2>1. d1.down[dir][cur] \in Entries
    BY <1>2 DEF DbInv, DbType
  <2>2. es \in Entries
    BY <2>1 DEF Entries
  <2>3. es[SNAPSHOT_NAME] = NoId
    BY <2>1, <1>2, NamesAssumption DEF DbInv, NameReserved, Entries
  <2>4. ASSUME NEW n \in Names, es[n] # NoId
        PROVE  \E s \in Snaps : s <= cur /\ d1.nodes[es[n]][s] # NoRec
    <3>1. CASE n = name
      <4>1. es[n] = child
        BY <3>1, <2>1 DEF Entries
      <4>2. d1 \in DbType /\ cur \in Int
        BY <1>2, BoundsAssumption DEF DbInv, Snaps
      <4> QED BY <4>1, <4>2, <1>2, ExistsIff
    <3>2. CASE n # name
      <4>1. es[n] = d1.down[dir][cur][n]
        BY <3>2, <2>1 DEF Entries
      <4> QED BY <4>1, <2>4, <1>2, BackedAt
    <3> QED BY <3>1, <3>2
  <2> HIDE DEF es
  <2> QED BY <1>2, <2>2, <2>3, <2>4, PutDownFollows
<1>4. DbInv(d2) /\ existedAt(d2, child, cur)
  <2> HIDE DEF d1, d2
  <2> QED BY <1>2, <1>3, FollowsExists DEF Follows
<1>5. Follows(d2, d3, cur)
  <2> HIDE DEF d2
  <2>1. ls \in SUBSET (Ids \X Names)
    BY <1>4 DEF DbInv, DbType
  <2> HIDE DEF ls
  <2> QED BY <2>1, <1>4, PutUpFollows
<1>6. DbInv(d3) /\ existedAt(d3, child, cur)
  <2> HIDE DEF d2, d3
  <2> QED BY <1>4, <1>5, FollowsExists DEF Follows
<1>7. Follows(d3, d4, cur)
  <2> HIDE DEF d3
  <2> QED BY <1>6, StoreNlinkFollows
<1>8. Follows(d, d4, cur)
  <2> HIDE DEF d1, d2, d3, d4
  <2> QED BY <1>1, <1>3, <1>5, <1>7, FollowsTrans
<1> QED BY <1>8 DEF linkDb

\* The child an entry leads to exists at the snapshot the entry is read at.
LEMMA UnlinkChildExists ==
    ASSUME NEW d, DbInv(d), NEW dir \in Ids, NEW name \in Names, NEW cur \in Snaps,
           unlinkChild(d, cur, dir, name) # NoId
    PROVE  /\ existedAt(d, dir, cur)
           /\ unlinkChild(d, cur, dir, name) \in Ids
           /\ existedAt(d, unlinkChild(d, cur, dir, name), cur)
<1> DEFINE r == loadNode(d, dir, cur)
           c == d.down[dir][r.dnLinkVer][name]
<1>1. existedAt(d, dir, cur) /\ unlinkChild(d, cur, dir, name) = c
  BY DEF unlinkChild
<1>2. r \in NodeRec /\ r.dnLinkVer <= cur
  BY <1>1, LoadBounded
<1>3. r.dnLinkVer \in Snaps /\ d \in DbType
  BY <1>2 DEF NodeRec, DbInv
<1> HIDE DEF r
<1>4. c \in Ids
  BY <1>1, <1>3 DEF DbType, Entries
<1>5. PICK s \in Snaps : s <= r.dnLinkVer /\ d.nodes[c][s] # NoRec
  BY <1>1, <1>3 DEF DbInv, EntriesBacked
<1>6. s <= cur /\ cur \in Int
  BY <1>2, <1>3, <1>5, BoundsAssumption DEF Snaps
<1> HIDE DEF c
<1>7. existedAt(d, c, cur)
  BY <1>3, <1>4, <1>5, <1>6, ExistsIff
<1> QED BY <1>1, <1>4, <1>7

\* unlinkT, once it has found the entry.
LEMMA UnlinkFollows ==
    ASSUME NEW d, DbInv(d), NEW dir \in Ids, NEW name \in Names, NEW cur \in Snaps,
           unlinkChild(d, cur, dir, name) # NoId
    PROVE  Follows(d, unlinkDb(d, cur, dir, name), cur)
<1> DEFINE c  == unlinkChild(d, cur, dir, name)
           d1 == ensureWritable(d, cur, dir, c)
           es == [d1.down[dir][cur] EXCEPT ![name] = NoId]
           d2 == putDown(d1, dir, cur, es)
           ls == d2.up[c][cur] \ {<<dir, name>>}
           d3 == putUp(d2, c, cur, ls)
           d4 == storeNlink(d3, cur, c, -1)
<1>0. existedAt(d, dir, cur) /\ c \in Ids /\ existedAt(d, c, cur)
  BY UnlinkChildExists
<1>1. Follows(d, d1, cur)
  <2> HIDE DEF c
  <2> QED BY <1>0, EnsureWritableFollows
<1>2. DbInv(d1) /\ existedAt(d1, c, cur)
  <2> HIDE DEF c, d1
  <2> QED BY <1>0, <1>1, FollowsExists DEF Follows
<1>3. Follows(d1, d2, cur)
  <2> HIDE DEF d1
  <2>1. d1.down[dir][cur] \in Entries
    BY <1>2 DEF DbInv, DbType
  <2>2. es \in Entries
    BY <2>1 DEF Entries
  <2>3. es[SNAPSHOT_NAME] = NoId
    BY <2>1, <1>2, NamesAssumption DEF DbInv, NameReserved, Entries
  <2>4. ASSUME NEW n \in Names, es[n] # NoId
        PROVE  \E s \in Snaps : s <= cur /\ d1.nodes[es[n]][s] # NoRec
    <3>1. es[n] = d1.down[dir][cur][n]
      BY <2>4, <2>1 DEF Entries
    <3> QED BY <3>1, <2>4, <1>2, BackedAt
  <2> HIDE DEF es
  <2> QED BY <1>2, <2>2, <2>3, <2>4, PutDownFollows
<1>4. DbInv(d2) /\ existedAt(d2, c, cur)
  <2> HIDE DEF c, d1, d2
  <2> QED BY <1>0, <1>2, <1>3, FollowsExists DEF Follows
<1>5. Follows(d2, d3, cur)
  <2> HIDE DEF c, d2
  <2>1. ls \in SUBSET (Ids \X Names)
    BY <1>0, <1>4 DEF DbInv, DbType
  <2> HIDE DEF ls
  <2> QED BY <2>1, <1>0, <1>4, PutUpFollows
<1>6. DbInv(d3) /\ existedAt(d3, c, cur)
  <2> HIDE DEF c, d2, d3
  <2> QED BY <1>0, <1>4, <1>5, FollowsExists DEF Follows
<1>7. Follows(d3, d4, cur)
  <2> HIDE DEF c, d3
  <2> QED BY <1>0, <1>6, StoreNlinkFollows
<1>8. Follows(d, d4, cur)
  <2> HIDE DEF c, d1, d2, d3, d4
  <2> QED BY <1>1, <1>3, <1>5, <1>7, FollowsTrans
<1> QED BY <1>8 DEF unlinkDb

\* A transaction on the meta keys only.
LEMMA MetaInv ==
    ASSUME NEW d, DbInv(d), NEW e \in DbType, e.nodes = d.nodes, e.down = d.down,
           e.up = d.up, e.changes = d.changes, d.next <= e.next
    PROVE  DbInv(e) /\ \A c : Untouched(d, e, c)
<1>1. d.next \in Int /\ e.next \in Int
  BY BoundsAssumption DEF DbInv, DbType
<1>2. VersionsBounded(e) /\ EntriesBacked(e) /\ NameReserved(e)
  BY DEF DbInv, VersionsBounded, EntriesBacked, NameReserved
<1>3. RecordsIndexed(e)
  BY <1>1, BoundsAssumption DEF DbInv, RecordsIndexed, Ids
<1> QED BY <1>2, <1>3 DEF DbInv, Untouched

\* alloc: a new record under the next id.
LEMMA AllocInv ==
    ASSUME NEW d, DbInv(d), NEW id \in Ids, d.next <= id, NEW cur \in Snaps,
           NEW type \in Types, NEW data \in Data, NEW now \in Times
    PROVE  LET e == allocDb(d, cur, id, type, data, now)
           IN  DbInv(e) /\ Untouched(d, e, cur) /\ e.next = id + 1 /\ e.cur = d.cur /\ NoneLost(d, e)
<1> DEFINE d1 == [d EXCEPT !.next = id + 1]
           r  == [type |-> type, nlink |-> 0, data |-> data, attr |-> now, stamp |-> now,
                  dnLinkVer |-> cur, upLinkVer |-> cur]
<1>1. d \in DbType /\ d.next \in Int /\ id + 1 \in 1..(MaxNode + 1) /\ d.next <= id + 1
  BY BoundsAssumption DEF DbInv, DbType, Ids
<1>2. /\ d1 \in DbType /\ d1.nodes = d.nodes /\ d1.down = d.down
      /\ d1.up = d.up /\ d1.changes = d.changes /\ d1.next = id + 1 /\ d1.cur = d.cur
  BY <1>1 DEF DbType
<1> HIDE DEF d1
<1>3. DbInv(d1) /\ Untouched(d, d1, cur)
  BY <1>1, <1>2, MetaInv
<1>4. r \in NodeRec /\ r.dnLinkVer <= cur /\ r.upLinkVer <= cur
  BY BoundsAssumption DEF NodeRec, Snaps
<1>5. id < d1.next
  BY <1>2, BoundsAssumption DEF Ids
<1>6. Follows(d1, storeNode(d1, id, cur, r), cur)
  <2> HIDE DEF r
  <2> QED BY <1>3, <1>4, <1>5, StoreNodeFollows
<1> QED BY <1>2, <1>3, <1>6 DEF allocDb, Follows, Untouched, NoneLost, d1

-----------------------------------------------------------------------------
(* The invariant. *)

\* The invariant holds of the store the constructor makes.
LEMMA InitInv == Init => IndInv
<1> SUFFICES ASSUME Init PROVE IndInv
  OBVIOUS
<1>1. EmptyDb \in DbType /\ EmptyDb.next = 2
  BY BoundsAssumption, ValuesAssumption, NamesAssumption
     DEF EmptyDb, DbType, Entries, NoEntries, NoId, Snaps
<1>2. DbInv(EmptyDb)
  <2>1. \A id \in Ids, s \in Snaps : EmptyDb.nodes[id][s] = NoRec
    BY DEF EmptyDb
  <2>2. \A id \in Ids, s \in Snaps, n \in Names : EmptyDb.down[id][s][n] = NoId
    BY DEF EmptyDb, NoEntries
  <2> QED BY <1>1, <2>1, <2>2, NamesAssumption
          DEF DbInv, VersionsBounded, EntriesBacked, RecordsIndexed, NameReserved
<1>3. RootRec \in NodeRec /\ RootRec.dnLinkVer <= 1 /\ RootRec.upLinkVer <= 1
  BY BoundsAssumption, TypesAssumption, ValuesAssumption DEF RootRec, NodeRec, Snaps
<1>4. Root \in Ids /\ 1 \in Snaps /\ Root < EmptyDb.next
  BY <1>1, BoundsAssumption DEF Root, Ids, Snaps
<1>5. Follows(EmptyDb, storeNode(EmptyDb, Root, 1, RootRec), 1)
  BY <1>2, <1>3, <1>4, StoreNodeFollows
<1>6. DbInv(db) /\ db.next = 2
  BY <1>1, <1>5 DEF Init, Follows
<1>7. TypeOK
  BY <1>6, BoundsAssumption, ValuesAssumption DEF Init, TypeOK, DbInv, Snaps
<1> QED BY <1>6, <1>7 DEF IndInv, Init

\* Every step keeps the invariant, writes under version m_cur only and loses no record.
LEMMA StepInv ==
    ASSUME IndInv, [Next]_vars
    PROVE  IndInv' /\ Untouched(db, db', m_cur) /\ NoneLost(db, db')
<1> USE DEF IndInv
<1>0. /\ DbInv(db) /\ db \in DbType /\ db.next <= m_next
      /\ m_cur \in Snaps /\ m_next \in 1..(MaxNode + 1) /\ m_clock \in Times
  BY DEF TypeOK
<1>A. ASSUME Follows(db, db', m_cur), UNCHANGED <<m_next, m_cur, m_clock>>
      PROVE  IndInv' /\ Untouched(db, db', m_cur) /\ NoneLost(db, db')
  BY <1>0, <1>A DEF Follows, DbInv, TypeOK
<1>B. ASSUME db' \in DbType, db'.nodes = db.nodes, db'.down = db.down, db'.up = db.up,
             db'.changes = db.changes, db'.next = db.next, UNCHANGED m_next,
             m_cur' \in Snaps, m_clock' \in Times
      PROVE  IndInv' /\ Untouched(db, db', m_cur) /\ NoneLost(db, db')
  <2>1. db.next <= db'.next
    BY <1>0, <1>B, BoundsAssumption DEF DbType
  <2>2. DbInv(db') /\ Untouched(db, db', m_cur) /\ NoneLost(db, db')
    BY <1>0, <1>B, <2>1, MetaInv DEF NoneLost
  <2> QED BY <1>0, <1>B, <2>2 DEF TypeOK, DbInv
<1>1. ASSUME NEW type \in Types, NEW data \in Data, Alloc(type, data)
      PROVE  IndInv' /\ Untouched(db, db', m_cur) /\ NoneLost(db, db')
  <2>1. m_next \in Ids /\ db.next <= m_next
    BY <1>0, <1>1, BoundsAssumption DEF Alloc, Ids
  <2>2. DbInv(db') /\ Untouched(db, db', m_cur) /\ NoneLost(db, db') /\ db'.next = m_next + 1
    BY <1>0, <1>1, <2>1, AllocInv DEF Alloc
  <2>3. m_next' = m_next + 1 /\ m_next' \in 1..(MaxNode + 1)
    BY <1>1, <2>1, BoundsAssumption DEF Alloc, Ids
  <2>4. UNCHANGED <<m_cur, m_clock>>
    BY <1>1 DEF Alloc
  <2> QED BY <1>0, <2>2, <2>3, <2>4, BoundsAssumption DEF TypeOK, DbInv, Ids
<1>2. ASSUME NEW dir \in Ids, NEW child \in Ids, NEW name \in Names, Link(dir, name, child)
      PROVE  IndInv' /\ Untouched(db, db', m_cur) /\ NoneLost(db, db')
  <2>1. name # SNAPSHOT_NAME /\ existedAt(db, dir, m_cur) /\ existedAt(db, child, m_cur)
    BY <1>2 DEF Link, linkErr
  <2>2. Follows(db, db', m_cur)
    BY <1>0, <1>2, <2>1, LinkFollows DEF Link
  <2> QED BY <1>A, <1>2, <2>2 DEF Link
<1>3. ASSUME NEW dir \in Ids, NEW name \in Names, Unlink(dir, name)
      PROVE  IndInv' /\ Untouched(db, db', m_cur) /\ NoneLost(db, db')
  <2>1. unlinkChild(db, m_cur, dir, name) # NoId
    BY <1>3 DEF Unlink, unlinkErr
  <2>2. Follows(db, db', m_cur)
    BY <1>0, <1>3, <2>1, UnlinkFollows DEF Unlink
  <2> QED BY <1>A, <1>3, <2>2 DEF Unlink
<1>4. ASSUME NEW sdir \in Ids, NEW ddir \in Ids, NEW sn \in Names, NEW dn \in Names,
             Move(sdir, sn, ddir, dn)
      PROVE  IndInv' /\ Untouched(db, db', m_cur) /\ NoneLost(db, db')
  <2> DEFINE c  == unlinkChild(db, m_cur, sdir, sn)
             d1 == linkDb(db, m_cur, ddir, dn, c)
  <2>1. c # NoId /\ linkErr(db, m_cur, ddir, dn, c) = "OK"
        /\ unlinkErr(d1, m_cur, sdir, sn) = "OK"
    BY <1>4 DEF Move, moveErr
  <2>2. c \in Ids /\ existedAt(db, c, m_cur)
    BY <1>0, <2>1, UnlinkChildExists
  <2>3. dn # SNAPSHOT_NAME /\ existedAt(db, ddir, m_cur)
    BY <2>1 DEF linkErr
  <2>4. Follows(db, d1, m_cur)
    <3> HIDE DEF c
    <3> QED BY <1>0, <2>2, <2>3, LinkFollows
  <2>5. unlinkChild(d1, m_cur, sdir, sn) # NoId
    BY <2>1 DEF unlinkErr
  <2>6. Follows(d1, unlinkDb(d1, m_cur, sdir, sn), m_cur)
    <3> HIDE DEF d1
    <3> QED BY <1>0, <2>4, <2>5, UnlinkFollows DEF Follows
  <2>7. Follows(db, unlinkDb(d1, m_cur, sdir, sn), m_cur)
    <3> HIDE DEF d1
    <3> QED BY <2>4, <2>6, FollowsTrans
  <2>8. Follows(db, db', m_cur)
    BY <1>4, <2>7 DEF Move, moveDb
  <2> QED BY <1>A, <1>4, <2>8 DEF Move
<1>C. ASSUME NEW id \in Ids, NEW r1 \in NodeRec, loadNode(db, id, m_cur) # NoRec,
             r1.dnLinkVer = loadNode(db, id, m_cur).dnLinkVer,
             r1.upLinkVer = loadNode(db, id, m_cur).upLinkVer,
             db' = storeNode(db, id, m_cur, r1), UNCHANGED <<m_next, m_cur, m_clock>>
      PROVE  IndInv' /\ Untouched(db, db', m_cur) /\ NoneLost(db, db')
  <2>1. /\ loadNode(db, id, m_cur).dnLinkVer <= m_cur
        /\ loadNode(db, id, m_cur).upLinkVer <= m_cur
        /\ id < db.next
    BY <1>0, <1>C, LoadBounded DEF existedAt
  <2>2. Follows(db, db', m_cur)
    BY <1>0, <1>C, <2>1, StoreNodeFollows
  <2> QED BY <1>A, <1>C, <2>2
<1>5. ASSUME NEW id \in Ids, NEW types \in DataSetters, NEW v \in Data, SetData(id, types, v)
      PROVE  IndInv' /\ Untouched(db, db', m_cur) /\ NoneLost(db, db')
  <2> DEFINE r  == loadNode(db, id, m_cur)
             r1 == [r EXCEPT !.data = v]
  <2>1. r # NoRec /\ db' = storeNode(db, id, m_cur, r1) /\ UNCHANGED <<m_next, m_cur, m_clock>>
    BY <1>5 DEF SetData, Rewrite
  <2>2. r \in NodeRec
    BY <1>0, <2>1, LoadBounded DEF existedAt
  <2>3. r1 \in NodeRec /\ r1.dnLinkVer = r.dnLinkVer /\ r1.upLinkVer = r.upLinkVer
    BY <2>2 DEF NodeRec
  <2> HIDE DEF r1
  <2> QED BY <1>C, <2>1, <2>3
<1>6. ASSUME NEW id \in Ids, NEW at \in Times, NEW st \in Times, SetAttr(id, at, st)
      PROVE  IndInv' /\ Untouched(db, db', m_cur) /\ NoneLost(db, db')
  <2> DEFINE r  == loadNode(db, id, m_cur)
             r1 == [r EXCEPT !.attr = at, !.stamp = st]
  <2>1. r # NoRec /\ db' = storeNode(db, id, m_cur, r1) /\ UNCHANGED <<m_next, m_cur, m_clock>>
    BY <1>6 DEF SetAttr, Rewrite
  <2>2. r \in NodeRec
    BY <1>0, <2>1, LoadBounded DEF existedAt
  <2>3. r1 \in NodeRec /\ r1.dnLinkVer = r.dnLinkVer /\ r1.upLinkVer = r.upLinkVer
    BY <2>2 DEF NodeRec
  <2> HIDE DEF r1
  <2> QED BY <1>C, <2>1, <2>3
<1>8. ASSUME NEW t \in Times, SetTime(t)
      PROVE  IndInv' /\ Untouched(db, db', m_cur) /\ NoneLost(db, db')
  BY <1>0, <1>8, <1>B DEF SetTime, DbType
<1>9. CASE Snapshot
  <2>1. m_cur + 1 \in Snaps
    BY <1>0, <1>9, BoundsAssumption DEF Snapshot, Snaps
  <2>2. db.snaps \cup {<<m_cur, m_clock>>} \in SUBSET (Snaps \X Times)
    BY <1>0 DEF DbType
  <2>3. db' \in DbType
    BY <1>0, <1>9, <2>1, <2>2 DEF Snapshot, DbType
  <2>4. /\ db'.nodes = db.nodes /\ db'.down = db.down /\ db'.up = db.up
        /\ db'.changes = db.changes /\ db'.next = db.next
    BY <1>0, <1>9 DEF Snapshot, DbType
  <2>5. m_cur' = m_cur + 1 /\ UNCHANGED <<m_next, m_clock>>
    BY <1>9 DEF Snapshot
  <2> QED BY <1>0, <1>B, <2>1, <2>3, <2>4, <2>5
<1>10. CASE Reopen
  <2>1. db' = db /\ m_next' = db.next /\ m_cur' \in Snaps /\ m_clock' \in Times
    BY <1>0, <1>10 DEF Reopen, DbType
  <2>2. db.next \in 1..(MaxNode + 1) /\ db.next <= db.next
    BY <1>0, BoundsAssumption DEF DbType
  <2> QED BY <1>0, <2>1, <2>2 DEF TypeOK, Untouched, NoneLost
<1>11. CASE AllocFails
  <2>1. m_next' \in 1..(MaxNode + 1) /\ db.next <= m_next'
    BY <1>0, <1>11, BoundsAssumption DEF AllocFails, DbType
  <2> QED BY <1>0, <1>11, <2>1 DEF AllocFails, TypeOK, Untouched, NoneLost
<1>12. CASE SnapshotFails
  <2>1. m_cur' \in Snaps
    BY <1>0, <1>12, BoundsAssumption DEF SnapshotFails, Snaps
  <2> QED BY <1>0, <1>12, <2>1 DEF SnapshotFails, TypeOK, Untouched, NoneLost
<1>13. ASSUME NEW t \in Times, SetTimeFails(t)
       PROVE  IndInv' /\ Untouched(db, db', m_cur) /\ NoneLost(db, db')
  BY <1>0, <1>13 DEF SetTimeFails, TypeOK, Untouched, NoneLost
<1>14. CASE UNCHANGED vars
  BY <1>0, <1>14 DEF vars, TypeOK, Untouched, NoneLost
<1> QED BY <1>1, <1>2, <1>3, <1>4, <1>5, <1>6, <1>8, <1>9, <1>10, <1>11,
           <1>12, <1>13, <1>14 DEF Next

\* The tables keep their invariant through every operation, failed transaction
\* and reopening.
THEOREM Invariance == Spec => []IndInv
<1>1. IndInv /\ [Next]_vars => IndInv'
  BY StepInv
<1> QED BY InitInv, <1>1, PTL DEF Spec

\* Type correctness: in particular a link count never drops below zero, and the
\* versions a record names are snapshots.
THEOREM TypeCorrect == Spec => []TypeOK
<1>1. IndInv => TypeOK
  BY DEF IndInv
<1> QED BY Invariance, <1>1, PTL

-----------------------------------------------------------------------------
(* What follows from it. *)

\* Reads below c do not see writes at c.
LEMMA ReadUntouched ==
    ASSUME NEW d, DbInv(d), NEW e, NEW c \in Snaps, Untouched(d, e, c),
           NEW g \in Snaps, g < c, NEW id \in Ids
    PROVE  /\ loadNode(e, id, g) = loadNode(d, id, g)
           /\ linkSet(e, id, g) = linkSet(d, id, g)
           /\ parents(e, id, g) = parents(d, id, g)
<1>1. VersionsUpTo(e, id, g) = VersionsUpTo(d, id, g)
  BY BoundsAssumption DEF VersionsUpTo, Untouched, Snaps
<1>2. loadNode(e, id, g) = loadNode(d, id, g)
  <2>1. CASE VersionsUpTo(d, id, g) = {}
    BY <1>1, <2>1 DEF loadNode
  <2>2. CASE VersionsUpTo(d, id, g) # {}
    <3> DEFINE v == Newest(VersionsUpTo(d, id, g))
    <3>1. VersionsUpTo(d, id, g) \in SUBSET Snaps
      BY DEF VersionsUpTo
    <3>2. v \in VersionsUpTo(d, id, g)
      BY <2>2, <3>1, NewestIsMax
    <3>3. v \in Snaps /\ v <= g
      BY <3>2 DEF VersionsUpTo
    <3>4. v # c
      BY <3>3, BoundsAssumption DEF Snaps
    <3>5. e.nodes[id][v] = d.nodes[id][v]
      BY <3>3, <3>4 DEF Untouched
    <3> QED BY <1>1, <2>2, <3>5 DEF loadNode
  <2> QED BY <2>1, <2>2
<1>3. CASE loadNode(d, id, g) = NoRec
  BY <1>2, <1>3, NoRecIsNoNode DEF linkSet, parents
<1>4. CASE loadNode(d, id, g) # NoRec
  <2> DEFINE r == loadNode(d, id, g)
  <2>1. r \in NodeRec /\ r.dnLinkVer <= g /\ r.upLinkVer <= g
    BY <1>4, LoadBounded DEF existedAt
  <2>2. r.dnLinkVer \in Snaps /\ r.upLinkVer \in Snaps
    BY <2>1 DEF NodeRec
  <2>3. r.dnLinkVer # c /\ r.upLinkVer # c
    BY <2>1, <2>2, BoundsAssumption DEF Snaps
  <2>4. e.down[id][r.dnLinkVer] = d.down[id][r.dnLinkVer]
        /\ e.up[id][r.upLinkVer] = d.up[id][r.upLinkVer]
    BY <2>2, <2>3 DEF Untouched
  <2>5. linkSet(e, id, g) = linkSet(d, id, g)
    BY <1>2, <2>4 DEF linkSet
  <2>6. parents(e, id, g) = parents(d, id, g)
    BY <1>2, <2>4 DEF parents
  <2> QED BY <1>2, <2>5, <2>6
<1> QED BY <1>3, <1>4

\* So a view below c is the same.
LEMMA ViewUntouched ==
    ASSUME NEW d, DbInv(d), NEW e, NEW c \in Snaps, Untouched(d, e, c),
           NEW g \in Snaps, g < c
    PROVE  View(e, g) = View(d, g)
<1>1. ASSUME NEW id \in Ids PROVE NodeView(e, id, g) = NodeView(d, id, g)
  BY ReadUntouched DEF NodeView
<1> QED BY <1>1 DEF View

\* A sealed snapshot is immutable: copy-on-write, setters that ignore the
\* snapshot of the handle they are called on, failed transactions and reopening
\* all leave every view below m_cur as it was.
THEOREM SealedSnapshots == Spec => SealedViewsNeverChange
<1>1. ASSUME IndInv, [Next]_vars
      PROVE  [\A g \in Snaps : g < m_cur => View(db', g) = View(db, g)]_vars
  <2>1. Untouched(db, db', m_cur) /\ DbInv(db) /\ m_cur \in Snaps
    BY <1>1, StepInv DEF IndInv, TypeOK
  <2>2. ASSUME NEW g \in Snaps, g < m_cur
        PROVE  View(db', g) = View(db, g)
    BY <2>1, <2>2, ViewUntouched
  <2> QED BY <2>2
<1> QED BY Invariance, <1>1, PTL DEF Spec, SealedViewsNeverChange

\* A node id is handed out once, even when alloc's transaction fails or the
\* process dies between two allocations.
THEOREM IdsUnique == Spec => []IdsNeverReused
<1>1. ASSUME IndInv PROVE IdsNeverReused
  <2> SUFFICES ASSUME NEW id \in Ids, NEW g \in Snaps, db.nodes[id][g] # NoRec
               PROVE  id < db.next /\ id < m_next
    BY DEF IdsNeverReused
  <2>1. id < db.next /\ db.next <= m_next
    BY <1>1 DEF IndInv, DbInv, RecordsIndexed
  <2>2. id \in Int /\ db.next \in Int /\ m_next \in Int
    BY <1>1, BoundsAssumption DEF IndInv, TypeOK, DbType, Ids
  <2> QED BY <2>1, <2>2
<1> QED BY Invariance, <1>1, PTL

\* The invariant gives the two properties of entries: what an entry leads to is there in
\* its view, and no entry has the reserved name.
LEMMA EntriesHold ==
    ASSUME IndInv
    PROVE  NoDanglingEntry /\ SnapshotNameUnbound
<1>1. ASSUME NEW g \in Visible, NEW dir \in Ids
      PROVE  /\ linkSet(db, dir, g)[SNAPSHOT_NAME] = NoId
             /\ \A n \in Names : linkSet(db, dir, g)[n] # NoId =>
                   existedAt(db, linkSet(db, dir, g)[n], g)
  <2>1. DbInv(db) /\ db \in DbType /\ g \in Snaps /\ g \in Int
    BY BoundsAssumption DEF IndInv, TypeOK, Visible, Snaps, DbInv
  <2>2. CASE loadNode(db, dir, g).type # "DIR"
    BY <2>2, NamesAssumption DEF linkSet, NoEntries
  <2>3. CASE loadNode(db, dir, g).type = "DIR"
    <3> DEFINE v == loadNode(db, dir, g).dnLinkVer
    <3>1. existedAt(db, dir, g)
      BY <2>3, NoRecIsNoNode DEF existedAt
    <3>2. v \in Snaps /\ v <= g
      BY <2>1, <3>1, LoadBounded DEF NodeRec
    <3>3. linkSet(db, dir, g) = db.down[dir][v]
      BY <2>3 DEF linkSet
    <3> HIDE DEF v
    <3>4. db.down[dir][v][SNAPSHOT_NAME] = NoId
      BY <2>1, <3>2 DEF DbInv, NameReserved
    <3>5. ASSUME NEW n \in Names, db.down[dir][v][n] # NoId
          PROVE  existedAt(db, db.down[dir][v][n], g)
      <4>1. PICK s \in Snaps : s <= v /\ db.nodes[db.down[dir][v][n]][s] # NoRec
        BY <2>1, <3>2, <3>5 DEF DbInv, EntriesBacked
      <4>2. s <= g
        BY <4>1, <3>2, <2>1, BoundsAssumption DEF Snaps
      <4>3. db.down[dir][v][n] \in Ids
        BY <2>1, <3>2, <3>5 DEF DbType, Entries
      <4> QED BY <2>1, <4>1, <4>2, <4>3, ExistsIff
    <3> QED BY <3>3, <3>4, <3>5
  <2> QED BY <2>2, <2>3
<1> QED BY <1>1 DEF NoDanglingEntry, SnapshotNameUnbound

\* Every entry of every view leads to a node that exists in that view, and none
\* has the reserved name.
THEOREM EntriesSound == Spec => [](NoDanglingEntry /\ SnapshotNameUnbound)
  BY Invariance, EntriesHold, PTL

\* A node without a record in (a, b] reads the same at a and at b.
LEMMA SameBetween ==
    ASSUME NEW d \in DbType, NEW id \in Ids, NEW a \in Snaps, NEW b \in Snaps, a <= b,
           \A s \in Snaps : a < s /\ s <= b => d.nodes[id][s] = NoRec
    PROVE  loadNode(d, id, a) = loadNode(d, id, b)
<1>1. VersionsUpTo(d, id, a) = VersionsUpTo(d, id, b)
  BY BoundsAssumption DEF VersionsUpTo, Snaps
<1> QED BY <1>1 DEF loadNode

\* The change index misses nothing: a diff over its candidates is the diff over
\* all nodes, between any two snapshots.
THEOREM DiffsComplete == Spec => []DiffsMatchFullScan
<1>1. ASSUME IndInv, NEW a \in Snaps, NEW b \in Snaps, a <= b
      PROVE  /\ diffNodes(db, a, b) = diffNodesOf(db, Ids, a, b)
             /\ diffPaths(db, a, b) = diffPathsOf(db, Ids, a, b)
  <2> DEFINE cand == candidates(db, a, b)
  <2>1. db \in DbType /\ cand \subseteq Ids
    BY <1>1 DEF IndInv, TypeOK, candidates
  <2>2. ASSUME NEW id \in Ids, id \notin cand
        PROVE  loadNode(db, id, a) = loadNode(db, id, b)
    <3>1. \A s \in Snaps : a < s /\ s <= b => db.nodes[id][s] = NoRec
      BY <1>1, <2>2 DEF IndInv, DbInv, RecordsIndexed, candidates
    <3> QED BY <1>1, <2>1, <3>1, SameBetween
  <2> HIDE DEF cand
  <2>3. \A id \in Ids : id \notin cand => nodeChange(db, id, a, b) = "NONE"
    BY <2>2 DEF nodeChange, aliveAt, existedAt
  <2>4. {i \in cand : nodeChange(db, i, a, b) # "NONE"} = {i \in Ids : nodeChange(db, i, a, b) # "NONE"}
    BY <2>1, <2>3
  <2>5. diffNodes(db, a, b) = diffNodesOf(db, Ids, a, b)
    BY <2>4 DEF diffNodes, diffNodesOf, cand
  <2>6. ASSUME NEW id \in Ids, id \notin cand, NEW n \in Names
        PROVE  pathChange(db, id, n, a, b)[1] = "NONE"
    <3>1. linkSet(db, id, a) = linkSet(db, id, b)
      BY <2>2, <2>6 DEF linkSet
    <3> QED BY <3>1 DEF pathChange
  <2>7. diffPathsOf(db, cand, a, b) = diffPathsOf(db, Ids, a, b)
    BY <2>1, <2>6 DEF diffPathsOf
  <2> QED BY <2>5, <2>7 DEF diffPaths, cand
<1>2. IndInv => DiffsMatchFullScan
  <2> SUFFICES ASSUME IndInv, NEW b \in Visible, NEW a \in 1..b
               PROVE  /\ diffNodes(db, a, b) = diffNodesOf(db, Ids, a, b)
                      /\ diffPaths(db, a, b) = diffPathsOf(db, Ids, a, b)
    BY DEF DiffsMatchFullScan
  <2>1. a \in Snaps /\ b \in Snaps /\ a <= b
    BY BoundsAssumption DEF IndInv, TypeOK, Visible, Snaps
  <2> QED BY <1>1, <2>1
<1> QED BY Invariance, <1>2, PTL
=============================================================================
