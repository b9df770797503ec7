-------------------------- MODULE DifferentialProofs --------------------------
(***************************************************************************)
(* The copy-on-write store and the reference store cannot be told apart,   *)
(* for any number of nodes, names and snapshots: every read, every refusal *)
(* of a link or an unlink, every diff and every count agrees.              *)
(***************************************************************************)
EXTENDS Differential, PrfsTreeProofs, SequenceTheorems

-----------------------------------------------------------------------------
(* The invariant of the reference store's lists. *)

VerRec == [snap : Snaps, type : Types, nlink : Int, data : Data, attr : Times, stamp : Times]

IvRec == [born : Snaps, dead : Snaps \cup {0}, child : Ids]

\* The versions of a node ascend up to the current snapshot.
Ascending(vs, cur) ==
    /\ \A i \in 1..Len(vs) : vs[i].snap <= cur
    /\ \A i, j \in 1..Len(vs) : i < j => vs[i].snap < vs[j].snap

\* The intervals of a name are not empty and lie one after the other, so that only
\* the last one can be open.
Disjoint(ivs, cur) ==
    /\ \A i \in 1..Len(ivs) : /\ ivs[i].born <= cur
                              /\ ivs[i].dead # 0 => ivs[i].born < ivs[i].dead /\ ivs[i].dead <= cur
    /\ \A i, j \in 1..Len(ivs) : i < j => ivs[i].dead # 0 /\ ivs[i].dead <= ivs[j].born

NodeLists == [Ids -> Seq(VerRec)]
LinkLists == [Ids \X Names -> Seq(IvRec)]
Changes   == SUBSET (Snaps \X Ids)

MemType == [nodes   : NodeLists,
            links   : LinkLists,
            changes : Changes,
            snaps   : SUBSET (Snaps \X Times),
            next    : 1..(MaxNode + 1),
            cur     : Snaps,
            clock   : Times]

\* Every version is in the change index, so that a diff over its candidates misses none.
VersionsIndexed(m) ==
    \A id \in Ids : \A i \in 1..Len(m.nodes[id]) : <<m.nodes[id][i].snap, id>> \in m.changes

MemInv(m) == /\ m \in MemType
             /\ \A id \in Ids : Ascending(m.nodes[id], m.cur)
             /\ \A k \in Ids \X Names : Disjoint(m.links[k], m.cur)
             /\ VersionsIndexed(m)

\* A node's version in the reference store and its record in the other one.
SameRec(v, r) == /\ v = M!NoVer <=> r = NoRec
                 /\ r # NoRec => /\ v.type = r.type /\ v.nlink = r.nlink /\ v.data = r.data
                                 /\ v.attr = r.attr /\ v.stamp = r.stamp

\* Both stores read the same at snapshot g.
SameAt(d, m, g) ==
    \A id \in Ids : /\ SameRec(M!effR(m, id, g), loadNode(d, id, g))
                    /\ \A n \in Names : M!childAt(m, id, n, g) = linkSet(d, id, g)[n]

\* The coupling of the two stores.
Coupled == /\ MemInv(mem)
           /\ mem.next = m_next /\ mem.cur = m_cur /\ mem.clock = m_clock
           /\ mem.snaps = db.snaps
           /\ \A g \in Visible : SameAt(db, mem, g)

-----------------------------------------------------------------------------
(* Reading a list of versions. *)

\* k versions of vs are not above g, and they are the first ones.
UpTo(vs, g, k) == /\ \A i \in 1..k : vs[i].snap <= g
                  /\ k < Len(vs) => vs[k + 1].snap > g

EffOf(vs, g) ==
    LET k == CHOOSE k \in 0..Len(vs) : UpTo(vs, g, k)
    IN  IF k = 0 THEN M!NoVer ELSE vs[k]

\* effR reads one node's list only.
LEMMA EffIsEffOf ==
    ASSUME NEW m, NEW id, NEW g
    PROVE  M!effR(m, id, g) = EffOf(m.nodes[id], g)
  BY DEF M!effR, M!NoVer, EffOf, UpTo

\* The versions of a list, and their snapshots.
LEMMA Vers ==
    ASSUME NEW vs \in Seq(VerRec)
    PROVE  /\ Len(vs) \in Nat
           /\ \A i \in 1..Len(vs) : vs[i] \in VerRec /\ vs[i].snap \in Int
<1>1. \A i \in 1..Len(vs) : vs[i] \in VerRec
  OBVIOUS
<1>2. \A v \in VerRec : v.snap \in Int
  BY BoundsAssumption DEF VerRec, Snaps
<1> QED BY <1>1, <1>2

\* A set of numbers below a bound has a largest element.
LEMMA LargestBelow ==
    ASSUME NEW n \in Nat, NEW S \in SUBSET (0..n), S # {}
    PROVE  \E x \in S : \A y \in S : y <= x
<1> DEFINE T == {n - s : s \in S}
<1>1. T \subseteq Nat /\ T # {}
  <2>1. PICK s \in S : TRUE
    OBVIOUS
  <2>2. n - s \in T
    BY <2>1
  <2>3. \A s1 \in S : n - s1 \in Nat
    OBVIOUS
  <2> QED BY <2>2, <2>3
<1>2. PICK x \in T : \A y \in T : ~(<<y, x>> \in OpToRel(<, Nat))
  <2> HIDE DEF T
  <2> QED BY <1>1, WFMin, NatLessThanWellFounded, Zenon
<1>3. PICK s \in S : x = n - s
  OBVIOUS
<1>4. ASSUME NEW t \in S PROVE t <= s
  <2>1. n - t \in T /\ n - t \in Nat /\ x \in Nat
    BY <1>1
  <2>2. ~(n - t < x)
    BY <2>1, <1>2 DEF OpToRel
  <2> QED BY <2>2, <1>3
<1> QED BY <1>4

\* There is such a number of versions.
LEMMA UpToExists ==
    ASSUME NEW vs \in Seq(VerRec), NEW g \in Int
    PROVE  \E k \in 0..Len(vs) : UpTo(vs, g, k)
<1> DEFINE S == {k \in 0..Len(vs) : \A i \in 1..k : vs[i].snap <= g}
<1>1. Len(vs) \in Nat /\ S \in SUBSET (0..Len(vs)) /\ 0 \in S
  OBVIOUS
<1>2. PICK k \in S : \A y \in S : y <= k
  <2> HIDE DEF S
  <2> QED BY <1>1, LargestBelow
<1>3. ASSUME k < Len(vs) PROVE vs[k + 1].snap > g
  <2>1. SUFFICES ASSUME vs[k + 1].snap <= g PROVE FALSE
    <3>1. k + 1 \in 1..Len(vs)
      BY <1>2, <1>3
    <3>2. vs[k + 1].snap \in Int
      BY <3>1, Vers
    <3> QED BY <3>2
  <2>2. k + 1 \in 0..Len(vs)
    BY <1>2, <1>3
  <2>3. \A i \in 1..(k + 1) : vs[i].snap <= g
    <3> SUFFICES ASSUME NEW i \in 1..(k + 1) PROVE vs[i].snap <= g
      OBVIOUS
    <3>1. CASE i = k + 1
      BY <2>1, <3>1
    <3>2. CASE i # k + 1
      <4>1. i \in 1..k
        BY <1>2, <3>2
      <4> QED BY <1>2, <4>1
    <3> QED BY <3>1, <3>2
  <2>4. k + 1 \in S
    BY <2>2, <2>3
  <2> QED BY <1>2, <2>4
<1> QED BY <1>2, <1>3 DEF UpTo

\* What is read when the number is known.
LEMMA EffAt ==
    ASSUME NEW vs \in Seq(VerRec), NEW g \in Int, NEW k \in 0..Len(vs), UpTo(vs, g, k)
    PROVE  EffOf(vs, g) = IF k = 0 THEN M!NoVer ELSE vs[k]
<1> DEFINE c == CHOOSE c \in 0..Len(vs) : UpTo(vs, g, c)
<1>1. c \in 0..Len(vs) /\ UpTo(vs, g, c)
  OBVIOUS
<1>2. EffOf(vs, g) = IF c = 0 THEN M!NoVer ELSE vs[c]
  BY DEF EffOf
<1> HIDE DEF c
<1>3. \A i \in 1..Len(vs) : vs[i].snap \in Int
  BY Vers
<1>4. ~(c < k)
  <2>1. SUFFICES ASSUME c < k PROVE FALSE
    OBVIOUS
  <2>2. c + 1 \in 1..k /\ c < Len(vs) /\ c + 1 \in 1..Len(vs)
    BY <1>1, <2>1
  <2>3. vs[c + 1].snap <= g /\ vs[c + 1].snap > g /\ vs[c + 1].snap \in Int
    BY <1>1, <1>3, <2>2 DEF UpTo
  <2> QED BY <2>3
<1>5. ~(k < c)
  <2>1. SUFFICES ASSUME k < c PROVE FALSE
    OBVIOUS
  <2>2. k + 1 \in 1..c /\ k < Len(vs) /\ k + 1 \in 1..Len(vs)
    BY <1>1, <2>1
  <2>3. vs[k + 1].snap <= g /\ vs[k + 1].snap > g /\ vs[k + 1].snap \in Int
    BY <1>1, <1>3, <2>2 DEF UpTo
  <2> QED BY <2>3
<1>6. c = k
  BY <1>1, <1>4, <1>5
<1> QED BY <1>2, <1>6

\* NoVer is no version.
LEMMA NoVerIsNone == M!NoVer \notin VerRec /\ M!NoVer = NoRec
  BY TypesAssumption DEF M!NoVer, VerRec, NoRec

\* What is read is a version or none.
LEMMA EffType ==
    ASSUME NEW vs \in Seq(VerRec), NEW g \in Int
    PROVE  EffOf(vs, g) \in VerRec \cup {M!NoVer}
<1>1. PICK k \in 0..Len(vs) : UpTo(vs, g, k)
  BY UpToExists
<1>2. k # 0 => vs[k] \in VerRec
  OBVIOUS
<1> QED BY <1>1, <1>2, EffAt

\* From the newest version on, that one is read.
LEMMA EffNewest ==
    ASSUME NEW vs \in Seq(VerRec), NEW cur \in Int, Ascending(vs, cur), NEW g \in Int, cur <= g
    PROVE  EffOf(vs, g) = IF vs = <<>> THEN M!NoVer ELSE vs[Len(vs)]
<1>1. \A i \in 1..Len(vs) : vs[i].snap \in Int /\ vs[i].snap <= cur
  BY Vers DEF Ascending
<1>2. UpTo(vs, g, Len(vs)) /\ Len(vs) \in 0..Len(vs)
  BY <1>1 DEF UpTo
<1>3. Len(vs) = 0 <=> vs = <<>>
  BY EmptySeq
<1> QED BY <1>2, <1>3, EffAt

\* The live version replaced, or a new one put after the sealed ones.
Written(vs, cur, v) ==
    IF vs[Len(vs)].snap = cur THEN [vs EXCEPT ![Len(vs)] = v] ELSE Append(vs, v)

\* A list whose newest version was written or appended is still ascending, and reads the same
\* at every older snapshot.
LEMMA WrittenList ==
    ASSUME NEW vs \in Seq(VerRec), vs # <<>>, NEW cur \in Snaps, Ascending(vs, cur),
           NEW v \in VerRec, v.snap = cur
    PROVE  LET ws == Written(vs, cur, v)
           IN  /\ ws \in Seq(VerRec) /\ ws # <<>> /\ Ascending(ws, cur)
               /\ EffOf(ws, cur) = v
               /\ \A g \in Int : g < cur => EffOf(ws, g) = EffOf(vs, g)
               /\ \A j \in 1..Len(ws) : ws[j].snap = cur \/ \E i \in 1..Len(vs) : ws[j].snap = vs[i].snap
<1> DEFINE n == Len(vs)
           ws == Written(vs, cur, v)
<1>1. /\ n \in Nat \ {0} /\ n \in 1..n /\ cur \in Int
      /\ \A i \in 1..n : vs[i] \in VerRec /\ vs[i].snap \in Int /\ vs[i].snap <= cur
      /\ \A i, j \in 1..n : i < j => vs[i].snap < vs[j].snap
  <2>1. n \in Nat \ {0} /\ cur \in Int
    BY EmptySeq, BoundsAssumption DEF Snaps
  <2> QED BY <2>1, Vers DEF Ascending
<1>2. CASE vs[n].snap = cur
  <2>1. /\ ws \in Seq(VerRec) /\ Len(ws) = n
        /\ \A j \in 1..n : ws[j] = IF j = n THEN v ELSE vs[j]
    BY <1>1, <1>2, ExceptSeq DEF Written
  <2> HIDE DEF ws
  <2>2. \A j \in 1..n : ws[j].snap = vs[j].snap
    BY <1>2, <2>1
  <2>3. ws # <<>> /\ Ascending(ws, cur)
    BY <1>1, <2>1, <2>2 DEF Ascending
  <2>4. EffOf(ws, cur) = v
    BY <1>1, <2>1, <2>3, EffNewest
  <2>5. ASSUME NEW g \in Int, g < cur PROVE EffOf(ws, g) = EffOf(vs, g)
    <3>1. PICK k \in 0..n : UpTo(vs, g, k)
      BY UpToExists
    <3>2. k # n
      BY <1>1, <1>2, <2>5, <3>1 DEF UpTo
    <3>3. k \in 0..Len(ws) /\ UpTo(ws, g, k)
      BY <1>1, <2>1, <2>2, <3>1, <3>2 DEF UpTo
    <3>4. k # 0 => ws[k] = vs[k]
      BY <1>1, <2>1, <3>2
    <3> QED BY <2>1, <3>1, <3>3, <3>4, EffAt
  <2> QED BY <1>1, <2>1, <2>2, <2>3, <2>4, <2>5 DEF ws
<1>3. CASE vs[n].snap # cur
  <2>1. /\ ws \in Seq(VerRec) /\ Len(ws) = n + 1 /\ ws[n + 1] = v
        /\ \A j \in 1..n : ws[j] = vs[j]
    BY <1>1, <1>3, AppendProperties DEF Written
  <2> HIDE DEF ws
  <2>2. \A j \in 1..n : vs[j].snap < cur
    <3> SUFFICES ASSUME NEW j \in 1..n PROVE vs[j].snap < cur
      OBVIOUS
    <3>1. vs[n].snap < cur
      BY <1>1, <1>3
    <3>2. CASE j = n
      BY <3>1, <3>2
    <3>3. CASE j < n
      BY <1>1, <3>1, <3>3
    <3> QED BY <1>1, <3>2, <3>3
  <2>3. ws # <<>> /\ Ascending(ws, cur)
    <3>1. \A i \in 1..(n + 1) : i \in 1..n \/ i = n + 1
      BY <1>1
    <3>2. \A i \in 1..(n + 1) : ws[i].snap <= cur
      BY <1>1, <2>1, <3>1
    <3>3. ASSUME NEW i \in 1..(n + 1), NEW j \in 1..(n + 1), i < j PROVE ws[i].snap < ws[j].snap
      <4>1. i \in 1..n
        BY <1>1, <3>3
      <4>2. CASE j = n + 1
        BY <2>1, <2>2, <4>1, <4>2
      <4>3. CASE j \in 1..n
        BY <1>1, <2>1, <3>3, <4>1, <4>3
      <4> QED BY <3>1, <4>2, <4>3
    <3> QED BY <1>1, <2>1, <3>2, <3>3 DEF Ascending
  <2>4. EffOf(ws, cur) = v
    BY <1>1, <2>1, <2>3, EffNewest
  <2>5. ASSUME NEW g \in Int, g < cur PROVE EffOf(ws, g) = EffOf(vs, g)
    <3>1. PICK k \in 0..n : UpTo(vs, g, k)
      BY UpToExists
    <3>2. k \in 0..Len(ws) /\ UpTo(ws, g, k)
      <4>1. CASE k = n
        BY <1>1, <2>1, <2>5, <3>1, <4>1 DEF UpTo
      <4>2. CASE k < n
        <5>1. k \in 0..(n + 1) /\ k + 1 \in 1..n /\ \A i \in 1..k : i \in 1..n
          BY <1>1, <4>2
        <5>2. ws[k + 1] = vs[k + 1] /\ \A i \in 1..k : ws[i] = vs[i]
          BY <2>1, <5>1
        <5> QED BY <1>1, <2>1, <3>1, <4>2, <5>1, <5>2 DEF UpTo
      <4> QED BY <1>1, <3>1, <4>1, <4>2
    <3>3. k # 0 => ws[k] = vs[k]
      BY <1>1, <2>1
    <3> QED BY <2>1, <3>1, <3>2, <3>3, EffAt
  <2>6. \A j \in 1..Len(ws) : ws[j].snap = cur \/ \E i \in 1..n : ws[j].snap = vs[i].snap
    <3>1. \A j \in 1..(n + 1) : j \in 1..n \/ j = n + 1
      BY <1>1
    <3> QED BY <2>1, <3>1
  <2> QED BY <2>1, <2>3, <2>4, <2>5, <2>6 DEF ws
<1> QED BY <1>2, <1>3

-----------------------------------------------------------------------------
(* Reading a list of intervals. *)

LiveIn(ivs, g) == {i \in DOMAIN ivs : M!liveAt(ivs[i], g)}

FirstIn(ivs, g) ==
    LET live == LiveIn(ivs, g)
    IN  IF live = {} THEN 0 ELSE CHOOSE i \in live : \A j \in live : i <= j

ChildOf(ivs, g) == IF FirstIn(ivs, g) = 0 THEN NoId ELSE ivs[FirstIn(ivs, g)].child

\* A lookup reads one name's list only.
LEMMA ChildIsChildOf ==
    ASSUME NEW m, NEW dir, NEW n, NEW g
    PROVE  /\ M!liveIv(m, <<dir, n>>, g) = FirstIn(m.links[<<dir, n>>], g)
           /\ M!childAt(m, dir, n, g) = ChildOf(m.links[<<dir, n>>], g)
  BY DEF M!liveIv, M!childAt, M!NoId, NoId, FirstIn, LiveIn, ChildOf

\* The intervals of a list, and their ends.
LEMMA Ivs ==
    ASSUME NEW ivs \in Seq(IvRec)
    PROVE  /\ Len(ivs) \in Nat /\ DOMAIN ivs = 1..Len(ivs)
           /\ \A i \in 1..Len(ivs) : /\ ivs[i] \in IvRec /\ ivs[i].born \in Int /\ ivs[i].dead \in Int
                                     /\ ivs[i].child \in Ids /\ ivs[i].child # NoId
<1>1. \A i \in 1..Len(ivs) : ivs[i] \in IvRec
  OBVIOUS
<1>2. \A v \in IvRec : v.born \in Int /\ v.dead \in Int /\ v.child \in Ids /\ v.child # NoId
  BY BoundsAssumption DEF IvRec, Snaps, Ids, NoId
<1> QED BY <1>1, <1>2

\* At most one interval is live, and it is the one that is read.
LEMMA OneLive ==
    ASSUME NEW ivs \in Seq(IvRec), NEW cur \in Int, Disjoint(ivs, cur), NEW g \in Int,
           NEW i \in LiveIn(ivs, g)
    PROVE  /\ LiveIn(ivs, g) = {i}
           /\ FirstIn(ivs, g) = i /\ i \in 1..Len(ivs) /\ i # 0
           /\ ChildOf(ivs, g) = ivs[i].child
<1>1. i \in 1..Len(ivs) /\ \A j \in LiveIn(ivs, g) : j \in 1..Len(ivs) /\ M!liveAt(ivs[j], g)
  BY Ivs DEF LiveIn
<1>2. ASSUME NEW j \in LiveIn(ivs, g), NEW k \in LiveIn(ivs, g) PROVE ~(j < k)
  <2>1. SUFFICES ASSUME j < k PROVE FALSE
    OBVIOUS
  <2>2. j \in 1..Len(ivs) /\ k \in 1..Len(ivs)
    BY <1>1
  <2>3. ivs[j].dead # 0 /\ ivs[j].dead <= ivs[k].born
    BY <2>1, <2>2 DEF Disjoint
  <2>4. ivs[k].born <= g /\ (ivs[j].dead = 0 \/ ivs[j].dead > g)
    BY <1>1 DEF M!liveAt
  <2>5. ivs[k].born \in Int /\ ivs[j].dead \in Int
    BY <2>2, Ivs
  <2> QED BY <2>3, <2>4, <2>5
<1>3. \A j \in LiveIn(ivs, g) : j = i
  <2> SUFFICES ASSUME NEW j \in LiveIn(ivs, g) PROVE j = i
    OBVIOUS
  <2>1. ~(j < i) /\ ~(i < j)
    BY <1>2
  <2>2. i \in Int /\ j \in Int
    BY <1>1
  <2> QED BY <2>1, <2>2
<1>4. LiveIn(ivs, g) = {i}
  BY <1>3
<1>5. FirstIn(ivs, g) = i
  <2>1. i <= i
    BY <1>1
  <2>2. (CHOOSE k \in {i} : \A j \in {i} : k <= j) = i
    BY <2>1
  <2> QED BY <1>4, <2>2 DEF FirstIn
<1>6. i # 0
  BY <1>1
<1> QED BY <1>1, <1>4, <1>5, <1>6 DEF ChildOf

\* Where no interval is live, nothing is read.
LEMMA NoneLive ==
    ASSUME NEW ivs, NEW g, LiveIn(ivs, g) = {}
    PROVE  FirstIn(ivs, g) = 0 /\ ChildOf(ivs, g) = NoId
  BY DEF FirstIn, ChildOf

\* An entry is read exactly when some interval is live.
LEMMA ChildIff ==
    ASSUME NEW ivs \in Seq(IvRec), NEW cur \in Int, Disjoint(ivs, cur), NEW g \in Int
    PROVE  /\ ChildOf(ivs, g) \in Ids \cup {NoId}
           /\ ChildOf(ivs, g) = NoId <=> LiveIn(ivs, g) = {}
           /\ FirstIn(ivs, g) = 0 <=> ChildOf(ivs, g) = NoId
           /\ ChildOf(ivs, g) # NoId => /\ FirstIn(ivs, g) \in LiveIn(ivs, g)
                                        /\ FirstIn(ivs, g) \in 1..Len(ivs)
           /\ \A i \in LiveIn(ivs, g) : ivs[i].child = ChildOf(ivs, g) /\ i = FirstIn(ivs, g)
<1>1. CASE LiveIn(ivs, g) = {}
  BY <1>1, NoneLive
<1>2. CASE LiveIn(ivs, g) # {}
  <2>1. PICK i \in LiveIn(ivs, g) : TRUE
    BY <1>2
  <2>2. /\ LiveIn(ivs, g) = {i} /\ FirstIn(ivs, g) = i /\ i \in 1..Len(ivs) /\ i # 0
        /\ ChildOf(ivs, g) = ivs[i].child
    BY OneLive
  <2>3. ivs[i].child \in Ids /\ ivs[i].child # NoId
    BY <2>2, Ivs
  <2> QED BY <2>2, <2>3
<1> QED BY <1>1, <1>2

\* A list with the same live intervals at g reads the same there.
LEMMA SameLive ==
    ASSUME NEW ivs \in Seq(IvRec), NEW jvs \in Seq(IvRec), NEW cur \in Int,
           Disjoint(ivs, cur), Disjoint(jvs, cur), NEW g \in Int,
           LiveIn(jvs, g) = LiveIn(ivs, g),
           \A i \in LiveIn(ivs, g) : jvs[i].child = ivs[i].child
    PROVE  ChildOf(jvs, g) = ChildOf(ivs, g)
<1>1. CASE LiveIn(ivs, g) = {}
  BY <1>1, NoneLive
<1>2. CASE LiveIn(ivs, g) # {}
  <2>1. PICK i \in LiveIn(ivs, g) : TRUE
    BY <1>2
  <2>2. ChildOf(ivs, g) = ivs[i].child
    BY OneLive
  <2>3. ChildOf(jvs, g) = jvs[i].child
    BY OneLive
  <2> QED BY <2>2, <2>3
<1> QED BY <1>1, <1>2

\* A name bound: the new interval is open from the current snapshot.
LEMMA BoundList ==
    ASSUME NEW ivs \in Seq(IvRec), NEW cur \in Snaps, Disjoint(ivs, cur),
           LiveIn(ivs, cur) = {}, NEW c \in Ids
    PROVE  LET jvs == Append(ivs, [born |-> cur, dead |-> 0, child |-> c])
           IN  /\ jvs \in Seq(IvRec) /\ Disjoint(jvs, cur)
               /\ ChildOf(jvs, cur) = c
               /\ \A g \in Int : g < cur => ChildOf(jvs, g) = ChildOf(ivs, g)
<1> DEFINE v == [born |-> cur, dead |-> 0, child |-> c]
           n == Len(ivs)
           jvs == Append(ivs, v)
<1>1. v \in IvRec /\ v.born = cur /\ v.dead = 0 /\ v.child = c /\ cur \in Int /\ cur > 0
  BY BoundsAssumption DEF IvRec, Snaps
<1> HIDE DEF v
<1>2. /\ n \in Nat /\ jvs \in Seq(IvRec) /\ Len(jvs) = n + 1 /\ jvs[n + 1] = v
      /\ \A j \in 1..n : jvs[j] = ivs[j]
  BY <1>1, AppendProperties
<1> HIDE DEF jvs
<1>3. \A i \in 1..(n + 1) : i \in 1..n \/ i = n + 1
  BY <1>2
<1>4. \A i \in 1..n : /\ ivs[i].born \in Int /\ ivs[i].dead \in Int /\ ivs[i].born <= cur
                      /\ ivs[i].dead # 0 => ivs[i].born < ivs[i].dead /\ ivs[i].dead <= cur
  BY Ivs DEF Disjoint
<1>5. \A i \in 1..n : ivs[i].dead # 0 /\ ivs[i].dead <= cur
  <2> SUFFICES ASSUME NEW i \in 1..n, ivs[i].dead = 0 PROVE FALSE
    BY <1>4
  <2>1. i \in LiveIn(ivs, cur)
    BY <1>4, Ivs DEF LiveIn, M!liveAt
  <2> QED BY <2>1
<1>6. Disjoint(jvs, cur)
  <2>1. \A i \in 1..(n + 1) : /\ jvs[i].born <= cur
                              /\ jvs[i].dead # 0 => jvs[i].born < jvs[i].dead /\ jvs[i].dead <= cur
    BY <1>1, <1>2, <1>3, <1>4
  <2>2. ASSUME NEW i \in 1..(n + 1), NEW j \in 1..(n + 1), i < j
        PROVE  jvs[i].dead # 0 /\ jvs[i].dead <= jvs[j].born
    <3>1. i \in 1..n
      BY <1>2, <2>2
    <3>2. CASE j = n + 1
      BY <1>1, <1>2, <1>5, <3>1, <3>2
    <3>3. CASE j \in 1..n
      <4>1. ivs[i].dead # 0 /\ ivs[i].dead <= ivs[j].born
        BY <2>2, <3>1, <3>3 DEF Disjoint
      <4> QED BY <1>2, <3>1, <3>3, <4>1
    <3> QED BY <1>3, <3>2, <3>3
  <2> QED BY <1>2, <2>1, <2>2 DEF Disjoint
<1>7. ChildOf(jvs, cur) = c
  <2>1. n + 1 \in LiveIn(jvs, cur)
    <3>1. n + 1 \in DOMAIN jvs
      BY <1>2, Ivs
    <3> QED BY <1>1, <1>2, <3>1 DEF LiveIn, M!liveAt
  <2> QED BY <1>1, <1>2, <1>6, <2>1, OneLive
<1>8. ASSUME NEW g \in Int, g < cur PROVE ChildOf(jvs, g) = ChildOf(ivs, g)
  <2>1. DOMAIN jvs = 1..(n + 1) /\ DOMAIN ivs = 1..n
    BY <1>2, Ivs
  <2>2. ~M!liveAt(jvs[n + 1], g)
    BY <1>1, <1>2, <1>8 DEF M!liveAt
  <2>3. LiveIn(jvs, g) = LiveIn(ivs, g)
    BY <1>2, <1>3, <2>1, <2>2 DEF LiveIn
  <2>4. \A i \in LiveIn(ivs, g) : jvs[i].child = ivs[i].child
    BY <1>2, <2>1 DEF LiveIn
  <2> QED BY <1>1, <1>2, <1>6, <2>3, <2>4, SameLive
<1> QED BY <1>2, <1>6, <1>7, <1>8 DEF jvs, v

\* A name unbound: the open interval is the last one, and goes or ends here.
Unbound(ivs, cur) ==
    LET i == FirstIn(ivs, cur)
    IN  IF ivs[i].born = cur THEN SubSeq(ivs, 1, i - 1) \o SubSeq(ivs, i + 1, Len(ivs))
        ELSE [ivs EXCEPT ![i].dead = cur]

\* A name unbound: the live interval is closed, or dropped if it began in the current snapshot.
LEMMA UnboundList ==
    ASSUME NEW ivs \in Seq(IvRec), NEW cur \in Snaps, Disjoint(ivs, cur), ChildOf(ivs, cur) # NoId
    PROVE  LET jvs == Unbound(ivs, cur)
           IN  /\ jvs \in Seq(IvRec) /\ Disjoint(jvs, cur)
               /\ ChildOf(jvs, cur) = NoId
               /\ \A g \in Int : g < cur => ChildOf(jvs, g) = ChildOf(ivs, g)
<1> DEFINE n == FirstIn(ivs, cur)
           jvs == Unbound(ivs, cur)
<1>1. cur \in Int /\ cur > 0
  BY BoundsAssumption DEF Snaps
<1>2. n \in LiveIn(ivs, cur) /\ n \in 1..Len(ivs) /\ LiveIn(ivs, cur) = {n}
  BY <1>1, ChildIff, OneLive
<1>3. \A i \in 1..Len(ivs) : /\ ivs[i] \in IvRec
                             /\ ivs[i].born \in Int /\ ivs[i].dead \in Int /\ ivs[i].born <= cur
                             /\ ivs[i].dead # 0 => ivs[i].born < ivs[i].dead /\ ivs[i].dead <= cur
  BY Ivs DEF Disjoint
<1>4. ivs[n].dead = 0 /\ ivs[n].born <= cur
  <2>1. ivs[n].dead = 0 \/ ivs[n].dead > cur
    BY <1>2 DEF LiveIn, M!liveAt
  <2> QED BY <1>1, <1>2, <1>3, <2>1
<1> HIDE DEF n
<1>5. n = Len(ivs)
  <2>1. SUFFICES ASSUME n < Len(ivs) PROVE FALSE
    BY <1>2, Ivs
  <2>2. n + 1 \in 1..Len(ivs) /\ n < n + 1
    BY <1>2, <2>1, Ivs
  <2> QED BY <1>2, <1>4, <2>2 DEF Disjoint
<1>6. \A i, j \in 1..Len(ivs) : i < j => ivs[i].dead # 0 /\ ivs[i].dead <= ivs[j].born
  BY DEF Disjoint
<1>7. DOMAIN ivs = 1..n /\ n \in Nat \ {0} /\ Len(ivs) = n
  BY <1>2, <1>5, Ivs
<1>8. \A i \in 1..n : i \in 1..(n - 1) \/ i = n
  BY <1>7
<1>9. CASE ivs[n].born = cur
  <2>1. jvs = SubSeq(ivs, 1, n - 1)
    <3>1. jvs = SubSeq(ivs, 1, n - 1) \o SubSeq(ivs, n + 1, n)
      BY <1>7, <1>9 DEF Unbound, n
    <3>2. SubSeq(ivs, n + 1, n) = <<>>
      BY <1>7, SubSeqEmpty
    <3>3. SubSeq(ivs, 1, n - 1) \in Seq(IvRec)
      <4>1. \A i \in 1..(n - 1) : ivs[i] \in IvRec
        BY <1>3, <1>7
      <4> QED BY <1>7, <4>1, SubSeqProperties
    <3> QED BY <3>1, <3>2, <3>3, ConcatEmptySeq
  <2>2. /\ jvs \in Seq(IvRec) /\ Len(jvs) = n - 1
        /\ \A i \in 1..(n - 1) : jvs[i] = ivs[i]
    <3>1. \A i \in 1..(n - 1) : ivs[i] \in IvRec
      BY <1>3, <1>7
    <3>2. /\ SubSeq(ivs, 1, n - 1) \in Seq(IvRec)
          /\ Len(SubSeq(ivs, 1, n - 1)) = IF 1 <= n - 1 THEN n - 1 - 1 + 1 ELSE 0
          /\ \A i \in 1..(n - 1 - 1 + 1) : SubSeq(ivs, 1, n - 1)[i] = ivs[1 + i - 1]
      BY <1>7, <3>1, SubSeqProperties
    <3>3. n - 1 - 1 + 1 = n - 1 /\ \A i \in 1..(n - 1) : 1 + i - 1 = i
      BY <1>7
    <3>4. Len(SubSeq(ivs, 1, n - 1)) = n - 1
      BY <1>7, <3>2
    <3> QED BY <2>1, <3>2, <3>3, <3>4
  <2> HIDE DEF jvs
  <2>3. DOMAIN jvs = 1..(n - 1) /\ \A i \in 1..(n - 1) : i \in 1..n
    BY <1>7, <2>2, Ivs
  <2>4. Disjoint(jvs, cur)
    BY <1>3, <1>6, <1>7, <2>2, <2>3 DEF Disjoint
  <2>5. ChildOf(jvs, cur) = NoId
    <3>1. LiveIn(jvs, cur) = {}
      <4> SUFFICES ASSUME NEW i \in LiveIn(jvs, cur) PROVE FALSE
        OBVIOUS
      <4>1. i \in 1..(n - 1) /\ M!liveAt(jvs[i], cur)
        BY <2>3 DEF LiveIn
      <4>2. i \in LiveIn(ivs, cur)
        BY <1>7, <2>2, <2>3, <4>1 DEF LiveIn
      <4> QED BY <1>2, <1>7, <4>1, <4>2
    <3> QED BY <3>1, NoneLive
  <2>6. ASSUME NEW g \in Int, g < cur PROVE ChildOf(jvs, g) = ChildOf(ivs, g)
    <3>1. ~M!liveAt(ivs[n], g)
      BY <1>1, <1>9, <2>6 DEF M!liveAt
    <3>2. LiveIn(jvs, g) = LiveIn(ivs, g)
      BY <1>7, <1>8, <2>2, <2>3, <3>1 DEF LiveIn
    <3>3. \A i \in LiveIn(ivs, g) : jvs[i].child = ivs[i].child
      BY <2>2, <2>3, <3>2 DEF LiveIn
    <3> QED BY <1>1, <2>2, <2>4, <3>2, <3>3, SameLive
  <2> QED BY <2>2, <2>4, <2>5, <2>6 DEF jvs
<1>10. CASE ivs[n].born # cur
  <2> DEFINE v == [ivs[n] EXCEPT !.dead = cur]
  <2>1. v \in IvRec /\ v.born = ivs[n].born /\ v.dead = cur /\ v.child = ivs[n].child
    <3>1. ivs[n] \in IvRec
      BY <1>3, <1>7
    <3> QED BY <3>1 DEF IvRec
  <2>2. jvs = [ivs EXCEPT ![n] = v]
    BY <1>10 DEF Unbound, n
  <2> HIDE DEF v
  <2>3. /\ jvs \in Seq(IvRec) /\ Len(jvs) = n
        /\ \A i \in 1..n : jvs[i] = IF i = n THEN v ELSE ivs[i]
    BY <1>7, <2>1, <2>2, ExceptSeq
  <2> HIDE DEF jvs
  <2>4. DOMAIN jvs = 1..n /\ ivs[n].born < cur /\ ivs[n].born \in Int
    BY <1>1, <1>3, <1>4, <1>7, <1>10, <2>3, Ivs
  <2>5. Disjoint(jvs, cur)
    <3>1. \A i \in 1..n : /\ jvs[i].born <= cur
                          /\ jvs[i].dead # 0 => jvs[i].born < jvs[i].dead /\ jvs[i].dead <= cur
      BY <1>1, <1>3, <1>7, <2>1, <2>3, <2>4
    <3>2. ASSUME NEW i \in 1..n, NEW j \in 1..n, i < j
          PROVE  jvs[i].dead # 0 /\ jvs[i].dead <= jvs[j].born
      <4>1. ivs[i].dead # 0 /\ ivs[i].dead <= ivs[j].born
        BY <1>6, <1>7, <3>2
      <4>2. jvs[i] = ivs[i] /\ jvs[j].born = ivs[j].born
        BY <1>7, <2>1, <2>3, <3>2
      <4> QED BY <4>1, <4>2
    <3> QED BY <2>3, <3>1, <3>2 DEF Disjoint
  <2>6. ChildOf(jvs, cur) = NoId
    <3>1. LiveIn(jvs, cur) = {}
      <4> SUFFICES ASSUME NEW i \in LiveIn(jvs, cur) PROVE FALSE
        OBVIOUS
      <4>1. i \in 1..n /\ M!liveAt(jvs[i], cur)
        BY <2>4 DEF LiveIn
      <4>2. CASE i = n
        BY <1>1, <2>1, <2>3, <4>1, <4>2 DEF M!liveAt
      <4>3. CASE i # n
        <5>1. i \in LiveIn(ivs, cur)
          BY <1>7, <2>3, <4>1, <4>3 DEF LiveIn
        <5> QED BY <1>2, <4>3, <5>1
      <4> QED BY <4>2, <4>3
    <3> QED BY <3>1, NoneLive
  <2>7. ASSUME NEW g \in Int, g < cur PROVE ChildOf(jvs, g) = ChildOf(ivs, g)
    <3>1. M!liveAt(jvs[n], g) <=> M!liveAt(ivs[n], g)
      BY <1>1, <1>4, <1>7, <2>1, <2>3, <2>7 DEF M!liveAt
    <3>2. \A i \in 1..n : M!liveAt(jvs[i], g) <=> M!liveAt(ivs[i], g)
      BY <2>3, <3>1
    <3>3. LiveIn(jvs, g) = LiveIn(ivs, g)
      BY <1>7, <2>4, <3>2 DEF LiveIn
    <3>4. \A i \in LiveIn(ivs, g) : jvs[i].child = ivs[i].child
      BY <1>7, <2>1, <2>3 DEF LiveIn
    <3> QED BY <1>1, <2>3, <2>5, <3>3, <3>4, SameLive
  <2> QED BY <2>3, <2>5, <2>6, <2>7 DEF jvs
<1> QED BY <1>9, <1>10

-----------------------------------------------------------------------------
(* What the pieces of an operation do to the reference store. *)

\* The version that a write to the live view replaces, as liveVer hands it out.
LiveBase(m, id) == [m.nodes[id][Len(m.nodes[id])] EXCEPT !.snap = m.cur]

\* Field by field.
LEMMA MemFields ==
    ASSUME NEW m \in MemType
    PROVE  /\ m.nodes \in NodeLists /\ m.links \in LinkLists
           /\ m.changes \in Changes /\ m.snaps \in SUBSET (Snaps \X Times)
           /\ m.next \in 1..(MaxNode + 1) /\ m.cur \in Snaps /\ m.cur \in Int /\ m.clock \in Times
           /\ DOMAIN m.nodes = Ids /\ DOMAIN m.links = Ids \X Names
           /\ m.nodes \in [Ids -> Seq(VerRec)] /\ m.links \in [Ids \X Names -> Seq(IvRec)]
           /\ m.changes \in SUBSET (Snaps \X Ids)
           /\ \A id \in Ids : m.nodes[id] \in Seq(VerRec)
           /\ \A k \in Ids \X Names : m.links[k] \in Seq(IvRec)
<1>1. /\ m.nodes \in NodeLists /\ m.links \in LinkLists
      /\ m.changes \in Changes /\ m.snaps \in SUBSET (Snaps \X Times)
      /\ m.next \in 1..(MaxNode + 1) /\ m.cur \in Snaps /\ m.clock \in Times
  BY DEF MemType
<1>2. m.cur \in Int
  BY <1>1, BoundsAssumption DEF Snaps
<1> QED BY <1>1, <1>2 DEF NodeLists, LinkLists, Changes

\* The store with some of its fields replaced.
With(m, nodes, links, changes) ==
    [nodes |-> nodes, links |-> links, changes |-> changes, snaps |-> m.snaps,
     next |-> m.next, cur |-> m.cur, clock |-> m.clock]

\* The fields of a store with three of them replaced.
LEMMA WithFields ==
    ASSUME NEW m \in MemType, NEW nodes \in NodeLists,
           NEW links \in LinkLists, NEW changes \in Changes,
           NEW e, e = With(m, nodes, links, changes)
    PROVE  /\ e \in MemType
           /\ e.nodes = nodes /\ e.links = links /\ e.changes = changes
           /\ e.next = m.next /\ e.cur = m.cur /\ e.clock = m.clock /\ e.snaps = m.snaps
  BY DEF MemType, With

\* liveVer, and a write to what it hands out.
LEMMA LiveVerWrite ==
    ASSUME NEW m \in MemType, NEW id \in Ids, m.nodes[id] # <<>>
    PROVE  LET k  == M!liveVer(m, id)
               p  == Len(k.nodes[id])
           IN  /\ LiveBase(m, id) \in VerRec /\ k \in MemType
               /\ p \in 1..Len(k.nodes[id]) /\ k.nodes[id][p] = LiveBase(m, id)
               /\ \A v \in VerRec :
                    [k EXCEPT !.nodes[id] = [k.nodes[id] EXCEPT ![p] = v]] =
                        With(m, [m.nodes EXCEPT ![id] = Written(m.nodes[id], m.cur, v)], m.links, m.changes)
<1> DEFINE vs == m.nodes[id]
           last == vs[Len(vs)]
           base == [last EXCEPT !.snap = m.cur]
           k == M!liveVer(m, id)
           p == Len(k.nodes[id])
<1>1. vs \in Seq(VerRec) /\ m.cur \in Snaps /\ DOMAIN m.nodes = Ids /\ m.nodes \in [Ids -> Seq(VerRec)]
  BY MemFields
<1>2. Len(vs) \in Nat \ {0} /\ Len(vs) \in 1..Len(vs) /\ last \in VerRec
  BY <1>1, EmptySeq
<1>3. base \in VerRec
  BY <1>1, <1>2 DEF VerRec
<1>4. m = [nodes |-> m.nodes, links |-> m.links, changes |-> m.changes, snaps |-> m.snaps,
           next |-> m.next, cur |-> m.cur, clock |-> m.clock]
  BY DEF MemType
<1>5. CASE last.snap = m.cur
  <2>1. k = m
    BY <1>5 DEF M!liveVer
  <2>2. base = last
    BY <1>2, <1>5 DEF VerRec
  <2>3. ASSUME NEW v \in VerRec
        PROVE  [m EXCEPT !.nodes[id] = [vs EXCEPT ![Len(vs)] = v]] =
                   With(m, [m.nodes EXCEPT ![id] = Written(vs, m.cur, v)], m.links, m.changes)
    <3>1. Written(vs, m.cur, v) = [vs EXCEPT ![Len(vs)] = v]
      BY <1>5 DEF Written
    <3> DEFINE ws == [vs EXCEPT ![Len(vs)] = v]
    <3> HIDE DEF ws, vs
    <3>2. [m EXCEPT !.nodes[id] = ws] =
              With(m, [m.nodes EXCEPT ![id] = ws], m.links, m.changes)
      BY <1>4 DEF With
    <3> QED BY <3>1, <3>2 DEF ws
  <2> QED BY <1>2, <1>3, <2>1, <2>2, <2>3 DEF LiveBase
<1>6. CASE last.snap # m.cur
  <2> DEFINE ks == Append(vs, base)
  <2>1. k = [m EXCEPT !.nodes[id] = ks]
    BY <1>6 DEF M!liveVer
  <2>2. ks \in Seq(VerRec) /\ Len(ks) = Len(vs) + 1 /\ ks[Len(vs) + 1] = base
    BY <1>1, <1>3, AppendProperties
  <2>3. ASSUME NEW v \in VerRec
        PROVE  [ks EXCEPT ![Len(vs) + 1] = v] = Written(vs, m.cur, v)
    <3>1. Written(vs, m.cur, v) = Append(vs, v)
      BY <1>6 DEF Written
    <3>2. /\ Append(vs, v) \in Seq(VerRec) /\ Len(Append(vs, v)) = Len(vs) + 1
          /\ Append(vs, v)[Len(vs) + 1] = v
          /\ \A i \in 1..Len(vs) : Append(vs, v)[i] = vs[i]
      BY <1>1, AppendProperties
    <3>3. \A i \in 1..Len(vs) : ks[i] = vs[i]
      BY <1>1, <1>3, AppendProperties
    <3> HIDE DEF ks, base, last
    <3>4. Len(vs) + 1 \in 1..Len(ks)
      BY <1>2, <2>2
    <3> DEFINE ws == [ks EXCEPT ![Len(vs) + 1] = v]
               us == Append(vs, v)
    <3>5. /\ ws \in Seq(VerRec) /\ Len(ws) = Len(vs) + 1
          /\ \A i \in 1..(Len(vs) + 1) : ws[i] = IF i = Len(vs) + 1 THEN v ELSE ks[i]
      BY <2>2, <3>4, ExceptSeq
    <3> HIDE DEF ws, us
    <3>6. \A i \in 1..Len(ws) : ws[i] = us[i]
      <4>1. \A i \in 1..(Len(vs) + 1) : i = Len(vs) + 1 \/ i \in 1..Len(vs)
        BY <1>2
      <4> QED BY <3>2, <3>3, <3>5, <4>1 DEF us
    <3>7. ws = us
      <4>1. us \in Seq(VerRec) /\ Len(us) = Len(ws)
        BY <3>2, <3>5 DEF us
      <4> QED BY <3>5, <3>6, <4>1, SeqEqual
    <3> QED BY <3>1, <3>7 DEF ws, us
  <2> HIDE DEF ks, base
  <2>4. k.nodes[id] = ks /\ p = Len(vs) + 1
    BY <1>1, <1>4, <2>1, <2>2
  <2>5. ASSUME NEW v \in VerRec
        PROVE  [k EXCEPT !.nodes[id] = [k.nodes[id] EXCEPT ![p] = v]] =
                   With(m, [m.nodes EXCEPT ![id] = Written(vs, m.cur, v)], m.links, m.changes)
    <3> DEFINE ws == Written(vs, m.cur, v)
    <3>1. [k.nodes[id] EXCEPT ![p] = v] = ws
      BY <2>3, <2>4
    <3> HIDE DEF ws, vs
    <3>2. [k EXCEPT !.nodes[id] = ws] = With(m, [m.nodes EXCEPT ![id] = ws], m.links, m.changes)
      <4>1. [[m.nodes EXCEPT ![id] = ks] EXCEPT ![id] = ws] = [m.nodes EXCEPT ![id] = ws]
        BY <1>1
      <4>2. k = With(m, [m.nodes EXCEPT ![id] = ks], m.links, m.changes)
        BY <1>4, <2>1 DEF With
      <4> HIDE DEF k
      <4>3. [k EXCEPT !.nodes[id] = ws] =
                With(m, [[m.nodes EXCEPT ![id] = ks] EXCEPT ![id] = ws], m.links, m.changes)
        BY <4>2 DEF With
      <4> QED BY <4>1, <4>3
    <3> HIDE DEF k, p
    <3> QED BY <3>1, <3>2 DEF ws
  <2>6. base = LiveBase(m, id)
    BY DEF LiveBase, base
  <2>7. LiveBase(m, id) \in VerRec /\ p \in 1..Len(k.nodes[id]) /\ k.nodes[id][p] = LiveBase(m, id)
    BY <1>2, <1>3, <2>2, <2>4, <2>6
  <2>8. k \in MemType
    <3>1. [m.nodes EXCEPT ![id] = ks] \in NodeLists
      BY <1>1, <2>2 DEF NodeLists
    <3> QED BY <2>1, <3>1 DEF MemType
  <2> HIDE DEF last
  <2> QED BY <2>5, <2>7, <2>8
<1> QED BY <1>5, <1>6

\* Nothing that is read below the current snapshot has changed.
SameBelow(m, e) ==
    \A g \in Int : g < m.cur =>
        \A id \in Ids : /\ M!effR(e, id, g) = M!effR(m, id, g)
                        /\ \A n \in Names : M!childAt(e, id, n, g) = M!childAt(m, id, n, g)

SameCounters(m, e) ==
    e.next = m.next /\ e.cur = m.cur /\ e.clock = m.clock /\ e.snaps = m.snaps

\* The live version of a node as it is read.
LEMMA LiveRead ==
    ASSUME NEW m, MemInv(m), NEW id \in Ids
    PROVE  /\ M!effR(m, id, m.cur) = M!NoVer <=> m.nodes[id] = <<>>
           /\ m.nodes[id] # <<>> => /\ M!effR(m, id, m.cur) \in VerRec
                                    /\ LiveBase(m, id) = [M!effR(m, id, m.cur) EXCEPT !.snap = m.cur]
<1>1. m.nodes[id] \in Seq(VerRec) /\ m.cur \in Int /\ Ascending(m.nodes[id], m.cur)
  BY MemFields DEF MemInv
<1>2. M!effR(m, id, m.cur) = IF m.nodes[id] = <<>> THEN M!NoVer ELSE m.nodes[id][Len(m.nodes[id])]
  BY <1>1, EffNewest, EffIsEffOf
<1>3. m.nodes[id] # <<>> => m.nodes[id][Len(m.nodes[id])] \in VerRec
  <2>1. m.nodes[id] # <<>> => Len(m.nodes[id]) \in 1..Len(m.nodes[id])
    BY <1>1, EmptySeq
  <2> QED BY <1>1, <2>1, Vers
<1> QED BY <1>2, <1>3, NoVerIsNone DEF LiveBase

\* A node written in the live view, with entries changed at the same time.
LEMMA MemWritten ==
    ASSUME NEW m, MemInv(m), NEW id \in Ids, m.nodes[id] # <<>>, NEW v \in VerRec, v.snap = m.cur,
           NEW ls \in LinkLists, \A k \in Ids \X Names : Disjoint(ls[k], m.cur),
           NEW ch \in Changes, m.changes \subseteq ch, <<m.cur, id>> \in ch,
           NEW e, e = With(m, [m.nodes EXCEPT ![id] = Written(m.nodes[id], m.cur, v)], ls, ch)
    PROVE  /\ MemInv(e) /\ SameCounters(m, e) /\ e.links = ls
           /\ M!effR(e, id, m.cur) = v
           /\ \A i \in Ids, g \in Int : i # id \/ g < m.cur => M!effR(e, i, g) = M!effR(m, i, g)
<1> DEFINE ws == Written(m.nodes[id], m.cur, v)
           ns == [m.nodes EXCEPT ![id] = ws]
<1>1. /\ m \in MemType /\ m.nodes \in NodeLists /\ m.cur \in Snaps /\ m.cur \in Int
      /\ m.nodes[id] \in Seq(VerRec) /\ Ascending(m.nodes[id], m.cur)
  BY MemFields DEF MemInv
<1>2. /\ ws \in Seq(VerRec) /\ Ascending(ws, m.cur) /\ EffOf(ws, m.cur) = v
      /\ \A g \in Int : g < m.cur => EffOf(ws, g) = EffOf(m.nodes[id], g)
      /\ \A j \in 1..Len(ws) : ws[j].snap = m.cur
                               \/ \E i \in 1..Len(m.nodes[id]) : ws[j].snap = m.nodes[id][i].snap
  BY <1>1, WrittenList, ZenonT(60)
<1> HIDE DEF ws
<1>3. ns \in NodeLists /\ ns[id] = ws /\ \A i \in Ids : i # id => ns[i] = m.nodes[i]
  BY <1>1, <1>2 DEF NodeLists
<1>4. e = With(m, ns, ls, ch)
  BY DEF ws
<1> HIDE DEF ns
<1>5. /\ e \in MemType /\ e.nodes = ns /\ e.links = ls /\ e.changes = ch
      /\ e.next = m.next /\ e.cur = m.cur /\ e.clock = m.clock /\ e.snaps = m.snaps
  BY <1>1, <1>3, <1>4, WithFields
<1>6. \A i \in Ids : Ascending(e.nodes[i], e.cur)
  BY <1>2, <1>3, <1>5 DEF MemInv
<1>7. VersionsIndexed(e)
  <2> SUFFICES ASSUME NEW i \in Ids, NEW j \in 1..Len(ns[i]) PROVE <<ns[i][j].snap, i>> \in ch
    BY <1>5 DEF VersionsIndexed
  <2>1. \A q \in 1..Len(m.nodes[i]) : <<m.nodes[i][q].snap, i>> \in ch
    BY DEF MemInv, VersionsIndexed
  <2>2. CASE i # id
    BY <1>3, <2>1, <2>2
  <2>3. CASE i = id
    <3>1. ws[j].snap = m.cur \/ \E q \in 1..Len(m.nodes[id]) : ws[j].snap = m.nodes[id][q].snap
      BY <1>2, <1>3, <2>3
    <3> QED BY <1>3, <2>1, <2>3, <3>1
  <2> QED BY <2>2, <2>3
<1>8. MemInv(e)
  BY <1>5, <1>6, <1>7 DEF MemInv
<1>9. M!effR(e, id, m.cur) = v
  BY <1>2, <1>3, <1>5, EffIsEffOf
<1>10. ASSUME NEW i \in Ids, NEW g \in Int, i # id \/ g < m.cur
       PROVE  M!effR(e, i, g) = M!effR(m, i, g)
  <2>1. EffOf(ns[i], g) = EffOf(m.nodes[i], g)
    BY <1>2, <1>3, <1>10
  <2> QED BY <1>5, <2>1, EffIsEffOf
<1> QED BY <1>5, <1>8, <1>9, <1>10 DEF SameCounters

\* The version copied to snapshot c with another link count.
Relinked(v, c, step) == [v EXCEPT !.snap = c, !.nlink = @ + step]

\* A version whose link count moved by one, which is still a version.
LEMMA NlinkChanged ==
    ASSUME NEW v \in VerRec, NEW c \in Snaps, NEW step \in Int,
           NEW w, w = Relinked(v, c, step)
    PROVE  /\ w \in VerRec /\ w.type = v.type /\ w.nlink = v.nlink + step /\ w.data = v.data
           /\ w.attr = v.attr /\ w.stamp = v.stamp
<1>1. v.nlink + step \in Int
  BY DEF VerRec
<1>2. w = [v EXCEPT !.snap = c, !.nlink = v.nlink + step]
  BY DEF VerRec, Relinked
<1> QED BY <1>1, <1>2 DEF VerRec

\* The reference store after an entry of dir was made to lead to target, and the link
\* count of child changed by step.
MemEdited(m, e, dir, name, target, child, step) ==
    /\ MemInv(e) /\ SameCounters(m, e) /\ SameBelow(m, e)
    /\ M!effR(e, child, m.cur) = Relinked(M!effR(m, child, m.cur), m.cur, step)
    /\ \A i \in Ids : i # child => M!effR(e, i, m.cur) = M!effR(m, i, m.cur)
    /\ \A a \in Ids, b \in Names :
           M!childAt(e, a, b, m.cur) = IF a = dir /\ b = name THEN target ELSE M!childAt(m, a, b, m.cur)

\* An entry and a link count changed at once.
LEMMA MemEdit ==
    ASSUME NEW m, MemInv(m), NEW dir \in Ids, NEW name \in Names, NEW child \in Ids,
           m.nodes[child] # <<>>, NEW step \in Int, NEW target,
           NEW jvs \in Seq(IvRec), Disjoint(jvs, m.cur), ChildOf(jvs, m.cur) = target,
           \A g \in Int : g < m.cur => ChildOf(jvs, g) = ChildOf(m.links[<<dir, name>>], g)
    PROVE  \A m1, e : m1 = [m EXCEPT !.links[<<dir, name>>] = jvs]
                      /\ e = M!touch(M!touch(M!addNlink(m1, child, step), dir), child)
                      => MemEdited(m, e, dir, name, target, child, step)
<1>0. SUFFICES ASSUME NEW m1, NEW e, m1 = [m EXCEPT !.links[<<dir, name>>] = jvs],
                      e = M!touch(M!touch(M!addNlink(m1, child, step), dir), child)
               PROVE  MemEdited(m, e, dir, name, target, child, step)
  OBVIOUS
<1> DEFINE key == <<dir, name>>
           ls == [m.links EXCEPT ![key] = jvs]
           k  == M!liveVer(m1, child)
           p  == Len(k.nodes[child])
           b  == LiveBase(m1, child)
           v  == [b EXCEPT !.nlink = b.nlink + step]
           ns == [m.nodes EXCEPT ![child] = Written(m.nodes[child], m.cur, v)]
           ch == (m.changes \cup {<<m.cur, dir>>}) \cup {<<m.cur, child>>}
           f  == M!addNlink(m1, child, step)
<1>1. /\ m \in MemType /\ m.links \in LinkLists /\ m.cur \in Snaps /\ m.cur \in Int
      /\ m.changes \in Changes /\ DOMAIN m.links = Ids \X Names
      /\ m.nodes \in NodeLists /\ m.nodes[child] \in Seq(VerRec)
  BY MemFields DEF MemInv
<1>2. m = [nodes |-> m.nodes, links |-> m.links, changes |-> m.changes, snaps |-> m.snaps,
           next |-> m.next, cur |-> m.cur, clock |-> m.clock]
  BY <1>1 DEF MemType
<1>3. /\ ls \in LinkLists /\ ls[key] = jvs
      /\ \A x \in Ids \X Names : x # key => ls[x] = m.links[x]
  BY <1>1 DEF LinkLists
<1> HIDE DEF ls
<1>4. m1 = With(m, m.nodes, ls, m.changes)
  BY <1>0, <1>2 DEF With, ls
<1>5. /\ m1 \in MemType /\ m1.nodes = m.nodes /\ m1.links = ls /\ m1.changes = m.changes
      /\ m1.next = m.next /\ m1.cur = m.cur /\ m1.clock = m.clock /\ m1.snaps = m.snaps
  BY <1>1, <1>3, <1>4, WithFields
<1>6. /\ b \in VerRec /\ p \in 1..Len(k.nodes[child]) /\ k.nodes[child][p] = b
      /\ \A w \in VerRec :
            [k EXCEPT !.nodes[child] = [k.nodes[child] EXCEPT ![p] = w]] =
                With(m1, [m1.nodes EXCEPT ![child] = Written(m1.nodes[child], m1.cur, w)], m1.links, m1.changes)
  BY <1>5, LiveVerWrite
<1>7. f = [k EXCEPT !.nodes[child] = [k.nodes[child] EXCEPT ![p] = v]]
  <2>1. f = [k EXCEPT !.nodes[child][p].nlink = k.nodes[child][p].nlink + step]
    BY DEF M!addNlink
  <2> HIDE DEF k, p, b, f
  <2>2. f = [k EXCEPT !.nodes[child] = [k.nodes[child] EXCEPT ![p] = [k.nodes[child][p] EXCEPT !.nlink = k.nodes[child][p].nlink + step]]]
    BY <2>1
  <2> QED BY <1>6, <2>2
<1>8. v \in VerRec /\ v.snap = m.cur
  <2>1. b.snap = m.cur
    <3>1. m.nodes[child][Len(m.nodes[child])] \in VerRec
      BY <1>1, EmptySeq, Vers
    <3> QED BY <1>5, <3>1 DEF LiveBase, VerRec
  <2> HIDE DEF b
  <2> QED BY <1>6, <2>1 DEF VerRec
<1>9. v = [M!effR(m, child, m.cur) EXCEPT !.snap = m.cur, !.nlink = @ + step]
  <2>1. b = LiveBase(m, child)
    BY <1>5 DEF LiveBase
  <2>2. M!effR(m, child, m.cur) \in VerRec /\ b = [M!effR(m, child, m.cur) EXCEPT !.snap = m.cur]
    BY <2>1, LiveRead
  <2> HIDE DEF b
  <2> QED BY <2>2 DEF VerRec
<1> HIDE DEF b, k, p, v, f
<1>10. f = With(m1, ns, ls, m.changes)
  BY <1>5, <1>6, <1>7, <1>8
<1>11. /\ ns \in NodeLists /\ ch \in Changes
  <2>1. Written(m.nodes[child], m.cur, v) \in Seq(VerRec)
    BY <1>1, <1>8, WrittenList DEF MemInv
  <2>2. <<m.cur, dir>> \in Snaps \X Ids /\ <<m.cur, child>> \in Snaps \X Ids
    BY <1>1
  <2> QED BY <1>1, <2>1, <2>2 DEF NodeLists, Changes
<1> HIDE DEF ns, ch
<1>12. e = With(m, ns, ls, ch)
  <2>1. f = [nodes |-> ns, links |-> ls, changes |-> m.changes, snaps |-> m.snaps,
             next |-> m.next, cur |-> m.cur, clock |-> m.clock]
    BY <1>2, <1>4, <1>10 DEF With
  <2> DEFINE h == M!touch(f, dir)
  <2>2. h = [f EXCEPT !.changes = m.changes \cup {<<m.cur, dir>>}]
    BY <2>1 DEF M!touch
  <2>3. e = M!touch(h, child)
    BY <1>0 DEF f
  <2> HIDE DEF h
  <2>4. e = [f EXCEPT !.changes = ch]
    BY <2>1, <2>2, <2>3 DEF M!touch, ch
  <2>5. e = [nodes |-> ns, links |-> ls, changes |-> ch, snaps |-> m.snaps,
             next |-> m.next, cur |-> m.cur, clock |-> m.clock]
    BY <2>1, <2>4
  <2> QED BY <2>5 DEF With
<1>13. \A x \in Ids \X Names : Disjoint(ls[x], m.cur)
  BY <1>3 DEF MemInv
<1>14. /\ MemInv(e) /\ SameCounters(m, e) /\ e.links = ls
       /\ M!effR(e, child, m.cur) = v
       /\ \A i \in Ids, g \in Int : i # child \/ g < m.cur => M!effR(e, i, g) = M!effR(m, i, g)
  <2>1. e = With(m, [m.nodes EXCEPT ![child] = Written(m.nodes[child], m.cur, v)], ls, ch)
    BY <1>12 DEF ns
  <2>2. m.changes \subseteq ch /\ <<m.cur, child>> \in ch
    BY DEF ch
  <2> QED BY <1>3, <1>8, <1>11, <1>13, <2>1, <2>2, MemWritten
<1>15. ASSUME NEW x \in Ids, NEW n \in Names, NEW g \in Int, g < m.cur
       PROVE  M!childAt(e, x, n, g) = M!childAt(m, x, n, g)
  <2>1. ChildOf(ls[<<x, n>>], g) = ChildOf(m.links[<<x, n>>], g)
    BY <1>3, <1>15
  <2> QED BY <1>14, <2>1, ChildIsChildOf
<1>16. ASSUME NEW x \in Ids, NEW n \in Names
       PROVE  M!childAt(e, x, n, m.cur) = IF x = dir /\ n = name THEN target ELSE M!childAt(m, x, n, m.cur)
  <2>1. ls[<<x, n>>] = IF x = dir /\ n = name THEN jvs ELSE m.links[<<x, n>>]
    BY <1>3
  <2> QED BY <1>14, <2>1, ChildIsChildOf
<1>17. SameBelow(m, e)
  BY <1>14, <1>15 DEF SameBelow
<1>18. \A i \in Ids : i # child => M!effR(e, i, m.cur) = M!effR(m, i, m.cur)
  BY <1>1, <1>14
<1> QED BY <1>9, <1>14, <1>16, <1>17, <1>18 DEF MemEdited, Relinked

\* MemStore::link is one edit of the live view.
LEMMA MemLinked ==
    ASSUME NEW m, MemInv(m), NEW dir \in Ids, NEW name \in Names, NEW child \in Ids,
           m.nodes[child] # <<>>, M!childAt(m, dir, name, m.cur) = NoId
    PROVE  MemEdited(m, M!linked(m, dir, name, child), dir, name, child, child, 1)
<1> DEFINE ivs == m.links[<<dir, name>>]
           jvs == Append(ivs, [born |-> m.cur, dead |-> 0, child |-> child])
<1>1. ivs \in Seq(IvRec) /\ m.cur \in Snaps /\ m.cur \in Int /\ Disjoint(ivs, m.cur)
  <2>1. <<dir, name>> \in Ids \X Names
    OBVIOUS
  <2> QED BY <2>1, MemFields DEF MemInv
<1>2. LiveIn(ivs, m.cur) = {}
  BY <1>1, ChildIff, ChildIsChildOf
<1>3. /\ jvs \in Seq(IvRec) /\ Disjoint(jvs, m.cur) /\ ChildOf(jvs, m.cur) = child
      /\ \A g \in Int : g < m.cur => ChildOf(jvs, g) = ChildOf(ivs, g)
  BY <1>1, <1>2, BoundList, ZenonT(60)
<1> DEFINE m1 == [m EXCEPT !.links[<<dir, name>>] = jvs]
           e  == M!linked(m, dir, name, child)
<1>4. e = M!touch(M!touch(M!addNlink(m1, child, 1), dir), child)
  BY DEF M!linked
<1>5. m1 = [m EXCEPT !.links[<<dir, name>>] = jvs] /\ 1 \in Int
  OBVIOUS
<1> HIDE DEF jvs, m1, e
<1>6. MemEdited(m, e, dir, name, child, child, 1)
  BY <1>3, <1>4, <1>5, MemEdit
<1> QED BY <1>6 DEF e

\* MemStore::unlink is one edit of the live view.
LEMMA MemUnlinked ==
    ASSUME NEW m, MemInv(m), NEW dir \in Ids, NEW name \in Names,
           NEW c \in Ids, c = M!childAt(m, dir, name, m.cur), m.nodes[c] # <<>>
    PROVE  MemEdited(m, M!unlinked(m, dir, name), dir, name, NoId, c, -1)
<1> DEFINE ivs == m.links[<<dir, name>>]
           i   == FirstIn(ivs, m.cur)
           jvs == Unbound(ivs, m.cur)
<1>1. ivs \in Seq(IvRec) /\ m.cur \in Snaps /\ m.cur \in Int /\ Disjoint(ivs, m.cur)
  <2>1. <<dir, name>> \in Ids \X Names
    OBVIOUS
  <2> QED BY <2>1, MemFields DEF MemInv
<1>2. c = ChildOf(ivs, m.cur) /\ c # NoId /\ M!liveIv(m, <<dir, name>>, m.cur) = i
  BY ChildIsChildOf, BoundsAssumption DEF Ids, NoId
<1>3. ivs[i].child = c
  BY <1>2 DEF ChildOf
<1>4. /\ jvs \in Seq(IvRec) /\ Disjoint(jvs, m.cur) /\ ChildOf(jvs, m.cur) = NoId
      /\ \A g \in Int : g < m.cur => ChildOf(jvs, g) = ChildOf(ivs, g)
  BY <1>1, <1>2, UnboundList
<1> DEFINE m1 == [m EXCEPT !.links[<<dir, name>>] = jvs]
           e  == M!unlinked(m, dir, name)
<1>5. e = M!touch(M!touch(M!addNlink(m1, c, -1), dir), c)
  BY <1>2, <1>3 DEF M!unlinked, Unbound
<1>6. m1 = [m EXCEPT !.links[<<dir, name>>] = jvs] /\ -1 \in Int
  OBVIOUS
<1> HIDE DEF jvs, m1, e
<1>7. MemEdited(m, e, dir, name, NoId, c, -1)
  BY <1>4, <1>5, <1>6, MemEdit
<1> QED BY <1>7 DEF e

\* The reference store after node id was rewritten as v.
MemSet(m, e, id, v) ==
    /\ MemInv(e) /\ SameCounters(m, e) /\ SameBelow(m, e)
    /\ M!effR(e, id, m.cur) = v
    /\ \A i \in Ids : i # id => M!effR(e, i, m.cur) = M!effR(m, i, m.cur)
    /\ \A a \in Ids, b \in Names : M!childAt(e, a, b, m.cur) = M!childAt(m, a, b, m.cur)

\* A write to the live version is one change of the live view.
LEMMA MemRewritten ==
    ASSUME NEW m, MemInv(m), NEW id \in Ids, m.nodes[id] # <<>>,
           NEW v \in VerRec, v.snap = m.cur
    PROVE  \A k, e :
             k = M!liveVer(m, id)
             /\ e = M!touch([k EXCEPT !.nodes[id] = [k.nodes[id] EXCEPT ![Len(k.nodes[id])] = v]], id)
             => MemSet(m, e, id, v)
<1>0. SUFFICES ASSUME NEW k, NEW e, k = M!liveVer(m, id),
                      e = M!touch([k EXCEPT !.nodes[id] = [k.nodes[id] EXCEPT ![Len(k.nodes[id])] = v]], id)
               PROVE  MemSet(m, e, id, v)
  OBVIOUS
<1> DEFINE ns == [m.nodes EXCEPT ![id] = Written(m.nodes[id], m.cur, v)]
           ch == m.changes \cup {<<m.cur, id>>}
           f  == [k EXCEPT !.nodes[id] = [k.nodes[id] EXCEPT ![Len(k.nodes[id])] = v]]
<1>1. /\ m \in MemType /\ m.links \in LinkLists /\ m.cur \in Snaps /\ m.cur \in Int
      /\ m.changes \in SUBSET (Snaps \X Ids)
  BY MemFields DEF MemInv
<1>2. m = [nodes |-> m.nodes, links |-> m.links, changes |-> m.changes, snaps |-> m.snaps,
           next |-> m.next, cur |-> m.cur, clock |-> m.clock]
  BY <1>1 DEF MemType
<1>3. f = With(m, ns, m.links, m.changes)
  BY <1>0, <1>1, LiveVerWrite
<1>4. e = M!touch(f, id)
  BY <1>0
<1> HIDE DEF f, ns, ch
<1>5. e = With(m, ns, m.links, ch)
  <2>1. f = [nodes |-> ns, links |-> m.links, changes |-> m.changes, snaps |-> m.snaps,
             next |-> m.next, cur |-> m.cur, clock |-> m.clock]
    BY <1>2, <1>3 DEF With
  <2>2. e = [f EXCEPT !.changes = ch]
    BY <1>4, <2>1 DEF M!touch, ch
  <2>3. e = [nodes |-> ns, links |-> m.links, changes |-> ch, snaps |-> m.snaps,
             next |-> m.next, cur |-> m.cur, clock |-> m.clock]
    BY <2>1, <2>2
  <2> QED BY <2>3 DEF With
<1>6. ch \in Changes /\ m.changes \subseteq ch /\ <<m.cur, id>> \in ch
  BY <1>1 DEF Changes, ch
<1>7. \A x \in Ids \X Names : Disjoint(m.links[x], m.cur)
  BY DEF MemInv
<1>8. e = With(m, [m.nodes EXCEPT ![id] = Written(m.nodes[id], m.cur, v)], m.links, ch)
  BY <1>5 DEF ns
<1>9. /\ MemInv(e) /\ SameCounters(m, e) /\ e.links = m.links
      /\ M!effR(e, id, m.cur) = v
      /\ \A i \in Ids, g \in Int : i # id \/ g < m.cur => M!effR(e, i, g) = M!effR(m, i, g)
  <2> DEFINE ls == m.links
  <2>1. /\ ls \in LinkLists /\ \A x \in Ids \X Names : Disjoint(ls[x], m.cur)
        /\ e = With(m, [m.nodes EXCEPT ![id] = Written(m.nodes[id], m.cur, v)], ls, ch)
    BY <1>1, <1>7, <1>8
  <2> HIDE DEF ls
  <2>2. /\ MemInv(e) /\ SameCounters(m, e) /\ e.links = ls
        /\ M!effR(e, id, m.cur) = v
        /\ \A i \in Ids, g \in Int : i # id \/ g < m.cur => M!effR(e, i, g) = M!effR(m, i, g)
    BY <1>6, <2>1, MemWritten
  <2> QED BY <2>2 DEF ls
<1>10. ASSUME NEW g, NEW a, NEW b PROVE M!childAt(e, a, b, g) = M!childAt(m, a, b, g)
  <2>1. /\ M!childAt(e, a, b, g) = ChildOf(e.links[<<a, b>>], g)
        /\ M!childAt(m, a, b, g) = ChildOf(m.links[<<a, b>>], g)
    BY ChildIsChildOf
  <2> QED BY <1>9, <2>1
<1>11. SameBelow(m, e)
  BY <1>9, <1>10 DEF SameBelow
<1> QED BY <1>1, <1>9, <1>10, <1>11 DEF MemSet

\* setContent and the other setters, through the version liveVer hands out.
LEMMA MemSetters ==
    ASSUME NEW m, MemInv(m), NEW id \in Ids, m.nodes[id] # <<>>, NEW k, k = M!liveVer(m, id),
           NEW r, r = M!effR(m, id, m.cur)
    PROVE  /\ \A d \in Data :
                MemSet(m, M!touch([k EXCEPT !.nodes[id][Len(k.nodes[id])].data = d], id), id,
                       [r EXCEPT !.snap = m.cur, !.data = d])
           /\ \A at, st \in Times :
                MemSet(m, M!touch([k EXCEPT !.nodes[id][Len(k.nodes[id])].attr = at,
                                            !.nodes[id][Len(k.nodes[id])].stamp = st], id), id,
                       [r EXCEPT !.snap = m.cur, !.attr = at, !.stamp = st])
<1> DEFINE p == Len(k.nodes[id])
           b == LiveBase(m, id)
<1>1. m \in MemType /\ m.cur \in Snaps
  BY MemFields DEF MemInv
<1>2. b \in VerRec /\ p \in 1..Len(k.nodes[id]) /\ k.nodes[id][p] = b
  BY <1>1, LiveVerWrite
<1>3. r \in VerRec /\ b = [r EXCEPT !.snap = m.cur]
  BY LiveRead
<1> HIDE DEF b
<1>4. ASSUME NEW d \in Data
      PROVE  MemSet(m, M!touch([k EXCEPT !.nodes[id][p].data = d], id), id,
                    [r EXCEPT !.snap = m.cur, !.data = d])
  <2> DEFINE v == [r EXCEPT !.snap = m.cur, !.data = d]
             e == M!touch([k EXCEPT !.nodes[id][p].data = d], id)
  <2>1. v \in VerRec /\ v.snap = m.cur /\ v = [b EXCEPT !.data = d]
    BY <1>1, <1>3 DEF VerRec
  <2> HIDE DEF v, p
  <2>2. [k EXCEPT !.nodes[id][p].data = d] =
            [k EXCEPT !.nodes[id] = [k.nodes[id] EXCEPT ![p] = [k.nodes[id][p] EXCEPT !.data = d]]]
    OBVIOUS
  <2>3. [k EXCEPT !.nodes[id][p].data = d] = [k EXCEPT !.nodes[id] = [k.nodes[id] EXCEPT ![p] = v]]
    BY <1>2, <2>1, <2>2
  <2>4. e = M!touch([k EXCEPT !.nodes[id] = [k.nodes[id] EXCEPT ![p] = v]], id)
    BY <2>3
  <2> HIDE DEF e
  <2>5. MemSet(m, e, id, v)
    BY <2>1, <2>4, MemRewritten DEF p
  <2> QED BY <2>5 DEF e, v
<1>5. ASSUME NEW at \in Times, NEW st \in Times
      PROVE  MemSet(m, M!touch([k EXCEPT !.nodes[id][p].attr = at, !.nodes[id][p].stamp = st], id), id,
                    [r EXCEPT !.snap = m.cur, !.attr = at, !.stamp = st])
  <2> DEFINE v == [r EXCEPT !.snap = m.cur, !.attr = at, !.stamp = st]
             w == [b EXCEPT !.attr = at]
             f == [k EXCEPT !.nodes[id][p].attr = at, !.nodes[id][p].stamp = st]
             e == M!touch(f, id)
  <2>1. v \in VerRec /\ v.snap = m.cur /\ v = [w EXCEPT !.stamp = st]
    BY <1>1, <1>3 DEF VerRec
  <2> HIDE DEF v, w
  <2>2. f = [k EXCEPT !.nodes[id] = [k.nodes[id] EXCEPT ![p] = v]]
    <3> DEFINE vs == k.nodes[id]
               k1 == [k EXCEPT !.nodes[id] = [vs EXCEPT ![p] = w]]
    <3> HIDE DEF p
    <3>1. f = [k1 EXCEPT !.nodes[id] = [k1.nodes[id] EXCEPT ![p] = [k1.nodes[id][p] EXCEPT !.stamp = st]]]
      BY <1>2 DEF w
    <3>2. k \in MemType /\ DOMAIN k.nodes = Ids /\ p \in DOMAIN vs
      <4>1. k \in MemType
        BY <1>1, LiveVerWrite
      <4>2. vs \in Seq(VerRec) /\ DOMAIN k.nodes = Ids
        BY <4>1, MemFields
      <4> QED BY <1>2, <4>1, <4>2
    <3>3. k = [nodes |-> k.nodes, links |-> k.links, changes |-> k.changes, snaps |-> k.snaps,
               next |-> k.next, cur |-> k.cur, clock |-> k.clock]
      BY <3>2 DEF MemType
    <3> DEFINE ws == [vs EXCEPT ![p] = w]
    <3>4. ws[p] = w /\ [ws EXCEPT ![p] = v] = [vs EXCEPT ![p] = v]
      BY <3>2
    <3> HIDE DEF vs, ws
    <3>5. k1 = [k EXCEPT !.nodes[id] = ws] /\ k1.nodes[id] = ws
      BY <3>2, <3>3 DEF ws
    <3> HIDE DEF k1, f
    <3>6. f = [k1 EXCEPT !.nodes[id] = [vs EXCEPT ![p] = v]]
      BY <2>1, <3>1, <3>4, <3>5
    <3> DEFINE us == [vs EXCEPT ![p] = v]
    <3> HIDE DEF us
    <3>7. [k1 EXCEPT !.nodes[id] = us] = [k EXCEPT !.nodes[id] = us]
      BY <3>2, <3>3, <3>5
    <3> QED BY <3>6, <3>7 DEF us, vs
  <2>3. e = M!touch([k EXCEPT !.nodes[id] = [k.nodes[id] EXCEPT ![p] = v]], id)
    BY <2>2
  <2> HIDE DEF e, f
  <2>4. MemSet(m, e, id, v)
    BY <2>1, <2>3, MemRewritten
  <2> QED BY <2>4 DEF e, f, v
<1> QED BY <1>4, <1>5

\* The store with other counters.
Counters(m, nodes, changes, snaps, next, cur, clock) ==
    [nodes |-> nodes, links |-> m.links, changes |-> changes, snaps |-> snaps,
     next |-> next, cur |-> cur, clock |-> clock]

\* The fields of a store with its counters replaced.
LEMMA CounterFields ==
    ASSUME NEW m \in MemType, NEW nodes \in NodeLists, NEW changes \in Changes,
           NEW snaps \in SUBSET (Snaps \X Times), NEW next \in 1..(MaxNode + 1),
           NEW cur \in Snaps, NEW clock \in Times,
           NEW e, e = Counters(m, nodes, changes, snaps, next, cur, clock)
    PROVE  /\ e \in MemType
           /\ e.nodes = nodes /\ e.links = m.links /\ e.changes = changes
           /\ e.next = next /\ e.cur = cur /\ e.clock = clock /\ e.snaps = snaps
  BY DEF MemType, Counters

\* The entries depend on the intervals only.
LEMMA SameLinks ==
    ASSUME NEW m, NEW e, e.links = m.links
    PROVE  \A a, b, g : M!childAt(e, a, b, g) = M!childAt(m, a, b, g)
<1> SUFFICES ASSUME NEW a, NEW b, NEW g PROVE M!childAt(e, a, b, g) = M!childAt(m, a, b, g)
  OBVIOUS
<1>1. /\ M!childAt(e, a, b, g) = ChildOf(e.links[<<a, b>>], g)
      /\ M!childAt(m, a, b, g) = ChildOf(m.links[<<a, b>>], g)
  BY ChildIsChildOf
<1> QED BY <1>1

\* The only version of a new node.
LEMMA OneVersion ==
    ASSUME NEW cur \in Snaps, NEW v \in VerRec, v.snap = cur
    PROVE  /\ <<v>> \in Seq(VerRec) /\ Len(<<v>>) = 1 /\ <<v>>[1] = v
           /\ Ascending(<<v>>, cur)
           /\ EffOf(<<v>>, cur) = v
           /\ \A g \in Int : g < cur => EffOf(<<v>>, g) = EffOf(<<>>, g)
<1> DEFINE ws == <<v>>
<1>1. ws \in Seq(VerRec) /\ Len(ws) = 1 /\ ws[1] = v
  OBVIOUS
<1>2. cur \in Int
  BY BoundsAssumption DEF Snaps
<1> HIDE DEF ws
<1>3. Ascending(ws, cur)
  BY <1>1, <1>2 DEF Ascending
<1>4. EffOf(ws, cur) = v
  BY <1>1, <1>2, <1>3, EffNewest
<1>5. ASSUME NEW g \in Int, g < cur PROVE EffOf(ws, g) = EffOf(<<>>, g)
  <2>1. UpTo(ws, g, 0) /\ 0 \in 0..Len(ws)
    BY <1>1, <1>2, <1>5 DEF UpTo
  <2>2. <<>> \in Seq(VerRec) /\ Len(<<>>) = 0
    OBVIOUS
  <2> DEFINE es == <<>>
  <2>3. es \in Seq(VerRec) /\ UpTo(es, g, 0) /\ 0 \in 0..Len(es)
    BY <2>2 DEF UpTo
  <2> HIDE DEF es
  <2>4. EffOf(ws, g) = M!NoVer /\ EffOf(es, g) = M!NoVer
    BY <1>1, <2>1, <2>3, EffAt
  <2> QED BY <2>4 DEF es
<1> QED BY <1>1, <1>3, <1>4, <1>5 DEF ws

\* mkdir, mkfile, symlink, mknod.
MemNew(m, e, v) ==
    /\ MemInv(e) /\ SameBelow(m, e)
    /\ e.next = m.next + 1 /\ e.cur = m.cur /\ e.clock = m.clock /\ e.snaps = m.snaps
    /\ M!effR(e, m.next, m.cur) = v
    /\ \A i \in Ids : i # m.next => M!effR(e, i, m.cur) = M!effR(m, i, m.cur)
    /\ \A a \in Ids, b \in Names : M!childAt(e, a, b, m.cur) = M!childAt(m, a, b, m.cur)

\* MemStore::alloc adds one node to the live view.
LEMMA MemAllocated ==
    ASSUME NEW m, MemInv(m), m.next \in Ids, m.nodes[m.next] = <<>>,
           NEW type \in Types, NEW data \in Data,
           NEW v, v = M!NodeVer(m.cur, type, 0, data, m.clock)
    PROVE  \A e : e = M!touch([m EXCEPT !.next = @ + 1, !.nodes[m.next] = <<v>>], m.next)
                  => MemNew(m, e, v)
<1>0. SUFFICES ASSUME NEW e, e = M!touch([m EXCEPT !.next = @ + 1, !.nodes[m.next] = <<v>>], m.next)
               PROVE  MemNew(m, e, v)
  OBVIOUS
<1> DEFINE id == m.next
           ws == <<v>>
           ns == [m.nodes EXCEPT ![id] = ws]
           ch == m.changes \cup {<<m.cur, id>>}
<1>1. /\ m \in MemType /\ m.nodes \in NodeLists /\ m.cur \in Snaps /\ m.cur \in Int
      /\ m.changes \in Changes /\ m.snaps \in SUBSET (Snaps \X Times) /\ m.clock \in Times
      /\ DOMAIN m.nodes = Ids
  BY MemFields DEF MemInv
<1>2. v \in VerRec /\ v.snap = m.cur
  BY <1>1 DEF M!NodeVer, VerRec
<1>3. /\ ws \in Seq(VerRec) /\ Len(ws) = 1 /\ ws[1] = v /\ Ascending(ws, m.cur)
      /\ EffOf(ws, m.cur) = v
      /\ \A g \in Int : g < m.cur => EffOf(ws, g) = EffOf(<<>>, g)
  BY <1>1, <1>2, OneVersion
<1> HIDE DEF ws
<1>4. ns \in NodeLists /\ ns[id] = ws /\ \A i \in Ids : i # id => ns[i] = m.nodes[i]
  BY <1>1, <1>3 DEF NodeLists
<1>5. ch \in Changes /\ m.changes \subseteq ch /\ <<m.cur, id>> \in ch
  BY <1>1 DEF Changes
<1>6. id + 1 \in 1..(MaxNode + 1)
  BY BoundsAssumption DEF Ids
<1>7. e = Counters(m, ns, ch, m.snaps, id + 1, m.cur, m.clock)
  <2> DEFINE f == [m EXCEPT !.next = @ + 1, !.nodes[m.next] = ws]
  <2>1. m = [nodes |-> m.nodes, links |-> m.links, changes |-> m.changes, snaps |-> m.snaps,
             next |-> m.next, cur |-> m.cur, clock |-> m.clock]
    BY <1>1 DEF MemType
  <2>2. f = [nodes |-> ns, links |-> m.links, changes |-> m.changes, snaps |-> m.snaps,
             next |-> m.next + 1, cur |-> m.cur, clock |-> m.clock]
    <3> DEFINE f1 == [m EXCEPT !.next = @ + 1]
    <3>1. f1 = [nodes |-> m.nodes, links |-> m.links, changes |-> m.changes, snaps |-> m.snaps,
                next |-> m.next + 1, cur |-> m.cur, clock |-> m.clock]
      BY <2>1
    <3>2. f = [f1 EXCEPT !.nodes[id] = ws]
      OBVIOUS
    <3> HIDE DEF f1, f
    <3>3. f = [f1 EXCEPT !.nodes = ns]
      BY <3>1, <3>2
    <3> HIDE DEF ns
    <3> QED BY <3>1, <3>3
  <2>3. e = M!touch(f, id)
    BY <1>0 DEF ws
  <2> HIDE DEF f, ns
  <2>4. e = [f EXCEPT !.changes = ch]
    BY <2>2, <2>3 DEF M!touch
  <2> HIDE DEF ch
  <2> QED BY <2>2, <2>4 DEF Counters
<1> HIDE DEF ns, ch
<1>8. /\ e \in MemType /\ e.nodes = ns /\ e.links = m.links /\ e.changes = ch
      /\ e.next = id + 1 /\ e.cur = m.cur /\ e.clock = m.clock /\ e.snaps = m.snaps
  BY <1>1, <1>4, <1>5, <1>6, <1>7, CounterFields
<1>9. \A i \in Ids : Ascending(e.nodes[i], e.cur)
  BY <1>3, <1>4, <1>8 DEF MemInv
<1>10. VersionsIndexed(e)
  <2> SUFFICES ASSUME NEW i \in Ids, NEW j \in 1..Len(ns[i]) PROVE <<ns[i][j].snap, i>> \in ch
    BY <1>8 DEF VersionsIndexed
  <2>1. CASE i # id
    <3>1. \A q \in 1..Len(m.nodes[i]) : <<m.nodes[i][q].snap, i>> \in ch
      BY <1>5 DEF MemInv, VersionsIndexed
    <3> QED BY <1>4, <2>1, <3>1
  <2>2. CASE i = id
    <3>1. Len(ns[i]) = 1
      BY <1>3, <1>4, <2>2
    <3>2. j = 1
      BY <3>1
    <3> QED BY <1>2, <1>3, <1>4, <1>5, <2>2, <3>2
  <2> QED BY <2>1, <2>2
<1>11. MemInv(e)
  BY <1>8, <1>9, <1>10 DEF MemInv
<1>12. \A a, b, g : M!childAt(e, a, b, g) = M!childAt(m, a, b, g)
  BY <1>8, SameLinks
<1>13. ASSUME NEW i \in Ids, NEW g \in Int, i # id \/ g < m.cur
       PROVE  M!effR(e, i, g) = M!effR(m, i, g)
  <2>1. EffOf(ns[i], g) = EffOf(m.nodes[i], g)
    BY <1>3, <1>4, <1>13
  <2> QED BY <1>8, <2>1, EffIsEffOf
<1>14. M!effR(e, id, m.cur) = v
  BY <1>3, <1>4, <1>8, EffIsEffOf
<1>15. SameBelow(m, e)
  BY <1>12, <1>13 DEF SameBelow
<1> QED BY <1>1, <1>8, <1>11, <1>12, <1>13, <1>14, <1>15 DEF MemNew

\* A sealed snapshot: the next live view reads what the last one did.
LEMMA NextVersion ==
    ASSUME NEW vs \in Seq(VerRec), NEW cur \in Int, Ascending(vs, cur)
    PROVE  Ascending(vs, cur + 1) /\ EffOf(vs, cur + 1) = EffOf(vs, cur)
<1>1. Ascending(vs, cur + 1)
  BY Vers DEF Ascending
<1> QED BY <1>1, EffNewest

\* An interval that is live stays so in the next snapshot.
LEMMA NextInterval ==
    ASSUME NEW ivs \in Seq(IvRec), NEW cur \in Int, cur > 0, Disjoint(ivs, cur)
    PROVE  Disjoint(ivs, cur + 1) /\ ChildOf(ivs, cur + 1) = ChildOf(ivs, cur)
<1>1. Disjoint(ivs, cur + 1)
  BY Ivs DEF Disjoint
<1>2. \A i \in 1..Len(ivs) : M!liveAt(ivs[i], cur + 1) <=> M!liveAt(ivs[i], cur)
  BY Ivs DEF Disjoint, M!liveAt
<1>3. LiveIn(ivs, cur + 1) = LiveIn(ivs, cur)
  BY <1>2, Ivs DEF LiveIn
<1>4. CASE LiveIn(ivs, cur) = {}
  BY <1>1, <1>3, <1>4, NoneLive
<1>5. CASE LiveIn(ivs, cur) # {}
  <2>1. PICK i \in LiveIn(ivs, cur) : TRUE
    BY <1>5
  <2>2. ChildOf(ivs, cur) = ivs[i].child
    BY OneLive
  <2>3. ChildOf(ivs, cur + 1) = ivs[i].child
    BY <1>3, OneLive
  <2> QED BY <1>1, <2>2, <2>3
<1> QED BY <1>4, <1>5

\* The lists kept, with the same reads at every snapshot.
LEMMA SameListsRead ==
    ASSUME NEW m, NEW e, e.nodes = m.nodes, e.links = m.links
    PROVE  \A a, b, g : /\ M!effR(e, a, g) = M!effR(m, a, g)
                        /\ M!childAt(e, a, b, g) = M!childAt(m, a, b, g)
<1> SUFFICES ASSUME NEW a, NEW b, NEW g
             PROVE  M!effR(e, a, g) = M!effR(m, a, g) /\ M!childAt(e, a, b, g) = M!childAt(m, a, b, g)
  OBVIOUS
<1>1. M!effR(e, a, g) = EffOf(e.nodes[a], g) /\ M!effR(m, a, g) = EffOf(m.nodes[a], g)
  BY EffIsEffOf
<1>2. M!childAt(e, a, b, g) = M!childAt(m, a, b, g)
  BY SameLinks
<1> QED BY <1>1, <1>2

MemNextView(m, e) ==
    /\ MemInv(e)
    /\ e.next = m.next /\ e.cur = m.cur + 1 /\ e.clock = m.clock
    /\ e.snaps = m.snaps \cup {<<m.cur, m.clock>>}
    /\ \A a, b, g : /\ M!effR(e, a, g) = M!effR(m, a, g)
                    /\ M!childAt(e, a, b, g) = M!childAt(m, a, b, g)
    /\ \A a \in Ids, b \in Names : /\ M!effR(e, a, m.cur + 1) = M!effR(m, a, m.cur)
                                   /\ M!childAt(e, a, b, m.cur + 1) = M!childAt(m, a, b, m.cur)

\* MemStore::snapshot seals the live view and starts from it.
LEMMA MemSealed ==
    ASSUME NEW m, MemInv(m), m.cur + 1 \in Snaps
    PROVE  \A e : e = [m EXCEPT !.cur = @ + 1, !.snaps = @ \cup {<<m.cur, m.clock>>}]
                  => MemNextView(m, e)
<1>0. SUFFICES ASSUME NEW e, e = [m EXCEPT !.cur = @ + 1, !.snaps = @ \cup {<<m.cur, m.clock>>}]
               PROVE  MemNextView(m, e)
  OBVIOUS
<1>1. /\ m \in MemType /\ m.cur \in Snaps /\ m.cur \in Int /\ m.clock \in Times
      /\ m.snaps \in SUBSET (Snaps \X Times) /\ m.nodes \in NodeLists /\ m.changes \in Changes
      /\ m.next \in 1..(MaxNode + 1)
      /\ \A id \in Ids : m.nodes[id] \in Seq(VerRec)
      /\ \A k \in Ids \X Names : m.links[k] \in Seq(IvRec)
  BY MemFields DEF MemInv
<1>2. m.cur > 0
  BY <1>1, BoundsAssumption DEF Snaps
<1> DEFINE sn == m.snaps \cup {<<m.cur, m.clock>>}
<1>3. sn \in SUBSET (Snaps \X Times)
  BY <1>1
<1>4. e = Counters(m, m.nodes, m.changes, sn, m.next, m.cur + 1, m.clock)
  <2>1. m = [nodes |-> m.nodes, links |-> m.links, changes |-> m.changes, snaps |-> m.snaps,
             next |-> m.next, cur |-> m.cur, clock |-> m.clock]
    BY <1>1 DEF MemType
  <2> DEFINE f == [m EXCEPT !.cur = @ + 1]
  <2>2. f = [nodes |-> m.nodes, links |-> m.links, changes |-> m.changes, snaps |-> m.snaps,
             next |-> m.next, cur |-> m.cur + 1, clock |-> m.clock]
    BY <2>1
  <2>3. e = [f EXCEPT !.snaps = @ \cup {<<m.cur, m.clock>>}]
    BY <1>0
  <2> HIDE DEF f
  <2>4. e = [f EXCEPT !.snaps = sn]
    BY <2>2, <2>3
  <2> HIDE DEF sn
  <2> QED BY <2>2, <2>4 DEF Counters
<1> HIDE DEF sn
<1>5. /\ e \in MemType /\ e.nodes = m.nodes /\ e.links = m.links /\ e.changes = m.changes
      /\ e.next = m.next /\ e.cur = m.cur + 1 /\ e.clock = m.clock /\ e.snaps = sn
  BY <1>1, <1>3, <1>4, CounterFields
<1>6. \A id \in Ids : /\ Ascending(m.nodes[id], m.cur + 1)
                      /\ EffOf(m.nodes[id], m.cur + 1) = EffOf(m.nodes[id], m.cur)
  BY <1>1, NextVersion DEF MemInv
<1>7. \A k \in Ids \X Names : /\ Disjoint(m.links[k], m.cur + 1)
                              /\ ChildOf(m.links[k], m.cur + 1) = ChildOf(m.links[k], m.cur)
  BY <1>1, <1>2, NextInterval DEF MemInv
<1>8. VersionsIndexed(e)
  BY <1>5 DEF MemInv, VersionsIndexed
<1>9. MemInv(e)
  BY <1>5, <1>6, <1>7, <1>8 DEF MemInv
<1>10. \A a, b, g : /\ M!effR(e, a, g) = M!effR(m, a, g)
                    /\ M!childAt(e, a, b, g) = M!childAt(m, a, b, g)
  BY <1>5, SameListsRead
<1>11. ASSUME NEW a \in Ids, NEW b \in Names
       PROVE  /\ M!effR(m, a, m.cur + 1) = M!effR(m, a, m.cur)
              /\ M!childAt(m, a, b, m.cur + 1) = M!childAt(m, a, b, m.cur)
  <2>1. M!effR(m, a, m.cur + 1) = M!effR(m, a, m.cur)
    BY <1>6, EffIsEffOf
  <2>2. <<a, b>> \in Ids \X Names
    OBVIOUS
  <2>3. M!childAt(m, a, b, m.cur + 1) = M!childAt(m, a, b, m.cur)
    BY <1>7, <2>2, ChildIsChildOf
  <2> QED BY <2>1, <2>3
<1> QED BY <1>5, <1>9, <1>10, <1>11 DEF sn, MemNextView

\* setTime.
MemClocked(m, e, t) ==
    /\ MemInv(e)
    /\ e.next = m.next /\ e.cur = m.cur /\ e.clock = t /\ e.snaps = m.snaps
    /\ \A a, b, g : /\ M!effR(e, a, g) = M!effR(m, a, g)
                    /\ M!childAt(e, a, b, g) = M!childAt(m, a, b, g)

\* MemStore::setTime changes no view.
LEMMA MemTimed ==
    ASSUME NEW m, MemInv(m), NEW t \in Times
    PROVE  \A e : e = [m EXCEPT !.clock = t] => MemClocked(m, e, t)
<1>0. SUFFICES ASSUME NEW e, e = [m EXCEPT !.clock = t] PROVE MemClocked(m, e, t)
  OBVIOUS
<1>1. /\ m \in MemType /\ m.cur \in Snaps
      /\ m.snaps \in SUBSET (Snaps \X Times) /\ m.nodes \in NodeLists /\ m.changes \in Changes
      /\ m.next \in 1..(MaxNode + 1)
  BY MemFields DEF MemInv
<1>2. e = Counters(m, m.nodes, m.changes, m.snaps, m.next, m.cur, t)
  <2>1. m = [nodes |-> m.nodes, links |-> m.links, changes |-> m.changes, snaps |-> m.snaps,
             next |-> m.next, cur |-> m.cur, clock |-> m.clock]
    BY <1>1 DEF MemType
  <2> QED BY <1>0, <2>1 DEF Counters
<1>3. /\ e \in MemType /\ e.nodes = m.nodes /\ e.links = m.links /\ e.changes = m.changes
      /\ e.next = m.next /\ e.cur = m.cur /\ e.clock = t /\ e.snaps = m.snaps
  BY <1>1, <1>2, CounterFields
<1>4. VersionsIndexed(e)
  BY <1>3 DEF MemInv, VersionsIndexed
<1>5. MemInv(e)
  BY <1>3, <1>4 DEF MemInv
<1>6. \A a, b, g : /\ M!effR(e, a, g) = M!effR(m, a, g)
                   /\ M!childAt(e, a, b, g) = M!childAt(m, a, b, g)
  BY <1>3, SameListsRead
<1> QED BY <1>3, <1>5, <1>6 DEF MemClocked

-----------------------------------------------------------------------------
(* The two stores after the same call. *)

\* An entry and a link count changed in both.
LEMMA CoupleEdit ==
    ASSUME NEW d, NEW m, MemInv(m), SameAt(d, m, m.cur),
           NEW dir \in Ids, NEW name \in Names, NEW target, NEW child \in Ids,
           existedAt(d, child, m.cur), NEW ps, NEW step \in Int,
           NEW nl, nl = loadNode(d, child, m.cur).nlink + step,
           NEW e, Edited(d, e, m.cur, dir, name, target, child, ps, nl), DbInv(d),
           NEW f, MemEdited(m, f, dir, name, target, child, step)
    PROVE  SameAt(e, f, m.cur)
<1> SUFFICES ASSUME NEW i \in Ids
             PROVE  /\ SameRec(M!effR(f, i, m.cur), loadNode(e, i, m.cur))
                    /\ \A n \in Names : M!childAt(f, i, n, m.cur) = linkSet(e, i, m.cur)[n]
  BY DEF SameAt
<1> DEFINE r == loadNode(d, i, m.cur)
           q == loadNode(e, i, m.cur)
           v == M!effR(m, i, m.cur)
           w == M!effR(f, i, m.cur)
<1>1. SameRec(v, r) /\ \A n \in Names : M!childAt(m, i, n, m.cur) = linkSet(d, i, m.cur)[n]
  BY DEF SameAt
<1>2. m.cur \in Snaps
  BY MemFields DEF MemInv
<1>3. \A n \in Names : M!childAt(f, i, n, m.cur) = linkSet(e, i, m.cur)[n]
  <2>1. \A n \in Names :
          linkSet(e, i, m.cur)[n] = IF i = dir /\ n = name THEN target ELSE linkSet(d, i, m.cur)[n]
    BY <1>2, EditedEntries
  <2>2. \A n \in Names :
          M!childAt(f, i, n, m.cur) = IF i = dir /\ n = name THEN target ELSE M!childAt(m, i, n, m.cur)
    BY DEF MemEdited
  <2> QED BY <1>1, <2>1, <2>2
<1>4. SameBody(r, q)
  BY DEF Edited
<1>5. CASE i # child
  <2>1. w = v /\ q.nlink = r.nlink
    BY <1>5 DEF MemEdited, Edited
  <2> HIDE DEF v, w, q, r
  <2>2. SameRec(w, q)
    BY <1>1, <1>4, <2>1 DEF SameRec, SameBody
  <2> QED BY <1>3, <2>2 DEF w, q
<1>6. CASE i = child
  <2>1. w = Relinked(v, m.cur, step) /\ q.nlink = r.nlink + step
    BY <1>6 DEF MemEdited, Edited
  <2>2. r # NoRec
    BY <1>6 DEF existedAt
  <2>3. v \in VerRec
    <3>1. v # M!NoVer
      BY <1>1, <2>2 DEF SameRec
    <3> QED BY <3>1, LiveRead
  <2> HIDE DEF v, w, q, r
  <2>4. /\ w \in VerRec /\ w.type = v.type /\ w.nlink = v.nlink + step /\ w.data = v.data
        /\ w.attr = v.attr /\ w.stamp = v.stamp
    BY <1>2, <2>1, <2>3, NlinkChanged
  <2>5. SameRec(w, q)
    BY <1>1, <1>4, <2>1, <2>2, <2>4, NoVerIsNone DEF SameRec, SameBody
  <2> QED BY <1>3, <2>5 DEF w, q
<1> QED BY <1>5, <1>6

\* A node rewritten in both.
LEMMA CoupleSet ==
    ASSUME NEW d, NEW m, SameAt(d, m, m.cur), NEW id \in Ids, NEW v, NEW r1, SameRec(v, r1),
           NEW e, loadNode(e, id, m.cur) = r1,
           \A i \in Ids : i # id => loadNode(e, i, m.cur) = loadNode(d, i, m.cur),
           \A i \in Ids : linkSet(e, i, m.cur) = linkSet(d, i, m.cur),
           NEW f, MemSet(m, f, id, v)
    PROVE  SameAt(e, f, m.cur)
<1> SUFFICES ASSUME NEW i \in Ids
             PROVE  /\ SameRec(M!effR(f, i, m.cur), loadNode(e, i, m.cur))
                    /\ \A n \in Names : M!childAt(f, i, n, m.cur) = linkSet(e, i, m.cur)[n]
  BY DEF SameAt
<1>1. \A n \in Names : M!childAt(f, i, n, m.cur) = linkSet(e, i, m.cur)[n]
  BY DEF MemSet, SameAt
<1>2. CASE i # id
  <2>1. M!effR(f, i, m.cur) = M!effR(m, i, m.cur) /\ loadNode(e, i, m.cur) = loadNode(d, i, m.cur)
    BY <1>2 DEF MemSet
  <2> QED BY <1>1, <2>1 DEF SameAt
<1>3. CASE i = id
  <2>1. M!effR(f, i, m.cur) = v
    BY <1>3 DEF MemSet
  <2> QED BY <1>1, <1>3, <2>1
<1> QED BY <1>2, <1>3

\* A sealed view.
LEMMA CoupleBelow ==
    ASSUME NEW d, DbInv(d), NEW e, NEW m, m.cur \in Snaps, Untouched(d, e, m.cur),
           NEW f, SameBelow(m, f), NEW g \in Snaps, g < m.cur, SameAt(d, m, g)
    PROVE  SameAt(e, f, g)
<1> SUFFICES ASSUME NEW i \in Ids
             PROVE  /\ SameRec(M!effR(f, i, g), loadNode(e, i, g))
                    /\ \A n \in Names : M!childAt(f, i, n, g) = linkSet(e, i, g)[n]
  BY DEF SameAt
<1>1. loadNode(e, i, g) = loadNode(d, i, g) /\ linkSet(e, i, g) = linkSet(d, i, g)
  BY ReadUntouched
<1>2. g \in Int
  BY BoundsAssumption DEF Snaps
<1>3. /\ M!effR(f, i, g) = M!effR(m, i, g)
      /\ \A n \in Names : M!childAt(f, i, n, g) = M!childAt(m, i, n, g)
  BY <1>2 DEF SameBelow
<1> QED BY <1>1, <1>3 DEF SameAt

\* Transactions leave the list of snapshots alone.
KeepsSnaps(d, e) == DOMAIN e = DOMAIN d /\ e.snaps = d.snaps

\* Keeping the table of snapshots composes.
LEMMA KeepTrans ==
    ASSUME NEW d, NEW e, NEW f, KeepsSnaps(d, e), KeepsSnaps(e, f)
    PROVE  KeepsSnaps(d, f)
  BY DEF KeepsSnaps

\* The writes a transaction is made of keep it.
LEMMA PiecesKeep ==
    ASSUME NEW d, "snaps" \in DOMAIN d
    PROVE  /\ \A id, g, r : KeepsSnaps(d, storeNode(d, id, g, r))
           /\ \A dir, ver, es : KeepsSnaps(d, putDown(d, dir, ver, es))
           /\ \A id, ver, ls : KeepsSnaps(d, putUp(d, id, ver, ls))
  BY DEF KeepsSnaps, storeNode, putDown, putUp

\* Copying a shared record or link set keeps it.
LEMMA EnsureKeeps ==
    ASSUME NEW d, "snaps" \in DOMAIN d, NEW cur, NEW dir, NEW child
    PROVE  KeepsSnaps(d, ensureWritable(d, cur, dir, child))
<1> DEFINE d1 == ensureWritableDnLinks(d, cur, dir)
           d2 == ensureWritableUpLinks(d1, cur, child)
<1>1. KeepsSnaps(d, d1)
  <2> DEFINE es == copyEntries(d.down[dir][loadNode(d, dir, cur).dnLinkVer], d.down[dir][cur])
             k  == putDown(d, dir, cur, es)
             r  == [loadNode(d, dir, cur) EXCEPT !.dnLinkVer = cur]
  <2>1. d1 = d \/ d1 = storeNode(k, dir, cur, r)
    BY DEF ensureWritableDnLinks
  <2> HIDE DEF es, r, d1
  <2>2. KeepsSnaps(d, k)
    BY PiecesKeep
  <2> HIDE DEF k
  <2>3. "snaps" \in DOMAIN k
    BY <2>2 DEF KeepsSnaps
  <2>4. KeepsSnaps(k, storeNode(k, dir, cur, r))
    BY <2>3, PiecesKeep
  <2>5. KeepsSnaps(d, d)
    BY DEF KeepsSnaps
  <2> QED BY <2>1, <2>2, <2>4, <2>5, KeepTrans
<1> HIDE DEF d1
<1>2. "snaps" \in DOMAIN d1
  BY <1>1 DEF KeepsSnaps
<1>3. KeepsSnaps(d1, d2)
  <2> DEFINE ls == d1.up[child][cur] \cup d1.up[child][loadNode(d1, child, cur).upLinkVer]
             k  == putUp(d1, child, cur, ls)
             r  == [loadNode(d1, child, cur) EXCEPT !.upLinkVer = cur]
  <2>1. d2 = d1 \/ d2 = storeNode(k, child, cur, r)
    BY DEF ensureWritableUpLinks
  <2> HIDE DEF ls, r, d2
  <2>2. KeepsSnaps(d1, k)
    BY <1>2, PiecesKeep
  <2> HIDE DEF k
  <2>3. "snaps" \in DOMAIN k
    BY <1>2, <2>2 DEF KeepsSnaps
  <2>4. KeepsSnaps(k, storeNode(k, child, cur, r))
    BY <2>3, PiecesKeep
  <2>5. KeepsSnaps(d1, d1)
    BY DEF KeepsSnaps
  <2> QED BY <2>1, <2>2, <2>4, <2>5, KeepTrans
<1>4. ensureWritable(d, cur, dir, child) = d2
  BY DEF ensureWritable, d1
<1> HIDE DEF d2
<1> QED BY <1>1, <1>3, <1>4, KeepTrans

\* A link and an unlink keep it.
LEMMA EditKeeps ==
    ASSUME NEW d, "snaps" \in DOMAIN d, NEW cur, NEW dir, NEW name, NEW child
    PROVE  /\ KeepsSnaps(d, linkDb(d, cur, dir, name, child))
           /\ KeepsSnaps(d, unlinkDb(d, cur, dir, name))
<1>1. ASSUME NEW c, NEW es, NEW ls, NEW step, NEW d1, d1 = ensureWritable(d, cur, dir, c)
      PROVE  KeepsSnaps(d, storeNlink(putUp(putDown(d1, dir, cur, es), c, cur, ls), cur, c, step))
  <2> DEFINE d2 == putDown(d1, dir, cur, es)
             d3 == putUp(d2, c, cur, ls)
             d4 == storeNlink(d3, cur, c, step)
  <2>1. KeepsSnaps(d, d1) /\ "snaps" \in DOMAIN d1
    BY <1>1, EnsureKeeps DEF KeepsSnaps
  <2>2. KeepsSnaps(d1, d2) /\ "snaps" \in DOMAIN d2
    BY <2>1, PiecesKeep DEF KeepsSnaps
  <2> HIDE DEF d2
  <2>3. KeepsSnaps(d2, d3) /\ "snaps" \in DOMAIN d3
    BY <2>2, PiecesKeep DEF KeepsSnaps
  <2> HIDE DEF d3
  <2>4. KeepsSnaps(d3, d4)
    BY <2>3, PiecesKeep DEF storeNlink
  <2> HIDE DEF d4
  <2>5. KeepsSnaps(d, d4)
    BY <2>1, <2>2, <2>3, <2>4, KeepTrans
  <2> QED BY <2>5 DEF d2, d3, d4
<1>2. KeepsSnaps(d, linkDb(d, cur, dir, name, child))
  BY <1>1 DEF linkDb
<1>3. KeepsSnaps(d, unlinkDb(d, cur, dir, name))
  BY <1>1 DEF unlinkDb
<1> QED BY <1>2, <1>3

\* A call that changes nothing but the live view leaves the stores in step.
InStep(m, e, f) == MemInv(f) /\ SameCounters(m, f) /\ SameBelow(m, f) /\ SameAt(e, f, m.cur)

\* A node that one store knows the other knows too.
LEMMA SameNodes ==
    ASSUME NEW d, NEW m, MemInv(m), SameAt(d, m, m.cur), NEW id \in Ids
    PROVE  existedAt(d, id, m.cur) <=> m.nodes[id] # <<>>
<1>1. SameRec(M!effR(m, id, m.cur), loadNode(d, id, m.cur))
  BY DEF SameAt
<1>2. M!effR(m, id, m.cur) = M!NoVer <=> m.nodes[id] = <<>>
  BY LiveRead
<1> QED BY <1>1, <1>2 DEF SameRec, existedAt

\* link leaves both stores reading the same.
LEMMA CoupleLink ==
    ASSUME NEW d, TreeInv(d), NEW m, MemInv(m), SameAt(d, m, m.cur),
           NEW dir \in Ids, NEW name \in Names, NEW child \in Ids,
           linkErr(d, m.cur, dir, name, child) = "OK"
    PROVE  InStep(m, linkDb(d, m.cur, dir, name, child), M!linked(m, dir, name, child))
<1> DEFINE e == linkDb(d, m.cur, dir, name, child)
           f == M!linked(m, dir, name, child)
           ps == parents(d, child, m.cur) \cup {<<dir, name>>}
           nl == loadNode(d, child, m.cur).nlink + 1
<1>1. /\ name # SNAPSHOT_NAME /\ isDir(d, dir, m.cur) /\ existedAt(d, child, m.cur)
      /\ linkSet(d, dir, m.cur)[name] = NoId
  BY LinkChecks
<1>2. m.cur \in Snaps /\ DbInv(d)
  BY MemFields DEF MemInv, TreeInv
<1>3. Edited(d, e, m.cur, dir, name, child, child, ps, nl)
  BY <1>1, <1>2, LinkView
<1>4. m.nodes[child] # <<>> /\ M!childAt(m, dir, name, m.cur) = NoId
  <2>1. m.nodes[child] # <<>>
    BY <1>1, SameNodes
  <2>2. M!childAt(m, dir, name, m.cur) = NoId
    BY <1>1 DEF SameAt
  <2> QED BY <2>1, <2>2
<1>5. MemEdited(m, f, dir, name, child, child, 1)
  BY <1>4, MemLinked
<1>6. nl = loadNode(d, child, m.cur).nlink + 1 /\ 1 \in Int
  OBVIOUS
<1> HIDE DEF e, f, ps, nl
<1>7. SameAt(e, f, m.cur)
  BY <1>1, <1>2, <1>3, <1>5, <1>6, CoupleEdit
<1> QED BY <1>5, <1>7 DEF MemEdited, InStep, e, f

\* The link count of a node with an entry leading to it is not 0.
LEMMA LinkCounted ==
    ASSUME NEW d, TreeInv(d), NEW cur \in Snaps, TreeAt(d, cur), NEW dir \in Ids, NEW name \in Names,
           NEW c \in Ids, c = linkSet(d, dir, cur)[name], existedAt(d, c, cur)
    PROVE  loadNode(d, c, cur).nlink \in Nat /\ loadNode(d, c, cur).nlink >= 1
<1> DEFINE ps == parents(d, c, cur)
<1>1. loadNode(d, c, cur).nlink = Cardinality(ps) + (IF c = Root THEN 1 ELSE 0)
  BY DEF TreeAt, Counted
<1>2. <<dir, name>> \in ps
  BY DEF TreeAt, Mirrored
<1>3. IsFiniteSet(ps)
  BY ParentsFinite
<1> HIDE DEF ps
<1>4. Cardinality(ps) \in Nat /\ Cardinality(ps) # 0
  BY <1>2, <1>3, FS_CardinalityType, FS_EmptySet
<1> QED BY <1>1, <1>4

\* unlink leaves both stores reading the same.
LEMMA CoupleUnlink ==
    ASSUME NEW d, TreeInv(d), NEW m, MemInv(m), SameAt(d, m, m.cur), TreeAt(d, m.cur),
           NEW dir \in Ids, NEW name \in Names,
           unlinkChild(d, m.cur, dir, name) # NoId
    PROVE  InStep(m, unlinkDb(d, m.cur, dir, name), M!unlinked(m, dir, name))
<1> DEFINE e == unlinkDb(d, m.cur, dir, name)
           f == M!unlinked(m, dir, name)
           c == linkSet(d, dir, m.cur)[name]
           ps == parents(d, c, m.cur) \ {<<dir, name>>}
           n == loadNode(d, c, m.cur).nlink
           nl == IF n - 1 >= 0 THEN n - 1 ELSE n
<1>1. m.cur \in Snaps /\ DbInv(d)
  BY MemFields DEF MemInv, TreeInv
<1>2. /\ c \in Ids /\ existedAt(d, c, m.cur)
      /\ Edited(d, e, m.cur, dir, name, NoId, c, ps, nl)
  BY <1>1, UnlinkView
<1>3. c = linkSet(d, dir, m.cur)[name] /\ -1 \in Int
  OBVIOUS
<1>4. m.nodes[c] # <<>> /\ c = M!childAt(m, dir, name, m.cur)
  <2>1. M!childAt(m, dir, name, m.cur) = c
    BY DEF SameAt
  <2> HIDE DEF c
  <2>2. m.nodes[c] # <<>>
    BY <1>2, SameNodes
  <2> QED BY <2>1, <2>2
<1> HIDE DEF c
<1>5. MemEdited(m, f, dir, name, NoId, c, -1)
  BY <1>2, <1>4, MemUnlinked
<1>6. n \in Nat /\ n >= 1
  BY <1>1, <1>2, <1>3, LinkCounted
<1>7. nl = n + -1
  <2> HIDE DEF n
  <2> QED BY <1>6
<1> HIDE DEF e, f, ps, nl
<1>8. SameAt(e, f, m.cur)
  BY <1>1, <1>2, <1>3, <1>5, <1>7, CoupleEdit
<1> QED BY <1>5, <1>8 DEF MemEdited, InStep, e, f

\* move, its link leg and then its unlink leg, leaves both stores reading the same.
LEMMA CoupleMove ==
    ASSUME NEW d, TreeInv(d), NEW m, MemInv(m), NEW cur \in Snaps, m.cur = cur,
           SameAt(d, m, cur), TreeAt(d, cur),
           NEW sdir \in Ids, NEW sn \in Names, NEW ddir \in Ids, NEW dn \in Names,
           moveErr(d, cur, sdir, sn, ddir, dn) = "OK"
    PROVE  InStep(m, moveDb(d, cur, sdir, sn, ddir, dn), M!moved(m, sdir, sn, ddir, dn))
<1> DEFINE c == linkSet(d, sdir, cur)[sn]
           e == linkDb(d, cur, ddir, dn, c)
           f == M!linked(m, ddir, dn, c)
           e2 == unlinkDb(e, cur, sdir, sn)
           f2 == M!unlinked(f, sdir, sn)
<1>2. /\ unlinkChild(d, cur, sdir, sn) # NoId
      /\ linkErr(d, cur, ddir, dn, unlinkChild(d, cur, sdir, sn)) = "OK"
  BY MoveView, ZenonT(60)
<1>3. /\ c \in Ids /\ c = unlinkChild(d, cur, sdir, sn)
      /\ TreeInv(e)
      /\ Edited(d, e, cur, ddir, dn, c, c, parents(d, c, cur) \cup {<<ddir, dn>>},
                loadNode(d, c, cur).nlink + 1)
      /\ unlinkChild(e, cur, sdir, sn) = c
  <2>1. /\ c \in Ids /\ existedAt(d, c, cur) /\ c = unlinkChild(d, cur, sdir, sn)
        /\ isDir(d, sdir, cur) /\ isDir(d, ddir, cur) /\ dn # SNAPSHOT_NAME
        /\ linkSet(d, ddir, cur)[dn] = NoId
        /\ TreeInv(e)
        /\ Edited(d, e, cur, ddir, dn, c, c, parents(d, c, cur) \cup {<<ddir, dn>>},
                  loadNode(d, c, cur).nlink + 1)
        /\ linkSet(e, sdir, cur)[sn] = c
        /\ unlinkChild(e, cur, sdir, sn) = c
    BY <1>2, MoveLegs, SMTT(60)
  <2> HIDE DEF c, e
  <2> QED BY <2>1
<1>4. linkErr(d, cur, ddir, dn, c) = "OK" /\ c # NoId
  BY <1>2, <1>3
<1>5. M!childAt(m, sdir, sn, cur) = c
  BY DEF SameAt
<1>6. moveDb(d, cur, sdir, sn, ddir, dn) = e2 /\ M!moved(m, sdir, sn, ddir, dn) = f2
  BY <1>3, <1>5 DEF moveDb, M!moved
<1> HIDE DEF c
<1>7. InStep(m, e, f)
  BY <1>3, <1>4, CoupleLink
<1>8. TreeAt(e, cur)
  <2>1. DbInv(e)
    BY <1>3 DEF TreeInv
  <2> HIDE DEF e
  <2> QED BY <1>3, <1>4, <2>1, LinkTree
<1> HIDE DEF e, f
<1>9. MemInv(f) /\ SameCounters(m, f) /\ SameBelow(m, f) /\ SameAt(e, f, cur) /\ f.cur = cur
  BY <1>7 DEF InStep, SameCounters
<1>10. InStep(f, e2, f2)
  BY <1>3, <1>4, <1>8, <1>9, CoupleUnlink
<1> HIDE DEF e2, f2
<1>11. InStep(m, e2, f2)
  <2>1. MemInv(f2) /\ SameCounters(m, f2) /\ SameAt(e2, f2, cur)
    BY <1>9, <1>10 DEF InStep, SameCounters
  <2>2. SameBelow(m, f2)
    BY <1>9, <1>10 DEF InStep, SameBelow
  <2> QED BY <2>1, <2>2 DEF InStep
<1> QED BY <1>6, <1>11

-----------------------------------------------------------------------------
(* The coupling is preserved by every step of the two stores together. *)

\* A call that leaves the current snapshot alone.
LEMMA KeepCoupled ==
    ASSUME IndInv, Coupled, m_cur' = m_cur, Untouched(db, db', m_cur),
           MemInv(mem'), mem'.cur = mem.cur, mem'.next = m_next', mem'.clock = m_clock',
           mem'.snaps = db'.snaps, SameBelow(mem, mem'), SameAt(db', mem', m_cur)
    PROVE  Coupled'
<1>1. m_cur \in Snaps /\ DbInv(db) /\ mem.cur = m_cur
  BY DEF IndInv, TypeOK, Coupled
<1>2. ASSUME NEW g \in 1..m_cur PROVE SameAt(db', mem', g)
  <2>1. CASE g = m_cur
    BY <2>1
  <2>2. CASE g # m_cur
    <3>1. g \in Snaps /\ g < m_cur
      BY <1>1, <1>2, <2>2, BoundsAssumption DEF Snaps
    <3>2. SameAt(db, mem, g)
      BY <1>2 DEF Coupled, Visible
    <3> QED BY <1>1, <3>1, <3>2, CoupleBelow
  <2> QED BY <2>1, <2>2
<1> QED BY <1>1, <1>2 DEF Coupled, Visible

\* The same after an operation on the two live views.
LEMMA InStepCoupled ==
    ASSUME IndInv, Coupled, UNCHANGED <<m_next, m_cur, m_clock>>, Untouched(db, db', m_cur),
           KeepsSnaps(db, db'), InStep(mem, db', mem')
    PROVE  Coupled'
<1>1. /\ mem.cur = m_cur /\ mem.next = m_next /\ mem.clock = m_clock /\ mem.snaps = db.snaps
  BY DEF Coupled
<1>2. /\ MemInv(mem') /\ SameBelow(mem, mem') /\ SameAt(db', mem', mem.cur)
      /\ mem'.next = mem.next /\ mem'.cur = mem.cur /\ mem'.clock = mem.clock /\ mem'.snaps = mem.snaps
  BY DEF InStep, SameCounters
<1>3. db'.snaps = db.snaps
  BY DEF KeepsSnaps
<1> QED BY <1>1, <1>2, <1>3, KeepCoupled

\* What is known of the two stores between any two calls.
LEMMA Standing ==
    ASSUME IndInv, Trees, Coupled
    PROVE  /\ m_cur \in Snaps /\ mem.cur = m_cur /\ MemInv(mem)
           /\ SameAt(db, mem, m_cur) /\ TreeAt(db, m_cur)
           /\ "snaps" \in DOMAIN db
<1>1. m_cur \in Snaps /\ db \in DbType
  BY DEF IndInv, TypeOK
<1>2. m_cur \in Visible
  BY <1>1, BoundsAssumption DEF Snaps, Visible
<1>3. "snaps" \in DOMAIN db
  BY <1>1 DEF DbType
<1> QED BY <1>1, <1>2, <1>3 DEF Coupled, Trees

\* The call of link in both stores, passed or refused.
LEMMA LinkCoupled ==
    ASSUME IndInv, TreeInv(db), Trees, Coupled, Untouched(db, db', m_cur),
           NEW dir \in Ids, NEW child \in Ids, NEW name \in Names,
           Link(dir, name, child), M!MemLink(dir, name, child)
    PROVE  Coupled'
<1>1. /\ m_cur \in Snaps /\ mem.cur = m_cur /\ MemInv(mem)
      /\ SameAt(db, mem, m_cur) /\ TreeAt(db, m_cur) /\ "snaps" \in DOMAIN db
  BY Standing
<1>2. /\ linkErr(db, m_cur, dir, name, child) = "OK"
      /\ db' = linkDb(db, m_cur, dir, name, child) /\ mem' = M!linked(mem, dir, name, child)
      /\ UNCHANGED <<m_next, m_cur, m_clock>>
  BY DEF Link, M!MemLink
<1>3. InStep(mem, linkDb(db, mem.cur, dir, name, child), M!linked(mem, dir, name, child))
  BY <1>1, <1>2, CoupleLink
<1>4. InStep(mem, db', mem') /\ KeepsSnaps(db, db')
  BY <1>1, <1>2, <1>3, EditKeeps
<1> QED BY <1>2, <1>4, InStepCoupled

\* The call of unlink in both stores.
LEMMA UnlinkCoupled ==
    ASSUME IndInv, TreeInv(db), Trees, Coupled, Untouched(db, db', m_cur),
           NEW dir \in Ids, NEW name \in Names, Unlink(dir, name), M!MemUnlink(dir, name)
    PROVE  Coupled'
<1>1. /\ m_cur \in Snaps /\ mem.cur = m_cur /\ MemInv(mem)
      /\ SameAt(db, mem, m_cur) /\ TreeAt(db, m_cur) /\ "snaps" \in DOMAIN db
  BY Standing
<1>2. /\ unlinkChild(db, m_cur, dir, name) # NoId
      /\ db' = unlinkDb(db, m_cur, dir, name) /\ mem' = M!unlinked(mem, dir, name)
      /\ UNCHANGED <<m_next, m_cur, m_clock>>
  BY DEF Unlink, M!MemUnlink, unlinkErr
<1>3. InStep(mem, unlinkDb(db, mem.cur, dir, name), M!unlinked(mem, dir, name))
  BY <1>1, <1>2, CoupleUnlink
<1>4. InStep(mem, db', mem') /\ KeepsSnaps(db, db')
  BY <1>1, <1>2, <1>3, EditKeeps
<1> QED BY <1>2, <1>4, InStepCoupled

\* The call of move in both stores.
LEMMA MoveCoupled ==
    ASSUME IndInv, TreeInv(db), Trees, Coupled, Untouched(db, db', m_cur),
           NEW sdir \in Ids, NEW ddir \in Ids, NEW sn \in Names, NEW dn \in Names,
           Move(sdir, sn, ddir, dn), M!MemMove(sdir, sn, ddir, dn)
    PROVE  Coupled'
<1>1. /\ m_cur \in Snaps /\ mem.cur = m_cur /\ MemInv(mem)
      /\ SameAt(db, mem, m_cur) /\ TreeAt(db, m_cur) /\ "snaps" \in DOMAIN db
  BY Standing
<1>2. /\ moveErr(db, m_cur, sdir, sn, ddir, dn) = "OK"
      /\ db' = moveDb(db, m_cur, sdir, sn, ddir, dn) /\ mem' = M!moved(mem, sdir, sn, ddir, dn)
      /\ UNCHANGED <<m_next, m_cur, m_clock>>
  BY DEF Move, M!MemMove
<1>3. InStep(mem, db', mem')
  BY <1>1, <1>2, CoupleMove
<1>4. KeepsSnaps(db, db')
  <2> DEFINE k == linkDb(db, m_cur, ddir, dn, unlinkChild(db, m_cur, sdir, sn))
  <2>1. db' = unlinkDb(k, m_cur, sdir, sn)
    BY <1>2 DEF moveDb
  <2>2. KeepsSnaps(db, k)
    BY <1>1, EditKeeps
  <2> HIDE DEF k
  <2>3. "snaps" \in DOMAIN k
    BY <1>1, <2>2 DEF KeepsSnaps
  <2>4. KeepsSnaps(k, unlinkDb(k, m_cur, sdir, sn))
    BY <2>3, EditKeeps
  <2> QED BY <2>1, <2>2, <2>4, KeepTrans
<1> QED BY <1>2, <1>3, <1>4, InStepCoupled

\* The call of alloc in both stores: both hand out the same id.
LEMMA AllocCoupled ==
    ASSUME IndInv, TreeInv(db), Trees, Coupled, Untouched(db, db', m_cur),
           NEW type \in Types, NEW data \in Data, Alloc(type, data), M!MemAlloc(type, data)
    PROVE  Coupled'
<1> DEFINE id == m_next
           v  == M!NodeVer(mem.cur, type, 0, data, mem.clock)
           r  == [type |-> type, nlink |-> 0, data |-> data, attr |-> m_clock, stamp |-> m_clock,
                  dnLinkVer |-> m_cur, upLinkVer |-> m_cur]
<1>1. /\ m_cur \in Snaps /\ mem.cur = m_cur /\ MemInv(mem)
      /\ SameAt(db, mem, m_cur) /\ TreeAt(db, m_cur) /\ "snaps" \in DOMAIN db
  BY Standing
<1>2. /\ mem.next = m_next /\ mem.clock = m_clock /\ mem.snaps = db.snaps
  BY DEF Coupled
<1>3. /\ m_next <= MaxNode /\ db' = allocDb(db, m_cur, id, type, data, m_clock)
      /\ m_next' = m_next + 1 /\ m_cur' = m_cur /\ m_clock' = m_clock
  BY DEF Alloc
<1>4. mem' = M!touch([mem EXCEPT !.next = @ + 1, !.nodes[mem.next] = <<v>>], mem.next)
  BY DEF M!MemAlloc
<1>5. id \in Ids /\ db.next <= id /\ m_clock \in Times
  BY <1>3, BoundsAssumption DEF IndInv, TypeOK, Ids
<1>6. /\ loadNode(db, id, m_cur) = NoRec /\ loadNode(db', id, m_cur) = r
      /\ linkSet(db', id, m_cur) = NoEntries
      /\ \A i \in Ids : i # id => /\ loadNode(db', i, m_cur) = loadNode(db, i, m_cur)
                                  /\ linkSet(db', i, m_cur) = linkSet(db, i, m_cur)
  BY <1>1, <1>3, <1>5, AllocView
<1>7. mem.nodes[mem.next] = <<>>
  <2>1. ~existedAt(db, id, mem.cur)
    BY <1>1, <1>6 DEF existedAt
  <2>2. SameAt(db, mem, mem.cur)
    BY <1>1
  <2>3. mem.nodes[id] = <<>>
    BY <1>1, <1>5, <2>1, <2>2, SameNodes
  <2> QED BY <1>2, <2>3
<1>8. v = M!NodeVer(mem.cur, type, 0, data, mem.clock) /\ mem.next \in Ids
  BY <1>2, <1>5
<1>9. db'.snaps = db.snaps
  <2> DEFINE k == [db EXCEPT !.next = id + 1]
  <2>1. db' = storeNode(k, id, m_cur, r)
    BY <1>3 DEF allocDb
  <2>2. "snaps" \in DOMAIN k /\ k.snaps = db.snaps
    BY <1>1
  <2> HIDE DEF k, r
  <2> QED BY <2>1, <2>2, PiecesKeep DEF KeepsSnaps
<1>10. SameRec(v, r) /\ r # NoRec
  <2>1. v \in VerRec
    BY <1>1, <1>2, <1>5 DEF M!NodeVer, VerRec
  <2>2. r.type = type /\ NoRec.type = "NONE" /\ type # "NONE"
    BY TypesAssumption DEF NoRec
  <2>3. r # NoRec /\ v # M!NoVer
    BY <2>1, <2>2, NoVerIsNone
  <2> QED BY <1>2, <2>3 DEF SameRec, M!NodeVer
<1> HIDE DEF v, r
<1>11. MemNew(mem, mem', v)
  BY <1>1, <1>4, <1>7, <1>8, MemAllocated
<1>12. SameAt(db', mem', m_cur)
  <2> SUFFICES ASSUME NEW i \in Ids
               PROVE  /\ SameRec(M!effR(mem', i, m_cur), loadNode(db', i, m_cur))
                      /\ \A n \in Names : M!childAt(mem', i, n, m_cur) = linkSet(db', i, m_cur)[n]
    BY DEF SameAt
  <2>1. /\ SameRec(M!effR(mem, i, m_cur), loadNode(db, i, m_cur))
        /\ \A n \in Names : M!childAt(mem, i, n, m_cur) = linkSet(db, i, m_cur)[n]
    BY <1>1 DEF SameAt
  <2>2. \A n \in Names : M!childAt(mem', i, n, m_cur) = M!childAt(mem, i, n, m_cur)
    BY <1>1, <1>11 DEF MemNew
  <2>3. CASE i # id
    <3>1. M!effR(mem', i, m_cur) = M!effR(mem, i, m_cur)
      BY <1>1, <1>2, <1>11, <2>3 DEF MemNew
    <3>2. loadNode(db', i, m_cur) = loadNode(db, i, m_cur) /\ linkSet(db', i, m_cur) = linkSet(db, i, m_cur)
      BY <1>6, <2>3
    <3> QED BY <2>1, <2>2, <3>1, <3>2
  <2>4. CASE i = id
    <3>1. M!effR(mem', i, m_cur) = v
      BY <1>1, <1>2, <1>11, <2>4 DEF MemNew
    <3>2. linkSet(db, id, m_cur) = NoEntries
      BY <1>6, NoRecIsNoNode DEF linkSet
    <3> QED BY <1>6, <1>10, <2>1, <2>2, <2>4, <3>1, <3>2
  <2> QED BY <2>3, <2>4
<1>13. /\ MemInv(mem') /\ SameBelow(mem, mem')
       /\ mem'.next = m_next' /\ mem'.cur = mem.cur /\ mem'.clock = m_clock' /\ mem'.snaps = db'.snaps
  BY <1>2, <1>3, <1>9, <1>11 DEF MemNew
<1> QED BY <1>3, <1>12, <1>13, KeepCoupled

\* A setter: the record and the version were rewritten alike.
LEMMA SetCoupled ==
    ASSUME IndInv, TreeInv(db), Trees, Coupled, Untouched(db, db', m_cur),
           NEW id \in Ids, existedAt(db, id, m_cur), NEW r1 \in NodeRec,
           r1.type = loadNode(db, id, m_cur).type, r1.nlink = loadNode(db, id, m_cur).nlink,
           r1.dnLinkVer = loadNode(db, id, m_cur).dnLinkVer,
           r1.upLinkVer = loadNode(db, id, m_cur).upLinkVer,
           db' = storeNode(db, id, m_cur, r1), UNCHANGED <<m_next, m_cur, m_clock>>,
           NEW v, SameRec(v, r1), MemSet(mem, mem', id, v)
    PROVE  Coupled'
<1>1. /\ m_cur \in Snaps /\ mem.cur = m_cur /\ MemInv(mem)
      /\ SameAt(db, mem, m_cur) /\ TreeAt(db, m_cur) /\ "snaps" \in DOMAIN db
  BY Standing
<1>2. /\ loadNode(db', id, m_cur) = r1
      /\ \A i \in Ids : i # id => loadNode(db', i, m_cur) = loadNode(db, i, m_cur)
      /\ \A i \in Ids : linkSet(db', i, m_cur) = linkSet(db, i, m_cur)
  BY <1>1, RewriteView
<1>3. SameAt(db', mem', mem.cur)
  BY <1>1, <1>2, CoupleSet
<1>4. InStep(mem, db', mem')
  BY <1>3 DEF MemSet, InStep
<1>5. KeepsSnaps(db, db')
  BY <1>1, PiecesKeep
<1> QED BY <1>4, <1>5, InStepCoupled

\* The setters of a node's content.
LEMMA SetDataCoupled ==
    ASSUME IndInv, TreeInv(db), Trees, Coupled, Untouched(db, db', m_cur),
           NEW id \in Ids, NEW types, NEW x \in Data,
           SetData(id, types, x), M!MemSetData(id, types, x)
    PROVE  Coupled'
<1> DEFINE r  == loadNode(db, id, m_cur)
           r1 == [r EXCEPT !.data = x]
           k  == M!liveVer(mem, id)
           w  == M!effR(mem, id, mem.cur)
           v  == [w EXCEPT !.snap = mem.cur, !.data = x]
<1>1. /\ m_cur \in Snaps /\ mem.cur = m_cur /\ MemInv(mem)
      /\ SameAt(db, mem, m_cur) /\ "snaps" \in DOMAIN db
  BY Standing
<1>2. r # NoRec /\ db' = storeNode(db, id, m_cur, r1) /\ UNCHANGED <<m_next, m_cur, m_clock>>
  BY DEF SetData, Rewrite
<1>3. r \in NodeRec /\ existedAt(db, id, m_cur)
  <2>1. db \in DbType /\ m_cur \in Int
    BY <1>1, BoundsAssumption DEF IndInv, TypeOK, Snaps
  <2> QED BY <1>2, <2>1, LoadNode DEF existedAt
<1>4. mem' = M!touch([k EXCEPT !.nodes[id][Len(k.nodes[id])].data = x], id)
  BY DEF M!MemSetData
<1>5. SameRec(w, r)
  BY <1>1 DEF SameAt
<1>6. w \in VerRec /\ mem.nodes[id] # <<>>
  <2>1. w # M!NoVer
    BY <1>2, <1>5 DEF SameRec
  <2> QED BY <1>1, <2>1, LiveRead
<1>7. MemSet(mem, mem', id, v)
  <2>1. k = M!liveVer(mem, id) /\ w = M!effR(mem, id, mem.cur)
    OBVIOUS
  <2> HIDE DEF k, w
  <2> QED BY <1>1, <1>4, <1>6, <2>1, MemSetters
<1> HIDE DEF r, w
<1>8. /\ r1 \in NodeRec /\ r1.type = r.type /\ r1.nlink = r.nlink /\ r1.data = x
      /\ r1.attr = r.attr /\ r1.stamp = r.stamp
      /\ r1.dnLinkVer = r.dnLinkVer /\ r1.upLinkVer = r.upLinkVer
  BY <1>3 DEF NodeRec
<1>9. /\ v \in VerRec /\ v.type = w.type /\ v.nlink = w.nlink /\ v.data = x
      /\ v.attr = w.attr /\ v.stamp = w.stamp
  BY <1>1, <1>6 DEF VerRec
<1> HIDE DEF v, r1
<1>10. SameRec(v, r1)
  BY <1>2, <1>5, <1>8, <1>9, NoVerIsNone, NoRecIsNoNode DEF SameRec
<1> QED BY <1>2, <1>3, <1>7, <1>8, <1>10, SetCoupled DEF r

\* The setters of a node's attributes.
LEMMA SetAttrCoupled ==
    ASSUME IndInv, TreeInv(db), Trees, Coupled, Untouched(db, db', m_cur),
           NEW id \in Ids, NEW at \in Times, NEW st \in Times,
           SetAttr(id, at, st), M!MemSetAttr(id, at, st)
    PROVE  Coupled'
<1> DEFINE r  == loadNode(db, id, m_cur)
           r1 == [r EXCEPT !.attr = at, !.stamp = st]
           k  == M!liveVer(mem, id)
           w  == M!effR(mem, id, mem.cur)
           v  == [w EXCEPT !.snap = mem.cur, !.attr = at, !.stamp = st]
<1>1. /\ m_cur \in Snaps /\ mem.cur = m_cur /\ MemInv(mem)
      /\ SameAt(db, mem, m_cur) /\ "snaps" \in DOMAIN db
  BY Standing
<1>2. r # NoRec /\ db' = storeNode(db, id, m_cur, r1) /\ UNCHANGED <<m_next, m_cur, m_clock>>
  BY DEF SetAttr, Rewrite
<1>3. r \in NodeRec /\ existedAt(db, id, m_cur)
  <2>1. db \in DbType /\ m_cur \in Int
    BY <1>1, BoundsAssumption DEF IndInv, TypeOK, Snaps
  <2> QED BY <1>2, <2>1, LoadNode DEF existedAt
<1>4. mem' = M!touch([k EXCEPT !.nodes[id][Len(k.nodes[id])].attr = at,
                               !.nodes[id][Len(k.nodes[id])].stamp = st], id)
  BY DEF M!MemSetAttr
<1>5. SameRec(w, r)
  BY <1>1 DEF SameAt
<1>6. w \in VerRec /\ mem.nodes[id] # <<>>
  <2>1. w # M!NoVer
    BY <1>2, <1>5 DEF SameRec
  <2> QED BY <1>1, <2>1, LiveRead
<1>7. MemSet(mem, mem', id, v)
  <2>1. k = M!liveVer(mem, id) /\ w = M!effR(mem, id, mem.cur)
    OBVIOUS
  <2> HIDE DEF k, w
  <2> QED BY <1>1, <1>4, <1>6, <2>1, MemSetters
<1> HIDE DEF r, w
<1>8. /\ r1 \in NodeRec /\ r1.type = r.type /\ r1.nlink = r.nlink /\ r1.data = r.data
      /\ r1.attr = at /\ r1.stamp = st
      /\ r1.dnLinkVer = r.dnLinkVer /\ r1.upLinkVer = r.upLinkVer
  BY <1>3 DEF NodeRec
<1>9. /\ v \in VerRec /\ v.type = w.type /\ v.nlink = w.nlink /\ v.data = w.data
      /\ v.attr = at /\ v.stamp = st
  BY <1>1, <1>6 DEF VerRec
<1> HIDE DEF v, r1
<1>10. SameRec(v, r1)
  BY <1>2, <1>5, <1>8, <1>9, NoVerIsNone, NoRecIsNoNode DEF SameRec
<1> QED BY <1>2, <1>3, <1>7, <1>8, <1>10, SetCoupled DEF r

\* The clock set in both stores.
LEMMA SetTimeCoupled ==
    ASSUME IndInv, IndInv', TreeInv(db), Trees, Coupled, Untouched(db, db', m_cur),
           NEW t \in Times, SetTime(t), M!MemSetTime(t)
    PROVE  Coupled'
<1>1. /\ m_cur \in Snaps /\ mem.cur = m_cur /\ MemInv(mem)
      /\ SameAt(db, mem, m_cur) /\ "snaps" \in DOMAIN db
  BY Standing
<1>2. /\ db' = [db EXCEPT !.clock = t] /\ m_clock' = t /\ m_next' = m_next /\ m_cur' = m_cur
      /\ mem' = [mem EXCEPT !.clock = t]
  BY DEF SetTime, M!MemSetTime
<1>3. MemClocked(mem, mem', t)
  BY <1>1, <1>2, MemTimed
<1>4. db'.nodes = db.nodes /\ db'.down = db.down /\ db'.up = db.up /\ db'.snaps = db.snaps
  <2>1. db \in DbType
    BY DEF IndInv, TypeOK
  <2> QED BY <1>2, <2>1 DEF DbType
<1>5. \A i \in Ids : /\ loadNode(db', i, m_cur) = loadNode(db, i, m_cur)
                     /\ linkSet(db', i, m_cur) = linkSet(db, i, m_cur)
  <2>1. DbInv(db')
    BY DEF IndInv
  <2> QED BY <1>4, <2>1, MetaTree
<1>6. SameAt(db', mem', m_cur) /\ SameBelow(mem, mem') /\ MemInv(mem')
  BY <1>1, <1>3, <1>5 DEF SameAt, SameBelow, MemClocked
<1>7. mem'.next = m_next' /\ mem'.cur = mem.cur /\ mem'.clock = m_clock' /\ mem'.snaps = db'.snaps
  BY <1>2, <1>3, <1>4 DEF MemClocked, Coupled
<1> QED BY <1>2, <1>6, <1>7, KeepCoupled

\* A snapshot taken in both stores.
LEMMA SnapshotCoupled ==
    ASSUME IndInv, IndInv', TreeInv(db), Trees, Coupled, Snapshot, M!MemSnapshot
    PROVE  Coupled'
<1>1. /\ m_cur \in Snaps /\ mem.cur = m_cur /\ MemInv(mem)
      /\ SameAt(db, mem, m_cur) /\ "snaps" \in DOMAIN db
  BY Standing
<1>2. /\ m_cur < MaxSnap /\ m_cur' = m_cur + 1 /\ m_next' = m_next /\ m_clock' = m_clock
      /\ db' = [db EXCEPT !.cur = m_cur + 1, !.snaps = @ \cup {<<m_cur, m_clock>>}]
      /\ mem' = [mem EXCEPT !.cur = @ + 1, !.snaps = @ \cup {<<mem.cur, mem.clock>>}]
  BY DEF Snapshot, M!MemSnapshot
<1>3. m_cur + 1 \in Snaps /\ m_cur \in Int
  BY <1>1, <1>2, BoundsAssumption DEF Snaps
<1>4. MemNextView(mem, mem')
  <2>1. mem.cur + 1 \in Snaps
    BY <1>1, <1>3
  <2> QED BY <1>1, <1>2, <2>1, MemSealed
<1>5. /\ db'.nodes = db.nodes /\ db'.down = db.down /\ db'.up = db.up
      /\ db'.snaps = db.snaps \cup {<<m_cur, m_clock>>}
  <2>1. db \in DbType
    BY DEF IndInv, TypeOK
  <2> QED BY <1>2, <2>1 DEF DbType
<1>6. \A g : \A i \in Ids : /\ loadNode(db', i, g) = loadNode(db, i, g)
                            /\ linkSet(db', i, g) = linkSet(db, i, g)
  <2>1. DbInv(db')
    BY DEF IndInv
  <2> QED BY <1>5, <2>1, MetaTree
<1>7. ASSUME NEW g \in 1..m_cur PROVE SameAt(db', mem', g)
  <2>1. SameAt(db, mem, g)
    BY <1>7 DEF Coupled, Visible
  <2> QED BY <1>4, <1>6, <2>1 DEF SameAt, MemNextView
<1>8. SameAt(db', mem', m_cur + 1)
  <2>1. \A i \in Ids : /\ loadNode(db, i, m_cur + 1) = loadNode(db, i, m_cur)
                       /\ linkSet(db, i, m_cur + 1) = linkSet(db, i, m_cur)
    BY <1>1, <1>3, NextViewSame DEF Trees
  <2>2. \A i \in Ids, n \in Names :
          /\ M!effR(mem', i, m_cur + 1) = M!effR(mem, i, m_cur)
          /\ M!childAt(mem', i, n, m_cur + 1) = M!childAt(mem, i, n, m_cur)
    BY <1>1, <1>4 DEF MemNextView
  <2>3. SNAPSHOT_NAME \in Names
    BY NamesAssumption
  <2> QED BY <1>1, <1>6, <2>1, <2>2, <2>3 DEF SameAt
<1>9. \A g \in 1..(m_cur + 1) : SameAt(db', mem', g)
  <2>1. \A g \in 1..(m_cur + 1) : g = m_cur + 1 \/ g \in 1..m_cur
    BY <1>3
  <2> QED BY <1>7, <1>8, <2>1
<1>10. /\ MemInv(mem') /\ mem'.next = m_next' /\ mem'.cur = m_cur' /\ mem'.clock = m_clock'
       /\ mem'.snaps = db'.snaps
  BY <1>1, <1>2, <1>4, <1>5 DEF MemNextView, Coupled
<1> QED BY <1>2, <1>9, <1>10 DEF Coupled, Visible

\* What holds of the two stores in every reachable state.
BothInv == IndInv /\ TreeInv(db) /\ Trees /\ Coupled

\* Two new stores, each with its root, read the same.
LEMMA InitCoupled ==
    ASSUME BothInit
    PROVE  Coupled
<1> DEFINE v  == M!NodeVer(1, "DIR", 1, 0, 0)
           ns == [id \in Ids |-> IF id = Root THEN <<v>> ELSE <<>>]
           ls == [k \in Ids \X Names |-> <<>>]
<1>1. /\ mem = [nodes |-> ns, links |-> ls, changes |-> {<<1, Root>>}, snaps |-> {}, next |-> 2,
                cur |-> 1, clock |-> 0]
      /\ m_next = 2 /\ m_cur = 1 /\ m_clock = 0 /\ Init
  BY DEF BothInit, Init, M!MemInit, M!Ids, M!Root, Ids, Root
<1>2. 1 \in Snaps /\ Root \in Ids /\ 2 \in 1..(MaxNode + 1)
  BY BoundsAssumption DEF Snaps, Ids, Root
<1>3. v \in VerRec /\ v.snap = 1
  BY <1>2, TypesAssumption, ValuesAssumption DEF M!NodeVer, VerRec
<1>4. /\ <<v>> \in Seq(VerRec) /\ Len(<<v>>) = 1 /\ <<v>>[1] = v /\ Ascending(<<v>>, 1)
      /\ EffOf(<<v>>, 1) = v
  BY <1>2, <1>3, OneVersion
<1> DEFINE ws == <<v>>
<1> HIDE DEF v
<1>5. /\ ns \in NodeLists /\ ns[Root] = ws /\ \A i \in Ids : i # Root => ns[i] = <<>>
  BY <1>2, <1>4 DEF NodeLists
<1>6. ls \in LinkLists /\ \A k \in Ids \X Names : ls[k] = <<>>
  BY DEF LinkLists
<1>7. ws \in Seq(VerRec) /\ Len(ws) = 1 /\ ws[1] = v /\ Ascending(ws, 1) /\ EffOf(ws, 1) = v
  BY <1>4
<1> HIDE DEF ns, ls, ws
<1>8. /\ mem.nodes = ns /\ mem.links = ls /\ mem.changes = {<<1, Root>>} /\ mem.snaps = {}
      /\ mem.next = 2 /\ mem.cur = 1 /\ mem.clock = 0
  BY <1>1
<1>9. mem \in MemType
  <2>1. {<<1, Root>>} \in Changes
    BY <1>2 DEF Changes
  <2>2. 0 \in Times
    BY ValuesAssumption
  <2> QED BY <1>1, <1>2, <1>5, <1>6, <2>1, <2>2 DEF MemType
<1>10. Len(<<>>) = 0 /\ <<>> \in Seq(VerRec) /\ <<>> \in Seq(IvRec)
  OBVIOUS
<1> DEFINE es == <<>>
<1>11. Ascending(es, 1) /\ Disjoint(es, 1) /\ EffOf(es, 1) = M!NoVer /\ ChildOf(es, 1) = NoId
  <2>1. Len(es) = 0 /\ es \in Seq(VerRec) /\ es \in Seq(IvRec) /\ es = <<>>
    BY <1>10
  <2>2. Ascending(es, 1) /\ Disjoint(es, 1)
    <3> HIDE DEF es
    <3> QED BY <2>1 DEF Ascending, Disjoint
  <2>3. EffOf(es, 1) = M!NoVer
    <3> HIDE DEF es
    <3>1. UpTo(es, 1, 0) /\ 0 \in 0..Len(es) /\ 1 \in Int
      BY <2>1 DEF UpTo
    <3> QED BY <2>1, <3>1, EffAt
  <2>4. LiveIn(es, 1) = {}
    BY DEF LiveIn
  <2>5. ChildOf(es, 1) = NoId
    <3> HIDE DEF es
    <3> QED BY <2>4, NoneLive
  <2> QED BY <2>2, <2>3, <2>5
<1>12. es = <<>> /\ Len(es) = 0
  BY <1>10
<1> HIDE DEF es
<1>13. VersionsIndexed(mem)
  <2> SUFFICES ASSUME NEW i \in Ids, NEW j \in 1..Len(ns[i]) PROVE <<ns[i][j].snap, i>> \in {<<1, Root>>}
    BY <1>8 DEF VersionsIndexed
  <2>1. i = Root
    BY <1>5, <1>12
  <2>2. Len(ns[i]) = 1
    BY <1>5, <1>7, <2>1
  <2>3. j = 1
    BY <2>2
  <2> QED BY <1>3, <1>5, <1>7, <2>1, <2>3
<1>14. MemInv(mem)
  <2>1. \A i \in Ids : Ascending(ns[i], 1)
    BY <1>5, <1>7, <1>11, <1>12
  <2>2. \A k \in Ids \X Names : Disjoint(ls[k], 1)
    BY <1>6, <1>11, <1>12
  <2> QED BY <1>8, <1>9, <1>13, <2>1, <2>2 DEF MemInv
<1>15. /\ loadNode(db, Root, 1) = RootRec
       /\ \A i \in Ids : linkSet(db, i, 1) = NoEntries
       /\ \A i \in Ids : i # Root => loadNode(db, i, 1) = NoRec
  BY <1>1, InitTree
<1>16. SameRec(v, RootRec) /\ SameRec(M!NoVer, NoRec)
  <2>1. RootRec # NoRec
    BY DEF RootRec, NoRec
  <2>2. v # M!NoVer
    BY <1>3, NoVerIsNone
  <2> QED BY <2>1, <2>2 DEF SameRec, RootRec, v, M!NodeVer
<1>17. SameAt(db, mem, 1)
  <2> SUFFICES ASSUME NEW i \in Ids
               PROVE  /\ SameRec(M!effR(mem, i, 1), loadNode(db, i, 1))
                      /\ \A n \in Names : M!childAt(mem, i, n, 1) = linkSet(db, i, 1)[n]
    BY DEF SameAt
  <2>1. M!effR(mem, i, 1) = IF i = Root THEN v ELSE M!NoVer
    BY <1>5, <1>7, <1>8, <1>11, <1>12, EffIsEffOf
  <2>2. SameRec(M!effR(mem, i, 1), loadNode(db, i, 1))
    BY <1>15, <1>16, <2>1
  <2>3. ASSUME NEW n \in Names PROVE M!childAt(mem, i, n, 1) = linkSet(db, i, 1)[n]
    <3>1. ls[<<i, n>>] = es
      BY <1>6, <1>12
    <3>2. M!childAt(mem, i, n, 1) = NoId
      BY <1>8, <1>11, <3>1, ChildIsChildOf
    <3> QED BY <1>15, <3>2 DEF NoEntries
  <2> QED BY <2>2, <2>3
<1>18. db.snaps = {}
  <2>1. KeepsSnaps(EmptyDb, db)
    <3>1. "snaps" \in DOMAIN EmptyDb
      BY DEF EmptyDb
    <3> QED BY <1>1, <3>1, PiecesKeep DEF Init
  <2> QED BY <2>1 DEF KeepsSnaps, EmptyDb
<1>19. \A g \in 1..1 : g = 1
  OBVIOUS
<1> QED BY <1>1, <1>8, <1>14, <1>17, <1>18, <1>19 DEF Coupled, Visible

\* The invariant holds at the start.
LEMMA InitBoth ==
    ASSUME BothInit
    PROVE  BothInv
<1>1. Init
  BY DEF BothInit
<1>2. IndInv
  BY <1>1, InitInv
<1>3. /\ TreeInv(db) /\ TreeAt(db, 1) /\ db.cur = 1
      /\ \A id \in Ids, s \in Snaps : s > 1 => db.nodes[id][s] = NoRec
  BY <1>1, InitTree
<1>4. m_cur = 1
  BY <1>1 DEF Init
<1>5. Trees
  BY <1>3, <1>4 DEF Trees, NothingAbove, Visible
<1> QED BY <1>2, <1>3, <1>5, InitCoupled DEF BothInv

\* A step of both stores is one of the copy-on-write store in which no snapshot fails.
LEMMA BothIsNext ==
    ASSUME IndInv, Trees, [BothNext]_bothvars
    PROVE  [Next]_vars /\ ~SnapshotFails
<1>1. [Next]_vars
  BY DEF BothNext, bothvars, Next
<1>2. ~SnapshotFails
  <2>1. SUFFICES ASSUME SnapshotFails PROVE FALSE
    OBVIOUS
  <2>2. m_cur' = m_cur + 1 /\ db' = db /\ m_cur \in Int /\ db \in DbType /\ db.cur = m_cur
    BY <2>1, BoundsAssumption DEF SnapshotFails, IndInv, TypeOK, Snaps, Trees
  <2>3. m_cur' # m_cur
    BY <2>2
  <2>4. Snapshot
    BY <2>3 DEF BothNext, bothvars, vars, Alloc, Link, Unlink, Move, SetData, SetAttr, Rewrite, SetTime
  <2>5. db'.cur = m_cur + 1
    BY <2>2, <2>4 DEF Snapshot, DbType
  <2> QED BY <2>2, <2>5
<1> QED BY <1>1, <1>2

\* Every call keeps it.
LEMMA StepBoth ==
    ASSUME BothInv, [BothNext]_bothvars
    PROVE  BothInv'
<1>1. IndInv /\ TreeInv(db) /\ Trees /\ Coupled
  BY DEF BothInv
<1>2. [Next]_vars /\ ~SnapshotFails
  BY <1>1, BothIsNext
<1>3. IndInv' /\ Untouched(db, db', m_cur)
  BY <1>1, <1>2, StepInv
<1>4. TreeInv(db') /\ Trees'
  BY <1>1, <1>2, StepTree, StepTrees
<1>5. Coupled'
  <2>1. ASSUME NEW type \in Types, NEW data \in Data, Alloc(type, data), M!MemAlloc(type, data)
        PROVE  Coupled'
    BY <1>1, <1>3, <2>1, AllocCoupled
  <2>2. ASSUME NEW dir \in Ids, NEW child \in Ids, NEW name \in Names,
               Link(dir, name, child), M!MemLink(dir, name, child)
        PROVE  Coupled'
    BY <1>1, <1>3, <2>2, LinkCoupled
  <2>3. ASSUME NEW dir \in Ids, NEW name \in Names, Unlink(dir, name), M!MemUnlink(dir, name)
        PROVE  Coupled'
    BY <1>1, <1>3, <2>3, UnlinkCoupled
  <2>4. ASSUME NEW sdir \in Ids, NEW ddir \in Ids, NEW sn \in Names, NEW dn \in Names,
               Move(sdir, sn, ddir, dn), M!MemMove(sdir, sn, ddir, dn)
        PROVE  Coupled'
    BY <1>1, <1>3, <2>4, MoveCoupled
  <2>5. ASSUME NEW id \in Ids, NEW types \in DataSetters, NEW v \in Data,
               SetData(id, types, v), M!MemSetData(id, types, v)
        PROVE  Coupled'
    BY <1>1, <1>3, <2>5, SetDataCoupled
  <2>6. ASSUME NEW id \in Ids, NEW attr \in Times, NEW stamp \in Times,
               SetAttr(id, attr, stamp), M!MemSetAttr(id, attr, stamp)
        PROVE  Coupled'
    BY <1>1, <1>3, <2>6, SetAttrCoupled
  <2>7. ASSUME NEW t \in Times, SetTime(t), M!MemSetTime(t)
        PROVE  Coupled'
    BY <1>1, <1>3, <2>7, SetTimeCoupled
  <2>8. ASSUME Snapshot, M!MemSnapshot
        PROVE  Coupled'
    BY <1>1, <1>3, <2>8, SnapshotCoupled
  <2>9. CASE UNCHANGED bothvars
    BY <1>1, <2>9 DEF Coupled, bothvars, vars, Visible
  <2> QED BY <2>1, <2>2, <2>3, <2>4, <2>5, <2>6, <2>7, <2>8, <2>9 DEF BothNext
<1> QED BY <1>1, <1>3, <1>4, <1>5 DEF BothInv

\* The two stores stay coupled whatever calls they are given.
THEOREM StoresCoupled == BothSpec => []BothInv
<1>1. BothInit => BothInv
  BY InitBoth
<1>2. BothInv /\ [BothNext]_bothvars => BothInv'
  BY StepBoth
<1> QED BY <1>1, <1>2, PTL DEF BothSpec

-----------------------------------------------------------------------------
(* What coupled stores answer. *)

\* What is known of one visible view.
LEMMA InView ==
    ASSUME BothInv, NEW g \in Visible
    PROVE  /\ g \in Snaps /\ g \in Int /\ DbInv(db) /\ TreeInv(db) /\ TreeAt(db, g)
           /\ MemInv(mem) /\ SameAt(db, mem, g)
<1>1. m_cur \in Snaps /\ DbInv(db)
  BY DEF BothInv, IndInv, TypeOK
<1>2. g \in Snaps /\ g \in Int
  BY <1>1, BoundsAssumption DEF Snaps, Visible
<1> QED BY <1>1, <1>2 DEF BothInv, Coupled, Trees

\* parents() collects the directories in which some name leads to the node.
LEMMA SameParents ==
    ASSUME BothInv, NEW g \in Visible, NEW id \in Ids
    PROVE  {x[1] : x \in parents(db, id, g)} = M!parents(mem, id, g)
<1> DEFINE P == parents(db, id, g)
           Q == M!parents(mem, id, g)
<1>1. /\ g \in Snaps /\ g \in Int /\ DbInv(db) /\ TreeAt(db, g)
      /\ MemInv(mem) /\ SameAt(db, mem, g)
  BY InView
<1>2. P \in SUBSET (Ids \X Names)
  BY <1>1, ReadTypes
<1>3. \A a \in Ids, b \in Names : <<a, b>> \in P <=> linkSet(db, a, g)[b] = id
  BY <1>1 DEF TreeAt, Mirrored
<1>4. \A a \in Ids, b \in Names : linkSet(db, a, g)[b] = ChildOf(mem.links[<<a, b>>], g)
  BY <1>1, ChildIsChildOf DEF SameAt
<1>5. id # NoId
  BY BoundsAssumption DEF Ids, NoId
<1>6. ASSUME NEW a \in Ids, NEW b \in Names
      PROVE  ChildOf(mem.links[<<a, b>>], g) = id <=>
               \E i \in DOMAIN mem.links[<<a, b>>] :
                   mem.links[<<a, b>>][i].child = id /\ M!liveAt(mem.links[<<a, b>>][i], g)
  <2> DEFINE ivs == mem.links[<<a, b>>]
  <2>1. ivs \in Seq(IvRec) /\ mem.cur \in Int /\ Disjoint(ivs, mem.cur)
    <3>1. <<a, b>> \in Ids \X Names
      OBVIOUS
    <3> QED BY <1>1, <3>1, MemFields DEF MemInv
  <2> HIDE DEF ivs
  <2>2. /\ ChildOf(ivs, g) # NoId => FirstIn(ivs, g) \in LiveIn(ivs, g)
        /\ \A i \in LiveIn(ivs, g) : ivs[i].child = ChildOf(ivs, g)
    BY <1>1, <2>1, ChildIff
  <2>3. ChildOf(ivs, g) = id <=> \E i \in DOMAIN ivs : ivs[i].child = id /\ M!liveAt(ivs[i], g)
    BY <1>5, <2>2 DEF LiveIn
  <2> QED BY <2>3 DEF ivs
<1>7. \A a : a \in Q <=> a \in Ids /\ \E b \in Names : ChildOf(mem.links[<<a, b>>], g) = id
  BY <1>6 DEF M!parents, M!Ids, Ids
<1> HIDE DEF P, Q
<1>8. \A a : a \in Q <=> a \in Ids /\ \E b \in Names : <<a, b>> \in P
  BY <1>3, <1>4, <1>7
<1>9. ASSUME NEW a PROVE a \in {x[1] : x \in P} <=> a \in Q
  <2>1. ASSUME a \in {x[1] : x \in P} PROVE a \in Q
    <3>1. PICK x \in P : a = x[1]
      BY <2>1
    <3>2. x \in Ids \X Names
      BY <1>2
    <3>3. a \in Ids /\ x[2] \in Names /\ x = <<a, x[2]>>
      BY <3>1, <3>2
    <3> QED BY <1>8, <3>3
  <2>2. ASSUME a \in Q PROVE a \in {x[1] : x \in P}
    <3>1. PICK b \in Names : <<a, b>> \in P
      BY <1>8, <2>2
    <3>2. <<a, b>>[1] = a
      OBVIOUS
    <3> QED BY <3>1, <3>2
  <2> QED BY <2>1, <2>2
<1>10. {x[1] : x \in P} = Q
  BY <1>9
<1> QED BY <1>10 DEF P, Q

\* The coupling gives every read.
LEMMA ViewsAgree ==
    ASSUME BothInv
    PROVE  ReadsAgree
<1>1. mem.snaps = db.snaps
  BY DEF BothInv, Coupled
<1>2. ASSUME NEW g \in Visible, NEW id \in Ids
      PROVE  StoreView(id, g) = MemView(id, g)
  <2> DEFINE r == loadNode(db, id, g)
             v == M!effR(mem, id, g)
             es == linkSet(db, id, g)
             fs == [n \in Names |-> M!childAt(mem, id, n, g)]
             ps == {x[1] : x \in parents(db, id, g)}
             qs == M!parents(mem, id, g)
  <2>1. g \in Snaps /\ g \in Int /\ DbInv(db) /\ SameAt(db, mem, g)
    BY <1>2, InView
  <2>2. SameRec(v, r)
    BY <2>1 DEF SameAt
  <2>3. es = fs
    <3>1. es \in Entries
      BY <2>1, ReadTypes
    <3>2. \A n \in Names : es[n] = M!childAt(mem, id, n, g)
      BY <2>1 DEF SameAt
    <3> HIDE DEF es
    <3> QED BY <3>1, <3>2 DEF Entries
  <2>4. ps = qs
    BY <1>2, SameParents
  <2>5. CASE r = NoRec
    <3>1. NodeView(db, id, g) = NoRec
      BY <2>5 DEF NodeView
    <3>2. StoreView(id, g) = NoRec
      BY <3>1 DEF StoreView
    <3>3. v = M!NoVer
      BY <2>2, <2>5 DEF SameRec
    <3>4. MemView(id, g) = NoRec
      BY <3>3 DEF MemView
    <3> QED BY <3>2, <3>4
  <2>6. CASE r # NoRec
    <3> DEFINE N == [type |-> r.type, nlink |-> r.nlink, data |-> r.data, attr |-> r.attr,
                     stamp |-> r.stamp, entries |-> es, parents |-> parents(db, id, g)]
    <3>1. NodeView(db, id, g) = N
      BY <2>6 DEF NodeView
    <3>2. N # NoRec
      <4>1. r.type # "NONE"
        <5>1. r \in NodeRec
          BY <2>1, <2>6, LoadNode DEF DbInv
        <5> HIDE DEF r
        <5> QED BY <5>1, TypesAssumption DEF NodeRec
      <4>2. N.type = r.type
        OBVIOUS
      <4> HIDE DEF N
      <4> QED BY <4>1, <4>2, NoRecIsNoNode
    <3>3. StoreView(id, g) = [N EXCEPT !.parents = {x[1] : x \in @}]
      BY <3>1, <3>2 DEF StoreView
    <3> HIDE DEF r, es, ps
    <3>4. StoreView(id, g) = [type |-> r.type, nlink |-> r.nlink, data |-> r.data, attr |-> r.attr,
                              stamp |-> r.stamp, entries |-> es, parents |-> ps]
      BY <3>3 DEF ps
    <3>5. v # M!NoVer
      BY <2>2, <2>6 DEF SameRec
    <3>6. MemView(id, g) = [type |-> v.type, nlink |-> v.nlink, data |-> v.data, attr |-> v.attr,
                            stamp |-> v.stamp, entries |-> fs, parents |-> qs]
      BY <3>5 DEF MemView
    <3> HIDE DEF v, fs, qs
    <3> QED BY <2>2, <2>3, <2>4, <2>6, <3>4, <3>6 DEF SameRec
  <2> QED BY <2>5, <2>6
<1> QED BY <1>1, <1>2 DEF ReadsAgree

\* The live view.
LEMMA InLiveView ==
    ASSUME BothInv
    PROVE  /\ m_cur \in Snaps /\ m_cur \in Int /\ mem.cur = m_cur /\ DbInv(db) /\ TreeInv(db)
           /\ MemInv(mem) /\ SameAt(db, mem, m_cur)
<1>1. m_cur \in Visible
  BY BoundsAssumption DEF BothInv, IndInv, TypeOK, Snaps, Visible
<1> QED BY <1>1, InView DEF BothInv, Coupled

\* A node's type, whether it exists or not.
LEMMA SameDirs ==
    ASSUME BothInv, NEW id \in Ids
    PROVE  isDir(db, id, m_cur) <=> M!effR(mem, id, mem.cur).type = "DIR"
<1>1. mem.cur = m_cur /\ SameRec(M!effR(mem, id, m_cur), loadNode(db, id, m_cur))
  BY InLiveView DEF SameAt
<1>2. NoRec.type = "NONE" /\ M!NoVer = NoRec
  BY NoRecIsNoNode, NoVerIsNone
<1>3. "NONE" # "DIR"
  OBVIOUS
<1> QED BY <1>1, <1>2, <1>3 DEF SameRec, isDir

\* Both searches for a cycle go down the same entries.
LEMMA SameSubdirs ==
    ASSUME BothInv, NEW n \in Ids
    PROVE  subdirs(db, n, m_cur) = M!subdirs(mem, n)
<1>1. /\ m_cur \in Snaps /\ mem.cur = m_cur /\ DbInv(db) /\ SameAt(db, mem, m_cur)
  BY InLiveView
<1> DEFINE es == linkSet(db, n, m_cur)
<1>2. es \in Entries
  BY <1>1, ReadTypes
<1>3. \A nm \in Names : es[nm] = M!childAt(mem, n, nm, mem.cur)
  BY <1>1 DEF SameAt
<1>4. subdirs(db, n, m_cur) = {c \in {es[nm] : nm \in Names} \ {NoId} : isDir(db, c, m_cur)}
  BY DEF subdirs
<1>5. M!subdirs(mem, n) = {c \in {M!childAt(mem, n, nm, mem.cur) : nm \in Names} \ {NoId} :
                              M!effR(mem, c, mem.cur).type = "DIR"}
  BY DEF M!subdirs, M!NoId, NoId
<1> HIDE DEF es
<1>6. {es[nm] : nm \in Names} = {M!childAt(mem, n, nm, mem.cur) : nm \in Names}
  BY <1>3
<1>7. {es[nm] : nm \in Names} \ {NoId} \subseteq Ids
  BY <1>2 DEF Entries
<1>8. \A c \in Ids : isDir(db, c, m_cur) <=> M!effR(mem, c, mem.cur).type = "DIR"
  BY SameDirs
<1> DEFINE A == {es[nm] : nm \in Names}
<1> HIDE DEF A
<1>9. /\ A \ {NoId} \subseteq Ids
      /\ subdirs(db, n, m_cur) = {c \in A \ {NoId} : isDir(db, c, m_cur)}
      /\ M!subdirs(mem, n) = {c \in A \ {NoId} : M!effR(mem, c, mem.cur).type = "DIR"}
  BY <1>4, <1>5, <1>6, <1>7 DEF A
<1> QED BY <1>8, <1>9

\* They reach the same nodes.
LEMMA SameReachable ==
    ASSUME BothInv, NEW from \in Ids, NEW to \in Ids
    PROVE  reachable(db, from, to, m_cur) <=> M!reachable(mem, from, to)
<1> DEFINE s == [n \in Ids |-> subdirs(db, n, m_cur)]
           t == [n \in Ids |-> M!subdirs(mem, n)]
<1>1. s = t
  BY SameSubdirs
<1>2. reachable(db, from, to, m_cur) <=>
        \A S \in SUBSET Ids : from \in S /\ (\A n \in S : s[n] \subseteq S) => to \in S
  BY DEF reachable
<1>3. M!reachable(mem, from, to) <=>
        \A S \in SUBSET Ids : from \in S /\ (\A n \in S : t[n] \subseteq S) => to \in S
  BY DEF M!reachable, M!Ids, Ids
<1> HIDE DEF s, t
<1> QED BY <1>1, <1>2, <1>3

\* The coupling gives every refusal.
LEMMA ErrorsAgree ==
    ASSUME BothInv
    PROVE  AnswersAgree
<1>1. /\ m_cur \in Snaps /\ m_cur \in Int /\ mem.cur = m_cur /\ DbInv(db) /\ TreeInv(db)
      /\ MemInv(mem) /\ SameAt(db, mem, m_cur)
  BY InLiveView
<1>2. ASSUME NEW dir \in Ids, NEW name \in Names
      PROVE  unlinkErr(db, m_cur, dir, name) = M!unlinkErr(mem, dir, name)
  <2> DEFINE ivs == mem.links[<<dir, name>>]
  <2>1. ivs \in Seq(IvRec) /\ Disjoint(ivs, m_cur)
    <3>1. <<dir, name>> \in Ids \X Names
      OBVIOUS
    <3> QED BY <1>1, <3>1, MemFields DEF MemInv
  <2>2. M!liveIv(mem, <<dir, name>>, mem.cur) = FirstIn(ivs, m_cur)
    BY <1>1, ChildIsChildOf
  <2>3. unlinkChild(db, m_cur, dir, name) = linkSet(db, dir, m_cur)[name]
    BY <1>1, UnlinkChildRead
  <2>4. linkSet(db, dir, m_cur)[name] = M!childAt(mem, dir, name, m_cur)
    BY <1>1 DEF SameAt
  <2>5. M!childAt(mem, dir, name, m_cur) = ChildOf(ivs, m_cur)
    BY ChildIsChildOf
  <2> HIDE DEF ivs
  <2>6. FirstIn(ivs, m_cur) = 0 <=> ChildOf(ivs, m_cur) = NoId
    BY <1>1, <2>1, ChildIff
  <2>7. M!liveIv(mem, <<dir, name>>, mem.cur) = 0 <=> unlinkChild(db, m_cur, dir, name) = NoId
    BY <2>2, <2>3, <2>4, <2>5, <2>6
  <2> QED BY <2>7 DEF unlinkErr, M!unlinkErr
<1>3. ASSUME NEW dir \in Ids, NEW name \in Names, NEW child \in Ids,
             existedAt(db, dir, m_cur), existedAt(db, child, m_cur)
      PROVE  linkErr(db, m_cur, dir, name, child) = M!linkErr(mem, dir, name, child)
  <2>1. /\ isDir(db, dir, m_cur) <=> M!effR(mem, dir, mem.cur).type = "DIR"
        /\ isDir(db, child, m_cur) <=> M!effR(mem, child, mem.cur).type = "DIR"
    BY SameDirs
  <2>2. reachable(db, child, dir, m_cur) <=> M!reachable(mem, child, dir)
    BY SameReachable
  <2>3. isDir(db, dir, m_cur) => db.down[dir][loadNode(db, dir, m_cur).dnLinkVer][name]
                                   = M!childAt(mem, dir, name, mem.cur)
    <3>1. isDir(db, dir, m_cur) =>
            linkSet(db, dir, m_cur) = db.down[dir][loadNode(db, dir, m_cur).dnLinkVer]
      BY DEF isDir, linkSet
    <3>2. linkSet(db, dir, m_cur)[name] = M!childAt(mem, dir, name, mem.cur)
      BY <1>1 DEF SameAt
    <3> QED BY <3>1, <3>2
  <2> QED BY <1>3, <2>1, <2>2, <2>3 DEF linkErr, M!linkErr, M!NoId, NoId
<1> QED BY <1>2, <1>3 DEF AnswersAgree

\* No version between two snapshots: both read the same one.
LEMMA EffBetween ==
    ASSUME NEW vs \in Seq(VerRec), NEW a \in Int, NEW b \in Int, a <= b,
           \A i \in 1..Len(vs) : ~(a < vs[i].snap /\ vs[i].snap <= b)
    PROVE  EffOf(vs, a) = EffOf(vs, b)
<1>1. PICK k \in 0..Len(vs) : UpTo(vs, a, k)
  BY UpToExists
<1>2. \A i \in 1..Len(vs) : vs[i].snap \in Int
  BY Vers
<1>3. UpTo(vs, b, k)
  <2>1. \A i \in 1..k : vs[i].snap <= b
    BY <1>1, <1>2 DEF UpTo
  <2>2. ASSUME k < Len(vs) PROVE vs[k + 1].snap > b
    <3>1. k + 1 \in 1..Len(vs)
      BY <1>1, <2>2
    <3> QED BY <1>1, <1>2, <2>2, <3>1 DEF UpTo
  <2> QED BY <2>1, <2>2 DEF UpTo
<1> QED BY <1>1, <1>3, EffAt

\* One node compared at two snapshots.
LEMMA SameChange ==
    ASSUME BothInv, NEW a \in Visible, NEW b \in Visible, NEW id \in Ids
    PROVE  nodeChange(db, id, a, b) = M!nodeChange(M!effR(mem, id, a), M!effR(mem, id, b))
<1> DEFINE va == M!effR(mem, id, a)
           vb == M!effR(mem, id, b)
           ra == loadNode(db, id, a)
           rb == loadNode(db, id, b)
<1>1. SameRec(va, ra) /\ SameRec(vb, rb)
  BY InView DEF SameAt
<1>2. /\ aliveAt(db, id, a) <=> va # M!NoVer /\ va.nlink > 0
      /\ aliveAt(db, id, b) <=> vb # M!NoVer /\ vb.nlink > 0
  BY <1>1 DEF SameRec, aliveAt, existedAt
<1>3. /\ aliveAt(db, id, a) => va.data = ra.data /\ va.attr = ra.attr
      /\ aliveAt(db, id, b) => vb.data = rb.data /\ vb.attr = rb.attr
  BY <1>1 DEF SameRec, aliveAt, existedAt
<1> HIDE DEF va, vb
<1>4. nodeChange(db, id, a, b) = M!nodeChange(va, vb)
  BY <1>2, <1>3 DEF nodeChange, M!nodeChange
<1> QED BY <1>4 DEF va, vb

\* A node that differs has a version in between, so it is among the candidates.
LEMMA SameDiffNodes ==
    ASSUME BothInv, NEW a \in Visible, NEW b \in Visible, a <= b
    PROVE  diffNodesOf(db, Ids, a, b) = M!diffNodes(mem, a, b)
<1> DEFINE nc(id) == nodeChange(db, id, a, b)
           cand == {id \in Ids : \E s \in Snaps : a < s /\ s <= b /\ <<s, id>> \in mem.changes}
           D == {<<id, nc(id)>> : id \in {i \in Ids : nc(i) # "NONE"}}
           E == {ch \in {<<id, M!nodeChange(M!effR(mem, id, a), M!effR(mem, id, b))>> : id \in cand} :
                    ch[2] # "NONE"}
<1>1. a \in Int /\ b \in Int /\ MemInv(mem)
  BY InView
<1>2. diffNodesOf(db, Ids, a, b) = D
  BY DEF diffNodesOf
<1>3. M!diffNodes(mem, a, b) = E
  BY DEF M!diffNodes, M!Ids, M!Snaps, Ids, Snaps
<1>4. \A id \in Ids : M!nodeChange(M!effR(mem, id, a), M!effR(mem, id, b)) = nc(id)
  BY SameChange
<1>5. ASSUME NEW id \in Ids, id \notin cand PROVE nc(id) = "NONE"
  <2> DEFINE vs == mem.nodes[id]
  <2>1. vs \in Seq(VerRec)
    BY <1>1, MemFields DEF MemInv
  <2>2. \A i \in 1..Len(vs) : <<vs[i].snap, id>> \in mem.changes /\ vs[i].snap \in Snaps
    <3>1. \A i \in 1..Len(vs) : <<vs[i].snap, id>> \in mem.changes
      BY <1>1 DEF MemInv, VersionsIndexed
    <3>2. \A v \in VerRec : v.snap \in Snaps
      BY DEF VerRec
    <3>3. \A i \in 1..Len(vs) : vs[i] \in VerRec
      BY <2>1, Vers
    <3> QED BY <3>1, <3>2, <3>3
  <2>3. \A i \in 1..Len(vs) : ~(a < vs[i].snap /\ vs[i].snap <= b)
    BY <1>5, <2>2
  <2> HIDE DEF vs
  <2>4. EffOf(vs, a) = EffOf(vs, b)
    BY <1>1, <2>1, <2>3, EffBetween
  <2>5. M!effR(mem, id, a) = M!effR(mem, id, b)
    BY <2>4, EffIsEffOf DEF vs
  <2>6. M!nodeChange(M!effR(mem, id, a), M!effR(mem, id, b)) = "NONE"
    BY <2>5 DEF M!nodeChange
  <2> QED BY <1>4, <2>6
<1>6. cand \subseteq Ids
  OBVIOUS
<1> HIDE DEF cand, nc
<1>7. E = {ch \in {<<id, nc(id)>> : id \in cand} : ch[2] # "NONE"}
  BY <1>4, <1>6
<1>8. D = {ch \in {<<id, nc(id)>> : id \in cand} : ch[2] # "NONE"}
  BY <1>5, <1>6
<1> QED BY <1>2, <1>3, <1>7, <1>8

\* One entry compared at two snapshots.
LEMMA SameDiffPaths ==
    ASSUME BothInv, NEW a \in Visible, NEW b \in Visible
    PROVE  diffPathsOf(db, Ids, a, b) =
             {ch \in M!diffPaths(mem, a, b) :
                 NoId \in {M!childAt(mem, ch[2], ch[3], a), M!childAt(mem, ch[2], ch[3], b)}}
<1> DEFINE at(k, g) == M!childAt(mem, k[1], k[2], g)
           K == Ids \X Names
           D == diffPathsOf(db, Ids, a, b)
           P == M!diffPaths(mem, a, b)
           F == {ch \in P : NoId \in {M!childAt(mem, ch[2], ch[3], a), M!childAt(mem, ch[2], ch[3], b)}}
           added(k) == <<"ADDED", k[1], k[2], at(k, b)>>
           removed(k) == <<"REMOVED", k[1], k[2], at(k, a)>>
<1>1. \A k \in K : at(k, a) = linkSet(db, k[1], a)[k[2]] /\ at(k, b) = linkSet(db, k[1], b)[k[2]]
  BY InView DEF SameAt
<1>2. P = {added(k) : k \in {k \in {k \in K : at(k, a) # at(k, b)} : at(k, b) # NoId}}
          \cup {removed(k) : k \in {k \in {k \in K : at(k, a) # at(k, b)} : at(k, a) # NoId}}
  BY DEF M!diffPaths, M!Ids, Ids, M!NoId, NoId
<1>3. D = {ch \in {pathChange(db, x[1], x[2], a, b) : x \in K} : ch[1] # "NONE"}
  BY DEF diffPathsOf
<1>4. \A k \in K : pathChange(db, k[1], k[2], a, b) =
         IF at(k, a) = NoId /\ at(k, b) # NoId THEN added(k)
         ELSE IF at(k, a) # NoId /\ at(k, b) = NoId THEN removed(k)
         ELSE <<"NONE", k[1], k[2], at(k, a)>>
  BY <1>1 DEF pathChange
<1>5. ASSUME NEW k \in K
      PROVE  /\ added(k)[1] # "NONE" /\ added(k)[2] = k[1] /\ added(k)[3] = k[2]
             /\ removed(k)[1] # "NONE" /\ removed(k)[2] = k[1] /\ removed(k)[3] = k[2]
             /\ <<"NONE", k[1], k[2], at(k, a)>>[1] = "NONE"
  OBVIOUS
<1>6. \A ch : ch \in F <=> ch \in P /\ (M!childAt(mem, ch[2], ch[3], a) = NoId
                                         \/ M!childAt(mem, ch[2], ch[3], b) = NoId)
  OBVIOUS
<1>7. \A k \in K : /\ M!childAt(mem, added(k)[2], added(k)[3], a) = at(k, a)
                   /\ M!childAt(mem, added(k)[2], added(k)[3], b) = at(k, b)
                   /\ M!childAt(mem, removed(k)[2], removed(k)[3], a) = at(k, a)
                   /\ M!childAt(mem, removed(k)[2], removed(k)[3], b) = at(k, b)
  BY <1>5
<1> HIDE DEF at, D, P, F, added, removed, K
<1>8. ASSUME NEW ch \in D PROVE ch \in F
  <2>1. PICK k \in K : ch = pathChange(db, k[1], k[2], a, b) /\ ch[1] # "NONE"
    BY <1>3, <1>8
  <2>2. CASE at(k, a) = NoId /\ at(k, b) # NoId
    <3>1. ch = added(k) /\ ch \in P
      BY <1>2, <1>4, <2>1, <2>2
    <3> QED BY <1>6, <1>7, <2>2, <3>1
  <2>3. CASE at(k, a) # NoId /\ at(k, b) = NoId
    <3>1. ch = removed(k) /\ ch \in P
      BY <1>2, <1>4, <2>1, <2>3
    <3> QED BY <1>6, <1>7, <2>3, <3>1
  <2>4. CASE ~(at(k, a) = NoId /\ at(k, b) # NoId) /\ ~(at(k, a) # NoId /\ at(k, b) = NoId)
    BY <1>4, <1>5, <2>1, <2>4
  <2> QED BY <2>2, <2>3, <2>4
<1>9. ASSUME NEW ch \in F PROVE ch \in D
  <2>1. ch \in P /\ (M!childAt(mem, ch[2], ch[3], a) = NoId \/ M!childAt(mem, ch[2], ch[3], b) = NoId)
    BY <1>6, <1>9
  <2>2. PICK k \in K : /\ at(k, a) # at(k, b)
                       /\ \/ ch = added(k) /\ at(k, b) # NoId
                          \/ ch = removed(k) /\ at(k, a) # NoId
    BY <1>2, <2>1
  <2>3. at(k, a) = NoId \/ at(k, b) = NoId
    BY <1>7, <2>1, <2>2
  <2>4. CASE ch = added(k) /\ at(k, b) # NoId
    <3>1. ch = pathChange(db, k[1], k[2], a, b) /\ ch[1] # "NONE"
      BY <1>4, <1>5, <2>3, <2>4
    <3> QED BY <1>3, <3>1
  <2>5. CASE ch = removed(k) /\ at(k, a) # NoId
    <3>1. ch = pathChange(db, k[1], k[2], a, b) /\ ch[1] # "NONE"
      BY <1>4, <1>5, <2>3, <2>5
    <3> QED BY <1>3, <3>1
  <2> QED BY <2>2, <2>4, <2>5
<1>10. D = F
  BY <1>8, <1>9
<1> QED BY <1>10 DEF D, F, P

\* The entries of a view are finitely many, however many names there are.
LEMMA EntriesFinite ==
    ASSUME BothInv, NEW g \in Visible
    PROVE  IsFiniteSet({x \in Ids \X Names : linkSet(db, x[1], g)[x[2]] # NoId})
<1> DEFINE A == {x \in Ids \X Names : linkSet(db, x[1], g)[x[2]] # NoId}
           f == [id \in Ids |-> parents(db, id, g)]
           T == {parents(db, id, g) : id \in Ids}
<1>1. g \in Snaps /\ DbInv(db) /\ TreeInv(db) /\ TreeAt(db, g)
  BY InView
<1>2. IsFiniteSet(Ids)
  BY BoundsAssumption, FS_Interval DEF Ids
<1>3. f \in Surjection(Ids, T)
  BY DEF Surjection
<1>4. IsFiniteSet(T)
  <2> HIDE DEF f, T
  <2> QED BY <1>2, <1>3, FS_Surjection
<1>5. \A t \in T : IsFiniteSet(t)
  BY <1>1, ParentsFinite
<1>6. IsFiniteSet(UNION T)
  <2> HIDE DEF T
  <2> QED BY <1>4, <1>5, FS_UNION
<1>7. A \subseteq UNION T
  <2> SUFFICES ASSUME NEW x \in A PROVE x \in UNION T
    OBVIOUS
  <2> DEFINE c == linkSet(db, x[1], g)[x[2]]
  <2>1. x[1] \in Ids /\ x[2] \in Names /\ x = <<x[1], x[2]>> /\ c # NoId
    OBVIOUS
  <2>2. c \in Ids
    <3>1. linkSet(db, x[1], g) \in Entries
      BY <1>1, <2>1, ReadTypes
    <3> QED BY <2>1, <3>1 DEF Entries
  <2>3. x \in parents(db, c, g)
    <3>1. c = linkSet(db, x[1], g)[x[2]]
      OBVIOUS
    <3> HIDE DEF c
    <3> QED BY <1>1, <2>1, <2>2, <3>1 DEF TreeAt, Mirrored
  <2> QED BY <2>2, <2>3
<1>8. IsFiniteSet(A)
  <2> HIDE DEF A, T
  <2> QED BY <1>6, <1>7, FS_Subset
<1> QED BY <1>8

\* One live interval per entry.
LEMMA SameEntryCount ==
    ASSUME BothInv, NEW g \in Visible
    PROVE  Cardinality({x \in Ids \X Names : linkSet(db, x[1], g)[x[2]] # NoId}) =
           Cardinality({e \in UNION {{<<k, i>> : i \in DOMAIN mem.links[k]} : k \in Ids \X Names} :
                           M!liveAt(mem.links[e[1]][e[2]], g)})
<1> DEFINE K == Ids \X Names
           A == {x \in K : linkSet(db, x[1], g)[x[2]] # NoId}
           U == UNION {{<<k, i>> : i \in DOMAIN mem.links[k]} : k \in K}
           B == {e \in U : M!liveAt(mem.links[e[1]][e[2]], g)}
           f == [x \in A |-> <<x, FirstIn(mem.links[x], g)>>]
<1>1. /\ g \in Int /\ MemInv(mem) /\ SameAt(db, mem, g)
  BY InView
<1>2. \A k \in K : mem.links[k] \in Seq(IvRec) /\ mem.cur \in Int /\ Disjoint(mem.links[k], mem.cur)
  BY <1>1, MemFields DEF MemInv
<1>3. ASSUME NEW k \in K PROVE k \in A <=> LiveIn(mem.links[k], g) # {}
  <2>1. k[1] \in Ids /\ k[2] \in Names /\ k = <<k[1], k[2]>>
    OBVIOUS
  <2>2. linkSet(db, k[1], g)[k[2]] = M!childAt(mem, k[1], k[2], g)
    BY <1>1, <2>1 DEF SameAt
  <2>3. M!childAt(mem, k[1], k[2], g) = ChildOf(mem.links[k], g)
    BY <2>1, ChildIsChildOf
  <2>4. ChildOf(mem.links[k], g) = NoId <=> LiveIn(mem.links[k], g) = {}
    BY <1>1, <1>2, ChildIff
  <2> QED BY <2>2, <2>3, <2>4
<1>4. ASSUME NEW k \in K, NEW i PROVE <<k, i>> \in B <=> i \in LiveIn(mem.links[k], g)
  <2>1. <<k, i>> \in U <=> i \in DOMAIN mem.links[k]
    OBVIOUS
  <2> HIDE DEF U
  <2> QED BY <2>1 DEF LiveIn
<1>5. \A e \in B : \E k \in K : \E i : e = <<k, i>>
  OBVIOUS
<1>6. ASSUME NEW k \in K, LiveIn(mem.links[k], g) # {}
      PROVE  /\ FirstIn(mem.links[k], g) \in LiveIn(mem.links[k], g)
             /\ \A i \in LiveIn(mem.links[k], g) : i = FirstIn(mem.links[k], g)
  BY <1>1, <1>2, <1>6, ChildIff
<1>7. A \subseteq K
  OBVIOUS
<1> HIDE DEF A, B, K, U
<1>8. f \in [A -> B]
  BY <1>3, <1>4, <1>6, <1>7
<1>9. \A x \in A : f[x] = <<x, FirstIn(mem.links[x], g)>>
  OBVIOUS
<1> HIDE DEF f
<1>10. IsInjective(f)
  BY <1>8, <1>9 DEF IsInjective
<1>11. \A e \in B : \E x \in A : f[x] = e
  <2> SUFFICES ASSUME NEW e \in B PROVE \E x \in A : f[x] = e
    OBVIOUS
  <2>0. PICK k \in K : \E i : e = <<k, i>>
    BY <1>5
  <2>1. PICK i : e = <<k, i>>
    BY <2>0
  <2>2. i \in LiveIn(mem.links[k], g)
    BY <1>4, <2>1
  <2>3. k \in A /\ i = FirstIn(mem.links[k], g)
    BY <1>3, <1>6, <2>2
  <2> QED BY <1>9, <2>1, <2>3
<1>12. ExistsBijection(A, B)
  BY <1>8, <1>10, <1>11 DEF ExistsBijection, Bijection, Injection, Surjection
<1>13. IsFiniteSet(A)
  BY EntriesFinite DEF A, K
<1>14. Cardinality(B) = Cardinality(A)
  BY <1>12, <1>13, FS_Bijection
<1> QED BY <1>14 DEF A, B, K, U

\* The two stores count alike.
LEMMA SameCardinality ==
    ASSUME NEW S
    PROVE  M!Cardinality(S) = Cardinality(S)
  BY DEF M!Cardinality, Cardinality

\* Nodes with a name, and entries, are counted alike.
LEMMA SameStats ==
    ASSUME BothInv, NEW g \in Visible
    PROVE  stats(db, g) = M!stats(mem, g)
<1> DEFINE C == {id \in Ids : aliveAt(db, id, g)}
           E == {id \in Ids : M!effR(mem, id, g) # M!NoVer /\ M!effR(mem, id, g).nlink > 0}
           S(t) == {id \in C : loadNode(db, id, g).type = t}
           T(t) == {id \in E : M!effR(mem, id, g).type = t}
<1>1. \A id \in Ids : SameRec(M!effR(mem, id, g), loadNode(db, id, g))
  BY InView DEF SameAt
<1>2. C = E
  BY <1>1 DEF SameRec, aliveAt, existedAt
<1>3. \A id \in C : loadNode(db, id, g).type = M!effR(mem, id, g).type
  BY <1>1 DEF SameRec, aliveAt, existedAt
<1>4. \A t : S(t) = T(t)
  <2> HIDE DEF C, E
  <2> QED BY <1>2, <1>3
<1> DEFINE a == Cardinality({x \in Ids \X Names : linkSet(db, x[1], g)[x[2]] # NoId})
           b == Cardinality({e \in UNION {{<<k, i>> : i \in DOMAIN mem.links[k]} : k \in Ids \X Names} :
                                M!liveAt(mem.links[e[1]][e[2]], g)})
<1>5. a = b
  BY SameEntryCount
<1>6. stats(db, g) = [nodes |-> [t \in Types |-> Cardinality(S(t))], links |-> a]
  BY DEF stats
<1>7. M!stats(mem, g) = [nodes |-> [t \in Types |-> Cardinality(T(t))], links |-> b]
  <2> DEFINE E1 == {id \in M!Ids : M!effR(mem, id, g) # M!NoVer /\ M!effR(mem, id, g).nlink > 0}
             T1(t) == {id \in E1 : M!effR(mem, id, g).type = t}
             b1 == Cardinality({e \in UNION {{<<k, i>> : i \in DOMAIN mem.links[k]} : k \in M!Ids \X Names} :
                                   M!liveAt(mem.links[e[1]][e[2]], g)})
  <2>1. M!stats(mem, g) = [nodes |-> [t \in Types |-> Cardinality(T1(t))], links |-> b1]
    BY SameCardinality, Zenon DEF M!stats
  <2> QED BY <2>1 DEF M!Ids, Ids
<1> HIDE DEF S, T, a, b
<1>8. [t \in Types |-> Cardinality(S(t))] = [t \in Types |-> Cardinality(T(t))]
  BY <1>4
<1> QED BY <1>5, <1>6, <1>7, <1>8

\* The change index of each store is enough for its own diffs, so both give those of a
\* scan of everything.
LEMMA CountsAndDiffsAgree ==
    ASSUME BothInv, DiffsMatchFullScan
    PROVE  DiffsAndStatsAgree
<1> SUFFICES ASSUME NEW b \in Visible, NEW a \in 1..(b - 1)
             PROVE  /\ diffNodes(db, a, b) = M!diffNodes(mem, a, b)
                    /\ diffPaths(db, a, b) =
                         {ch \in M!diffPaths(mem, a, b) :
                            NoId \in {M!childAt(mem, ch[2], ch[3], a), M!childAt(mem, ch[2], ch[3], b)}}
  <2>1. \A b \in Visible : stats(db, b) = M!stats(mem, b)
    BY SameStats
  <2> QED BY <2>1 DEF DiffsAndStatsAgree
<1>1. a \in Visible /\ a \in 1..b /\ a <= b
  <2>1. m_cur \in Int
    BY InLiveView
  <2> QED BY <2>1 DEF Visible
<1>2. /\ diffNodes(db, a, b) = diffNodesOf(db, Ids, a, b)
      /\ diffPaths(db, a, b) = diffPathsOf(db, Ids, a, b)
  BY <1>1 DEF DiffsMatchFullScan
<1>3. diffNodesOf(db, Ids, a, b) = M!diffNodes(mem, a, b)
  BY <1>1, SameDiffNodes
<1>4. diffPathsOf(db, Ids, a, b) =
        {ch \in M!diffPaths(mem, a, b) :
            NoId \in {M!childAt(mem, ch[2], ch[3], a), M!childAt(mem, ch[2], ch[3], b)}}
  BY <1>1, SameDiffPaths
<1> QED BY <1>2, <1>3, <1>4

\* Driven by the same calls, the two stores return the same from every read of every
\* node, in the live view and in every snapshot: copying link sets on write cannot be told from
\* keeping a list of versions and intervals.
THEOREM ReadsSame == BothSpec => []ReadsAgree
<1>1. BothInv => ReadsAgree
  BY ViewsAgree
<1> QED BY <1>1, StoresCoupled, PTL

\* They accept and refuse the same links and unlinks with the same error, the search
\* for a cycle included.
THEOREM AnswersSame == BothSpec => []AnswersAgree
<1>1. BothInv => AnswersAgree
  BY ErrorsAgree
<1> QED BY <1>1, StoresCoupled, PTL

\* The calls that both stores take are a behaviour of the copy-on-write store.
LEMMA BothIsSpec == BothSpec => Spec
<1>1. BothInit => Init
  BY DEF BothInit
<1>2. [BothNext]_bothvars => [Next]_vars
  BY DEF BothNext, bothvars, Next
<1> QED BY <1>1, <1>2, PTL DEF BothSpec, Spec

\* Their counts agree in every view and their diffs between any two, but for the names
\* bound to another child in between, which the reference store alone reports.
THEOREM DiffsAndStatsSame == BothSpec => []DiffsAndStatsAgree
<1>1. BothInv /\ DiffsMatchFullScan => DiffsAndStatsAgree
  BY CountsAndDiffsAgree
<1> QED BY <1>1, StoresCoupled, BothIsSpec, DiffsComplete, PTL

-----------------------------------------------------------------------------
(* The reference store implements VersionedFs. *)

\* The trees of a visible snapshot are equal.
LEMMA TreesAgree ==
    ASSUME BothInv, NEW g \in Visible
    PROVE  MemTree(mem, g) = Tree(db, g)
<1>1. ASSUME NEW id \in Ids PROVE MemTree(mem, g)[id] = Tree(db, g)[id]
  <2> DEFINE r == loadNode(db, id, g)
             v == M!effR(mem, id, g)
             es == linkSet(db, id, g)
             fs == [n \in Names |-> M!childAt(mem, id, n, g)]
  <2>1. g \in Snaps /\ DbInv(db) /\ SameAt(db, mem, g)
    BY InView
  <2>2. SameRec(v, r)
    BY <2>1 DEF SameAt
  <2>3. es = fs
    <3>1. es \in Entries
      BY <2>1, ReadTypes
    <3>2. \A n \in Names : es[n] = M!childAt(mem, id, n, g)
      BY <2>1 DEF SameAt
    <3> HIDE DEF es
    <3> QED BY <3>1, <3>2 DEF Entries
  <2>4. Tree(db, g)[id] = IF r = NoRec THEN NoRec
                          ELSE [type |-> r.type, data |-> r.data, attr |-> r.attr,
                                stamp |-> r.stamp, entries |-> es]
    BY DEF Tree
  <2>5. MemTree(mem, g)[id] = IF v = M!NoVer THEN NoRec
                              ELSE [type |-> v.type, data |-> v.data, attr |-> v.attr,
                                    stamp |-> v.stamp, entries |-> fs]
    BY DEF MemTree
  <2> HIDE DEF r, v, es, fs
  <2> QED BY <2>2, <2>3, <2>4, <2>5 DEF SameRec
<1>2. /\ MemTree(mem, g) = [id \in Ids |-> MemTree(mem, g)[id]]
      /\ Tree(db, g) = [id \in Ids |-> Tree(db, g)[id]]
  BY DEF MemTree, Tree
<1> QED BY <1>1, <1>2

\* Both stores map to the same state of VersionedFs.
LEMMA SameFs ==
    ASSUME BothInv
    PROVE  /\ MemTree(mem, mem.cur) = Tree(db, m_cur)
           /\ [g \in 1..(mem.cur - 1) |-> MemTree(mem, g)] = [g \in 1..(m_cur - 1) |-> Tree(db, g)]
<1>1. m_cur \in Int /\ m_cur >= 1 /\ mem.cur = m_cur
  BY BoundsAssumption DEF BothInv, IndInv, TypeOK, Snaps, Coupled
<1>2. m_cur \in Visible /\ \A g \in 1..(m_cur - 1) : g \in Visible
  BY <1>1 DEF Visible
<1>3. \A g \in Visible : MemTree(mem, g) = Tree(db, g)
  BY TreesAgree
<1> QED BY <1>1, <1>2, <1>3

\* The operations of VersionedFs do not depend on its variables.
LEMMA SameFsChange ==
    ASSUME NEW t, NEW u, Fs!Change(t, u)
    PROVE  MemFs!Change(t, u)
<1>1. \A type, data, now : MemFs!NewNode(type, data, now) = Fs!NewNode(type, data, now)
  BY DEF MemFs!NewNode, Fs!NewNode, MemFs!NoEntries, Fs!NoEntries, MemFs!NoId, Fs!NoId
<1>2. MemFs!NoNode = Fs!NoNode /\ MemFs!NoId = Fs!NoId
  BY DEF MemFs!NoNode, Fs!NoNode, MemFs!NoId, Fs!NoId
<1>3. \A dir, name, c : MemFs!Bind(t, dir, name, c) = Fs!Bind(t, dir, name, c)
  BY DEF MemFs!Bind, Fs!Bind
<1>4. \A from, to : MemFs!CanReach(t, from, to) <=> Fs!CanReach(t, from, to)
  BY <1>2 DEF MemFs!CanReach, Fs!CanReach
<1>5. \A dir, name, c : MemFs!Linkable(t, dir, name, c) <=> Fs!Linkable(t, dir, name, c)
  BY <1>2, <1>4 DEF MemFs!Linkable, Fs!Linkable
<1>6. \A dir, name : MemFs!Bound(t, dir, name) <=> Fs!Bound(t, dir, name)
  BY <1>2 DEF MemFs!Bound, Fs!Bound
<1>7. \A id, type, data, now :
          Fs!Created(t, u, id, type, data, now) => MemFs!Created(t, u, id, type, data, now)
  BY <1>1, <1>2 DEF MemFs!Created, Fs!Created
<1>8. \A dir, name, c : Fs!Linked(t, u, dir, name, c) => MemFs!Linked(t, u, dir, name, c)
  BY <1>3, <1>5 DEF MemFs!Linked, Fs!Linked
<1>9. \A dir, name : Fs!Unlinked(t, u, dir, name) => MemFs!Unlinked(t, u, dir, name)
  BY <1>2, <1>3, <1>6 DEF MemFs!Unlinked, Fs!Unlinked
<1>10. \A sdir, sn, ddir, dn :
           Fs!Moved(t, u, sdir, sn, ddir, dn) => MemFs!Moved(t, u, sdir, sn, ddir, dn)
  BY <1>2, <1>5, <1>6 DEF MemFs!Moved, Fs!Moved, MemFs!Bind, Fs!Bind
<1>11. \A id, data, attr, stamp :
           Fs!Rewritten(t, u, id, data, attr, stamp) => MemFs!Rewritten(t, u, id, data, attr, stamp)
  BY <1>2 DEF MemFs!Rewritten, Fs!Rewritten
<1> QED BY <1>7, <1>8, <1>9, <1>10, <1>11 DEF MemFs!Change, Fs!Change

\* A step of VersionedFs under one mapping is one under the other.
LEMMA SameFsStep ==
    ASSUME BothInv, BothInv', [Fs!FsNext]_(Fs!fsvars)
    PROVE  [MemFs!FsNext]_(MemFs!fsvars)
<1> DEFINE lm == MemTree(mem, mem.cur)
           ls == Tree(db, m_cur)
           sm == [g \in 1..(mem.cur - 1) |-> MemTree(mem, g)]
           ss == [g \in 1..(m_cur - 1) |-> Tree(db, g)]
<1>1. lm = ls /\ sm = ss
  BY SameFs
<1>2. lm' = ls' /\ sm' = ss'
  <2>1. (BothInv => lm = ls /\ sm = ss)'
    BY SameFs, PTL
  <2> QED BY <2>1
<1>3. CASE UNCHANGED Fs!fsvars
  <2>1. ls' = ls /\ ss' = ss
    BY <1>3 DEF Fs!fsvars
  <2> QED BY <1>1, <1>2, <2>1 DEF MemFs!fsvars
<1>4. CASE ss' = ss /\ ls' # ls /\ Fs!Change(ls, ls')
  <2>1. MemFs!Change(ls, ls')
    BY <1>4, SameFsChange
  <2>2. sm' = sm /\ lm' # lm /\ MemFs!Change(lm, lm')
    BY <1>1, <1>2, <1>4, <2>1
  <2> QED BY <2>2 DEF MemFs!FsNext
<1>5. CASE ss' = Append(ss, ls) /\ ls' = ls
  <2>1. sm' = Append(sm, lm) /\ lm' = lm
    BY <1>1, <1>2, <1>5
  <2> QED BY <2>1 DEF MemFs!FsNext, MemFs!FsSnapshot
<1> QED BY <1>3, <1>4, <1>5 DEF Fs!FsNext, Fs!FsSnapshot

\* The reference store implements the file system that copies the whole tree at every
\* snapshot: its list of versions and intervals never lets a write reach a sealed tree.
THEOREM OracleRefinement == BothSpec => OracleImplementsFs
<1>1. BothInit => MemFs!FsInit
  <2> SUFFICES ASSUME BothInit PROVE MemFs!FsInit
    OBVIOUS
  <2>1. Fs!FsInit
    BY InitFs DEF BothInit
  <2>2. BothInv
    BY InitBoth
  <2>3. MemFs!NewNode("DIR", 0, 0) = Fs!NewNode("DIR", 0, 0)
    BY DEF MemFs!NewNode, Fs!NewNode, MemFs!NoEntries, Fs!NoEntries, MemFs!NoId, Fs!NoId
  <2> QED BY <2>1, <2>2, <2>3, SameFs DEF MemFs!FsInit, Fs!FsInit, MemFs!Root, Fs!Root,
                                          MemFs!NoNode, Fs!NoNode
<1>2. BothInv /\ BothInv' /\ [BothNext]_bothvars => [MemFs!FsNext]_(MemFs!fsvars)
  <2> SUFFICES ASSUME BothInv, BothInv', [BothNext]_bothvars
               PROVE  [MemFs!FsNext]_(MemFs!fsvars)
    OBVIOUS
  <2>1. [Fs!FsNext]_(Fs!fsvars)
    BY BothIsNext, StepFs DEF BothInv
  <2> QED BY <2>1, SameFsStep
<1> QED BY <1>1, <1>2, StoresCoupled, PTL DEF BothSpec, OracleImplementsFs, MemFs!FsSpec
=============================================================================
