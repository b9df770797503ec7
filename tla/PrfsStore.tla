------------------------------ MODULE PrfsStore ------------------------------
(***************************************************************************)
(* The versioned file system of src/core/prfs.cpp: nodes, down-links and   *)
(* up-links kept in a key-value store under keys that end in a snapshot    *)
(* id, read "range-back" (the newest version not above the snapshot), and  *)
(* copied on the first write after a snapshot.                             *)
(*                                                                         *)
(* `db' is what the key-value engine holds (committed); m_next, m_cur and  *)
(* m_clock are the object's in-memory copies of its counters.  Every       *)
(* operation is one write transaction: an operator from db to db, taken    *)
(* whole or not at all.  id|SNAP_BIT (a synthesized .snapshot directory)   *)
(* has no record, so for every write it behaves like an unallocated id.    *)
(***************************************************************************)
EXTENDS Integers, FiniteSets

CONSTANTS
    MaxNode,        \* bound: largest node id this instance allocates
    MaxSnap,        \* bound: largest value of m_cur
    Names,          \* entry names
    SNAPSHOT_NAME,  \* ".snapshot", the reserved one of them
    Types,          \* the node types this instance allocates
    Data,           \* values of {blob, spec, size}: what diffNodes calls content
    Times,          \* values of the clock and of the attributes stamped with it
    WriteFailures   \* may a write transaction fail (a put throws, a commit is lost)?

ASSUME BoundsAssumption == MaxNode \in Nat \ {0} /\ MaxSnap \in Nat \ {0}
ASSUME NamesAssumption  == SNAPSHOT_NAME \in Names
ASSUME TypesAssumption  ==
    /\ "DIR" \in Types
    /\ Types \subseteq {"REG", "DIR", "LNK", "BLK", "CHR", "FIFO", "SOCK"}
ASSUME ValuesAssumption == 0 \in Data /\ 0 \in Times
ASSUME FailAssumption   == WriteFailures \in BOOLEAN

VARIABLES db, m_next, m_cur, m_clock

vars == <<db, m_next, m_cur, m_clock>>

Ids     == 1..MaxNode
Snaps   == 1..MaxSnap
NoId    == 0
Root    == 1
Entries == [Names -> Ids \cup {NoId}]

\* attr stands for what diffNodes compares besides content (mode, uid, gid,
\* mtime); stamp for what it does not (atime, ctime and the sub-second parts).
NodeRec == [type : Types, nlink : Nat, data : Data, attr : Times, stamp : Times,
            dnLinkVer : Snaps, upLinkVer : Snaps]

NoRec == [type |-> "NONE"]

\* The tables: nodes (id, snap), downlinks (dir, ver, name), uplinks
\* (node, ver, container, name), changes (snap, id), snaps, and the meta keys.
DbType == [nodes   : [Ids -> [Snaps -> NodeRec \cup {NoRec}]],
           down    : [Ids -> [Snaps -> Entries]],
           up      : [Ids -> [Snaps -> SUBSET (Ids \X Names)]],
           changes : SUBSET (Snaps \X Ids),
           snaps   : SUBSET (Snaps \X Times),
           next    : 1..(MaxNode + 1),
           cur     : Snaps,
           clock   : Times]

TypeOK == /\ db \in DbType
          /\ m_next \in 1..(MaxNode + 1)
          /\ m_cur \in Snaps
          /\ m_clock \in Times

-----------------------------------------------------------------------------
(* Reads. *)

\* The versions of a node visible at rg; loadNode takes the newest.
VersionsUpTo(d, id, rg) == {s \in Snaps : s <= rg /\ d.nodes[id][s] # NoRec}

Newest(S) == CHOOSE s \in S : \A t \in S : t <= s

loadNode(d, id, rg) ==
    LET vs == VersionsUpTo(d, id, rg)
    IN  IF vs = {} THEN NoRec ELSE d.nodes[id][Newest(vs)]

existedAt(d, id, rg) == loadNode(d, id, rg) # NoRec

NoEntries == [n \in Names |-> NoId]

\* The entries of a directory at rg (lookup, readdir and linkSet read these).
linkSet(d, dir, rg) ==
    LET r == loadNode(d, dir, rg)
    IN  IF r.type = "DIR" THEN d.down[dir][r.dnLinkVer] ELSE NoEntries

parents(d, id, rg) ==
    LET r == loadNode(d, id, rg)
    IN  IF r = NoRec THEN {} ELSE d.up[id][r.upLinkVer]

isDir(d, id, rg) == loadNode(d, id, rg).type = "DIR"

\* The directories among the children of n.
subdirs(d, n, rg) ==
    LET entries == linkSet(d, n, rg)
    IN  {c \in {entries[nm] : nm \in Names} \ {NoId} : isDir(d, c, rg)}

\* What the depth-first search of reachable() decides: a set that holds `from'
\* and that no step down leaves holds `to'.
reachable(d, from, to, rg) ==
    LET succ == [n \in Ids |-> subdirs(d, n, rg)]
    IN  \A S \in SUBSET Ids : from \in S /\ (\A n \in S : succ[n] \subseteq S) => to \in S

-----------------------------------------------------------------------------
(* Snapshot diffs: candidates from the change index, each compared at a and b. *)

candidates(d, a, b) == {id \in Ids : \E s \in Snaps : a < s /\ s <= b /\ <<s, id>> \in d.changes}

aliveAt(d, id, g) == existedAt(d, id, g) /\ loadNode(d, id, g).nlink > 0

nodeChange(d, id, a, b) ==
    LET va == loadNode(d, id, a)
        vb == loadNode(d, id, b)
        eA == aliveAt(d, id, a)
        eB == aliveAt(d, id, b)
    IN  IF ~eA /\ ~eB THEN "NONE"
        ELSE IF ~eA THEN "CREATED"
        ELSE IF ~eB THEN "REMOVED"
        ELSE IF va.data # vb.data THEN "MODIFIED_CONTENT"
        ELSE IF va.attr # vb.attr THEN "MODIFIED_ATTRS"
        ELSE "NONE"

diffNodesOf(d, cand, a, b) ==
    {<<id, nodeChange(d, id, a, b)>> : id \in {i \in cand : nodeChange(d, i, a, b) # "NONE"}}

diffNodes(d, a, b) == diffNodesOf(d, candidates(d, a, b), a, b)

\* Only names are compared: an entry bound at both a and b is not reported.
pathChange(d, dir, n, a, b) ==
    LET sa == linkSet(d, dir, a)[n]
        sb == linkSet(d, dir, b)[n]
    IN  IF sa = NoId /\ sb # NoId THEN <<"ADDED", dir, n, sb>>
        ELSE IF sa # NoId /\ sb = NoId THEN <<"REMOVED", dir, n, sa>>
        ELSE <<"NONE", dir, n, sa>>

diffPathsOf(d, cand, a, b) ==
    {ch \in {pathChange(d, x[1], x[2], a, b) : x \in cand \X Names} : ch[1] # "NONE"}

diffPaths(d, a, b) == diffPathsOf(d, candidates(d, a, b), a, b)

\* Mutant: only the entries of directories that have a link to them are counted.
statsReachable(d, g) ==
    LET counted == {id \in Ids : aliveAt(d, id, g)}
    IN  [nodes |-> [t \in Types |-> Cardinality({id \in counted : loadNode(d, id, g).type = t})],
         links |-> Cardinality({x \in counted \X Names : linkSet(d, x[1], g)[x[2]] # NoId})]

\* Nodes with a link to them by type, and the entries of every directory, linked
\* itself or not.  The sum of the files' sizes (totalSize) is left out: `data' stands
\* for a size among other things.
stats(d, g) ==
    LET counted == {id \in Ids : aliveAt(d, id, g)}
    IN  [nodes |-> [t \in Types |-> Cardinality({id \in counted : loadNode(d, id, g).type = t})],
         links |-> Cardinality({x \in Ids \X Names : linkSet(d, x[1], g)[x[2]] # NoId})]

-----------------------------------------------------------------------------
(* Pieces of a write transaction: functions from db to db. *)

\* Mutant: the change index is not written.
storeNodeUnindexed(d, id, g, r) == [d EXCEPT !.nodes[id][g] = r]

storeNode(d, id, g, r) ==
    [d EXCEPT !.nodes[id][g] = r, !.changes = @ \cup {<<g, id>>}]

\* Puts and deletes under one (node, version) prefix of a link table.
putDown(d, dir, ver, entries) == [d EXCEPT !.down[dir][ver] = entries]
putUp(d, id, ver, links)      == [d EXCEPT !.up[id][ver] = links]

\* Mutant: the old entries are not carried over.
copyNothing(old, there) == there

\* Copying puts every entry of the old set under the new version; a key that is
\* already there and not in the old set stays.
copyEntries(old, there) == [n \in Names |-> IF old[n] # NoId THEN old[n] ELSE there[n]]

ensureWritableDnLinks(d, cur, dir) ==
    LET r == loadNode(d, dir, cur)
    IN  IF r.dnLinkVer = cur THEN d
        ELSE storeNode(putDown(d, dir, cur, copyEntries(d.down[dir][r.dnLinkVer], d.down[dir][cur])),
                       dir, cur, [r EXCEPT !.dnLinkVer = cur])

\* Mutant: the up-links start empty in every snapshot.
ensureEmptyUpLinks(d, cur, id) ==
    LET r == loadNode(d, id, cur)
    IN  IF r.upLinkVer = cur THEN d
        ELSE storeNode(d, id, cur, [r EXCEPT !.upLinkVer = cur])

ensureWritableUpLinks(d, cur, id) ==
    LET r == loadNode(d, id, cur)
    IN  IF r.upLinkVer = cur THEN d
        ELSE storeNode(putUp(d, id, cur, d.up[id][cur] \cup d.up[id][r.upLinkVer]),
                       id, cur, [r EXCEPT !.upLinkVer = cur])

\* Both link sets an entry of dir for child is kept in, made writable.
ensureWritable(d, cur, dir, child) ==
    ensureWritableUpLinks(ensureWritableDnLinks(d, cur, dir), cur, child)

\* Mutants: one check of linkT dropped.
linkErrAnyName(d, cur, dir, name, child) ==
    IF ~isDir(d, dir, cur) \/ ~existedAt(d, child, cur) THEN "NOENT"
    ELSE IF isDir(d, child, cur) /\ reachable(d, child, dir, cur) THEN "INVAL"
    ELSE IF linkSet(d, dir, cur)[name] # NoId THEN "EXIST"
    ELSE "OK"

linkErrAnyDepth(d, cur, dir, name, child) ==
    IF name = SNAPSHOT_NAME THEN "INVAL"
    ELSE IF ~isDir(d, dir, cur) \/ ~existedAt(d, child, cur) THEN "NOENT"
    ELSE IF child = dir THEN "INVAL"
    ELSE IF linkSet(d, dir, cur)[name] # NoId THEN "EXIST"
    ELSE "OK"

linkErr(d, cur, dir, name, child) ==
    IF name = SNAPSHOT_NAME THEN "INVAL"
    ELSE IF ~existedAt(d, dir, cur) THEN "NOENT"
    ELSE IF ~isDir(d, dir, cur) THEN "NOTDIR"
    ELSE IF ~existedAt(d, child, cur) THEN "NOENT"
    ELSE IF isDir(d, child, cur) /\ reachable(d, child, dir, cur) THEN "INVAL"
    ELSE IF d.down[dir][loadNode(d, dir, cur).dnLinkVer][name] # NoId THEN "EXIST"
    ELSE "OK"

\* The child's record reloaded and rewritten with another link count.
storeNlink(d, cur, id, step) ==
    LET r == loadNode(d, id, cur)
    IN  storeNode(d, id, cur, [r EXCEPT !.nlink = IF @ + step >= 0 THEN @ + step ELSE @])

\* Mutant: the entry is added to the link set as it stands, copied or not.
linkDbInPlace(d, cur, dir, name, child) ==
    LET ver == loadNode(d, dir, cur).dnLinkVer
        d1  == ensureWritableUpLinks(d, cur, child)
        d2  == putDown(d1, dir, ver, [d1.down[dir][ver] EXCEPT ![name] = child])
        d3  == putUp(d2, child, cur, d2.up[child][cur] \cup {<<dir, name>>})
    IN  storeNlink(d3, cur, child, 1)

\* linkT once its checks have passed.
linkDb(d, cur, dir, name, child) ==
    LET d1 == ensureWritable(d, cur, dir, child)
        d2 == putDown(d1, dir, cur, [d1.down[dir][cur] EXCEPT ![name] = child])
        d3 == putUp(d2, child, cur, d2.up[child][cur] \cup {<<dir, name>>})
    IN  storeNlink(d3, cur, child, 1)

\* unlinkT does not look at the type of dir: the entry itself is looked up.
unlinkChild(d, cur, dir, name) ==
    IF existedAt(d, dir, cur) THEN d.down[dir][loadNode(d, dir, cur).dnLinkVer][name]
    ELSE NoId

unlinkErr(d, cur, dir, name) ==
    IF unlinkChild(d, cur, dir, name) = NoId THEN "NOENT" ELSE "OK"

\* Mutant: the up-link stays.
unlinkDbKeepsUplink(d, cur, dir, name) ==
    LET cid == unlinkChild(d, cur, dir, name)
        d1  == ensureWritable(d, cur, dir, cid)
        d2  == putDown(d1, dir, cur, [d1.down[dir][cur] EXCEPT ![name] = NoId])
    IN  storeNlink(d2, cur, cid, -1)

unlinkDb(d, cur, dir, name) ==
    LET cid == unlinkChild(d, cur, dir, name)
        d1  == ensureWritable(d, cur, dir, cid)
        d2  == putDown(d1, dir, cur, [d1.down[dir][cur] EXCEPT ![name] = NoId])
        d3  == putUp(d2, cid, cur, d2.up[cid][cur] \ {<<dir, name>>})
    IN  storeNlink(d3, cur, cid, -1)

\* Mutant: the node counter is not persisted.
allocDbNoCounter(d, cur, id, type, data, now) ==
    storeNode(d, id, cur,
              [type |-> type, nlink |-> 0, data |-> data, attr |-> now, stamp |-> now,
               dnLinkVer |-> cur, upLinkVer |-> cur])

allocDb(d, cur, id, type, data, now) ==
    storeNode([d EXCEPT !.next = id + 1], id, cur,
              [type |-> type, nlink |-> 0, data |-> data, attr |-> now, stamp |-> now,
               dnLinkVer |-> cur, upLinkVer |-> cur])

-----------------------------------------------------------------------------
(* The operations.  A call that is refused returns its error before anything *)
(* is committed: it is a stuttering step.                                     *)

EmptyDb ==
    [nodes   |-> [id \in Ids |-> [g \in Snaps |-> NoRec]],
     down    |-> [id \in Ids |-> [g \in Snaps |-> NoEntries]],
     up      |-> [id \in Ids |-> [g \in Snaps |-> {}]],
     changes |-> {}, snaps |-> {}, next |-> 2, cur |-> 1, clock |-> 0]

RootRec == [type |-> "DIR", nlink |-> 1, data |-> 0, attr |-> 0, stamp |-> 0,
            dnLinkVer |-> 1, upLinkVer |-> 1]

\* The constructor on an empty store.
Init == /\ db = storeNode(EmptyDb, Root, 1, RootRec)
        /\ m_next = 2
        /\ m_cur = 1
        /\ m_clock = 0

\* mkdir, mkfile, symlink, mknod: a node with no link to it yet.
Alloc(type, data) ==
    /\ m_next <= MaxNode
    /\ db' = allocDb(db, m_cur, m_next, type, data, m_clock)
    /\ m_next' = m_next + 1
    /\ UNCHANGED <<m_cur, m_clock>>

Link(dir, name, child) ==
    /\ linkErr(db, m_cur, dir, name, child) = "OK"
    /\ db' = linkDb(db, m_cur, dir, name, child)
    /\ UNCHANGED <<m_next, m_cur, m_clock>>

Unlink(dir, name) ==
    /\ unlinkErr(db, m_cur, dir, name) = "OK"
    /\ db' = unlinkDb(db, m_cur, dir, name)
    /\ UNCHANGED <<m_next, m_cur, m_clock>>

moveErr(d, cur, sdir, sn, ddir, dn) ==
    LET child == unlinkChild(d, cur, sdir, sn)
        e1    == linkErr(d, cur, ddir, dn, child)
    IN  IF child = NoId THEN "NOENT"
        ELSE IF e1 # "OK" THEN e1
        ELSE unlinkErr(linkDb(d, cur, ddir, dn, child), cur, sdir, sn)

moveDb(d, cur, sdir, sn, ddir, dn) ==
    unlinkDb(linkDb(d, cur, ddir, dn, unlinkChild(d, cur, sdir, sn)), cur, sdir, sn)

Move(sdir, sn, ddir, dn) ==
    /\ moveErr(db, m_cur, sdir, sn, ddir, dn) = "OK"
    /\ db' = moveDb(db, m_cur, sdir, sn, ddir, dn)
    /\ UNCHANGED <<m_next, m_cur, m_clock>>

\* The record of id rewritten at the current snapshot, if the node exists and
\* its type is one the setter accepts.
Rewrite(id, types, Set(_)) ==
    LET r == loadNode(db, id, m_cur)
    IN  /\ r # NoRec
        /\ r.type \in types
        /\ db' = storeNode(db, id, m_cur, Set(r))
        /\ UNCHANGED <<m_next, m_cur, m_clock>>

\* setContent and setContentSeed want REG, setTarget LNK, setRdev BLK or CHR;
\* size() takes any type.  All of them set content.
SetData(id, types, v) ==
    LET Set(r) == [r EXCEPT !.data = v] IN Rewrite(id, types, Set)

DataSetters == {{"REG"}, {"LNK"}, {"BLK", "CHR"}, Types}

\* mode, uid and gid set attr; atime, ctime and the sub-second setters set stamp;
\* mtime sets attr and clears its sub-second part.
SetAttr(id, attr, stamp) ==
    LET Set(r) == [r EXCEPT !.attr = attr, !.stamp = stamp] IN Rewrite(id, Types, Set)

SetTime(t) ==
    /\ m_clock' = t
    /\ db' = [db EXCEPT !.clock = t]
    /\ UNCHANGED <<m_next, m_cur>>

\* Mutant: the new snapshot number stays in memory.
SnapshotInMemory ==
    /\ m_cur < MaxSnap
    /\ m_cur' = m_cur + 1
    /\ db' = [db EXCEPT !.snaps = @ \cup {<<m_cur, m_clock>>}]
    /\ UNCHANGED <<m_next, m_clock>>

Snapshot ==
    /\ m_cur < MaxSnap
    /\ m_cur' = m_cur + 1
    /\ db' = [db EXCEPT !.cur = m_cur + 1, !.snaps = @ \cup {<<m_cur, m_clock>>}]
    /\ UNCHANGED <<m_next, m_clock>>

\* The process dies (every commit is atomic) and the store is opened again.
Reopen == /\ m_next' = db.next
          /\ m_cur' = db.cur
          /\ m_clock' = db.clock
          /\ UNCHANGED db

\* A failed transaction leaves db alone, but alloc, snapshot and setTime have
\* already moved their counter in memory; every other failed write is a stutter.
AllocFails    == /\ WriteFailures
                 /\ m_next <= MaxNode
                 /\ m_next' = m_next + 1
                 /\ UNCHANGED <<db, m_cur, m_clock>>
SnapshotFails == /\ WriteFailures
                 /\ m_cur < MaxSnap
                 /\ m_cur' = m_cur + 1
                 /\ UNCHANGED <<db, m_next, m_clock>>
SetTimeFails(t) == /\ WriteFailures
                   /\ m_clock' = t
                   /\ UNCHANGED <<db, m_next, m_cur>>

Next == \/ \E type \in Types, data \in Data : Alloc(type, data)
        \/ \E dir, child \in Ids, name \in Names : Link(dir, name, child)
        \/ \E dir \in Ids, name \in Names : Unlink(dir, name)
        \/ \E sdir, ddir \in Ids, sn, dn \in Names : Move(sdir, sn, ddir, dn)
        \/ \E id \in Ids, types \in DataSetters, v \in Data : SetData(id, types, v)
        \/ \E id \in Ids, attr, stamp \in Times : SetAttr(id, attr, stamp)
        \/ \E t \in Times : SetTime(t)
        \/ Snapshot
        \/ Reopen
        \/ AllocFails
        \/ SnapshotFails
        \/ \E t \in Times : SetTimeFails(t)

Spec == Init /\ [][Next]_vars

-----------------------------------------------------------------------------
(* Properties. *)

\* Everything a caller can read of a node at snapshot g.
NodeView(d, id, g) ==
    LET r == loadNode(d, id, g)
    IN  IF r = NoRec THEN NoRec
        ELSE [type |-> r.type, nlink |-> r.nlink, data |-> r.data, attr |-> r.attr,
              stamp |-> r.stamp, entries |-> linkSet(d, id, g), parents |-> parents(d, id, g)]

View(d, g) == [id \in Ids |-> NodeView(d, id, g)]

\* The snapshots with a view: the sealed ones and the live one.
Visible == 1..m_cur

\* A sealed snapshot is immutable: whatever step the store takes (a link set
\* copied late, a setter reached through a snapshot handle, a failed
\* transaction), every read below m_cur returns what it returned before.
SealedViewsNeverChange ==
    [][\A g \in Snaps : g < m_cur => View(db', g) = View(db, g)]_vars

\* nlink is the number of up-links in every view (the root has one more).
NlinkIsUplinks ==
    \A g \in Visible, id \in Ids :
        LET r == loadNode(db, id, g)
        IN  r # NoRec =>
                r.nlink = Cardinality(parents(db, id, g)) + (IF id = Root THEN 1 ELSE 0)

\* Down-links and up-links are two indexes of one relation, although each side
\* is versioned and copied on its own: they agree in every view.
LinksMirror ==
    \A g \in Visible :
        LET entries == [dir \in Ids |-> linkSet(db, dir, g)]
        IN  \A id \in Ids :
                parents(db, id, g) = {x \in Ids \X Names : entries[x[1]][x[2]] = id}

\* No entry leads to a node that does not exist in the entry's own view.
NoDanglingEntry ==
    \A g \in Visible, dir \in Ids, n \in Names :
        linkSet(db, dir, g)[n] # NoId => existedAt(db, linkSet(db, dir, g)[n], g)

\* The directory graph has no cycle in any view (every set of directories has one
\* with no child in the set): reachable() is asked about the live view only, and
\* every later view is made of such live views.
Acyclic ==
    \A g \in Visible :
        LET succ == [n \in Ids |-> subdirs(db, n, g)]
        IN  \A S \in (SUBSET Ids) \ {{}} : \E n \in S : succ[n] \cap S = {}

\* The reserved name is never bound, so the synthesized .snapshot directory
\* never hides a real entry.
SnapshotNameUnbound ==
    \A g \in Visible, dir \in Ids : linkSet(db, dir, g)[SNAPSHOT_NAME] = NoId

\* The change index misses nothing: between any two snapshots the diffs taken
\* over its candidates are those a scan of every node would give.
DiffsMatchFullScan ==
    \A b \in Visible : \A a \in 1..b :
        /\ diffNodes(db, a, b) = diffNodesOf(db, Ids, a, b)
        /\ diffPaths(db, a, b) = diffPathsOf(db, Ids, a, b)

\* move() checks nothing before its second leg: once the link is made the
\* unlink cannot fail, so the engine without rollback is never left half-way.
MoveNeverStopsHalfway ==
    \A sdir, ddir \in Ids, sn, dn \in Names :
        LET child == unlinkChild(db, m_cur, sdir, sn)
        IN  child # NoId /\ linkErr(db, m_cur, ddir, dn, child) = "OK"
            => moveErr(db, m_cur, sdir, sn, ddir, dn) = "OK"

\* A node id is never handed out twice, whatever fails and wherever the process
\* dies: no record exists at or above either copy of the counter.
IdsNeverReused ==
    \A id \in Ids : (\E g \in Snaps : db.nodes[id][g] # NoRec) => id < db.next /\ id < m_next

\* Dying now and reopening gives back the tree that was being served: the live
\* view under the persisted snapshot counter is the live view in memory.
ReopenKeepsLiveView == View(db, db.cur) = View(db, m_cur)

-----------------------------------------------------------------------------
(* The inductive invariant behind the proved properties: facts about every key *)
(* in the tables, visible or not.                                              *)

\* A record never points at a link set younger than itself.
VersionsBounded(d) ==
    \A id \in Ids, s \in Snaps : d.nodes[id][s] # NoRec =>
        d.nodes[id][s].dnLinkVer <= s /\ d.nodes[id][s].upLinkVer <= s

\* An entry stored under version v leads to a node with a record not above v.
EntriesBacked(d) ==
    \A dir \in Ids, v \in Snaps, n \in Names : d.down[dir][v][n] # NoId =>
        \E s \in Snaps : s <= v /\ d.nodes[d.down[dir][v][n]][s] # NoRec

\* Every stored record is in the change index and below the node counter.
RecordsIndexed(d) ==
    \A id \in Ids, s \in Snaps : d.nodes[id][s] # NoRec => <<s, id>> \in d.changes /\ id < d.next

NameReserved(d) == \A dir \in Ids, v \in Snaps : d.down[dir][v][SNAPSHOT_NAME] = NoId

DbInv(d) == /\ d \in DbType
            /\ VersionsBounded(d)
            /\ EntriesBacked(d)
            /\ RecordsIndexed(d)
            /\ NameReserved(d)

\* What the tables satisfy between any two transactions, failures and reopenings
\* included; it implies the type invariant.
IndInv == /\ TypeOK
          /\ DbInv(db)
          /\ db.next <= m_next
=============================================================================
