----------------------------- MODULE Differential -----------------------------
(***************************************************************************)
(* The copy-on-write store and the reference store driven by the same      *)
(* calls, as tests/core/differential.cpp does with random ones: a call     *)
(* that one store accepts and the other refuses shows in AnswersAgree.     *)
(***************************************************************************)
EXTENDS PrfsStore, Sequences

CONSTANT MaxSum  \* bound: on the number of nodes and the current snapshot together

ASSUME MaxSumAssumption == MaxSum \in Nat

VARIABLE mem

M == INSTANCE MemStore

bothvars == <<vars, mem>>

BothInit == Init /\ M!MemInit

BothNext ==
    \/ /\ m_next + m_cur <= MaxSum
       /\ \E type \in Types, data \in Data : Alloc(type, data) /\ M!MemAlloc(type, data)
    \/ \E dir, child \in Ids, name \in Names : Link(dir, name, child) /\ M!MemLink(dir, name, child)
    \/ \E dir \in Ids, name \in Names : Unlink(dir, name) /\ M!MemUnlink(dir, name)
    \/ \E sdir, ddir \in Ids, sn, dn \in Names :
           Move(sdir, sn, ddir, dn) /\ M!MemMove(sdir, sn, ddir, dn)
    \/ \E id \in Ids, types \in DataSetters, v \in Data :
           SetData(id, types, v) /\ M!MemSetData(id, types, v)
    \/ \E id \in Ids, attr, stamp \in Times : SetAttr(id, attr, stamp) /\ M!MemSetAttr(id, attr, stamp)
    \/ \E t \in Times : SetTime(t) /\ M!MemSetTime(t)
    \/ m_next + m_cur <= MaxSum /\ Snapshot /\ M!MemSnapshot

BothSpec == BothInit /\ [][BothNext]_bothvars

-----------------------------------------------------------------------------

\* One answer to a read of node id at snapshot g.
MemView(id, g) ==
    LET v == M!effR(mem, id, g)
    IN  IF v = M!NoVer THEN NoRec
        ELSE [type |-> v.type, nlink |-> v.nlink, data |-> v.data, attr |-> v.attr,
              stamp |-> v.stamp,
              entries |-> [n \in Names |-> M!childAt(mem, id, n, g)],
              parents |-> M!parents(mem, id, g)]

\* parents() of the copy-on-write store: each containing directory once.
StoreView(id, g) ==
    LET v == NodeView(db, id, g)
    IN  IF v = NoRec THEN NoRec ELSE [v EXCEPT !.parents = {x[1] : x \in @}]

\* Every read of every node (attributes, link count, entries, parents) returns the
\* same from both stores, in the live view and in every snapshot.
ReadsAgree ==
    /\ \A g \in Visible, id \in Ids : StoreView(id, g) = MemView(id, g)
    /\ mem.snaps = db.snaps

\* Both stores accept and refuse the same links and unlinks, with the same error.
AnswersAgree ==
    \A dir \in {d \in Ids : existedAt(db, d, m_cur)}, name \in Names :
        /\ unlinkErr(db, m_cur, dir, name) = M!unlinkErr(mem, dir, name)
        /\ \A child \in {c \in Ids : existedAt(db, c, m_cur)} :
               linkErr(db, m_cur, dir, name, child) = M!linkErr(mem, dir, name, child)

\* stats agrees in every view and diffNodes between any two; diffPaths agrees on the
\* names bound at only one of the two (a name bound to another child in between is
\* reported by the reference store alone).
DiffsAndStatsAgree ==
    \A b \in Visible :
        /\ stats(db, b) = M!stats(mem, b)
        /\ \A a \in 1..(b - 1) :
               /\ diffNodes(db, a, b) = M!diffNodes(mem, a, b)
               /\ diffPaths(db, a, b) =
                      {ch \in M!diffPaths(mem, a, b) :
                          NoId \in {M!childAt(mem, ch[2], ch[3], a), M!childAt(mem, ch[2], ch[3], b)}}

\* The tree a reader of the reference store's snapshot g sees.
MemTree(m, g) ==
    [id \in Ids |->
        LET v == M!effR(m, id, g)
        IN  IF v = M!NoVer THEN NoRec
            ELSE [type |-> v.type, data |-> v.data, attr |-> v.attr, stamp |-> v.stamp,
                  entries |-> [n \in Names |-> M!childAt(m, id, n, g)]]]

MemFs == INSTANCE VersionedFs WITH live   <- MemTree(mem, mem.cur),
                                   sealed <- [g \in 1..(mem.cur - 1) |-> MemTree(mem, g)]

\* The reference store, too, is the file system that copies the whole tree at every snapshot:
\* no write through liveVer or to the intervals reaches a tree already sealed, so the two stores
\* do not agree on the same mistake.
OracleImplementsFs == MemFs!FsSpec
=============================================================================
