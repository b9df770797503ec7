------------------------------- MODULE MemStore -------------------------------
(***************************************************************************)
(* The reference store of src/reference/memstore.cpp: a list of versions   *)
(* per node, and per (directory, name) a list of intervals of snapshots    *)
(* during which the name was bound.  Nothing is shared or copied by        *)
(* directory, nothing is indexed by child, and nothing is persistent.      *)
(*                                                                         *)
(* Callers hold handles of nodes that exist; handles of the synthesized    *)
(* .snapshot directories are left out.  m_names[dir] is the set of the     *)
(* keys (dir, name) of m_links, so it is not kept.                         *)
(***************************************************************************)
EXTENDS Integers, Sequences, FiniteSets

CONSTANTS MaxNode, MaxSnap, Names, SNAPSHOT_NAME, Types, Data, Times

VARIABLE mem  \* m_nodes, m_links, m_changes, m_snaps, m_next, m_cur and m_clock

Ids   == 1..MaxNode
Snaps == 1..MaxSnap
NoId  == 0
Root  == 1
NoVer == [type |-> "NONE"]

\* NodeVer: blob, spec and size are data; mode, uid, gid and mtime attr; the other
\* times stamp.
NodeVer(snap, type, nlink, data, now) ==
    [snap |-> snap, type |-> type, nlink |-> nlink, data |-> data, attr |-> now, stamp |-> now]

MemInit ==
    mem = [nodes   |-> [id \in Ids |-> IF id = Root THEN <<NodeVer(1, "DIR", 1, 0, 0)>> ELSE <<>>],
           links   |-> [k \in Ids \X Names |-> <<>>],
           changes |-> {<<1, Root>>}, snaps |-> {}, next |-> 2, cur |-> 1, clock |-> 0]

-----------------------------------------------------------------------------
(* Reads. *)

\* The last version of id before the first one above rg.
effR(m, id, rg) ==
    LET vs == m.nodes[id]
        k  == CHOOSE k \in 0..Len(vs) : /\ \A i \in 1..k : vs[i].snap <= rg
                                        /\ k < Len(vs) => vs[k + 1].snap > rg
    IN  IF k = 0 THEN NoVer ELSE vs[k]

\* Mutant: the interval includes the snapshot in which the name was removed.
liveAtClosed(iv, rg) == iv.born <= rg /\ (iv.dead = 0 \/ iv.dead >= rg)

liveAt(iv, rg) == iv.born <= rg /\ (iv.dead = 0 \/ iv.dead > rg)

\* The first live interval of a key, 0 if there is none.
liveIv(m, key, rg) ==
    LET live == {i \in DOMAIN m.links[key] : liveAt(m.links[key][i], rg)}
    IN  IF live = {} THEN 0 ELSE CHOOSE i \in live : \A j \in live : i <= j

\* linkLiveAt, lookup and readdir: the child under a name at rg, NoId if none.
childAt(m, dir, name, rg) ==
    LET i == liveIv(m, <<dir, name>>, rg)
    IN  IF i = 0 THEN NoId ELSE m.links[<<dir, name>>][i].child

parents(m, id, rg) ==
    {dir \in Ids : \E name \in Names : \E i \in DOMAIN m.links[<<dir, name>>] :
        LET iv == m.links[<<dir, name>>][i] IN iv.child = id /\ liveAt(iv, rg)}

subdirs(m, n) ==
    {c \in {childAt(m, n, nm, m.cur) : nm \in Names} \ {NoId} : effR(m, c, m.cur).type = "DIR"}

\* What the depth-first search decides.
reachable(m, from, to) ==
    LET succ == [n \in Ids |-> subdirs(m, n)]
    IN  \A S \in SUBSET Ids : from \in S /\ (\A n \in S : succ[n] \subseteq S) => to \in S

\* Nodes with a link to them by type, and live entries; without totalSize.
stats(m, rg) ==
    LET counted == {id \in Ids : effR(m, id, rg) # NoVer /\ effR(m, id, rg).nlink > 0}
        entries == UNION {{<<k, i>> : i \in DOMAIN m.links[k]} : k \in Ids \X Names}
    IN  [nodes |-> [t \in Types |-> Cardinality({id \in counted : effR(m, id, rg).type = t})],
         links |-> Cardinality({e \in entries : liveAt(m.links[e[1]][e[2]], rg)})]

-----------------------------------------------------------------------------
(* Diffs: nodes from the change index, paths from every interval. *)

nodeChange(va, vb) ==
    LET eA == va # NoVer /\ va.nlink > 0
        eB == vb # NoVer /\ vb.nlink > 0
    IN  IF ~eA /\ ~eB THEN "NONE"
        ELSE IF ~eA THEN "CREATED"
        ELSE IF ~eB THEN "REMOVED"
        ELSE IF va.data # vb.data THEN "MODIFIED_CONTENT"
        ELSE IF va.attr # vb.attr THEN "MODIFIED_ATTRS"
        ELSE "NONE"

diffNodes(m, a, b) ==
    LET cand == {id \in Ids : \E s \in Snaps : a < s /\ s <= b /\ <<s, id>> \in m.changes}
    IN  {ch \in {<<id, nodeChange(effR(m, id, a), effR(m, id, b))>> : id \in cand} : ch[2] # "NONE"}

\* A name bound to another child is both removed and added.
diffPaths(m, a, b) ==
    LET at(k, g) == childAt(m, k[1], k[2], g)
        changed  == {k \in Ids \X Names : at(k, a) # at(k, b)}
    IN  {<<"ADDED", k[1], k[2], at(k, b)>> : k \in {k \in changed : at(k, b) # NoId}}
        \cup {<<"REMOVED", k[1], k[2], at(k, a)>> : k \in {k \in changed : at(k, a) # NoId}}

-----------------------------------------------------------------------------
(* Pieces of an operation: functions from mem to mem. *)

touch(m, id) == [m EXCEPT !.changes = @ \cup {<<m.cur, id>>}]

\* Mutant: the newest version is written, sealed or not.
liveVerShared(m, id) == m

\* The node copied into the current snapshot, if its last version is older.
liveVer(m, id) ==
    LET vs   == m.nodes[id]
        last == vs[Len(vs)]
    IN  IF last.snap = m.cur THEN m
        ELSE [m EXCEPT !.nodes[id] = Append(vs, [last EXCEPT !.snap = m.cur])]

\* The live version of id with its link count changed.
addNlink(m, id, step) ==
    LET m1 == liveVer(m, id)
    IN  [m1 EXCEPT !.nodes[id][Len(m1.nodes[id])].nlink = @ + step]

linkErr(m, dir, name, child) ==
    IF name = SNAPSHOT_NAME THEN "INVAL"
    ELSE IF effR(m, dir, m.cur).type # "DIR" THEN "NOTDIR"
    ELSE IF effR(m, child, m.cur).type = "DIR" /\ reachable(m, child, dir) THEN "INVAL"
    ELSE IF childAt(m, dir, name, m.cur) # NoId THEN "EXIST"
    ELSE "OK"

linked(m, dir, name, child) ==
    LET m1 == [m EXCEPT !.links[<<dir, name>>] =
                            Append(@, [born |-> m.cur, dead |-> 0, child |-> child])]
    IN  touch(touch(addNlink(m1, child, 1), dir), child)

unlinkErr(m, dir, name) == IF liveIv(m, <<dir, name>>, m.cur) = 0 THEN "NOENT" ELSE "OK"

\* Mutant: the interval is erased though earlier snapshots show the name.
unlinkedErased(m, dir, name) ==
    LET key == <<dir, name>>
        i   == liveIv(m, key, m.cur)
        ivs == SubSeq(m.links[key], 1, i - 1) \o SubSeq(m.links[key], i + 1, Len(m.links[key]))
        m1  == addNlink([m EXCEPT !.links[key] = ivs], m.links[key][i].child, -1)
    IN  touch(touch(m1, dir), m.links[key][i].child)

\* An interval born in this snapshot is erased, an older one ends here.
unlinked(m, dir, name) ==
    LET key == <<dir, name>>
        i   == liveIv(m, key, m.cur)
        iv  == m.links[key][i]
        ivs == IF iv.born = m.cur
               THEN SubSeq(m.links[key], 1, i - 1) \o SubSeq(m.links[key], i + 1, Len(m.links[key]))
               ELSE [m.links[key] EXCEPT ![i].dead = m.cur]
        m1  == addNlink([m EXCEPT !.links[key] = ivs], iv.child, -1)
    IN  touch(touch(m1, dir), iv.child)

moveErr(m, sdir, sn, ddir, dn) ==
    LET child == childAt(m, sdir, sn, m.cur)
        e     == linkErr(m, ddir, dn, child)
    IN  IF child = NoId THEN "NOENT"
        ELSE IF e # "OK" THEN e
        ELSE unlinkErr(linked(m, ddir, dn, child), sdir, sn)

moved(m, sdir, sn, ddir, dn) ==
    unlinked(linked(m, ddir, dn, childAt(m, sdir, sn, m.cur)), sdir, sn)

-----------------------------------------------------------------------------
(* The operations. *)

Exists(id) == mem.nodes[id] # <<>>

\* mkdir, mkfile, symlink, mknod.
MemAlloc(type, data) ==
    /\ mem.next <= MaxNode
    /\ mem' = touch([mem EXCEPT !.next = @ + 1,
                                !.nodes[mem.next] = <<NodeVer(mem.cur, type, 0, data, mem.clock)>>],
                    mem.next)

MemLink(dir, name, child) ==
    /\ Exists(dir) /\ Exists(child)
    /\ linkErr(mem, dir, name, child) = "OK"
    /\ mem' = linked(mem, dir, name, child)

MemUnlink(dir, name) ==
    /\ Exists(dir)
    /\ unlinkErr(mem, dir, name) = "OK"
    /\ mem' = unlinked(mem, dir, name)

MemMove(sdir, sn, ddir, dn) ==
    /\ Exists(sdir) /\ Exists(ddir)
    /\ moveErr(mem, sdir, sn, ddir, dn) = "OK"
    /\ mem' = moved(mem, sdir, sn, ddir, dn)

\* setContent, setTarget, setRdev, setContentSeed and size.
MemSetData(id, types, v) ==
    /\ Exists(id)
    /\ effR(mem, id, mem.cur).type \in types
    /\ \E m \in {liveVer(mem, id)} :
           mem' = touch([m EXCEPT !.nodes[id][Len(m.nodes[id])].data = v], id)

\* The setters of a handle that take any type.
MemSetAttr(id, attr, stamp) ==
    /\ Exists(id)
    /\ \E m \in {liveVer(mem, id)} :
           mem' = touch([m EXCEPT !.nodes[id][Len(m.nodes[id])].attr = attr,
                                  !.nodes[id][Len(m.nodes[id])].stamp = stamp], id)

MemSetTime(t) == mem' = [mem EXCEPT !.clock = t]

MemSnapshot == /\ mem.cur < MaxSnap
               /\ mem' = [mem EXCEPT !.cur = @ + 1, !.snaps = @ \cup {<<mem.cur, mem.clock>>}]
=============================================================================
