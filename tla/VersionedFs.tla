----------------------------- MODULE VersionedFs -----------------------------
(***************************************************************************)
(* What a store promises (include/prfs/prfs.hpp): one live tree that       *)
(* operations change, and a sequence of sealed copies of it that nothing   *)
(* changes.  No versions, no shared link sets, no index: taking a snapshot *)
(* copies the whole tree.                                                  *)
(***************************************************************************)
EXTENDS Integers, Sequences

CONSTANTS Ids, Names, SNAPSHOT_NAME, Types, Data, Times

VARIABLES live, sealed

fsvars == <<live, sealed>>

Root      == 1
NoId      == 0
NoNode    == [type |-> "NONE"]
NoEntries == [n \in Names |-> NoId]

NewNode(type, data, now) ==
    [type |-> type, data |-> data, attr |-> now, stamp |-> now, entries |-> NoEntries]

FsInit == /\ live = [id \in Ids |-> IF id = Root THEN NewNode("DIR", 0, 0) ELSE NoNode]
          /\ sealed = <<>>

\* Every set that holds `from' and all that hangs under its members holds `to'.
CanReach(t, from, to) ==
    LET below == [n \in Ids |-> IF t[n] = NoNode THEN {}
                               ELSE {t[n].entries[nm] : nm \in Names} \ {NoId}]
    IN  \A S \in SUBSET Ids : from \in S /\ (\A n \in S : below[n] \subseteq S) => to \in S

Bind(t, dir, name, child) == [t EXCEPT ![dir].entries[name] = child]

\* Entry `name' of dir may be made a link to child.
Linkable(t, dir, name, child) ==
    /\ name # SNAPSHOT_NAME
    /\ t[dir].type = "DIR"
    /\ t[child] # NoNode
    /\ t[dir].entries[name] = NoId
    /\ ~CanReach(t, child, dir)

Bound(t, dir, name) == t[dir].type = "DIR" /\ t[dir].entries[name] # NoId

Created(t, u, id, type, data, now) ==
    t[id] = NoNode /\ u = [t EXCEPT ![id] = NewNode(type, data, now)]

Linked(t, u, dir, name, child) ==
    Linkable(t, dir, name, child) /\ u = Bind(t, dir, name, child)

Unlinked(t, u, dir, name) ==
    Bound(t, dir, name) /\ u = Bind(t, dir, name, NoId)

Moved(t, u, sdir, sn, ddir, dn) ==
    /\ Bound(t, sdir, sn)
    /\ Linkable(t, ddir, dn, t[sdir].entries[sn])
    /\ u = Bind(Bind(t, ddir, dn, t[sdir].entries[sn]), sdir, sn, NoId)

Rewritten(t, u, id, data, attr, stamp) ==
    t[id] # NoNode /\ u = [t EXCEPT ![id].data = data, ![id].attr = attr, ![id].stamp = stamp]

\* u is tree t after one operation.
Change(t, u) ==
    \/ \E id \in Ids, type \in Types, data \in Data, now \in Times : Created(t, u, id, type, data, now)
    \/ \E dir, child \in Ids, name \in Names : Linked(t, u, dir, name, child)
    \/ \E dir \in Ids, name \in Names : Unlinked(t, u, dir, name)
    \/ \E sdir, ddir \in Ids, sn, dn \in Names : Moved(t, u, sdir, sn, ddir, dn)
    \/ \E id \in Ids, data \in Data, attr, stamp \in Times : Rewritten(t, u, id, data, attr, stamp)

FsSnapshot == /\ sealed' = Append(sealed, live)
              /\ UNCHANGED live

\* A call that leaves the tree as it was is a stutter.
FsNext == \/ UNCHANGED sealed /\ \E t \in {live}, u \in {live'} : u # t /\ Change(t, u)
          \/ FsSnapshot

FsSpec == FsInit /\ [][FsNext]_fsvars
=============================================================================
