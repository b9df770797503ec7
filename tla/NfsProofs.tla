------------------------------ MODULE NfsProofs ------------------------------
(***************************************************************************)
(* The NFS front ends for every tree.  Filehandles: LOOKUP hands out       *)
(* handles that resolve, `..' is a directory that holds this one, and a    *)
(* handle keeps its meaning.  Write procedures: a procedure is store       *)
(* transactions and nothing else, so what is proved of the store holds     *)
(* under it wherever it dies; and what it leaves behind when it is         *)
(* refused, answered or cut short.                                         *)
(***************************************************************************)
EXTENDS NfsWrites, PrfsTreeProofs, SequenceTheorems

-----------------------------------------------------------------------------
(* Filehandles. *)

\* A handle that resolves is read in a view that is there.
LEMMA HandleView ==
    ASSUME TypeOK, NEW fh \in Handles, known(fh)
    PROVE  /\ rr(fh.snap) \in Visible /\ rr(fh.snap) \in Snaps
           /\ fh.id \in Ids /\ existedAt(db, fh.id, rr(fh.snap))
           /\ fh.snap \in Nat /\ fh.snap < m_cur
           /\ fh = [id |-> fh.id, snap |-> fh.snap, synth |-> fh.synth]
<1>1. fh.id \in Ids /\ fh.snap \in {LATEST} \cup Snaps /\ m_cur \in Snaps
  BY DEF Handles, TypeOK
<1>2. existedAt(db, fh.id, rr(fh.snap)) /\ fh.snap < m_cur
  BY DEF known
<1>3. fh.snap \in Nat
  BY <1>1, BoundsAssumption DEF LATEST, Snaps
<1>4. rr(fh.snap) \in Visible /\ rr(fh.snap) \in Snaps
  <2>1. CASE fh.snap = LATEST
    BY <1>1, <2>1, BoundsAssumption DEF rr, Visible, Snaps
  <2>2. CASE fh.snap # LATEST
    BY <1>1, <1>2, <2>2, BoundsAssumption DEF rr, Visible, Snaps
  <2> QED BY <2>1, <2>2
<1>5. fh = [id |-> fh.id, snap |-> fh.snap, synth |-> fh.synth]
  BY DEF Handles
<1> QED BY <1>1, <1>2, <1>3, <1>4, <1>5

\* What LOOKUP returns in a directory of a view: a handle of the same view.
LEMMA LookupEntry ==
    ASSUME TypeOK, NoDanglingEntry, DbInv(db), NEW fh \in Handles, known(fh), ~fh.synth,
           NEW name \in Names, linkSet(db, fh.id, rr(fh.snap))[name] # NoId
    PROVE  known([id |-> linkSet(db, fh.id, rr(fh.snap))[name], snap |-> fh.snap, synth |-> FALSE])
<1> DEFINE c == linkSet(db, fh.id, rr(fh.snap))[name]
           h == [id |-> c, snap |-> fh.snap, synth |-> FALSE]
<1>1. rr(fh.snap) \in Visible /\ fh.id \in Ids /\ fh.snap < m_cur
  BY HandleView
<1>2. existedAt(db, c, rr(fh.snap))
  BY <1>1 DEF NoDanglingEntry
<1>3. h.id = c /\ h.snap = fh.snap /\ h.synth = FALSE
  OBVIOUS
<1> HIDE DEF c, h
<1>4. known(h)
  BY <1>1, <1>2, <1>3 DEF known
<1> QED BY <1>4 DEF h, c

\* Whatever LOOKUP finds in a directory, a snapshot number in .snapshot included, is a
\* handle that resolves in the view of the directory or the snapshot named.
THEOREM LookupsResolve == Spec => []LookupResolves
<1>1. ASSUME TypeOK, NoDanglingEntry, DbInv(db) PROVE LookupResolves
  <2> SUFFICES ASSUME NEW fh \in Handles, NEW name \in Names \cup Snaps,
                      name \in Snaps <=> fh.synth, nfsLookup(fh, name).st = "OK"
               PROVE  /\ known(nfsLookup(fh, name).fh)
                      /\ nfsLookup(fh, name).fh.snap = (IF fh.synth THEN name ELSE fh.snap)
    BY DEF LookupResolves
  <2> DEFINE g == rr(fh.snap)
             r == nfsLookup(fh, name).fh
  <2>1. known(fh) /\ typeOf(fh) = "DIR" /\ lookup(fh, name) # NoFh /\ r = lookup(fh, name)
    BY DEF nfsLookup
  <2>2. /\ fh.id \in Ids /\ fh.snap < m_cur /\ existedAt(db, fh.id, g) /\ m_cur \in Snaps
        /\ fh = [id |-> fh.id, snap |-> fh.snap, synth |-> fh.synth]
    BY <1>1, <2>1, HandleView DEF TypeOK
  <2>3. CASE fh.synth
    <3>1. name \in 1..(m_cur - 1) /\ existedAt(db, fh.id, name)
          /\ r = [id |-> fh.id, snap |-> name, synth |-> FALSE]
      BY <2>1, <2>3 DEF lookup
    <3>2. name < m_cur /\ name # LATEST /\ name \in Snaps
      BY <2>2, <2>3, <3>1, BoundsAssumption DEF LATEST, Snaps
    <3>3. r.id = fh.id /\ r.snap = name /\ r.synth = FALSE
      BY <3>1
    <3> HIDE DEF r
    <3>4. known(r)
      BY <3>1, <3>2, <3>3 DEF known, rr
    <3> QED BY <2>3, <3>3, <3>4 DEF r
  <2>4. CASE ~fh.synth
    <3>1. CASE name = SNAPSHOT_NAME /\ fh.snap = LATEST
      <4>1. r = [fh EXCEPT !.synth = TRUE]
        BY <2>1, <2>4, <3>1 DEF lookup
      <4>2. r.id = fh.id /\ r.snap = fh.snap /\ r.synth = TRUE
        BY <4>1, <2>2
      <4> HIDE DEF r
      <4>3. known(r)
        BY <2>2, <3>1, <4>2 DEF known
      <4> QED BY <2>4, <4>2, <4>3 DEF r
    <3>2. CASE ~(name = SNAPSHOT_NAME /\ fh.snap = LATEST)
      <4>1. /\ linkSet(db, fh.id, g)[name] # NoId
            /\ r = [id |-> linkSet(db, fh.id, g)[name], snap |-> fh.snap, synth |-> FALSE]
        BY <2>1, <2>4, <3>2 DEF lookup
      <4>2. name \in Names
        BY <2>4
      <4>3. known(r)
        BY <1>1, <2>1, <2>4, <4>1, <4>2, LookupEntry
      <4> QED BY <2>4, <4>1, <4>3
    <3> QED BY <3>1, <3>2
  <2> QED BY <2>3, <2>4
<1>2. IndInv /\ NoDanglingEntry => LookupResolves
  BY <1>1 DEF IndInv
<1> QED BY <1>2, Invariance, EntriesSound, PTL

-----------------------------------------------------------------------------
(* The parent. *)

\* A set of ids that is not empty has a lowest one.
LEMMA LowestId ==
    ASSUME NEW S \in SUBSET Ids, S # {}
    PROVE  LET p == CHOOSE p \in S : \A q \in S : p <= q IN p \in S
<1>1. S \subseteq Nat
  BY BoundsAssumption DEF Ids
<1>2. PICK x \in S : \A y \in S : ~(<<y, x>> \in OpToRel(<, Nat))
  BY <1>1, WFMin, NatLessThanWellFounded
<1>3. ASSUME NEW y \in S PROVE x <= y
  <2>1. x \in Nat /\ y \in Nat /\ ~(y < x)
    BY <1>1, <1>2 DEF OpToRel
  <2> QED BY <2>1
<1> QED BY <1>3

\* `..' of a directory is a directory of the same view that holds it, sealed views and
\* directories moved since included; only one that has no name there is its own parent.
THEOREM ParentsHold == Spec /\ SnapshotsSucceed => []ParentHolds
<1>1. ASSUME IndInv, Trees, NoDanglingEntry, SnapshotNameUnbound PROVE ParentHolds
  <2> SUFFICES ASSUME NEW fh \in directories, ~fh.synth
               PROVE  LET holding == {d \in directories : /\ ~d.synth /\ d.snap = fh.snap
                                         /\ \E name \in Names \ {SNAPSHOT_NAME} : lookup(d, name) = fh}
                      IN  IF lookupp(fh) = fh THEN holding = {} ELSE lookupp(fh) \in holding
    BY DEF ParentHolds
  <2> DEFINE g  == rr(fh.snap)
             up == parents(db, fh.id, g)
             ps == {p[1] : p \in up}
             holding == {d \in directories : /\ ~d.synth /\ d.snap = fh.snap
                                  /\ \E name \in Names \ {SNAPSHOT_NAME} : lookup(d, name) = fh}
  <2>0. TypeOK /\ DbInv(db) /\ fh \in Handles /\ known(fh) /\ typeOf(fh) = "DIR"
    BY <1>1 DEF IndInv, directories
  <2>1. /\ g \in Visible /\ g \in Snaps /\ fh.id \in Ids /\ fh.snap < m_cur
        /\ fh = [id |-> fh.id, snap |-> fh.snap, synth |-> FALSE]
        /\ fh.snap \in {LATEST} \cup Snaps
    <3>1. fh.synth = FALSE /\ fh.snap \in {LATEST} \cup Snaps
      BY <2>0 DEF Handles
    <3> QED BY <2>0, <3>1, HandleView
  <2>2. isDir(db, fh.id, g)
    BY <2>0 DEF typeOf, isDir
  <2>3. TreeAt(db, g)
    BY <1>1, <2>1 DEF Trees
  <2>4. up \in SUBSET (Ids \X Names)
    BY <2>0, <2>1, ReadTypes
  <2>5. \A a \in Ids, b \in Names : <<a, b>> \in up <=> linkSet(db, a, g)[b] = fh.id
    BY <2>1, <2>3 DEF TreeAt, Mirrored
  <2>6. ps \in SUBSET Ids
    BY <2>4
  <2> HIDE DEF g, up
  \* A directory that holds this one is among its up-links.
  <2>7. ASSUME NEW d \in holding PROVE d.id \in ps
    <3>1. d \in Handles /\ ~d.synth /\ d.snap = fh.snap
      BY DEF directories
    <3>2. PICK name \in Names \ {SNAPSHOT_NAME} : lookup(d, name) = fh
      OBVIOUS
    <3>3. fh # NoFh
      <4>1. fh.id # NoId /\ NoFh.id = NoId
        BY <2>1, BoundsAssumption DEF NoFh, NoId, Ids
      <4> QED BY <4>1
    <3>4. [id |-> linkSet(db, d.id, g)[name], snap |-> d.snap, synth |-> FALSE] = fh
      BY <3>1, <3>2, <3>3 DEF lookup, g
    <3>5. linkSet(db, d.id, g)[name] = fh.id /\ d.id \in Ids
      BY <3>1, <3>4 DEF Handles
    <3>6. <<d.id, name>> \in up
      BY <2>5, <3>5
    <3> QED BY <3>6
  <2>8. CASE ps = {}
    <3>1. lookupp(fh) = fh
      BY <2>8 DEF lookupp, g, up
    <3>2. holding = {}
      BY <2>7, <2>8
    <3> QED BY <3>1, <3>2 DEF g
  <2>9. CASE ps # {}
    <3> DEFINE p == CHOOSE p \in ps : \A q \in ps : p <= q
               h == [id |-> p, snap |-> fh.snap, synth |-> FALSE]
    <3>1. p \in ps
      <4> HIDE DEF ps
      <4> QED BY <2>6, <2>9, LowestId
    <3>2. PICK x \in up : x[1] = p
      BY <3>1
    <3>3. PICK n \in Names : <<p, n>> \in up
      <4>1. x \in Ids \X Names
        BY <2>4, <3>2
      <4>2. x = <<x[1], x[2]>> /\ x[2] \in Names
        BY <4>1
      <4> HIDE DEF p
      <4> QED BY <3>2, <4>2
    <3>4. p \in Ids
      BY <2>6, <3>1
    <3>p. lookupp(fh) = [fh EXCEPT !.id = p]
      BY <2>9 DEF lookupp, g, up
    <3> HIDE DEF p
    <3>5. linkSet(db, p, g)[n] = fh.id /\ fh.id # NoId
      BY <2>1, <2>5, <3>3, <3>4, BoundsAssumption DEF NoId, Ids
    <3>6. isDir(db, p, g) /\ existedAt(db, p, g)
      <4>1. isDir(db, p, g)
        BY <3>5 DEF linkSet, isDir, NoEntries
      <4> QED BY <4>1, NoRecIsNoNode DEF isDir, existedAt
    <3>7. n # SNAPSHOT_NAME
      BY <1>1, <2>1, <3>4, <3>5 DEF SnapshotNameUnbound
    <3>8. p # fh.id
      <4> SUFFICES ASSUME p = fh.id PROVE FALSE
        OBVIOUS
      <4>1. fh.id \in subdirs(db, fh.id, g)
        BY <2>2, <3>5 DEF subdirs
      <4>2. \E m \in {fh.id} : [i \in Ids |-> subdirs(db, i, g)][m] \cap {fh.id} = {}
        <5>1. {fh.id} \in (SUBSET Ids) \ {{}}
          BY <2>1
        <5> QED BY <2>3, <5>1 DEF TreeAt, NoCycle
      <4> QED BY <2>1, <4>1, <4>2
    <3>9. lookupp(fh) = h /\ h # fh
      <4>1. h.id = p
        OBVIOUS
      <4>2. fh \in [id : Ids, snap : {LATEST} \cup Snaps, synth : BOOLEAN] /\ fh.synth = FALSE
        BY <2>0 DEF Handles
      <4>3. [fh EXCEPT !.id = p] = [id |-> p, snap |-> fh.snap, synth |-> fh.synth]
        BY <4>2
      <4> QED BY <3>8, <3>p, <4>1, <4>2, <4>3
    <3>10. h \in Handles /\ h.id = p /\ h.snap = fh.snap /\ h.synth = FALSE
      BY <2>1, <3>4 DEF Handles
    <3> HIDE DEF h
    <3>11. known(h) /\ typeOf(h) = "DIR"
      BY <2>1, <3>6, <3>10 DEF known, typeOf, isDir, g
    <3>12. lookup(h, n) = fh
      BY <2>1, <3>5, <3>7, <3>10 DEF lookup, g
    <3>13. h \in holding
      BY <3>7, <3>10, <3>11, <3>12 DEF directories
    <3> QED BY <3>9, <3>13
  <2> QED BY <2>8, <2>9
<1>2. IndInv /\ Trees /\ (NoDanglingEntry /\ SnapshotNameUnbound) => ParentHolds
  BY <1>1
<1> QED BY <1>2, Invariance, TreesInvariance, EntriesSound, PTL

-----------------------------------------------------------------------------
(* Handles keep their meaning. *)

\* A handle that resolves goes on resolving, to an object of the same type, through every
\* change, snapshot and restart: a sealed view is immutable, no record is ever deleted and
\* no node changes its type.
THEOREM HandlesKeep == Spec /\ SnapshotsSucceed => HandlesStayGood
<1>1. ASSUME IndInv, TreeInv(db), Trees, [Next]_vars, [~SnapshotFails]_vars
      PROVE  [\A fh \in {h \in Handles : h.snap < m_cur /\ ~h.synth /\ known(h)} :
                 known(fh)' /\ typeOf(fh)' = typeOf(fh)]_vars
  <2> SUFFICES ASSUME ~UNCHANGED vars, NEW fh \in Handles, ~fh.synth, known(fh)
               PROVE  known(fh)' /\ typeOf(fh)' = typeOf(fh)
    OBVIOUS
  <2>1. /\ IndInv' /\ Untouched(db, db', m_cur) /\ NoneLost(db, db') /\ TreeInv(db') /\ TypesKept(db, db', m_cur)
        /\ DbInv(db) /\ db \in DbType /\ db' \in DbType /\ m_cur \in Snaps /\ m_cur' \in Snaps
    BY <1>1, StepInv, StepTree DEF IndInv, TypeOK
  <2>2. m_cur <= m_cur'
    <3>1. CASE Snapshot
      BY <3>1, <2>1, BoundsAssumption DEF Snapshot, Snaps
    <3>2. CASE ~Snapshot
      <4>1. m_cur' = m_cur
        BY <1>1, <3>2, CurMoves DEF Trees
      <4> QED BY <4>1, <2>1, BoundsAssumption DEF Snaps
    <3> QED BY <3>1, <3>2
  <2>3. /\ fh.id \in Ids /\ fh.snap \in Nat /\ fh.snap < m_cur /\ fh.snap < m_cur'
        /\ fh.snap \in {LATEST} \cup Snaps /\ fh.synth = FALSE
        /\ existedAt(db, fh.id, rr(fh.snap))
    <3>1. /\ fh.id \in Ids /\ fh.snap \in Nat /\ fh.snap < m_cur
          /\ existedAt(db, fh.id, rr(fh.snap))
      BY <1>1, HandleView DEF IndInv
    <3> QED BY <3>1, <2>1, <2>2, BoundsAssumption DEF Handles, Snaps
  <2>4. CASE fh.snap # LATEST
    <3>1. fh.snap \in Snaps /\ rr(fh.snap) = fh.snap /\ rr(fh.snap)' = fh.snap
      BY <2>3, <2>4 DEF rr
    <3>2. loadNode(db', fh.id, fh.snap) = loadNode(db, fh.id, fh.snap)
      BY <2>1, <2>3, <3>1, ReadUntouched
    <3> QED BY <2>3, <3>1, <3>2 DEF known, typeOf, existedAt
  <2>5. CASE fh.snap = LATEST
    <3>1. rr(fh.snap) = m_cur /\ rr(fh.snap)' = m_cur'
      BY <2>5 DEF rr
    <3>2. m_cur \in Int /\ m_cur' \in Int
      BY <2>1, BoundsAssumption DEF Snaps
    <3>3. PICK s \in Snaps : s <= m_cur /\ db.nodes[fh.id][s] # NoRec
      BY <2>1, <2>3, <3>1, <3>2, ExistsIff
    <3>4. s <= m_cur' /\ db'.nodes[fh.id][s] # NoRec
      BY <2>1, <2>2, <2>3, <3>2, <3>3, BoundsAssumption DEF NoneLost, Snaps
    <3>5. existedAt(db', fh.id, m_cur')
      BY <2>1, <2>3, <3>2, <3>4, ExistsIff
    <3>6. loadNode(db', fh.id, m_cur').type = loadNode(db, fh.id, m_cur).type
      <4>1. db'.nodes[fh.id][s].type = loadNode(db', fh.id, m_cur').type
        BY <2>1, <2>3, <3>4, <3>5, TypeOfNode
      <4>2. existedAt(db', fh.id, m_cur)
        BY <2>1, <2>3, <3>2, <3>3, <3>4, ExistsIff
      <4>3. db'.nodes[fh.id][s].type = loadNode(db', fh.id, m_cur).type
        BY <2>1, <2>3, <3>4, <4>2, TypeOfNode
      <4>4. loadNode(db', fh.id, m_cur).type = loadNode(db, fh.id, m_cur).type
        BY <2>1, <2>3, <3>1 DEF TypesKept
      <4> QED BY <4>1, <4>3, <4>4
    <3> QED BY <2>3, <3>1, <3>5, <3>6 DEF known, typeOf
  <2> QED BY <2>4, <2>5
<1>2. IndInv /\ TreeInv(db) /\ Trees /\ [Next]_vars /\ [~SnapshotFails]_vars =>
      [\A fh \in {h \in Handles : h.snap < m_cur /\ ~h.synth /\ known(h)} :
          known(fh)' /\ typeOf(fh)' = typeOf(fh)]_vars
  BY <1>1
<1> QED BY <1>2, Invariance, TreeInvariance, TreesInvariance, PTL
       DEF Spec, SnapshotsSucceed, HandlesStayGood

-----------------------------------------------------------------------------
(* The invariant: what the procedure under way still has to call. *)

Setters == {"attr", "stamp", "data", "mtime", "ctime"}
NsOps   == {"link", "unlink", "move"}

LiveHandles == {h \in Handles : h.snap = LATEST}

\* The store calls; only of a .snapshot directory is an entry named by a number, and a
\* move goes to a live directory.
Calls == [op : {"alloc"}, fh : Handles, type : Types, val : Data]
    \cup [op : {"attr", "stamp"}, fh : Handles, val : Times]
    \cup [op : {"data"}, fh : Handles, types : DataSetters, val : Data]
    \cup [op : {"mtime", "ctime", "tick"}, fh : Handles]
    \cup {c \in [op : {"link"}, fh : Handles, name : Names \cup Snaps, child : Handles] :
             c.name \in Names \/ c.fh.synth}
    \cup [op : {"unlink"}, fh : Handles, name : Names]
    \cup [op : {"move"}, fh : Handles, name : Names, dfh : LiveHandles, dname : Names]

HTypes == /\ todo \in Seq(Calls)
          /\ hist \in [proto : {0, 3, 4}, fresh : Ids \cup {NoId},
                       wrote : SUBSET Ids, unstamped : SUBSET Ids]

\* The directories whose entries a call changes.
dirsOf(c) == IF c.op = "move" THEN {c.fh.id, c.dfh.id} ELSE {c.fh.id}

\* The node the procedure makes.
madeBy(s, next, fresh) == IF Len(s) > 0 /\ s[1].op = "alloc" THEN next ELSE fresh

\* s is a list of calls whose k-th changes the namespace (none does if k is 0).  Before it
\* a node f is made and given attributes, through its own handle; after it there are only
\* setters, which in v3 leave f alone, and each directory that changed gets its mtime.
Plan(s, k, p, f) ==
    /\ k \in 0..Len(s)
    /\ \A i \in 1..Len(s) : i < k =>
           /\ s[i].op \in Setters \/ (i = 1 /\ s[i].op = "alloc")
           /\ s[i].fh = Live(f)
    /\ k > 0 => /\ s[k].op \in NsOps
                /\ s[k].op = "unlink" => k = 1
                /\ \A d \in dirsOf(s[k]) :
                       \E i \in 1..Len(s) : i > k /\ s[i].op = "mtime" /\ s[i].fh.id = d
    /\ \A i \in 1..Len(s) : i > k =>
           /\ s[i].op \in Setters \cup {"tick"}
           /\ p = 3 => s[i].fh.id # f
    /\ p = 4 => \A i \in 1..Len(s) : s[i].fh.snap = LATEST

\* What a v4 unlink is about to take is no directory with entries.
VictimEmpty(s) ==
    Len(s) > 0 /\ s[1].op = "unlink" /\ ~s[1].fh.synth =>
        LET c == linkSet(db, s[1].fh.id, m_cur)[s[1].name]
        IN  c # NoId => linkSet(db, c, m_cur) = NoEntries

\* Until the namespace changes nothing that has a name was written to and no directory
\* changed.
NothingShown ==
    /\ Len(todo) > 0 /\ todo[1].op = "alloc" => hist.fresh = NoId
    /\ hist.wrote \subseteq {hist.fresh}
    /\ hist.unstamped = {}
    /\ nlinkOf(db, m_cur, hist.fresh) = 0

Planned == \E k \in 0..Len(todo) :
               /\ Plan(todo, k, hist.proto, madeBy(todo, m_next, hist.fresh))
               /\ k > 0 => NothingShown

\* Every directory that changed has its mtime still to come.
StampsToCome ==
    \A d \in hist.unstamped : \E i \in 1..Len(todo) : todo[i].op = "mtime" /\ todo[i].fh.id = d

StoreInv == IndInv /\ TreeInv(db) /\ Trees

ProcInv == /\ HTypes
           /\ Planned
           /\ StampsToCome
           /\ hist.proto = 4 => VictimEmpty(todo)

HInv == StoreInv /\ ProcInv

-----------------------------------------------------------------------------
(* Calls. *)

\* The fields of a call, by its name.
LEMMA CallFields ==
    ASSUME NEW c \in Calls
    PROVE  /\ c.op \in {"alloc", "tick"} \cup Setters \cup NsOps
           /\ c.fh \in Handles /\ c.fh.id \in Ids /\ c.fh.synth \in BOOLEAN
           /\ c.op = "alloc" => c.type \in Types /\ c.val \in Data
           /\ c.op \in {"attr", "stamp"} => c.val \in Times
           /\ c.op = "data" => c.types \in DataSetters /\ c.val \in Data
           /\ c.op = "link" => c.child \in Handles /\ (c.name \in Names \/ c.fh.synth)
           /\ c.op = "unlink" => c.name \in Names
           /\ c.op = "move" => c.name \in Names /\ c.dname \in Names
                              /\ c.dfh \in Handles /\ c.dfh.snap = LATEST
<1>1. \A h \in Handles : h.id \in Ids /\ h.synth \in BOOLEAN
  BY DEF Handles
<1>2. CASE c \in [op : {"alloc"}, fh : Handles, type : Types, val : Data]
  BY <1>1, <1>2 DEF Setters, NsOps
<1>3. CASE c \in [op : {"attr", "stamp"}, fh : Handles, val : Times]
  BY <1>1, <1>3 DEF Setters, NsOps
<1>4. CASE c \in [op : {"data"}, fh : Handles, types : DataSetters, val : Data]
  BY <1>1, <1>4 DEF Setters, NsOps
<1>5. CASE c \in [op : {"mtime", "ctime", "tick"}, fh : Handles]
  BY <1>1, <1>5 DEF Setters, NsOps
<1>6. CASE c \in {x \in [op : {"link"}, fh : Handles, name : Names \cup Snaps, child : Handles] :
                    x.name \in Names \/ x.fh.synth}
  BY <1>1, <1>6 DEF Setters, NsOps
<1>7. CASE c \in [op : {"unlink"}, fh : Handles, name : Names]
  BY <1>1, <1>7 DEF Setters, NsOps
<1>8. CASE c \in [op : {"move"}, fh : Handles, name : Names, dfh : LiveHandles, dname : Names]
  BY <1>1, <1>8 DEF Setters, NsOps, LiveHandles
<1> QED BY <1>2, <1>3, <1>4, <1>5, <1>6, <1>7, <1>8 DEF Calls

\* The first call done, the rest of the plan remains; a namespace change has its stamps
\* to come.
LEMMA PlanTail ==
    ASSUME NEW s \in Seq(Calls), Len(s) > 0, NEW k, NEW p, NEW f, Plan(s, k, p, f)
    PROVE  /\ Plan(Tail(s), IF k > 0 THEN k - 1 ELSE 0, p, f)
           /\ Tail(s) \in Seq(Calls) /\ Len(Tail(s)) = Len(s) - 1
           /\ \A i \in 1..Len(Tail(s)) : Tail(s)[i] = s[i + 1]
           /\ Len(Tail(s)) > 0 => Tail(s)[1].op \notin {"alloc", "unlink"}
<1> DEFINE t == Tail(s)
           j == IF k > 0 THEN k - 1 ELSE 0
<1>1. /\ t \in Seq(Calls) /\ Len(t) = Len(s) - 1 /\ Len(s) \in Nat
      /\ \A i \in 1..Len(t) : t[i] = s[i + 1]
  <2>1. s # <<>>
    BY EmptySeq
  <2> QED BY <2>1, HeadTailProperties, LenProperties
<1>2. k \in 0..Len(s)
  BY DEF Plan
<1>3. \A i \in 1..Len(t) : i + 1 \in 1..Len(s)
  BY <1>1
<1> HIDE DEF t
<1>4. j \in 0..Len(t)
  BY <1>1, <1>2
<1>5. \A i \in 1..Len(t) : i < j =>
           /\ t[i].op \in Setters \/ (i = 1 /\ t[i].op = "alloc")
           /\ t[i].fh = Live(f)
  BY <1>1, <1>2, <1>3, SMTT(60) DEF Plan
<1>6. \A i \in 1..Len(t) : i > j =>
           /\ t[i].op \in Setters \cup {"tick"}
           /\ p = 3 => t[i].fh.id # f
  BY <1>1, <1>2, <1>3 DEF Plan
<1>7. p = 4 => \A i \in 1..Len(t) : t[i].fh.snap = LATEST
  BY <1>1, <1>3 DEF Plan
<1>8. ASSUME j > 0
      PROVE  /\ t[j].op \in NsOps
             /\ t[j].op = "unlink" => j = 1
             /\ \A d \in dirsOf(t[j]) :
                    \E i \in 1..Len(t) : i > j /\ t[i].op = "mtime" /\ t[i].fh.id = d
  <2>1. k > 1 /\ t[j] = s[k] /\ j = k - 1
    BY <1>1, <1>2, <1>4, <1>8
  <2>2. t[j].op \in NsOps /\ t[j].op # "unlink"
    BY <1>2, <2>1 DEF Plan
  <2>3. ASSUME NEW d \in dirsOf(t[j])
        PROVE  \E i \in 1..Len(t) : i > j /\ t[i].op = "mtime" /\ t[i].fh.id = d
    <3>1. PICK i \in 1..Len(s) : i > k /\ s[i].op = "mtime" /\ s[i].fh.id = d
      BY <1>2, <2>1, <2>3 DEF Plan
    <3>2. i - 1 \in 1..Len(t) /\ i - 1 > j /\ t[i - 1] = s[i]
      BY <1>1, <1>2, <2>1, <3>1
    <3> QED BY <3>1, <3>2
  <2> QED BY <2>2, <2>3
<1>9. Len(t) > 0 => t[1].op \notin {"alloc", "unlink"}
  <2> SUFFICES ASSUME Len(t) > 0 PROVE t[1].op \notin {"alloc", "unlink"}
    OBVIOUS
  <2>1. t[1] = s[2] /\ 2 \in 1..Len(s)
    BY <1>1
  <2>2. \/ 2 < k /\ s[2].op \in Setters
        \/ 2 = k /\ s[2].op \in NsOps \ {"unlink"}
        \/ 2 > k /\ s[2].op \in Setters \cup {"tick"}
    BY <1>2, <2>1 DEF Plan
  <2> QED BY <2>1, <2>2 DEF Setters, NsOps
<1>10. Plan(t, j, p, f)
  BY <1>4, <1>5, <1>6, <1>7, <1>8 DEF Plan
<1> QED BY <1>1, <1>9, <1>10 DEF t

-----------------------------------------------------------------------------
(* One store call is one transaction of the store. *)

\* A setter rewrites one record in place, or does nothing; link counts and entries read
\* as before.
LEMMA SetterStep ==
    ASSUME IndInv, TreeInv(db), NEW c \in Calls, Setter(c)
    PROVE  /\ [Next]_vars
           /\ m_cur' = m_cur /\ m_next' = m_next
           /\ \A i \in Ids : /\ existedAt(db', i, m_cur) <=> existedAt(db, i, m_cur)
                             /\ loadNode(db', i, m_cur).nlink = loadNode(db, i, m_cur).nlink
                             /\ linkSet(db', i, m_cur) = linkSet(db, i, m_cur)
<1> DEFINE Same == \A i \in Ids : /\ existedAt(db', i, m_cur) <=> existedAt(db, i, m_cur)
                                  /\ loadNode(db', i, m_cur).nlink = loadNode(db, i, m_cur).nlink
                                  /\ linkSet(db', i, m_cur) = linkSet(db, i, m_cur)
           id == c.fh.id
           r  == loadNode(db, id, m_cur)
<1>0. /\ DbInv(db) /\ m_cur \in Snaps /\ m_clock \in Times /\ id \in Ids
      /\ c.op \in {"attr", "stamp"} => c.val \in Times
      /\ c.op = "data" => c.types \in DataSetters /\ c.val \in Data
  BY CallFields DEF IndInv, TypeOK
<1>1. CASE UNCHANGED vars
  BY <1>1 DEF vars
<1>2. ASSUME NEW r1 \in NodeRec, r # NoRec, r1.type = r.type, r1.nlink = r.nlink,
             r1.dnLinkVer = r.dnLinkVer, r1.upLinkVer = r.upLinkVer,
             db' = storeNode(db, id, m_cur, r1)
      PROVE  Same
  <2>1. existedAt(db, id, m_cur)
    BY <1>2 DEF existedAt
  <2> QED BY <1>0, <1>2, <2>1, RewriteView
<1>3. ASSUME NEW types \in DataSetters, NEW v \in Data, SetData(id, types, v)
      PROVE  Next /\ Same /\ m_cur' = m_cur /\ m_next' = m_next
  <2> DEFINE r1 == [r EXCEPT !.data = v]
  <2>1. r # NoRec /\ db' = storeNode(db, id, m_cur, r1) /\ m_cur' = m_cur /\ m_next' = m_next
    BY <1>3 DEF SetData, Rewrite
  <2>2. r \in NodeRec
    BY <1>0, <2>1, LoadBounded DEF existedAt
  <2>3. r1 \in NodeRec /\ r1.type = r.type /\ r1.nlink = r.nlink
        /\ r1.dnLinkVer = r.dnLinkVer /\ r1.upLinkVer = r.upLinkVer
    BY <2>2 DEF NodeRec
  <2> HIDE DEF r1
  <2>4. Same
    BY <1>2, <2>1, <2>3
  <2>5. Next
    BY <1>0, <1>3 DEF Next
  <2> QED BY <2>1, <2>4, <2>5
<1>4. ASSUME NEW at, NEW st, SetAttr(id, at, st), r # NoRec => at \in Times /\ st \in Times
      PROVE  Next /\ Same /\ m_cur' = m_cur /\ m_next' = m_next
  <2> DEFINE r1 == [r EXCEPT !.attr = at, !.stamp = st]
  <2>1. r # NoRec /\ db' = storeNode(db, id, m_cur, r1) /\ m_cur' = m_cur /\ m_next' = m_next
    BY <1>4 DEF SetAttr, Rewrite
  <2>2. r \in NodeRec /\ at \in Times /\ st \in Times
    BY <1>0, <1>4, <2>1, LoadBounded DEF existedAt
  <2>3. r1 \in NodeRec /\ r1.type = r.type /\ r1.nlink = r.nlink
        /\ r1.dnLinkVer = r.dnLinkVer /\ r1.upLinkVer = r.upLinkVer
    BY <2>2 DEF NodeRec
  <2> HIDE DEF r1
  <2>4. Same
    BY <1>2, <2>1, <2>3
  <2>5. Next
    BY <1>0, <1>4, <2>2 DEF Next
  <2> QED BY <2>1, <2>4, <2>5
<1>5. CASE ~UNCHANGED vars
  <2>1. ~(c.fh.synth \/ (c.op = "data" /\ record(c).type \notin c.types))
    BY <1>5 DEF Setter
  <2>2. r # NoRec => r.attr \in Times /\ r.stamp \in Times
    BY <1>0, LoadBounded DEF existedAt, NodeRec
  <2>3. CASE c.op = "data"
    <3>1. SetData(id, c.types, c.val)
      BY <2>1, <2>3 DEF Setter
    <3> QED BY <1>0, <1>3, <2>3, <3>1
  <2>4. CASE c.op = "attr"
    <3>1. SetAttr(id, c.val, r.stamp)
      BY <2>1, <2>4 DEF Setter, record
    <3> QED BY <1>0, <1>4, <2>2, <2>4, <3>1
  <2>5. CASE c.op = "mtime"
    <3>1. SetAttr(id, m_clock, r.stamp)
      BY <2>1, <2>5 DEF Setter, record
    <3> QED BY <1>0, <1>4, <2>2, <3>1
  <2>6. CASE c.op = "stamp"
    <3>1. SetAttr(id, r.attr, c.val)
      BY <2>1, <2>6 DEF Setter, record
    <3> QED BY <1>0, <1>4, <2>2, <2>6, <3>1
  <2>7. CASE c.op = "ctime"
    <3>1. SetAttr(id, r.attr, m_clock)
      BY <2>1, <2>7 DEF Setter, record
    <3> QED BY <1>0, <1>4, <2>2, <3>1
  <2> QED BY <2>3, <2>4, <2>5, <2>6, <2>7 DEF Setter
<1> QED BY <1>1, <1>5

\* A call that is not refused names real nodes.
LEMMA NamespaceStep ==
    ASSUME IndInv, NEW c \in Calls, Namespace(c)
    PROVE  /\ Next /\ m_cur' = m_cur /\ m_next' = m_next
           /\ c.op \in NsOps /\ ~c.fh.synth /\ c.fh.id \in Ids /\ c.name \in Names
           /\ dirsOf(c) \subseteq Ids /\ Changed(dirsOf(c))
           /\ \/ c.op = "link" /\ c.child.id \in Ids /\ Link(c.fh.id, c.name, c.child.id)
              \/ c.op = "unlink" /\ Unlink(c.fh.id, c.name)
              \/ /\ c.op = "move" /\ c.dfh.id \in Ids /\ c.dname \in Names
                 /\ Move(c.fh.id, c.name, c.dfh.id, c.dname)
<1>1. \A h \in Handles : h.id \in Ids
  BY DEF Handles
<1>2. CASE c.op = "link"
  <2>1. ~c.fh.synth /\ c.fh.id \in Ids /\ c.name \in Names /\ c.child.id \in Ids
    BY <1>1, <1>2, CallFields DEF Namespace, refused, errorOf
  <2>2. Link(c.fh.id, c.name, c.child.id) /\ Changed({c.fh.id})
    BY <1>2 DEF Namespace
  <2>3. Next /\ m_cur' = m_cur /\ m_next' = m_next
    BY <2>1, <2>2 DEF Next, Link
  <2> QED BY <1>2, <2>1, <2>2, <2>3 DEF NsOps, dirsOf
<1>3. CASE c.op = "unlink"
  <2>1. ~c.fh.synth /\ c.fh.id \in Ids /\ c.name \in Names
    BY <1>1, <1>3, CallFields DEF Namespace, refused, errorOf
  <2>2. Unlink(c.fh.id, c.name) /\ Changed({c.fh.id})
    BY <1>3 DEF Namespace
  <2>3. Next /\ m_cur' = m_cur /\ m_next' = m_next
    BY <2>1, <2>2 DEF Next, Unlink
  <2> QED BY <1>3, <2>1, <2>2, <2>3 DEF NsOps, dirsOf
<1>4. CASE c.op = "move"
  <2>1. ~c.fh.synth /\ c.fh.id \in Ids /\ c.name \in Names /\ c.dfh.id \in Ids /\ c.dname \in Names
    BY <1>1, <1>4, CallFields DEF Namespace, refused, errorOf
  <2>2. Move(c.fh.id, c.name, c.dfh.id, c.dname) /\ Changed({c.fh.id, c.dfh.id})
    BY <1>4 DEF Namespace
  <2>3. Next /\ m_cur' = m_cur /\ m_next' = m_next
    BY <2>1, <2>2 DEF Next, Move
  <2> QED BY <1>4, <2>1, <2>2, <2>3 DEF NsOps, dirsOf
<1> QED BY <1>2, <1>3, <1>4 DEF Namespace

\* Every step of the front ends is a step of the store, and none a failed snapshot.
LEMMA StoreStep ==
    ASSUME HInv, [HNext]_hvars
    PROVE  [Next]_vars /\ [~SnapshotFails]_vars
<1>0. /\ IndInv /\ TreeInv(db) /\ db.cur = m_cur /\ db \in DbType /\ m_cur \in Snaps
      /\ m_cur \in Nat /\ m_clock \in Times /\ todo \in Seq(Calls)
  BY BoundsAssumption DEF HInv, ProcInv, StoreInv, HTypes, Trees, IndInv, TypeOK, Snaps
<1>1. CASE UNCHANGED vars
  BY <1>1
<1>2. CASE Call
  <2>1. PICK c \in Calls : Setter(c) \/ CallAlloc(c) \/ Namespace(c) \/ Tick(c)
    <3>1. todo # <<>>
      BY <1>2, EmptySeq DEF Call
    <3>2. Head(todo) \in Calls
      BY <1>0, <3>1, HeadTailProperties
    <3> QED BY <1>2, <3>2 DEF Call
  <2>2. ASSUME CallAlloc(c) PROVE Next /\ m_cur' = m_cur
    BY <2>2, CallFields DEF CallAlloc, Next, Alloc
  <2>3. ASSUME Tick(c) PROVE Next /\ m_cur' = m_cur
    BY <1>0, <2>3 DEF Tick, Next, SetTime
  <2>4. [Next]_vars /\ m_cur' = m_cur
    BY <1>0, <2>1, <2>2, <2>3, SetterStep, NamespaceStep
  <2> QED BY <1>0, <2>4 DEF SnapshotFails
<1>3. CASE TakeSnapshot
  <2>1. Snapshot
    BY <1>3 DEF TakeSnapshot
  <2>2. db'.cur = m_cur + 1
    BY <1>0, <2>1 DEF Snapshot, DbType
  <2>3. db' # db
    BY <1>0, <2>2
  <2> QED BY <2>1, <2>3 DEF Next, SnapshotFails
<1>4. CASE Crash
  <2>1. Reopen
    BY <1>4 DEF Crash
  <2> QED BY <1>0, <2>1 DEF Next, Reopen, SnapshotFails
<1>5. CASE CallRefused \/ Reply
  BY <1>1, <1>5 DEF CallRefused, Reply
<1>6. CASE Begin
  BY <1>1, <1>6, ZenonT(60) DEF Begin, nfsRefused, nfsCreate, nfsMake, opCreate, opOpen, nfsRemove, nfsRmdir, opRemove,
     nfsRename, opRename, nfsLink, opLink, nfsSetattr, opSetattr, nfsWrite, opWrite, Start, StartNew
<1> QED BY <1>1, <1>2, <1>3, <1>4, <1>5, <1>6 DEF HNext, hvars, vars

-----------------------------------------------------------------------------
(* Each step keeps the invariant. *)

\* What the store's part of the invariant gives.
LEMMA StoreFacts ==
    ASSUME StoreInv
    PROVE  /\ IndInv /\ TreeInv(db) /\ DbInv(db) /\ db \in DbType /\ TypeOK
           /\ m_cur \in Snaps /\ m_cur \in Visible /\ m_next \in 1..(MaxNode + 1) /\ m_clock \in Times
           /\ db.next <= m_next /\ db.cur = m_cur
           /\ TreeAt(db, m_cur)
  BY BoundsAssumption DEF StoreInv, IndInv, TypeOK, DbInv, Trees, Visible, Snaps

\* The place of the first call in the plan tells what it is.
LEMMA FirstCall ==
    ASSUME NEW s \in Seq(Calls), Len(s) > 0, NEW k, NEW p, NEW f, Plan(s, k, p, f)
    PROVE  /\ 1 \in 1..Len(s) /\ k \in 0..Len(s)
           /\ s[1].op \in Setters => k # 1
           /\ s[1].op = "alloc" => k > 1
           /\ s[1].op = "tick" => k = 0
           /\ s[1].op \in NsOps => k = 1
           /\ k > 1 => s[1].fh = Live(f)
<1>1. 1 \in 1..Len(s) /\ k \in 0..Len(s)
  BY LenProperties DEF Plan
<1>2. /\ 1 < k => (s[1].op \in Setters \/ s[1].op = "alloc") /\ s[1].fh = Live(f)
      /\ k > 0 => s[k].op \in NsOps
      /\ 1 > k => s[1].op \in Setters \cup {"tick"}
  BY <1>1 DEF Plan
<1> QED BY <1>1, <1>2 DEF Setters, NsOps

\* A store call that is made.
LEMMA CallKeeps ==
    ASSUME HInv, Call
    PROVE  ProcInv'
<1> DEFINE c == todo[1]
           f == madeBy(todo, m_next, hist.fresh)
<1>0. /\ StoreInv /\ todo \in Seq(Calls) /\ Len(todo) > 0
      /\ hist \in [proto : {0, 3, 4}, fresh : Ids \cup {NoId},
                   wrote : SUBSET Ids, unstamped : SUBSET Ids]
  BY DEF HInv, ProcInv, HTypes, Call
<1>1. /\ todo' = Tail(todo) /\ c \in Calls
      /\ Setter(c) \/ CallAlloc(c) \/ Namespace(c) \/ Tick(c)
  <2>1. todo # <<>>
    BY <1>0, EmptySeq
  <2>2. Head(todo) \in Calls /\ Head(todo) = todo[1]
    BY <1>0, <2>1, HeadTailProperties
  <2> QED BY <2>2 DEF Call
<1>2. PICK k \in 0..Len(todo) : Plan(todo, k, hist.proto, f) /\ (k > 0 => NothingShown)
  BY DEF HInv, ProcInv, Planned
<1> DEFINE j == IF k > 0 THEN k - 1 ELSE 0
<1>3. /\ Plan(todo', j, hist.proto, f)
      /\ todo' \in Seq(Calls) /\ Len(todo') = Len(todo) - 1
      /\ \A i \in 1..Len(todo') : todo'[i] = todo[i + 1]
      /\ Len(todo') > 0 => todo'[1].op \notin {"alloc", "unlink"}
  BY <1>0, <1>1, <1>2, PlanTail
<1>4. /\ 1 \in 1..Len(todo)
      /\ c.op \in Setters => k # 1
      /\ c.op = "alloc" => k > 1
      /\ c.op = "tick" => k = 0
      /\ c.op \in NsOps => k = 1
      /\ k > 1 => c.fh = Live(f)
  BY <1>0, <1>2, FirstCall
<1>5. c.fh.id \in Ids
  BY <1>1, CallFields
<1>6. j \in 0..Len(todo') /\ Len(todo) \in Nat /\ Len(todo') \in Nat
  BY <1>0, <1>3, LenProperties DEF Plan
<1>7. VictimEmpty(todo)'
  BY <1>3 DEF VictimEmpty
<1>8. madeBy(todo, m_next, hist.fresh)' = hist'.fresh
  BY <1>3 DEF madeBy
<1>9. ASSUME NEW d, NEW i \in 1..Len(todo), i > 1, todo[i].op = "mtime", todo[i].fh.id = d
      PROVE  \E n \in 1..Len(todo') : todo'[n].op = "mtime" /\ todo'[n].fh.id = d
  <2>1. i - 1 \in 1..Len(todo') /\ todo'[i - 1] = todo[i]
    BY <1>3, <1>6, <1>9
  <2> QED BY <1>9, <2>1
<1>10. (f = hist'.fresh /\ hist'.proto = hist.proto /\ (j > 0 => NothingShown')) => Planned'
  BY <1>3, <1>6, <1>8 DEF Planned
<1>11. c.op # "alloc" => f = hist.fresh
  BY DEF madeBy
<1>S. IndInv /\ TreeInv(db) /\ DbInv(db) /\ m_cur \in Snaps /\ m_next \in 1..(MaxNode + 1) /\ db.next <= m_next
  BY <1>0, StoreFacts
<1> HIDE DEF c, f
<1>12. CASE Setter(c)
  <2>1. /\ c.op \in Setters /\ c.op # "alloc"
        /\ hist' = [hist EXCEPT !.wrote = @ \cup {c.fh.id},
                                !.unstamped = IF c.op = "mtime" THEN @ \ {c.fh.id} ELSE @]
    BY <1>12 DEF Setter, Setters
  <2>2. /\ hist'.proto = hist.proto /\ hist'.fresh = hist.fresh
        /\ hist'.wrote = hist.wrote \cup {c.fh.id}
        /\ hist'.unstamped = IF c.op = "mtime" THEN hist.unstamped \ {c.fh.id} ELSE hist.unstamped
        /\ hist' \in [proto : {0, 3, 4}, fresh : Ids \cup {NoId},
                      wrote : SUBSET Ids, unstamped : SUBSET Ids]
    BY <1>0, <1>5, <2>1
  <2>3. ASSUME j > 0 PROVE NothingShown'
    <3>1. k > 1 /\ NothingShown /\ c.fh = Live(f) /\ f = hist.fresh
      BY <1>2, <1>4, <1>11, <2>1, <2>3
    <3>2. c.fh.id = hist.fresh
      BY <3>1 DEF Live
    <3>3. nlinkOf(db, m_cur, hist.fresh)' = 0
      <4>1. /\ m_cur' = m_cur
            /\ existedAt(db', c.fh.id, m_cur) <=> existedAt(db, c.fh.id, m_cur)
            /\ loadNode(db', c.fh.id, m_cur).nlink = loadNode(db, c.fh.id, m_cur).nlink
        BY <1>1, <1>5, <1>12, <1>S, SetterStep
      <4> QED BY <2>2, <3>1, <3>2, <4>1 DEF NothingShown, nlinkOf
    <3>4. hist'.unstamped = {} /\ hist'.wrote \subseteq {hist'.fresh}
      BY <2>2, <3>1, <3>2 DEF NothingShown
    <3> QED BY <1>3, <3>3, <3>4 DEF NothingShown
  <2>4. StampsToCome'
    <3> SUFFICES ASSUME NEW d \in hist'.unstamped
                 PROVE  \E i \in 1..Len(todo') : todo'[i].op = "mtime" /\ todo'[i].fh.id = d
      BY DEF StampsToCome
    <3>1. d \in hist.unstamped /\ ~(c.op = "mtime" /\ c.fh.id = d)
      BY <2>2
    <3>2. PICK i \in 1..Len(todo) : todo[i].op = "mtime" /\ todo[i].fh.id = d
      BY <3>1 DEF HInv, ProcInv, StampsToCome
    <3>3. i > 1
      BY <3>1, <3>2 DEF c
    <3> QED BY <1>9, <3>2, <3>3
  <2> QED BY <1>3, <1>7, <1>10, <1>11, <2>1, <2>2, <2>3, <2>4 DEF HTypes, ProcInv
<1>13. CASE CallAlloc(c)
  <2>1. c.op = "alloc" /\ Alloc(c.type, c.val) /\ hist' = [hist EXCEPT !.fresh = c.fh.id]
    BY <1>13 DEF CallAlloc
  <2>2. k > 1 /\ c.fh = Live(f) /\ f = m_next /\ NothingShown /\ hist.fresh = NoId
    BY <1>0, <1>2, <1>4, <2>1 DEF madeBy, f, c, NothingShown
  <2>3. c.fh.id = m_next
    BY <2>2 DEF Live
  <2>4. /\ hist'.proto = hist.proto /\ hist'.fresh = m_next
        /\ hist'.wrote = hist.wrote /\ hist'.unstamped = hist.unstamped
        /\ hist' \in [proto : {0, 3, 4}, fresh : Ids \cup {NoId},
                      wrote : SUBSET Ids, unstamped : SUBSET Ids]
    BY <1>0, <1>5, <2>1, <2>3
  <2>5. hist.wrote = {} /\ hist.unstamped = {}
    <3>1. hist.wrote \subseteq {NoId} /\ hist.wrote \subseteq Ids /\ hist.unstamped = {}
      BY <1>0, <2>2 DEF NothingShown
    <3> QED BY <3>1, BoundsAssumption DEF NoId, Ids
  <2>6. nlinkOf(db, m_cur, hist.fresh)' = 0
    <3>1. m_next \in Ids /\ c.type \in Types /\ c.val \in Data /\ m_clock \in Times
      BY <1>0, <1>1, <1>5, <2>1, <2>3, CallFields, StoreFacts
    <3>2. db' = allocDb(db, m_cur, m_next, c.type, c.val, m_clock) /\ m_cur' = m_cur
      BY <2>1 DEF Alloc
    <3>3. loadNode(db', m_next, m_cur) =
            [type |-> c.type, nlink |-> 0, data |-> c.val, attr |-> m_clock, stamp |-> m_clock,
             dnLinkVer |-> m_cur, upLinkVer |-> m_cur]
      BY <1>S, <3>1, <3>2, AllocView
    <3>4. loadNode(db', m_next, m_cur).nlink = 0
      BY <3>3
    <3> QED BY <2>4, <3>2, <3>4 DEF nlinkOf
  <2>7. NothingShown'
    BY <1>3, <2>4, <2>5, <2>6 DEF NothingShown
  <2>8. StampsToCome'
    BY <2>4, <2>5 DEF StampsToCome
  <2> QED BY <1>3, <1>7, <1>10, <2>2, <2>4, <2>7, <2>8 DEF HTypes, ProcInv
<1>14. CASE Namespace(c)
  <2>1. c.op \in NsOps /\ Changed(dirsOf(c)) /\ dirsOf(c) \subseteq Ids
    BY <1>1, <1>14, <1>S, NamespaceStep
  <2>2. k = 1 /\ NothingShown /\ c.op # "alloc" /\ j = 0
    BY <1>2, <1>4, <2>1 DEF NsOps
  <2>3. /\ hist'.proto = hist.proto /\ hist'.fresh = hist.fresh
        /\ hist'.unstamped = hist.unstamped \cup dirsOf(c)
        /\ hist' \in [proto : {0, 3, 4}, fresh : Ids \cup {NoId},
                      wrote : SUBSET Ids, unstamped : SUBSET Ids]
    BY <1>0, <2>1 DEF Changed
  <2>4. StampsToCome'
    <3> SUFFICES ASSUME NEW d \in hist'.unstamped
                 PROVE  \E i \in 1..Len(todo') : todo'[i].op = "mtime" /\ todo'[i].fh.id = d
      BY DEF StampsToCome
    <3>1. d \in dirsOf(c)
      BY <2>2, <2>3 DEF NothingShown
    <3>2. PICK i \in 1..Len(todo) : i > 1 /\ todo[i].op = "mtime" /\ todo[i].fh.id = d
      BY <1>2, <2>2, <3>1 DEF Plan, c
    <3> QED BY <1>9, <3>2
  <2> QED BY <1>3, <1>7, <1>10, <1>11, <2>2, <2>3, <2>4 DEF HTypes, ProcInv
<1>15. CASE Tick(c)
  <2>1. c.op = "tick" /\ hist' = hist
    BY <1>15 DEF Tick
  <2>2. k = 0 /\ j = 0
    BY <1>4, <2>1
  <2>3. StampsToCome'
    <3> SUFFICES ASSUME NEW d \in hist.unstamped
                 PROVE  \E i \in 1..Len(todo') : todo'[i].op = "mtime" /\ todo'[i].fh.id = d
      BY <2>1 DEF StampsToCome
    <3>1. PICK i \in 1..Len(todo) : todo[i].op = "mtime" /\ todo[i].fh.id = d
      BY DEF HInv, ProcInv, StampsToCome
    <3>2. i > 1
      BY <2>1, <3>1 DEF c
    <3> QED BY <1>9, <3>1, <3>2
  <2> QED BY <1>0, <1>3, <1>7, <1>10, <1>11, <2>1, <2>2, <2>3 DEF HTypes, ProcInv
<1> QED BY <1>1, <1>12, <1>13, <1>14, <1>15 DEF c

-----------------------------------------------------------------------------
(* The plans procedures begin with. *)

\* The setters called through fh.
On(fh) == {c \in Calls : c.op \in Setters /\ c.fh = fh}

\* The calls that may follow a change of the namespace in protocol p.
After(p, f) == {c \in Calls : /\ c.op \in Setters \cup {"tick"}
                              /\ p = 3 => c.fh.id # f
                              /\ p = 4 => c.fh.snap = LATEST}

\* The mtime of d is set in s.
Stamps(s, d) == \E i \in 1..Len(s) : s[i].op = "mtime" /\ s[i].fh.id = d

\* A call is a list of one.
LEMMA OneCall ==
    ASSUME NEW S, NEW c \in S
    PROVE  <<c>> \in Seq(S) /\ Len(<<c>>) = 1 /\ <<c>>[1] = c
  OBVIOUS

\* The setters a procedure calls through a handle.
LEMMA SetterCalls ==
    ASSUME NEW fh \in Handles
    PROVE  /\ \A v \in Times : attr(fh, v) \in Seq(On(fh)) /\ stamp(fh, v) \in Seq(On(fh))
           /\ \A types \in DataSetters, v \in Data : data(fh, types, v) \in Seq(On(fh))
           /\ mtime(fh) \in Seq(On(fh)) /\ ctime(fh) \in Seq(On(fh))
<1>1. ASSUME NEW v \in Times PROVE attr(fh, v) \in Seq(On(fh)) /\ stamp(fh, v) \in Seq(On(fh))
  <2>1. \A o \in {"attr", "stamp"} : [op |-> o, fh |-> fh, val |-> v] \in Calls
    BY DEF Calls
  <2>2. \A o \in {"attr", "stamp"} : [op |-> o, fh |-> fh, val |-> v] \in On(fh)
    BY <2>1 DEF On, Setters
  <2> QED BY <2>2, OneCall DEF attr, stamp
<1>2. ASSUME NEW types \in DataSetters, NEW v \in Data PROVE data(fh, types, v) \in Seq(On(fh))
  <2>1. [op |-> "data", fh |-> fh, types |-> types, val |-> v] \in Calls
    BY DEF Calls
  <2>2. [op |-> "data", fh |-> fh, types |-> types, val |-> v] \in On(fh)
    BY <2>1 DEF On, Setters
  <2> QED BY <2>2, OneCall DEF data
<1>3. mtime(fh) \in Seq(On(fh)) /\ ctime(fh) \in Seq(On(fh))
  <2>1. \A o \in {"mtime", "ctime"} : [op |-> o, fh |-> fh] \in Calls
    BY DEF Calls
  <2>2. \A o \in {"mtime", "ctime"} : [op |-> o, fh |-> fh] \in On(fh)
    BY <2>1 DEF On, Setters
  <2> QED BY <2>2, OneCall DEF mtime, ctime
<1> QED BY <1>1, <1>2, <1>3

\* Three lists of one make a list of three.
LEMMA ThreeCalls ==
    ASSUME NEW S, NEW a \in Seq(S), NEW b \in Seq(S), NEW c \in Seq(S),
           Len(a) = 1, Len(b) = 1, Len(c) = 1
    PROVE  Len(a \o b \o c) = 3
<1>1. a \o b \in Seq(S) /\ Len(a \o b) = 2
  BY ConcatProperties
<1> QED BY <1>1, ConcatProperties

\* The lists of setters procedures share.
LEMMA SetterLists ==
    ASSUME NEW fh \in Handles, NEW v \in Times, NEW s \in Data, NEW k \in 0..3
    PROVE  /\ applySattr(fh, v, s) \in Seq(On(fh))
           /\ applyFattr4(fh, v, s, k) \in Seq(On(fh))
           /\ touchDir(fh) \in Seq(On(fh)) /\ Stamps(touchDir(fh), fh.id)
           /\ \A seed \in Data, grows \in BOOLEAN : write(fh, seed, s, grows) \in Seq(On(fh))
<1>1. /\ attr(fh, v) \in Seq(On(fh)) /\ stamp(fh, v) \in Seq(On(fh))
      /\ data(fh, Types, s) \in Seq(On(fh))
      /\ mtime(fh) \in Seq(On(fh)) /\ ctime(fh) \in Seq(On(fh))
      /\ \A seed \in Data : data(fh, {"REG"}, seed) \in Seq(On(fh))
  BY SetterCalls DEF DataSetters
<1>2. \A x, y \in Seq(On(fh)) : x \o y \in Seq(On(fh))
  BY ConcatProperties
<1>3. applySattr(fh, v, s) \in Seq(On(fh))
  BY <1>1, <1>2 DEF applySattr
<1>4. applyFattr4(fh, v, s, k) \in Seq(On(fh))
  <2> DEFINE l == data(fh, Types, s) \o attr(fh, v) \o stamp(fh, v)
  <2>1. l \in Seq(On(fh))
    BY <1>1, <1>2
  <2>2. Len(l) = 3
    <3>1. Len(data(fh, Types, s)) = 1 /\ Len(attr(fh, v)) = 1 /\ Len(stamp(fh, v)) = 1
      BY DEF data, attr, stamp
    <3> QED BY <1>1, <3>1, ThreeCalls
  <2> HIDE DEF l
  <2>3. SubSeq(l, 1, k) \in Seq(On(fh))
    <3>1. \A i \in 1..k : i \in 1..Len(l)
      BY <2>2
    <3> QED BY <2>1, <3>1, SubSeqProperties
  <2> QED BY <2>3 DEF applyFattr4, l
<1>5. touchDir(fh) \in Seq(On(fh))
  BY <1>1, <1>2 DEF touchDir
<1>6. Stamps(touchDir(fh), fh.id)
  <2>1. Len(mtime(fh)) = 1 /\ mtime(fh)[1] = [op |-> "mtime", fh |-> fh] /\ Len(ctime(fh)) = 1
    BY DEF mtime, ctime
  <2>2. 1 \in 1..Len(touchDir(fh)) /\ touchDir(fh)[1] = [op |-> "mtime", fh |-> fh]
    BY <1>1, <2>1, ConcatProperties, SMTT(60) DEF touchDir
  <2> QED BY <2>2 DEF Stamps
<1>7. ASSUME NEW seed \in Data, NEW grows \in BOOLEAN
      PROVE  write(fh, seed, s, grows) \in Seq(On(fh))
  <2>1. (IF grows THEN data(fh, Types, s) ELSE <<>>) \in Seq(On(fh))
    BY <1>1
  <2> QED BY <1>1, <1>2, <2>1 DEF write
<1> QED BY <1>3, <1>4, <1>5, <1>6, <1>7

\* The clock's advance at the end is a list of at most one call.
LEMMA TickCalls ==
    ASSUME NEW p, NEW f, p = 3 => f # Root
    PROVE  tick(p) \in Seq(After(p, f))
<1>1. CASE p = 3 /\ TimeAdvance
  <2>1. Live(Root) \in Handles
    BY BoundsAssumption DEF Live, Root, Handles, Ids
  <2>2. [op |-> "tick", fh |-> Live(Root)] \in Calls
    BY <2>1 DEF Calls
  <2>3. [op |-> "tick", fh |-> Live(Root)] \in After(p, f)
    BY <1>1, <2>2 DEF After, Live
  <2> QED BY <1>1, <2>3, OneCall DEF tick
<1>2. CASE ~(p = 3 /\ TimeAdvance)
  BY <1>2 DEF tick
<1> QED BY <1>1, <1>2

\* Setters through a live handle may follow a namespace change in v4, and in v3 when the
\* handle is not that of the node made.
LEMMA OnAfter ==
    ASSUME NEW fh \in Handles, NEW p, NEW f, p = 3 => fh.id # f, p = 4 => fh.snap = LATEST
    PROVE  Seq(On(fh)) \subseteq Seq(After(p, f))
<1>1. On(fh) \subseteq After(p, f)
  BY DEF On, After
<1> QED BY <1>1, SeqMonotonic

\* A list with a stamp in it, in front of another or behind it.
LEMMA StampsConcat ==
    ASSUME NEW S, NEW x \in Seq(S), NEW y \in Seq(S), NEW d
    PROVE  Stamps(x, d) \/ Stamps(y, d) => Stamps(x \o y, d)
<1>1. /\ Len(x) \in Nat /\ Len(y) \in Nat /\ Len(x \o y) = Len(x) + Len(y)
      /\ \A i \in 1..(Len(x) + Len(y)) : (x \o y)[i] = IF i <= Len(x) THEN x[i] ELSE y[i - Len(x)]
  BY ConcatProperties, LenProperties
<1>2. ASSUME Stamps(x, d) PROVE Stamps(x \o y, d)
  <2>1. PICK i \in 1..Len(x) : x[i].op = "mtime" /\ x[i].fh.id = d
    BY <1>2 DEF Stamps
  <2>2. i \in 1..Len(x \o y) /\ (x \o y)[i] = x[i]
    BY <1>1
  <2> QED BY <2>1, <2>2 DEF Stamps
<1>3. ASSUME Stamps(y, d) PROVE Stamps(x \o y, d)
  <2>1. PICK i \in 1..Len(y) : y[i].op = "mtime" /\ y[i].fh.id = d
    BY <1>3 DEF Stamps
  <2>2. i + Len(x) \in 1..Len(x \o y) /\ (x \o y)[i + Len(x)] = y[i]
    BY <1>1
  <2> QED BY <2>1, <2>2 DEF Stamps
<1> QED BY <1>2, <1>3

\* A procedure that changes no entry.
LEMMA PlanAfter ==
    ASSUME NEW p, NEW f, NEW s \in Seq(After(p, f))
    PROVE  /\ Plan(s, 0, p, f) /\ s \in Seq(Calls)
           /\ Len(s) > 0 => s[1].op \notin {"alloc", "unlink"}
<1>1. s \in Seq(Calls)
  <2>1. After(p, f) \subseteq Calls
    BY DEF After
  <2> QED BY <2>1, SeqMonotonic
<1>2. Len(s) \in Nat /\ \A i \in 1..Len(s) : s[i] \in After(p, f)
  BY ElementOfSeq, LenProperties
<1>3. \A c \in After(p, f) : c.op \notin {"alloc", "unlink"}
  BY DEF After, Setters
<1>4. Len(s) > 0 => s[1].op \notin {"alloc", "unlink"}
  BY <1>2, <1>3
<1>5. Plan(s, 0, p, f)
  BY <1>2 DEF Plan, After
<1> QED BY <1>1, <1>4, <1>5

\* A procedure that begins with the change of an entry.
LEMMA PlanNs ==
    ASSUME NEW p, NEW f, NEW c \in Calls, c.op \in NsOps, p = 4 => c.fh.snap = LATEST,
           NEW t \in Seq(After(p, f)), \A d \in dirsOf(c) : Stamps(t, d)
    PROVE  LET s == <<c>> \o t
           IN  /\ Plan(s, 1, p, f) /\ s \in Seq(Calls)
               /\ Len(s) > 0 /\ s[1] = c
<1> DEFINE s == <<c>> \o t
<1>1. t \in Seq(Calls) /\ Plan(t, 0, p, f) /\ Len(t) \in Nat
  BY PlanAfter, LenProperties
<1>2. <<c>> \in Seq(Calls) /\ Len(<<c>>) = 1 /\ <<c>>[1] = c
  BY OneCall
<1>3. /\ s \in Seq(Calls) /\ Len(s) = 1 + Len(t)
      /\ \A i \in 1..(1 + Len(t)) : s[i] = IF i <= 1 THEN c ELSE t[i - 1]
  <2>1. /\ s \in Seq(Calls) /\ Len(s) = Len(<<c>>) + Len(t)
        /\ \A i \in 1..(Len(<<c>>) + Len(t)) : s[i] = IF i <= Len(<<c>>) THEN <<c>>[i] ELSE t[i - Len(<<c>>)]
    BY <1>1, <1>2, ConcatProperties
  <2>2. \A i \in 1..(1 + Len(t)) : i <= 1 => i = 1
    BY <1>1
  <2> HIDE DEF s
  <2> QED BY <1>1, <1>2, <2>1, <2>2
<1> HIDE DEF s
<1>4. s[1] = c /\ 1 \in 1..Len(s) /\ \A i \in 1..Len(s) : i > 1 => s[i] = t[i - 1] /\ i - 1 \in 1..Len(t)
  BY <1>1, <1>3
<1>5. ASSUME NEW d \in dirsOf(c) PROVE \E i \in 1..Len(s) : i > 1 /\ s[i].op = "mtime" /\ s[i].fh.id = d
  <2>1. PICK i \in 1..Len(t) : t[i].op = "mtime" /\ t[i].fh.id = d
    BY DEF Stamps
  <2>2. i + 1 \in 1..Len(s) /\ i + 1 > 1 /\ s[i + 1] = t[i]
    BY <1>1, <1>3
  <2> QED BY <2>1, <2>2
<1>6. \A i \in 1..Len(s) : i > 1 => /\ s[i].op \in Setters \cup {"tick"}
                                    /\ p = 3 => s[i].fh.id # f
                                    /\ p = 4 => s[i].fh.snap = LATEST
  BY <1>1, <1>4 DEF Plan
<1>7. Plan(s, 1, p, f)
  BY <1>1, <1>3, <1>4, <1>5, <1>6 DEF Plan
<1> QED BY <1>3, <1>4, <1>7 DEF s

\* A procedure that makes a node, gives it attributes and links it.
LEMMA PlanNew ==
    ASSUME NEW p, NEW f, NEW a \in Calls, a.op = "alloc", a.fh = Live(f),
           NEW own \in Seq(On(Live(f))),
           NEW t \in Seq(Calls), Plan(t, 1, p, f), Len(t) > 0, t[1].op # "unlink"
    PROVE  LET s == (<<a>> \o own) \o t
           IN  /\ Plan(s, Len(own) + 2, p, f) /\ s \in Seq(Calls)
               /\ Len(s) > 0 /\ s[1] = a
<1> DEFINE q == <<a>> \o own
           s == q \o t
           n == Len(own) + 1
<1>1. /\ own \in Seq(Calls) /\ Len(own) \in Nat /\ Len(t) \in Nat
      /\ \A i \in 1..Len(own) : own[i] \in On(Live(f))
  <2>1. On(Live(f)) \subseteq Calls
    BY DEF On
  <2> QED BY <2>1, SeqMonotonic, LenProperties, ElementOfSeq
<1>2. <<a>> \in Seq(Calls) /\ Len(<<a>>) = 1 /\ <<a>>[1] = a
  BY OneCall
<1>3. /\ q \in Seq(Calls) /\ Len(q) = n /\ q[1] = a
      /\ \A i \in 1..n : i > 1 => q[i] = own[i - 1]
  <2>1. /\ q \in Seq(Calls) /\ Len(q) = Len(<<a>>) + Len(own)
        /\ \A i \in 1..(Len(<<a>>) + Len(own)) :
               q[i] = IF i <= Len(<<a>>) THEN <<a>>[i] ELSE own[i - Len(<<a>>)]
    BY <1>1, <1>2, ConcatProperties
  <2> HIDE DEF q
  <2> QED BY <1>1, <1>2, <2>1
<1> HIDE DEF q
<1>4. /\ s \in Seq(Calls) /\ Len(s) = n + Len(t)
      /\ \A i \in 1..Len(s) : s[i] = IF i <= n THEN q[i] ELSE t[i - n]
  <2>1. /\ s \in Seq(Calls) /\ Len(s) = Len(q) + Len(t)
        /\ \A i \in 1..(Len(q) + Len(t)) : s[i] = IF i <= Len(q) THEN q[i] ELSE t[i - Len(q)]
    BY <1>3, ConcatProperties
  <2> HIDE DEF s, n
  <2> QED BY <1>3, <2>1
<1> HIDE DEF s
<1>5. n \in Nat /\ Len(s) \in Nat /\ 1 \in 1..Len(s) /\ s[1] = a /\ n + 1 \in 1..Len(s)
  BY <1>1, <1>3, <1>4
<1>6. ASSUME NEW i \in 1..Len(s), i > 1, i <= n PROVE s[i] \in On(Live(f))
  <2>1. i - 1 \in 1..Len(own) /\ i \in 1..n
    BY <1>1, <1>6
  <2> QED BY <1>1, <1>3, <1>4, <1>6, <2>1
<1>7. \A i \in 1..Len(s) : i > n => s[i] = t[i - n] /\ i - n \in 1..Len(t)
  BY <1>1, <1>4
<1>8. s[n + 1] = t[1]
  BY <1>5, <1>7
<1> HIDE DEF n
<1>9. \A i \in 1..Len(s) : i < n + 1 =>
           /\ s[i].op \in Setters \/ (i = 1 /\ s[i].op = "alloc")
           /\ s[i].fh = Live(f)
  BY <1>5, <1>6 DEF On
<1>10. ASSUME NEW d \in dirsOf(t[1])
       PROVE  \E i \in 1..Len(s) : i > n + 1 /\ s[i].op = "mtime" /\ s[i].fh.id = d
  <2>1. PICK i \in 1..Len(t) : i > 1 /\ t[i].op = "mtime" /\ t[i].fh.id = d
    BY DEF Plan
  <2>2. i + n \in 1..Len(s) /\ i + n > n + 1 /\ s[i + n] = t[i]
    BY <1>1, <1>4, <1>5, <2>1
  <2> QED BY <2>1, <2>2
<1>11. \A i \in 1..Len(s) : i > n + 1 => /\ s[i].op \in Setters \cup {"tick"}
                                         /\ p = 3 => s[i].fh.id # f
  BY <1>1, <1>5, <1>7 DEF Plan
<1>12. p = 4 => \A i \in 1..Len(s) : s[i].fh.snap = LATEST
  <2>1. Live(f).snap = LATEST
    BY DEF Live
  <2>2. ASSUME p = 4, NEW i \in 1..Len(s) PROVE s[i].fh.snap = LATEST
    <3>1. CASE i <= n
      BY <1>5, <1>9, <2>1, <3>1
    <3>2. CASE i > n
      BY <1>7, <2>2, <3>2 DEF Plan
    <3> QED BY <1>5, <3>1, <3>2
  <2> QED BY <2>2
<1>13. t[1].op \in NsOps
  BY DEF Plan
<1>14. n + 1 \in 0..Len(s) /\ n + 1 > 0
  BY <1>5
<1>15. Plan(s, n + 1, p, f)
  BY <1>8, <1>9, <1>10, <1>11, <1>12, <1>13, <1>14 DEF Plan
<1>16. n + 1 = Len(own) + 2
  BY <1>1 DEF n
<1> QED BY <1>4, <1>5, <1>15, <1>16 DEF s, q

-----------------------------------------------------------------------------
(* Procedures begin. *)

\* A procedure that begins with a plan keeps the invariant.
LEMMA StartKeeps ==
    ASSUME HInv, todo = <<>>, hist = Idle, NEW p, NEW calls, Start(p, calls),
           NEW k, calls \o tick(p) \in Seq(Calls),
           Plan(calls \o tick(p), k, p, madeBy(calls \o tick(p), m_next, NoId)),
           p = 4 => VictimEmpty(calls \o tick(p))
    PROVE  ProcInv'
<1> DEFINE s == calls \o tick(p)
<1>1. /\ todo' = s /\ hist' = [hist EXCEPT !.proto = p] /\ p \in {3, 4}
      /\ db' = db /\ m_cur' = m_cur /\ m_next' = m_next
  BY ProtocolsAssumption DEF Start, vars
<1>2. hist.fresh = NoId /\ hist.wrote = {}
  BY DEF Idle
<1>3. hist.unstamped = {}
  <2>1. \A i \in 1..Len(todo) : FALSE
    BY EmptySeq
  <2> QED BY <2>1 DEF HInv, ProcInv, StampsToCome
<1>4. hist \in [proto : {0, 3, 4}, fresh : Ids \cup {NoId}, wrote : SUBSET Ids, unstamped : SUBSET Ids]
  BY DEF HInv, ProcInv, HTypes
<1>5. /\ hist' \in [proto : {0, 3, 4}, fresh : Ids \cup {NoId}, wrote : SUBSET Ids, unstamped : SUBSET Ids]
      /\ hist'.proto = p /\ hist'.fresh = NoId /\ hist'.wrote = {} /\ hist'.unstamped = {}
  BY <1>1, <1>2, <1>3, <1>4
<1> HIDE DEF s
<1>6. HTypes'
  BY <1>1, <1>5 DEF HTypes, s
<1>7. NothingShown'
  BY <1>5 DEF NothingShown, nlinkOf
<1>8. Planned'
  <2>1. Plan(s, k, p, madeBy(s, m_next, NoId))
    BY DEF s
  <2>2. k \in 0..Len(s)
    BY <2>1 DEF Plan
  <2> QED BY <1>1, <1>5, <1>7, <2>1, <2>2 DEF Planned
<1>9. StampsToCome'
  BY <1>5 DEF StampsToCome
<1>10. (hist.proto = 4 => VictimEmpty(todo))'
  BY <1>1, <1>5 DEF VictimEmpty, s
<1> QED BY <1>6, <1>8, <1>9, <1>10 DEF ProcInv

\* One of setters only.
LEMMA StartSetters ==
    ASSUME HInv, todo = <<>>, hist = Idle, NEW p, NEW calls, Start(p, calls),
           calls \in Seq(After(p, NoId))
    PROVE  ProcInv'
<1> DEFINE s == calls \o tick(p)
<1>1. s \in Seq(After(p, NoId))
  <2>1. tick(p) \in Seq(After(p, NoId))
    BY TickCalls DEF NoId, Root
  <2> QED BY <2>1, ConcatProperties
<1> HIDE DEF s
<1>2. /\ Plan(s, 0, p, NoId) /\ s \in Seq(Calls)
      /\ Len(s) > 0 => s[1].op \notin {"alloc", "unlink"}
  BY <1>1, PlanAfter
<1>3. madeBy(s, m_next, NoId) = NoId /\ VictimEmpty(s)
  BY <1>2 DEF madeBy, VictimEmpty
<1> QED BY <1>2, <1>3, StartKeeps DEF s

\* Lists put together: the concatenation of call lists, opaque where it is nested.
Join(s, t) == s \o t

\* Three lists put together, from either end: the library's fact, quantified.
LEMMA ConcatThree == \A S : \A s, t, u \in Seq(S) : (s \o t) \o u = s \o (t \o u)
BY ConcatAssociative

\* The same facts of Join.
LEMMA JoinSeq == \A s, t \in Seq(Calls) : Join(s, t) \in Seq(Calls)
BY ConcatProperties DEF Join

LEMMA JoinAssoc ==
    \A s, t, u \in Seq(Calls) : Join(Join(s, t), u) = Join(s, Join(t, u))
BY ConcatAssociative DEF Join

\* One that begins with a change of the namespace.
LEMMA StartNs ==
    ASSUME HInv, todo = <<>>, hist = Idle, NEW p, NEW c \in Calls, NEW rest \in Seq(After(p, NoId)),
           Start(p, <<c>> \o rest), c.op \in NsOps, p = 4 => c.fh.snap = LATEST,
           \A d \in dirsOf(c) : Stamps(rest, d),
           p = 4 /\ c.op = "unlink" /\ ~c.fh.synth =>
               LET v == linkSet(db, c.fh.id, m_cur)[c.name]
               IN  v # NoId => linkSet(db, v, m_cur) = NoEntries
    PROVE  ProcInv'
<1> DEFINE t == rest \o tick(p)
           s == <<c>> \o t
<1>1. tick(p) \in Seq(After(p, NoId))
  BY TickCalls DEF NoId, Root
<1>2. t \in Seq(After(p, NoId)) /\ \A d \in dirsOf(c) : Stamps(t, d)
  BY <1>1, ConcatProperties, StampsConcat
<1>3. (<<c>> \o rest) \o tick(p) = s
  <2>1. After(p, NoId) \subseteq Calls
    BY DEF After
  <2>2. rest \in Seq(Calls) /\ tick(p) \in Seq(Calls) /\ <<c>> \in Seq(Calls)
    BY <1>1, <2>1, SeqMonotonic, OneCall
  <2> QED BY <2>2, ConcatThree
<1> HIDE DEF t
<1>4. Plan(s, 1, p, NoId) /\ s \in Seq(Calls) /\ Len(s) > 0 /\ s[1] = c
  BY <1>2, PlanNs
<1> HIDE DEF s
<1>5. madeBy(s, m_next, NoId) = NoId
  BY <1>4 DEF madeBy, NsOps
<1>6. p = 4 => VictimEmpty(s)
  BY <1>4 DEF VictimEmpty
<1> QED BY <1>3, <1>4, <1>5, <1>6, StartKeeps

\* One that makes a node: own are the attributes it gets before it is linked.
LEMMA StartMakes ==
    ASSUME HInv, todo = <<>>, hist = Idle, NEW p, NEW a \in Calls, a.op = "alloc", a.fh = Live(m_next),
           NEW own \in Seq(On(Live(m_next))), NEW c \in Calls, c.op = "link",
           p = 4 => c.fh.snap = LATEST, p = 3 => m_next # Root,
           NEW rest \in Seq(After(p, m_next)), Stamps(rest, c.fh.id),
           NEW calls, calls = (<<a>> \o own) \o (<<c>> \o rest), Start(p, calls)
    PROVE  ProcInv'
<1> DEFINE t == rest \o tick(p)
           u == <<c>> \o t
           s == (<<a>> \o own) \o u
<1>1. tick(p) \in Seq(After(p, m_next))
  BY TickCalls
<1>2. t \in Seq(After(p, m_next)) /\ \A d \in dirsOf(c) : Stamps(t, d)
  BY <1>1, ConcatProperties, StampsConcat DEF dirsOf
<1>3. calls \o tick(p) = s
  <2>1. After(p, m_next) \subseteq Calls /\ On(Live(m_next)) \subseteq Calls
    BY DEF After, On
  <2>2. /\ rest \in Seq(Calls) /\ tick(p) \in Seq(Calls) /\ own \in Seq(Calls)
        /\ <<c>> \in Seq(Calls) /\ <<a>> \in Seq(Calls)
    BY <1>1, <2>1, SeqMonotonic, OneCall
  <2>3. /\ <<a>> \o own \in Seq(Calls) /\ <<c>> \o rest \in Seq(Calls)
        /\ (<<c>> \o rest) \o tick(p) = u
    BY <2>2, ConcatProperties, ConcatThree
  <2> HIDE DEF u
  <2>4. ((<<a>> \o own) \o (<<c>> \o rest)) \o tick(p) = (<<a>> \o own) \o ((<<c>> \o rest) \o tick(p))
    <3> DEFINE l == <<a>> \o own
               r == <<c>> \o rest
               k == tick(p)
    <3>1. l \in Seq(Calls) /\ r \in Seq(Calls) /\ k \in Seq(Calls)
      BY <2>2, <2>3
    <3> HIDE DEF l, r, k
    <3>2. Join(Join(l, r), k) = Join(l, Join(r, k))
      BY <3>1, JoinAssoc
    <3> QED BY <3>2 DEF Join, l, r, k
  <2> QED BY <2>3, <2>4
<1> HIDE DEF t
<1>4. Plan(u, 1, p, m_next) /\ u \in Seq(Calls) /\ Len(u) > 0 /\ u[1] = c
  BY <1>2, PlanNs DEF NsOps
<1> HIDE DEF u
<1>5. Plan(s, Len(own) + 2, p, m_next) /\ s \in Seq(Calls) /\ Len(s) > 0 /\ s[1] = a
  BY <1>4, PlanNew, SMTT(60)
<1> HIDE DEF s
<1>6. madeBy(s, m_next, NoId) = m_next /\ VictimEmpty(s)
  BY <1>5 DEF madeBy, VictimEmpty
<1> QED BY <1>3, <1>5, <1>6, StartKeeps

\* A handle that resolves names a node allocated before; the root always is.
LEMMA KnownIsOld ==
    ASSUME StoreInv, NEW fh \in Handles, known(fh)
    PROVE  fh.id \in Ids /\ fh.id # m_next /\ fh.id # NoId /\ Root # m_next
<1>1. /\ TypeOK /\ DbInv(db) /\ db.next <= m_next /\ m_next \in Int /\ db.next \in Int
      /\ TreeAt(db, m_cur) /\ m_cur \in Snaps
  BY StoreFacts, BoundsAssumption DEF DbInv, DbType
<1>2. rr(fh.snap) \in Snaps /\ fh.id \in Ids /\ existedAt(db, fh.id, rr(fh.snap))
  BY <1>1, HandleView
<1>3. fh.id < db.next
  BY <1>1, <1>2, LoadBounded
<1>4. Root \in Ids /\ existedAt(db, Root, m_cur)
  BY <1>1, NoRecIsNoNode, BoundsAssumption DEF TreeAt, isDir, existedAt, Root, Ids
<1>5. Root < db.next
  BY <1>1, <1>4, LoadBounded
<1> QED BY <1>1, <1>2, <1>3, <1>4, <1>5, BoundsAssumption DEF Ids, NoId, Root

\* LOOKUP returns a handle.
LEMMA LookupHandle ==
    ASSUME StoreInv, NEW fh \in Handles, known(fh), NEW name \in Names \cup Snaps,
           name \in Names \/ fh.synth, lookup(fh, name) # NoFh
    PROVE  lookup(fh, name) \in Handles
<1>1. TypeOK /\ DbInv(db) /\ m_cur \in Snaps
  BY StoreFacts
<1>2. /\ rr(fh.snap) \in Snaps /\ fh.id \in Ids /\ fh.snap \in {LATEST} \cup Snaps
      /\ fh.synth \in BOOLEAN
  BY <1>1, HandleView DEF Handles
<1>3. CASE fh.synth
  <2>1. name \in 1..(m_cur - 1) /\ lookup(fh, name) = [id |-> fh.id, snap |-> name, synth |-> FALSE]
    BY <1>3 DEF lookup
  <2>2. name \in Snaps
    BY <1>1, <2>1, BoundsAssumption DEF Snaps
  <2> QED BY <1>2, <2>1, <2>2 DEF Handles
<1>4. CASE ~fh.synth
  <2>1. name \in Names
    BY <1>4
  <2>2. CASE name = SNAPSHOT_NAME /\ fh.snap = LATEST /\ typeOf(fh) = "DIR"
    <3>1. lookup(fh, name) = [fh EXCEPT !.synth = TRUE]
      BY <1>4, <2>2 DEF lookup
    <3> QED BY <3>1 DEF Handles
  <2>3. CASE ~(name = SNAPSHOT_NAME /\ fh.snap = LATEST /\ typeOf(fh) = "DIR")
    <3> DEFINE c == linkSet(db, fh.id, rr(fh.snap))[name]
    <3>1. c # NoId /\ lookup(fh, name) = [id |-> c, snap |-> fh.snap, synth |-> FALSE]
      BY <1>4, <2>3 DEF lookup
    <3>2. linkSet(db, fh.id, rr(fh.snap)) \in Entries
      BY <1>1, <1>2, ReadTypes
    <3>3. c \in Ids
      BY <2>1, <3>1, <3>2 DEF Entries
    <3> HIDE DEF c
    <3> QED BY <1>2, <3>1, <3>3 DEF Handles
  <2> QED BY <2>2, <2>3
<1> QED BY <1>3, <1>4

\* The first call of a procedure that makes a node, and the one that links it.
LEMMA MakingCalls ==
    ASSUME StoreInv, m_next <= MaxNode, NEW type \in Types, NEW v \in Data,
           NEW fh \in Handles, NEW name \in Names \cup Snaps, name \in Names \/ fh.synth
    PROVE  /\ Live(m_next) \in Handles
           /\ [op |-> "alloc", fh |-> Live(m_next), type |-> type, val |-> v] \in Calls
           /\ [op |-> "link", fh |-> fh, name |-> name, child |-> Live(m_next)] \in Calls
<1>1. Live(m_next) \in Handles
  <2>1. m_next \in Ids
    BY StoreFacts, BoundsAssumption DEF Ids
  <2> QED BY <2>1 DEF Live, Handles
<1>2. [op |-> "alloc", fh |-> Live(m_next), type |-> type, val |-> v] \in Calls
  BY <1>1 DEF Calls
<1>3. [op |-> "link", fh |-> fh, name |-> name, child |-> Live(m_next)] \in Calls
  <2> DEFINE l == [op |-> "link", fh |-> fh, name |-> name, child |-> Live(m_next)]
  <2>1. l \in [op : {"link"}, fh : Handles, name : Names \cup Snaps, child : Handles]
    BY <1>1
  <2>2. l.name \in Names \/ l.fh.synth
    OBVIOUS
  <2> HIDE DEF l
  <2>3. l \in Calls
    BY <2>1, <2>2 DEF Calls
  <2> QED BY <2>3 DEF l
<1> QED BY <1>1, <1>2, <1>3

\* Four lists put together, from either end.
LEMMA ConcatFour ==
    ASSUME NEW a, NEW x, NEW y, NEW z,
           a \in Seq(Calls), x \in Seq(Calls), y \in Seq(Calls), z \in Seq(Calls)
    PROVE  Join(Join(Join(a, x), y), z) = Join(a, Join(x, Join(y, z)))
<1>1. Join(a, x) \in Seq(Calls) /\ Join(y, z) \in Seq(Calls)
  BY JoinSeq
<1>2. Join(Join(Join(a, x), y), z) = Join(Join(a, x), Join(y, z))
  BY <1>1, JoinAssoc
<1>3. Join(Join(a, x), Join(y, z)) = Join(a, Join(x, Join(y, z)))
  BY <1>1, JoinAssoc
<1> QED BY <1>2, <1>3

\* The v3 procedures that make a node give it its attributes and then link it.
LEMMA MakeV3 ==
    ASSUME HInv, todo = <<>>, hist = Idle, NEW type \in Types, NEW fh \in Handles, known(fh),
           NEW name \in Names \cup Snaps, name \in Names \/ fh.synth,
           NEW x \in Seq(On(Live(m_next))), NEW y \in Seq(On(Live(m_next))),
           NEW z \in Seq(On(Live(m_next))),
           StartNew(3, alloc(type, 0) \o x \o y \o z \o finishCreate(fh, name))
    PROVE  ProcInv'
<1> DEFINE a == [op |-> "alloc", fh |-> Live(m_next), type |-> type, val |-> 0]
           c == [op |-> "link", fh |-> fh, name |-> name, child |-> Live(m_next)]
           rest == touchDir(fh)
           own == x \o (y \o z)
           calls == alloc(type, 0) \o x \o y \o z \o finishCreate(fh, name)
<1>1. StoreInv /\ m_next <= MaxNode /\ Start(3, calls)
  BY DEF HInv, StartNew
<1>2. a \in Calls /\ c \in Calls
  BY <1>1, MakingCalls, ValuesAssumption
<1>3. rest \in Seq(On(fh)) /\ Stamps(rest, fh.id)
  <2>1. 0 \in Times /\ 0 \in Data /\ 0 \in 0..3
    BY ValuesAssumption
  <2> QED BY <2>1, SetterLists
<1>4. fh.id # m_next /\ Root # m_next
  BY <1>1, KnownIsOld
<1>5. rest \in Seq(After(3, m_next))
  BY <1>3, <1>4, OnAfter
<1>6. own \in Seq(On(Live(m_next)))
  BY ConcatProperties
<1>7. calls = (<<a>> \o own) \o (<<c>> \o rest)
  <2>1. <<a>> \in Seq(Calls) /\ x \in Seq(Calls) /\ y \in Seq(Calls) /\ z \in Seq(Calls)
    <3>1. On(Live(m_next)) \subseteq Calls
      BY DEF On
    <3> QED BY <1>2, <3>1, SeqMonotonic, OneCall
  <2>2. ((<<a>> \o x) \o y) \o z = <<a>> \o own
    <3> DEFINE one == <<a>>
    <3>1. one \in Seq(Calls) /\ x \in Seq(Calls) /\ y \in Seq(Calls) /\ z \in Seq(Calls)
      BY <2>1
    <3> HIDE DEF one, a, c, rest, own, calls
    <3>2. Join(Join(Join(one, x), y), z) = Join(one, Join(x, Join(y, z)))
      BY <3>1, ConcatFour
    <3> QED BY <3>2 DEF Join, one, own
  <2> QED BY <2>2 DEF alloc, finishCreate, link
<1>8. a.op = "alloc" /\ a.fh = Live(m_next) /\ c.op = "link" /\ c.fh = fh
  OBVIOUS
<1> HIDE DEF a, c, rest, own, calls
<1>9. /\ a \in Calls /\ a.op = "alloc" /\ a.fh = Live(m_next) /\ own \in Seq(On(Live(m_next)))
      /\ c \in Calls /\ c.op = "link" /\ rest \in Seq(After(3, m_next)) /\ Stamps(rest, c.fh.id)
      /\ calls = (<<a>> \o own) \o (<<c>> \o rest) /\ Start(3, calls)
      /\ (3 = 4 => c.fh.snap = LATEST) /\ (3 = 3 => m_next # Root)
  BY <1>1, <1>2, <1>3, <1>4, <1>5, <1>6, <1>7, <1>8
<1> QED BY <1>9, StartMakes

\* The v4 operations that make a node link it first.
LEMMA MakeV4 ==
    ASSUME HInv, todo = <<>>, hist = Idle, NEW type \in Types, NEW v \in Data,
           NEW fh \in Handles, known(fh), fh.snap = LATEST,
           NEW name \in Names \cup Snaps, name \in Names \/ fh.synth,
           NEW x \in Seq(On(Live(m_next))),
           StartNew(4, alloc(type, v) \o link(fh, name, Live(m_next)) \o x \o touchDir(fh))
    PROVE  ProcInv'
<1> DEFINE a == [op |-> "alloc", fh |-> Live(m_next), type |-> type, val |-> v]
           c == [op |-> "link", fh |-> fh, name |-> name, child |-> Live(m_next)]
           rest == x \o touchDir(fh)
           own == <<>>
           calls == alloc(type, v) \o link(fh, name, Live(m_next)) \o x \o touchDir(fh)
<1>1. StoreInv /\ m_next <= MaxNode /\ Start(4, calls)
  BY DEF HInv, StartNew
<1>2. a \in Calls /\ c \in Calls /\ Live(m_next) \in Handles
  BY <1>1, MakingCalls
<1>3. touchDir(fh) \in Seq(On(fh)) /\ Stamps(touchDir(fh), fh.id)
  <2>1. 0 \in Times /\ 0 \in Data /\ 0 \in 0..3
    BY ValuesAssumption
  <2> QED BY <2>1, SetterLists
<1>4. x \in Seq(After(4, m_next)) /\ touchDir(fh) \in Seq(After(4, m_next))
  <2>1. Live(m_next).snap = LATEST
    BY DEF Live
  <2> QED BY <1>2, <1>3, <2>1, OnAfter
<1>5. rest \in Seq(After(4, m_next)) /\ Stamps(rest, fh.id)
  BY <1>3, <1>4, ConcatProperties, StampsConcat
<1>6. own \in Seq(On(Live(m_next)))
  BY EmptySeq
<1>7. calls = (<<a>> \o own) \o (<<c>> \o rest)
  <2>1. <<a>> \in Seq(Calls) /\ <<c>> \in Seq(Calls) /\ x \in Seq(Calls) /\ touchDir(fh) \in Seq(Calls)
    <3>1. After(4, m_next) \subseteq Calls
      BY DEF After
    <3> QED BY <1>2, <1>4, <3>1, SeqMonotonic, OneCall
  <2>2. <<a>> \o own = <<a>>
    BY <2>1, ConcatEmptySeq
  <2>3. ((<<a>> \o <<c>>) \o x) \o touchDir(fh) = <<a>> \o (<<c>> \o rest)
    <3>1. <<a>> \o <<c>> \in Seq(Calls) /\ rest \in Seq(Calls)
      BY <2>1, ConcatProperties
    <3>2. ((<<a>> \o <<c>>) \o x) \o touchDir(fh) = (<<a>> \o <<c>>) \o rest
      BY <2>1, <3>1, ConcatThree
    <3>3. (<<a>> \o <<c>>) \o rest = <<a>> \o (<<c>> \o rest)
      BY <2>1, <3>1, ConcatThree
    <3> QED BY <3>2, <3>3
  <2> QED BY <2>2, <2>3 DEF alloc, link
<1>8. a.op = "alloc" /\ a.fh = Live(m_next) /\ c.op = "link" /\ c.fh = fh
  OBVIOUS
<1> HIDE DEF a, c, rest, own, calls
<1>9. /\ a \in Calls /\ a.op = "alloc" /\ a.fh = Live(m_next) /\ own \in Seq(On(Live(m_next)))
      /\ c \in Calls /\ c.op = "link" /\ rest \in Seq(After(4, m_next)) /\ Stamps(rest, c.fh.id)
      /\ calls = (<<a>> \o own) \o (<<c>> \o rest) /\ Start(4, calls)
      /\ (4 = 4 => c.fh.snap = LATEST) /\ (4 = 3 => m_next # Root)
  BY <1>1, <1>2, <1>5, <1>6, <1>7, <1>8
<1> QED BY <1>9, StartMakes

\* Every procedure begins with a plan.
LEMMA BeginKeeps ==
    ASSUME HInv, todo = <<>>, hist = Idle, Begin
    PROVE  ProcInv'
<1>0. StoreInv /\ 0 \in Times /\ 0 \in Data /\ 0 \in 0..3 /\ "REG" \in Types
  BY ValuesAssumption, FilesAssumption DEF HInv
<1>1. ASSUME NEW fh \in Handles
      PROVE  touchDir(fh) \in Seq(On(fh)) /\ Stamps(touchDir(fh), fh.id)
  BY <1>0, SetterLists
<1>2. ASSUME NEW fh \in Handles, NEW p \in {3, 4}, p = 4 => fh.snap = LATEST, NEW s \in Seq(On(fh))
      PROVE  s \in Seq(After(p, NoId))
  <2>1. fh.id # NoId
    BY BoundsAssumption DEF Handles, Ids, NoId
  <2> QED BY <1>2, <2>1, OnAfter
<1>3. \A p \in {3, 4} : \A x, y \in Seq(After(p, NoId)) : x \o y \in Seq(After(p, NoId))
  BY ConcatProperties
\* Setters.
<1>4. CASE nfsRefused
  <2>1. Start(3, <<>>) /\ <<>> \in Seq(After(3, NoId))
    BY <1>4, EmptySeq DEF nfsRefused
  <2> QED BY <2>1, StartSetters
<1>5. ASSUME NEW fh \in Handles, NEW p \in {3, 4}, p = 4 => fh.snap = LATEST, NEW s \in Seq(On(fh)), Start(p, s)
      PROVE  ProcInv'
  <2>1. s \in Seq(After(p, NoId))
    BY <1>2, <1>5
  <2> QED BY <1>5, <2>1, StartSetters
<1>6. ASSUME NEW fh \in Handles, NEW v \in Times, NEW s \in Data, nfsSetattr(fh, v, s) PROVE ProcInv'
  <2>1. ctime(fh) \in Seq(On(fh)) /\ applySattr(fh, v, s) \in Seq(On(fh))
    BY <1>0, SetterCalls, SetterLists
  <2>2. applySattr(fh, v, s) \o ctime(fh) \in Seq(On(fh))
    BY <2>1, ConcatProperties
  <2> QED BY <1>5, <1>6, <2>2 DEF nfsSetattr
<1>7. ASSUME NEW fh \in Handles, NEW v \in Times, NEW s \in Data, NEW k \in 0..3, NEW ok \in BOOLEAN,
             opSetattr(fh, v, s, k, ok)
      PROVE  ProcInv'
  <2> DEFINE e == IF ok THEN ctime(fh) ELSE <<>>
  <2>1. ctime(fh) \in Seq(On(fh)) /\ applyFattr4(fh, v, s, k) \in Seq(On(fh)) /\ e \in Seq(On(fh))
    BY SetterCalls, SetterLists, EmptySeq
  <2>2. applyFattr4(fh, v, s, k) \o e \in Seq(On(fh))
    BY <2>1, ConcatProperties
  <2>3. Start(4, applyFattr4(fh, v, s, k) \o e) /\ fh.snap = LATEST
    BY <1>7 DEF opSetattr
  <2> HIDE DEF e
  <2> QED BY <1>5, <2>2, <2>3
<1>8. ASSUME NEW fh \in Handles, NEW seed \in Data, NEW size \in Data, NEW grows \in BOOLEAN,
             nfsWrite(fh, seed, size, grows) \/ opWrite(fh, seed, size, grows)
      PROVE  ProcInv'
  <2>1. write(fh, seed, size, grows) \in Seq(On(fh))
    BY <1>0, SetterLists
  <2> QED BY <1>5, <1>8, <2>1 DEF nfsWrite, opWrite
\* One change of the namespace.
<1>9. ASSUME NEW fh \in Handles, NEW name \in Names, known(fh), fh.snap = LATEST, NEW p \in {3, 4},
             Start(p, unlink(fh, name) \o touchDir(fh)),
             p = 4 => opRemove(fh, name)
      PROVE  ProcInv'
  <2> DEFINE c == [op |-> "unlink", fh |-> fh, name |-> name]
  <2>1. c \in Calls /\ c.op = "unlink" /\ c.fh = fh /\ c.name = name
    BY DEF Calls
  <2>2. Start(p, <<c>> \o touchDir(fh))
    BY <1>9 DEF unlink
  <2> HIDE DEF c
  <2>3. touchDir(fh) \in Seq(After(p, NoId)) /\ \A d \in dirsOf(c) : Stamps(touchDir(fh), d)
    BY <1>1, <1>2, <1>9, <2>1 DEF dirsOf
  <2>4. ASSUME p = 4, ~fh.synth, linkSet(db, fh.id, m_cur)[name] # NoId
        PROVE  linkSet(db, linkSet(db, fh.id, m_cur)[name], m_cur) = NoEntries
    <3> DEFINE v == linkSet(db, fh.id, m_cur)[name]
               h == [id |-> v, snap |-> fh.snap, synth |-> FALSE]
    <3>1. fh.id \in Ids /\ rr(fh.snap) = m_cur /\ m_cur \in Visible
      BY <1>0, <1>9, StoreFacts DEF Handles, rr
    <3>2. name # SNAPSHOT_NAME
      BY <1>0, <2>4, <3>1, StoreFacts, EntriesHold DEF SnapshotNameUnbound
    <3>3. lookup(fh, name) = h
      BY <2>4, <3>1, <3>2 DEF lookup
    <3>4. h # NoFh
      BY <2>4 DEF NoFh
    <3>5. typeOf(h) = "DIR" => emptyDir(h)
      BY <1>9, <2>4, <3>3, <3>4 DEF opRemove
    <3>6. h.id = v /\ h.synth = FALSE /\ rr(h.snap) = m_cur
      BY <3>1
    <3> HIDE DEF v, h
    <3>7. CASE typeOf(h) = "DIR"
      BY <3>5, <3>6, <3>7 DEF emptyDir, v
    <3>8. CASE typeOf(h) # "DIR"
      BY <3>6, <3>8 DEF typeOf, linkSet, v
    <3> QED BY <3>7, <3>8 DEF v
  <2>5. p = 4 /\ c.op = "unlink" /\ ~c.fh.synth =>
            LET v == linkSet(db, c.fh.id, m_cur)[c.name]
            IN  v # NoId => linkSet(db, v, m_cur) = NoEntries
    BY <2>1, <2>4
  <2> QED BY <1>9, <2>1, <2>2, <2>3, <2>5, StartNs DEF NsOps
<1>10. ASSUME NEW fh \in Handles, NEW name \in Names, known(fh),
              nfsRemove(fh, name) \/ nfsRmdir(fh, name) \/ opRemove(fh, name)
       PROVE  ProcInv'
  BY <1>9, <1>10 DEF nfsRemove, nfsRmdir, opRemove, diropParent
<1>11. ASSUME NEW fh \in Handles, NEW dfh \in Handles, NEW name \in Names, NEW dname \in Names,
              nfsRename(fh, name, dfh, dname) \/ opRename(fh, name, dfh, dname)
       PROVE  ProcInv'
  <2> DEFINE c == [op |-> "move", fh |-> fh, name |-> name, dfh |-> dfh, dname |-> dname]
             rest == touchDir(fh) \o touchDir(dfh)
  <2>1. PICK p \in {3, 4} : Start(p, move(fh, name, dfh, dname) \o touchDir(fh) \o touchDir(dfh))
    BY <1>11 DEF nfsRename, opRename
  <2>2. fh.snap = LATEST /\ dfh.snap = LATEST
    BY <1>11 DEF nfsRename, opRename
  <2>3. c \in Calls /\ c.op = "move" /\ c.fh = fh /\ c.dfh = dfh
    BY <2>2 DEF Calls, LiveHandles
  <2>4. touchDir(fh) \in Seq(After(p, NoId)) /\ touchDir(dfh) \in Seq(After(p, NoId))
    BY <1>1, <1>2, <2>2
  <2>5. (<<c>> \o touchDir(fh)) \o touchDir(dfh) = <<c>> \o rest
    <3>1. After(p, NoId) \subseteq Calls
      BY DEF After
    <3>2. <<c>> \in Seq(Calls) /\ touchDir(fh) \in Seq(Calls) /\ touchDir(dfh) \in Seq(Calls)
      BY <2>3, <2>4, <3>1, SeqMonotonic, OneCall
    <3> QED BY <3>2, ConcatThree
  <2>6. Start(p, <<c>> \o rest)
    BY <2>1, <2>5 DEF move
  <2>7. rest \in Seq(After(p, NoId)) /\ Stamps(rest, fh.id) /\ Stamps(rest, dfh.id)
    BY <1>1, <2>4, ConcatProperties, StampsConcat
  <2> HIDE DEF c, rest
  <2>8. \A d \in dirsOf(c) : Stamps(rest, d)
    BY <2>3, <2>7 DEF dirsOf
  <2> QED BY <2>2, <2>3, <2>6, <2>7, <2>8, StartNs DEF NsOps
<1>12. ASSUME NEW file \in Handles, NEW fh \in Handles, NEW name \in Names,
              nfsLink(file, fh, name) \/ opLink(file, fh, name)
       PROVE  ProcInv'
  <2> DEFINE c == [op |-> "link", fh |-> fh, name |-> name, child |-> file]
  <2>1. PICK p \in {3, 4} : Start(p, link(fh, name, file) \o touchDir(fh))
    BY <1>12 DEF nfsLink, opLink
  <2>2. fh.snap = LATEST
    BY <1>12 DEF nfsLink, opLink, diropParent
  <2>3. c.op = "link" /\ c.fh = fh /\ c.name = name
        /\ c \in [op : {"link"}, fh : Handles, name : Names \cup Snaps, child : Handles]
    OBVIOUS
  <2>4. Start(p, <<c>> \o touchDir(fh))
    BY <2>1 DEF link
  <2> HIDE DEF c
  <2>5. c \in Calls
    BY <2>3 DEF Calls
  <2>6. touchDir(fh) \in Seq(After(p, NoId)) /\ \A d \in dirsOf(c) : Stamps(touchDir(fh), d)
    BY <1>1, <1>2, <2>2, <2>3 DEF dirsOf
  <2> QED BY <2>2, <2>3, <2>4, <2>5, <2>6, StartNs DEF NsOps
\* A node made.
<1>13. ASSUME NEW fh \in Handles, known(fh), NEW name \in Names \cup Snaps, name \in Names \/ fh.synth,
              NEW mode \in Modes, NEW v \in Times, NEW s \in Data, nfsCreate(fh, name, mode, v, s)
       PROVE  ProcInv'
  <2>1. CASE lookup(fh, name) # NoFh
    <3> DEFINE h == lookup(fh, name)
    <3>1. h \in Handles /\ Start(3, applySattr(h, v, s))
      BY <1>0, <1>13, <2>1, LookupHandle DEF nfsCreate
    <3> HIDE DEF h
    <3>2. applySattr(h, v, s) \in Seq(On(h))
      BY <1>0, <3>1, SetterLists
    <3> QED BY <1>5, <3>1, <3>2
  <2>2. CASE lookup(fh, name) = NoFh
    <3> DEFINE child == Live(m_next)
               x == attr(child, v)
               y == IF mode = "EXCLUSIVE" THEN <<>> ELSE applySattr(child, v, s)
    <3>1. m_next <= MaxNode /\ StartNew(3, alloc("REG", 0) \o x \o y \o finishCreate(fh, name))
      BY <1>13, <2>2 DEF nfsCreate, StartNew
    <3>2. child \in Handles /\ [op |-> "alloc", fh |-> child, type |-> "REG", val |-> 0] \in Calls
      BY <1>0, <1>13, <3>1, MakingCalls
    <3>3. x \in Seq(On(child)) /\ y \in Seq(On(child)) /\ <<>> \in Seq(On(child))
      BY <1>0, <3>2, SetterCalls, SetterLists, EmptySeq
    <3>4. alloc("REG", 0) \o x \o y \in Seq(Calls)
      <4>1. On(child) \subseteq Calls
        BY DEF On
      <4>2. alloc("REG", 0) \in Seq(Calls) /\ x \in Seq(Calls) /\ y \in Seq(Calls)
        BY <3>2, <3>3, <4>1, SeqMonotonic, OneCall DEF alloc
      <4> HIDE DEF x, y
      <4> QED BY <4>2, ConcatProperties
    <3>5. alloc("REG", 0) \o x \o y \o <<>> = alloc("REG", 0) \o x \o y
      <4> HIDE DEF x, y
      <4> QED BY <3>4, ConcatEmptySeq
    <3> HIDE DEF x, y
    <3>6. StartNew(3, alloc("REG", 0) \o x \o y \o <<>> \o finishCreate(fh, name))
      BY <3>1, <3>5
    <3> QED BY <1>0, <1>13, <3>3, <3>6, MakeV3
  <2> QED BY <2>1, <2>2
<1>14. ASSUME NEW fh \in Handles, known(fh), NEW name \in Names, NEW type \in Types, NEW v \in Times,
              NEW s \in Data, nfsMake(fh, name, type, v, s)
       PROVE  ProcInv'
  <2> DEFINE child == Live(m_next)
             x == attr(child, v)
             y == applySattr(child, v, s)
             z == IF special(type) = {} THEN <<>> ELSE data(child, special(type), s)
  <2>1. m_next <= MaxNode /\ StartNew(3, alloc(type, 0) \o x \o y \o z \o finishCreate(fh, name))
    BY <1>14 DEF nfsMake, StartNew
  <2>2. child \in Handles
    BY <1>0, <1>14, <2>1, MakingCalls
  <2>3. x \in Seq(On(child)) /\ y \in Seq(On(child)) /\ <<>> \in Seq(On(child))
    BY <1>0, <2>2, SetterCalls, SetterLists, EmptySeq
  <2>4. special(type) # {} => special(type) \in DataSetters
    BY DEF special, DataSetters
  <2>5. z \in Seq(On(child))
    BY <2>2, <2>3, <2>4, SetterCalls
  <2> HIDE DEF x, y, z
  <2> QED BY <1>0, <1>14, <2>1, <2>3, <2>5, MakeV3
<1>15. ASSUME NEW fh \in Handles, known(fh), NEW name \in Names, NEW v \in Times, NEW s \in Data,
              NEW k \in 0..3, opOpen(fh, name, v, s, k)
       PROVE  ProcInv'
  <2> DEFINE x == applyFattr4(Live(m_next), v, s, k)
  <2>1. /\ m_next <= MaxNode /\ fh.snap = LATEST
        /\ StartNew(4, alloc("REG", 0) \o link(fh, name, Live(m_next)) \o x \o touchDir(fh))
    BY <1>15 DEF opOpen, StartNew, diropParent
  <2>2. Live(m_next) \in Handles
    BY <1>0, <1>15, <2>1, MakingCalls
  <2>3. x \in Seq(On(Live(m_next)))
    BY <2>2, SetterLists
  <2> HIDE DEF x
  <2> QED BY <1>0, <1>15, <2>1, <2>3, MakeV4
<1>16. ASSUME NEW fh \in Handles, known(fh), NEW name \in Names, NEW type \in Types, NEW v \in Times,
              NEW s \in Data, NEW k \in 0..3, opCreate(fh, name, type, v, s, k)
       PROVE  ProcInv'
  <2> DEFINE x == applyFattr4(Live(m_next), v, s, k)
             val == IF special(type) = {} THEN 0 ELSE s
  <2>1. /\ m_next <= MaxNode /\ fh.snap = LATEST
        /\ StartNew(4, alloc(type, val) \o link(fh, name, Live(m_next)) \o x \o touchDir(fh))
    BY <1>16 DEF opCreate, StartNew, diropParent
  <2>2. Live(m_next) \in Handles /\ val \in Data
    BY <1>0, <1>16, <2>1, MakingCalls
  <2>3. x \in Seq(On(Live(m_next)))
    BY <2>2, SetterLists
  <2> HIDE DEF x, val
  <2> QED BY <1>0, <1>16, <2>1, <2>2, <2>3, MakeV4
<1> QED BY <1>4, <1>6, <1>7, <1>8, <1>10, <1>11, <1>12, <1>13, <1>14, <1>15, <1>16 DEF Begin

-----------------------------------------------------------------------------
(* The invariance, and what follows from it. *)

\* With nothing to call there is nothing to show but that no stamp is due.
LEMMA IdleKeeps ==
    ASSUME todo' = <<>>, hist'.unstamped = {},
           hist' \in [proto : {0, 3, 4}, fresh : Ids \cup {NoId},
                      wrote : SUBSET Ids, unstamped : SUBSET Ids]
    PROVE  ProcInv'
<1>1. Len(todo') = 0 /\ todo' \in Seq(Calls)
  BY EmptySeq
<1>2. \A f : Plan(todo', 0, hist'.proto, f)
  BY <1>1 DEF Plan
<1>3. Planned'
  <2>1. 0 \in 0..Len(todo')
    BY <1>1
  <2> QED BY <1>2, <2>1 DEF Planned
<1>4. (hist.proto = 4 => VictimEmpty(todo))'
  BY <1>1 DEF VictimEmpty
<1>5. HTypes'
  BY <1>1 DEF HTypes
<1>6. StampsToCome'
  BY DEF StampsToCome
<1> QED BY <1>3, <1>4, <1>5, <1>6 DEF ProcInv

\* Only a change of the namespace is refused, and with it goes all that was planned but
\* the clock's advance.
LEMMA RefusedKeeps ==
    ASSUME HInv, CallRefused
    PROVE  ProcInv'
<1> DEFINE c == todo[1]
           n == Len(todo)
           f == madeBy(todo, m_next, hist.fresh)
<1>1. /\ todo \in Seq(Calls) /\ n > 0 /\ n \in Nat /\ hist' = hist
      /\ hist \in [proto : {0, 3, 4}, fresh : Ids \cup {NoId},
                   wrote : SUBSET Ids, unstamped : SUBSET Ids]
      /\ todo' = IF todo[n].op = "tick" THEN <<todo[n]>> ELSE <<>>
      /\ m_next' = m_next
  BY LenProperties DEF HInv, ProcInv, HTypes, CallRefused, vars
<1>2. c \in Calls /\ refused(c)
  <2>1. todo # <<>>
    BY <1>1, EmptySeq
  <2> QED BY <1>1, <2>1, HeadTailProperties DEF CallRefused
<1>3. c.op \in NsOps
  BY <1>2 DEF refused, errorOf, NsOps
<1>4. PICK k \in 0..n : Plan(todo, k, hist.proto, f) /\ (k > 0 => NothingShown)
  BY DEF HInv, ProcInv, Planned
<1>5. k = 1
  BY <1>1, <1>3, <1>4, FirstCall
<1>6. hist.unstamped = {} /\ f = hist.fresh
  BY <1>3, <1>4, <1>5 DEF NothingShown, madeBy, NsOps
<1>7. CASE todo[n].op # "tick"
  BY <1>1, <1>6, <1>7, IdleKeeps
<1>8. CASE todo[n].op = "tick"
  <2> DEFINE l == todo[n]
  <2>1. n > 1 /\ n \in 1..n
    BY <1>1, <1>3, <1>8 DEF NsOps
  <2>2. /\ hist.proto = 3 => l.fh.id # hist.fresh
        /\ hist.proto = 4 => l.fh.snap = LATEST
        /\ l.op = "tick"
    BY <1>4, <1>5, <1>6, <1>8, <2>1 DEF Plan
  <2>3. l \in Calls
    BY <1>1, <2>1, ElementOfSeq
  <2>4. l \in After(hist.proto, hist.fresh)
    BY <2>2, <2>3 DEF After
  <2>5. todo' = <<l>> /\ <<l>> \in Seq(After(hist.proto, hist.fresh))
    BY <1>1, <1>8, <2>4, OneCall
  <2>6. /\ Plan(todo', 0, hist.proto, hist.fresh) /\ todo' \in Seq(Calls)
        /\ Len(todo') > 0 => todo'[1].op \notin {"alloc", "unlink"}
    BY <2>5, PlanAfter
  <2>7. 0 \in 0..Len(todo') /\ madeBy(todo', m_next, hist.fresh) = hist.fresh
    BY <2>6, LenProperties DEF madeBy
  <2>8. Planned'
    BY <1>1, <2>6, <2>7 DEF Planned
  <2>9. StampsToCome' /\ HTypes' /\ VictimEmpty(todo)'
    BY <1>1, <1>6, <2>6 DEF StampsToCome, HTypes, VictimEmpty
  <2> QED BY <2>8, <2>9 DEF ProcInv
<1> QED BY <1>7, <1>8

\* Every step keeps the invariant.
LEMMA HStep ==
    ASSUME HInv, [HNext]_hvars
    PROVE  HInv'
<1>1. StoreInv'
  <2>1. [Next]_vars /\ [~SnapshotFails]_vars /\ IndInv /\ TreeInv(db) /\ Trees
    BY StoreStep DEF HInv, StoreInv
  <2>2. IndInv' /\ TreeInv(db')
    BY <2>1, StepInv, StepTree
  <2>3. CASE ~SnapshotFails
    BY <2>1, <2>2, <2>3, StepTrees DEF StoreInv
  <2>4. CASE UNCHANGED vars
    BY <2>1, <2>2, <2>4 DEF StoreInv, Trees, Visible, vars
  <2> QED BY <2>1, <2>3, <2>4
<1>2. hist \in [proto : {0, 3, 4}, fresh : Ids \cup {NoId}, wrote : SUBSET Ids, unstamped : SUBSET Ids]
  BY DEF HInv, ProcInv, HTypes
<1>3. todo = <<>> => hist.unstamped = {}
  <2>1. todo = <<>> => \A i \in 1..Len(todo) : FALSE
    BY EmptySeq
  <2> QED BY <2>1 DEF HInv, ProcInv, StampsToCome
<1>4. CASE todo = <<>> /\ hist = Idle /\ Begin
  BY <1>1, <1>4, BeginKeeps DEF HInv
<1>5. CASE Call
  BY <1>1, <1>5, CallKeeps DEF HInv
<1>6. CASE CallRefused
  BY <1>1, <1>6, RefusedKeeps DEF HInv
<1>7. CASE Reply
  <2>1. /\ todo' = <<>> /\ hist' = [proto |-> 0, fresh |-> NoId, wrote |-> {}, unstamped |-> hist.unstamped]
        /\ hist.unstamped = {}
    BY <1>3, <1>7 DEF Reply, Idle
  <2>2. /\ hist'.unstamped = {}
        /\ hist' \in [proto : {0, 3, 4}, fresh : Ids \cup {NoId}, wrote : SUBSET Ids, unstamped : SUBSET Ids]
    BY <2>1
  <2> QED BY <1>1, <2>1, <2>2, IdleKeeps DEF HInv
<1>8. CASE TakeSnapshot
  BY <1>1, <1>2, <1>3, <1>8, IdleKeeps DEF HInv, TakeSnapshot
<1>9. CASE Crash
  <2>1. todo' = <<>> /\ hist' = [Idle EXCEPT !.unstamped = {}]
    BY <1>9 DEF Crash
  <2>2. /\ hist'.unstamped = {}
        /\ hist' \in [proto : {0, 3, 4}, fresh : Ids \cup {NoId}, wrote : SUBSET Ids, unstamped : SUBSET Ids]
    BY <2>1 DEF Idle
  <2> QED BY <1>1, <2>1, <2>2, IdleKeeps DEF HInv
<1>10. CASE UNCHANGED hvars
  <2>1. todo' = todo /\ hist' = hist /\ db' = db /\ m_cur' = m_cur /\ m_next' = m_next
    BY <1>10 DEF hvars
  <2>2. ProcInv'
    BY <2>1 DEF HInv, ProcInv, HTypes, Planned, NothingShown, StampsToCome, VictimEmpty
  <2> QED BY <1>1, <2>2 DEF HInv
<1> QED BY <1>4, <1>5, <1>6, <1>7, <1>8, <1>9, <1>10 DEF HNext

\* The initial state satisfies it.
LEMMA HInitInv == HInit => HInv
<1> SUFFICES ASSUME HInit PROVE HInv
  OBVIOUS
<1>1. Init /\ todo = <<>> /\ hist = [proto |-> 0, fresh |-> NoId, wrote |-> {}, unstamped |-> {}]
  BY DEF HInit
<1>2. StoreInv
  <2>1. m_cur = 1 /\ \A g \in 1..1 : g = 1
    BY <1>1 DEF Init
  <2> QED BY <1>1, <2>1, InitInv, InitTree DEF StoreInv, Trees, NothingAbove, Visible
<1>3. Len(todo) = 0 /\ todo \in Seq(Calls) /\ hist.unstamped = {} /\ hist.proto = 0
  BY <1>1, EmptySeq
<1>4. HTypes
  BY <1>1, <1>3 DEF HTypes
<1>5. Planned
  <2>1. 0 \in 0..Len(todo)
    BY <1>3
  <2>2. \A f : Plan(todo, 0, hist.proto, f)
    BY <1>3 DEF Plan
  <2> QED BY <2>1, <2>2 DEF Planned
<1> QED BY <1>2, <1>3, <1>4, <1>5 DEF HInv, ProcInv, StampsToCome

\* The invariant: the store's, and the plan of the procedure under way.
THEOREM ProceduresInvariance == HSpec => []HInv
  BY HInitInv, HStep, PTL DEF HSpec

\* Whatever clients call and wherever the process dies, the front ends drive the store
\* through its transactions only, none a failed snapshot: all that is proved of the store
\* holds under them.
THEOREM ProceduresAreTransactions == HSpec => Spec /\ SnapshotsSucceed
<1>1. HInv /\ [HNext]_hvars => [Next]_vars /\ [~SnapshotFails]_vars
  BY StoreStep
<1>2. HInit => Init
  BY DEF HInit
<1> QED BY <1>1, <1>2, ProceduresInvariance, PTL DEF HSpec, Spec, SnapshotsSucceed

\* The tree stays a tree under the front ends, and the handles clients hold stay good.
THEOREM TreeUnderNfs ==
    HSpec => /\ [](LinksMirror /\ NlinkIsUplinks /\ Acyclic)
             /\ [](LookupResolves /\ ParentHolds)
             /\ HandlesStayGood
  BY ProceduresAreTransactions, LinksAgree, LinkCounts, NoCycles, LookupsResolve, ParentsHold, HandlesKeep, PTL

\* No NFSv4 operation writes a node through a snapshot's handle, but for the file a LINK
\* names: every other handle of every call it has still to make is live.
THEOREM V4WritesLive == HSpec => []V4WritesGoToLive
<1>1. ASSUME HInv PROVE V4WritesGoToLive
  <2>1. todo \in Seq(Calls)
    BY <1>1 DEF HInv, ProcInv, HTypes
  <2>2. DOMAIN todo = 1..Len(todo)
    BY <2>1, LenProperties
  <2>3. SUFFICES ASSUME hist.proto = 4, NEW i \in 1..Len(todo), NEW fh \in targets(todo[i])
                 PROVE  fh.snap = LATEST \/ (todo[i].op = "link" /\ fh = todo[i].child)
    BY <2>2 DEF V4WritesGoToLive
  <2>4. todo[i].fh.snap = LATEST
    BY <1>1, <2>3 DEF HInv, ProcInv, Planned, Plan
  <2>5. todo[i].op = "move" => todo[i].dfh.snap = LATEST
    <3>1. todo[i] \in Calls
      BY <2>1, <2>3, ElementOfSeq
    <3> QED BY <3>1, CallFields
  <2> QED BY <2>3, <2>4, <2>5 DEF targets
<1> QED BY <1>1, ProceduresInvariance, PTL

\* NFSv3 never shows a node its procedure has still attributes to give, wherever it dies.
THEOREM NewObjectsComplete == HSpec => []NewObjectsAppearComplete
<1>1. ASSUME HInv PROVE NewObjectsAppearComplete
  <2>1. todo \in Seq(Calls)
    BY <1>1 DEF HInv, ProcInv, HTypes
  <2>2. DOMAIN todo = 1..Len(todo) /\ Len(todo) \in Nat
    BY <2>1, LenProperties
  <2> SUFFICES ASSUME hist.proto = 3, NEW i \in 1..Len(todo), todo[i].fh.id = hist.fresh
               PROVE  nlinkOf(db, m_cur, hist.fresh) = 0
    BY <2>2 DEF NewObjectsAppearComplete
  <2>3. PICK k \in 0..Len(todo) : /\ Plan(todo, k, 3, madeBy(todo, m_next, hist.fresh))
                                  /\ k > 0 => NothingShown
    BY <1>1 DEF HInv, ProcInv, Planned
  <2>4. CASE k > 0
    BY <2>3, <2>4 DEF NothingShown
  <2>5. CASE k = 0
    <3>1. todo[1].op # "alloc"
      BY <2>1, <2>2, <2>3, <2>5, FirstCall
    <3>2. todo[i].fh.id # hist.fresh
      BY <2>2, <2>3, <2>5, <3>1 DEF Plan, madeBy
    <3> QED BY <3>2
  <2> QED BY <2>2, <2>4, <2>5
<1> QED BY <1>1, ProceduresInvariance, PTL

\* A procedure that is refused has written to nothing that has a name.
THEOREM RefusedIsHarmless == HSpec => []RefusedLeavesTree
<1>1. ASSUME HInv PROVE RefusedLeavesTree
  <2> SUFFICES ASSUME Len(todo) > 0, refused(Head(todo)), NEW id \in hist.wrote
               PROVE  nlinkOf(db, m_cur, id) = 0
    BY DEF RefusedLeavesTree
  <2>1. todo \in Seq(Calls)
    BY <1>1 DEF HInv, ProcInv, HTypes
  <2>2. Head(todo) = todo[1]
    BY <2>1, EmptySeq, HeadTailProperties
  <2>3. todo[1].op \in NsOps
    BY <2>2 DEF refused, errorOf, NsOps
  <2>4. PICK k \in 0..Len(todo) : /\ Plan(todo, k, hist.proto, madeBy(todo, m_next, hist.fresh))
                                  /\ k > 0 => NothingShown
    BY <1>1 DEF HInv, ProcInv, Planned
  <2>5. k = 1
    BY <2>1, <2>3, <2>4, FirstCall
  <2> QED BY <2>4, <2>5 DEF NothingShown
<1> QED BY <1>1, ProceduresInvariance, PTL

\* Between procedures every directory that changed has its new mtime.
THEOREM DirsStamped == HSpec => []DirsStampedWhenIdle
<1>1. ASSUME HInv PROVE DirsStampedWhenIdle
  <2>1. todo = <<>> => \A i \in 1..Len(todo) : FALSE
    BY EmptySeq
  <2> QED BY <1>1, <2>1 DEF HInv, ProcInv, StampsToCome, DirsStampedWhenIdle
<1> QED BY <1>1, ProceduresInvariance, PTL

\* What an edit does to the link counts.
LEMMA EditedCounts ==
    ASSUME NEW d, NEW e, NEW cur, NEW dir, NEW name, NEW target, NEW child, NEW ps, NEW nl,
           Edited(d, e, cur, dir, name, target, child, ps, nl), NEW i \in Ids
    PROVE  /\ i # child => nlinkOf(e, cur, i) = nlinkOf(d, cur, i)
           /\ i = child /\ existedAt(d, i, cur) => nlinkOf(e, cur, i) = nl
<1>1. existedAt(e, i, cur) <=> existedAt(d, i, cur)
  BY EditedDirs
<1>2. i # NoId
  BY BoundsAssumption DEF Ids, NoId
<1> QED BY <1>1, <1>2 DEF Edited, nlinkOf

\* A link takes no name away.
LEMMA LinkCountsUp ==
    ASSUME NEW d, TreeInv(d), NEW cur \in Snaps, NEW dir \in Ids, NEW name \in Names,
           NEW child \in Ids, linkErr(d, cur, dir, name, child) = "OK", NEW i \in Ids
    PROVE  \/ nlinkOf(linkDb(d, cur, dir, name, child), cur, i) = nlinkOf(d, cur, i)
           \/ nlinkOf(linkDb(d, cur, dir, name, child), cur, i) = loadNode(d, i, cur).nlink + 1
<1> DEFINE e == linkDb(d, cur, dir, name, child)
<1>1. name # SNAPSHOT_NAME /\ isDir(d, dir, cur) /\ existedAt(d, child, cur)
  BY LinkChecks
<1>2. Edited(d, e, cur, dir, name, child, child, parents(d, child, cur) \cup {<<dir, name>>},
             loadNode(d, child, cur).nlink + 1)
  BY <1>1, LinkView
<1> HIDE DEF e
<1>3. nlinkOf(e, cur, i) = nlinkOf(d, cur, i) \/ nlinkOf(e, cur, i) = loadNode(d, i, cur).nlink + 1
  BY <1>1, <1>2, EditedCounts
<1> QED BY <1>3 DEF e

\* A move leaves every node as many names as it had.
LEMMA MoveKeepsCounts ==
    ASSUME NEW d, TreeInv(d), NEW cur \in Snaps, NEW sdir \in Ids, NEW ddir \in Ids,
           NEW sn \in Names, NEW dn \in Names,
           moveErr(d, cur, sdir, sn, ddir, dn) = "OK", NEW i \in Ids
    PROVE  nlinkOf(moveDb(d, cur, sdir, sn, ddir, dn), cur, i) = nlinkOf(d, cur, i)
<1> DEFINE v == linkSet(d, sdir, cur)[sn]
           e == linkDb(d, cur, ddir, dn, v)
           f == moveDb(d, cur, sdir, sn, ddir, dn)
           n == loadNode(e, v, cur).nlink
<1>0. /\ unlinkChild(d, cur, sdir, sn) # NoId
      /\ linkErr(d, cur, ddir, dn, unlinkChild(d, cur, sdir, sn)) = "OK"
  BY DEF moveErr
<1>1. /\ Edited(e, f, cur, sdir, sn, NoId, v, parents(e, v, cur) \ {<<sdir, sn>>},
                IF n - 1 >= 0 THEN n - 1 ELSE n)
  BY MoveView
<1>2. /\ v \in Ids /\ existedAt(d, v, cur)
      /\ Edited(d, e, cur, ddir, dn, v, v, parents(d, v, cur) \cup {<<ddir, dn>>},
                loadNode(d, v, cur).nlink + 1)
  <2>1. LET c1 == linkSet(d, sdir, cur)[sn]
            e1 == linkDb(d, cur, ddir, dn, c1)
        IN  /\ c1 \in Ids /\ existedAt(d, c1, cur) /\ c1 = unlinkChild(d, cur, sdir, sn)
            /\ isDir(d, sdir, cur) /\ isDir(d, ddir, cur) /\ dn # SNAPSHOT_NAME
            /\ linkSet(d, ddir, cur)[dn] = NoId
            /\ TreeInv(e1)
            /\ Edited(d, e1, cur, ddir, dn, c1, c1, parents(d, c1, cur) \cup {<<ddir, dn>>},
                      loadNode(d, c1, cur).nlink + 1)
            /\ linkSet(e1, sdir, cur)[sn] = c1
            /\ unlinkChild(e1, cur, sdir, sn) = c1
    BY <1>0, MoveLegs, SMTT(60)
  <2> QED BY <2>1
<1>3. loadNode(d, v, cur).nlink \in Nat
  BY <1>2, LoadBounded DEF TreeInv, NodeRec
<1>4. n = loadNode(d, v, cur).nlink + 1 /\ nlinkOf(d, cur, v) = loadNode(d, v, cur).nlink
  BY <1>2, BoundsAssumption DEF Edited, nlinkOf, Ids, NoId
<1>5. existedAt(e, v, cur)
  BY <1>2, EditedDirs
<1> HIDE DEF v, e, n, f
<1>6. CASE i # v
  BY <1>1, <1>2, <1>6, EditedCounts DEF f
<1>7. CASE i = v
  <2>1. nlinkOf(f, cur, i) = IF n - 1 >= 0 THEN n - 1 ELSE n
    BY <1>1, <1>2, <1>5, <1>7, EditedCounts
  <2>2. IF n - 1 >= 0 THEN n - 1 = nlinkOf(d, cur, v) ELSE FALSE
    BY <1>3, <1>4
  <2> QED BY <1>7, <2>1, <2>2 DEF f
<1> QED BY <1>6, <1>7

\* No NFSv4 operation takes the last name of a directory with entries.
THEOREM V4KeepsSubtrees == HSpec => NonEmptyStaysLinked
<1> DEFINE Stays == hist.proto = 4 => \A id \in Ids :
                        nlinkOf(db, m_cur, id) > 0 /\ nlinkOf(db', m_cur', id) = 0 =>
                            linkSet(db, id, m_cur) = NoEntries
<1>1. ASSUME HInv, [HNext]_hvars PROVE [Stays]_hvars
  <2> SUFFICES ASSUME HNext, hist.proto = 4, NEW id \in Ids,
                      nlinkOf(db, m_cur, id) > 0, nlinkOf(db', m_cur', id) = 0
               PROVE  linkSet(db, id, m_cur) = NoEntries
    BY <1>1
  <2>0. /\ IndInv /\ TreeInv(db) /\ DbInv(db) /\ m_cur \in Snaps /\ db.cur = m_cur /\ db \in DbType
        /\ m_next \in 1..(MaxNode + 1) /\ db.next <= m_next /\ m_clock \in Times
        /\ todo \in Seq(Calls)
    BY <1>1, StoreFacts DEF HInv, ProcInv, HTypes
  <2>1. CASE db' = db /\ m_cur' = m_cur
    BY <2>1
  <2>2. CASE hist = Idle
    BY <2>2 DEF Idle
  <2>3. CASE CallRefused \/ Reply
    BY <2>1, <2>3 DEF CallRefused, Reply, vars
  <2>4. CASE Crash
    BY <2>0, <2>1, <2>4 DEF Crash, Reopen
  <2>5. CASE Call
    <3> DEFINE c == todo[1]
    <3>1. c \in Calls /\ Len(todo) > 0 /\ (Setter(c) \/ CallAlloc(c) \/ Namespace(c) \/ Tick(c))
      <4>1. Head(todo) \in Calls /\ Head(todo) = todo[1]
        BY <2>0, <2>5, EmptySeq, HeadTailProperties DEF Call
      <4> QED BY <2>5, <4>1 DEF Call
    <3> HIDE DEF c
    <3>2. CASE Setter(c)
      <4>1. /\ m_cur' = m_cur
            /\ existedAt(db', id, m_cur) <=> existedAt(db, id, m_cur)
            /\ loadNode(db', id, m_cur).nlink = loadNode(db, id, m_cur).nlink
        BY <2>0, <3>1, <3>2, SetterStep
      <4> QED BY <4>1 DEF nlinkOf
    <3>3. CASE CallAlloc(c)
      <4>1. /\ m_cur' = m_cur /\ m_next \in Ids /\ c.type \in Types /\ c.val \in Data
            /\ db' = allocDb(db, m_cur, m_next, c.type, c.val, m_clock)
        BY <2>0, <3>1, <3>3, CallFields, BoundsAssumption DEF CallAlloc, Alloc, Ids
      <4>2. /\ loadNode(db, m_next, m_cur) = NoRec
            /\ id # m_next => loadNode(db', id, m_cur) = loadNode(db, id, m_cur)
        BY <2>0, <4>1, AllocView
      <4> QED BY <4>1, <4>2 DEF nlinkOf, existedAt
    <3>4. CASE Tick(c)
      <4>1. db'.nodes = db.nodes /\ m_cur' = m_cur
        BY <2>0, <3>4 DEF Tick, SetTime, DbType
      <4>2. loadNode(db', id, m_cur) = loadNode(db, id, m_cur)
        BY <4>1, LoadSameNodes
      <4> QED BY <4>1, <4>2 DEF nlinkOf, existedAt
    <3>5. CASE Namespace(c)
      <4>1. /\ m_cur' = m_cur /\ c.fh.id \in Ids /\ c.name \in Names /\ ~c.fh.synth
            /\ \/ c.op = "link" /\ c.child.id \in Ids /\ Link(c.fh.id, c.name, c.child.id)
               \/ c.op = "unlink" /\ Unlink(c.fh.id, c.name)
               \/ /\ c.op = "move" /\ c.dfh.id \in Ids /\ c.dname \in Names
                  /\ Move(c.fh.id, c.name, c.dfh.id, c.dname)
        BY <2>0, <3>1, <3>5, NamespaceStep
      <4>2. existedAt(db, id, m_cur)
        BY DEF nlinkOf
      <4>3. loadNode(db, id, m_cur).nlink \in Nat
        BY <2>0, <4>2, LoadBounded DEF NodeRec
      <4>4. nlinkOf(db, m_cur, id) = loadNode(db, id, m_cur).nlink
        BY <4>2 DEF nlinkOf
      <4>5. CASE c.op = "link"
        <5>1. /\ c.child.id \in Ids /\ linkErr(db, m_cur, c.fh.id, c.name, c.child.id) = "OK"
              /\ db' = linkDb(db, m_cur, c.fh.id, c.name, c.child.id)
          BY <4>1, <4>5 DEF Link
        <5>2. nlinkOf(db', m_cur, id) = nlinkOf(db, m_cur, id) \/ nlinkOf(db', m_cur, id) = loadNode(db, id, m_cur).nlink + 1
          BY <2>0, <4>1, <5>1, LinkCountsUp
        <5> QED BY <4>1, <4>3, <4>4, <5>2
      <4>6. CASE c.op = "unlink"
        <5> DEFINE v == linkSet(db, c.fh.id, m_cur)[c.name]
        <5>1. unlinkChild(db, m_cur, c.fh.id, c.name) # NoId /\ db' = unlinkDb(db, m_cur, c.fh.id, c.name)
          BY <4>1, <4>6 DEF Unlink, unlinkErr
        <5>2. v \in Ids /\ Edited(db, db', m_cur, c.fh.id, c.name, NoId, v,
                     parents(db, v, m_cur) \ {<<c.fh.id, c.name>>},
                     IF loadNode(db, v, m_cur).nlink - 1 >= 0 THEN loadNode(db, v, m_cur).nlink - 1
                     ELSE loadNode(db, v, m_cur).nlink)
          BY <2>0, <4>1, <5>1, UnlinkView
        <5>3. v # NoId => linkSet(db, v, m_cur) = NoEntries
          BY <1>1, <3>1, <4>1, <4>6 DEF HInv, ProcInv, VictimEmpty, c
        <5> HIDE DEF v
        <5>4. id = v
          BY <4>1, <5>2, EditedCounts
        <5>5. v # NoId
          BY <5>2, BoundsAssumption DEF Ids, NoId
        <5> QED BY <5>3, <5>4, <5>5
      <4>7. CASE c.op = "move"
        <5>1. /\ moveErr(db, m_cur, c.fh.id, c.name, c.dfh.id, c.dname) = "OK"
              /\ db' = moveDb(db, m_cur, c.fh.id, c.name, c.dfh.id, c.dname)
              /\ c.dfh.id \in Ids /\ c.dname \in Names
          BY <4>1, <4>7 DEF Move
        <5>2. nlinkOf(db', m_cur, id) = nlinkOf(db, m_cur, id)
          BY <2>0, <4>1, <5>1, MoveKeepsCounts
        <5> QED BY <4>1, <4>3, <4>4, <5>2
      <4> QED BY <4>1, <4>5, <4>6, <4>7
    <3> QED BY <3>1, <3>2, <3>3, <3>4, <3>5
  <2> QED BY <2>2, <2>3, <2>4, <2>5 DEF HNext, TakeSnapshot
<1>2. HInv /\ [HNext]_hvars => [Stays]_hvars
  BY <1>1
<1> HIDE DEF Stays
<1>3. [][Stays]_hvars => NonEmptyStaysLinked
  BY DEF Stays, NonEmptyStaysLinked
<1> QED BY <1>2, <1>3, ProceduresInvariance, PTL DEF HSpec
=============================================================================
