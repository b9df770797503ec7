------------------------------ MODULE NfsHandles ------------------------------
(***************************************************************************)
(* Filehandles, as both NFS front ends use them: (id, snap), where snap is *)
(* LATEST or a sealed snapshot; with `synth' the .snapshot directory of    *)
(* the node (id|SNAP_BIT).                                                 *)
(***************************************************************************)
EXTENDS PrfsStore

LATEST  == 0
Handles == [id : Ids, snap : {LATEST} \cup Snaps, synth : BOOLEAN]
NoFh    == [id |-> NoId]

Live(id) == [id |-> id, snap |-> LATEST, synth |-> FALSE]

rr(snap) == IF snap = LATEST THEN m_cur ELSE snap

\* nodeById: a handle that has been handed out and still resolves.  A .snapshot
\* directory exists in the live view only.
known(fh) == /\ fh.synth => fh.snap = LATEST
             /\ fh.snap < m_cur
             /\ existedAt(db, fh.id, rr(fh.snap))

typeOf(fh) == IF fh.synth THEN "DIR" ELSE loadNode(db, fh.id, rr(fh.snap)).type

\* Mutant: the directory need not have existed in the snapshot.
lookupAnySnapshot(fh, name) ==
    IF fh.synth
    THEN IF name \in 1..(m_cur - 1)
         THEN [id |-> fh.id, snap |-> name, synth |-> FALSE] ELSE NoFh
    ELSE IF name = SNAPSHOT_NAME /\ fh.snap = LATEST /\ typeOf(fh) = "DIR"
         THEN [fh EXCEPT !.synth = TRUE]
    ELSE IF linkSet(db, fh.id, rr(fh.snap))[name] # NoId
         THEN [id |-> linkSet(db, fh.id, rr(fh.snap))[name], snap |-> fh.snap, synth |-> FALSE]
    ELSE NoFh

\* In a .snapshot directory a name is a snapshot number.
lookup(fh, name) ==
    IF fh.synth
    THEN IF name \in 1..(m_cur - 1) /\ existedAt(db, fh.id, name)
         THEN [id |-> fh.id, snap |-> name, synth |-> FALSE] ELSE NoFh
    ELSE IF name = SNAPSHOT_NAME /\ fh.snap = LATEST /\ typeOf(fh) = "DIR"
         THEN [fh EXCEPT !.synth = TRUE]
    ELSE IF linkSet(db, fh.id, rr(fh.snap))[name] # NoId
         THEN [id |-> linkSet(db, fh.id, rr(fh.snap))[name], snap |-> fh.snap, synth |-> FALSE]
    ELSE NoFh

emptyDir(fh) ==
    IF fh.synth THEN \A g \in 1..(m_cur - 1) : ~existedAt(db, fh.id, g)
    ELSE linkSet(db, fh.id, rr(fh.snap)) = NoEntries

\* LOOKUP (v3; v4's differs in the name of the first status).
nfsLookup(fh, name) ==
    IF ~known(fh) THEN [st |-> "STALE", fh |-> NoFh]
    ELSE IF typeOf(fh) # "DIR" THEN [st |-> "NOTDIR", fh |-> NoFh]
    ELSE IF lookup(fh, name) = NoFh THEN [st |-> "NOENT", fh |-> NoFh]
    ELSE [st |-> "OK", fh |-> lookup(fh, name)]

\* Mutant: `..' is looked for in the live tree.
lookuppLive(fh) ==
    LET ps == IF fh.synth THEN {} ELSE {p[1] : p \in parents(db, fh.id, m_cur)}
    IN  IF ps = {} THEN fh ELSE Live(CHOOSE p \in ps : \A q \in ps : p <= q)

\* `..' (LOOKUPP, and the second entry of a listing): the parent with the lowest id in
\* the handle's own view; the directory itself when it has none, as the root and every
\* .snapshot directory.
lookupp(fh) ==
    LET ps == IF fh.synth THEN {} ELSE {p[1] : p \in parents(db, fh.id, rr(fh.snap))}
    IN  IF ps = {} THEN fh ELSE [fh EXCEPT !.id = CHOOSE p \in ps : \A q \in ps : p <= q]

-----------------------------------------------------------------------------
(* Properties. *)

\* The directories a client can be at.
directories == {fh \in Handles : known(fh) /\ typeOf(fh) = "DIR"}

\* Whatever LOOKUP finds in a directory, a snapshot number in .snapshot included, is a
\* handle that resolves, in the view of the directory or the snapshot named.
LookupResolves ==
    \A fh \in Handles, name \in Names \cup Snaps :
        LET r == nfsLookup(fh, name) IN
        (name \in Snaps <=> fh.synth) /\ r.st = "OK" =>
            known(r.fh) /\ r.fh.snap = (IF fh.synth THEN name ELSE fh.snap)

\* `..' of a directory is a directory of the same view that holds it under some name;
\* only a directory that has no name there is its own parent.
ParentHolds ==
    \A fh \in {h \in directories : ~h.synth} :
        LET holding == {d \in directories : /\ ~d.synth /\ d.snap = fh.snap
                                     /\ \E name \in Names \ {SNAPSHOT_NAME} : lookup(d, name) = fh}
        IN  IF lookupp(fh) = fh THEN holding = {} ELSE lookupp(fh) \in holding

\* Handles never go stale and never come to stand for something else: one that resolves,
\* into the live tree or a snapshot, resolves to an object of the same type after any later
\* change, snapshot or restart (and so does the .snapshot of a live one).  A client may keep
\* what it was handed, and a COMPOUND may go on with its current filehandle although the
\* store's mutex was released between two operations.
HandlesStayGood ==
    [][\A fh \in {h \in Handles : h.snap < m_cur /\ ~h.synth /\ known(h)} :
           known(fh)' /\ typeOf(fh)' = typeOf(fh)]_vars
=============================================================================
