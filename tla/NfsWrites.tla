------------------------------ MODULE NfsWrites ------------------------------
(***************************************************************************)
(* The write procedures of the NFS front ends (plugins/nfsv3, plugins/     *)
(* nfsv4) over the store.  A procedure holds the store's mutex exclusively *)
(* from its first look at the store to its last write, so one is under way *)
(* at a time; but it is a list of store calls, each a transaction of its   *)
(* own, and the process can die between any two.  `todo' is what the       *)
(* procedure under way still has to call.                                  *)
(*                                                                         *)
(* Replies, and what is read for them, are left out.                       *)
(***************************************************************************)
EXTENDS NfsHandles, Sequences

CONSTANTS Protocols,    \* the front ends that are served: a subset of {3, 4}
          TimeAdvance,  \* nfsv3's --time-advance
          Crashes       \* may the process die?

ASSUME ProtocolsAssumption ==
    Protocols \subseteq {3, 4} /\ TimeAdvance \in BOOLEAN /\ Crashes \in BOOLEAN
ASSUME FilesAssumption == "REG" \in Types

VARIABLES todo,  \* the store calls still to make
          hist   \* history: the procedure under way, by its protocol, what it allocated
                 \* and wrote, and the directories that changed and were not stamped since

hvars == <<db, m_next, m_cur, m_clock, todo, hist>>

-----------------------------------------------------------------------------
(* The store calls of a procedure.                                            *)

alloc(type, v)     == <<[op |-> "alloc", fh |-> Live(m_next), type |-> type, val |-> v]>>
attr(fh, v)        == <<[op |-> "attr", fh |-> fh, val |-> v]>>
stamp(fh, v)       == <<[op |-> "stamp", fh |-> fh, val |-> v]>>
data(fh, types, v) == <<[op |-> "data", fh |-> fh, types |-> types, val |-> v]>>
mtime(fh)          == <<[op |-> "mtime", fh |-> fh]>>
ctime(fh)          == <<[op |-> "ctime", fh |-> fh]>>
link(fh, n, c)     == <<[op |-> "link", fh |-> fh, name |-> n, child |-> c]>>
unlink(fh, n)      == <<[op |-> "unlink", fh |-> fh, name |-> n]>>
move(fh, n, dfh, dn) == <<[op |-> "move", fh |-> fh, name |-> n, dfh |-> dfh, dname |-> dn]>>

\* A namespace change stamps the directory.
touchDir(fh) == mtime(fh) \o ctime(fh)

\* The attributes a client sends.  mode, uid and gid come first, then size, atime
\* and mtime (v4: size first); v4 stops at the first it does not know (k).
applySattr(fh, v, s)     == attr(fh, v) \o data(fh, Types, s) \o stamp(fh, v) \o attr(fh, v)
applyFattr4(fh, v, s, k) == SubSeq(data(fh, Types, s) \o attr(fh, v) \o stamp(fh, v), 1, k)

\* Mutant: the parent is stamped before the link is known to succeed.
finishCreateTouched(fh, name) == touchDir(fh) \o link(fh, name, Live(m_next))

\* The end of CREATE, MKDIR, SYMLINK and MKNOD.
finishCreate(fh, name) == link(fh, name, Live(m_next)) \o touchDir(fh)

\* With --time-advance, dispatch moves the clock after every v3 mutation.
tick(p) == IF p = 3 /\ TimeAdvance THEN <<[op |-> "tick", fh |-> Live(Root)]>> ELSE <<>>

Idle == [proto |-> 0, fresh |-> NoId, wrote |-> {}, unstamped |-> hist.unstamped]

Start(p, calls) == /\ todo = <<>>
                   /\ p \in Protocols
                   /\ todo' = calls \o tick(p)
                   /\ hist' = [hist EXCEPT !.proto = p]
                   /\ UNCHANGED vars

\* One that allocates, within the bound.
StartNew(p, calls) == m_next <= MaxNode /\ Start(p, calls)

-----------------------------------------------------------------------------
(* The procedures.                                                            *)

\* Mutant: a snapshot's directory passes.
diropAnyView(fh) == known(fh) /\ typeOf(fh) = "DIR"

\* diropParent, and the same tests in v4: a directory of the live view.
diropParent(fh) == known(fh) /\ typeOf(fh) = "DIR" /\ fh.snap = LATEST

\* Any v3 mutation that is answered with an error before its first store call
\* (such a request always exists: a stale handle); the clock advances all the same.
nfsRefused == Start(3, <<>>)

\* CREATE (v3).  An existing object gets the attributes, unless the mode is
\* EXCLUSIVE; a new one gets the caller's identity and them before it is linked.
nfsCreate(fh, name, mode, v, s) ==
    LET existing == lookup(fh, name)
        child    == Live(m_next)
    IN  /\ diropParent(fh)
        /\ \/ /\ existing # NoFh
              /\ mode = "UNCHECKED"
              /\ Start(3, applySattr(existing, v, s))
           \/ /\ existing = NoFh
              /\ StartNew(3, alloc("REG", 0) \o attr(child, v)
                             \o (IF mode = "EXCLUSIVE" THEN <<>> ELSE applySattr(child, v, s))
                             \o finishCreate(fh, name))

\* setTarget of a new symlink, setRdev of a new device.
special(type) == IF type = "LNK" THEN {"LNK"}
                 ELSE IF type \in {"BLK", "CHR"} THEN {"BLK", "CHR"} ELSE {}

\* Mutant: linked first, as nfsv4 does.
nfsMakeLinked(fh, name, type, v, s) ==
    LET child == Live(m_next)
    IN  /\ diropParent(fh)
        /\ StartNew(3, alloc(type, 0) \o finishCreate(fh, name) \o applySattr(child, v, s))

\* MKDIR, SYMLINK, MKNOD (v3).
nfsMake(fh, name, type, v, s) ==
    LET child == Live(m_next)
    IN  /\ diropParent(fh)
        /\ StartNew(3, alloc(type, 0) \o attr(child, v) \o applySattr(child, v, s)
                       \o (IF special(type) = {} THEN <<>> ELSE data(child, special(type), s))
                       \o finishCreate(fh, name))

\* OPEN with OPEN4_CREATE: linked first, then given attributes.  An existing
\* object is left as it is.
opOpen(fh, name, v, s, k) ==
    LET child == Live(m_next)
    IN  /\ diropParent(fh)
        /\ lookup(fh, name) = NoFh
        /\ StartNew(4, alloc("REG", 0) \o link(fh, name, child)
                       \o applyFattr4(child, v, s, k) \o touchDir(fh))

\* CREATE (v4): the other types, in the same order.
opCreate(fh, name, type, v, s, k) ==
    LET child == Live(m_next)
    IN  /\ diropParent(fh)
        /\ StartNew(4, alloc(type, IF special(type) = {} THEN 0 ELSE s) \o link(fh, name, child)
                       \o applyFattr4(child, v, s, k) \o touchDir(fh))

\* REMOVE (v3) unlinks whatever the name stands for.
nfsRemove(fh, name) == diropParent(fh) /\ Start(3, unlink(fh, name) \o touchDir(fh))

nfsRmdir(fh, name) ==
    LET child == lookup(fh, name)
    IN  /\ diropParent(fh)
        /\ child # NoFh
        /\ typeOf(child) = "DIR"
        /\ emptyDir(child)
        /\ Start(3, unlink(fh, name) \o touchDir(fh))

\* Mutant: v4 with the v3 REMOVE.
opRemoveAny(fh, name) == diropParent(fh) /\ Start(4, unlink(fh, name) \o touchDir(fh))

\* REMOVE (v4) serves files and directories.
opRemove(fh, name) ==
    LET victim == lookup(fh, name)
    IN  /\ diropParent(fh)
        /\ victim # NoFh /\ typeOf(victim) = "DIR" => emptyDir(victim)
        /\ Start(4, unlink(fh, name) \o touchDir(fh))

\* Mutant: only the source directory is stamped.
nfsRenameTouchOne(fh, name, dfh, dname) ==
    /\ known(fh) /\ known(dfh)
    /\ fh.snap = LATEST /\ dfh.snap = LATEST
    /\ Start(3, move(fh, name, dfh, dname) \o touchDir(fh))

\* RENAME looks at no type: the store refuses what has no entries.
nfsRename(fh, name, dfh, dname) ==
    /\ known(fh) /\ known(dfh)
    /\ fh.snap = LATEST /\ dfh.snap = LATEST
    /\ Start(3, move(fh, name, dfh, dname) \o touchDir(fh) \o touchDir(dfh))

opRename(fh, name, dfh, dname) ==
    /\ known(fh) /\ known(dfh)
    /\ fh.snap = LATEST /\ dfh.snap = LATEST
    /\ Start(4, move(fh, name, dfh, dname) \o touchDir(fh) \o touchDir(dfh))

\* LINK tests the directory's snapshot and not the file's, which may be named
\* through any view; v4 wants a directory.
nfsLink(file, fh, name) ==
    /\ known(file) /\ known(fh)
    /\ fh.snap = LATEST
    /\ Start(3, link(fh, name, file) \o touchDir(fh))

opLink(file, fh, name) ==
    /\ known(file)
    /\ diropParent(fh)
    /\ Start(4, link(fh, name, file) \o touchDir(fh))

nfsSetattr(fh, v, s) ==
    /\ known(fh)
    /\ fh.snap = LATEST
    /\ Start(3, applySattr(fh, v, s) \o ctime(fh))

\* A SETATTR (v4) that meets an unknown attribute, wherever it comes, keeps the ones
\* before it and leaves ctime; `ok' is that there was none.
opSetattr(fh, v, s, k, ok) ==
    /\ known(fh)
    /\ fh.snap = LATEST
    /\ Start(4, applyFattr4(fh, v, s, k) \o (IF ok THEN ctime(fh) ELSE <<>>))

\* WRITE: the seed, the size if it grows, mtime.
write(fh, seed, size, grows) ==
    data(fh, {"REG"}, seed) \o (IF grows THEN data(fh, Types, size) ELSE <<>>) \o mtime(fh)

nfsWrite(fh, seed, size, grows) ==
    /\ known(fh)
    /\ typeOf(fh) = "REG"
    /\ fh.snap = LATEST
    /\ Start(3, write(fh, seed, size, grows))

\* v4 takes anything but a directory, with a stateid (see Nfs4State).
opWrite(fh, seed, size, grows) ==
    /\ known(fh)
    /\ fh.snap = LATEST
    /\ typeOf(fh) # "DIR"
    /\ Start(4, write(fh, seed, size, grows))

-----------------------------------------------------------------------------
(* One store call.                                                            *)

record(c) == loadNode(db, c.fh.id, m_cur)

\* A setter: of the live record, whatever the handle's snapshot.  It returns
\* without effect where there is no record (a .snapshot directory) or the type is
\* another, and no procedure looks at that.
Setter(c) ==
    /\ c.op \in {"attr", "stamp", "data", "mtime", "ctime"}
    /\ IF c.fh.synth \/ (c.op = "data" /\ record(c).type \notin c.types)
       THEN UNCHANGED vars
       ELSE CASE c.op = "data"  -> SetData(c.fh.id, c.types, c.val)
              [] c.op = "attr"  -> SetAttr(c.fh.id, c.val, record(c).stamp)
              [] c.op = "mtime" -> SetAttr(c.fh.id, m_clock, record(c).stamp)
              [] c.op = "stamp" -> SetAttr(c.fh.id, record(c).attr, c.val)
              [] c.op = "ctime" -> SetAttr(c.fh.id, record(c).attr, m_clock)
    /\ hist' = [hist EXCEPT !.wrote = @ \cup {c.fh.id},
                            !.unstamped = IF c.op = "mtime" THEN @ \ {c.fh.id} ELSE @]

CallAlloc(c) == /\ c.op = "alloc"
                /\ Alloc(c.type, c.val)
                /\ hist' = [hist EXCEPT !.fresh = c.fh.id]

\* What link, unlink and move return; the ids of .snapshot directories have no
\* record.
errorOf(c) ==
    CASE c.op = "link"   -> IF c.fh.synth \/ c.child.synth THEN "NOENT"
                            ELSE linkErr(db, m_cur, c.fh.id, c.name, c.child.id)
      [] c.op = "unlink" -> IF c.fh.synth THEN "NOENT"
                            ELSE unlinkErr(db, m_cur, c.fh.id, c.name)
      [] c.op = "move"   -> IF c.fh.synth \/ c.dfh.synth THEN "NOENT"
                            ELSE moveErr(db, m_cur, c.fh.id, c.name, c.dfh.id, c.dname)
      [] OTHER           -> "OK"

refused(c) == errorOf(c) # "OK"

Changed(dirs) == hist' = [hist EXCEPT !.wrote = @ \cup dirs, !.unstamped = @ \cup dirs]

Namespace(c) ==
    /\ ~refused(c)
    /\ \/ c.op = "link"   /\ Link(c.fh.id, c.name, c.child.id) /\ Changed({c.fh.id})
       \/ c.op = "unlink" /\ Unlink(c.fh.id, c.name) /\ Changed({c.fh.id})
       \/ c.op = "move"   /\ Move(c.fh.id, c.name, c.dfh.id, c.dname)
                          /\ Changed({c.fh.id, c.dfh.id})

\* The clock stops at the largest of Times.
Tick(c) == /\ c.op = "tick"
           /\ SetTime(IF m_clock + 1 \in Times THEN m_clock + 1 ELSE m_clock)
           /\ UNCHANGED hist

Call == /\ Len(todo) > 0
        /\ LET c == Head(todo) IN Setter(c) \/ CallAlloc(c) \/ Namespace(c) \/ Tick(c)
        /\ todo' = Tail(todo)

\* A call that is refused ends the procedure; a tick, which comes last, is dispatch's.
CallRefused == /\ Len(todo) > 0
               /\ refused(Head(todo))
               /\ todo' = IF todo[Len(todo)].op = "tick" THEN <<todo[Len(todo)]>> ELSE <<>>
               /\ UNCHANGED <<vars, hist>>

\* The reply; the mutex is released.
Reply == /\ todo = <<>>
         /\ hist # Idle
         /\ hist' = Idle
         /\ UNCHANGED <<vars, todo>>

\* The control socket takes snapshots under the same mutex.
TakeSnapshot == todo = <<>> /\ hist = Idle /\ Snapshot /\ UNCHANGED <<todo, hist>>

\* The process dies, at any call, and is started again; what it left half done is
\* out of the history.
Crash == /\ Crashes
         /\ Reopen
         /\ todo' = <<>>
         /\ hist' = [Idle EXCEPT !.unstamped = {}]

HInit == /\ Init
         /\ todo = <<>>
         /\ hist = [proto |-> 0, fresh |-> NoId, wrote |-> {}, unstamped |-> {}]

Modes == {"UNCHECKED", "GUARDED", "EXCLUSIVE"}

\* Clients send handles that resolve, whether they were handed them or not.
Begin == LET fhs == {fh \in Handles : known(fh)} IN
    \/ nfsRefused
    \/ \E fh \in fhs, name \in Names \cup Snaps, mode \in Modes, v \in Times, s \in Data :
           (name \in Snaps => fh.synth) /\ nfsCreate(fh, name, mode, v, s)
    \/ \E fh \in fhs, name \in Names, type \in Types \ {"REG"}, v \in Times, s \in Data :
           nfsMake(fh, name, type, v, s) \/ \E k \in 0..3 : opCreate(fh, name, type, v, s, k)
    \/ \E fh \in fhs, name \in Names, v \in Times, s \in Data, k \in 0..3 :
           opOpen(fh, name, v, s, k)
    \/ \E fh \in fhs, name \in Names :
           nfsRemove(fh, name) \/ nfsRmdir(fh, name) \/ opRemove(fh, name)
    \/ \E fh, dfh \in fhs, name, dname \in Names :
           nfsRename(fh, name, dfh, dname) \/ opRename(fh, name, dfh, dname)
    \/ \E file, fh \in fhs, name \in Names :
           nfsLink(file, fh, name) \/ opLink(file, fh, name)
    \/ \E fh \in fhs, v \in Times, s \in Data :
           nfsSetattr(fh, v, s) \/ \E k \in 0..3, ok \in BOOLEAN : opSetattr(fh, v, s, k, ok)
    \/ \E fh \in fhs, seed, size \in Data, grows \in BOOLEAN :
           nfsWrite(fh, seed, size, grows) \/ opWrite(fh, seed, size, grows)

HNext == (todo = <<>> /\ hist = Idle /\ Begin) \/ Call \/ CallRefused \/ Reply \/ TakeSnapshot \/ Crash

HSpec == HInit /\ [][HNext]_hvars

-----------------------------------------------------------------------------
(* Properties. *)

nlinkOf(d, cur, id) == IF id # NoId /\ existedAt(d, id, cur) THEN loadNode(d, id, cur).nlink ELSE 0

\* The handles whose nodes a store call writes: the one it is made on, the other
\* directory of a move, and the file of a link, which gets an up-link and a count.
targets(c) == {c.fh} \cup (IF c.op = "move" THEN {c.dfh} ELSE {})
                     \cup (IF c.op = "link" THEN {c.child} ELSE {})

\* A snapshot's view is read-only: no store call that takes effect writes a node the
\* procedure named through a snapshot.  The store ignores the snapshot of a handle
\* and would change the live node instead.
WritesGoToLive ==
    Len(todo) > 0 /\ ~refused(Head(todo)) => \A fh \in targets(Head(todo)) : fh.snap = LATEST

\* The NFSv4 operations keep to that with one exception, the file of a LINK: opLink
\* tests the directory's handle and not the saved one, so that a file named through a
\* snapshot has its live node linked.  Every other handle in the operation's calls is
\* live: the object's, the directory's, both of a RENAME, and a new node's.
V4WritesGoToLive ==
    hist.proto = 4 => \A i \in DOMAIN todo : \A fh \in targets(todo[i]) :
        fh.snap = LATEST \/ (todo[i].op = "link" /\ fh = todo[i].child)

\* NFSv3 shows a new object with its attributes only: wherever the process dies, no
\* entry leads to a node its procedure had still attributes to give.
NewObjectsAppearComplete ==
    hist.proto = 3 => \A i \in DOMAIN todo :
        todo[i].fh.id = hist.fresh => nlinkOf(db, m_cur, hist.fresh) = 0

\* A namespace procedure writes nothing visible before the call that may refuse
\* it: one that is answered with an error has changed nothing in the tree.
RefusedLeavesTree ==
    Len(todo) > 0 /\ refused(Head(todo)) =>
        \A id \in hist.wrote : nlinkOf(db, m_cur, id) = 0

\* When a procedure has been answered, every directory whose entries it changed has
\* had its mtime set since: what a client that caches listings by mtime relies on.
DirsStampedWhenIdle == hist = Idle /\ todo = <<>> => hist.unstamped = {}

\* No NFSv4 operation takes the last name of a directory with entries, so none cuts a
\* subtree off: the test for emptiness and the unlink are one procedure.
NonEmptyStaysLinked ==
    [][hist.proto = 4 => \A id \in Ids :
           nlinkOf(db, m_cur, id) > 0 /\ nlinkOf(db', m_cur', id) = 0 =>
               linkSet(db, id, m_cur) = NoEntries]_hvars
=============================================================================
