------------------------------ MODULE Nfs4State ------------------------------
(***************************************************************************)
(* The NFSv4.0 lease, open and lock tables of plugins/nfsv4/nfsv4.cpp:     *)
(* m_clients under m_clientMu; m_opens, m_locks, m_nextState and           *)
(* m_confirmedOwners under m_stateMu.                                      *)
(*                                                                         *)
(* Every COMPOUND operation runs under the store's shared_mutex: OPEN and  *)
(* WRITE exclusively, the others shared.  All the work of an operation on  *)
(* these tables is done in one m_stateMu section, except in a LOCK by a    *)
(* new lock-owner, which asks clientConfirmed first and takes m_stateMu    *)
(* later: it is two actions, and the threads in between hold the shared    *)
(* lock, which keeps OPEN out.  SETCLIENTID_CONFIRM holds m_clientMu to    *)
(* its end and touches the state tables once, in purgeClientState.         *)
(*                                                                         *)
(* A stateid's seqid is returned and never read back, so it is left out,   *)
(* and so are the callback fields.  A map keyed by id is a set of records  *)
(* with an id.  Statuses other than NFS4_OK are stuttering steps.          *)
(***************************************************************************)
EXTENDS Integers, FiniteSets

CONSTANTS
    ClientNames,  \* nfs_client_id4.id strings
    Verifiers,    \* client boot verifiers
    Owners,       \* open-owner and lock-owner strings
    Files,        \* node ids of files
    Bits,         \* the share bits in use, a subset of READ and WRITE
    MAX,          \* ~0ull: the largest offset, and "to EOF" as a length
    Ranges,       \* the <<off, len>> pairs that clients send
    Threads,      \* server threads that may be inside a LOCK
    MaxClient,    \* bound: largest clientid handed out
    MaxState      \* bound: largest stateid handed out

ASSUME BitsAssumption   == Bits \subseteq {"READ", "WRITE"}
ASSUME RangesAssumption == MAX \in Nat \ {0} /\ Ranges \subseteq (0..MAX) \X (0..MAX)
ASSUME LimitsAssumption == MaxClient \in Nat /\ MaxState \in Nat

VARIABLES m_clients, m_nextClientid, m_opens, m_locks, m_nextState, m_confirmedOwners,
          pending    \* thread -> the LOCK it is inside, or NoLock

vars == <<m_clients, m_nextClientid, m_opens, m_locks, m_nextState, m_confirmedOwners,
          pending>>

ClientIds == 1..MaxClient
StateIds  == 1..MaxState
LockTypes == {"READ", "WRITE"}

ClientRec == [clientid : ClientIds, name : ClientNames, verifier : Verifiers, confirmed : BOOLEAN]
OpenState == [id : StateIds, clientid : ClientIds, owner : Owners, file : Files,
              access : SUBSET Bits, deny : SUBSET Bits]
LockRange == [rg : Ranges, type : LockTypes]
LockState == [id : StateIds, clientid : ClientIds, owner : Owners, file : Files,
              ranges : SUBSET LockRange]
LockArgs  == [clientid : ClientIds, owner : Owners, file : Files, range : LockRange]
NoLock    == [clientid |-> 0]

TypeOK == /\ m_clients \in SUBSET ClientRec
          /\ m_nextClientid \in 1..(MaxClient + 1)
          /\ m_opens \in SUBSET OpenState
          /\ m_locks \in SUBSET LockState
          /\ m_nextState \in 1..(MaxState + 1)
          /\ m_confirmedOwners \in SUBSET (ClientIds \X Owners)
          /\ pending \in [Threads -> LockArgs \cup {NoLock}]

-----------------------------------------------------------------------------
(* Reads of the tables. *)

clientConfirmed(clientid) == \E c \in m_clients : c.clientid = clientid /\ c.confirmed

\* One past the last byte, in the width of the code's offsets.
rangeEnd(rg) == IF rg[2] = MAX THEN MAX ELSE (rg[1] + rg[2]) % (MAX + 1)

overlaps(p, q) == p[1] < rangeEnd(q) /\ q[1] < rangeEnd(p)

\* Mutant: a held write lock does not stop a read lock.
deniedToWriters(clientid, owner, file, want) ==
    \E L \in m_locks : /\ L.file = file
                       /\ ~(L.clientid = clientid /\ L.owner = owner)
                       /\ want.type = "WRITE" /\ \E h \in L.ranges : overlaps(want.rg, h.rg)

\* The loop of LOCK and LOCKT: a range of another lock-owner on the file that
\* overlaps the wanted one, one of the two being a write lock.
denied(clientid, owner, file, want) ==
    \E L \in m_locks : /\ L.file = file
                       /\ ~(L.clientid = clientid /\ L.owner = owner)
                       /\ \E h \in L.ranges : /\ overlaps(want.rg, h.rg)
                                              /\ want.type = "WRITE" \/ h.type = "WRITE"

\* checkStateid answers READ and WRITE with BAD_STATEID unless the stateid names
\* state on that file.
names(id, file) == \E s \in m_opens \cup m_locks : s.id = id /\ s.file = file

\* A thread inside LOCK holds the store's mutex shared.
storeFree == \A t \in Threads : pending[t] = NoLock

-----------------------------------------------------------------------------
(* Leases. *)

Init == /\ m_clients = {}
        /\ m_nextClientid = 1
        /\ m_opens = {}
        /\ m_locks = {}
        /\ m_nextState = 1
        /\ m_confirmedOwners = {}
        /\ pending = [t \in Threads |-> NoLock]

\* A repeat of (name, verifier) gets the clientid it already has and changes
\* nothing here.
SetClientid(name, verifier) ==
    /\ ~\E c \in m_clients : c.name = name /\ c.verifier = verifier
    /\ m_nextClientid <= MaxClient
    /\ m_clients' = m_clients \cup {[clientid |-> m_nextClientid, name |-> name,
                                     verifier |-> verifier, confirmed |-> FALSE]}
    /\ m_nextClientid' = m_nextClientid + 1
    /\ UNCHANGED <<m_opens, m_locks, m_nextState, m_confirmedOwners, pending>>

\* The other confirmed leases of the same client: it has rebooted or remounted.
superseded(rec) == {c \in m_clients : c.clientid # rec.clientid /\ c.confirmed /\ c.name = rec.name}

\* Mutant: a purge forgets the opens.
purgeLocksOnly(clientids) ==
    /\ UNCHANGED m_opens
    /\ m_locks' = {L \in m_locks : L.clientid \notin clientids}

purgeClientState(clientids) ==
    /\ m_opens' = {o \in m_opens : o.clientid \notin clientids}
    /\ m_locks' = {L \in m_locks : L.clientid \notin clientids}

\* The caller echoes the confirm verifier it was given; confirming again is a
\* stuttering step.
SetClientidConfirm(rec) ==
    /\ ~rec.confirmed
    /\ LET stale == superseded(rec)
       IN  /\ purgeClientState({c.clientid : c \in stale})
           /\ m_clients' = (m_clients \ (stale \cup {rec})) \cup {[rec EXCEPT !.confirmed = TRUE]}
    /\ UNCHANGED <<m_nextClientid, m_nextState, m_confirmedOwners, pending>>

-----------------------------------------------------------------------------
(* Opens. *)

ownersOpen(clientid, owner, file) ==
    {o \in m_opens : o.file = file /\ o.clientid = clientid /\ o.owner = owner}

shareDenied(file, access, deny) ==
    \E o \in m_opens : o.file = file /\ (access \cap o.deny # {} \/ deny \cap o.access # {})

\* OPEN once it has resolved its file.  The same open-owner upgrades the open it
\* has; any other one is checked against the share reservations.
Upgrade(o, access, deny) ==
    /\ m_opens' = (m_opens \ {o}) \cup {[o EXCEPT !.access = @ \cup access, !.deny = @ \cup deny]}
    /\ UNCHANGED m_nextState

\* Mutant: the stateid is the size of the tables, not a counter.
NewOpenCounts(clientid, owner, file, access, deny) ==
    /\ ownersOpen(clientid, owner, file) = {}
    /\ ~shareDenied(file, access, deny)
    /\ m_nextState <= MaxState
    /\ m_opens' = m_opens \cup {[id |-> Cardinality(m_opens \cup m_locks) + 1, clientid |-> clientid,
                                 owner |-> owner, file |-> file, access |-> access, deny |-> deny]}
    /\ m_nextState' = m_nextState + 1

NewOpen(clientid, owner, file, access, deny) ==
    /\ ownersOpen(clientid, owner, file) = {}
    /\ ~shareDenied(file, access, deny)
    /\ m_nextState <= MaxState
    /\ m_opens' = m_opens \cup {[id |-> m_nextState, clientid |-> clientid, owner |-> owner,
                                 file |-> file, access |-> access, deny |-> deny]}
    /\ m_nextState' = m_nextState + 1

Open(clientid, owner, file, access, deny) ==
    /\ storeFree
    /\ clientConfirmed(clientid)
    /\ \/ \E o \in ownersOpen(clientid, owner, file) : Upgrade(o, access, deny)
       \/ NewOpen(clientid, owner, file, access, deny)
    /\ UNCHANGED <<m_clients, m_nextClientid, m_locks, m_confirmedOwners, pending>>

\* The locks taken under the open stay.
Close(o) ==
    /\ m_opens' = m_opens \ {o}
    /\ UNCHANGED <<m_clients, m_nextClientid, m_locks, m_nextState, m_confirmedOwners, pending>>

\* Mutant: the stateid is recorded where the clientid should be.
OpenConfirmStateid(o) ==
    /\ m_confirmedOwners' = m_confirmedOwners \cup {<<o.id, o.owner>>}
    /\ UNCHANGED <<m_clients, m_nextClientid, m_opens, m_locks, m_nextState, pending>>

OpenConfirm(o) ==
    /\ m_confirmedOwners' = m_confirmedOwners \cup {<<o.clientid, o.owner>>}
    /\ UNCHANGED <<m_clients, m_nextClientid, m_opens, m_locks, m_nextState, pending>>

OpenDowngrade(o, access, deny) ==
    /\ m_opens' = (m_opens \ {o}) \cup {[o EXCEPT !.access = access, !.deny = deny]}
    /\ UNCHANGED <<m_clients, m_nextClientid, m_locks, m_nextState, m_confirmedOwners, pending>>

-----------------------------------------------------------------------------
(* Byte-range locks. *)

\* Mutant: the owner's lock state is never found.
ownersLockMissed(clientid, owner, file) == {}

ownersLock(clientid, owner, file) ==
    {L \in m_locks : L.file = file /\ L.clientid = clientid /\ L.owner = owner}

\* The m_stateMu section of LOCK: refused on a conflict; otherwise the range goes
\* to the owner's lock state for this file, made on first use.
Acquire(clientid, owner, file, range) ==
    /\ ~denied(clientid, owner, file, range)
    /\ \/ /\ ownersLock(clientid, owner, file) = {}
          /\ m_nextState <= MaxState
          /\ m_locks' = m_locks \cup {[id |-> m_nextState, clientid |-> clientid, owner |-> owner,
                                       file |-> file, ranges |-> {range}]}
          /\ m_nextState' = m_nextState + 1
       \/ \E L \in ownersLock(clientid, owner, file) :
            /\ m_locks' = (m_locks \ {L}) \cup {[L EXCEPT !.ranges = @ \cup {range}]}
            /\ UNCHANGED m_nextState

\* LOCK with new_lock_owner: the lease is checked (the open stateid is not),
\* m_clientMu is released ...
LockBegin(t, args) ==
    /\ pending[t] = NoLock
    /\ clientConfirmed(args.clientid)
    /\ pending' = [pending EXCEPT ![t] = args]
    /\ UNCHANGED <<m_clients, m_nextClientid, m_opens, m_locks, m_nextState, m_confirmedOwners>>

\* ... and the state section runs later, whatever has happened to the lease.
LockFinish(t) ==
    /\ pending[t] # NoLock
    /\ LET p == pending[t]
       IN  \/ Acquire(p.clientid, p.owner, p.file, p.range)
           \/ /\ denied(p.clientid, p.owner, p.file, p.range)
              /\ UNCHANGED <<m_locks, m_nextState>>
    /\ pending' = [pending EXCEPT ![t] = NoLock]
    /\ UNCHANGED <<m_clients, m_nextClientid, m_opens, m_confirmedOwners>>

\* LOCK with a lock stateid: the owner is the stateid's, the file the current
\* filehandle's.
LockMore(L, file, range) ==
    /\ Acquire(L.clientid, L.owner, file, range)
    /\ UNCHANGED <<m_clients, m_nextClientid, m_opens, m_confirmedOwners, pending>>

\* Every held range that overlaps the given one goes, whole.
Locku(L, rg) ==
    /\ m_locks' = (m_locks \ {L})
                  \cup {[L EXCEPT !.ranges = {h \in @ : ~overlaps(rg, h.rg)}]}
    /\ UNCHANGED <<m_clients, m_nextClientid, m_opens, m_nextState, m_confirmedOwners, pending>>

ReleaseLockowner(clientid, owner) ==
    /\ m_locks' = {L \in m_locks : ~(L.clientid = clientid /\ L.owner = owner)}
    /\ UNCHANGED <<m_clients, m_nextClientid, m_opens, m_nextState, m_confirmedOwners, pending>>

\* A new server process starts with the initializers of its members.
Restart ==
    /\ m_clients' = {} /\ m_nextClientid' = 1
    /\ m_opens' = {} /\ m_locks' = {} /\ m_nextState' = 1
    /\ m_confirmedOwners' = {}
    /\ pending' = [t \in Threads |-> NoLock]

Next ==
    \/ \E name \in ClientNames, v \in Verifiers : SetClientid(name, v)
    \/ \E rec \in m_clients : SetClientidConfirm(rec)
    \/ \E c \in ClientIds, w \in Owners, f \in Files, access, deny \in SUBSET Bits :
           Open(c, w, f, access, deny)
    \/ \E o \in m_opens : Close(o)
    \/ \E o \in m_opens : OpenConfirm(o)
    \/ \E o \in m_opens, access, deny \in SUBSET Bits : OpenDowngrade(o, access, deny)
    \/ \E t \in Threads, args \in LockArgs : LockBegin(t, args)
    \/ \E t \in Threads : LockFinish(t)
    \/ \E L \in m_locks, f \in Files, range \in LockRange : LockMore(L, f, range)
    \/ \E L \in m_locks, rg \in Ranges : Locku(L, rg)
    \/ \E c \in ClientIds, w \in Owners : ReleaseLockowner(c, w)
    \/ Restart

Spec == Init /\ [][Next]_vars

-----------------------------------------------------------------------------
(* Properties. *)

\* The bytes a range stands for, computed without wrapping.
Bytes(rg) == {x \in 0..MAX : rg[1] <= x /\ (rg[2] = MAX \/ x < rg[1] + rg[2])}

\* No byte of a file is write-locked by one lock-owner and locked by another,
\* however LOCKs of several threads, unlocks and purges interleave.
LocksExclude ==
    \A L, M \in m_locks : L.file = M.file /\ <<L.clientid, L.owner>> # <<M.clientid, M.owner>> =>
        \A p \in L.ranges, q \in M.ranges :
            p.type = "WRITE" \/ q.type = "WRITE" => Bytes(p.rg) \cap Bytes(q.rg) = {}

\* A client string has one confirmed lease, and a (string, verifier) pair one
\* clientid: confirming a reboot always finds the lease it supersedes.
OneLeasePerClient ==
    \A c, d \in m_clients : c # d =>
        /\ c.clientid # d.clientid
        /\ ~(c.name = d.name /\ c.verifier = d.verifier)
        /\ c.name = d.name => ~(c.confirmed /\ d.confirmed)

\* Opens never outlive their lease: OPEN excludes SETCLIENTID_CONFIRM through the
\* store mutex, so no open is added for a client that has just been purged.
OpensHaveLease == \A o \in m_opens : clientConfirmed(o.clientid)

\* A lease that is not yet confirmed holds nothing: state reaches a clientid only
\* after its confirmation, and a reboot starts from nothing.
UnconfirmedHoldsNothing ==
    \A c \in m_clients : ~c.confirmed =>
        /\ \A s \in m_opens \cup m_locks : s.clientid # c.clientid
        /\ \A w \in Owners : <<c.clientid, w>> \notin m_confirmedOwners
        /\ \A t \in Threads : pending[t].clientid # c.clientid

\* A stateid names one thing: opens and locks share the counter, and an owner has
\* one open and one lock state per file, so find-by-owner and find-by-id agree.
StateidsNameOneThing ==
    /\ \A s, u \in m_opens \cup m_locks : s.id = u.id => s = u
    /\ \A s, u \in m_opens : s.clientid = u.clientid /\ s.owner = u.owner /\ s.file = u.file => s = u
    /\ \A s, u \in m_locks : s.clientid = u.clientid /\ s.owner = u.owner /\ s.file = u.file => s = u

\* Until the server restarts, a stateid that was closed, released or purged is
\* never accepted again: a late READ or WRITE under it cannot reach another open.
RetiredStateidsStayDead ==
    [][~Restart =>
        \A id \in 1..(m_nextState - 1), f \in Files : names(id, f)' => names(id, f)]_vars

-----------------------------------------------------------------------------
(* The inductive invariant behind the proved properties. *)

\* Every id in the tables is below the counter that mints it.
CountersAhead ==
    /\ \A c \in m_clients : c.clientid < m_nextClientid
    /\ \A s \in m_opens \cup m_locks : s.id < m_nextState /\ s.clientid < m_nextClientid
    /\ \A w \in m_confirmedOwners : w[1] < m_nextClientid
    /\ \A t \in Threads : pending[t].clientid < m_nextClientid

\* LocksExclude in the code's own terms.
RangesCompatible ==
    \A L, M \in m_locks : L.file = M.file /\ ~(L.clientid = M.clientid /\ L.owner = M.owner) =>
        \A p \in L.ranges, q \in M.ranges :
            p.type = "WRITE" \/ q.type = "WRITE" => ~overlaps(p.rg, q.rg)

LeaseInv == /\ TypeOK
            /\ CountersAhead
            /\ OneLeasePerClient
            /\ OpensHaveLease
            /\ UnconfirmedHoldsNothing
            /\ StateidsNameOneThing
            /\ RangesCompatible

\* No range reaches past the largest offset, so that rangeEnd does not wrap.
NoWrap == \A rg \in Ranges : rg[1] < MAX /\ (rg[2] = MAX \/ rg[1] + rg[2] <= MAX)

-----------------------------------------------------------------------------
(* What the comments claim and the code does not do. *)

\* The state of a superseded lease is purged: a lock's lease is confirmed.
LocksHaveLease == \A L \in m_locks : clientConfirmed(L.clientid)
=============================================================================
