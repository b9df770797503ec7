--------------------------- MODULE Nfs4StateProofs ---------------------------
(***************************************************************************)
(* Proofs about Nfs4State, for any clients, owners, files, ranges, threads *)
(* and bounds.                                                             *)
(***************************************************************************)
EXTENDS Nfs4State, TLAPS

\* overlaps does not depend on the order of its arguments.
LEMMA OverlapsSym == \A p, q : overlaps(p, q) <=> overlaps(q, p)
  BY DEF overlaps

\* Ranges that share a byte overlap in the code's sense, if they do not wrap.
LEMMA BytesOverlap ==
  ASSUME NoWrap, NEW p \in Ranges, NEW q \in Ranges, NEW x \in Bytes(p), x \in Bytes(q)
  PROVE  overlaps(p, q)
<1> /\ p[1] \in 0..MAX /\ p[2] \in 0..MAX /\ q[1] \in 0..MAX /\ q[2] \in 0..MAX /\ MAX \in Nat \ {0}
  BY RangesAssumption
<1> /\ x \in 0..MAX /\ p[1] <= x /\ q[1] <= x
    /\ p[2] = MAX \/ x < p[1] + p[2]
    /\ q[2] = MAX \/ x < q[1] + q[2]
  BY DEF Bytes
<1> /\ p[1] < MAX /\ (p[2] = MAX \/ p[1] + p[2] <= MAX)
    /\ q[1] < MAX /\ (q[2] = MAX \/ q[1] + q[2] <= MAX)
  BY DEF NoWrap
<1>1. p[2] # MAX => rangeEnd(p) = p[1] + p[2] /\ p[1] + p[2] \in 0..MAX
  <2> HAVE p[2] # MAX
  <2> p[1] + p[2] \in 0..MAX
    OBVIOUS
  <2> (p[1] + p[2]) % (MAX + 1) = p[1] + p[2]
    BY Z3
  <2> QED BY DEF rangeEnd
<1>2. q[2] # MAX => rangeEnd(q) = q[1] + q[2] /\ q[1] + q[2] \in 0..MAX
  <2> HAVE q[2] # MAX
  <2> q[1] + q[2] \in 0..MAX
    OBVIOUS
  <2> (q[1] + q[2]) % (MAX + 1) = q[1] + q[2]
    BY Z3
  <2> QED BY DEF rangeEnd
<1>3. /\ p[2] = MAX => rangeEnd(p) = MAX
      /\ q[2] = MAX => rangeEnd(q) = MAX
  BY DEF rangeEnd
<1> QED BY <1>1, <1>2, <1>3 DEF overlaps

\* The server starts with empty tables.
LEMMA InitLease == Init => LeaseInv
  BY LimitsAssumption
  DEF Init, LeaseInv, TypeOK, CountersAhead, OneLeasePerClient, OpensHaveLease, clientConfirmed,
      UnconfirmedHoldsNothing, StateidsNameOneThing, RangesCompatible, NoLock

\* Registering a client adds an unconfirmed lease under a fresh clientid.
LEMMA SetClientidInv ==
  ASSUME LeaseInv, NEW name \in ClientNames, NEW v \in Verifiers, SetClientid(name, v)
  PROVE  LeaseInv'
<1> USE LimitsAssumption DEF LeaseInv, SetClientid
<1> DEFINE new == [clientid |-> m_nextClientid, name |-> name, verifier |-> v, confirmed |-> FALSE]
<1>0. m_clients' = m_clients \cup {new} /\ m_nextClientid \in ClientIds
  BY DEF TypeOK, ClientIds
<1>a. /\ new \in ClientRec /\ new.clientid = m_nextClientid /\ new.name = name
      /\ new.verifier = v /\ ~new.confirmed
  BY <1>0 DEF ClientRec
<1>b. m_nextClientid' \in 1..(MaxClient + 1)
  BY <1>0 DEF ClientIds
<1>1. TypeOK'
  BY <1>0, <1>a, <1>b DEF TypeOK
<1>2. CountersAhead'
  BY <1>0 DEF CountersAhead, TypeOK, ClientRec, OpenState, LockState, ClientIds, LockArgs, NoLock
<1>3. OneLeasePerClient'
  <2> \A c \in m_clients : c.clientid # new.clientid /\ ~(c.name = new.name /\ c.verifier = new.verifier)
    BY <1>a, <1>0 DEF CountersAhead, ClientIds
  <2> HIDE DEF new
  <2> QED BY <1>0, <1>a DEF OneLeasePerClient
<1>4. OpensHaveLease'
  BY <1>0 DEF OpensHaveLease, clientConfirmed
<1>5. UnconfirmedHoldsNothing'
  <2> SUFFICES ASSUME NEW c \in m_clients', ~c.confirmed
               PROVE  /\ \A s \in m_opens \cup m_locks : s.clientid # c.clientid
                      /\ \A w \in Owners : <<c.clientid, w>> \notin m_confirmedOwners
                      /\ \A t \in Threads : pending[t].clientid # c.clientid
    BY DEF UnconfirmedHoldsNothing
  <2>1. CASE c \in m_clients
    BY <2>1 DEF UnconfirmedHoldsNothing
  <2>2. CASE c = new
    <3> c.clientid = m_nextClientid /\ m_nextClientid \in Nat
      BY <2>2, <1>0 DEF ClientIds
    <3>1. \A s \in m_opens \cup m_locks : s.clientid # c.clientid
      BY DEF CountersAhead
    <3>2. \A w \in Owners : <<c.clientid, w>> \notin m_confirmedOwners
      BY DEF CountersAhead
    <3>3. \A t \in Threads : pending[t].clientid # c.clientid
      BY DEF CountersAhead
    <3> QED BY <3>1, <3>2, <3>3
  <2> QED BY <1>0, <2>1, <2>2
<1>6. StateidsNameOneThing' /\ RangesCompatible'
  BY DEF StateidsNameOneThing, RangesCompatible
<1> QED BY <1>1, <1>2, <1>3, <1>4, <1>5, <1>6

\* Confirming removes the lease it supersedes with all that hangs on it, except
\* the LOCKs already past their lease check.
LEMMA ConfirmInv ==
  ASSUME LeaseInv, NEW rec \in m_clients, SetClientidConfirm(rec)
  PROVE  LeaseInv'
<1> USE DEF LeaseInv, SetClientidConfirm
<1> DEFINE stale == superseded(rec)
           gone  == {c.clientid : c \in stale}
           conf  == [rec EXCEPT !.confirmed = TRUE]
<1>0. /\ m_clients' = (m_clients \ (stale \cup {rec})) \cup {conf}
      /\ m_opens' = {o \in m_opens : o.clientid \notin gone}
      /\ m_locks' = {L \in m_locks : L.clientid \notin gone}
      /\ stale \subseteq m_clients
      /\ UNCHANGED <<m_nextClientid, m_nextState, m_confirmedOwners, pending>>
  BY DEF superseded, purgeClientState
<1>a. /\ conf \in ClientRec /\ conf.clientid = rec.clientid /\ conf.name = rec.name
      /\ conf.verifier = rec.verifier /\ conf.confirmed
  BY DEF TypeOK, ClientRec
<1>b. \A c \in m_clients : c \in stale <=> c.clientid # rec.clientid /\ c.confirmed /\ c.name = rec.name
  BY DEF superseded
<1> HIDE DEF stale, conf
<1>1. TypeOK'
  BY <1>0, <1>a DEF TypeOK
<1>2. CountersAhead'
  BY <1>0, <1>a DEF CountersAhead
<1>3. OneLeasePerClient'
  BY <1>0, <1>a, <1>b DEF OneLeasePerClient
<1>4. OpensHaveLease'
  <2> SUFFICES ASSUME NEW o \in m_opens' PROVE \E c \in m_clients' : c.clientid = o.clientid /\ c.confirmed
    BY DEF OpensHaveLease, clientConfirmed
  <2>1. PICK c \in m_clients : c.clientid = o.clientid /\ c.confirmed
    BY <1>0 DEF OpensHaveLease, clientConfirmed
  <2>2. c \notin stale /\ c # rec
    BY <1>0, <2>1
  <2> QED BY <1>0, <2>1, <2>2
<1>5. UnconfirmedHoldsNothing'
  BY <1>0, <1>a DEF UnconfirmedHoldsNothing
<1>6. StateidsNameOneThing'
  BY <1>0 DEF StateidsNameOneThing
<1>7. RangesCompatible'
  BY <1>0 DEF RangesCompatible
<1> QED BY <1>1, <1>2, <1>3, <1>4, <1>5, <1>6, <1>7

\* What the steps on m_opens alone have in common: each open that is there
\* afterwards is either an old one, perhaps with other share bits, or a fresh
\* one of a confirmed client.
LEMMA OpensStep ==
  ASSUME LeaseInv, m_opens' \in SUBSET OpenState, m_nextState' \in 1..(MaxState + 1),
         m_nextState <= m_nextState',
         UNCHANGED <<m_clients, m_nextClientid, m_locks, pending>>,
         m_confirmedOwners' \in SUBSET (ClientIds \X Owners),
         \A w \in m_confirmedOwners' : w \in m_confirmedOwners \/ clientConfirmed(w[1]),
         \A o \in m_opens' : o.id < m_nextState' /\ clientConfirmed(o.clientid),
         \A o, u \in m_opens' :
            o.id = u.id \/ (o.clientid = u.clientid /\ o.owner = u.owner /\ o.file = u.file) => o = u,
         \A o \in m_opens', L \in m_locks : o.id # L.id
  PROVE  LeaseInv'
<1> USE DEF LeaseInv
<1>1. TypeOK'
  BY DEF TypeOK
<1>c. \A k : clientConfirmed(k) => k < m_nextClientid
  BY DEF clientConfirmed, CountersAhead
<1>2. CountersAhead'
  <2>1. \A L \in m_locks : L.id < m_nextState'
    BY DEF CountersAhead, TypeOK, LockState, StateIds
  <2> QED BY <1>c, <2>1 DEF CountersAhead
<1>3. OneLeasePerClient' /\ RangesCompatible'
  BY DEF OneLeasePerClient, RangesCompatible
<1>4. OpensHaveLease'
  BY DEF OpensHaveLease, clientConfirmed
<1>5. UnconfirmedHoldsNothing'
  <2> SUFFICES ASSUME NEW c \in m_clients, ~c.confirmed
               PROVE  /\ \A s \in m_opens' \cup m_locks : s.clientid # c.clientid
                      /\ \A w \in Owners : <<c.clientid, w>> \notin m_confirmedOwners'
                      /\ \A t \in Threads : pending[t].clientid # c.clientid
    BY DEF UnconfirmedHoldsNothing
  <2>1. ~clientConfirmed(c.clientid)
    BY DEF clientConfirmed, OneLeasePerClient
  <2> QED BY <2>1 DEF UnconfirmedHoldsNothing
<1>6. StateidsNameOneThing'
  BY DEF StateidsNameOneThing
<1> QED BY <1>1, <1>2, <1>3, <1>4, <1>5, <1>6

\* A clientid confirmed by a check has a lease in the tables' range.
LEMMA ConfirmedKnown ==
  ASSUME LeaseInv, NEW k, clientConfirmed(k)
  PROVE  k \in ClientIds /\ k < m_nextClientid
  BY DEF LeaseInv, clientConfirmed, CountersAhead, TypeOK, ClientRec

\* An open and a lock never have the same stateid.
LEMMA OpenIsNoLock ==
  ASSUME LeaseInv, NEW u \in m_opens, NEW L \in m_locks
  PROVE  u.id # L.id
<1> SUFFICES ASSUME u.id = L.id PROVE FALSE
  OBVIOUS
<1>1. u = L
  BY DEF LeaseInv, StateidsNameOneThing
<1>2. "access" \in DOMAIN u /\ "access" \notin DOMAIN L
  BY DEF LeaseInv, TypeOK, OpenState, LockState
<1> QED BY <1>1, <1>2

\* Changing the share bits of an open keeps everything else about it.
LEMMA RebitInv ==
  ASSUME LeaseInv, NEW o \in m_opens, NEW acc \in SUBSET Bits, NEW den \in SUBSET Bits,
         m_opens' = (m_opens \ {o}) \cup {[o EXCEPT !.access = acc, !.deny = den]},
         UNCHANGED <<m_clients, m_nextClientid, m_locks, m_nextState, m_confirmedOwners, pending>>
  PROVE  LeaseInv'
<1> DEFINE n == [o EXCEPT !.access = acc, !.deny = den]
<1>1. /\ n \in OpenState /\ n.id = o.id /\ n.clientid = o.clientid /\ n.owner = o.owner
      /\ n.file = o.file
  BY DEF LeaseInv, TypeOK, OpenState
<1>2. m_opens' = (m_opens \ {o}) \cup {n}
  OBVIOUS
<1> HIDE DEF n
<1>3. m_opens' \in SUBSET OpenState /\ m_nextState' \in 1..(MaxState + 1) /\ m_nextState <= m_nextState'
  BY <1>1, <1>2, LimitsAssumption DEF LeaseInv, TypeOK
<1>4. \A u \in m_opens' : u.id < m_nextState' /\ clientConfirmed(u.clientid)
  BY <1>1, <1>2 DEF LeaseInv, CountersAhead, OpensHaveLease
<1>5. \A s, u \in m_opens' :
        s.id = u.id \/ (s.clientid = u.clientid /\ s.owner = u.owner /\ s.file = u.file) => s = u
  BY <1>1, <1>2 DEF LeaseInv, StateidsNameOneThing
<1>6. \A u \in m_opens', L \in m_locks : u.id # L.id
  BY <1>1, <1>2, OpenIsNoLock
<1>7. m_confirmedOwners' \in SUBSET (ClientIds \X Owners)
  BY DEF LeaseInv, TypeOK
<1> QED BY <1>3, <1>4, <1>5, <1>6, <1>7, OpensStep

\* A fresh open has a fresh stateid and a confirmed client.
LEMMA NewOpenInv ==
  ASSUME LeaseInv, NEW k \in ClientIds, NEW w \in Owners, NEW f \in Files,
         NEW acc \in SUBSET Bits, NEW den \in SUBSET Bits, clientConfirmed(k),
         NewOpen(k, w, f, acc, den),
         UNCHANGED <<m_clients, m_nextClientid, m_locks, m_confirmedOwners, pending>>
  PROVE  LeaseInv'
<1> DEFINE n == [id |-> m_nextState, clientid |-> k, owner |-> w, file |-> f,
                 access |-> acc, deny |-> den]
<1>0. m_nextState \in StateIds /\ m_nextState' = m_nextState + 1 /\ m_opens' = m_opens \cup {n}
  BY LimitsAssumption DEF LeaseInv, TypeOK, NewOpen, StateIds
<1>1. /\ n \in OpenState /\ n.id = m_nextState /\ n.clientid = k /\ n.owner = w /\ n.file = f
  BY <1>0 DEF OpenState
<1> HIDE DEF n
<1>2. \A u \in m_opens \cup m_locks : u.id < m_nextState /\ u.id # n.id
  BY <1>0, <1>1 DEF LeaseInv, CountersAhead, StateIds
<1>3. m_opens' \in SUBSET OpenState /\ m_nextState' \in 1..(MaxState + 1) /\ m_nextState <= m_nextState'
  BY <1>0, <1>1, LimitsAssumption DEF LeaseInv, TypeOK, StateIds
<1>a. \A u \in m_opens : u.id \in Int
  BY DEF LeaseInv, TypeOK, OpenState, StateIds
<1>4. \A u \in m_opens' : u.id < m_nextState' /\ clientConfirmed(u.clientid)
  BY <1>0, <1>1, <1>2, <1>a DEF LeaseInv, OpensHaveLease, StateIds
<1>b. \A u \in m_opens : ~(u.clientid = k /\ u.owner = w /\ u.file = f)
  BY DEF NewOpen, ownersOpen
<1>5. \A s, u \in m_opens' :
        s.id = u.id \/ (s.clientid = u.clientid /\ s.owner = u.owner /\ s.file = u.file) => s = u
  BY <1>0, <1>1, <1>2, <1>b DEF LeaseInv, StateidsNameOneThing
<1>6. \A u \in m_opens', L \in m_locks : u.id # L.id
  BY <1>0, <1>1, <1>2, OpenIsNoLock
<1>7. m_confirmedOwners' \in SUBSET (ClientIds \X Owners)
  BY DEF LeaseInv, TypeOK
<1> QED BY <1>3, <1>4, <1>5, <1>6, <1>7, OpensStep

\* The operations on opens.
LEMMA OpensInv ==
  ASSUME LeaseInv,
         \/ \E k \in ClientIds, w \in Owners, f \in Files, acc, den \in SUBSET Bits :
                Open(k, w, f, acc, den)
         \/ \E o \in m_opens : Close(o) \/ OpenConfirm(o)
         \/ \E o \in m_opens, acc, den \in SUBSET Bits : OpenDowngrade(o, acc, den)
  PROVE  LeaseInv'
<1>1. ASSUME NEW k \in ClientIds, NEW w \in Owners, NEW f \in Files, NEW acc \in SUBSET Bits,
             NEW den \in SUBSET Bits, Open(k, w, f, acc, den)
      PROVE  LeaseInv'
  <2>1. CASE \E o \in ownersOpen(k, w, f) : Upgrade(o, acc, den)
    <3> PICK o \in ownersOpen(k, w, f) : Upgrade(o, acc, den)
      BY <2>1
    <3> DEFINE aa == o.access \cup acc
               dd == o.deny \cup den
    <3>1. o \in m_opens /\ o \in OpenState
      BY DEF ownersOpen, LeaseInv, TypeOK
    <3>2. aa \in SUBSET Bits /\ dd \in SUBSET Bits
      BY <3>1 DEF OpenState
    <3>3. m_opens' = (m_opens \ {o}) \cup {[o EXCEPT !.access = aa, !.deny = dd]}
      BY <3>1 DEF Upgrade, OpenState
    <3>4. UNCHANGED <<m_clients, m_nextClientid, m_locks, m_nextState, m_confirmedOwners, pending>>
      BY <1>1 DEF Open, Upgrade
    <3> HIDE DEF aa, dd
    <3> QED BY <3>1, <3>2, <3>3, <3>4, RebitInv
  <2>2. CASE NewOpen(k, w, f, acc, den)
    BY <1>1, <2>2, NewOpenInv DEF Open
  <2> QED BY <1>1, <2>1, <2>2 DEF Open
<1>2. ASSUME NEW o \in m_opens, Close(o) PROVE LeaseInv'
  <2>1. /\ m_opens' \subseteq m_opens
        /\ UNCHANGED <<m_clients, m_nextClientid, m_locks, m_nextState, m_confirmedOwners, pending>>
    BY <1>2 DEF Close
  <2> QED BY <2>1, OpensStep, OpenIsNoLock, LimitsAssumption
    DEF LeaseInv, TypeOK, CountersAhead, OpensHaveLease, StateidsNameOneThing
<1>3. ASSUME NEW o \in m_opens, OpenConfirm(o) PROVE LeaseInv'
  <2>1. /\ UNCHANGED <<m_clients, m_nextClientid, m_opens, m_locks, m_nextState, pending>>
        /\ m_confirmedOwners' = m_confirmedOwners \cup {<<o.clientid, o.owner>>}
    BY <1>3 DEF OpenConfirm
  <2>2. clientConfirmed(o.clientid)
    BY DEF LeaseInv, OpensHaveLease
  <2>3. m_confirmedOwners' \in SUBSET (ClientIds \X Owners)
    BY <2>1 DEF LeaseInv, TypeOK, OpenState
  <2>4. \A u \in m_confirmedOwners' : u \in m_confirmedOwners \/ clientConfirmed(u[1])
    BY <2>1, <2>2
  <2> QED BY <2>1, <2>3, <2>4, OpensStep, OpenIsNoLock, LimitsAssumption
    DEF LeaseInv, TypeOK, CountersAhead, OpensHaveLease, StateidsNameOneThing
<1>4. ASSUME NEW o \in m_opens, NEW acc \in SUBSET Bits, NEW den \in SUBSET Bits,
             OpenDowngrade(o, acc, den)
      PROVE  LeaseInv'
  BY <1>4, RebitInv DEF OpenDowngrade
<1> QED BY <1>1, <1>2, <1>3, <1>4

\* What the steps on m_locks and the pending LOCKs have in common.  A clientid
\* that holds a lock may have lost its lease, but never has an unconfirmed one.
LEMMA LocksStep ==
  ASSUME LeaseInv, m_locks' \in SUBSET LockState, m_nextState' \in 1..(MaxState + 1),
         m_nextState <= m_nextState', pending' \in [Threads -> LockArgs \cup {NoLock}],
         UNCHANGED <<m_clients, m_nextClientid, m_opens, m_confirmedOwners>>,
         \A L \in m_locks' : L.id < m_nextState',
         \A t \in Threads : \/ pending'[t] = pending[t]
                            \/ pending'[t] = NoLock
                            \/ clientConfirmed(pending'[t].clientid),
         \A L \in m_locks' : \/ \E M \in m_locks : L.clientid = M.clientid
                             \/ \E t \in Threads : L.clientid = pending[t].clientid,
         \A L, M \in m_locks' :
            L.id = M.id \/ (L.clientid = M.clientid /\ L.owner = M.owner /\ L.file = M.file) => L = M,
         \A o \in m_opens, L \in m_locks' : o.id # L.id,
         RangesCompatible'
  PROVE  LeaseInv'
<1> USE DEF LeaseInv
<1>1. TypeOK'
  BY DEF TypeOK
<1>n. m_nextClientid \in Nat /\ m_nextClientid > 0
  BY DEF TypeOK
<1>2. CountersAhead'
  <2>1. \A o \in m_opens : o.id < m_nextState'
    BY DEF CountersAhead, TypeOK, OpenState, StateIds
  <2>2. \A t \in Threads : pending'[t].clientid < m_nextClientid
    <3> TAKE t \in Threads
    <3>1. CASE pending'[t] = pending[t]
      BY <3>1 DEF CountersAhead
    <3>2. CASE pending'[t] = NoLock
      BY <3>2, <1>n DEF NoLock
    <3>3. CASE clientConfirmed(pending'[t].clientid)
      BY <3>3, ConfirmedKnown
    <3> QED BY <3>1, <3>2, <3>3
  <2>3. \A L \in m_locks' : L.clientid < m_nextClientid
    BY DEF CountersAhead
  <2> QED BY <2>1, <2>2, <2>3 DEF CountersAhead
<1>3. OneLeasePerClient' /\ OpensHaveLease'
  BY DEF OneLeasePerClient, OpensHaveLease, clientConfirmed
<1>5. UnconfirmedHoldsNothing'
  <2> SUFFICES ASSUME NEW c \in m_clients, ~c.confirmed
               PROVE  /\ \A s \in m_opens \cup m_locks' : s.clientid # c.clientid
                      /\ \A w \in Owners : <<c.clientid, w>> \notin m_confirmedOwners
                      /\ \A t \in Threads : pending'[t].clientid # c.clientid
    BY DEF UnconfirmedHoldsNothing
  <2>1. ~clientConfirmed(c.clientid)
    BY DEF clientConfirmed, OneLeasePerClient
  <2>2. \A s \in m_opens \cup m_locks' : s.clientid # c.clientid
    BY DEF UnconfirmedHoldsNothing
  <2>3. \A w \in Owners : <<c.clientid, w>> \notin m_confirmedOwners
    BY DEF UnconfirmedHoldsNothing
  <2>4. \A t \in Threads : pending'[t].clientid # c.clientid
    <3> TAKE t \in Threads
    <3>1. c.clientid # 0
      BY DEF TypeOK, ClientRec, ClientIds
    <3>2. pending[t].clientid # c.clientid
      BY DEF UnconfirmedHoldsNothing
    <3> QED BY <2>1, <3>1, <3>2 DEF NoLock
  <2> QED BY <2>2, <2>3, <2>4
<1>6. StateidsNameOneThing'
  BY DEF StateidsNameOneThing
<1> QED BY <1>1, <1>2, <1>3, <1>5, <1>6

\* A step that only removes locks, or ranges of locks, keeps the rest.
LEMMA FewerLocks ==
  ASSUME LeaseInv, m_locks' \in SUBSET LockState,
         UNCHANGED <<m_clients, m_nextClientid, m_opens, m_nextState, m_confirmedOwners, pending>>,
         \A L \in m_locks' : \E M \in m_locks :
            /\ L.id = M.id /\ L.clientid = M.clientid /\ L.owner = M.owner /\ L.file = M.file
            /\ L.ranges \subseteq M.ranges,
         \A L, M \in m_locks' : L.id = M.id => L = M
  PROVE  LeaseInv'
<1>1. RangesCompatible'
  BY DEF LeaseInv, RangesCompatible, overlaps, rangeEnd
<1>2. \A L, M \in m_locks' :
        L.id = M.id \/ (L.clientid = M.clientid /\ L.owner = M.owner /\ L.file = M.file) => L = M
  <2> SUFFICES ASSUME NEW L \in m_locks', NEW M \in m_locks',
                      L.clientid = M.clientid /\ L.owner = M.owner /\ L.file = M.file
               PROVE  L.id = M.id
    OBVIOUS
  <2> QED BY DEF LeaseInv, StateidsNameOneThing
<1>3. \A o \in m_opens, L \in m_locks' : o.id # L.id
  BY OpenIsNoLock
<1>4. \A L \in m_locks' : L.id < m_nextState'
  BY DEF LeaseInv, CountersAhead
<1>5. /\ m_nextState' \in 1..(MaxState + 1) /\ m_nextState <= m_nextState'
      /\ pending' \in [Threads -> LockArgs \cup {NoLock}]
  BY LimitsAssumption DEF LeaseInv, TypeOK
<1> QED BY <1>1, <1>2, <1>3, <1>4, <1>5, LocksStep

\* A lock range is added where no other owner has a conflicting one.
LEMMA AcquireInv ==
  ASSUME LeaseInv, NEW k \in ClientIds, NEW w \in Owners, NEW f \in Files, NEW r \in LockRange,
         Acquire(k, w, f, r), pending' \in [Threads -> LockArgs \cup {NoLock}],
         \A t \in Threads : pending'[t] = pending[t] \/ pending'[t] = NoLock,
         (\E M \in m_locks : k = M.clientid) \/ (\E t \in Threads : k = pending[t].clientid),
         UNCHANGED <<m_clients, m_nextClientid, m_opens, m_confirmedOwners>>
  PROVE  LeaseInv'
<1>0. \A L \in m_locks : L.file = f /\ ~(L.clientid = k /\ L.owner = w) =>
        \A h \in L.ranges : r.type = "WRITE" \/ h.type = "WRITE" =>
            ~overlaps(r.rg, h.rg) /\ ~overlaps(h.rg, r.rg)
  BY OverlapsSym DEF Acquire, denied
<1>t. m_nextState \in 1..(MaxState + 1) /\ MaxState \in Nat /\ m_locks \in SUBSET LockState
  BY LimitsAssumption DEF LeaseInv, TypeOK
<1>i. \A s \in m_opens \cup m_locks : s.id < m_nextState
  BY DEF LeaseInv, CountersAhead
<1>1. CASE /\ ownersLock(k, w, f) = {}
           /\ m_nextState <= MaxState
           /\ m_locks' = m_locks \cup {[id |-> m_nextState, clientid |-> k, owner |-> w,
                                        file |-> f, ranges |-> {r}]}
           /\ m_nextState' = m_nextState + 1
  <2> DEFINE n == [id |-> m_nextState, clientid |-> k, owner |-> w, file |-> f, ranges |-> {r}]
  <2>1. /\ n \in LockState /\ n.id = m_nextState /\ n.clientid = k /\ n.owner = w /\ n.file = f
        /\ n.ranges = {r}
    BY <1>1, <1>t DEF LockState, StateIds
  <2>2. m_locks' = m_locks \cup {n}
    BY <1>1
  <2> HIDE DEF n
  <2>3. \A s \in m_opens \cup m_locks : s.id # n.id
    BY <1>i, <1>t, <2>1
  <2>4. \A L \in m_locks : ~(L.clientid = k /\ L.owner = w /\ L.file = f)
    BY <1>1 DEF ownersLock
  <2>5. \A L, M \in m_locks' :
          L.id = M.id \/ (L.clientid = M.clientid /\ L.owner = M.owner /\ L.file = M.file) => L = M
    BY <2>1, <2>2, <2>3, <2>4 DEF LeaseInv, StateidsNameOneThing
  <2>6. \A o \in m_opens, L \in m_locks' : o.id # L.id
    BY <2>1, <2>2, <2>3, OpenIsNoLock
  <2>7. RangesCompatible'
    BY <2>1, <2>2, <1>0 DEF LeaseInv, RangesCompatible, overlaps, rangeEnd
  <2>8. \A L \in m_locks' : L.id < m_nextState'
    BY <1>1, <1>i, <1>t, <2>1, <2>2 DEF LockState, StateIds
  <2>9. m_locks' \in SUBSET LockState /\ m_nextState' \in 1..(MaxState + 1) /\ m_nextState <= m_nextState'
    BY <1>1, <1>t, <2>1, <2>2
  <2>10. \A L \in m_locks' : \/ \E M \in m_locks : L.clientid = M.clientid
                             \/ \E t \in Threads : L.clientid = pending[t].clientid
    BY <2>1, <2>2
  <2> QED BY <2>5, <2>6, <2>7, <2>8, <2>9, <2>10, LocksStep
<1>2. ASSUME NEW L \in ownersLock(k, w, f),
             m_locks' = (m_locks \ {L}) \cup {[L EXCEPT !.ranges = @ \cup {r}]},
             UNCHANGED m_nextState
      PROVE  LeaseInv'
  <2> DEFINE n == [L EXCEPT !.ranges = @ \cup {r}]
  <2>0. L \in m_locks /\ L.clientid = k /\ L.owner = w /\ L.file = f
    BY DEF ownersLock
  <2>1. /\ n \in LockState /\ n.id = L.id /\ n.clientid = k /\ n.owner = w /\ n.file = f
        /\ n.ranges = L.ranges \cup {r}
    BY <2>0, <1>t DEF LockState
  <2>2. m_locks' = (m_locks \ {L}) \cup {n}
    BY <1>2
  <2> HIDE DEF n
  <2>5. \A M, N \in m_locks' :
          M.id = N.id \/ (M.clientid = N.clientid /\ M.owner = N.owner /\ M.file = N.file) => M = N
    BY <2>0, <2>1, <2>2 DEF LeaseInv, StateidsNameOneThing
  <2>6. \A o \in m_opens, M \in m_locks' : o.id # M.id
    BY <2>0, <2>1, <2>2, OpenIsNoLock
  <2>7. RangesCompatible'
    BY <2>0, <2>1, <2>2, <1>0 DEF LeaseInv, RangesCompatible, overlaps, rangeEnd
  <2>8. \A M \in m_locks' : M.id < m_nextState'
    BY <1>2, <1>i, <2>0, <2>1, <2>2
  <2>9. m_locks' \in SUBSET LockState /\ m_nextState' \in 1..(MaxState + 1) /\ m_nextState <= m_nextState'
    BY <1>2, <1>t, <2>1, <2>2
  <2>10. \A M \in m_locks' : \/ \E N \in m_locks : M.clientid = N.clientid
                             \/ \E t \in Threads : M.clientid = pending[t].clientid
    BY <2>1, <2>2
  <2> QED BY <2>5, <2>6, <2>7, <2>8, <2>9, <2>10, LocksStep
<1> QED BY <1>1, <1>2 DEF Acquire

\* The operations on locks.
LEMMA LocksInv ==
  ASSUME LeaseInv,
         \/ \E t \in Threads, args \in LockArgs : LockBegin(t, args)
         \/ \E t \in Threads : LockFinish(t)
         \/ \E L \in m_locks, f \in Files, range \in LockRange : LockMore(L, f, range)
         \/ \E L \in m_locks, rg \in Ranges : Locku(L, rg)
         \/ \E k \in ClientIds, w \in Owners : ReleaseLockowner(k, w)
  PROVE  LeaseInv'
<1>t. /\ m_nextState \in 1..(MaxState + 1) /\ MaxState \in Nat /\ m_locks \in SUBSET LockState
      /\ pending \in [Threads -> LockArgs \cup {NoLock}]
  BY LimitsAssumption DEF LeaseInv, TypeOK
<1>same. /\ \A L \in m_locks : L.id < m_nextState
         /\ \A L, M \in m_locks : L.id = M.id \/ (L.clientid = M.clientid /\ L.owner = M.owner
                                                 /\ L.file = M.file) => L = M
         /\ \A o \in m_opens, L \in m_locks : o.id # L.id
  BY OpenIsNoLock DEF LeaseInv, CountersAhead, StateidsNameOneThing
<1>1. ASSUME NEW t \in Threads, NEW args \in LockArgs, LockBegin(t, args) PROVE LeaseInv'
  <2>1. /\ pending' = [pending EXCEPT ![t] = args] /\ clientConfirmed(args.clientid)
        /\ UNCHANGED <<m_clients, m_nextClientid, m_opens, m_locks, m_nextState, m_confirmedOwners>>
    BY <1>1 DEF LockBegin
  <2>2. pending' \in [Threads -> LockArgs \cup {NoLock}]
    BY <2>1, <1>t
  <2>3. \A u \in Threads : \/ pending'[u] = pending[u]
                           \/ pending'[u] = NoLock
                           \/ clientConfirmed(pending'[u].clientid)
    BY <2>1, <1>t
  <2>4. RangesCompatible'
    BY <2>1 DEF LeaseInv, RangesCompatible
  <2> QED BY <1>t, <1>same, <2>1, <2>2, <2>3, <2>4, LocksStep
<1>2. ASSUME NEW t \in Threads, LockFinish(t) PROVE LeaseInv'
  <2> DEFINE p == pending[t]
  <2>1. /\ pending' = [pending EXCEPT ![t] = NoLock] /\ p # NoLock
        /\ UNCHANGED <<m_clients, m_nextClientid, m_opens, m_confirmedOwners>>
    BY <1>2 DEF LockFinish
  <2>2. /\ pending' \in [Threads -> LockArgs \cup {NoLock}]
        /\ \A u \in Threads : pending'[u] = pending[u] \/ pending'[u] = NoLock
    BY <2>1, <1>t
  <2>3. p.clientid \in ClientIds /\ p.owner \in Owners /\ p.file \in Files /\ p.range \in LockRange
    BY <2>1, <1>t DEF LockArgs
  <2>4. CASE Acquire(p.clientid, p.owner, p.file, p.range)
    BY <2>1, <2>2, <2>3, <2>4, AcquireInv
  <2>5. CASE UNCHANGED <<m_locks, m_nextState>>
    <3>1. RangesCompatible'
      BY <2>5 DEF LeaseInv, RangesCompatible
    <3> QED BY <1>t, <1>same, <2>1, <2>2, <2>5, <3>1, LocksStep
  <2> QED BY <1>2, <2>4, <2>5 DEF LockFinish
<1>3. ASSUME NEW L \in m_locks, NEW f \in Files, NEW range \in LockRange, LockMore(L, f, range)
      PROVE  LeaseInv'
  <2>1. L.clientid \in ClientIds /\ L.owner \in Owners
    BY <1>t DEF LockState
  <2> QED BY <1>3, <1>t, <2>1, AcquireInv DEF LockMore
<1>4. ASSUME NEW L \in m_locks, NEW rg \in Ranges, Locku(L, rg) PROVE LeaseInv'
  <2> DEFINE n == [L EXCEPT !.ranges = {h \in @ : ~overlaps(rg, h.rg)}]
  <2>1. /\ n \in LockState /\ n.id = L.id /\ n.clientid = L.clientid /\ n.owner = L.owner
        /\ n.file = L.file /\ n.ranges \subseteq L.ranges
    BY <1>t DEF LockState
  <2>2. m_locks' = (m_locks \ {L}) \cup {n}
    BY <1>4 DEF Locku
  <2> HIDE DEF n
  <2>3. m_locks' \in SUBSET LockState
    BY <1>t, <2>1, <2>2
  <2>4. \A M \in m_locks' : \E N \in m_locks :
            /\ M.id = N.id /\ M.clientid = N.clientid /\ M.owner = N.owner /\ M.file = N.file
            /\ M.ranges \subseteq N.ranges
    BY <2>1, <2>2
  <2>5. \A M, N \in m_locks' : M.id = N.id => M = N
    BY <1>same, <2>1, <2>2
  <2>6. UNCHANGED <<m_clients, m_nextClientid, m_opens, m_nextState, m_confirmedOwners, pending>>
    BY <1>4 DEF Locku
  <2> QED BY <2>3, <2>4, <2>5, <2>6, FewerLocks
<1>5. ASSUME NEW k \in ClientIds, NEW w \in Owners, ReleaseLockowner(k, w) PROVE LeaseInv'
  <2>1. /\ m_locks' \subseteq m_locks
        /\ UNCHANGED <<m_clients, m_nextClientid, m_opens, m_nextState, m_confirmedOwners, pending>>
    BY <1>5 DEF ReleaseLockowner
  <2> QED BY <1>t, <1>same, <2>1, FewerLocks
<1> QED BY <1>1, <1>2, <1>3, <1>4, <1>5

\* A restarted server is in its initial state again, the history apart.
LEMMA RestartInv ==
  ASSUME LeaseInv, Restart
  PROVE  LeaseInv'
<1>1. TypeOK'
  BY LimitsAssumption DEF LeaseInv, TypeOK, Restart, ClientRec
<1> QED BY <1>1
  DEF LeaseInv, Restart, CountersAhead, OneLeasePerClient, OpensHaveLease, clientConfirmed,
      UnconfirmedHoldsNothing, StateidsNameOneThing, RangesCompatible, NoLock

\* Every step of the server keeps LeaseInv.
LEMMA StepLease == LeaseInv /\ [Next]_vars => LeaseInv'
<1> SUFFICES ASSUME LeaseInv, [Next]_vars PROVE LeaseInv'
  OBVIOUS
<1>1. CASE UNCHANGED vars
  BY <1>1 DEF vars, LeaseInv, TypeOK, CountersAhead, OneLeasePerClient, OpensHaveLease,
      clientConfirmed, UnconfirmedHoldsNothing, StateidsNameOneThing, RangesCompatible
<1>2. CASE Next
  BY <1>2, SetClientidInv, ConfirmInv, OpensInv, LocksInv, RestartInv DEF Next
<1> QED BY <1>1, <1>2

\* The tables of the NFSv4 server satisfy the inductive invariant in every
\* reachable state, for any number of clients, owners, files and threads.
THEOREM LeaseInvariance == Spec => []LeaseInv
  BY InitLease, StepLease, PTL DEF Spec

\* The lease tables are well formed: one confirmed lease per client string, no
\* open without a confirmed lease (OPEN excludes SETCLIENTID_CONFIRM), nothing
\* held by an unconfirmed clientid, although LOCK checks its lease too early.
THEOREM LeasesSound == Spec => [](OneLeasePerClient /\ OpensHaveLease /\ UnconfirmedHoldsNothing)
<1>1. LeaseInv => OneLeasePerClient /\ OpensHaveLease /\ UnconfirmedHoldsNothing
  BY DEF LeaseInv
<1> QED BY <1>1, LeaseInvariance, PTL

\* A stateid of OPEN or LOCK names one open or one lock state, and an owner has
\* at most one of each per file.
THEOREM StateidsUnique == Spec => []StateidsNameOneThing
<1>1. LeaseInv => StateidsNameOneThing
  BY DEF LeaseInv
<1> QED BY <1>1, LeaseInvariance, PTL

\* If no client sends a range that reaches past the largest offset, LOCK never
\* lets two lock-owners hold a byte that one of them has locked for writing.
THEOREM LocksAreExclusive == ASSUME NoWrap PROVE Spec => []LocksExclude
<1>1. LeaseInv => LocksExclude
  <2> SUFFICES ASSUME LeaseInv, NEW L \in m_locks, NEW M \in m_locks, L.file = M.file,
                      <<L.clientid, L.owner>> # <<M.clientid, M.owner>>,
                      NEW p \in L.ranges, NEW q \in M.ranges,
                      p.type = "WRITE" \/ q.type = "WRITE", NEW x \in Bytes(p.rg), x \in Bytes(q.rg)
               PROVE  FALSE
    BY DEF LocksExclude
  <2>1. p.rg \in Ranges /\ q.rg \in Ranges
    BY DEF LeaseInv, TypeOK, LockState, LockRange
  <2>2. overlaps(p.rg, q.rg)
    BY <2>1, BytesOverlap
  <2> QED BY <2>2 DEF LeaseInv, RangesCompatible
<1> QED BY <1>1, LeaseInvariance, PTL

\* A stateid that was closed, released or purged stays invalid until a restart.
THEOREM RetiredStateids == Spec => RetiredStateidsStayDead
<1> DEFINE A == ~Restart =>
                  \A id \in 1..(m_nextState - 1), f \in Files : names(id, f)' => names(id, f)
<1>1. LeaseInv /\ [Next]_vars => [A]_vars
  <2> SUFFICES ASSUME LeaseInv, Next, ~Restart, NEW id \in 1..(m_nextState - 1),
                      NEW f \in Files, NEW s \in m_opens' \cup m_locks', s.id = id, s.file = f
               PROVE  \E u \in m_opens \cup m_locks : u.id = id /\ u.file = f
    BY DEF names
  <2>0. /\ m_nextState \in 1..(MaxState + 1) /\ m_opens \in SUBSET OpenState
        /\ m_locks \in SUBSET LockState /\ MaxState \in Nat /\ id # m_nextState
    BY LimitsAssumption DEF LeaseInv, TypeOK
  <2>1. CASE \E name \in ClientNames, v \in Verifiers : SetClientid(name, v)
    BY <2>1 DEF SetClientid
  <2>2. CASE \E rec \in m_clients : SetClientidConfirm(rec)
    BY <2>2 DEF SetClientidConfirm, purgeClientState
  <2>3. ASSUME NEW k \in ClientIds, NEW w \in Owners, NEW h \in Files, NEW acc \in SUBSET Bits,
               NEW den \in SUBSET Bits, Open(k, w, h, acc, den)
        PROVE  \E u \in m_opens \cup m_locks : u.id = id /\ u.file = f
    <3>1. CASE \E o \in ownersOpen(k, w, h) : Upgrade(o, acc, den)
      BY <2>0, <2>3, <3>1 DEF Open, Upgrade, ownersOpen, OpenState
    <3>2. CASE NewOpen(k, w, h, acc, den)
      BY <2>0, <2>3, <3>2 DEF Open, NewOpen
    <3> QED BY <2>3, <3>1, <3>2 DEF Open
  <2>4. CASE \E o \in m_opens : Close(o) \/ OpenConfirm(o)
    BY <2>4 DEF Close, OpenConfirm
  <2>5. CASE \E o \in m_opens, acc, den \in SUBSET Bits : OpenDowngrade(o, acc, den)
    BY <2>0, <2>5 DEF OpenDowngrade, OpenState
  <2>6. ASSUME NEW k, NEW w, NEW h, NEW r, Acquire(k, w, h, r), UNCHANGED m_opens
        PROVE  \E u \in m_opens \cup m_locks : u.id = id /\ u.file = f
    BY <2>0, <2>6 DEF Acquire, ownersLock, LockState
  <2>7. CASE \E t \in Threads : LockFinish(t)
    BY <2>6, <2>7 DEF LockFinish
  <2>8. CASE \E L \in m_locks, h \in Files, range \in LockRange : LockMore(L, h, range)
    BY <2>6, <2>8 DEF LockMore
  <2>9. CASE \E L \in m_locks, rg \in Ranges : Locku(L, rg)
    BY <2>0, <2>9 DEF Locku, LockState
  <2>10. CASE \E t \in Threads, args \in LockArgs : LockBegin(t, args)
    BY <2>10 DEF LockBegin
  <2>11. CASE \E k \in ClientIds, w \in Owners : ReleaseLockowner(k, w)
    BY <2>11 DEF ReleaseLockowner
  <2> QED BY <2>1, <2>2, <2>3, <2>4, <2>5, <2>7, <2>8, <2>9, <2>10, <2>11 DEF Next
<1> QED BY <1>1, LeaseInvariance, PTL DEF Spec, RetiredStateidsStayDead

=============================================================================
