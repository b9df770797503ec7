-------------------------- MODULE ReaddirScanProofs --------------------------
(* Theorems about ReaddirScan, for every value of its constants. *)
EXTENDS ReaddirScan, WellFoundedInduction, TLAPS

\* A non-empty set of numbers has a least element, and Least is it.
LEMMA LeastIsMin ==
    ASSUME NEW S \in SUBSET Nat, S # {}
    PROVE  Least(S) \in S /\ \A j \in S : Least(S) <= j
<1>1. PICK x \in S : \A y \in S : ~(<<y, x>> \in OpToRel(<, Nat))
  BY WFMin, NatLessThanWellFounded
<1>2. ASSUME NEW y \in S PROVE x <= y
  <2>1. x \in Nat /\ y \in Nat
    OBVIOUS
  <2>2. ~(y < x)
    BY <1>1, <2>1 DEF OpToRel
  <2> QED BY <2>1, <2>2
<1> QED BY <1>2 DEF Least

\* The next entry of a listing: nothing lies between the cursor and it.
LEMMA NextEntry ==
    ASSUME dir \subseteq Names, NEW n \in 0..MaxItem, after(n) # {}
    PROVE  /\ Least(after(n)) \in (1..2) \cup dir
           /\ Least(after(n)) \in Items
           /\ n < Least(after(n))
           /\ \A i \in (1..2) \cup dir : n < i => Least(after(n)) <= i
<1>0. 1..2 \subseteq Items /\ dir \subseteq Items /\ Items \subseteq Nat
  BY ItemsAssumption DEF Names, Items
<1>1. after(n) \subseteq Nat /\ after(n) \subseteq Items
  BY <1>0 DEF after
<1>2. Least(after(n)) \in after(n) /\ \A j \in after(n) : Least(after(n)) <= j
  BY <1>1, LeastIsMin
<1> QED BY <1>1, <1>2 DEF after

\* A cookie stands for the name it was made from: if hashes do not collide, a
\* page that is not refused resumes exactly after the client's last item.
LEMMA ResumesInPlace ==
    ASSUME NoCollision, CacheSound, dir \subseteq Names, NEW n \in 0..MaxItem,
           resumeAt(cookieOf(n)) # NoName
    PROVE  resumeAt(cookieOf(n)) = n
<1>1. CASE n <= 2
  BY <1>1 DEF cookieOf, resumeAt
<1>2. CASE ~(n <= 2)
  <2>1. n \in Names /\ Hash[n] \in Nat /\ ~(Hash[n] <= 2)
    BY <1>2, HashAssumption, ItemsAssumption DEF Names
  <2>2. resumeAt(cookieOf(n)) = resumeName(Hash[n])
    BY <1>2, <2>1 DEF cookieOf, resumeAt
  <2> DEFINE cached  == {e \in m_ckName : e[1] = Hash[n]}
             present == {m \in dir : Hash[m] = Hash[n]}
  <2>3. CASE cached # {}
    <3>1. (CHOOSE e \in cached : TRUE) \in cached
      BY <2>3
    <3>2. \A e \in cached : e[2] = n
      BY <2>1 DEF CacheSound, NoCollision
    <3>3. (CHOOSE e \in cached : TRUE)[2] = n
      BY <3>1, <3>2
    <3> QED BY <2>2, <2>3, <3>3 DEF resumeName
  <2>4. CASE cached = {} /\ present # {}
    <3>1. present \subseteq Nat
      <4>1. Names \subseteq Nat
        BY ItemsAssumption DEF Names
      <4> QED BY <4>1
    <3> HIDE DEF present
    <3>2. Least(present) \in present
      BY <2>4, <3>1, LeastIsMin
    <3> USE DEF present
    <3>3. Least(present) = n
      BY <2>1, <3>2 DEF NoCollision
    <3> QED BY <2>2, <2>4, <3>3 DEF resumeName
  <2>5. CASE cached = {} /\ present = {}
    BY <2>2, <2>5 DEF resumeName
  <2> QED BY <2>3, <2>4, <2>5
<1> QED BY <1>1, <1>2

\* Remembering keeps the cache sound.
LEMMA RememberSound ==
    ASSUME CacheSound, m_ckName \subseteq {Hash[m] : m \in Names} \X Names, NEW n \in Names
    PROVE  /\ rememberCookie(m_ckName, n) \subseteq {Hash[m] : m \in Names} \X Names
           /\ \A e \in rememberCookie(m_ckName, n) : e[2] \in Names /\ e[1] = Hash[e[2]]
  BY DEF rememberCookie, CacheSound

\* A scan that starts over satisfies the invariant.
LEMMA NewScanSound ==
    ASSUME dir \subseteq Names
    PROVE  /\ NewScan \in ScanType
           /\ NewScan.last = First /\ NewScan.got = {} /\ NewScan.twice = {}
           /\ NewScan.steady = dir /\ NewScan.eof = FALSE
           /\ \A i \in dir \cup (1..2) : ~(First < i /\ i <= First)
<1>1. \A i \in dir \cup (1..2) : i \in Int
  BY DEF Names
<1>2. First \in Int
  BY ItemsAssumption
<1>3. \A i \in dir \cup (1..2) : ~(First < i /\ i <= First)
  BY <1>1, <1>2
<1> QED BY <1>3, ItemsAssumption DEF NewScan, ScanType

\* The invariant holds at the start.
LEMMA InitInv == Init => ReaddirInv
<1> SUFFICES ASSUME Init PROVE ReaddirInv
  OBVIOUS
<1>1. dir \subseteq Names
  BY DEF Init
<1>2. TypeOK
  <2>1. NoCall \in CallType
    BY ItemsAssumption DEF NoCall, CallType
  <2>2. scan \in [Clients -> ScanType] /\ call \in [Clients -> CallType]
    BY <1>1, <2>1, NewScanSound DEF Init
  <2>3. changes \in 0..MaxChanges
    BY CacheAssumption DEF Init
  <2> QED BY <1>1, <2>2, <2>3 DEF Init, TypeOK
<1>3. CacheSound
  BY DEF Init, CacheSound
<1>4. ASSUME NEW c \in Clients
      PROVE  scan[c].steady \subseteq dir /\ ScanInv(c) /\ CallInv(c) /\ scan[c].twice = {}
  <2>1. scan[c] = NewScan /\ ~call[c].busy
    BY DEF Init, NoCall
  <2>2. First <= First
    BY ItemsAssumption
  <2> QED BY <2>1, <2>2, <1>1, NewScanSound DEF ScanInv, CallInv
<1> QED BY <1>2, <1>3, <1>4 DEF ReaddirInv, NothingTwice

\* Every step keeps it.
LEMMA StepInv ==
    ASSUME NoCollision, ReaddirInv, [Next]_rvars
    PROVE  ReaddirInv'
<1> USE DEF ReaddirInv
<1>0. /\ dir \subseteq Names /\ CacheSound /\ TypeOK
      /\ \A c \in Clients : scan[c] \in ScanType /\ call[c] \in CallType
  BY DEF TypeOK
<1>1. ASSUME NEW c \in Clients, NEW size \in PageSizes, Readdir(c, size)
      PROVE  ReaddirInv'
  <2> DEFINE at == resumeAt(cookieOf(scan[c].last))
  <2>0. scan[c].last \in 0..MaxItem /\ size \in Nat
    BY <1>0, PagesAssumption DEF ScanType
  <2>1. CASE at = NoName
    <3>1. scan' = [scan EXCEPT ![c] = NewScan] /\ UNCHANGED <<call, dir, m_ckName, changes>>
      BY <1>1, <2>1 DEF Readdir
    <3>2. scan'[c] = NewScan /\ \A d \in Clients \ {c} : scan'[d] = scan[d]
      BY <3>1 DEF TypeOK
    <3>3. TypeOK'
      BY <3>1, <1>0, NewScanSound DEF TypeOK
    <3>4. ~call[c].busy
      BY <1>1 DEF Readdir
    <3>5. ASSUME NEW d \in Clients
          PROVE  scan'[d].steady \subseteq dir' /\ ScanInv(d)' /\ CallInv(d)' /\ scan'[d].twice = {}
      <4>1. CASE d = c
        <5>1. First <= First
          BY ItemsAssumption
        <5>2. scan'[c] = NewScan /\ call'[c] = call[c] /\ dir' = dir
          BY <3>1, <3>2
        <5> QED BY <4>1, <5>1, <5>2, <3>4, <1>0, NewScanSound DEF ScanInv, CallInv
      <4>2. CASE d # c
        BY <4>2, <3>1, <3>2 DEF ScanInv, CallInv, NothingTwice
      <4> QED BY <4>1, <4>2
    <3> QED BY <3>1, <3>3, <3>5 DEF CacheSound, NothingTwice
  <2>2. CASE at # NoName
    <3>1. at = scan[c].last
      BY <2>0, <2>2, <1>0, ResumesInPlace
    <3> DEFINE k == [busy |-> TRUE, at |-> scan[c].last, room |-> size, out |-> {}]
    <3>2. /\ call' = [call EXCEPT ![c] = k]
          /\ UNCHANGED <<scan, dir, m_ckName, changes>>
          /\ scan[c].eof = FALSE
      <4>1. ~scan[c].eof
        BY <1>1 DEF Readdir
      <4>2. scan[c].eof \in BOOLEAN
        BY <1>0 DEF ScanType
      <4> QED BY <1>1, <2>2, <3>1, <4>1, <4>2 DEF Readdir
    <3>3. k \in CallType
      BY <2>0 DEF CallType
    <3>4. call'[c] = k /\ \A d \in Clients \ {c} : call'[d] = call[d]
      BY <3>2 DEF TypeOK
    <3>5. TypeOK'
      BY <3>2, <3>3 DEF TypeOK
    <3>6. ASSUME NEW d \in Clients
          PROVE  scan'[d].steady \subseteq dir' /\ ScanInv(d)' /\ CallInv(d)' /\ scan'[d].twice = {}
      <4>0. ScanInv(d)' /\ scan'[d].steady \subseteq dir' /\ scan'[d].twice = {}
        BY <3>2 DEF ScanInv, NothingTwice
      <4>1. CASE d = c
        <5>0. scan[c].steady \subseteq Names /\ Names \subseteq Int
          <6>1. scan[c].steady \subseteq Names
            BY <1>0 DEF ScanType
          <6>2. Names \subseteq Int
            BY ItemsAssumption DEF Names
          <6> QED BY <6>1, <6>2
        <5>1. \A i \in scan[c].steady \cup (1..2) : ~(scan[c].last < i /\ i <= scan[c].last)
          <6>0. 1..2 \subseteq Int
            OBVIOUS
          <6>1. \A i \in scan[c].steady \cup (1..2) : i \in Int
            BY <5>0, <6>0, Zenon
          <6>2. scan[c].last \in Int
            BY <2>0
          <6> QED BY <6>1, <6>2
        <5>2. scan'[c] = scan[c] /\ scan[c].last <= scan[c].last
          BY <3>2, <2>0
        <5>3. /\ k.busy = TRUE /\ k.at = scan[c].last /\ k.out = {}
              /\ call'[c] = k /\ scan[c].eof = FALSE
          BY <3>2, <3>4
        <5> HIDE DEF k
        <5>4. CallInv(c)'
          BY <5>1, <5>2, <5>3 DEF CallInv
        <5> QED BY <4>0, <4>1, <5>4
      <4>2. CASE d # c
        BY <4>0, <4>2, <3>2, <3>4 DEF CallInv
      <4> QED BY <4>1, <4>2
    <3> QED BY <3>2, <3>5, <3>6 DEF CacheSound, NothingTwice
  <2> QED BY <2>1, <2>2
<1>2. ASSUME NEW c \in Clients, Entry(c)
      PROVE  ReaddirInv'
  <2> DEFINE i == Least(after(call[c].at))
  <2>1. call[c].at \in 0..MaxItem /\ call[c].room \in Nat /\ call[c].out \subseteq Items
    BY <1>0 DEF CallType
  <2>2. /\ call[c].busy /\ call[c].room > 0 /\ after(call[c].at) # {}
        /\ m_ckName' = IF i \in Names THEN rememberCookie(m_ckName, i) ELSE m_ckName
        /\ call' = [call EXCEPT ![c].at = i, ![c].room = @ - 1, ![c].out = @ \cup {i}]
        /\ UNCHANGED <<dir, scan, changes>>
    BY <1>2 DEF Entry
  <2>3. /\ i \in (1..2) \cup dir /\ i \in Items /\ call[c].at < i
        /\ \A j \in (1..2) \cup dir : call[c].at < j => i <= j
    BY <2>1, <2>2, <1>0, NextEntry
  <2> HIDE DEF i
  <2>4. /\ call'[c].at = i /\ call'[c].room = call[c].room - 1
        /\ call'[c].out = call[c].out \cup {i} /\ call'[c].busy = call[c].busy
        /\ call'[c] = [busy |-> call[c].busy, at |-> i, room |-> call[c].room - 1,
                       out |-> call[c].out \cup {i}]
        /\ \A d \in Clients \ {c} : call'[d] = call[d]
    BY <2>2, <1>0 DEF TypeOK, CallType
  <2>5. m_ckName' \subseteq {Hash[m] : m \in Names} \X Names /\ CacheSound'
    BY <2>2, <1>0, RememberSound DEF TypeOK, CacheSound
  <2>6. TypeOK'
    <3>1. call'[c] \in CallType
      <4>1. call[c].busy \in BOOLEAN
        BY <1>0 DEF CallType
      <4>2. i \in 0..MaxItem /\ call[c].room - 1 \in Nat /\ call[c].out \cup {i} \subseteq Items
        BY <2>1, <2>2, <2>3, ItemsAssumption DEF Items
      <4> QED BY <2>4, <4>1, <4>2 DEF CallType
    <3>2. call' \in [Clients -> CallType]
      BY <3>1, <2>2, <2>4, <1>0 DEF TypeOK
    <3> QED BY <3>2, <2>2, <2>5 DEF TypeOK
  <2>7. CallInv(c)'
    <3>1. /\ scan[c].last \in 0..MaxItem /\ scan[c].last <= call[c].at /\ ~scan[c].eof
          /\ \A j \in call[c].out : scan[c].last < j /\ j <= call[c].at
          /\ \A j \in scan[c].steady \cup (1..2) :
                scan[c].last < j /\ j <= call[c].at => j \in call[c].out
          /\ scan[c].steady \subseteq dir
      BY <2>2, <1>0 DEF CallInv, ScanType
    <3>2. scan'[c] = scan[c]
      BY <2>2
    <3>3. i \in Nat /\ dir \subseteq Nat /\ call[c].out \subseteq Nat
      BY <2>1, <2>3, <1>0, ItemsAssumption DEF Items, Names
    <3>4. ASSUME NEW j \in scan[c].steady \cup (1..2), scan[c].last < j, j <= i
          PROVE  j \in call[c].out \cup {i}
      <4>0. scan[c].steady \subseteq dir /\ dir \subseteq Nat /\ 1..2 \subseteq Nat
        BY <3>1, <3>3
      <4>1. j \in (1..2) \cup dir /\ j \in Nat
        BY <4>0, Zenon
      <4>2. CASE j <= call[c].at
        BY <4>2, <3>1, <3>4
      <4>3. CASE ~(j <= call[c].at)
        BY <4>1, <4>3, <3>3, <3>4, <2>1, <2>3
      <4> QED BY <4>2, <4>3
    <3>5. \A j \in call[c].out \cup {i} : scan[c].last < j /\ j <= i
      BY <3>1, <3>3, <2>1, <2>3
    <3>6. scan[c].last <= i
      BY <3>1, <3>3, <2>1, <2>3
    <3> QED BY <3>1, <3>2, <3>4, <3>5, <3>6, <2>4 DEF CallInv
  <2>8. ASSUME NEW d \in Clients
        PROVE  scan'[d].steady \subseteq dir' /\ ScanInv(d)' /\ CallInv(d)' /\ scan'[d].twice = {}
    <3>0. ScanInv(d)' /\ scan'[d].steady \subseteq dir' /\ scan'[d].twice = {}
      BY <2>2 DEF ScanInv, NothingTwice
    <3>1. CASE d = c
      BY <3>0, <3>1, <2>7
    <3>2. CASE d # c
      BY <3>0, <3>2, <2>2, <2>4 DEF CallInv
    <3> QED BY <3>1, <3>2
  <2> QED BY <2>5, <2>6, <2>8 DEF NothingTwice
<1>3. ASSUME NEW c \in Clients, Reply(c)
      PROVE  ReaddirInv'
  <2> DEFINE s == scan[c]
             k == call[c]
  <2>1. /\ k.busy
        /\ after(k.at) = {} \/ k.room = 0
        /\ scan' = [scan EXCEPT ![c].last = k.at, ![c].twice = @ \cup (s.got \cap k.out),
                                ![c].got = @ \cup k.out, ![c].eof = after(k.at) = {}]
        /\ call' = [call EXCEPT ![c] = NoCall]
        /\ UNCHANGED <<dir, m_ckName, changes>>
    BY <1>3 DEF Reply
  <2>2. /\ s \in ScanType /\ k \in CallType
        /\ s.last \in 0..MaxItem /\ k.at \in 0..MaxItem /\ s.got \subseteq Items /\ k.out \subseteq Items
        /\ s.twice = {} /\ s.steady \subseteq dir /\ s.steady \subseteq Names
    BY <1>0 DEF ScanType, CallType, NothingTwice
  <2>3. /\ s.last <= k.at /\ ~s.eof
        /\ \A j \in k.out : s.last < j /\ j <= k.at
        /\ \A j \in s.steady \cup (1..2) : s.last < j /\ j <= k.at => j \in k.out
    BY <2>1 DEF CallInv
  <2>4. /\ First <= s.last
        /\ \A j \in s.got : j <= s.last
        /\ \A j \in s.steady \cup (1..2) : First < j /\ j <= s.last => j \in s.got
    BY DEF ScanInv
  <2>5. s.got \cap k.out = {}
    BY <2>2, <2>3, <2>4, ItemsAssumption DEF Items
  <2>6. /\ scan'[c].last = k.at /\ scan'[c].got = s.got \cup k.out /\ scan'[c].twice = {}
        /\ scan'[c].steady = s.steady /\ scan'[c].eof = (after(k.at) = {})
        /\ scan'[c] = [last |-> k.at, got |-> s.got \cup k.out, twice |-> {},
                       steady |-> s.steady, eof |-> (after(k.at) = {})]
        /\ \A d \in Clients \ {c} : scan'[d] = scan[d]
    BY <2>1, <2>2, <2>5 DEF TypeOK, ScanType
  <2>7. /\ call'[c] = NoCall /\ NoCall \in CallType /\ ~NoCall.busy
        /\ \A d \in Clients \ {c} : call'[d] = call[d]
    BY <2>1, ItemsAssumption DEF TypeOK, NoCall, CallType
  <2>8. TypeOK'
    <3>1. scan'[c] \in ScanType
      BY <2>2, <2>6 DEF ScanType
    <3>2. scan' \in [Clients -> ScanType]
      BY <3>1, <2>1, <2>6 DEF TypeOK
    <3>3. call' \in [Clients -> CallType]
      BY <2>1, <2>7 DEF TypeOK
    <3> QED BY <3>2, <3>3, <2>1 DEF TypeOK
  <2>9. ScanInv(c)'
    <3>1. First <= k.at
      BY <2>2, <2>3, <2>4, ItemsAssumption
    <3>2. \A j \in s.got \cup k.out : j <= k.at
      BY <2>2, <2>3, <2>4 DEF Items
    <3>3. \A j \in s.steady \cup (1..2) : First < j /\ j <= k.at => j \in s.got \cup k.out
      BY <2>2, <2>3, <2>4 DEF Names
    <3>4. after(k.at) = {} => \A j \in s.steady \cup (1..2) : j <= k.at
      BY <2>2 DEF after, Names
    <3> QED BY <3>1, <3>2, <3>3, <3>4, <2>6 DEF ScanInv
  <2>10. ASSUME NEW d \in Clients
         PROVE  scan'[d].steady \subseteq dir' /\ ScanInv(d)' /\ CallInv(d)' /\ scan'[d].twice = {}
    <3>1. CASE d = c
      BY <3>1, <2>1, <2>2, <2>6, <2>7, <2>9, ZenonT(60) DEF CallInv
    <3>2. CASE d # c
      <4>1. scan'[d] = scan[d] /\ call'[d] = call[d] /\ dir' = dir
        BY <3>2, <2>1, <2>6, <2>7
      <4>2. scan[d].steady \subseteq dir /\ ScanInv(d) /\ CallInv(d) /\ scan[d].twice = {}
        BY DEF NothingTwice
      <4> QED BY <4>1, <4>2 DEF ScanInv, CallInv
    <3> QED BY <3>1, <3>2
  <2> QED BY <2>1, <2>8, <2>10 DEF CacheSound, NothingTwice
<1>4. ASSUME NEW newdir \in SUBSET Names, Change(newdir)
      PROVE  ReaddirInv'
  <2>1. /\ dir' = newdir /\ UNCHANGED <<m_ckName, call>>
        /\ scan' = [c \in Clients |-> [scan[c] EXCEPT !.steady = @ \cap newdir]]
        /\ changes < MaxChanges /\ changes' = changes + 1
        /\ \A c \in Clients : ~call[c].busy
    BY <1>4 DEF Change
  <2>2. ASSUME NEW c \in Clients
        PROVE  /\ scan'[c].last = scan[c].last /\ scan'[c].got = scan[c].got
               /\ scan'[c].twice = scan[c].twice /\ scan'[c].eof = scan[c].eof
               /\ scan'[c].steady = scan[c].steady \cap newdir
               /\ scan'[c] \in ScanType
    BY <2>1, <1>0 DEF ScanType
  <2>3. TypeOK'
    <3>1. scan' \in [Clients -> ScanType]
      BY <2>1, <2>2
    <3>2. changes' \in 0..MaxChanges
      BY <2>1, CacheAssumption DEF TypeOK
    <3> QED BY <3>1, <3>2, <2>1 DEF TypeOK
  <2>4. ASSUME NEW c \in Clients
        PROVE  scan'[c].steady \subseteq dir' /\ ScanInv(c)' /\ CallInv(c)' /\ scan'[c].twice = {}
    BY <2>1, <2>2 DEF ScanInv, CallInv, NothingTwice
  <2> QED BY <2>1, <2>3, <2>4 DEF CacheSound, NothingTwice
<1>5. CASE Restart
  <2>1. /\ m_ckName' = {} /\ call' = [c \in Clients |-> NoCall] /\ UNCHANGED <<dir, scan>>
        /\ changes < MaxChanges /\ changes' = changes + 1
    BY <1>5 DEF Restart
  <2>2. NoCall \in CallType /\ ~NoCall.busy
    BY ItemsAssumption DEF NoCall, CallType
  <2>3. TypeOK'
    <3>1. changes' \in 0..MaxChanges
      BY <2>1, CacheAssumption DEF TypeOK
    <3> QED BY <2>1, <2>2, <3>1 DEF TypeOK
  <2>4. ASSUME NEW c \in Clients
        PROVE  scan'[c].steady \subseteq dir' /\ ScanInv(c)' /\ CallInv(c)' /\ scan'[c].twice = {}
    BY <2>1, <2>2 DEF ScanInv, CallInv, NothingTwice
  <2> QED BY <2>1, <2>3, <2>4 DEF CacheSound, NothingTwice
<1>6. CASE UNCHANGED rvars
  BY <1>6 DEF rvars, TypeOK, CacheSound, ScanInv, CallInv, NothingTwice
<1>7. ASSUME NEW n \in Names, Link(n) \/ Unlink(n)
      PROVE  ReaddirInv'
  <2>1. dir \cup {n} \in SUBSET Names /\ dir \ {n} \in SUBSET Names
    BY <1>0
  <2> QED BY <1>4, <1>7, <2>1 DEF Link, Unlink
<1> QED BY <1>1, <1>2, <1>3, <1>5, <1>6, <1>7 DEF Next, Ask, Work

\* If no two names share a cookie, the listing invariant holds in every state:
\* the name cursor survives evictions, restarts and changes of the directory.
THEOREM ReaddirInvariance == ASSUME NoCollision PROVE Spec => []ReaddirInv
<1>1. ReaddirInv /\ [Next]_rvars => ReaddirInv'
  BY StepInv
<1> QED BY InitInv, <1>1, PTL DEF Spec

\* Then a finished listing has returned every name that was there throughout.
THEOREM ListingsComplete == ASSUME NoCollision PROVE Spec => []NothingSkipped
<1>1. ReaddirInv => NothingSkipped
  <2> SUFFICES ASSUME ReaddirInv, NEW c \in Clients, scan[c].eof
               PROVE  /\ scan[c].steady \subseteq scan[c].got
                      /\ {i \in 1..2 : i > First} \subseteq scan[c].got
    BY DEF NothingSkipped
  <2>1. ScanInv(c) /\ scan[c].steady \subseteq Names
    BY DEF ReaddirInv, TypeOK
  <2> QED BY <2>1, ItemsAssumption DEF ScanInv, Names
<1> QED BY <1>1, ReaddirInvariance, PTL

\* And nothing is returned twice.
THEOREM ListingsWithoutDuplicates == ASSUME NoCollision PROVE Spec => []NothingTwice
<1>1. ReaddirInv => NothingTwice
  BY DEF ReaddirInv
<1> QED BY <1>1, ReaddirInvariance, PTL
=============================================================================
