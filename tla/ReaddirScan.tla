----------------------------- MODULE ReaddirScan -----------------------------
(***************************************************************************)
(* READDIR and READDIRPLUS of both NFS front ends: clients list one live   *)
(* directory page by page while entries come and go.  A page resumes the   *)
(* store's name cursor (readdirPage) from a 64-bit cookie, which is a hash *)
(* of the last name the client got; a bounded cookie->name cache, shared   *)
(* by all threads, turns it back into a name, and a scan of the directory  *)
(* does when the cache has forgotten.                                      *)
(*                                                                         *)
(* Items are numbered in listing order: 1 is ".", 2 is "..", the rest are  *)
(* the possible names.  0 is the start of an NFSv3 listing; NFSv4 has no   *)
(* dot entries and starts after item 2.                                    *)
(***************************************************************************)
EXTENDS Integers, FiniteSets

CONSTANTS
    MaxItem,     \* bound: the last name
    Hash,        \* nameCookie
    Clients,     \* the clients that list the directory
    First,       \* 0: NFSv3, 2: NFSv4
    CK_CACHE_MAX,
    PageSizes,   \* how many entries fit in a reply
    MaxChanges   \* bound: changes of the directory and restarts of the server

Items == 1..MaxItem
Names == 3..MaxItem

ASSUME ItemsAssumption == MaxItem \in Nat /\ MaxItem >= 2 /\ First \in {0, 2}
ASSUME HashAssumption  == Hash \in [Names -> Nat \ (0..2)]
ASSUME CacheAssumption == CK_CACHE_MAX \in Nat /\ MaxChanges \in Nat
ASSUME PagesAssumption == PageSizes \subseteq Nat \ {0}

VARIABLES dir,      \* the names in the directory
          m_ckName, \* the cache: a set of <<cookie, name>>
          scan,     \* of each client: where it is and what it has got
          call,     \* of each client: the READDIR a server thread works on
          changes

rvars == <<dir, m_ckName, scan, call, changes>>

\* `last' is the last item got, `steady' the names that have been there since the
\* scan began, `twice' the items got more than once.
ScanType == [last : 0..MaxItem, got : SUBSET Items, twice : SUBSET Items,
             steady : SUBSET Names, eof : BOOLEAN]
CallType == [busy : BOOLEAN, at : 0..MaxItem, room : Nat, out : SUBSET Items]

TypeOK == /\ dir \subseteq Names
          /\ m_ckName \subseteq {Hash[n] : n \in Names} \X Names
          /\ scan \in [Clients -> ScanType]
          /\ call \in [Clients -> CallType]
          /\ changes \in 0..MaxChanges

-----------------------------------------------------------------------------

NewScan == [last |-> First, got |-> {}, twice |-> {}, steady |-> dir, eof |-> FALSE]
NoCall  == [busy |-> FALSE, at |-> 0, room |-> 0, out |-> {}]

Init == /\ dir \in SUBSET Names
        /\ m_ckName = {}
        /\ scan = [c \in Clients |-> NewScan]
        /\ call = [c \in Clients |-> NoCall]
        /\ changes = 0

\* What the listing holds after item n, in the store's order.
after(n) == {i \in (1..2) \cup dir : i > n}

Least(S) == CHOOSE i \in S : \A j \in S : i <= j

cookieOf(n) == IF n <= 2 THEN n ELSE Hash[n]

\* Bounded: a full cache is emptied.
rememberCookie(cache, n) ==
    {e \in IF Cardinality(cache) >= CK_CACHE_MAX THEN {} ELSE cache : e[1] # Hash[n]}
        \cup {<<Hash[n], n>>}

NoName == -1

\* Mutants: a miss is BAD_COOKIE at once; a miss starts from the first name.
resumeNameNoScan(ck) ==
    LET cached == {e \in m_ckName : e[1] = ck}
    IN  IF cached # {} THEN (CHOOSE e \in cached : TRUE)[2] ELSE NoName

resumeNameAnew(ck) ==
    LET cached == {e \in m_ckName : e[1] = ck}
    IN  IF cached # {} THEN (CHOOSE e \in cached : TRUE)[2] ELSE 2

\* The cache, else the first name of the directory with that cookie.
resumeName(ck) ==
    LET cached  == {e \in m_ckName : e[1] = ck}
        present == {n \in dir : Hash[n] = ck}
    IN  IF cached # {} THEN (CHOOSE e \in cached : TRUE)[2]
        ELSE IF present # {} THEN Least(present)
        ELSE NoName

\* The item a page starts after.
resumeAt(ck) == IF ck <= 2 THEN ck ELSE resumeName(ck)

-----------------------------------------------------------------------------

\* A client asks for the next page; a thread takes the store's mutex shared.  The
\* client starts over when the cookie is refused (BAD_COOKIE).
Readdir(c, size) ==
    LET at == resumeAt(cookieOf(scan[c].last))
    IN  /\ ~call[c].busy
        /\ ~scan[c].eof
        /\ IF at = NoName
           THEN scan' = [scan EXCEPT ![c] = NewScan] /\ UNCHANGED call
           ELSE /\ call' = [call EXCEPT ![c] = [busy |-> TRUE, at |-> at, room |-> size, out |-> {}]]
                /\ UNCHANGED scan
        /\ UNCHANGED <<dir, m_ckName, changes>>

\* The next entry, if it fits in the reply.  Other threads work at the same time.
Entry(c) ==
    LET i == Least(after(call[c].at))
    IN  /\ call[c].busy
        /\ after(call[c].at) # {}
        /\ call[c].room > 0
        /\ m_ckName' = IF i \in Names THEN rememberCookie(m_ckName, i) ELSE m_ckName
        /\ call' = [call EXCEPT ![c].at = i, ![c].room = @ - 1, ![c].out = @ \cup {i}]
        /\ UNCHANGED <<dir, scan, changes>>

\* Mutant: a full reply ends the listing.
ReplyEof(c) ==
    /\ call[c].busy
    /\ after(call[c].at) = {} \/ call[c].room = 0
    /\ scan' = [scan EXCEPT ![c].last = call[c].at,
                            ![c].twice = @ \cup (scan[c].got \cap call[c].out),
                            ![c].got = @ \cup call[c].out,
                            ![c].eof = TRUE]
    /\ call' = [call EXCEPT ![c] = NoCall]
    /\ UNCHANGED <<dir, m_ckName, changes>>

\* The reply: no entry is left, or the next one does not fit.
Reply(c) ==
    /\ call[c].busy
    /\ after(call[c].at) = {} \/ call[c].room = 0
    /\ scan' = [scan EXCEPT ![c].last = call[c].at,
                            ![c].twice = @ \cup (scan[c].got \cap call[c].out),
                            ![c].got = @ \cup call[c].out,
                            ![c].eof = after(call[c].at) = {}]
    /\ call' = [call EXCEPT ![c] = NoCall]
    /\ UNCHANGED <<dir, m_ckName, changes>>

\* Link and unlink in the directory need the store's mutex exclusively.
Change(newdir) ==
    /\ changes < MaxChanges
    /\ \A c \in Clients : ~call[c].busy
    /\ dir' = newdir
    /\ scan' = [c \in Clients |-> [scan[c] EXCEPT !.steady = @ \cap newdir]]
    /\ changes' = changes + 1
    /\ UNCHANGED <<m_ckName, call>>

Link(n)   == n \notin dir /\ Change(dir \cup {n})
Unlink(n) == n \in dir /\ Change(dir \ {n})

\* The server restarts: the cache is gone, and so is every reply under way; the
\* clients ask again from where they are.
Restart == /\ changes < MaxChanges
           /\ changes' = changes + 1
           /\ m_ckName' = {}
           /\ call' = [c \in Clients |-> NoCall]
           /\ UNCHANGED <<dir, scan>>

Ask(c)  == \E size \in PageSizes : Readdir(c, size)
Work(c) == Entry(c) \/ Reply(c)

Next == \/ \E c \in Clients : Ask(c) \/ Work(c)
        \/ \E n \in Names : Link(n) \/ Unlink(n)
        \/ Restart

Spec == Init /\ [][Next]_rvars

\* A client that has not seen the end asks again, and a thread finishes its reply.
FairSpec == Spec /\ \A c \in Clients : WF_rvars(Ask(c)) /\ WF_rvars(Work(c))

-----------------------------------------------------------------------------
(* Properties. *)

\* No two names have one cookie.
NoCollision == \A m, n \in Names : Hash[m] = Hash[n] => m = n

\* Every name that was in the directory during the whole scan has been returned
\* when the listing ends, whatever was added or removed, evicted or restarted.
NothingSkipped ==
    \A c \in Clients : scan[c].eof =>
        scan[c].steady \subseteq scan[c].got /\ {i \in 1..2 : i > First} \subseteq scan[c].got

\* No entry is returned twice in a scan.
NothingTwice == \A c \in Clients : scan[c].twice = {}

\* Every client reaches the end of its listing once the directory stops changing,
\* however the threads evict each other's cookies.
ScansEnd == \A c \in Clients : <>[](scan[c].eof)

-----------------------------------------------------------------------------
(* The inductive invariant of the proofs. *)

\* The cache never lies: it holds a name under that name's cookie.
CacheSound == \A e \in m_ckName : e[2] \in Names /\ e[1] = Hash[e[2]]

\* What a client has is the listing up to its last item: nothing beyond it, and
\* everything steady before it.
ScanInv(c) ==
    LET s == scan[c]
    IN  /\ First <= s.last
        /\ \A i \in s.got : i <= s.last
        /\ \A i \in s.steady \cup (1..2) : First < i /\ i <= s.last => i \in s.got
        /\ s.eof => \A i \in s.steady \cup (1..2) : i <= s.last

\* A reply under way continues exactly there.
CallInv(c) ==
    LET s == scan[c]
        k == call[c]
    IN  k.busy => /\ s.last <= k.at
                  /\ ~s.eof
                  /\ \A i \in k.out : s.last < i /\ i <= k.at
                  /\ \A i \in s.steady \cup (1..2) : s.last < i /\ i <= k.at => i \in k.out

ReaddirInv == /\ TypeOK
              /\ CacheSound
              /\ \A c \in Clients : scan[c].steady \subseteq dir /\ ScanInv(c) /\ CallInv(c)
              /\ NothingTwice
=============================================================================
