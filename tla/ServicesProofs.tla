---------------------------- MODULE ServicesProofs ----------------------------
(***************************************************************************)
(* The host process, for every command line, any number of io threads,     *)
(* connections and console clients: who is inside the store, whose handle  *)
(* a COMPOUND uses, what is cut and what is left when main() returns.      *)
(*                                                                         *)
(* Three inductive invariants: Types; Guard, that whoever is inside the    *)
(* store holds its mutex; and Shutdown, that a thread is alive only while  *)
(* main() has still to join it.                                            *)
(***************************************************************************)
EXTENDS Services, FiniteSetTheorems, FunctionTheorems, WellFoundedInduction, TLAPS

IoPcs   == {"off", "idle", "want", "in", "reply"}
MainPcs == {"start", "access", "test", "pausing", "paused", "stop", "joinIo", "joinServe",
            "joinSess", "exited"}
SessPcs == {"free", "recv", "want", "eval", "send", "close", "closed", "done"}
ConnSts == {"none", "idle", "sent", "serving", "lost", "cut"}

Plugins == {"bigtree", "luactl", "nfsv3", "nfsv4", "null", "perf"}
Nfs     == {"nfsv3", "nfsv4"}

IoT   == [pc : IoPcs, conn : Conns \cup {NoConn}, op : Procs \cup {"NULL"}, left : Nat]
ConnT == [st : ConnSts, fd : {0} \cup Fds]
SessT == [pc : SessPcs, fd : {0} \cup Fds, listed : BOOLEAN, shut : BOOLEAN]

\* The shapes of the variables, TypeOK included.
Types ==
    /\ loaded \in Loads
    /\ main \in [pc : MainPcs, left : Seq(Plugins)]
    /\ g_stop \in BOOLEAN
    /\ m_started \in Seq(Plugins)
    /\ up \subseteq Plugins
    /\ writer \in {Nobody, Main} \cup Io \cup Sess
    /\ readers \subseteq {Main} \cup Io
    /\ io \in [Io -> IoT]
    /\ t_fh \in [Io -> Conns \cup {NoConn}]
    /\ conn \in [Conns -> ConnT]
    /\ serve \in [pc : {"off", "accept", "register", "ended"}, new : Sess \cup {NoConn}]
    /\ sess \in [Sess -> SessT]
    /\ stimuli \in 0..MaxStimuli

\* A thread that serves a request has one, and main() works on a service that is there.
Serves ==
    /\ main.pc \in {"access", "joinIo", "joinServe", "joinSess"} => main.left # <<>>
    /\ \A t \in Io : io[t].pc \in {"want", "in", "reply"} => io[t].conn \in Conns

-----------------------------------------------------------------------------
(* The store's mutex.                                                         *)

\* Whoever is inside the store holds the mutex in the mode it asked for, and a writer
\* excludes the readers.
Guard ==
    /\ \A t \in Io : io[t].pc = "in" => IF isMutating(io[t].op) THEN writer = t ELSE t \in readers
    /\ \A x \in Sess : sess[x].pc \in {"eval", "send"} => writer = x
    /\ main.pc = "access" =>
           /\ startAccess(Head(main.left)) = "exclusive" => writer = Main
           /\ startAccess(Head(main.left)) = "shared" => Main \in readers
    /\ writer # Nobody => readers = {}

-----------------------------------------------------------------------------
(* Shutdown.                                                                  *)

Elems(s) == {s[i] : i \in 1..Len(s)}

\* Where a service comes in the order of names.
Rank == [s \in Plugins |-> CASE s = "bigtree" -> 1 [] s = "luactl" -> 2 [] s = "nfsv3" -> 3
                             [] s = "nfsv4" -> 4 [] s = "null" -> 5 [] OTHER -> 6]

Increasing(s) == \A i, j \in 1..Len(s) : i < j => Rank[s[i]] < Rank[s[j]]
Decreasing(s) == \A i, j \in 1..Len(s) : i < j => Rank[s[i]] > Rank[s[j]]

Starting == main.pc \in {"start", "access"}
Running == main.pc \in {"test", "pausing", "paused"}
Stopping == main.pc \in {"stop", "joinIo", "joinServe", "joinSess", "exited"}

\* The services main() has started and not yet stopped and joined.
Pending == IF Stopping THEN Elems(main.left) ELSE Elems(m_started)

\* Services start in the order of their names and stop in the reverse order.
Ordered ==
    /\ Elems(main.left) \subseteq loaded
    /\ Elems(m_started) \subseteq loaded
    /\ Increasing(m_started)
    /\ Starting => /\ Increasing(main.left)
                   /\ \A a \in Elems(m_started), b \in Elems(main.left) : Rank[a] < Rank[b]
    /\ Stopping => Decreasing(main.left)
    /\ main.pc = "exited" => main.left = <<>>

\* While main() joins a service's threads, that service is next in line and down.
Joining ==
    /\ main.pc = "joinIo" => Head(main.left) \in Nfs \ up
    /\ main.pc \in {"joinServe", "joinSess"} => Head(main.left) \in {"luactl"} \ up
    /\ main.pc = "joinSess" => serve.pc = "ended"

\* A service is up, or has a thread, only while it is pending.
Alive ==
    /\ up \subseteq Pending
    /\ (\E t \in Io : io[t].pc # "off") => Nfs \cap Pending # {}
    /\ "luactl" \notin Elems(m_started) => serve.pc = "off"
    /\ serve.pc \in {"accept", "register"} \/ (\E x \in Sess : sess[x].pc # "free")
           => "luactl" \in Pending

\* A console client that has a thread is listed, or about to be.
Listed == \A x \in Sess : sess[x].pc # "free" => sess[x].listed \/ serve = [pc |-> "register", new |-> x]

\* Connections are cut only when the front ends are down for good.
CutLate == \A c \in Conns : conn[c].st = "cut" => Stopping /\ ~nfsUp

Shutdown == Ordered /\ Joining /\ Alive /\ Listed /\ CutLate

-----------------------------------------------------------------------------
(* Descriptors.                                                               *)

\* There is a free descriptor whenever some client has none: descriptors are shared by no
\* two clients, and there are as many as clients.
LEMMA FreeFd ==
    ASSUME Types, NEW z \in Conns \cup Sess,
           z \in Conns => ~openConn(z), z \in Sess => ~openSess(z)
    PROVE  freeFd \in Fds
<1> DEFINE U == Conns \cup Sess
           O == {c \in Conns : openConn(c)} \cup {x \in Sess : openSess(x)}
           fdOf == [y \in O |-> IF y \in Conns THEN conn[y].fd ELSE sess[y].fd]
           N == Cardinality(U)
<1>1. IsFiniteSet(U) /\ N \in Nat
  BY ClientsAssumption, FS_Union, FS_CardinalityType
<1>2. O \in SUBSET U /\ O # U
  BY ClientsAssumption
<1>3. IsFiniteSet(O) /\ Cardinality(O) \in Nat /\ Cardinality(O) < N
  <2> HIDE DEF O, U
  <2>1. IsFiniteSet(O) /\ Cardinality(O) <= N /\ (N = Cardinality(O) => U = O)
    BY <1>1, <1>2, FS_Subset DEF N
  <2>2. Cardinality(O) \in Nat
    BY <2>1, FS_CardinalityType
  <2> QED BY <2>1, <2>2, <1>1, <1>2
<1>4. usedFds = {fdOf[y] : y \in O}
  BY ClientsAssumption DEF usedFds
<1>5. IsFiniteSet(usedFds) /\ Cardinality(usedFds) <= Cardinality(O)
  <2>1. fdOf \in Surjection(O, usedFds)
    <3> HIDE DEF O
    <3>1. fdOf \in [O -> usedFds]
      BY <1>4
    <3>2. \A t \in usedFds : \E y \in O : fdOf[y] = t
      BY <1>4
    <3> HIDE DEF fdOf
    <3> QED BY <3>1, <3>2 DEF Surjection
  <2> QED
    <3> HIDE DEF O, fdOf
    <3> QED BY <2>1, <1>3, FS_Surjection
<1>6. Cardinality(Fds) = N /\ Fds \subseteq Nat
  <2>1. Fds = 1..N
    BY DEF Fds
  <2>2. Cardinality(1..N) = N
    <3> HIDE DEF N
    <3>1. Cardinality(1..N) = IF 1 > N THEN 0 ELSE N - 1 + 1
      BY <1>1, FS_Interval
    <3> QED BY <3>1, <1>1
  <2> HIDE DEF N
  <2> QED BY <2>1, <2>2, <1>1
<1>7. Fds \ usedFds # {}
  <2> SUFFICES ASSUME Fds \subseteq usedFds PROVE FALSE
    OBVIOUS
  <2> HIDE DEF N, O
  <2>1. Cardinality(Fds) <= Cardinality(usedFds) /\ Cardinality(usedFds) \in Nat
    BY <1>5, FS_Subset, FS_CardinalityType
  <2> QED BY <2>1, <1>1, <1>3, <1>5, <1>6
<1>8. PICK f \in Fds \ usedFds : \A g \in Fds \ usedFds : f <= g
  <2> DEFINE F == Fds \ usedFds
  <2>1. F \subseteq Nat /\ F # {}
    BY <1>6, <1>7
  <2> HIDE DEF F
  <2>2. PICK f \in F : \A g \in F : ~(<<g, f>> \in OpToRel(<, Nat))
    BY <2>1, WFMin, NatLessThanWellFounded
  <2>3. ASSUME NEW g \in F PROVE f <= g
    <3>1. f \in Nat /\ g \in Nat /\ ~(g < f)
      BY <2>1, <2>2 DEF OpToRel
    <3> QED BY <3>1
  <2>4. \E h \in F : \A g \in F : h <= g
    BY <2>3
  <2> QED BY <2>4 DEF F
<1> QED BY <1>8 DEF freeFd

-----------------------------------------------------------------------------
(* Types.                                                                     *)

\* The initial state.
LEMMA InitTypes == Init => Types /\ Serves
<1> SUFFICES ASSUME Init PROVE Types /\ Serves
  OBVIOUS
<1>1. loaded \subseteq Plugins
  BY PluginsAssumption DEF Init, Plugins
<1>2. \A s \in Plugins : named(s) \in Seq(Plugins)
  BY DEF named
<1>3. resolveAll \in Seq(Plugins)
  BY <1>2 DEF resolveAll, Plugins
<1>4. main \in [pc : MainPcs, left : Seq(Plugins)]
  BY <1>3 DEF Init, MainPcs
<1>5. /\ io \in [Io -> IoT]
      /\ Serves
  BY DEF Init, IoT, IoPcs, Serves
<1>6. conn \in [Conns -> ConnT]
  BY DEF Init, ConnT, ConnSts
<1>7. sess \in [Sess -> SessT]
  BY DEF Init, SessT, SessPcs
<1>8. serve \in [pc : {"off", "accept", "register", "ended"}, new : Sess \cup {NoConn}]
  BY DEF Init
<1>9. stimuli \in 0..MaxStimuli /\ m_started \in Seq(Plugins)
  BY BoundsAssumption DEF Init
<1>10. /\ loaded \in Loads /\ g_stop \in BOOLEAN /\ up \subseteq Plugins
       /\ writer \in {Nobody, Main} \cup Io \cup Sess /\ readers \subseteq {Main} \cup Io
       /\ t_fh \in [Io -> Conns \cup {NoConn}]
  BY DEF Init
<1> QED BY <1>4, <1>5, <1>6, <1>7, <1>8, <1>9, <1>10 DEF Types

\* A thread, a connection or a console client moves on.
LEMMA MovesOn ==
    /\ \A r \in IoT, pc \in IoPcs :
           LET q == [r EXCEPT !.pc = pc] IN q \in IoT /\ q.pc = pc /\ q.conn = r.conn /\ q.op = r.op
    /\ \A r \in ConnT, st \in ConnSts :
           LET q == [r EXCEPT !.st = st] IN q \in ConnT /\ q.st = st /\ q.fd = r.fd
    /\ \A r \in SessT, pc \in SessPcs :
           LET q == [r EXCEPT !.pc = pc]
           IN  q \in SessT /\ q.pc = pc /\ q.listed = r.listed /\ q.shut = r.shut /\ q.fd = r.fd
  BY DEF IoT, ConnT, SessT

\* Every step: main()'s.
LEMMA MainTypes == Types /\ Serves /\ (MainNext \/ Signal) => Types' /\ Serves'
<1> SUFFICES ASSUME Types, Serves, MainNext \/ Signal PROVE Types' /\ Serves'
  OBVIOUS
<1>m. \A pc \in {"stop", "test", "pausing", "paused", "exited"}, left \in Seq(Plugins) :
         MainStep(pc, left) => Types' /\ Serves'
  BY DEF Types, Serves, MainStep, MainPcs
<1>e. <<>> \in Seq(Plugins)
  OBVIOUS
<1>h. main.left # <<>> => Head(main.left) \in Plugins /\ Tail(main.left) \in Seq(Plugins)
  BY DEF Types
<1>1. CASE StartAccess
  <2>1. main' \in [pc : MainPcs, left : Seq(Plugins)]
    BY <1>1 DEF Types, StartAccess, MainPcs
  <2>2. writer' \in {Nobody, Main} \cup Io \cup Sess /\ readers' \subseteq {Main} \cup Io
    BY <1>1 DEF Types, StartAccess, lockExclusive, lockShared
  <2> QED BY <1>1, <2>1, <2>2 DEF Types, Serves, StartAccess
<1>2. CASE \E ok \in BOOLEAN : StartService(ok)
  <2> PICK ok \in BOOLEAN : StartService(ok)
    BY <1>2
  <2>1. main' \in [pc : MainPcs, left : Seq(Plugins)]
    BY <1>h DEF StartService, MainPcs
  <2>2. writer' \in {Nobody, Main} \cup Io \cup Sess /\ readers' \subseteq {Main} \cup Io
    BY DEF Types, StartService, unlock
  <2>3. m_started' \in Seq(Plugins) /\ up' \subseteq Plugins
    BY <1>h DEF Types, StartService
  <2>4. /\ io' \in [Io -> IoT]
        /\ Serves'
    <3>1. io' = io \/ io' = [t \in Io |-> [io[t] EXCEPT !.pc = "idle"]]
      BY DEF StartService
    <3>2. main'.pc = "start"
      BY DEF StartService
    <3>3. CASE io' = io
      BY <3>2, <3>3 DEF Types, Serves
    <3>4. CASE io' = [t \in Io |-> [io[t] EXCEPT !.pc = "idle"]]
      <4>1. io' \in [Io -> IoT]
        <5>1. \A t \in Io : [io[t] EXCEPT !.pc = "idle"] \in IoT
          BY MovesOn DEF Types, IoPcs
        <5> QED BY <3>4, <5>1
      <4>2. \A t \in Io : io'[t].pc = "idle"
        BY <3>4, MovesOn DEF Types, IoPcs
      <4> QED BY <3>2, <4>1, <4>2 DEF Serves
    <3> QED BY <3>1, <3>3, <3>4
  <2>5. serve' \in [pc : {"off", "accept", "register", "ended"}, new : Sess \cup {NoConn}]
    BY DEF Types, StartService
  <2> QED BY <2>1, <2>2, <2>3, <2>4, <2>5 DEF Types, StartService
<1>3. CASE Serving
  BY <1>3, <1>m, <1>e DEF Serving
<1>4. CASE Test
  <2>1. stopOrder \in Seq(Plugins)
    BY DEF stopOrder, Reverse, Types
  <2> QED BY <2>1, <1>4, <1>m, <1>e DEF Test
<1>5. CASE Pause \/ Exit
  BY <1>5, <1>m, <1>e DEF Pause, Exit
<1>6. CASE StopService
  <2>1. main' \in [pc : MainPcs, left : Seq(Plugins)]
    BY <1>6, <1>h DEF Types, StopService, MainPcs, Plugins
  <2>2. up' \subseteq Plugins
    BY <1>6 DEF Types, StopService
  <2> QED BY <1>6, <2>1, <2>2 DEF Types, Serves, StopService
<1>7. CASE JoinIo
  <2>1. main' \in [pc : MainPcs, left : Seq(Plugins)]
    BY <1>7, <1>h DEF Serves, JoinIo, NextStop, MainPcs
  <2> QED BY <1>7, <2>1 DEF Types, Serves, JoinIo, NextStop
<1>8. CASE JoinServe
  <2>1. main' \in [pc : MainPcs, left : Seq(Plugins)]
    BY <1>8 DEF Types, JoinServe, MainPcs
  <2>2. /\ conn' \in [Conns -> ConnT]
        /\ sess' \in [Sess -> SessT]
    BY <1>8, ZenonT(60) DEF Types, JoinServe, shutdownFds, ConnT, SessT, ConnSts
  <2> QED BY <1>8, <2>1, <2>2 DEF Types, Serves, JoinServe
<1>9. CASE JoinSess
  <2>1. main' \in [pc : MainPcs, left : Seq(Plugins)]
    BY <1>9, <1>h DEF Serves, JoinSess, NextStop, MainPcs
  <2>2. sess' \in [Sess -> SessT]
    BY <1>9, ZenonT(60) DEF Types, JoinSess, SessT, SessPcs
  <2> QED BY <1>9, <2>1, <2>2 DEF Types, Serves, JoinSess, NextStop
<1>10. CASE Signal
  <2>1. main' \in [pc : MainPcs, left : Seq(Plugins)]
    BY <1>10 DEF Types, Signal, MainPcs
  <2> QED BY <1>10, <2>1 DEF Types, Serves, Signal
<1> QED BY <1>1, <1>2, <1>3, <1>4, <1>5, <1>6, <1>7, <1>8, <1>9, <1>10 DEF MainNext

\* The NFS front end's.
LEMMA IoTypes == \A t \in Io : Types /\ Serves /\ IoNext(t) => Types' /\ Serves'
<1> SUFFICES ASSUME NEW t \in Io, Types, Serves, IoNext(t) PROVE Types' /\ Serves'
  OBVIOUS
<1>i. ASSUME NEW r \in IoT, r.pc \in {"want", "in", "reply"} => r.conn \in Conns,
             io' = [io EXCEPT ![t] = r], main' = main
      PROVE  io' \in [Io -> IoT] /\ Serves'
  BY <1>i DEF Types, Serves
<1>c. \A c \in Conns, st \in ConnSts : [conn EXCEPT ![c].st = st] \in [Conns -> ConnT]
  BY MovesOn DEF Types
<1>1. ASSUME NEW c \in Conns, NEW op \in Procs, NEW n \in 1..MaxOps, Take(t, c, op, n)
      PROVE  Types' /\ Serves'
  <2>1. [pc |-> "want", conn |-> c, op |-> op, left |-> n - 1] \in IoT
    BY BoundsAssumption DEF IoPcs, IoT
  <2>2. io' \in [Io -> IoT] /\ Serves'
    BY <2>1, <1>1, <1>i DEF Take
  <2>3. conn' \in [Conns -> ConnT]
    BY <1>1, <1>c DEF Take, ConnSts
  <2>4. t_fh' \in [Io -> Conns \cup {NoConn}]
    BY <1>1 DEF Take, compound, Types
  <2> QED BY <1>1, <2>2, <2>3, <2>4 DEF Types, Take
<1>2. CASE Enter(t)
  <2> DEFINE r == [io[t] EXCEPT !.pc = "in"]
  <2>1. r \in IoT /\ r.conn \in Conns
    BY <1>2, MovesOn, ZenonT(60) DEF Types, Serves, Enter, IoPcs
  <2>2. io' = [io EXCEPT ![t] = r] /\ main' = main
    BY <1>2 DEF Types, Enter
  <2>3. io' \in [Io -> IoT] /\ Serves'
    <3> HIDE DEF r
    <3> QED BY <2>1, <2>2, <1>i
  <2>4. writer' \in {Nobody, Main} \cup Io \cup Sess /\ readers' \subseteq {Main} \cup Io
    BY <1>2 DEF Types, Enter, lockExclusive, lockShared
  <2> QED BY <1>2, <2>3, <2>4 DEF Types, Enter
<1>3. CASE Reply(t)
  <2>1. [pc |-> "idle", conn |-> NoConn, op |-> "NULL", left |-> 0] \in IoT
    BY DEF IoPcs, IoT
  <2>2. io' \in [Io -> IoT] /\ Serves'
    BY <2>1, <1>3, <1>i DEF Reply
  <2>3. conn' \in [Conns -> ConnT]
    <3>1. io[t].conn \in Conns
      BY <1>3 DEF Reply, Serves
    <3>2. \E st \in {"idle", "lost"} : conn' = [conn EXCEPT ![io[t].conn].st = st]
      BY <1>3 DEF Reply
    <3>3. PICK st \in ConnSts : conn' = [conn EXCEPT ![io[t].conn].st = st]
      BY <3>2 DEF ConnSts
    <3> QED BY <3>1, <3>3, <1>c, Zenon
  <2> QED BY <1>3, <2>2, <2>3 DEF Types, Reply
<1>4. CASE IoExit(t)
  <2> DEFINE r == [io[t] EXCEPT !.pc = "off"]
  <2>1. r \in IoT /\ r.pc = "off"
    BY MovesOn, ZenonT(60) DEF Types, IoPcs
  <2>2. io' = [io EXCEPT ![t] = r] /\ main' = main
    BY <1>4 DEF Types, IoExit
  <2>3. io' \in [Io -> IoT] /\ Serves'
    <3> HIDE DEF r
    <3> QED BY <2>1, <2>2, <1>i
  <2> QED BY <1>4, <2>3 DEF Types, IoExit
<1>5. ASSUME NEW op \in Procs, NEW ok \in BOOLEAN, Leave(t, op, ok) PROVE Types' /\ Serves'
  <2> DEFINE on  == [[io[t] EXCEPT !.pc = "want"] EXCEPT !.op = op]
             go  == [on EXCEPT !.left = io[t].left - 1]
             end == [io[t] EXCEPT !.pc = "reply"]
  <2>1. io[t] \in IoT /\ io[t].conn \in Conns
    BY <1>5 DEF Types, Serves, Leave
  <2>2. io[t].left > 0 => go \in IoT /\ go.conn = io[t].conn
    <3>1. on \in IoT /\ on.conn = io[t].conn
      BY <2>1 DEF IoPcs, IoT
    <3>2. io[t].left > 0 => io[t].left - 1 \in Nat
      BY <2>1 DEF IoT
    <3> HIDE DEF on
    <3> QED BY <3>1, <3>2 DEF IoT
  <2>b. end \in IoT /\ end.conn = io[t].conn
    BY <2>1, MovesOn DEF IoPcs
  <2>3. \/ io[t].left > 0 /\ io' = [io EXCEPT ![t] = go]
        \/ io' = [io EXCEPT ![t] = end]
    <3>1. [io[t] EXCEPT !.pc = "want", !.op = op, !.left = io[t].left - 1] = go
      BY <2>1 DEF IoT
    <3>2. io' = [io EXCEPT ![t] = IF io[t].left > 0 /\ ok
                                  THEN [io[t] EXCEPT !.pc = "want", !.op = op, !.left = io[t].left - 1]
                                  ELSE end]
      BY <1>5 DEF Leave
    <3> HIDE DEF go, end
    <3> QED BY <3>1, <3>2
  <2>4. main' = main
    BY <1>5 DEF Leave
  <2> HIDE DEF go, end
  <2>5. io' \in [Io -> IoT] /\ Serves'
    BY <2>1, <2>2, <2>b, <2>3, <2>4, <1>i
  <2>6. writer' \in {Nobody, Main} \cup Io \cup Sess /\ readers' \subseteq {Main} \cup Io
    BY <1>5 DEF Types, Leave, unlock
  <2>7. t_fh' \in [Io -> Conns \cup {NoConn}]
    BY <1>5, <2>1 DEF Leave, Types
  <2> QED BY <1>5, <2>5, <2>6, <2>7 DEF Types, Leave
<1> QED BY <1>1, <1>2, <1>3, <1>4, <1>5 DEF IoNext

\* The console's threads' and the clients'.
LEMMA ClientTypes ==
    Types /\ Serves /\ (ServeNext \/ ClientNext \/ \E x \in Sess : SessNext(x) \/ Drain(x))
        => Types' /\ Serves'
<1> SUFFICES ASSUME Types, Serves, ServeNext \/ ClientNext \/ \E x \in Sess : SessNext(x) \/ Drain(x)
             PROVE  Types' /\ Serves'
  OBVIOUS
<1>s. Stimulus => stimuli' \in 0..MaxStimuli
  BY BoundsAssumption DEF Types, Stimulus
<1>v. io' = io /\ main' = main => Serves'
  BY DEF Serves
<1>1. CASE Register
  <2>1. sess' \in [Sess -> SessT]
    <3> SUFFICES ASSUME NEW x \in Sess PROVE sess'[x] \in SessT
      BY <1>1 DEF Register
    <3>1. sess[x] \in SessT
      BY DEF Types
    <3>2. CASE x \in reap
      <4>1. sess[x].pc = "done"
        BY <3>2 DEF reap
      <4>2. sess'[x] = [sess[x] EXCEPT !.pc = "free", !.listed = FALSE]
        BY <1>1, <3>1, <3>2, <4>1 DEF Register, SessT
      <4> QED BY <3>1, <4>2 DEF SessT, SessPcs
    <3>3. CASE x \notin reap
      BY <1>1, <3>1, <3>3 DEF Register, SessT
    <3> QED BY <3>2, <3>3
  <2>2. serve' \in [pc : {"off", "accept", "register", "ended"}, new : Sess \cup {NoConn}]
    BY <1>1 DEF Types, Register
  <2> QED BY <1>1, <1>v, <2>1, <2>2 DEF Types, Register
<1>2. CASE ServeEnds
  <2>2. serve' \in [pc : {"off", "accept", "register", "ended"}, new : Sess \cup {NoConn}]
    BY <1>2 DEF Types, ServeEnds
  <2> QED BY <1>2, <1>v, <2>2 DEF Types, ServeEnds
<1>3. ASSUME NEW c \in Conns, Connect(c) \/ Send(c) \/ Disconnect(c) PROVE Types' /\ Serves'
  <2>1. conn' \in [Conns -> ConnT]
    <3>1. CASE Connect(c)
      <4>1. freeFd \in Fds
        BY <3>1, FreeFd, ClientsAssumption DEF Connect, openConn
      <4>2. [st |-> "idle", fd |-> freeFd] \in ConnT
        BY <4>1 DEF ConnT, ConnSts
      <4> QED BY <3>1, <4>2 DEF Connect, Types
    <3>2. CASE Send(c)
      BY <3>2, MovesOn DEF Send, Types, ConnSts
    <3>3. CASE Disconnect(c)
      BY <3>3 DEF Disconnect, Types, ConnSts, ConnT
    <3> QED BY <1>3, <3>1, <3>2, <3>3
  <2> QED BY <1>3, <1>s, <1>v, <2>1 DEF Types, Connect, Send, Disconnect
<1>4. ASSUME NEW x \in Sess, Accept(x) PROVE Types' /\ Serves'
  <2>1. freeFd \in Fds
    BY <1>4, FreeFd, ClientsAssumption DEF Accept, openSess
  <2>2. [pc |-> "recv", fd |-> freeFd, listed |-> FALSE, shut |-> FALSE] \in SessT
    BY <2>1 DEF SessT, SessPcs
  <2>3. sess' \in [Sess -> SessT]
    BY <1>4, <2>2 DEF Accept, Types
  <2>4. serve' \in [pc : {"off", "accept", "register", "ended"}, new : Sess \cup {NoConn}]
    BY <1>4 DEF Types, Accept
  <2> QED BY <1>4, <1>s, <1>v, <2>3, <2>4 DEF Types, Accept
<1>5. ASSUME NEW x \in Sess, NEW from, NEW to \in SessPcs, SessStep(x, from, to),
             writer' \in {Nobody, Main} \cup Io \cup Sess, readers' \subseteq {Main} \cup Io,
             stimuli' \in 0..MaxStimuli
      PROVE  Types' /\ Serves'
  <2>1. sess' \in [Sess -> SessT]
    BY <1>5, MovesOn DEF SessStep, Types
  <2> QED BY <1>5, <1>v, <2>1 DEF Types, SessStep
<1>6. ASSUME NEW x \in Sess,
             \/ Line(x) \/ Hangup(x) \/ Recv(x) \/ Eval(x) \/ Output(x) \/ Drain(x) \/ SendFails(x)
             \/ CloseFd(x) \/ Done(x)
      PROVE  Types' /\ Serves'
  <2>1. \E from, to \in SessPcs : SessStep(x, from, to)
    BY <1>6 DEF Line, Hangup, Recv, Eval, Output, Drain, SendFails, CloseFd, Done, SessPcs
  <2>2. /\ writer' \in {Nobody, Main} \cup Io \cup Sess
        /\ readers' \subseteq {Main} \cup Io
    BY <1>6 DEF Line, Hangup, Recv, Eval, Output, Drain, SendFails, CloseFd, Done, Types,
                lockExclusive, unlock
  <2>3. stimuli' \in 0..MaxStimuli
    BY <1>6, <1>s DEF Line, Hangup, Recv, Eval, Output, Drain, SendFails, CloseFd, Done, Types
  <2> QED BY <2>1, <2>2, <2>3, <1>5
<1> QED BY <1>1, <1>2, <1>3, <1>4, <1>6 DEF ServeNext, ClientNext, SessNext

\* Together.
LEMMA StepTypes == Types /\ Serves /\ [Next]_vars => Types' /\ Serves'
<1>1. Types /\ Serves /\ UNCHANGED vars => Types' /\ Serves'
  BY DEF vars, Types, Serves
<1> QED BY <1>1, MainTypes, IoTypes, ClientTypes DEF Next, Finished

-----------------------------------------------------------------------------
(* The mutex.                                                                 *)

\* Names of threads that differ.
LEMMA Distinct == /\ Main # Nobody /\ Main \notin Io /\ Main \notin Sess
                  /\ Nobody \notin Io /\ Nobody \notin Sess /\ Io \cap Sess = {}
  BY ThreadsAssumption DEF Main, Nobody

\* The initial state.
LEMMA InitGuard == Init => Guard
  BY DEF Init, Guard

\* A step that leaves the mutex alone and lets nobody in.
LEMMA GuardIdle ==
    ASSUME Guard, UNCHANGED <<writer, readers>>,
           \A t \in Io : io'[t].pc = "in" => io[t].pc = "in" /\ io'[t].op = io[t].op,
           \A x \in Sess : sess'[x].pc \in {"eval", "send"} => sess[x].pc \in {"eval", "send"},
           main'.pc = "access" => main' = main \/ startAccess(Head(main'.left)) \notin {"exclusive", "shared"}
    PROVE  Guard'
<1>1. \A t \in Io : io'[t].pc = "in" => IF isMutating(io'[t].op) THEN writer' = t ELSE t \in readers'
  BY DEF Guard
<1>2. \A x \in Sess : sess'[x].pc \in {"eval", "send"} => writer' = x
  BY DEF Guard
<1>3. main'.pc = "access" =>
           /\ startAccess(Head(main'.left)) = "exclusive" => writer' = Main
           /\ startAccess(Head(main'.left)) = "shared" => Main \in readers'
  BY DEF Guard
<1> QED BY <1>1, <1>2, <1>3 DEF Guard, startAccess

\* A step in which one thread takes the mutex, in either mode.
LEMMA GuardLock ==
    ASSUME Guard, NEW h, lockShared(h) \/ lockExclusive(h),
           \A t \in Io \ {h} : io'[t] = io[t],
           \A x \in Sess \ {h} : sess'[x].pc = sess[x].pc,
           h # Main => main' = main,
           h \in Io /\ io'[h].pc = "in" => IF isMutating(io'[h].op) THEN lockExclusive(h) ELSE lockShared(h),
           h \in Sess => lockExclusive(h),
           h = Main => /\ main'.pc = "access"
                       /\ startAccess(Head(main'.left)) = "exclusive" => lockExclusive(h)
                       /\ startAccess(Head(main'.left)) = "shared" => lockShared(h)
    PROVE  Guard'
<1>0. writer = Nobody
  BY DEF lockShared, lockExclusive
<1>1. \A t \in Io : io'[t].pc = "in" => IF isMutating(io'[t].op) THEN writer' = t ELSE t \in readers'
  <2> SUFFICES ASSUME NEW t \in Io, io'[t].pc = "in"
               PROVE  IF isMutating(io'[t].op) THEN writer' = t ELSE t \in readers'
    OBVIOUS
  <2>1. CASE t = h
    BY <2>1 DEF lockShared, lockExclusive
  <2>2. CASE t # h
    BY <2>2, <1>0, Distinct DEF Guard, lockShared, lockExclusive
  <2> QED BY <2>1, <2>2
<1>2. \A x \in Sess : sess'[x].pc \in {"eval", "send"} => writer' = x
  BY <1>0, Distinct DEF Guard, lockShared, lockExclusive
<1>3. main'.pc = "access" =>
           /\ startAccess(Head(main'.left)) = "exclusive" => writer' = Main
           /\ startAccess(Head(main'.left)) = "shared" => Main \in readers'
  BY <1>0, Distinct DEF Guard, lockShared, lockExclusive
<1>4. writer' # Nobody => readers' = {}
  BY <1>0 DEF lockShared, lockExclusive
<1> QED BY <1>1, <1>2, <1>3, <1>4 DEF Guard, startAccess

\* A step in which one thread lets go of it and leaves the store.
LEMMA GuardUnlock ==
    ASSUME Guard, NEW h, unlock(h),
           \A t \in Io : io'[t].pc = "in" => t # h /\ io'[t].op = io[t].op /\ io[t].pc = "in",
           \A x \in Sess : sess'[x].pc \in {"eval", "send"} => x # h /\ sess[x].pc \in {"eval", "send"},
           main'.pc = "access" => h # Main /\ main' = main
    PROVE  Guard'
<1>1. \A t \in Io : io'[t].pc = "in" => IF isMutating(io'[t].op) THEN writer' = t ELSE t \in readers'
  BY DEF Guard, unlock
<1>2. \A x \in Sess : sess'[x].pc \in {"eval", "send"} => writer' = x
  BY DEF Guard, unlock
<1>3. main'.pc = "access" =>
           /\ startAccess(Head(main'.left)) = "exclusive" => writer' = Main
           /\ startAccess(Head(main'.left)) = "shared" => Main \in readers'
  BY DEF Guard, unlock
<1>4. writer' # Nobody => readers' = {}
  BY DEF Guard, unlock
<1> QED BY <1>1, <1>2, <1>3, <1>4 DEF Guard, startAccess

\* main()'s steps keep it.
LEMMA MainGuard == Types /\ Guard /\ (MainNext \/ Signal) => Guard'
<1> SUFFICES ASSUME Types, Guard, MainNext \/ Signal PROVE Guard'
  OBVIOUS
<1>m. \A pc \in {"stop", "test", "pausing", "paused", "exited"}, left \in {<<>>, stopOrder} :
         MainStep(pc, left) => Guard'
  BY GuardIdle DEF MainStep
<1>1. CASE StartAccess
  <2>1. /\ main'.pc = "access" /\ main'.left = main.left
        /\ UNCHANGED <<io, sess>>
    BY <1>1 DEF Types, StartAccess
  <2>2. CASE startAccess(Head(main.left)) = "exclusive"
    <3>1. lockExclusive(Main)
      BY <1>1, <2>2 DEF StartAccess
    <3> QED BY <2>1, <2>2, <3>1, GuardLock, Distinct
  <2>3. CASE startAccess(Head(main.left)) = "shared"
    <3>1. lockShared(Main)
      BY <1>1, <2>3 DEF StartAccess
    <3> QED BY <2>1, <2>3, <3>1, GuardLock, Distinct
  <2>4. CASE startAccess(Head(main.left)) \notin {"exclusive", "shared"}
    <3>1. UNCHANGED <<writer, readers>>
      BY <1>1, <2>4 DEF StartAccess
    <3> QED BY <2>1, <2>4, <3>1, GuardIdle
  <2> QED BY <2>2, <2>3, <2>4
<1>2. CASE \E ok \in BOOLEAN : StartService(ok)
  <2> PICK ok \in BOOLEAN : StartService(ok)
    BY <1>2
  <2>1. main'.pc = "start" /\ sess' = sess /\ unlock(Main)
    BY DEF StartService
  <2>2. io' = io \/ io' = [t \in Io |-> [io[t] EXCEPT !.pc = "idle"]]
    BY DEF StartService
  <2>3. \A t \in Io : io'[t].pc = "in" => io'[t].op = io[t].op /\ io[t].pc = "in"
    <3>1. \A t \in Io : [io[t] EXCEPT !.pc = "idle"].pc = "idle"
      BY MovesOn DEF Types, IoPcs
    <3> QED BY <2>2, <3>1
  <2> QED BY <2>1, <2>3, GuardUnlock, Distinct
<1>3. CASE Serving \/ Test \/ Pause \/ Exit
  BY <1>3, <1>m DEF Serving, Test, Pause, Exit
<1>4. CASE StopService \/ JoinIo
  <2>1. UNCHANGED <<writer, readers, io, sess>> /\ main'.pc # "access"
    <3>1. CASE JoinIo
      BY <3>1 DEF JoinIo, NextStop
    <3>2. CASE StopService
      <4>1. main'.pc \in {"joinIo", "joinServe", "stop"}
        BY <3>2 DEF StopService, Types
      <4> QED BY <3>2, <4>1 DEF StopService
    <3> QED BY <1>4, <3>1, <3>2
  <2> QED BY <2>1, GuardIdle
<1>5. CASE JoinServe
  <2>1. UNCHANGED <<writer, readers, io>> /\ main'.pc # "access"
    BY <1>5 DEF JoinServe, Types
  <2>2. \A x \in Sess : sess'[x].pc = sess[x].pc
    BY <1>5 DEF JoinServe, shutdownFds, Types, SessT
  <2> QED BY <2>1, <2>2, GuardIdle
<1>6. CASE JoinSess
  <2>1. UNCHANGED <<writer, readers, io>> /\ main'.pc # "access"
    BY <1>6 DEF JoinSess, NextStop, Types
  <2>2. \A x \in Sess : sess'[x].pc \in {"eval", "send"} => sess[x].pc \in {"eval", "send"}
    BY <1>6 DEF JoinSess, Types, SessT
  <2> QED BY <2>1, <2>2, GuardIdle
<1>7. CASE Signal
  <2>1. UNCHANGED <<writer, readers, io, sess>> /\ main'.pc # "access"
    BY <1>7 DEF Signal, Types
  <2> QED BY <2>1, GuardIdle
<1> QED BY <1>1, <1>2, <1>3, <1>4, <1>5, <1>6, <1>7 DEF MainNext

\* The io threads' do.
LEMMA IoGuard == \A t \in Io : Types /\ Guard /\ IoNext(t) => Guard'
<1> SUFFICES ASSUME NEW t \in Io, Types, Guard, IoNext(t) PROVE Guard'
  OBVIOUS
<1>0. io[t] \in IoT /\ UNCHANGED <<main, sess>>
  BY DEF Types, IoNext, Take, Enter, Reply, IoExit, Leave
<1>1. CASE \/ \E c \in Conns, op \in Procs, n \in 1..MaxOps : Take(t, c, op, n)
           \/ Reply(t) \/ IoExit(t)
  <2>1. UNCHANGED <<writer, readers>>
    BY <1>1 DEF Take, Reply, IoExit
  <2>2. \A u \in Io : io'[u].pc = "in" => io[u].pc = "in" /\ io'[u].op = io[u].op
    <3>1. [io[t] EXCEPT !.pc = "off"].pc = "off"
      BY <1>0, MovesOn DEF IoPcs
    <3>2. PICK r : io' = [io EXCEPT ![t] = r] /\ r.pc \in {"want", "idle", "off"}
      <4>1. CASE IoExit(t)
        BY <4>1, <3>1, <1>0 DEF IoExit
      <4>2. CASE Reply(t)
        <5> DEFINE q == [pc |-> "idle", conn |-> NoConn, op |-> "NULL", left |-> 0]
        <5>1. io' = [io EXCEPT ![t] = q] /\ q.pc \in {"want", "idle", "off"}
          BY <4>2 DEF Reply
        <5> HIDE DEF q
        <5> QED BY <5>1
      <4>3. CASE \E c \in Conns, op \in Procs, n \in 1..MaxOps : Take(t, c, op, n)
        BY <4>3 DEF Take
      <4> QED BY <1>1, <4>1, <4>2, <4>3
    <3> QED BY <3>2 DEF Types
  <2> QED BY <1>0, <2>1, <2>2, GuardIdle
<1>2. CASE Enter(t)
  <2>1. io'[t].pc = "in" /\ io'[t].op = io[t].op /\ \A u \in Io \ {t} : io'[u] = io[u]
    BY <1>2, <1>0, MovesOn DEF Enter, Types, IoPcs
  <2>2. IF isMutating(io[t].op) THEN lockExclusive(t) ELSE lockShared(t)
    BY <1>2 DEF Enter
  <2> QED BY <1>0, <2>1, <2>2, GuardLock, Distinct
<1>3. CASE \E op \in Procs, ok \in BOOLEAN : Leave(t, op, ok)
  <2> PICK op \in Procs, ok \in BOOLEAN : Leave(t, op, ok)
    BY <1>3
  <2>1. unlock(t)
    BY DEF Leave
  <2>2. io'[t].pc # "in" /\ \A u \in Io \ {t} : io'[u] = io[u]
    BY <1>0 DEF Leave, Types, IoT
  <2>3. main.pc = "access" => t # Main
    BY Distinct
  <2> QED BY <1>0, <2>1, <2>2, <2>3, GuardUnlock, Distinct
<1> QED BY <1>1, <1>2, <1>3 DEF IoNext

\* The console's and the clients' do.
LEMMA ClientGuard ==
    Types /\ Guard /\ (ServeNext \/ ClientNext \/ \E x \in Sess : SessNext(x) \/ Drain(x)) => Guard'
<1> SUFFICES ASSUME Types, Guard, ServeNext \/ ClientNext \/ \E x \in Sess : SessNext(x) \/ Drain(x)
             PROVE  Guard'
  OBVIOUS
<1>1. CASE Register
  <2>1. UNCHANGED <<writer, readers, io, main>>
    BY <1>1 DEF Register
  <2>2. \A x \in Sess : sess'[x].pc \in {"eval", "send"} => sess[x].pc \in {"eval", "send"}
    BY <1>1 DEF Register, Types, SessT
  <2> QED BY <2>1, <2>2, GuardIdle
<1>2. CASE ServeEnds \/ \E c \in Conns : Connect(c) \/ Send(c) \/ Disconnect(c)
  <2>1. UNCHANGED <<writer, readers, io, main, sess>>
    BY <1>2 DEF ServeEnds, Connect, Send, Disconnect
  <2> QED BY <2>1, GuardIdle
<1>3. ASSUME NEW x \in Sess, Accept(x) PROVE Guard'
  <2>1. UNCHANGED <<writer, readers, io, main>>
    BY <1>3 DEF Accept
  <2>2. \A y \in Sess : sess'[y].pc \in {"eval", "send"} => sess[y].pc \in {"eval", "send"}
    BY <1>3 DEF Accept, Types
  <2> QED BY <2>1, <2>2, GuardIdle
<1>4. ASSUME NEW x \in Sess, NEW from, NEW to \in SessPcs, SessStep(x, from, to)
      PROVE  /\ sess[x].pc = from /\ sess'[x].pc = to /\ \A y \in Sess \ {x} : sess'[y] = sess[y]
             /\ UNCHANGED <<io, main>>
  BY <1>4, MovesOn DEF SessStep, Types
<1>5. ASSUME NEW x \in Sess, Line(x) \/ Hangup(x) \/ Recv(x) \/ Output(x) \/ CloseFd(x) \/ Done(x)
      PROVE  Guard'
  <2>1. UNCHANGED <<writer, readers>>
    BY <1>5 DEF Line, Hangup, Recv, Output, CloseFd, Done
  <2>2. PICK from \in SessPcs, to \in SessPcs :
           SessStep(x, from, to) /\ (to \in {"eval", "send"} => from = "eval")
    BY <1>5 DEF Line, Hangup, Recv, Output, CloseFd, Done, SessPcs
  <2>3. /\ sess[x].pc = from /\ sess'[x].pc = to /\ \A y \in Sess \ {x} : sess'[y] = sess[y]
        /\ UNCHANGED <<io, main>>
    BY <2>2, <1>4
  <2> QED BY <2>1, <2>2, <2>3, GuardIdle
<1>6. ASSUME NEW x \in Sess, Eval(x) PROVE Guard'
  <2>1. /\ \A y \in Sess \ {x} : sess'[y] = sess[y]
        /\ UNCHANGED <<io, main>>
    BY <1>6, <1>4 DEF Eval, SessPcs
  <2>2. lockExclusive(x)
    BY <1>6 DEF Eval
  <2> QED BY <2>1, <2>2, GuardLock, Distinct
<1>7. ASSUME NEW x \in Sess, Drain(x) \/ SendFails(x) PROVE Guard'
  <2>1. SessStep(x, "send", "recv") /\ unlock(x)
    BY <1>7 DEF Drain, SendFails
  <2>2. /\ sess'[x].pc = "recv" /\ \A y \in Sess \ {x} : sess'[y] = sess[y]
        /\ UNCHANGED <<io, main>>
    BY <2>1, <1>4 DEF SessPcs
  <2> QED BY <2>1, <2>2, GuardUnlock, Distinct
<1> QED BY <1>1, <1>2, <1>3, <1>5, <1>6, <1>7 DEF ServeNext, ClientNext, SessNext

\* Every step keeps whoever is inside the store in possession of its mutex.
LEMMA StepGuard == Types /\ Guard /\ [Next]_vars => Guard'
<1>1. Guard /\ UNCHANGED vars => Guard'
  BY DEF vars, Guard, startAccess
<1> QED BY <1>1, MainGuard, IoGuard, ClientGuard DEF Next, Finished

\* Whoever may change the store is then alone in it.
LEMMA GuardSuffices == Types /\ Guard => StoreGuarded
<1> SUFFICES ASSUME Types, Guard, NEW h \in changing PROVE h \in inside /\ \A k \in inside : k = h
  BY DEF StoreGuarded
<1>1. writer = h
  <2>1. \A op \in Procs \cup {"NULL"} : op \notin readOps => isMutating(op)
    BY ProcsAssumption DEF isMutating, readOps
  <2>2. \A t \in Io : io[t].op \in Procs \cup {"NULL"}
    BY DEF Types, IoT
  <2> QED BY <2>1, <2>2 DEF changing, Guard, startsIn
<1>2. readers = {}
  <2>1. h # Nobody
    BY Distinct DEF changing, startsIn
  <2> QED BY <1>1, <2>1 DEF Guard
<1>3. h \in inside
  BY DEF changing, inside, startsIn
<1>4. \A k \in inside : writer = k \/ k \in readers
  BY DEF inside, Guard, startsIn
<1> QED BY <1>1, <1>2, <1>3, <1>4

-----------------------------------------------------------------------------
(* The order of services.                                                     *)

\* Every service has a place in the order.
LEMMA RankType == \A s \in Plugins : Rank[s] \in Nat
<1> SUFFICES ASSUME NEW s \in Plugins PROVE Rank[s] \in Nat
  OBVIOUS
<1>1. Rank[s] = CASE s = "bigtree" -> 1 [] s = "luactl" -> 2 [] s = "nfsv3" -> 3
                  [] s = "nfsv4" -> 4 [] s = "null" -> 5 [] OTHER -> 6
  BY DEF Rank
<1> QED BY <1>1

\* The console comes before the front ends.
LEMMA RankValues ==
    /\ Rank["bigtree"] = 1 /\ Rank["luactl"] = 2 /\ Rank["nfsv3"] = 3
    /\ Rank["nfsv4"] = 4 /\ Rank["null"] = 5 /\ Rank["perf"] = 6
  BY DEF Rank, Plugins

\* The head and the tail of a list of services.
LEMMA TailOrder ==
    ASSUME NEW s \in Seq(Plugins), s # <<>>
    PROVE  /\ Head(s) \in Plugins /\ Tail(s) \in Seq(Plugins)
           /\ Elems(s) = {Head(s)} \cup Elems(Tail(s))
           /\ Increasing(s) => /\ Increasing(Tail(s))
                               /\ \A b \in Elems(Tail(s)) : Rank[Head(s)] < Rank[b]
           /\ Decreasing(s) => /\ Decreasing(Tail(s))
                               /\ \A b \in Elems(Tail(s)) : Rank[Head(s)] > Rank[b]
<1>1. Head(s) \in Plugins /\ Tail(s) \in Seq(Plugins) /\ Head(s) = s[1]
  OBVIOUS
<1>2. Len(Tail(s)) = Len(s) - 1 /\ Len(s) \in Nat /\ Len(s) >= 1
  OBVIOUS
<1>3. \A i \in 1..Len(Tail(s)) : Tail(s)[i] = s[i + 1] /\ i + 1 \in 1..Len(s)
  BY <1>2
<1>4. \A i \in 1..Len(s) : i = 1 \/ (i - 1 \in 1..Len(Tail(s)) /\ s[i] = Tail(s)[i - 1])
  BY <1>2
<1>5. Elems(s) = {Head(s)} \cup Elems(Tail(s))
  <2>1. \A e \in Elems(s) : e \in {Head(s)} \cup Elems(Tail(s))
    BY <1>1, <1>4 DEF Elems
  <2>2. \A e \in Elems(Tail(s)) : e \in Elems(s)
    BY <1>3 DEF Elems
  <2>3. Head(s) \in Elems(s)
    BY <1>1, <1>2 DEF Elems
  <2> QED BY <2>1, <2>2, <2>3
<1>6. ASSUME Increasing(s)
      PROVE  Increasing(Tail(s)) /\ \A b \in Elems(Tail(s)) : Rank[Head(s)] < Rank[b]
  <2>1. \A i \in 1..Len(Tail(s)) : 1 \in 1..Len(s) /\ 1 < i + 1
    BY <1>2
  <2>2. \A i, j \in 1..Len(Tail(s)) : i < j => i + 1 < j + 1
    BY <1>2
  <2>3. Increasing(Tail(s))
    BY <1>3, <1>6, <2>2 DEF Increasing
  <2>4. \A i \in 1..Len(Tail(s)) : Rank[s[1]] < Rank[s[i + 1]]
    BY <1>3, <1>6, <2>1 DEF Increasing
  <2> QED BY <2>3, <2>4, <1>1, <1>3 DEF Elems
<1>7. ASSUME Decreasing(s)
      PROVE  Decreasing(Tail(s)) /\ \A b \in Elems(Tail(s)) : Rank[Head(s)] > Rank[b]
  <2>1. \A i \in 1..Len(Tail(s)) : 1 \in 1..Len(s) /\ 1 < i + 1
    BY <1>2
  <2>2. \A i, j \in 1..Len(Tail(s)) : i < j => i + 1 < j + 1
    BY <1>2
  <2>3. Decreasing(Tail(s))
    BY <1>3, <1>7, <2>2 DEF Decreasing
  <2>4. \A i \in 1..Len(Tail(s)) : Rank[s[1]] > Rank[s[i + 1]]
    BY <1>3, <1>7, <2>1 DEF Decreasing
  <2> QED BY <2>3, <2>4, <1>1, <1>3 DEF Elems
<1> QED BY <1>1, <1>5, <1>6, <1>7

\* A list with something at its end, and two lists one after the other.
LEMMA ConcatOrder ==
    ASSUME NEW s \in Seq(Plugins), NEW u \in Seq(Plugins)
    PROVE  /\ s \o u \in Seq(Plugins)
           /\ Elems(s \o u) = Elems(s) \cup Elems(u)
           /\ Increasing(s) /\ Increasing(u) /\ (\A a \in Elems(s), b \in Elems(u) : Rank[a] < Rank[b])
                  => Increasing(s \o u)
<1> DEFINE v == s \o u
<1>1. /\ v \in Seq(Plugins) /\ Len(v) = Len(s) + Len(u) /\ Len(s) \in Nat /\ Len(u) \in Nat
      /\ \A i \in 1..Len(s) : v[i] = s[i] /\ i \in 1..Len(v)
      /\ \A i \in 1..Len(u) : v[Len(s) + i] = u[i] /\ Len(s) + i \in 1..Len(v)
      /\ \A i \in 1..Len(v) : \/ i \in 1..Len(s) /\ v[i] = s[i]
                              \/ i - Len(s) \in 1..Len(u) /\ v[i] = u[i - Len(s)]
  OBVIOUS
<1> HIDE DEF v
<1>2. Elems(v) = Elems(s) \cup Elems(u)
  <2>1. Elems(v) \subseteq Elems(s) \cup Elems(u)
    BY <1>1 DEF Elems
  <2>2. Elems(s) \subseteq Elems(v)
    BY <1>1 DEF Elems
  <2>3. Elems(u) \subseteq Elems(v)
    BY <1>1 DEF Elems
  <2> QED BY <2>1, <2>2, <2>3
<1>3. ASSUME Increasing(s), Increasing(u), \A a \in Elems(s), b \in Elems(u) : Rank[a] < Rank[b],
             NEW i \in 1..Len(v), NEW j \in 1..Len(v), i < j
      PROVE  Rank[v[i]] < Rank[v[j]]
  <2>1. CASE i \in 1..Len(s) /\ j \in 1..Len(s)
    BY <1>1, <1>3, <2>1 DEF Increasing
  <2>2. CASE i \in 1..Len(s) /\ j \notin 1..Len(s)
    <3>1. v[i] \in Elems(s) /\ v[j] \in Elems(u)
      BY <1>1, <2>2 DEF Elems
    <3> QED BY <3>1, <1>3
  <2>3. CASE i \notin 1..Len(s)
    <3>1. /\ i - Len(s) \in 1..Len(u) /\ v[i] = u[i - Len(s)]
          /\ j - Len(s) \in 1..Len(u) /\ v[j] = u[j - Len(s)]
          /\ i - Len(s) < j - Len(s)
      BY <1>1, <1>3, <2>3
    <3> QED BY <3>1, <1>3 DEF Increasing
  <2> QED BY <2>1, <2>2, <2>3
<1> QED BY <1>1, <1>2, <1>3 DEF v, Increasing

\* What main() starts is in the order of names, and loaded.
LEMMA ResolveOrder ==
    ASSUME loaded \in Loads
    PROVE  Increasing(resolveAll) /\ Elems(resolveAll) \subseteq loaded
<1> DEFINE a1 == named("bigtree")
           a2 == a1 \o named("luactl")
           a3 == a2 \o named("nfsv3")
           a4 == a3 \o named("nfsv4")
           a5 == a4 \o named("null")
           a6 == a5 \o named("perf")
           Upto(s, k) == s \in Seq(Plugins) /\ Increasing(s) /\ Elems(s) \subseteq loaded
                             /\ \A e \in Elems(s) : Rank[e] <= k
<1>1. \A e \in Plugins : named(e) \in Seq(Plugins) /\ Increasing(named(e))
                            /\ Elems(named(e)) = loaded \cap {e}
  BY DEF named, Increasing, Elems
<1>2. ASSUME NEW s, NEW k \in Nat, NEW e \in Plugins, Upto(s, k), Rank[e] = k + 1
      PROVE  Upto(s \o named(e), k + 1)
  <2>1. \A c \in Elems(s), b \in Elems(named(e)) : Rank[c] < Rank[b]
    <3>1. Elems(s) \subseteq Plugins
      BY <1>2 DEF Elems
    <3> QED BY <1>1, <1>2, <3>1, RankType
  <2>2. /\ s \o named(e) \in Seq(Plugins)
        /\ Elems(s \o named(e)) = Elems(s) \cup Elems(named(e))
        /\ Increasing(s \o named(e))
    BY <1>1, <1>2, <2>1, ConcatOrder
  <2>3. \A c \in Elems(s) : Rank[c] <= k + 1
    <3>1. Elems(s) \subseteq Plugins
      BY <1>2 DEF Elems
    <3> QED BY <1>2, <3>1, RankType
  <2> QED BY <1>1, <1>2, <2>2, <2>3
<1> HIDE DEF Upto
<1>3. Upto(a1, 1)
  BY <1>1, RankValues DEF Upto, Plugins
<1> HIDE DEF a1
<1>4. Upto(a2, 2)
  BY <1>2, <1>3, RankValues DEF Plugins
<1> HIDE DEF a2
<1>5. Upto(a3, 3)
  BY <1>2, <1>4, RankValues DEF Plugins
<1> HIDE DEF a3
<1>6. Upto(a4, 4)
  BY <1>2, <1>5, RankValues DEF Plugins
<1> HIDE DEF a4
<1>7. Upto(a5, 5)
  BY <1>2, <1>6, RankValues DEF Plugins
<1> HIDE DEF a5
<1>8. Upto(a6, 6)
  BY <1>2, <1>7, RankValues DEF Plugins
<1>9. resolveAll = a6
  BY DEF resolveAll, a1, a2, a3, a4, a5, a6
<1> QED BY <1>8, <1>9 DEF Upto

\* One more started, and the order turned round.
LEMMA StartOrder ==
    ASSUME NEW s \in Seq(Plugins), NEW e \in Plugins
    PROVE  /\ Elems(Append(s, e)) = Elems(s) \cup {e}
           /\ Increasing(s) /\ (\A a \in Elems(s) : Rank[a] < Rank[e]) => Increasing(Append(s, e))
<1>1. <<e>> \in Seq(Plugins) /\ Elems(<<e>>) = {e} /\ Increasing(<<e>>) /\ Append(s, e) = s \o <<e>>
  BY DEF Elems, Increasing
<1> QED BY <1>1, ConcatOrder

\* Stopping in reverse.
LEMMA StopOrder ==
    ASSUME NEW s \in Seq(Plugins)
    PROVE  Elems(Reverse(s)) = Elems(s) /\ (Increasing(s) => Decreasing(Reverse(s)))
<1> DEFINE v == Reverse(s)
<1>1. /\ Len(s) \in Nat /\ v = [i \in 1..Len(s) |-> s[(Len(s) - i) + 1]]
  BY DEF Reverse
<1>2. Len(v) = Len(s) /\ \A i \in 1..Len(s) : v[i] = s[(Len(s) - i) + 1] /\ (Len(s) - i) + 1 \in 1..Len(s)
  BY <1>1
<1> HIDE DEF v
<1>3. Elems(v) = Elems(s)
  <2>1. Elems(v) \subseteq Elems(s)
    BY <1>2 DEF Elems
  <2>2. \A i \in 1..Len(s) : (Len(s) - i) + 1 \in 1..Len(s) /\ v[(Len(s) - i) + 1] = s[i]
    <3> SUFFICES ASSUME NEW i \in 1..Len(s)
                 PROVE  (Len(s) - i) + 1 \in 1..Len(s) /\ v[(Len(s) - i) + 1] = s[i]
      OBVIOUS
    <3>1. (Len(s) - ((Len(s) - i) + 1)) + 1 = i
      BY <1>1
    <3> QED BY <1>2, <3>1
  <2>3. Elems(s) \subseteq Elems(v)
    BY <1>2, <2>2 DEF Elems
  <2> QED BY <2>1, <2>3
<1>4. ASSUME Increasing(s), NEW i \in 1..Len(v), NEW j \in 1..Len(v), i < j
      PROVE  Rank[v[i]] > Rank[v[j]]
  <2>1. (Len(s) - j) + 1 < (Len(s) - i) + 1
    BY <1>1, <1>2, <1>4
  <2>2. Rank[s[(Len(s) - j) + 1]] < Rank[s[(Len(s) - i) + 1]]
    BY <2>1, <1>2, <1>4 DEF Increasing
  <2>3. Rank[v[j]] < Rank[v[i]]
    BY <1>2, <2>2, SMTT(60)
  <2>4. v[i] \in Plugins /\ v[j] \in Plugins
    BY <1>2
  <2> QED BY <2>3, <2>4, RankType
<1> QED BY <1>3, <1>4 DEF v, Decreasing

-----------------------------------------------------------------------------
(* Shutdown.                                                                  *)

\* The initial state.
LEMMA InitShutdown == Init => Shutdown
<1> SUFFICES ASSUME Init PROVE Shutdown
  OBVIOUS
<1>1. Elems(m_started) = {} /\ Increasing(m_started)
  BY DEF Init, Elems, Increasing
<1>2. main.pc = "start" /\ main.left = resolveAll /\ loaded \in Loads
  BY DEF Init
<1>3. Increasing(resolveAll) /\ Elems(resolveAll) \subseteq loaded
  BY <1>2, ResolveOrder
<1>4. Ordered
  BY <1>1, <1>2, <1>3 DEF Ordered, Starting, Stopping
<1>5. Joining
  BY <1>2 DEF Joining
<1>6. Alive /\ Listed /\ CutLate
  BY DEF Init, Alive, Listed, CutLate
<1> QED BY <1>4, <1>5, <1>6 DEF Shutdown

\* Steps that leave main() and what it has started alone.
LEMMA ShutdownQuiet ==
    ASSUME Shutdown, UNCHANGED <<loaded, main, m_started, up>>,
           \A t \in Io : io'[t].pc # "off" => io[t].pc # "off",
           serve.pc = "ended" => serve'.pc = "ended",
           serve.pc = "off" => serve'.pc = "off",
           serve'.pc \in {"accept", "register"} => serve.pc \in {"accept", "register"},
           \A x \in Sess : sess'[x].pc # "free" => sess[x].pc # "free" \/ serve.pc \in {"accept", "register"},
           \A c \in Conns : conn'[c].st = "cut" => conn[c].st = "cut",
           Listed'
    PROVE  Shutdown'
<1>1. Pending' = Pending /\ (Stopping' <=> Stopping) /\ (nfsUp' <=> nfsUp) /\ (Starting' <=> Starting)
  BY DEF Pending, Stopping, Starting, nfsUp, Elems
<1>2. Ordered'
  BY <1>1 DEF Shutdown, Ordered, Elems, Increasing, Decreasing
<1>3. Joining'
  BY DEF Shutdown, Joining
<1>4. Alive'
  <2>1. Elems(m_started)' = Elems(m_started)
    BY DEF Elems
  <2> QED BY <1>1, <2>1 DEF Shutdown, Alive
<1>5. CutLate'
  BY <1>1 DEF Shutdown, CutLate
<1> QED BY <1>2, <1>3, <1>4, <1>5 DEF Shutdown

\* The io threads' steps.
LEMMA IoShutdown == \A t \in Io : Types /\ Serves /\ Shutdown /\ IoNext(t) => Shutdown'
<1> SUFFICES ASSUME NEW t \in Io, Types, Serves, Shutdown, IoNext(t) PROVE Shutdown'
  OBVIOUS
<1>1. UNCHANGED <<loaded, main, m_started, up, serve, sess>>
  BY DEF IoNext, Take, Enter, Reply, IoExit, Leave
<1>2. \A u \in Io : io'[u].pc # "off" => io[u].pc # "off"
  <2>1. \A u \in Io \ {t} : io'[u] = io[u]
    BY DEF Types, IoNext, Take, Enter, Reply, IoExit, Leave
  <2>2. io[t].pc # "off"
    BY DEF IoNext, Take, Enter, Reply, IoExit, Leave
  <2> QED BY <2>1, <2>2
<1>3. \A c \in Conns : conn'[c].st = "cut" => conn[c].st = "cut"
  <2>1. conn' = conn \/ \E c \in Conns, st \in {"serving", "idle", "lost"} : conn' = [conn EXCEPT ![c].st = st]
    <3>1. CASE Reply(t)
      <4>1. io[t].conn \in Conns
        BY <3>1 DEF Reply, Serves
      <4> QED BY <3>1, <4>1 DEF Reply
    <3>2. CASE \E c \in Conns, op \in Procs, n \in 1..MaxOps : Take(t, c, op, n)
      BY <3>2 DEF Take
    <3>3. CASE Enter(t) \/ IoExit(t) \/ \E op \in Procs, ok \in BOOLEAN : Leave(t, op, ok)
      BY <3>3 DEF Enter, IoExit, Leave
    <3> QED BY <3>1, <3>2, <3>3 DEF IoNext
  <2>2. ASSUME NEW c \in Conns, NEW st \in {"serving", "idle", "lost"},
               conn' = [conn EXCEPT ![c].st = st], NEW d \in Conns, conn'[d].st = "cut"
        PROVE  conn[d].st = "cut"
    <3>1. [conn[c] EXCEPT !.st = st].st = st
      BY MovesOn DEF Types, ConnSts
    <3> QED BY <2>2, <3>1 DEF Types
  <2> QED BY <2>1, <2>2
<1>4. Listed'
  BY <1>1 DEF Shutdown, Listed
<1> QED BY <1>1, <1>2, <1>3, <1>4, ShutdownQuiet

\* The console's and the clients'.
LEMMA ClientShutdown ==
    Types /\ Shutdown /\ (ServeNext \/ ClientNext \/ \E x \in Sess : SessNext(x) \/ Drain(x)) => Shutdown'
<1> SUFFICES ASSUME Types, Shutdown, ServeNext \/ ClientNext \/ \E x \in Sess : SessNext(x) \/ Drain(x)
             PROVE  Shutdown'
  OBVIOUS
<1>l. \A x \in Sess : sess[x].pc # "free" => sess[x].listed \/ serve = [pc |-> "register", new |-> x]
  BY DEF Shutdown, Listed
<1>1. CASE Register
  <2>1. /\ UNCHANGED <<loaded, main, m_started, up, io, conn>>
        /\ serve.pc = "register" /\ serve'.pc = "accept"
    BY <1>1 DEF Register, Types
  <2>2. ASSUME NEW x \in Sess, sess'[x].pc # "free" PROVE sess'[x].listed /\ sess[x].pc # "free"
    <3>1. CASE x \in reap
      <4>1. sess'[x].pc = "free"
        BY <1>1, <3>1 DEF Register, Types, SessT, reap
      <4> QED BY <2>2, <4>1
    <3>2. CASE x \notin reap /\ x = serve.new
      <4>1. sess'[x] = [sess[x] EXCEPT !.listed = TRUE]
        BY <1>1, <3>2 DEF Register
      <4> QED BY <2>2, <4>1 DEF Types, SessT
    <3>3. CASE x \notin reap /\ x # serve.new
      <4>1. sess'[x] = sess[x]
        BY <1>1, <3>3 DEF Register
      <4>2. serve # [pc |-> "register", new |-> x]
        BY <3>3
      <4> QED BY <2>2, <4>1, <4>2, <1>l
    <3> QED BY <3>1, <3>2, <3>3
  <2>3. Listed'
    BY <2>2 DEF Listed
  <2> QED BY <2>1, <2>2, <2>3, ShutdownQuiet
<1>2. CASE ServeEnds
  <2>1. /\ UNCHANGED <<loaded, main, m_started, up, io, conn, sess>>
        /\ serve.pc = "accept" /\ serve'.pc = "ended"
    BY <1>2 DEF ServeEnds, Types
  <2>2. \A x \in Sess : serve # [pc |-> "register", new |-> x]
    BY <2>1
  <2>3. Listed'
    BY <2>1, <2>2, <1>l DEF Listed
  <2> QED BY <2>1, <2>3, ShutdownQuiet
<1>3. ASSUME NEW c \in Conns, Connect(c) \/ Send(c) \/ Disconnect(c) PROVE Shutdown'
  <2>1. UNCHANGED <<loaded, main, m_started, up, io, sess, serve>>
    BY <1>3 DEF Connect, Send, Disconnect
  <2>2. \A d \in Conns : conn'[d].st = "cut" => conn[d].st = "cut"
    <3>1. CASE Send(c)
      <4>1. conn' = [conn EXCEPT ![c].st = "sent"] /\ [conn[c] EXCEPT !.st = "sent"].st = "sent"
        BY <3>1, MovesOn DEF Send, Types, ConnSts
      <4> QED BY <4>1 DEF Types
    <3>2. CASE Connect(c)
      BY <3>2 DEF Connect, Types
    <3>3. CASE Disconnect(c)
      BY <3>3 DEF Disconnect, Types
    <3> QED BY <1>3, <3>1, <3>2, <3>3
  <2>3. Listed'
    BY <2>1, <1>l DEF Listed
  <2> QED BY <2>1, <2>2, <2>3, ShutdownQuiet
<1>4. ASSUME NEW x \in Sess, Accept(x) PROVE Shutdown'
  <2>1. /\ UNCHANGED <<loaded, main, m_started, up, io, conn>>
        /\ serve.pc = "accept" /\ serve' = [pc |-> "register", new |-> x]
        /\ \A y \in Sess \ {x} : sess'[y] = sess[y]
    BY <1>4 DEF Accept, Types
  <2>2. \A y \in Sess : serve # [pc |-> "register", new |-> y]
    BY <2>1
  <2>3. Listed'
    BY <2>1, <2>2, <1>l DEF Listed
  <2> QED BY <2>1, <2>3, ShutdownQuiet
<1>5. ASSUME NEW x \in Sess, NEW from \in SessPcs \ {"free"}, NEW to \in SessPcs, SessStep(x, from, to)
      PROVE  Shutdown'
  <2>1. /\ UNCHANGED <<loaded, main, m_started, up, io, conn, serve>>
        /\ sess[x].pc = from
        /\ \A y \in Sess : sess'[y].listed = sess[y].listed /\ (y # x => sess'[y] = sess[y])
    BY <1>5, MovesOn DEF SessStep, Types
  <2>2. \A y \in Sess : sess'[y].pc # "free" => sess[y].pc # "free"
    BY <2>1, <1>5
  <2>3. Listed'
    BY <2>1, <2>2, <1>l DEF Listed
  <2> QED BY <2>1, <2>2, <2>3, ShutdownQuiet
<1>6. ASSUME NEW x \in Sess,
             \/ Line(x) \/ Hangup(x) \/ Recv(x) \/ Eval(x) \/ Output(x) \/ Drain(x) \/ SendFails(x)
             \/ CloseFd(x) \/ Done(x)
      PROVE  Shutdown'
  <2>1. \E from \in SessPcs \ {"free"}, to \in SessPcs : SessStep(x, from, to)
    BY <1>6 DEF Line, Hangup, Recv, Eval, Output, Drain, SendFails, CloseFd, Done, SessPcs
  <2> QED BY <2>1, <1>5
<1> QED BY <1>1, <1>2, <1>3, <1>4, <1>6 DEF ServeNext, ClientNext, SessNext

\* The steps of main() before it begins to stop services.
LEMMA StartShutdown ==
    Types /\ Shutdown /\ (StartAccess \/ (\E ok \in BOOLEAN : StartService(ok)) \/ Serving \/ Test
                              \/ Pause \/ Signal)
        => Shutdown'
<1> SUFFICES ASSUME Types, Shutdown,
                    \/ StartAccess \/ (\E ok \in BOOLEAN : StartService(ok)) \/ Serving \/ Test
                    \/ Pause \/ Signal
             PROVE  Shutdown'
  OBVIOUS
<1>p. /\ Ordered /\ Joining /\ Alive /\ Listed /\ CutLate
      /\ main.left \in Seq(Plugins) /\ m_started \in Seq(Plugins)
  BY DEF Shutdown, Types
\* The running process: nothing but main.pc moves, and main.left is empty.
<1>r. ASSUME UNCHANGED <<loaded, m_started, up, io, conn, serve, sess>>,
             ~Stopping, ~Stopping', Starting' => Starting /\ main'.left = main.left,
             Elems(main'.left) \subseteq loaded
      PROVE  Shutdown'
  <2>1. Pending' = Pending /\ (nfsUp' <=> nfsUp)
    BY <1>r DEF Pending, Stopping, nfsUp, Elems
  <2>2. Ordered'
    BY <1>r, <1>p DEF Ordered, Elems, Increasing, Stopping
  <2>3. Joining'
    BY <1>r DEF Joining, Stopping
  <2>4. Alive'
    BY <1>r, <1>p, <2>1 DEF Alive, Elems
  <2>5. Listed' /\ CutLate'
    BY <1>r, <1>p DEF Listed, CutLate
  <2> QED BY <2>2, <2>3, <2>4, <2>5 DEF Shutdown
<1>e. Elems(<<>>) = {}
  BY DEF Elems
<1>1. CASE StartAccess
  <2>1. /\ UNCHANGED <<loaded, m_started, up, io, conn, serve, sess>>
        /\ main.pc = "start" /\ main'.pc = "access" /\ main'.left = main.left
    BY <1>1 DEF StartAccess, Types
  <2> QED BY <2>1, <1>r, <1>p DEF Stopping, Starting, Ordered
<1>2. CASE Pause \/ Signal
  <2>1. /\ UNCHANGED <<loaded, m_started, up, io, conn, serve, sess>>
        /\ main.pc \in {"test", "pausing", "paused"} /\ main'.pc \in {"test", "pausing", "paused"}
        /\ main'.left = main.left \/ main'.left = <<>>
    BY <1>2 DEF Pause, Signal, MainStep, Types
  <2> QED BY <2>1, <1>r, <1>p, <1>e DEF Stopping, Starting, Ordered
<1>3. CASE main.pc = "start" /\ main.left = <<>> /\ MainStep("test", <<>>)
  <2>1. /\ UNCHANGED <<loaded, m_started, up, io, conn, serve, sess>>
        /\ main'.pc = "test" /\ main'.left = <<>>
    BY <1>3 DEF MainStep
  <2> QED BY <2>1, <1>3, <1>r, <1>e DEF Stopping, Starting
<1>4. CASE main.pc = "test" /\ MainStep("pausing", <<>>)
  <2>1. /\ UNCHANGED <<loaded, m_started, up, io, conn, serve, sess>>
        /\ main'.pc = "pausing" /\ main'.left = <<>>
    BY <1>4 DEF MainStep
  <2> QED BY <2>1, <1>4, <1>r, <1>e DEF Stopping, Starting
\* Stopping begins with everything that was started still to be stopped.
<1>5. ASSUME NEW left \in Seq(Plugins), MainStep("stop", left), ~Stopping,
             Elems(left) = Elems(m_started), Decreasing(left)
      PROVE  Shutdown'
  <2>1. /\ UNCHANGED <<loaded, m_started, up, io, conn, serve, sess>>
        /\ main'.pc = "stop" /\ main'.left = left
    BY <1>5 DEF MainStep
  <2>2. Pending' = Pending
    BY <2>1, <1>5 DEF Pending, Stopping, Elems
  <2>3. Ordered'
    <3>1. /\ Elems(main.left)' = Elems(m_started) /\ Elems(m_started)' = Elems(m_started)
          /\ Increasing(m_started)' = Increasing(m_started)
          /\ Decreasing(main.left)' /\ ~Starting'
      BY <2>1, <1>5 DEF Elems, Increasing, Decreasing, Starting
    <3> QED BY <2>1, <3>1, <1>p DEF Ordered
  <2>4. Joining'
    BY <2>1 DEF Joining
  <2>5. Alive'
    BY <2>1, <2>2, <1>p DEF Alive, Elems
  <2>6. Listed'
    BY <2>1, <1>p DEF Listed
  <2>7. CutLate'
    BY <2>1, <1>p, <1>5 DEF CutLate
  <2> QED BY <2>3, <2>4, <2>5, <2>6, <2>7 DEF Shutdown
<1>6. CASE Serving
  <2>1. CASE loaded = {}
    <3>1. Elems(m_started) = {} /\ Decreasing(<<>>) /\ <<>> \in Seq(Plugins)
      BY <2>1, <1>p DEF Ordered, Decreasing
    <3>2. MainStep("stop", <<>>) /\ ~Stopping
      BY <1>6, <2>1 DEF Serving, Stopping
    <3> QED BY <3>1, <3>2, <1>5, <1>e
  <2>2. CASE loaded # {}
    BY <1>6, <2>2, <1>3 DEF Serving
  <2> QED BY <2>1, <2>2
<1>7. CASE Test
  <2>1. CASE g_stop
    <3>1. MainStep("stop", stopOrder) /\ ~Stopping
      BY <1>7, <2>1 DEF Test, Stopping
    <3>2. Elems(stopOrder) = Elems(m_started) /\ Decreasing(stopOrder)
      BY <1>p, StopOrder DEF stopOrder, Ordered
    <3>3. stopOrder \in Seq(Plugins)
      BY <1>p DEF stopOrder, Reverse
    <3> QED BY <3>1, <3>2, <3>3, <1>5
  <2>2. CASE ~g_stop
    BY <1>7, <2>2, <1>4 DEF Test
  <2> QED BY <2>1, <2>2
<1>8. CASE \E ok \in BOOLEAN : StartService(ok)
  <2> PICK ok \in BOOLEAN : StartService(ok)
    BY <1>8
  <2> DEFINE s == Head(main.left)
  <2>0. main.left # <<>> /\ Starting
    BY DEF StartService, Starting
  <2>1. /\ main' = [pc |-> "start", left |-> Tail(main.left)]
        /\ m_started' = IF ok THEN Append(m_started, s) ELSE m_started
        /\ up' = IF ok THEN up \cup {s} ELSE up
        /\ io' = IF ok /\ s \in Nfs THEN [t \in Io |-> [io[t] EXCEPT !.pc = "idle"]] ELSE io
        /\ serve' = IF ok /\ s = "luactl" THEN [serve EXCEPT !.pc = "accept"] ELSE serve
        /\ UNCHANGED <<loaded, conn, sess>>
    BY DEF StartService, Nfs
  <2>2. /\ s \in Plugins
        /\ Elems(main.left) = {s} \cup Elems(Tail(main.left))
        /\ Increasing(Tail(main.left))
        /\ \A b \in Elems(Tail(main.left)) : Rank[s] < Rank[b]
    BY <2>0, <1>p, TailOrder DEF Ordered
  <2>3. \A a \in Elems(m_started) : Rank[a] < Rank[s]
    BY <2>0, <2>2, <1>p DEF Ordered
  <2>4. /\ Elems(Append(m_started, s)) = Elems(m_started) \cup {s}
        /\ Increasing(Append(m_started, s))
    BY <2>2, <2>3, <1>p, StartOrder DEF Ordered
  <2> HIDE DEF s
  <2>5. /\ Elems(m_started)' = (IF ok THEN Elems(m_started) \cup {s} ELSE Elems(m_started))
        /\ Increasing(m_started)'
    <3>1. Elems(m_started)' = Elems(m_started') /\ (Increasing(m_started)' <=> Increasing(m_started'))
      BY DEF Elems, Increasing
    <3> QED BY <2>1, <2>4, <3>1, <1>p DEF Ordered
  <2>6. main'.pc = "start" /\ main'.left = Tail(main.left) /\ Starting' /\ ~Stopping' /\ ~Stopping
    BY <2>0, <2>1 DEF Starting, Stopping
  <2>7. Pending = Elems(m_started) /\ Pending' = Elems(m_started)'
    BY <2>6 DEF Pending
  <2>8. Ordered'
    <3>1. Elems(main.left)' = Elems(Tail(main.left)) /\ (Increasing(main.left)' <=> Increasing(Tail(main.left)))
      BY <2>6 DEF Elems, Increasing
    <3>2. \A a \in Elems(m_started)', b \in Elems(main.left)' : Rank[a] < Rank[b]
      BY <2>0, <2>2, <2>5, <3>1, <1>p DEF Ordered
    <3> QED BY <2>1, <2>2, <2>5, <2>6, <3>1, <3>2, <1>p DEF Ordered
  <2>9. Joining'
    BY <2>6 DEF Joining
  <2>10. Alive'
    <3>1. up' \subseteq Pending'
      BY <2>1, <2>5, <2>7, <1>p DEF Alive
    <3>2. (\E t \in Io : io'[t].pc # "off") => Nfs \cap Pending' # {}
      BY <2>1, <2>5, <2>7, <1>p DEF Alive
    <3>3. "luactl" \notin Elems(m_started)' => serve'.pc = "off"
      BY <2>1, <2>5, <1>p DEF Alive
    <3>4. serve'.pc \in {"accept", "register"} \/ (\E x \in Sess : sess'[x].pc # "free")
             => "luactl" \in Pending'
      BY <2>1, <2>5, <2>7, <1>p DEF Alive
    <3> QED BY <3>1, <3>2, <3>3, <3>4 DEF Alive
  <2>11. Listed'
    <3>1. CASE ok /\ s = "luactl"
      <4>1. "luactl" \notin Elems(m_started)
        BY <2>2, <2>3, <3>1, RankType
      <4>2. \A x \in Sess : sess[x].pc = "free"
        BY <4>1, <2>7, <1>p DEF Alive
      <4> QED BY <4>2, <2>1 DEF Listed
    <3>2. CASE ~(ok /\ s = "luactl")
      BY <3>2, <2>1, <1>p DEF Listed
    <3> QED BY <3>1, <3>2
  <2>12. CutLate'
    BY <2>1, <2>6, <1>p DEF CutLate
  <2> QED BY <2>8, <2>9, <2>10, <2>11, <2>12 DEF Shutdown
<1> QED BY <1>1, <1>2, <1>6, <1>7, <1>8

\* The steps with which main() stops and joins services.
LEMMA StopShutdown ==
    Types /\ Serves /\ Shutdown /\ (StopService \/ JoinIo \/ JoinServe \/ JoinSess \/ Exit) => Shutdown'
<1> SUFFICES ASSUME Types, Serves, Shutdown, StopService \/ JoinIo \/ JoinServe \/ JoinSess \/ Exit
             PROVE  Shutdown'
  OBVIOUS
<1>p. /\ Ordered /\ Joining /\ Alive /\ Listed /\ CutLate
      /\ main.left \in Seq(Plugins) /\ m_started \in Seq(Plugins)
  BY DEF Shutdown, Types
<1>0. Stopping /\ Pending = Elems(main.left) /\ Decreasing(main.left)
  BY <1>p DEF StopService, JoinIo, JoinServe, JoinSess, Exit, Stopping, Pending, Ordered
<1>t. main.left # <<>> =>
        /\ Head(main.left) \in Plugins /\ Tail(main.left) \in Seq(Plugins)
        /\ Elems(main.left) = {Head(main.left)} \cup Elems(Tail(main.left))
        /\ Decreasing(Tail(main.left))
        /\ \A b \in Elems(Tail(main.left)) : Rank[Head(main.left)] > Rank[b]
  BY <1>p, <1>0, TailOrder
\* The order, whatever main() does next.
<1>o. ASSUME UNCHANGED <<loaded, m_started>>, Stopping', main'.pc = "exited" => main'.left = <<>>,
             main'.left = main.left \/ (main.left # <<>> /\ main'.left = Tail(main.left))
      PROVE  Ordered' /\ Pending' = Elems(main'.left)
  <2>1. Pending' = Elems(main'.left) /\ Elems(main.left)' = Elems(main'.left)
    BY <1>o DEF Pending, Stopping, Elems
  <2>2. Elems(main'.left) \subseteq loaded /\ Decreasing(main'.left)
    BY <1>o, <1>t, <1>p, <1>0 DEF Ordered
  <2>3. ~Starting'
    BY <1>o DEF Starting, Stopping
  <2>4. (Decreasing(main.left)' <=> Decreasing(main'.left)) /\ Elems(m_started)' = Elems(m_started)
        /\ (Increasing(m_started)' <=> Increasing(m_started))
    BY <1>o DEF Decreasing, Increasing, Elems
  <2>5. Ordered'
    BY <1>o, <2>1, <2>2, <2>3, <2>4, <1>p DEF Ordered
  <2> QED BY <2>1, <2>5
<1>1. CASE StopService
  <2> DEFINE s == Head(main.left)
  <2>1. /\ main.pc = "stop" /\ main.left # <<>> /\ up' = up \ {s}
        /\ main' = [main EXCEPT !.pc = CASE s \in {"nfsv3", "nfsv4"} -> "joinIo"
                                         [] s = "luactl"           -> "joinServe"
                                         [] OTHER                  -> "stop",
                                !.left = IF s \in {"luactl", "nfsv3", "nfsv4"} THEN main.left
                                         ELSE Tail(main.left)]
        /\ UNCHANGED <<loaded, m_started, io, conn, serve, sess>>
    BY <1>1 DEF StopService
  <2> HIDE DEF s
  <2>2. /\ main'.pc = (CASE s \in {"nfsv3", "nfsv4"} -> "joinIo" [] s = "luactl" -> "joinServe"
                         [] OTHER -> "stop")
        /\ main'.left = IF s \in {"luactl", "nfsv3", "nfsv4"} THEN main.left ELSE Tail(main.left)
    BY <2>1 DEF Types
  <2>3. /\ s \in Nfs => main'.pc = "joinIo" /\ main'.left = main.left
        /\ s = "luactl" => main'.pc = "joinServe" /\ main'.left = main.left
        /\ s \notin Nfs \cup {"luactl"} => main'.pc = "stop" /\ main'.left = Tail(main.left)
    BY <2>2 DEF Nfs
  <2>4. Ordered' /\ Pending' = Elems(main'.left)
    BY <2>1, <2>3, <1>o DEF Stopping
  <2>5. Joining'
    BY <2>1, <2>3 DEF Joining, s
  <2>6. Pending' = Pending \/ (Pending \subseteq {s} \cup Pending' /\ s \notin Nfs \cup {"luactl"})
    BY <2>1, <2>3, <2>4, <1>0, <1>t DEF s
  <2>7. Alive'
    <3>1. up' \subseteq Pending'
      BY <2>1, <2>6, <1>p DEF Alive
    <3>2. (\E t \in Io : io'[t].pc # "off") => Nfs \cap Pending' # {}
      BY <2>1, <2>6, <1>p DEF Alive
    <3>3. "luactl" \notin Elems(m_started)' => serve'.pc = "off"
      BY <2>1, <1>p DEF Alive, Elems
    <3>4. serve'.pc \in {"accept", "register"} \/ (\E x \in Sess : sess'[x].pc # "free")
             => "luactl" \in Pending'
      BY <2>1, <2>6, <1>p DEF Alive
    <3> QED BY <3>1, <3>2, <3>3, <3>4 DEF Alive
  <2>8. Listed'
    BY <2>1, <1>p DEF Listed
  <2>9. CutLate'
    BY <2>1, <2>3, <1>p DEF CutLate, Stopping, nfsUp
  <2> QED BY <2>4, <2>5, <2>7, <2>8, <2>9 DEF Shutdown
<1>2. CASE JoinIo
  <2>1. /\ main.pc = "joinIo" /\ \A t \in Io : io[t].pc = "off"
        /\ main'.pc = "stop" /\ main'.left = Tail(main.left)
        /\ UNCHANGED <<loaded, m_started, up, io, conn, serve, sess>>
    BY <1>2 DEF JoinIo, NextStop
  <2>2. main.left # <<>> /\ Head(main.left) \in Nfs \ up
    BY <2>1, <1>p DEF Serves, Joining
  <2>3. Ordered' /\ Pending' = Elems(main'.left)
    BY <2>1, <2>2, <1>o DEF Stopping
  <2>4. Pending = {Head(main.left)} \cup Pending'
    BY <2>1, <2>2, <2>3, <1>0, <1>t
  <2>5. Alive'
    <3>1. up' \subseteq Pending'
      BY <2>1, <2>2, <2>4, <1>p DEF Alive
    <3>2. "luactl" \notin Elems(m_started)' => serve'.pc = "off"
      BY <2>1, <1>p DEF Alive, Elems
    <3>3. serve'.pc \in {"accept", "register"} \/ (\E x \in Sess : sess'[x].pc # "free")
             => "luactl" \in Pending'
      BY <2>1, <2>2, <2>4, <1>p DEF Alive, Nfs
    <3> QED BY <2>1, <3>1, <3>2, <3>3 DEF Alive
  <2>6. Joining' /\ Listed' /\ CutLate'
    BY <2>1, <1>p DEF Joining, Listed, CutLate, Stopping, nfsUp
  <2> QED BY <2>3, <2>5, <2>6 DEF Shutdown
<1>3. CASE JoinServe
  <2>1. /\ main.pc = "joinServe" /\ serve.pc = "ended"
        /\ main'.pc = "joinSess" /\ main'.left = main.left
        /\ UNCHANGED <<loaded, m_started, up, io, serve>>
    BY <1>3 DEF JoinServe, Types
  <2>2. \A x \in Sess : sess'[x].pc = sess[x].pc /\ sess'[x].listed = sess[x].listed
    BY <1>3 DEF JoinServe, shutdownFds, Types, SessT
  <2>3. Ordered' /\ Pending' = Pending
    BY <2>1, <1>0, <1>o DEF Stopping
  <2>4. Joining'
    BY <2>1, <1>p DEF Joining
  <2>5. Alive'
    BY <2>1, <2>2, <2>3, <1>p DEF Alive, Elems
  <2>6. Listed'
    BY <2>1, <2>2, <1>p DEF Listed
  <2>7. ~nfsUp
    <3>1. main.left # <<>> /\ Head(main.left) = "luactl"
      BY <2>1, <1>p DEF Serves, Joining
    <3>2. Rank["luactl"] = 2 /\ Rank["nfsv3"] = 3 /\ Rank["nfsv4"] = 4
      BY RankValues
    <3>3. "nfsv3" \notin Elems(main.left) /\ "nfsv4" \notin Elems(main.left)
      <4>1. \A b \in Elems(Tail(main.left)) : 2 > Rank[b]
        BY <3>1, <3>2, <1>t
      <4> QED BY <3>1, <3>2, <4>1, <1>t
    <3> QED BY <3>3, <1>0, <1>p DEF Alive, nfsUp
  <2>8. CutLate'
    BY <2>1, <2>7 DEF CutLate, Stopping, nfsUp
  <2> QED BY <2>3, <2>4, <2>5, <2>6, <2>8 DEF Shutdown
<1>4. CASE JoinSess
  <2>1. /\ main.pc = "joinSess"
        /\ main'.pc = "stop" /\ main'.left = Tail(main.left)
        /\ UNCHANGED <<loaded, m_started, up, io, conn, serve>>
    BY <1>4 DEF JoinSess, NextStop
  <2>2. main.left # <<>> /\ Head(main.left) = "luactl" /\ "luactl" \notin up /\ serve.pc = "ended"
    BY <2>1, <1>p DEF Serves, Joining
  <2>3. Ordered' /\ Pending' = Elems(main'.left)
    BY <2>1, <2>2, <1>o DEF Stopping
  <2>4. Pending = {"luactl"} \cup Pending'
    BY <2>1, <2>2, <2>3, <1>0, <1>t
  <2>5. \A x \in Sess : sess'[x].pc = "free"
    <3> SUFFICES ASSUME NEW x \in Sess PROVE sess'[x].pc = "free"
      OBVIOUS
    <3>1. serve # [pc |-> "register", new |-> x]
      BY <2>2
    <3>2. CASE sess[x].listed
      BY <1>4, <3>2 DEF JoinSess, Types, SessT
    <3>3. CASE ~sess[x].listed
      BY <1>4, <1>p, <3>1, <3>3 DEF JoinSess, Listed
    <3> QED BY <3>2, <3>3
  <2>6. Alive'
    <3>1. up' \subseteq Pending'
      BY <2>1, <2>2, <2>4, <1>p DEF Alive
    <3>2. "luactl" \notin Elems(m_started)' => serve'.pc = "off"
      BY <2>1, <1>p DEF Alive, Elems
    <3>3. (\E t \in Io : io'[t].pc # "off") => Nfs \cap Pending' # {}
      BY <2>1, <2>4, <1>p DEF Alive, Nfs
    <3> QED BY <2>1, <2>2, <2>5, <3>1, <3>2, <3>3 DEF Alive
  <2>7. Joining' /\ Listed' /\ CutLate'
    BY <2>1, <2>5, <1>p DEF Joining, Listed, CutLate, Stopping, nfsUp
  <2> QED BY <2>3, <2>6, <2>7 DEF Shutdown
<1>5. CASE Exit
  <2>1. /\ main.pc = "stop" /\ main.left = <<>> /\ main'.pc = "exited" /\ main'.left = <<>>
        /\ UNCHANGED <<loaded, m_started, up, io, conn, serve, sess>>
    BY <1>5 DEF Exit, MainStep
  <2>2. Ordered' /\ Pending' = Pending
    BY <2>1, <1>0, <1>o DEF Stopping
  <2>3. Alive'
    BY <2>1, <2>2, <1>p DEF Alive, Elems
  <2>4. Joining' /\ Listed' /\ CutLate'
    BY <2>1, <1>p DEF Joining, Listed, CutLate, Stopping, nfsUp
  <2> QED BY <2>2, <2>3, <2>4 DEF Shutdown
<1> QED BY <1>1, <1>2, <1>3, <1>4, <1>5

\* Every step keeps threads and services to what main() has still to join.
LEMMA StepShutdown == Types /\ Serves /\ Shutdown /\ [Next]_vars => Shutdown'
<1>1. Shutdown /\ UNCHANGED vars => Shutdown'
  BY DEF vars, Shutdown, Ordered, Joining, Alive, Listed, CutLate, Pending, Starting, Stopping, Elems,
         Increasing, Decreasing, nfsUp
<1> QED BY <1>1, StartShutdown, StopShutdown, IoShutdown, ClientShutdown DEF Next, MainNext, Finished

-----------------------------------------------------------------------------
(* Handles.                                                                   *)

\* Every step keeps the handles of a COMPOUND its own.
LEMMA StepHandles == Types /\ HandleIsOwn /\ [Next]_vars => HandleIsOwn'
<1> SUFFICES ASSUME Types, HandleIsOwn, [Next]_vars PROVE HandleIsOwn'
  OBVIOUS
<1>1. CASE UNCHANGED <<io, t_fh>>
  BY <1>1 DEF HandleIsOwn
<1>2. CASE \E ok \in BOOLEAN : StartService(ok)
  <2>1. t_fh' = t_fh /\ (io' = io \/ io' = [t \in Io |-> [io[t] EXCEPT !.pc = "idle"]])
    BY <1>2 DEF StartService
  <2>2. \A t \in Io : [io[t] EXCEPT !.pc = "idle"].pc = "idle"
    BY MovesOn DEF Types, IoPcs
  <2> QED BY <2>1, <2>2 DEF HandleIsOwn
<1>3. ASSUME NEW t \in Io, IoNext(t) PROVE HandleIsOwn'
  <2>1. \A u \in Io \ {t} : io'[u] = io[u] /\ t_fh'[u] = t_fh[u]
    BY <1>3 DEF Types, IoNext, Take, Enter, Reply, IoExit, Leave, compound
  <2>2. io'[t].pc \in {"want", "in"} => t_fh'[t] \in {NoConn, io'[t].conn}
    <3>0. io[t] \in IoT /\ t_fh \in [Io -> Conns \cup {NoConn}] /\ io \in [Io -> IoT]
      BY DEF Types
    <3>1. CASE \E c \in Conns, op \in Procs, n \in 1..MaxOps : Take(t, c, op, n)
      BY <3>0, <3>1 DEF Take, compound
    <3>2. CASE Reply(t)
      BY <3>0, <3>2 DEF Reply
    <3>3. CASE IoExit(t)
      BY <3>0, <3>3, MovesOn DEF IoExit, IoPcs
    <3>4. CASE Enter(t)
      BY <3>0, <3>4, MovesOn DEF Enter, IoPcs, HandleIsOwn
    <3>5. ASSUME NEW op \in Procs, NEW ok \in BOOLEAN, Leave(t, op, ok)
          PROVE  io'[t].pc \in {"want", "in"} => t_fh'[t] \in {NoConn, io'[t].conn}
      <4>1. io'[t].conn = io[t].conn
        BY <3>0, <3>5 DEF Leave, IoT
      <4> QED BY <3>0, <3>5, <4>1 DEF Leave, HandleIsOwn
    <3> QED BY <1>3, <3>1, <3>2, <3>3, <3>4, <3>5 DEF IoNext
  <2> QED BY <2>1, <2>2 DEF HandleIsOwn
<1>4. \/ UNCHANGED <<io, t_fh>>
      \/ \E ok \in BOOLEAN : StartService(ok)
      \/ \E t \in Io : IoNext(t)
  <2>1. MainNext \/ Signal => UNCHANGED <<io, t_fh>> \/ \E ok \in BOOLEAN : StartService(ok)
    BY DEF MainNext, StartAccess, Serving, Test, Pause, StopService, JoinIo, JoinServe, JoinSess, Exit,
           MainStep, Signal
  <2>2. ServeNext \/ ClientNext => UNCHANGED <<io, t_fh>>
    BY DEF ServeNext, Register, ServeEnds, ClientNext, Connect, Send, Disconnect, Accept, Line, Hangup,
           SessStep
  <2>3. (\E x \in Sess : SessNext(x) \/ Drain(x)) => UNCHANGED <<io, t_fh>>
    BY DEF SessNext, Recv, Eval, Output, Drain, SendFails, CloseFd, Done, SessStep
  <2>4. UNCHANGED vars => UNCHANGED <<io, t_fh>>
    BY DEF vars
  <2> QED BY <2>1, <2>2, <2>3, <2>4 DEF Next, Finished
<1> QED BY <1>1, <1>2, <1>3, <1>4

-----------------------------------------------------------------------------
(* Theorems.                                                                  *)

\* What every reachable state of the process satisfies.
IndInv == Types /\ Serves /\ Guard /\ Shutdown /\ HandleIsOwn

\* The inductive invariant of the host process: the shapes of its variables, who holds the
\* store's mutex, which threads main() has still to join and whose handles a COMPOUND uses.
THEOREM ProcessInvariance == Spec => []IndInv
<1>1. Init => IndInv
  <2>1. Init => HandleIsOwn
    BY DEF Init, HandleIsOwn
  <2> QED BY <2>1, InitTypes, InitGuard, InitShutdown DEF IndInv
<1>2. IndInv /\ [Next]_vars => IndInv'
  BY StepTypes, StepGuard, StepShutdown, StepHandles DEF IndInv
<1> QED BY <1>1, <1>2, PTL DEF Spec

\* Types in range: in particular a client that connects always finds a free descriptor.
THEOREM ProcessTypes == Spec => []TypeOK
<1>1. IndInv => TypeOK
  <2> SUFFICES ASSUME IndInv PROVE TypeOK
    OBVIOUS
  <2>1. up \subseteq loaded
    BY DEF IndInv, Shutdown, Alive, Ordered, Pending
  <2>2. \A t \in Io : io[t].pc \in IoPcs
    BY DEF IndInv, Types, IoT
  <2>3. conn \in [Conns -> ConnT] /\ sess \in [Sess -> SessT]
    BY DEF IndInv, Types
  <2>4. main.pc \in MainPcs /\ serve.pc \in {"off", "accept", "register", "ended"}
    BY DEF IndInv, Types
  <2> QED BY <2>1, <2>2, <2>3, <2>4 DEF TypeOK, IndInv, Types, IoPcs, MainPcs, ConnT, ConnSts, SessT, SessPcs
<1> QED BY <1>1, ProcessInvariance, PTL

\* Whoever may change the store is alone in it, for any number of io threads and console
\* clients and every procedure and operation of the two front ends.
THEOREM StoreIsGuarded == Spec => []StoreGuarded
<1>1. IndInv => StoreGuarded
  BY GuardSuffices DEF IndInv
<1> QED BY <1>1, ProcessInvariance, PTL

\* A COMPOUND never sees a filehandle that another connection's COMPOUND left in its thread.
THEOREM HandlesAreOwn == Spec => []HandleIsOwn
<1>1. IndInv => HandleIsOwn
  BY DEF IndInv
<1> QED BY <1>1, ProcessInvariance, PTL

\* Stopping the console, with stale descriptors in its list, cuts no connection that a
\* front end still serves.
THEOREM ServedConnectionsSurvive == Spec => []CutsNoServedConnection
<1>1. IndInv => CutsNoServedConnection
  BY DEF IndInv, Shutdown, CutLate, CutsNoServedConnection
<1> QED BY <1>1, ProcessInvariance, PTL

\* When main() returns every thread has ended and nobody is inside the store.
THEOREM ExitIsClean == Spec => []ExitLeavesNoThread
<1>1. IndInv => ExitLeavesNoThread
  <2> SUFFICES ASSUME IndInv, main.pc = "exited"
               PROVE  /\ \A t \in Io : io[t].pc = "off"
                      /\ \A x \in Sess : sess[x].pc = "free"
                      /\ serve.pc \in {"off", "ended"}
                      /\ inside = {}
    BY DEF ExitLeavesNoThread
  <2>1. Pending = {}
    BY DEF IndInv, Shutdown, Ordered, Pending, Stopping, Elems
  <2>2. /\ \A t \in Io : io[t].pc = "off"
        /\ \A x \in Sess : sess[x].pc = "free"
        /\ serve.pc \notin {"accept", "register"}
    BY <2>1 DEF IndInv, Shutdown, Alive
  <2>3. serve.pc \in {"off", "ended"}
    BY <2>2 DEF IndInv, Types
  <2>4. inside = {}
    BY <2>2 DEF inside, startsIn
  <2> QED BY <2>2, <2>3, <2>4
<1> QED BY <1>1, ProcessInvariance, PTL
=============================================================================
