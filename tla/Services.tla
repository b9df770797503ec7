------------------------------- MODULE Services -------------------------------
(***************************************************************************)
(* The process prfs-host: main() starts the loaded services, sleeps until  *)
(* a signal and stops them; an NFS front end answers requests on its io    *)
(* threads; the Lua console has an accept thread and a thread per client.  *)
(* They share the store under one shared_mutex (host.storeMutex()).        *)
(*                                                                         *)
(* What an operation does to the store is left to the other modules: here  *)
(* it is only whether it may change it, and how the mutex is held.  A      *)
(* client's request, line or hang-up is an action of the environment, and  *)
(* so is a console client reading what it is sent.                         *)
(***************************************************************************)
EXTENDS Integers, Sequences, FiniteSets, SequencesExt

CONSTANTS
    Loads,     \* the sets of plugins a command line may load
    Io,        \* io threads of an NFS front end
    Conns,     \* NFS connections
    Sess,      \* console clients
    Procs,     \* the NFSv3 procedures and NFSv4 operations clients send
    MaxOps,    \* bound: operations in a COMPOUND
    MaxStimuli \* bound: what the clients do, counted together

ASSUME BoundsAssumption == MaxOps \in Nat \ {0} /\ MaxStimuli \in Nat
ASSUME PluginsAssumption ==
    \A L \in Loads : L \subseteq {"bigtree", "luactl", "nfsv3", "nfsv4", "null", "perf"}
ASSUME ClientsAssumption ==
    IsFiniteSet(Conns) /\ IsFiniteSet(Sess) /\ Conns \cap Sess = {}
\* The threads that may hold the mutex are told apart.
ASSUME ThreadsAssumption == /\ Io \cap Sess = {}
                            /\ (Io \cup Sess) \cap {"nobody", "main"} = {}

VARIABLES
    loaded,         \* the plugins of this process
    main,           \* [pc, left]: main(), and the services it has still to start or stop
    g_stop,
    m_started,      \* Loader::m_started
    up,             \* the services with m_running set
    writer, readers,\* holders of the store's mutex
    io,             \* io thread -> [pc, conn, op, left]
    t_fh,           \* io thread -> the connection whose COMPOUND set its current filehandle
    conn,           \* NFS connection -> [st, fd]
    serve,          \* the console's accept thread: [pc, new]
    sess,           \* console client -> [pc, fd, listed, shut]
    stimuli         \* what clients may still do

vars == <<loaded, main, g_stop, m_started, up, writer, readers, io, t_fh, conn, serve, sess,
          stimuli>>

Nobody == "nobody"
Main   == "main"
NoConn == "none"
Fds    == 1..Cardinality(Conns \cup Sess)

openSess(x) == sess[x].pc \in {"recv", "want", "eval", "send", "close"}
openConn(c) == conn[c].st # "none"

usedFds == {conn[c].fd : c \in {d \in Conns : openConn(d)}}
           \cup {sess[x].fd : x \in {y \in Sess : openSess(y)}}

\* The kernel hands out the lowest free descriptor.
freeFd == CHOOSE f \in Fds \ usedFds : \A g \in Fds \ usedFds : f <= g

\* The ranges of the variables.
TypeOK ==
    /\ loaded \in Loads
    /\ main.pc \in {"start", "access", "test", "pausing", "paused", "stop", "joinIo",
                    "joinServe", "joinSess", "exited"}
    /\ g_stop \in BOOLEAN
    /\ up \subseteq loaded
    /\ writer \in {Nobody, Main} \cup Io \cup Sess
    /\ readers \subseteq {Main} \cup Io
    /\ \A t \in Io : io[t].pc \in {"off", "idle", "want", "in", "reply"}
    /\ t_fh \in [Io -> Conns \cup {NoConn}]
    /\ conn \in [Conns -> [st : {"none", "idle", "sent", "serving", "lost", "cut"}, fd : {0} \cup Fds]]
    /\ serve.pc \in {"off", "accept", "register", "ended"}
    /\ sess \in [Sess -> [pc : {"free", "recv", "want", "eval", "send", "close", "closed", "done"},
                          fd : {0} \cup Fds, listed : BOOLEAN, shut : BOOLEAN]]
    /\ stimuli \in 0..MaxStimuli

-----------------------------------------------------------------------------
(* std::shared_mutex.                                                         *)

lockShared(t)    == writer = Nobody /\ readers' = readers \cup {t} /\ UNCHANGED writer
lockExclusive(t) == writer = Nobody /\ readers = {} /\ writer' = t /\ UNCHANGED readers
unlock(t)        == /\ writer' = IF writer = t THEN Nobody ELSE writer
                    /\ readers' = readers \ {t}

\* Mutant: OPEN, which may create, is taken for a read.
isMutatingNoOpen(op) ==
    op \in {"SETATTR", "WRITE", "CREATE", "MKDIR", "SYMLINK", "MKNOD", "REMOVE", "RMDIR", "RENAME",
            "LINK"}

\* The procedures (v3) and operations (v4) that take the mutex exclusively.
isMutating(op) ==
    op \in {"SETATTR", "WRITE", "CREATE", "MKDIR", "SYMLINK", "MKNOD", "REMOVE", "RMDIR", "RENAME",
            "LINK", "OPEN"}

\* The others of the two dispatch tables: the v4 operations that set the current
\* filehandle, those that ask for none, and the rest.
putOps   == {"PUTFH", "PUTROOTFH", "PUTPUBFH"}
stateOps == {"COMMIT", "OPEN_CONFIRM", "OPEN_DOWNGRADE", "CLOSE", "LOCKU", "RENEW", "SETCLIENTID",
             "SETCLIENTID_CONFIRM", "RELEASE_LOCKOWNER"}
readOps  == putOps \cup stateOps \cup
            {"NULL", "GETATTR", "READLINK", "LOOKUP", "ACCESS", "READ", "READDIR", "READDIRPLUS",
             "FSSTAT", "FSINFO", "PATHCONF", "SAVEFH", "RESTOREFH", "GETFH", "LOOKUPP", "LOCK", "LOCKT"}

\* What clients send is in one of the two tables.
ASSUME ProcsAssumption ==
    Procs \subseteq readOps \cup {"SETATTR", "WRITE", "CREATE", "MKDIR", "SYMLINK", "MKNOD", "REMOVE",
                                "RMDIR", "RENAME", "LINK", "OPEN"}

-----------------------------------------------------------------------------
(* main() and the Loader.                                                     *)

\* The registry is a map: services come in the order of their names.
named(s)   == IF s \in loaded THEN <<s>> ELSE <<>>
resolveAll == named("bigtree") \o named("luactl") \o named("nfsv3") \o named("nfsv4")
              \o named("null") \o named("perf")

\* How start() touches the store.  nfsv3 reads the content policy and null makes a
\* directory, neither with the mutex.
startAccess(s) == CASE s = "bigtree" -> "exclusive"
                    [] s = "perf"    -> "shared"
                    [] s = "nfsv3"   -> "read"
                    [] s = "null"    -> "write"
                    [] OTHER         -> "none"

StartAccess ==
    /\ main.pc = "start" /\ main.left # <<>>
    /\ CASE startAccess(Head(main.left)) = "exclusive" -> lockExclusive(Main)
         [] startAccess(Head(main.left)) = "shared"    -> lockShared(Main)
         [] OTHER -> startAccess(Head(main.left)) # "none" /\ UNCHANGED <<writer, readers>>
    /\ main' = [main EXCEPT !.pc = "access"]
    /\ UNCHANGED <<loaded, g_stop, m_started, up, io, t_fh, conn, serve, sess, stimuli>>

\* nfsv3 and nfsv4 read the same option for their port.
portFree(s) == s \in {"nfsv3", "nfsv4"} => up \cap {"nfsv3", "nfsv4"} = {}

\* start() returns; a service that fails is skipped.
StartService(ok) ==
    /\ main.left # <<>>
    /\ main.pc = (IF startAccess(Head(main.left)) = "none" THEN "start" ELSE "access")
    /\ LET s == Head(main.left) IN
       /\ ok => portFree(s)
       /\ m_started' = IF ok THEN Append(m_started, s) ELSE m_started
       /\ up' = IF ok THEN up \cup {s} ELSE up
       /\ io' = IF ok /\ s \in {"nfsv3", "nfsv4"} THEN [t \in Io |-> [io[t] EXCEPT !.pc = "idle"]] ELSE io
       /\ serve' = IF ok /\ s = "luactl" THEN [serve EXCEPT !.pc = "accept"] ELSE serve
    /\ unlock(Main)
    /\ main' = [pc |-> "start", left |-> Tail(main.left)]
    /\ UNCHANGED <<loaded, g_stop, t_fh, conn, sess, stimuli>>

\* Mutant: stopped in the order they were started.
stopOrderForward == m_started

stopOrder == Reverse(m_started)

MainStep(pc, left) ==
    /\ main' = [pc |-> pc, left |-> left]
    /\ UNCHANGED <<loaded, g_stop, m_started, up, writer, readers, io, t_fh, conn, serve, sess, stimuli>>

\* Every service has been asked to start; the handlers are installed.
Serving == /\ main.pc = "start" /\ main.left = <<>>
           /\ IF loaded = {} THEN MainStep("stop", <<>>) ELSE MainStep("test", <<>>)

\* Mutant: the flag is not looked at again after a signal.
TestOnce == main.pc = "test" /\ MainStep("pausing", <<>>)

\* while (!g_stop) pause();
Test  == /\ main.pc = "test"
         /\ IF g_stop THEN MainStep("stop", stopOrder) ELSE MainStep("pausing", <<>>)
Pause == main.pc = "pausing" /\ MainStep("paused", <<>>)

\* A signal wakes pause(); before pause() it only sets the flag.
Signal == /\ main.pc \in {"test", "pausing", "paused"}
          /\ g_stop' = TRUE
          /\ main' = [main EXCEPT !.pc = IF @ = "paused" THEN "test" ELSE @]
          /\ UNCHANGED <<loaded, m_started, up, writer, readers, io, t_fh, conn, serve, sess, stimuli>>

\* stop() of one service: the flag, then what wakes its threads.
StopService ==
    /\ main.pc = "stop" /\ main.left # <<>>
    /\ LET s == Head(main.left) IN
       /\ up' = up \ {s}
       /\ main' = [main EXCEPT !.pc = CASE s \in {"nfsv3", "nfsv4"} -> "joinIo"
                                         [] s = "luactl"           -> "joinServe"
                                         [] OTHER                  -> "stop",
                               !.left = IF s \in {"luactl", "nfsv3", "nfsv4"} THEN @ ELSE Tail(@)]
    /\ UNCHANGED <<loaded, g_stop, m_started, writer, readers, io, t_fh, conn, serve, sess, stimuli>>

NextStop == main' = [pc |-> "stop", left |-> Tail(main.left)]

JoinIo == /\ main.pc = "joinIo"
          /\ \A t \in Io : io[t].pc = "off"
          /\ NextStop
          /\ UNCHANGED <<loaded, g_stop, m_started, up, writer, readers, io, t_fh, conn, serve, sess,
                         stimuli>>

\* shutdown() of descriptor numbers, whoever has them now.
shutdownFds(fds) ==
    /\ sess' = [x \in Sess |-> IF openSess(x) /\ sess[x].fd \in fds
                               THEN [sess[x] EXCEPT !.shut = TRUE] ELSE sess[x]]
    /\ conn' = [c \in Conns |-> IF openConn(c) /\ conn[c].fd \in fds
                                THEN [conn[c] EXCEPT !.st = "cut"] ELSE conn[c]]

\* Mutant: the accept thread is not waited for.
JoinServeEarly ==
    /\ main.pc = "joinServe"
    /\ shutdownFds({sess[x].fd : x \in {y \in Sess : sess[y].listed}})
    /\ main' = [main EXCEPT !.pc = "joinSess"]
    /\ UNCHANGED <<loaded, g_stop, m_started, up, writer, readers, io, t_fh, serve, stimuli>>

\* The accept thread is joined, then every listed client is shut down.
JoinServe ==
    /\ main.pc = "joinServe"
    /\ serve.pc = "ended"
    /\ shutdownFds({sess[x].fd : x \in {y \in Sess : sess[y].listed}})
    /\ main' = [main EXCEPT !.pc = "joinSess"]
    /\ UNCHANGED <<loaded, g_stop, m_started, up, writer, readers, io, t_fh, serve, stimuli>>

JoinSess ==
    /\ main.pc = "joinSess"
    /\ \A x \in Sess : sess[x].listed => sess[x].pc = "done"
    /\ sess' = [x \in Sess |-> IF sess[x].listed
                               THEN [sess[x] EXCEPT !.pc = "free", !.listed = FALSE] ELSE sess[x]]
    /\ NextStop
    /\ UNCHANGED <<loaded, g_stop, m_started, up, writer, readers, io, t_fh, conn, serve, stimuli>>

Exit == main.pc = "stop" /\ main.left = <<>> /\ MainStep("exited", <<>>)

-----------------------------------------------------------------------------
(* The NFS front end.                                                         *)

\* The process serves clients until main() is done.
Stimulus == /\ stimuli > 0
            /\ main.pc # "exited"
            /\ stimuli' = stimuli - 1

nfsUp == up \cap {"nfsv3", "nfsv4"} # {}

\* The listener accepts.
Connect(c) ==
    /\ Stimulus
    /\ nfsUp
    /\ conn[c].st = "none"
    /\ conn' = [conn EXCEPT ![c] = [st |-> "idle", fd |-> freeFd]]
    /\ UNCHANGED <<loaded, main, g_stop, m_started, up, writer, readers, io, t_fh, serve, sess>>

Send(c) ==
    /\ Stimulus
    /\ conn[c].st = "idle"
    /\ conn' = [conn EXCEPT ![c].st = "sent"]
    /\ UNCHANGED <<loaded, main, g_stop, m_started, up, writer, readers, io, t_fh, serve, sess>>

\* The client goes away; the session coroutine ends and closes the socket.
Disconnect(c) ==
    /\ Stimulus
    /\ nfsUp
    /\ conn[c].st = "idle"
    /\ conn' = [conn EXCEPT ![c] = [st |-> "none", fd |-> 0]]
    /\ UNCHANGED <<loaded, main, g_stop, m_started, up, writer, readers, io, t_fh, serve, sess>>

\* Mutant: the handle of the COMPOUND this thread ran before is kept.
compoundKeepsFh(t) == UNCHANGED t_fh

\* compound(): the thread-local handles are reset.
compound(t) == t_fh' = [t_fh EXCEPT ![t] = NoConn]

\* A thread of the pool resumes a session whose message is complete.
Take(t, c, op, n) ==
    /\ nfsUp
    /\ io[t].pc = "idle"
    /\ conn[c].st = "sent"
    /\ "nfsv3" \in up => n = 1
    /\ conn' = [conn EXCEPT ![c].st = "serving"]
    /\ io' = [io EXCEPT ![t] = [pc |-> "want", conn |-> c, op |-> op, left |-> n - 1]]
    /\ compound(t)
    /\ UNCHANGED <<loaded, main, g_stop, m_started, up, writer, readers, serve, sess, stimuli>>

\* dispatch (v3) and doOp (v4): one procedure or operation under the mutex.
Enter(t) ==
    /\ io[t].pc = "want"
    /\ IF isMutating(io[t].op) THEN lockExclusive(t) ELSE lockShared(t)
    /\ io' = [io EXCEPT ![t].pc = "in"]
    /\ UNCHANGED <<loaded, main, g_stop, m_started, up, t_fh, conn, serve, sess, stimuli>>

\* A v4 operation on the current filehandle fails when there is none.
opFails(t) == "nfsv4" \in up /\ io[t].op \notin putOps \cup stateOps /\ t_fh[t] = NoConn

\* The operation returns, with an error (which the root's handle never gives) or not.
\* A COMPOUND goes on with its next one unless it failed.
Leave(t, op, ok) ==
    /\ io[t].pc = "in"
    /\ IF ok THEN ~opFails(t) ELSE io[t].op \notin {"PUTROOTFH", "PUTPUBFH"}
    /\ unlock(t)
    /\ t_fh' = IF ok /\ io[t].op \in putOps THEN [t_fh EXCEPT ![t] = io[t].conn] ELSE t_fh
    /\ io' = [io EXCEPT ![t] = IF io[t].left > 0 /\ ok
                               THEN [@ EXCEPT !.pc = "want", !.op = op, !.left = io[t].left - 1]
                               ELSE [@ EXCEPT !.pc = "reply"]]
    /\ UNCHANGED <<loaded, main, g_stop, m_started, up, conn, serve, sess, stimuli>>

\* The reply is written; once the context is stopped it may be left unsent.
Reply(t) ==
    /\ io[t].pc = "reply"
    /\ io' = [io EXCEPT ![t] = [pc |-> "idle", conn |-> NoConn, op |-> "NULL", left |-> 0]]
    /\ \/ conn' = [conn EXCEPT ![io[t].conn].st = "idle"]
       \/ ~nfsUp /\ conn' = [conn EXCEPT ![io[t].conn].st = "lost"]
    /\ UNCHANGED <<loaded, main, g_stop, m_started, up, writer, readers, t_fh, serve, sess, stimuli>>


\* m_ctx.stop(): run() returns between two handlers.
IoExit(t) ==
    /\ ~nfsUp
    /\ io[t].pc = "idle"
    /\ io' = [io EXCEPT ![t].pc = "off"]
    /\ UNCHANGED <<loaded, main, g_stop, m_started, up, writer, readers, t_fh, conn, serve, sess, stimuli>>

-----------------------------------------------------------------------------
(* The Lua console.                                                           *)

\* accept(): the client's thread starts before it is listed.
Accept(x) ==
    /\ Stimulus
    /\ "luactl" \in up
    /\ serve.pc = "accept"
    /\ sess[x].pc = "free"
    /\ sess' = [sess EXCEPT ![x] = [pc |-> "recv", fd |-> freeFd, listed |-> FALSE, shut |-> FALSE]]
    /\ serve' = [pc |-> "register", new |-> x]
    /\ UNCHANGED <<loaded, main, g_stop, m_started, up, writer, readers, io, t_fh, conn>>

\* The clients whose thread has set `done': joined and dropped.
reap == {x \in Sess : sess[x].listed /\ sess[x].pc = "done"}

Register ==
    /\ serve.pc = "register"
    /\ sess' = [x \in Sess |-> IF x \in reap
                               THEN [sess[x] EXCEPT !.pc = IF @ = "done" THEN "free" ELSE @, !.listed = FALSE]
                               ELSE IF x = serve.new THEN [sess[x] EXCEPT !.listed = TRUE] ELSE sess[x]]
    /\ serve' = [serve EXCEPT !.pc = "accept"]
    /\ UNCHANGED <<loaded, main, g_stop, m_started, up, writer, readers, io, t_fh, conn, stimuli>>

\* The listening socket is shut down and closed.
ServeEnds ==
    /\ serve.pc = "accept"
    /\ "luactl" \notin up
    /\ serve' = [serve EXCEPT !.pc = "ended"]
    /\ UNCHANGED <<loaded, main, g_stop, m_started, up, writer, readers, io, t_fh, conn, sess, stimuli>>

SessStep(x, from, to) ==
    /\ sess[x].pc = from
    /\ sess' = [sess EXCEPT ![x].pc = to]
    /\ UNCHANGED <<loaded, main, g_stop, m_started, up, io, t_fh, conn, serve>>

\* A line of the client is read (one it sent before the socket was shut down may still
\* be), or it goes away.
Line(x)   == Stimulus /\ SessStep(x, "recv", "want") /\ UNCHANGED <<writer, readers>>
Hangup(x) == Stimulus /\ SessStep(x, "recv", "close") /\ UNCHANGED <<writer, readers>>

Recv(x) == sess[x].shut /\ SessStep(x, "recv", "close") /\ UNCHANGED <<writer, readers, stimuli>>

\* eval() holds the mutex exclusively from before the script to after its output.  The
\* script, which the code does not limit, is taken to end.
Eval(x)    == SessStep(x, "want", "eval") /\ lockExclusive(x) /\ UNCHANGED stimuli
Output(x)  == SessStep(x, "eval", "send") /\ UNCHANGED <<writer, readers, stimuli>>

\* sendStr blocks until the client has read, or fails once the socket is shut down.
Drain(x)   == ~sess[x].shut /\ SessStep(x, "send", "recv") /\ unlock(x) /\ UNCHANGED stimuli
SendFails(x) == sess[x].shut /\ SessStep(x, "send", "recv") /\ unlock(x) /\ UNCHANGED stimuli

CloseFd(x) == SessStep(x, "close", "closed") /\ UNCHANGED <<writer, readers, stimuli>>
Done(x)    == SessStep(x, "closed", "done") /\ UNCHANGED <<writer, readers, stimuli>>

-----------------------------------------------------------------------------

Init ==
    /\ loaded \in Loads
    /\ main = [pc |-> "start", left |-> resolveAll]
    /\ g_stop = FALSE
    /\ m_started = <<>>
    /\ up = {}
    /\ writer = Nobody /\ readers = {}
    /\ io = [t \in Io |-> [pc |-> "off", conn |-> NoConn, op |-> "NULL", left |-> 0]]
    /\ t_fh = [t \in Io |-> NoConn]
    /\ conn = [c \in Conns |-> [st |-> "none", fd |-> 0]]
    /\ serve = [pc |-> "off", new |-> NoConn]
    /\ sess = [x \in Sess |-> [pc |-> "free", fd |-> 0, listed |-> FALSE, shut |-> FALSE]]
    /\ stimuli = MaxStimuli

MainNext == \/ StartAccess \/ Serving \/ Test \/ Pause \/ StopService \/ JoinIo \/ JoinServe
            \/ JoinSess \/ Exit
            \/ \E ok \in BOOLEAN : StartService(ok)

IoNext(t) == \/ \E c \in Conns, op \in Procs, n \in 1..MaxOps : Take(t, c, op, n)
             \/ Enter(t) \/ Reply(t) \/ IoExit(t)
             \/ \E op \in Procs, ok \in BOOLEAN : Leave(t, op, ok)

SessNext(x) == Recv(x) \/ Eval(x) \/ Output(x) \/ SendFails(x) \/ CloseFd(x) \/ Done(x)

ServeNext == Register \/ ServeEnds

ClientNext == \/ \E c \in Conns : Connect(c) \/ Send(c) \/ Disconnect(c)
              \/ \E x \in Sess : Accept(x) \/ Line(x) \/ Hangup(x)

Finished == main.pc = "exited" /\ UNCHANGED vars

Next == \/ MainNext \/ Signal \/ ServeNext \/ ClientNext \/ Finished
        \/ \E t \in Io : IoNext(t)
        \/ \E x \in Sess : SessNext(x) \/ Drain(x)

\* Every thread of the process runs.
ThreadFairness == /\ WF_vars(MainNext) /\ WF_vars(ServeNext)
                  /\ \A t \in Io : WF_vars(IoNext(t))
                  /\ \A x \in Sess : WF_vars(SessNext(x))

Spec == Init /\ [][Next]_vars /\ ThreadFairness

\* Console clients also read what they are sent.
ReadingSpec == Spec /\ \A x \in Sess : WF_vars(Drain(x))

-----------------------------------------------------------------------------
(* Properties. *)

\* The threads inside the store, and those of them that may change it.  The start() of
\* nfsv3 and of null are left out: they do not take the mutex at all.
startsIn(kinds) == {t \in {Main} : main.pc = "access" /\ startAccess(Head(main.left)) \in kinds}
inside   == startsIn({"exclusive", "shared"})
            \cup {t \in Io : io[t].pc = "in"} \cup {x \in Sess : sess[x].pc \in {"eval", "send"}}
changing == startsIn({"exclusive"})
            \cup {t \in Io : io[t].pc = "in" /\ io[t].op \notin readOps}
            \cup {x \in Sess : sess[x].pc \in {"eval", "send"}}

\* The store is not locked inside: whoever may change it is alone in it, over every
\* interleaving of front ends, console and services that are still starting.
StoreGuarded == \A t \in changing : inside = {t}

\* The operations of a COMPOUND use handles of that COMPOUND only, although the
\* handles live in the thread and the pool's threads serve every connection.
HandleIsOwn == \A t \in Io : io[t].pc \in {"want", "in"} => t_fh[t] \in {NoConn, io[t].conn}

\* A finished console client keeps its descriptor number in the list, and the number
\* may be another connection's by the time the console is stopped; but then the
\* front ends are down, so no connection that is still served is cut.
CutsNoServedConnection == \A c \in Conns : conn[c].st = "cut" => ~nfsUp

\* main() leaves no thread behind: every thread has ended and nobody holds the
\* mutex when the plugins are unloaded and the store is closed.
ExitLeavesNoThread ==
    main.pc = "exited" =>
        /\ \A t \in Io : io[t].pc = "off"
        /\ \A x \in Sess : sess[x].pc = "free"
        /\ serve.pc \in {"off", "ended"}
        /\ inside = {}

\* A process that is told to stop exits, if the signal is repeated: one that lands
\* between main()'s test and its pause() sets g_stop and wakes nobody.
ShutdownCompletes == WF_vars(Signal) => (g_stop ~> main.pc = "exited")

=============================================================================
