----------------------------- MODULE DialListen -----------------------------
(***************************************************************************)
(* How connections come about: listen(), dial(), accept() and close() of   *)
(* every transport, on one address.  Each listener and each client is a    *)
(* process, its steps are the system calls that others can see, any of     *)
(* them may fail, and the process may crash between two of them.           *)
(*                                                                         *)
(*   tcp     port; connections wait in the listening socket's queue        *)
(*   uds     the same behind a path in the file system                     *)
(*   pipe    Windows named pipe: an instance per accept(), for one client  *)
(*   shm     POSIX: the client creates a segment and semaphores under      *)
(*           names with its connection id and sends the id over a socket   *)
(*           as for uds; accept() reads the id and opens the names         *)
(*   winshm  the same over the one instance of a named pipe; the objects   *)
(*           disappear with their last handle                              *)
(***************************************************************************)
EXTENDS Naturals, Sequences

CONSTANTS Listeners, Clients,
          ConnIds,      \* the part of a connection id that names carry: may collide
          NumSems,      \* 4 in the code
          Backlog,
          None,
          Addresses,    \* what the application names: [prefix, rest]
          Platforms,
          MayCrash,     \* processes that crash in this model
          Casts         \* bound: sets of processes that take part together

ASSUME DialAssumption ==
    /\ Listeners \cap Clients = {} /\ None \notin Listeners \cup Clients
    /\ NumSems \in Nat \ {0} /\ Backlog \in Nat \ {0}
    /\ MayCrash \cup UNION Casts \subseteq Listeners \cup Clients

VARIABLES transport, platform,
          path,     \* uds, shm: the socket that the path leads to
          inst,     \* listeners with a kernel object that takes connections
          lst,      \* each listener's state
          acc,      \* its accepting thread, and the client it has taken
          queue,    \* clients connected to it and not accepted
          cli,      \* each client: pc, names or addresses dealt with, failures
          id,       \* its connection id
          sentid,   \* clients whose id has been written
          names,    \* names[i][k]: creator of segment (k = 0) or semaphore k
          fds,      \* descriptors, handles and mappings: <<process, what>>
          alone     \* history: listeners that have not shared the address

env == <<transport, platform>>
server == <<path, inst, lst, acc, alone>>
client == <<cli, id, sentid, names>>
vars == <<env, server, queue, client, fds>>

\* Address::parse(): the scheme, which is tcp when the address has none, unless
\* the address is refused.
Parse(a) ==
    LET scheme == IF a.prefix = "" THEN "tcp" ELSE a.prefix
        fits == IF scheme = "tcp" THEN a.rest \in {"host:port", ":port"} ELSE a.rest # ""
    IN IF scheme \in {"tcp", "uds", "shm", "pipe"} /\ fits THEN {scheme} ELSE {}

\* listen() and dial(): the transport of a scheme.
Dispatch(scheme) ==
    CASE scheme = "tcp" -> {"tcp"}
      [] scheme = "shm" -> {IF platform = "windows" THEN "winshm" ELSE "shm"}
      [] scheme = "pipe" /\ platform = "windows" -> {"pipe"}
      [] OTHER -> {}

Schemes == UNION {Parse(a) : a \in Addresses}
Hidden == IF platform = "windows" THEN {} ELSE {"uds"}

TakePart(cast) ==
    /\ lst = [l \in Listeners |-> IF l \in cast THEN "new" ELSE "failed"]
    /\ cli = [c \in Clients |-> [pc |-> IF c \in cast THEN "new" ELSE "over", k |-> 0, bad |-> FALSE]]

\* uds_listen() and uds_dial() are there, but listen() and dial() do not reach them.
Init ==
    /\ platform \in Platforms
    /\ transport \in Hidden \cup UNION {Dispatch(s) : s \in Schemes}
    /\ path = None /\ inst = {} /\ alone = {} /\ fds = {} /\ sentid = {}
    /\ \E cast \in Casts : TakePart(cast)
    /\ acc = [l \in Listeners |-> [pc |-> "out", c |-> None]]
    /\ queue = [l \in Listeners |-> <<>>]
    /\ id = [c \in Clients |-> None]
    /\ names = [i \in ConnIds |-> [k \in 0..NumSems |-> None]]

HasPath == transport \in {"uds", "shm"}
IsShm == transport \in {"shm", "winshm"}
OneInstance == transport \in {"pipe", "winshm"}

\* Closing a socket wakes a thread in accept(): not on Linux.
Wakes == ~OneInstance /\ platform # "linux"
-----------------------------------------------------------------------------
(* listen() and close() of a listener *)

Goto(l, from, to) == lst[l] \in from /\ lst' = [lst EXCEPT ![l] = to]
\* The accepting thread goes to pc, with a connection from c: "out" of an
\* accept() that has returned a pipe for c, to call the next, or "ended".
Taken(l, pc, c) == acc' = [acc EXCEPT ![l] = [pc |-> pc, c |-> IF pc = "ended" THEN None ELSE c]]
Over(l) == lst[l] \in {"new", "failed", "closed", "crashed"}

\* socket(); a listener on a named pipe has nothing to set up.
ListenBegin(l) ==
    /\ Goto(l, {"new"}, CASE transport = "pipe" -> "open" [] HasPath -> "unlink" [] OTHER -> "bind")
    /\ LET others == {m \in Listeners \ {l} : ~Over(m)}
       IN alone' = IF others = {} THEN alone \cup {l} ELSE alone \ others
    /\ fds' = IF OneInstance THEN fds ELSE fds \cup {<<l, "listen">>}
    /\ UNCHANGED <<env, path, inst, acc, queue, client>>

\* A path left behind is removed, and one that is in use.
ListenUnlink(l) ==
    /\ Goto(l, {"unlink"}, "bind") /\ path' = None
    /\ UNCHANGED <<env, inst, acc, alone, queue, client, fds>>

BindPath(l) ==
    /\ HasPath /\ Goto(l, {"bind"}, "listen")
    /\ path = None /\ path' = l
    /\ UNCHANGED <<env, inst, acc, alone, queue, client, fds>>

\* bind() and listen() on a port, create_bootstrap_pipe(): nobody else has it,
\* unless Windows lets a socket with SO_REUSEADDR share the port.
BindName(l) ==
    /\ ~HasPath /\ Goto(l, {"bind"}, "open")
    /\ inst = {} \/ (transport = "tcp" /\ platform = "windows")
    /\ inst' = inst \cup {l} /\ fds' = fds \cup {<<l, "listen">>}
    /\ UNCHANGED <<env, path, acc, alone, queue, client>>

ListenListen(l) ==
    /\ Goto(l, {"listen"}, "open") /\ inst' = inst \cup {l}
    /\ UNCHANGED <<env, path, acc, alone, queue, client, fds>>

MutListenFails(l) ==
    /\ Goto(l, {"bind", "listen"}, "failed")
    /\ path' = IF lst[l] = "listen" /\ transport = "uds" THEN None ELSE path
    /\ UNCHANGED <<env, inst, acc, alone, queue, client, fds>>
\* listen_uds() removes the path when ::listen() fails, shm's uds_listen() does not.
ListenFails(l) ==
    /\ Goto(l, {"bind", "listen"}, "failed")
    /\ fds' = fds \ {<<l, "listen">>}
    /\ path' = IF lst[l] = "listen" /\ transport = "uds" THEN None ELSE path
    /\ UNCHANGED <<env, inst, acc, alone, queue, client>>

\* A thread inside accept() keeps the kernel's object where close() does not
\* wake it.  NamedPipeListener's close() does nothing.
CloseListener(l) ==
    LET inside == {"wait"} \cup IF transport = "winshm" THEN {"read"} ELSE {}
        kept == transport = "pipe" \/ (acc[l].pc \in inside /\ ~Wakes)
    IN
    /\ Goto(l, {"open", "reopened"}, IF HasPath THEN "closing" ELSE "closed")
    /\ IF kept THEN UNCHANGED <<inst, queue>>
       ELSE inst' = inst \ {l} /\ queue' = [queue EXCEPT ![l] = <<>>]
    /\ IF acc[l].pc = "wait" /\ Wakes THEN Taken(l, "ended", None) ELSE UNCHANGED acc
    /\ fds' = fds \ {<<l, "listen">>}
    /\ UNCHANGED <<env, path, alone, client>>

MutUnlinkPath(l) ==
    /\ Goto(l, {"closing", "closed"}, "closed") /\ path' = None
    /\ UNCHANGED <<env, inst, acc, alone, queue, client, fds>>
\* The unlink() that follows is by name, whoever bound it last.
UnlinkPath(l) ==
    /\ Goto(l, {"closing"}, "closed") /\ path' = None
    /\ UNCHANGED <<env, inst, acc, alone, queue, client, fds>>
-----------------------------------------------------------------------------
(* accept(), called by the background server as long as it succeeds and the *)
(* stop function has not been called                                        *)

Accepting(l, from, to) == acc[l].pc \in from /\ Taken(l, to, acc[l].c)
\* accept() has succeeded: while (running), which stop() clears before its close().
Out(l) == IF lst[l] = "open" THEN "out" ELSE "ended"

\* Each accept() on a named pipe makes its instance, and does not ask whether
\* the listener is closed.
AcceptCall(l) ==
    /\ lst[l] \in {"open", IF transport = "pipe" THEN "closed" ELSE "open"}
    /\ acc[l].pc = "out" /\ Taken(l, "wait", None)
    /\ IF transport = "pipe" THEN inst' = inst \cup {l} /\ fds' = fds \cup {<<l, "conn">>}
       ELSE UNCHANGED <<inst, fds>>
    /\ UNCHANGED <<env, path, lst, alone, queue, client>>

MutAcceptClosed(l) ==
    /\ Accepting(l, {"out"}, "wait") /\ lst[l] \in {"closing", "closed"}
    /\ UNCHANGED <<env, path, inst, lst, alone, queue, client, fds>>
AcceptClosed(l) ==
    /\ Accepting(l, {"out"}, "ended") /\ lst[l] \in {"closing", "closed"}
    /\ UNCHANGED <<env, path, inst, lst, alone, queue, client, fds>>

\* accept() or ConnectNamedPipe() fails; a named pipe's instance is closed.
AcceptFails(l) ==
    /\ acc[l].pc = "wait"
    /\ Taken(l, IF transport = "winshm" THEN "renew" ELSE "ended", None)
    /\ IF OneInstance \/ lst[l] # "open"
       THEN inst' = inst \ {l} /\ queue' = [queue EXCEPT ![l] = <<>>]
       ELSE UNCHANGED <<inst, queue>>
    /\ fds' = fds \ {<<l, IF transport = "winshm" THEN "listen" ELSE "conn">>}
    /\ UNCHANGED <<env, path, lst, alone, client>>

\* A connection is there.  The instance of a named pipe is the connection: of
\* winshm's the bootstrap, given up after the read.
AcceptTake(l) ==
    LET c == Head(queue[l]) IN
    /\ queue[l] # <<>> /\ (transport = "winshm" => cli[c].pc = "write")
    /\ acc[l].pc = "wait" /\ Taken(l, IF IsShm THEN "read" ELSE Out(l), c)
    /\ CASE transport = "winshm" -> UNCHANGED <<inst, queue>>
         [] transport # "winshm" /\ (OneInstance \/ lst[l] # "open") ->
              inst' = inst \ {l} /\ queue' = [queue EXCEPT ![l] = <<>>]
         [] OTHER -> inst' = inst /\ queue' = [queue EXCEPT ![l] = Tail(@)]
    /\ fds' = IF transport = "shm" THEN fds \cup {<<l, "conn">>} ELSE fds \ {<<l, "conn">>}
    /\ UNCHANGED <<env, path, lst, alone, client>>

\* ConnectNamedPipe() fails with ERROR_NO_DATA when the client has closed its
\* end already: winshm drops the id that was sent.
AcceptTooLate(l) ==
    /\ transport = "winshm" /\ queue[l] # <<>> /\ cli[Head(queue[l])].pc # "write"
    /\ AcceptFails(l)

ReadId(l, ends) ==
    LET win == transport = "winshm" IN
    /\ acc[l].pc = "read" /\ ends
    /\ Taken(l, IF win THEN "renew" ELSE IF acc[l].c \in sentid THEN "segment" ELSE "ended", acc[l].c)
    /\ IF win THEN inst' = inst \ {l} /\ queue' = [queue EXCEPT ![l] = <<>>] ELSE UNCHANGED <<inst, queue>>
    /\ fds' = fds \ {<<l, IF win THEN "listen" ELSE "conn">>}
    /\ UNCHANGED <<env, path, lst, alone, client>>
MutAcceptRead(l) == ReadId(l, acc[l].c \in sentid)
\* The id, or the end of a connection whose client has gone without sending it.
AcceptRead(l) == ReadId(l, acc[l].c \in sentid \/ cli[acc[l].c].pc # "write")

\* winshm: the instance is made anew, also when close() has come in between.  If
\* someone else has one by now the listener is as good as closed.
AcceptRenew(l) ==
    /\ Accepting(l, {"renew"}, IF acc[l].c \in sentid THEN "segment" ELSE "ended")
    /\ \/ /\ inst = {} /\ inst' = {l}
          /\ lst' = [lst EXCEPT ![l] = IF @ = "open" THEN "open" ELSE "reopened"]
          /\ fds' = fds \cup {<<l, "listen">>}
       \/ lst' = [lst EXCEPT ![l] = "closed"] /\ UNCHANGED <<inst, fds>>
    /\ UNCHANGED <<env, path, alone, queue, client>>

Exists(i, k) == IF transport = "shm" THEN names[i][k] # None
                ELSE \E c \in Clients : id[c] = i /\ <<c, "mem">> \in fds

\* open_resources(): the segment, then the semaphores; any may fail.  A pipe that
\* accept() returns is the application's, and so are its mapping and semaphores.
OpenResources(l) ==
    LET i == id[acc[l].c] IN
    \/ acc[l].pc = "segment" /\ Exists(i, 0)
         /\ Accepting(l, {"segment"}, "sems") /\ fds' = fds \cup {<<l, "mem">>}
    \/ acc[l].pc = "sems" /\ (\A k \in 1..NumSems : Exists(i, k))
         /\ Accepting(l, {"sems"}, Out(l)) /\ fds' = fds \ {<<l, "mem">>}
    \/ Accepting(l, {"segment", "sems"}, "ended") /\ fds' = fds \ {<<l, "mem">>}

AcceptOpen(l) == OpenResources(l) /\ UNCHANGED <<env, path, inst, lst, alone, queue, client>>
-----------------------------------------------------------------------------
(* dial() *)

Step(c, pc, k, bad) == cli' = [cli EXCEPT ![c] = [pc |-> pc, k |-> k, bad |-> bad]]
Client(c, from, to) == cli[c].pc \in from /\ Step(c, to, 0, FALSE)
Reachable(l) ==
    /\ l \in inst /\ (HasPath => path = l)
    /\ Len(queue[l]) < IF OneInstance THEN 1 ELSE Backlog

\* socket(), WaitNamedPipe(), or random_conn_id_hex16().
DialBegin(c) ==
    /\ LET busy == transport = "pipe" /\ ~(\E l \in Listeners : Reachable(l))
       IN Client(c, {"new"}, IF IsShm THEN "segment" ELSE IF busy THEN "over" ELSE "connect")
    /\ IF IsShm THEN \E i \in ConnIds : id' = [id EXCEPT ![c] = i] ELSE UNCHANGED id
    /\ fds' = IF transport \in {"tcp", "uds"} THEN fds \cup {<<c, "sock">>} ELSE fds
    /\ UNCHANGED <<env, server, queue, sentid, names>>

Drop(c) == fds' = fds \ {<<c, "sock">>, <<c, "mem">>}

\* shm_open(O_EXCL), ftruncate(), mmap().  On Windows objects that exist are
\* opened and used.
CreateSegment(c) ==
    \/ /\ Client(c, {"segment"}, IF transport = "shm" THEN "sems" ELSE "connect")
       /\ names[id[c]][0] = None
       /\ names' = IF transport = "shm" THEN [names EXCEPT ![id[c]][0] = c] ELSE names
       /\ fds' = fds \cup {<<c, "mem">>}
    \/ Client(c, {"segment"}, "over") /\ UNCHANGED <<names, fds>>
    \/ /\ cli[c].k = 0 /\ Client(c, {"sems"}, "over")
       /\ names' = [names EXCEPT ![id[c]][0] = None] /\ Drop(c)

\* sem_open(O_EXCL), one after the other, also after one has failed.
CreateSemaphore(c) ==
    LET k == cli[c].k + 1
        Then(bad) == IF k = NumSems /\ bad THEN Client(c, {"sems"}, "cleanup") /\ Drop(c)
                     ELSE (IF k = NumSems THEN Client(c, {"sems"}, "connect") ELSE Step(c, "sems", k, bad))
                          /\ UNCHANGED fds
    IN /\ cli[c].pc = "sems"
       /\ \/ names[id[c]][k] = None /\ names' = [names EXCEPT ![id[c]][k] = c] /\ Then(cli[c].bad)
          \/ Then(TRUE) /\ UNCHANGED names

CreateResources(c) ==
    (CreateSegment(c) \/ CreateSemaphore(c)) /\ UNCHANGED <<env, server, queue, id, sentid>>

\* connect() or CreateFile(), which WaitNamedPipe() does not reserve.
Connect(c) ==
    /\ Client(c, {"connect"}, CASE IsShm -> "write" [] transport = "pipe" -> "mode" [] OTHER -> "open")
    /\ \E l \in Listeners : Reachable(l) /\ queue' = [queue EXCEPT ![l] = Append(@, c)]
    /\ fds' = fds \cup {<<c, "sock">>}
    /\ UNCHANGED <<env, server, id, sentid, names>>

\* dial() has failed, or close() is called: on POSIX the names are to go.
TidyUp == IF transport = "shm" THEN "cleanup" ELSE "over"

\* connect() of a socket for the first address of a host fails: the next one.
NextAddress(c) ==
    /\ transport = "tcp" /\ cli[c].pc = "connect" /\ cli[c].k = 0
    /\ Step(c, "connect", 1, FALSE) /\ UNCHANGED fds
    /\ UNCHANGED <<env, server, queue, id, sentid, names>>

\* It fails for good, or the time is up.
ConnectFails(c) ==
    /\ (transport = "tcp" => cli[c].k = 1)
    /\ Client(c, {"connect"}, TidyUp) /\ Drop(c)
    /\ UNCHANGED <<env, server, queue, id, sentid, names>>

\* SetNamedPipeHandleState()
SetMode(c) ==
    /\ transport = "pipe"
    /\ \/ Client(c, {"mode"}, "open") /\ UNCHANGED fds
       \/ Client(c, {"mode"}, "over") /\ Drop(c)
    /\ UNCHANGED <<env, server, queue, id, sentid, names>>

Connected(c) == \E l \in Listeners :
    \/ \E j \in DOMAIN queue[l] : queue[l][j] = c
    \/ acc[l] = [pc |-> "read", c |-> c]

\* The id; the socket is closed at once, and nothing comes back.
WriteId(c) ==
    /\ Client(c, {"write"}, "open") /\ Connected(c)
    /\ sentid' = sentid \cup {c} /\ fds' = fds \ {<<c, "sock">>}
    /\ UNCHANGED <<env, server, queue, id, names>>

WriteIdFails(c) ==
    /\ Client(c, {"write"}, TidyUp) /\ ~Connected(c) /\ Drop(c)
    /\ UNCHANGED <<env, server, queue, id, sentid, names>>

\* close() of the pipe that dial() returned.
CloseClient(c) ==
    /\ Client(c, {"open"}, TidyUp) /\ Drop(c)
    /\ UNCHANGED <<env, server, queue, id, sentid, names>>

MutCleanup(c) ==
    /\ cli[c].pc = "cleanup"
    /\ names' = [names EXCEPT ![id[c]][cli[c].k] = None]
    /\ IF cli[c].k < NumSems THEN Step(c, "cleanup", cli[c].k + 1, FALSE) ELSE Step(c, "over", 0, FALSE)
    /\ UNCHANGED <<env, server, queue, id, sentid, fds>>
\* The names go one by one, whoever made them: the semaphores, then the segment.
Cleanup(c) ==
    LET last == cli[c].k = NumSems IN
    /\ cli[c].pc = "cleanup"
    /\ names' = [names EXCEPT ![id[c]][IF last THEN 0 ELSE cli[c].k + 1] = None]
    /\ IF last THEN Step(c, "over", 0, FALSE) ELSE Step(c, "cleanup", cli[c].k + 1, FALSE)
    /\ UNCHANGED <<env, server, queue, id, sentid, fds>>
-----------------------------------------------------------------------------
(* Crashes *)

CrashListener(l) ==
    /\ l \in MayCrash /\ ~Over(l) /\ lst' = [lst EXCEPT ![l] = "crashed"]
    /\ inst' = inst \ {l} /\ queue' = [queue EXCEPT ![l] = <<>>]
    /\ Taken(l, "ended", None)
    /\ fds' = {f \in fds : f[1] # l}
    /\ UNCHANGED <<env, path, alone, client>>

CrashClient(c) ==
    /\ c \in MayCrash /\ Client(c, {"segment", "sems", "connect", "mode", "write", "open", "cleanup"}, "crashed")
    /\ Drop(c) /\ UNCHANGED <<env, server, queue, id, sentid, names>>

Next ==
    \/ \E l \in Listeners :
         \/ ListenBegin(l) \/ ListenUnlink(l) \/ BindPath(l) \/ BindName(l) \/ ListenListen(l)
         \/ ListenFails(l) \/ CloseListener(l) \/ UnlinkPath(l) \/ CrashListener(l)
         \/ AcceptCall(l) \/ AcceptClosed(l) \/ AcceptFails(l) \/ AcceptTake(l)
         \/ AcceptTooLate(l) \/ AcceptRead(l) \/ AcceptRenew(l) \/ AcceptOpen(l)
    \/ \E c \in Clients :
         \/ DialBegin(c) \/ CreateResources(c) \/ Connect(c) \/ NextAddress(c) \/ ConnectFails(c)
         \/ SetMode(c) \/ WriteId(c) \/ WriteIdFails(c) \/ CloseClient(c) \/ Cleanup(c) \/ CrashClient(c)

Spec == Init /\ [][Next]_vars

\* A thread that can go on does.
Fairness ==
    /\ \A l \in Listeners :
         /\ WF_vars(AcceptCall(l)) /\ WF_vars(AcceptClosed(l)) /\ WF_vars(AcceptTake(l))
         /\ WF_vars(AcceptTooLate(l)) /\ WF_vars(AcceptRead(l)) /\ WF_vars(AcceptRenew(l))
         /\ WF_vars(AcceptOpen(l))
    /\ \A c \in Clients : WF_vars(WriteId(c)) /\ WF_vars(WriteIdFails(c))

FairSpec == Spec /\ Fairness
-----------------------------------------------------------------------------
(* Properties *)

\* Whatever call fails, and at whatever step, a listen(), accept(), dial() or
\* close() that has returned leaves no descriptor, handle or mapping of its own,
\* and no segment or semaphore under a name.
NoLeak ==
    /\ \A l \in Listeners : /\ lst[l] \in {"failed", "closed"} => <<l, "listen">> \notin fds
                            /\ acc[l].pc \in {"out", "ended"} => {<<l, "conn">>, <<l, "mem">>} \cap fds = {}
    /\ \A c \in Clients : cli[c].pc = "over" =>
         {<<c, "sock">>, <<c, "mem">>} \cap fds = {} /\ \A i \in ConnIds, k \in 0..NumSems : names[i][k] # c

\* Two clients with the same short id never mix: a semaphore exists only under
\* the segment of the client that made it, so what O_EXCL on the segment refuses
\* is refused whole, and the unlinking by name in create_resources(), shm_dial()
\* and close(), or what a crash interrupts, never takes another client's names.
OneOwner == \A i \in ConnIds, k \in 1..NumSems :
    names[i][k] # None => names[i][0] = names[i][k]

\* A listener that listen() returned, and that has not shared its address with
\* another, is the one that clients reach, whatever crashed or failed before it:
\* the stale path is replaced, and a port, path or pipe leads to its socket.
ReachableAlone == \A l \in alone : lst[l] = "open" =>
    /\ HasPath => path = l /\ l \in inst
    /\ transport = "tcp" \/ (transport = "winshm" /\ acc[l].pc # "renew") => l \in inst

\* accept() returns a pipe for a connection that the kernel has taken, or the
\* listener is closed, or an accept() has failed: one that does, for whatever
\* reason, ends the server's loop, with the listener open and those who wait left
\* where they are.  But accept() does not wait for ever on a client that is slow
\* or dies before its id, nor return with one passed over.
PickedUp == \A l \in Listeners, c \in Clients :
    (\E j \in DOMAIN queue[l] : queue[l][j] = c)
        ~> \/ acc[l] = [pc |-> "out", c |-> c]
           \/ acc[l].pc = "ended" \/ lst[l] # "open"

\* Where close() of a socket wakes accept(), the stop function of the background
\* server ends its thread, so that its join() returns.
StopEnds == \A l \in Listeners :
    Wakes /\ lst[l] \in {"closing", "closed"} ~> acc[l].pc = "ended"
=============================================================================
