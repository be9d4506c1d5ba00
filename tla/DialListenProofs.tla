-------------------------- MODULE DialListenProofs --------------------------
(***************************************************************************)
(* Theorems about DialListen, for any number of listeners, clients, ids    *)
(* and semaphores, whichever of them crash.  The inductive invariant says  *)
(* which names a client has at each point of dial() and close(), and what  *)
(* descriptors each thread has at each point of its code.                  *)
(***************************************************************************)
EXTENDS DialListen, TLAPS

ClientStates == {"new", "segment", "sems", "connect", "mode", "write", "open", "cleanup", "over", "crashed"}

ClientType ==
    /\ cli \in [Clients -> [pc : ClientStates, k : 0..NumSems, bad : BOOLEAN]]
    /\ id \in [Clients -> ConnIds \cup {None}]
    /\ names \in [ConnIds -> [0..NumSems -> Clients \cup {None}]]

Held == {"sems", "connect", "mode", "write", "open", "cleanup"}

\* A client past shm_open() has the segment of its id, until it has unlinked it.
HasSegment == \A c \in Clients :
    /\ cli[c].pc = "segment" => id[c] \in ConnIds
    /\ cli[c].pc \in {"sems", "cleanup"} => transport = "shm"
    /\ transport = "shm" /\ cli[c].pc \in Held => id[c] \in ConnIds /\ names[id[c]][0] = c

\* The semaphores not yet created, and those unlinked already, do not exist.
Absent == \A c \in Clients :
    /\ cli[c].pc = "sems" => cli[c].k < NumSems
    /\ \A m \in 1..NumSems :
         \/ cli[c].pc = "sems" /\ m > cli[c].k
         \/ cli[c].pc = "cleanup" /\ m <= cli[c].k
         => names[id[c]][m] = None

\* Names are there only while their creator holds them, or after its crash.
HasOwner == \A i \in ConnIds, k \in 0..NumSems, c \in Clients :
    names[i][k] = c => transport = "shm" /\ id[c] = i /\ cli[c].pc \in Held \cup {"crashed"}

NamesInv == ClientType /\ HasSegment /\ OneOwner /\ Absent /\ HasOwner

\* The clients after a step of c.
Moved(c, pc, k) ==
    /\ cli' \in [Clients -> [pc : ClientStates, k : 0..NumSems, bad : BOOLEAN]]
    /\ cli'[c].pc = pc /\ cli'[c].k = k
    /\ \A d \in Clients \ {c} : cli'[d].pc = cli[d].pc /\ cli'[d].k = cli[d].k

\* One name under the id of c.
Named(c, n, owner) == names' = [names EXCEPT ![id[c]][n] = owner]

LEMMA StepFacts ==
    ASSUME ClientType, NEW c \in Clients, NEW pc \in ClientStates, NEW k \in 0..NumSems,
           Step(c, pc, k, FALSE)
    PROVE  Moved(c, pc, k)
BY DEF ClientType, Step, Moved

LEMMA ClientFacts ==
    ASSUME ClientType, NEW c \in Clients, NEW from, NEW to \in ClientStates, Client(c, from, to)
    PROVE  cli[c].pc \in from /\ Moved(c, to, 0)
BY DialAssumption DEF ClientType, Client, Step, Moved

\* A step that leaves the names and the ids alone, of a client that keeps what
\* it holds, or holds nothing.
LEMMA MoveStep ==
    ASSUME NamesInv, NEW c \in Clients, NEW pc \in ClientStates, NEW k \in 0..NumSems,
           Moved(c, pc, k), UNCHANGED <<transport, id, names>>,
           pc \notin {"segment", "sems"}, cli[c].pc # "crashed", pc = "cleanup" => transport = "shm" /\ k = 0,
           pc = "crashed" \/ cli[c].pc \notin Held \/ pc \in Held \/ transport # "shm",
           pc \in Held /\ transport = "shm" => cli[c].pc \in Held
    PROVE  NamesInv'
<1>1. /\ cli' \in [Clients -> [pc : ClientStates, k : 0..NumSems, bad : BOOLEAN]]
      /\ cli'[c].pc = pc /\ cli'[c].k = k
      /\ \A d \in Clients \ {c} : cli'[d].pc = cli[d].pc /\ cli'[d].k = cli[d].k
  BY DEF Moved
<1>2. ClientType' /\ OneOwner'
  BY <1>1 DEF NamesInv, ClientType, OneOwner
<1>3. HasSegment'
  BY <1>1 DEF NamesInv, HasSegment, Held
<1>4. Absent'
  BY <1>1 DEF NamesInv, Absent
<1>5. HasOwner'
  BY <1>1 DEF NamesInv, HasOwner, Held
<1> QED
  BY <1>2, <1>3, <1>4, <1>5 DEF NamesInv

\* A step that changes one name, under an id that is the client's own.
LEMMA NameStep ==
    ASSUME NamesInv, NEW c \in Clients, NEW pc \in ClientStates, NEW k \in 0..NumSems,
           Moved(c, pc, k), UNCHANGED <<transport, id>>,
           NEW n \in 0..NumSems, NEW owner \in {c, None}, transport = "shm",
           Named(c, n, owner),
           id[c] \in ConnIds, names[id[c]][0] \in {c, None},
           pc # "segment", cli[c].pc \in Held \cup {"segment"},
           n = 0 => \A m \in 1..NumSems : names[id[c]][m] = None,
           n = 0 /\ owner = None => pc = "over",
           n = 0 /\ owner = c => pc = "sems" /\ k = 0,
           n # 0 => names[id[c]][0] = c,
           pc \in Held \/ (n = 0 /\ owner = None),
           pc = "sems" => k < NumSems /\ \A m \in 1..NumSems : m > k => names'[id[c]][m] = None,
           pc = "cleanup" => \A m \in 1..NumSems : m <= k => names'[id[c]][m] = None
    PROVE  NamesInv'
<1>1. /\ cli' \in [Clients -> [pc : ClientStates, k : 0..NumSems, bad : BOOLEAN]]
      /\ cli'[c].pc = pc /\ cli'[c].k = k
      /\ \A d \in Clients \ {c} : cli'[d].pc = cli[d].pc /\ cli'[d].k = cli[d].k
  BY DEF Moved
<1>2. /\ names' \in [ConnIds -> [0..NumSems -> Clients \cup {None}]]
      /\ names'[id[c]][n] = owner
      /\ \A i \in ConnIds, m \in 0..NumSems : i # id[c] \/ m # n => names'[i][m] = names[i][m]
  BY DEF NamesInv, ClientType, Named
<1>3. \A d \in Clients \ {c} : cli[d].pc \in Held => id[d] \in ConnIds /\ id[d] # id[c]
  BY DialAssumption DEF NamesInv, HasSegment
<1>4. ClientType'
  BY <1>1, <1>2 DEF NamesInv, ClientType
<1>5. OneOwner'
  BY <1>2, DialAssumption DEF NamesInv, OneOwner
<1>6. HasSegment'
  BY <1>1, <1>2, <1>3, DialAssumption DEF NamesInv, HasSegment, Held
<1>7. Absent'
  <2>1. \A d \in Clients \ {c}, m \in 1..NumSems : cli[d].pc \in Held => names'[id[d]][m] = names[id[d]][m]
    BY <1>2, <1>3
  <2>2. \A d \in Clients \ {c} : /\ cli'[d].pc = "sems" => cli'[d].k < NumSems
                                 /\ \A m \in 1..NumSems :
                                      \/ cli'[d].pc = "sems" /\ m > cli'[d].k
                                      \/ cli'[d].pc = "cleanup" /\ m <= cli'[d].k
                                      => names'[id[d]][m] = None
    BY <1>1, <2>1 DEF NamesInv, Absent, Held
  <2> QED
    BY <1>1, <2>2 DEF Absent
<1>8. HasOwner'
  <2> SUFFICES ASSUME NEW i \in ConnIds, NEW m \in 0..NumSems, NEW d \in Clients, names'[i][m] = d
               PROVE  id[d] = i /\ cli'[d].pc \in Held \cup {"crashed"}
    BY DEF HasOwner
  <2>1. CASE d # c
    <3>1. names[i][m] = d
      BY <2>1, <1>2, DialAssumption
    <3> QED
      BY <2>1, <3>1, <1>1 DEF NamesInv, HasOwner
  <2>2. CASE d = c
    <3>1. id[c] = i
      BY <2>2, <1>2 DEF NamesInv, HasOwner
    <3>2. ~(n = 0 /\ owner = None)
      BY <2>2, <3>1, <1>2, DialAssumption, SMTT(30)
    <3> QED
      BY <2>2, <3>1, <3>2, <1>1
  <2> QED
    BY <2>1, <2>2
<1> QED
  BY <1>4, <1>5, <1>6, <1>7, <1>8 DEF NamesInv
\* Init establishes what the names are, and every step keeps it.
LEMMA NamesInit == Init => NamesInv
<1> SUFFICES ASSUME Init PROVE NamesInv
  OBVIOUS
<1>1. PICK cast \in Casts : TakePart(cast)
  BY DEF Init
<1>2. ClientType
  BY <1>1, DialAssumption DEF Init, TakePart, ClientType, ClientStates
<1>3. \A c \in Clients : cli[c].pc \in {"new", "over"}
  BY <1>1 DEF TakePart
<1>4. \A i \in ConnIds, k \in 0..NumSems : names[i][k] = None
  BY DEF Init
<1> QED
  BY <1>2, <1>3, <1>4, DialAssumption DEF NamesInv, HasSegment, OneOwner, Absent, HasOwner, Held

\* dial() up to the connection, step by step.
LEMMA CreateKeepsNames ==
    ASSUME NamesInv, NEW c \in Clients, CreateResources(c)
    PROVE  NamesInv'
<1> USE DialAssumption DEF Held
<1> DEFINE k == cli[c].k + 1
<1>0. UNCHANGED <<transport, id>> /\ cli[c].k \in 0..NumSems /\ 0 \in 0..NumSems /\ ClientType
  BY DEF CreateResources, env, NamesInv, ClientType
<1>s. ClientStates = {"new", "segment", "sems", "connect", "mode", "write", "open", "cleanup", "over", "crashed"}
  BY DEF ClientStates
<1>1. CASE Client(c, {"segment"}, "over") /\ UNCHANGED names
  <2>1. cli[c].pc = "segment" /\ Moved(c, "over", 0)
    BY <1>0, <1>1, <1>s, ClientFacts
  <2> QED
    BY <1>0, <1>1, <1>s, <2>1, MoveStep
<1>2. CASE transport # "shm" /\ Client(c, {"segment"}, "connect") /\ UNCHANGED names
  <2>1. cli[c].pc = "segment" /\ Moved(c, "connect", 0)
    BY <1>0, <1>2, <1>s, ClientFacts
  <2> QED
    BY <1>0, <1>2, <1>s, <2>1, MoveStep
<1>3. CASE /\ transport = "shm" /\ Client(c, {"segment"}, "sems") /\ names[id[c]][0] = None
           /\ names' = [names EXCEPT ![id[c]][0] = c]
  <2>0. cli[c].pc = "segment" /\ Moved(c, "sems", 0)
    BY <1>0, <1>3, <1>s, ClientFacts
  <2>1. id[c] \in ConnIds
    BY <2>0 DEF NamesInv, HasSegment
  <2>2. \A m \in 1..NumSems : names[id[c]][m] = None
    BY <1>3, <2>1 DEF NamesInv, OneOwner
  <2>3. \A m \in 1..NumSems : names'[id[c]][m] = None
    BY <1>3, <2>1, <2>2 DEF NamesInv, ClientType
  <2>4. Named(c, 0, c)
    BY <1>3 DEF Named
  <2> QED
    BY <1>0, <1>3, <1>s, <2>0, <2>1, <2>2, <2>3, <2>4, NameStep
<1>4. CASE cli[c].k = 0 /\ Client(c, {"sems"}, "over") /\ names' = [names EXCEPT ![id[c]][0] = None]
  <2>0. cli[c].pc = "sems" /\ Moved(c, "over", 0)
    BY <1>0, <1>4, <1>s, ClientFacts
  <2>1. transport = "shm" /\ id[c] \in ConnIds /\ names[id[c]][0] = c
    BY <2>0 DEF NamesInv, HasSegment
  <2>2. \A m \in 1..NumSems : names[id[c]][m] = None
    BY <1>4, <2>0 DEF NamesInv, Absent
  <2>3. Named(c, 0, None)
    BY <1>4 DEF Named
  <2> QED
    BY <1>0, <1>s, <2>0, <2>1, <2>2, <2>3, NameStep
<1>5. CASE CreateSemaphore(c)
  <2>1. /\ cli[c].pc = "sems" /\ transport = "shm" /\ k \in 1..NumSems
        /\ id[c] \in ConnIds /\ names[id[c]][0] = c
        /\ \A m \in 1..NumSems : m >= k => names[id[c]][m] = None
    BY <1>0, <1>5 DEF CreateSemaphore, NamesInv, HasSegment, Absent
  <2>2. \/ names' = [names EXCEPT ![id[c]][k] = c]
        \/ UNCHANGED names
    BY <1>5 DEF CreateSemaphore
  <2>3. \/ Client(c, {"sems"}, "cleanup") /\ k = NumSems
        \/ Client(c, {"sems"}, "connect") /\ k = NumSems
        \/ k # NumSems /\ Step(c, "sems", k, cli[c].bad)
        \/ k # NumSems /\ Step(c, "sems", k, TRUE)
    BY <1>5, Zenon DEF CreateSemaphore
  <2>4. cli[c].bad \in BOOLEAN
    BY DEF NamesInv, ClientType
  <2>5. PICK to \in {"cleanup", "connect", "sems"}, n \in {0, k} :
          /\ Moved(c, to, n) /\ (to = "cleanup" => n = 0)
          /\ to = "sems" => n = k /\ k < NumSems
    <3>1. CASE Client(c, {"sems"}, "cleanup")
      BY <1>0, <1>s, <3>1, ClientFacts
    <3>2. CASE Client(c, {"sems"}, "connect")
      BY <1>0, <1>s, <3>2, ClientFacts
    <3>3. CASE k # NumSems /\ Step(c, "sems", k, cli[c].bad)
      <4>1. Moved(c, "sems", k)
        BY <1>0, <1>s, <2>1, <2>4, <3>3 DEF ClientType, Step, Moved
      <4> QED
        BY <4>1, <3>3, <2>1
    <3>4. CASE k # NumSems /\ Step(c, "sems", k, TRUE)
      <4>1. Moved(c, "sems", k)
        BY <1>0, <1>s, <2>1, <3>4 DEF ClientType, Step, Moved
      <4> QED
        BY <4>1, <3>4, <2>1
    <3> QED
      BY <2>3, <3>1, <3>2, <3>3, <3>4
  <2>6. PICK owner \in {c, None} : Named(c, k, owner)
    BY <2>1, <2>2 DEF NamesInv, ClientType, Named
  <2>7. \A m \in 1..NumSems : m > k => names'[id[c]][m] = None
    BY <2>1, <2>2 DEF NamesInv, ClientType
  <2> HIDE DEF k
  <2> QED
    BY <1>0, <1>s, <2>1, <2>5, <2>6, <2>7, NameStep
<1> QED
  BY <1>1, <1>2, <1>3, <1>4, <1>5 DEF CreateResources, CreateSegment

\* The steps of a client keep the names.
LEMMA ClientKeepsNames ==
    ASSUME NamesInv, NEW c \in Clients,
           \/ DialBegin(c) \/ CreateResources(c) \/ Connect(c) \/ NextAddress(c) \/ ConnectFails(c)
           \/ SetMode(c) \/ WriteId(c) \/ WriteIdFails(c) \/ CloseClient(c) \/ Cleanup(c) \/ CrashClient(c)
    PROVE  NamesInv'
<1> USE DialAssumption DEF Held
<1>0. cli[c].k \in 0..NumSems /\ 0 \in 0..NumSems /\ 1 \in 0..NumSems /\ ClientType
  BY DEF NamesInv, ClientType
<1>s. ClientStates = {"new", "segment", "sems", "connect", "mode", "write", "open", "cleanup", "over", "crashed"}
  BY DEF ClientStates
<1>1. CASE DialBegin(c)
  <2>1. PICK to \in {"segment", "over", "connect"} :
          /\ Client(c, {"new"}, to) /\ (to = "segment" <=> IsShm)
    BY <1>1 DEF DialBegin
  <2>2. cli[c].pc = "new" /\ Moved(c, to, 0)
    BY <1>0, <1>s, <2>1, ClientFacts
  <2>3. /\ UNCHANGED <<transport, names>> /\ id' \in [Clients -> ConnIds \cup {None}]
        /\ \A d \in Clients \ {c} : id'[d] = id[d]
        /\ IsShm => id'[c] \in ConnIds
    BY <1>1 DEF DialBegin, env, NamesInv, ClientType
  <2>4. ClientType' /\ OneOwner'
    BY <2>2, <2>3 DEF NamesInv, ClientType, OneOwner, Moved
  <2>5. HasSegment'
    BY <2>1, <2>2, <2>3 DEF NamesInv, HasSegment, Moved, IsShm
  <2>6. Absent'
    BY <2>2, <2>3 DEF NamesInv, Absent, Moved
  <2>7. HasOwner'
    BY <2>2, <2>3 DEF NamesInv, HasOwner, Moved
  <2> QED
    BY <2>4, <2>5, <2>6, <2>7 DEF NamesInv
<1>2. CASE CreateResources(c)
  BY <1>2, CreateKeepsNames
<1>3. CASE Connect(c)
  <2>1. PICK to \in {"write", "mode", "open"} : Client(c, {"connect"}, to)
    BY <1>3 DEF Connect
  <2>2. cli[c].pc = "connect" /\ Moved(c, to, 0)
    BY <1>0, <1>s, <2>1, ClientFacts
  <2>3. UNCHANGED <<transport, id, names>>
    BY <1>3 DEF Connect, env
  <2> QED
    BY <1>0, <1>s, <2>2, <2>3, MoveStep
<1>4. CASE NextAddress(c)
  <2>1. cli[c].pc = "connect" /\ Moved(c, "connect", 1) /\ UNCHANGED <<transport, id, names>>
    BY <1>0, <1>s, <1>4, StepFacts DEF NextAddress, env
  <2> QED
    BY <1>0, <1>s, <2>1, MoveStep
<1>9. CASE SetMode(c)
  <2>1. PICK to \in {"open", "over"} : Client(c, {"mode"}, to)
    BY <1>9 DEF SetMode
  <2>2. cli[c].pc = "mode" /\ Moved(c, to, 0)
    BY <1>0, <1>s, <2>1, ClientFacts
  <2>3. UNCHANGED <<transport, id, names>> /\ transport = "pipe"
    BY <1>9 DEF SetMode, env
  <2> QED
    BY <1>0, <1>s, <2>2, <2>3, MoveStep
<1>5. CASE WriteId(c)
  <2>1. cli[c].pc = "write" /\ Moved(c, "open", 0)
    BY <1>0, <1>s, <1>5, ClientFacts DEF WriteId
  <2>2. UNCHANGED <<transport, id, names>>
    BY <1>5 DEF WriteId, env
  <2> QED
    BY <1>0, <1>s, <2>1, <2>2, MoveStep
<1>6. CASE ConnectFails(c) \/ WriteIdFails(c) \/ CloseClient(c)
  <2>1. PICK from \in {"connect", "write", "open"} : Client(c, {from}, TidyUp)
    BY <1>6 DEF ConnectFails, WriteIdFails, CloseClient
  <2>2. TidyUp \in ClientStates
    BY <1>s DEF TidyUp
  <2>3. cli[c].pc = from /\ Moved(c, TidyUp, 0)
    BY <1>0, <2>1, <2>2, ClientFacts
  <2>4. UNCHANGED <<transport, id, names>>
    BY <1>6 DEF ConnectFails, WriteIdFails, CloseClient, env
  <2> QED
    BY <1>0, <2>2, <2>3, <2>4, MoveStep DEF TidyUp
<1>7. CASE Cleanup(c)
  <2>1. /\ cli[c].pc = "cleanup" /\ transport = "shm" /\ id[c] \in ConnIds /\ names[id[c]][0] = c
        /\ \A m \in 1..NumSems : m <= cli[c].k => names[id[c]][m] = None
        /\ UNCHANGED <<transport, id>>
    BY <1>7 DEF Cleanup, NamesInv, HasSegment, Absent, env
  <2>2. CASE cli[c].k = NumSems
    <3>1. Moved(c, "over", 0)
      BY <1>0, <1>s, <1>7, <2>2, StepFacts DEF Cleanup
    <3>2. Named(c, 0, None)
      BY <1>7, <2>2 DEF Cleanup, Named
    <3> QED
      BY <1>0, <1>s, <2>1, <2>2, <3>1, <3>2, NameStep
  <2>3. CASE cli[c].k # NumSems
    <3> DEFINE k == cli[c].k + 1
    <3>1. k \in 1..NumSems /\ k \in 0..NumSems
      BY <1>0, <2>3
    <3>2. Moved(c, "cleanup", k)
      BY <1>0, <1>s, <1>7, <2>3, <3>1, StepFacts DEF Cleanup
    <3>3. Named(c, k, None)
      BY <1>7, <2>3 DEF Cleanup, Named
    <3>4. \A m \in 1..NumSems : m <= k => names'[id[c]][m] = None
      BY <1>0, <2>1, <3>1, <3>3 DEF Named, NamesInv, ClientType
    <3> HIDE DEF k
    <3> QED
      BY <1>0, <1>s, <2>1, <3>1, <3>2, <3>3, <3>4, NameStep
  <2> QED
    BY <2>2, <2>3
<1>8. CASE CrashClient(c)
  <2>1. cli[c].pc # "crashed" /\ Moved(c, "crashed", 0)
    BY <1>0, <1>s, <1>8, ClientFacts DEF CrashClient
  <2>2. UNCHANGED <<transport, id, names>>
    BY <1>8 DEF CrashClient, env
  <2> QED
    BY <1>0, <1>s, <2>1, <2>2, MoveStep
<1> QED
  BY <1>1, <1>2, <1>3, <1>4, <1>5, <1>6, <1>7, <1>8, <1>9

\* A listener's steps do not touch a client or a name.
LEMMA ListenerKeepsClients ==
    ASSUME NEW l \in Listeners,
           \/ ListenBegin(l) \/ ListenUnlink(l) \/ BindPath(l) \/ BindName(l) \/ ListenListen(l)
           \/ ListenFails(l) \/ CloseListener(l) \/ UnlinkPath(l) \/ CrashListener(l)
           \/ AcceptCall(l) \/ AcceptClosed(l) \/ AcceptFails(l) \/ AcceptTake(l)
           \/ AcceptTooLate(l) \/ AcceptRead(l) \/ AcceptRenew(l) \/ AcceptOpen(l)
    PROVE  UNCHANGED <<env, client>>
BY DEF ListenBegin, ListenUnlink, BindPath, BindName, ListenListen, ListenFails, CloseListener,
       UnlinkPath, CrashListener, AcceptCall, AcceptClosed, AcceptFails, AcceptTake, AcceptTooLate,
       AcceptRead, ReadId, AcceptRenew, AcceptOpen

LEMMA NamesStep == NamesInv /\ [Next]_vars => NamesInv'
<1> SUFFICES ASSUME NamesInv, [Next]_vars PROVE NamesInv'
  OBVIOUS
<1>1. CASE UNCHANGED <<env, client>>
  BY <1>1 DEF env, client, NamesInv, ClientType, HasSegment, OneOwner, Absent, HasOwner
<1>2. CASE Next
  BY <1>1, <1>2, ListenerKeepsClients, ClientKeepsNames DEF Next
<1>3. CASE UNCHANGED vars
  BY <1>1, <1>3 DEF vars
<1> QED
  BY <1>2, <1>3

\* Semaphores exist only under the segment of the client that made them, for any
\* number of clients and semaphores, however ids collide and whoever crashes: the
\* unlinking by name of create_resources(), shm_dial() and close() never takes a
\* name that another client has made.
THEOREM OwnerInvariant == Spec => []OneOwner
<1>1. NamesInv => OneOwner
  BY DEF NamesInv
<1> QED
  BY <1>1, NamesInit, NamesStep, PTL DEF Spec

-----------------------------------------------------------------------------
(* Descriptors *)

FdTypes ==
    /\ acc = [l \in Listeners |-> acc[l]] /\ lst = [l \in Listeners |-> lst[l]]

\* What a listener and its accepting thread have open, from where they are.
ServerFds(l) ==
    /\ lst[l] \in {"failed", "closing", "closed"} => <<l, "listen">> \notin fds
    /\ lst[l] \in {"new", "unlink", "bind", "listen", "failed"} => acc[l].pc = "out"
    /\ acc[l].pc = "renew" => <<l, "listen">> \notin fds /\ transport = "winshm"
    /\ <<l, "conn">> \in fds => \/ acc[l].pc = "wait" /\ transport = "pipe"
                                \/ acc[l].pc = "read" /\ transport = "shm"
    /\ <<l, "mem">> \in fds => acc[l].pc = "sems"

\* A client has a socket or a mapping only between socket() or shm_open() and
\* the first step of its failure or close().
ClientFds(c) ==
    cli[c].pc \in {"new", "segment", "cleanup", "over", "crashed"} =>
        <<c, "sock">> \notin fds /\ <<c, "mem">> \notin fds

FdInv == FdTypes /\ (\A l \in Listeners : ServerFds(l)) /\ (\A c \in Clients : ClientFds(c))

\* The listeners after a step of l.
Only(l) ==
    /\ acc' = [m \in Listeners |-> acc'[m]] /\ lst' = [m \in Listeners |-> lst'[m]]
    /\ \A m \in Listeners \ {l} : lst'[m] = lst[m] /\ acc'[m] = acc[m]
    /\ \A f \in fds' : f \in fds \/ f \in {<<l, "listen">>, <<l, "conn">>, <<l, "mem">>}

LEMMA ListenerStep ==
    ASSUME FdInv, NEW l \in Listeners, UNCHANGED <<transport, platform, cli>>, Only(l), ServerFds(l)'
    PROVE  FdInv'
<1>1. FdTypes'
  BY DEF FdInv, FdTypes, Only
<1>2. ASSUME NEW m \in Listeners \ {l} PROVE ServerFds(m)'
  BY <1>2 DEF FdInv, ServerFds, Only
<1>3. ASSUME NEW c \in Clients PROVE ClientFds(c)'
  BY <1>3, DialAssumption DEF FdInv, ClientFds, Only
<1> QED
  BY <1>1, <1>2, <1>3 DEF FdInv

LEMMA ClientStep ==
    ASSUME FdInv, NEW c \in Clients, UNCHANGED <<transport, platform, lst, acc>>,
           \A d \in Clients \ {c} : cli'[d].pc = cli[d].pc,
           \A f \in fds' : f \in fds \/ f \in {<<c, "sock">>, <<c, "mem">>},
           ClientFds(c)'
    PROVE  FdInv'
<1>1. FdTypes'
  BY DEF FdInv, FdTypes
<1>2. ASSUME NEW m \in Listeners PROVE ServerFds(m)'
  BY <1>2, DialAssumption DEF FdInv, ServerFds
<1>3. ASSUME NEW d \in Clients \ {c} PROVE ClientFds(d)'
  BY <1>3 DEF FdInv, ClientFds
<1> QED
  BY <1>1, <1>2, <1>3 DEF FdInv

\* Every step of a listener and of its accepting thread keeps the account.
LEMMA ListenerKeepsFds ==
    ASSUME FdInv, NEW l \in Listeners,
           \/ ListenBegin(l) \/ ListenUnlink(l) \/ BindPath(l) \/ BindName(l) \/ ListenListen(l)
           \/ ListenFails(l) \/ CloseListener(l) \/ UnlinkPath(l) \/ CrashListener(l)
           \/ AcceptCall(l) \/ AcceptClosed(l) \/ AcceptFails(l) \/ AcceptTake(l)
           \/ AcceptTooLate(l) \/ AcceptRead(l) \/ AcceptRenew(l) \/ AcceptOpen(l)
    PROVE  FdInv'
<1> USE DEF Goto, Taken, Accepting, Out, OneInstance, Wakes, HasPath, IsShm
<1>0. /\ UNCHANGED <<transport, platform, cli>> /\ ServerFds(l) /\ FdTypes
  BY ListenerKeepsClients DEF env, client, FdInv
<1>1. CASE ListenBegin(l)
  <2>1. Only(l)
    BY <1>1, <1>0 DEF ListenBegin, Only, FdTypes
  <2>2. ServerFds(l)'
    BY <1>1, <1>0 DEF ListenBegin, ServerFds, FdTypes
  <2> QED
    BY <1>0, <2>1, <2>2, ListenerStep
<1>2. CASE ListenUnlink(l)
  <2>1. Only(l)
    BY <1>2, <1>0 DEF ListenUnlink, Only, FdTypes
  <2>2. ServerFds(l)'
    BY <1>2, <1>0 DEF ListenUnlink, ServerFds, FdTypes
  <2> QED
    BY <1>0, <2>1, <2>2, ListenerStep
<1>3. CASE BindPath(l)
  <2>1. Only(l)
    BY <1>3, <1>0 DEF BindPath, Only, FdTypes
  <2>2. ServerFds(l)'
    BY <1>3, <1>0 DEF BindPath, ServerFds, FdTypes
  <2> QED
    BY <1>0, <2>1, <2>2, ListenerStep
<1>4. CASE BindName(l)
  <2>1. Only(l)
    BY <1>4, <1>0 DEF BindName, Only, FdTypes
  <2>2. ServerFds(l)'
    BY <1>4, <1>0 DEF BindName, ServerFds, FdTypes
  <2> QED
    BY <1>0, <2>1, <2>2, ListenerStep
<1>5. CASE ListenListen(l)
  <2>1. Only(l)
    BY <1>5, <1>0 DEF ListenListen, Only, FdTypes
  <2>2. ServerFds(l)'
    BY <1>5, <1>0 DEF ListenListen, ServerFds, FdTypes
  <2> QED
    BY <1>0, <2>1, <2>2, ListenerStep
<1>6. CASE ListenFails(l)
  <2>1. Only(l)
    BY <1>6, <1>0 DEF ListenFails, Only, FdTypes
  <2>2. ServerFds(l)'
    BY <1>6, <1>0 DEF ListenFails, ServerFds, FdTypes
  <2> QED
    BY <1>0, <2>1, <2>2, ListenerStep
<1>7. CASE CloseListener(l)
  <2>1. Only(l)
    BY <1>7, <1>0 DEF CloseListener, Only, FdTypes
  <2>2. ServerFds(l)'
    BY <1>7, <1>0 DEF CloseListener, ServerFds, FdTypes
  <2> QED
    BY <1>0, <2>1, <2>2, ListenerStep
<1>8. CASE UnlinkPath(l)
  <2>1. Only(l)
    BY <1>8, <1>0 DEF UnlinkPath, Only, FdTypes
  <2>2. ServerFds(l)'
    BY <1>8, <1>0 DEF UnlinkPath, ServerFds, FdTypes
  <2> QED
    BY <1>0, <2>1, <2>2, ListenerStep
<1>9. CASE CrashListener(l)
  <2>1. Only(l)
    BY <1>9, <1>0 DEF CrashListener, Over, Only, FdTypes
  <2>2. ServerFds(l)'
    BY <1>9, <1>0 DEF CrashListener, Over, ServerFds, FdTypes
  <2> QED
    BY <1>0, <2>1, <2>2, ListenerStep
<1>10. CASE AcceptCall(l)
  <2>1. Only(l)
    BY <1>10, <1>0 DEF AcceptCall, Only, FdTypes
  <2>2. ServerFds(l)'
    BY <1>10, <1>0 DEF AcceptCall, ServerFds, FdTypes
  <2> QED
    BY <1>0, <2>1, <2>2, ListenerStep
<1>11. CASE AcceptClosed(l)
  <2>1. Only(l)
    BY <1>11, <1>0 DEF AcceptClosed, Only, FdTypes
  <2>2. ServerFds(l)'
    BY <1>11, <1>0 DEF AcceptClosed, ServerFds, FdTypes
  <2> QED
    BY <1>0, <2>1, <2>2, ListenerStep
<1>12. CASE AcceptFails(l)
  <2>1. Only(l)
    BY <1>12, <1>0 DEF AcceptFails, Only, FdTypes
  <2>2. ServerFds(l)'
    BY <1>12, <1>0 DEF AcceptFails, ServerFds, FdTypes
  <2> QED
    BY <1>0, <2>1, <2>2, ListenerStep
<1>13. CASE AcceptTake(l)
  <2>1. Only(l)
    BY <1>13, <1>0 DEF AcceptTake, Only, FdTypes
  <2>2. ServerFds(l)'
    BY <1>13, <1>0 DEF AcceptTake, ServerFds, FdTypes
  <2> QED
    BY <1>0, <2>1, <2>2, ListenerStep
<1>14. CASE AcceptRead(l)
  <2>1. Only(l)
    BY <1>14, <1>0 DEF AcceptRead, ReadId, Only, FdTypes
  <2>2. ServerFds(l)'
    BY <1>14, <1>0 DEF AcceptRead, ReadId, ServerFds, FdTypes
  <2> QED
    BY <1>0, <2>1, <2>2, ListenerStep
<1>15. CASE AcceptRenew(l)
  <2>1. Only(l)
    BY <1>15, <1>0 DEF AcceptRenew, Only, FdTypes
  <2>2. ServerFds(l)'
    BY <1>15, <1>0 DEF AcceptRenew, ServerFds, FdTypes
  <2> QED
    BY <1>0, <2>1, <2>2, ListenerStep
<1>16. CASE AcceptOpen(l)
  <2>1. Only(l)
    BY <1>16, <1>0 DEF AcceptOpen, OpenResources, Only, FdTypes
  <2>2. ServerFds(l)'
    BY <1>16, <1>0 DEF AcceptOpen, OpenResources, ServerFds, FdTypes
  <2> QED
    BY <1>0, <2>1, <2>2, ListenerStep
<1> QED
  BY <1>1, <1>2, <1>3, <1>4, <1>5, <1>6, <1>7, <1>8, <1>9, <1>10, <1>11, <1>12, <1>13, <1>14, <1>15, <1>16 DEF AcceptTooLate

\* Every step of a client keeps it.  What Moved says of the clients is enough.
LEMMA ClientKeepsFds ==
    ASSUME NamesInv, FdInv, NEW c \in Clients,
           \/ DialBegin(c) \/ CreateResources(c) \/ Connect(c) \/ NextAddress(c) \/ ConnectFails(c)
           \/ SetMode(c) \/ WriteId(c) \/ WriteIdFails(c) \/ CloseClient(c) \/ Cleanup(c) \/ CrashClient(c)
    PROVE  FdInv'
<1>0. ClientType /\ ClientFds(c) /\ UNCHANGED <<transport, platform, lst, acc>>
  BY DEF NamesInv, FdInv, env, server, DialBegin, CreateResources, Connect, NextAddress, ConnectFails, SetMode, WriteId,
         WriteIdFails, CloseClient, Cleanup, CrashClient
<1>1. \A d \in Clients \ {c} : cli'[d].pc = cli[d].pc
  BY <1>0 DEF ClientType, Client, Step, DialBegin, CreateResources, CreateSegment, CreateSemaphore,
         Connect, NextAddress, ConnectFails, SetMode, WriteId, WriteIdFails, CloseClient, Cleanup, CrashClient
<1>2. \A f \in fds' : f \in fds \/ f \in {<<c, "sock">>, <<c, "mem">>}
  BY DEF Drop, DialBegin, CreateResources, CreateSegment, CreateSemaphore,
         Connect, NextAddress, ConnectFails, SetMode, WriteId, WriteIdFails, CloseClient, Cleanup, CrashClient
<1>3. ClientFds(c)'
  <2> USE <1>0 DEF ClientType, ClientFds, Client, Step, Drop, TidyUp, IsShm
  <2>1. CASE DialBegin(c)
    BY <2>1 DEF DialBegin
  <2>2. CASE CreateSegment(c)
    BY <2>2 DEF CreateSegment
  <2>3. CASE CreateSemaphore(c) /\ UNCHANGED env
    BY <2>3 DEF CreateSemaphore
  <2>4. CASE Connect(c)
    BY <2>4 DEF Connect
  <2>5. CASE NextAddress(c) \/ ConnectFails(c)
    BY <2>5 DEF NextAddress, ConnectFails
  <2>10. CASE SetMode(c)
    BY <2>10 DEF SetMode
  <2>6. CASE WriteId(c)
    BY <2>6 DEF WriteId
  <2>7. CASE WriteIdFails(c) \/ CloseClient(c)
    BY <2>7 DEF WriteIdFails, CloseClient
  <2>8. CASE Cleanup(c)
    BY <2>8 DEF Cleanup
  <2>9. CASE CrashClient(c)
    BY <2>9 DEF CrashClient
  <2> QED
    BY <2>1, <2>2, <2>3, <2>4, <2>5, <2>6, <2>7, <2>8, <2>9, <2>10 DEF CreateResources
<1> QED
  BY <1>0, <1>1, <1>2, <1>3, ClientStep

LEMMA FdInit == Init => FdInv
<1> SUFFICES ASSUME Init PROVE FdInv
  OBVIOUS
<1>1. PICK cast \in Casts : TakePart(cast)
  BY DEF Init
<1>2. FdTypes
  BY <1>1 DEF Init, TakePart, FdTypes
<1>3. ASSUME NEW l \in Listeners PROVE ServerFds(l)
  BY <1>1 DEF Init, TakePart, ServerFds
<1>4. ASSUME NEW c \in Clients PROVE ClientFds(c)
  BY DEF Init, ClientFds
<1> QED
  BY <1>2, <1>3, <1>4 DEF FdInv

LEMMA FdStep == NamesInv /\ FdInv /\ [Next]_vars => FdInv'
<1> SUFFICES ASSUME NamesInv, FdInv, [Next]_vars PROVE FdInv'
  OBVIOUS
<1>1. CASE Next
  BY <1>1, ListenerKeepsFds, ClientKeepsFds DEF Next
<1>2. CASE UNCHANGED vars
  BY <1>2 DEF vars, env, server, client, FdInv, FdTypes, ServerFds, ClientFds
<1> QED
  BY <1>1, <1>2

\* Whichever system call of listen(), accept(), dial() or close() fails, once the
\* call has returned it leaves no descriptor, handle, mapping or name of its own.
THEOREM LeakFree == Spec => []NoLeak
<1>1. NamesInv /\ FdInv => NoLeak
  <2> SUFFICES ASSUME NamesInv, FdInv PROVE NoLeak
    OBVIOUS
  <2>1. ASSUME NEW l \in Listeners
        PROVE  /\ lst[l] \in {"failed", "closed"} => <<l, "listen">> \notin fds
               /\ acc[l].pc \in {"out", "ended"} => {<<l, "conn">>, <<l, "mem">>} \cap fds = {}
    BY <2>1 DEF FdInv, ServerFds
  <2>2. ASSUME NEW c \in Clients, cli[c].pc = "over"
        PROVE  /\ {<<c, "sock">>, <<c, "mem">>} \cap fds = {}
               /\ \A i \in ConnIds, k \in 0..NumSems : names[i][k] # c
    <3>1. {<<c, "sock">>, <<c, "mem">>} \cap fds = {}
      BY <2>2 DEF FdInv, ClientFds
    <3>2. cli[c].pc \notin Held \cup {"crashed"}
      BY <2>2 DEF Held
    <3>3. \A i \in ConnIds, k \in 0..NumSems : names[i][k] # c
      BY <3>2, Zenon DEF NamesInv, HasOwner
    <3> QED
      BY <3>1, <3>3
  <2> QED
    BY <2>1, <2>2 DEF NoLeak
<1> QED
  BY <1>1, NamesInit, NamesStep, FdInit, FdStep, PTL DEF Spec

-----------------------------------------------------------------------------
(* Who is reached *)

\* With a path: a listener that is alone, and not over, is the only one that is
\* not, so nobody else touches the path that it has bound.
PathOf ==
    /\ alone \subseteq Listeners
    /\ HasPath => \A l \in alone :
          /\ lst[l] # "new"
          /\ ~Over(l) => \A m \in Listeners \ {l} : Over(m)
          /\ lst[l] \in {"listen", "open"} => path = l
          /\ lst[l] = "open" => l \in inst

\* A port or a named pipe leads to every listener that is open, alone or not: a
\* second one is refused, or shares the port.
NameOf ==
    transport \in {"tcp", "winshm"} => \A l \in Listeners :
        lst[l] = "open" /\ acc[l].pc # "renew" => l \in inst

ReachInv == FdInv /\ PathOf /\ NameOf

LEMMA ListenerKeepsReach ==
    ASSUME ReachInv, NEW l \in Listeners,
           \/ ListenBegin(l) \/ ListenUnlink(l) \/ BindPath(l) \/ BindName(l) \/ ListenListen(l)
           \/ ListenFails(l) \/ CloseListener(l) \/ UnlinkPath(l) \/ CrashListener(l)
           \/ AcceptCall(l) \/ AcceptClosed(l) \/ AcceptFails(l) \/ AcceptTake(l)
           \/ AcceptTooLate(l) \/ AcceptRead(l) \/ AcceptRenew(l) \/ AcceptOpen(l)
    PROVE  PathOf' /\ NameOf'
<1> USE DEF Goto, Taken, Accepting, Out, OneInstance, Wakes, HasPath, IsShm, Over
<1>0. /\ UNCHANGED <<transport, platform, cli>> /\ ServerFds(l) /\ FdTypes /\ PathOf /\ NameOf
  BY ListenerKeepsClients DEF env, client, ReachInv, FdInv
<1>1. CASE ListenBegin(l)
  <2>1. PathOf'
    BY <1>1, <1>0 DEF ListenBegin, PathOf, FdTypes, ServerFds
  <2>2. NameOf'
    BY <1>1, <1>0 DEF ListenBegin, NameOf, FdTypes, ServerFds
  <2> QED
    BY <2>1, <2>2
<1>2. CASE ListenUnlink(l)
  <2>1. PathOf'
    BY <1>2, <1>0 DEF ListenUnlink, PathOf, FdTypes, ServerFds
  <2>2. NameOf'
    BY <1>2, <1>0 DEF ListenUnlink, NameOf, FdTypes, ServerFds
  <2> QED
    BY <2>1, <2>2
<1>3. CASE BindPath(l)
  <2>1. PathOf'
    BY <1>3, <1>0 DEF BindPath, PathOf, FdTypes, ServerFds
  <2>2. NameOf'
    BY <1>3, <1>0 DEF BindPath, NameOf, FdTypes, ServerFds
  <2> QED
    BY <2>1, <2>2
<1>4. CASE BindName(l)
  <2>1. PathOf'
    BY <1>4, <1>0 DEF BindName, PathOf, FdTypes, ServerFds
  <2>2. NameOf'
    BY <1>4, <1>0 DEF BindName, NameOf, FdTypes, ServerFds
  <2> QED
    BY <2>1, <2>2
<1>5. CASE ListenListen(l)
  <2>1. PathOf'
    BY <1>5, <1>0 DEF ListenListen, PathOf, FdTypes, ServerFds
  <2>2. NameOf'
    BY <1>5, <1>0 DEF ListenListen, NameOf, FdTypes, ServerFds
  <2> QED
    BY <2>1, <2>2
<1>6. CASE ListenFails(l)
  <2>1. PathOf'
    BY <1>6, <1>0 DEF ListenFails, PathOf, FdTypes, ServerFds
  <2>2. NameOf'
    BY <1>6, <1>0 DEF ListenFails, NameOf, FdTypes, ServerFds
  <2> QED
    BY <2>1, <2>2
<1>7. CASE CloseListener(l)
  <2>1. PathOf'
    BY <1>7, <1>0 DEF CloseListener, PathOf, FdTypes, ServerFds
  <2>2. NameOf'
    BY <1>7, <1>0 DEF CloseListener, NameOf, FdTypes, ServerFds
  <2> QED
    BY <2>1, <2>2
<1>8. CASE UnlinkPath(l)
  <2>1. PathOf'
    BY <1>8, <1>0 DEF UnlinkPath, PathOf, FdTypes, ServerFds
  <2>2. NameOf'
    BY <1>8, <1>0 DEF UnlinkPath, NameOf, FdTypes, ServerFds
  <2> QED
    BY <2>1, <2>2
<1>9. CASE CrashListener(l)
  <2>1. PathOf'
    BY <1>9, <1>0 DEF CrashListener, PathOf, FdTypes, ServerFds
  <2>2. NameOf'
    BY <1>9, <1>0 DEF CrashListener, NameOf, FdTypes, ServerFds
  <2> QED
    BY <2>1, <2>2
<1>10. CASE AcceptCall(l)
  <2>1. PathOf'
    BY <1>10, <1>0 DEF AcceptCall, PathOf, FdTypes, ServerFds
  <2>2. NameOf'
    BY <1>10, <1>0 DEF AcceptCall, NameOf, FdTypes, ServerFds
  <2> QED
    BY <2>1, <2>2
<1>11. CASE AcceptClosed(l)
  <2>1. PathOf'
    BY <1>11, <1>0 DEF AcceptClosed, PathOf, FdTypes, ServerFds
  <2>2. NameOf'
    BY <1>11, <1>0 DEF AcceptClosed, NameOf, FdTypes, ServerFds
  <2> QED
    BY <2>1, <2>2
<1>12. CASE AcceptFails(l)
  <2>1. PathOf'
    BY <1>12, <1>0 DEF AcceptFails, PathOf, FdTypes, ServerFds
  <2>2. NameOf'
    BY <1>12, <1>0 DEF AcceptFails, NameOf, FdTypes, ServerFds
  <2> QED
    BY <2>1, <2>2
<1>13. CASE AcceptTake(l)
  <2>1. PathOf'
    BY <1>13, <1>0 DEF AcceptTake, PathOf, FdTypes, ServerFds
  <2>2. NameOf'
    BY <1>13, <1>0 DEF AcceptTake, NameOf, FdTypes, ServerFds
  <2> QED
    BY <2>1, <2>2
<1>14. CASE AcceptRead(l)
  <2>1. PathOf'
    BY <1>14, <1>0 DEF AcceptRead, ReadId, PathOf, FdTypes, ServerFds
  <2>2. NameOf'
    BY <1>14, <1>0 DEF AcceptRead, ReadId, NameOf, FdTypes, ServerFds
  <2> QED
    BY <2>1, <2>2
<1>15. CASE AcceptRenew(l)
  <2>1. PathOf'
    BY <1>15, <1>0 DEF AcceptRenew, PathOf, FdTypes, ServerFds
  <2>2. NameOf'
    BY <1>15, <1>0 DEF AcceptRenew, NameOf, FdTypes, ServerFds
  <2> QED
    BY <2>1, <2>2
<1>16. CASE AcceptOpen(l)
  <2>1. PathOf'
    BY <1>16, <1>0 DEF AcceptOpen, OpenResources, PathOf, FdTypes, ServerFds
  <2>2. NameOf'
    BY <1>16, <1>0 DEF AcceptOpen, OpenResources, NameOf, FdTypes, ServerFds
  <2> QED
    BY <2>1, <2>2
<1> QED
  BY <1>1, <1>2, <1>3, <1>4, <1>5, <1>6, <1>7, <1>8, <1>9, <1>10, <1>11, <1>12, <1>13, <1>14, <1>15, <1>16 DEF AcceptTooLate

\* A client's steps do not touch a listener.
LEMMA ClientKeepsReach ==
    ASSUME PathOf, NameOf, NEW c \in Clients,
           \/ DialBegin(c) \/ CreateResources(c) \/ Connect(c) \/ NextAddress(c) \/ ConnectFails(c)
           \/ SetMode(c) \/ WriteId(c) \/ WriteIdFails(c) \/ CloseClient(c) \/ Cleanup(c) \/ CrashClient(c)
    PROVE  PathOf' /\ NameOf'
<1>1. UNCHANGED <<env, server>>
  BY DEF DialBegin, CreateResources, Connect, NextAddress, ConnectFails, SetMode, WriteId,
         WriteIdFails, CloseClient, Cleanup, CrashClient
<1> QED
  BY <1>1 DEF env, server, PathOf, NameOf, HasPath, Over

\* A listener that listen() returned, and that never shared its address with
\* another, is the one that clients reach, for any number of listeners before it,
\* whichever crashed or failed at whichever step.
THEOREM ReachInvariant == Spec => []ReachableAlone
<1>1. Init => PathOf /\ NameOf
  <2> SUFFICES ASSUME Init PROVE PathOf /\ NameOf
    OBVIOUS
  <2>1. PICK cast \in Casts : TakePart(cast)
    BY DEF Init
  <2>2. \A l \in Listeners : lst[l] \in {"new", "failed"}
    BY <2>1 DEF TakePart
  <2>3. alone = {}
    BY DEF Init
  <2> QED
    BY <2>2, <2>3 DEF PathOf, NameOf
<1>2. ReachInv /\ [Next]_vars => PathOf' /\ NameOf'
  <2> SUFFICES ASSUME ReachInv, [Next]_vars PROVE PathOf' /\ NameOf'
    OBVIOUS
  <2>1. CASE Next
    BY <2>1, ListenerKeepsReach, ClientKeepsReach DEF Next, ReachInv
  <2>2. CASE UNCHANGED vars
    BY <2>2 DEF vars, env, server, ReachInv, PathOf, NameOf, HasPath, Over
  <2> QED
    BY <2>1, <2>2
<1>3. FdInv /\ PathOf /\ NameOf => ReachableAlone
  <2> SUFFICES ASSUME FdInv, PathOf, NameOf, NEW l \in alone, lst[l] = "open"
               PROVE  /\ HasPath => path = l /\ l \in inst
                      /\ transport = "tcp" \/ (transport = "winshm" /\ acc[l].pc # "renew") => l \in inst
    BY DEF ReachableAlone
  <2>1. HasPath => path = l /\ l \in inst
    BY DEF PathOf
  <2>2. l \in Listeners
    BY DEF PathOf
  <2>3. transport = "tcp" => acc[l].pc # "renew"
    BY <2>2 DEF FdInv, ServerFds
  <2>4. transport = "tcp" \/ (transport = "winshm" /\ acc[l].pc # "renew") => l \in inst
    BY <2>2, <2>3 DEF NameOf
  <2> QED
    BY <2>1, <2>4
<1>4. ReachInv <=> FdInv /\ PathOf /\ NameOf
  BY DEF ReachInv
<1> QED
  BY <1>1, <1>2, <1>3, <1>4, NamesInit, NamesStep, FdInit, FdStep, PTL DEF Spec
=============================================================================
