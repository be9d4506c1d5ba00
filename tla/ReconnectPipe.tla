---------------------------- MODULE ReconnectPipe ----------------------------
(***************************************************************************)
(* class ReconnectPipe (src/reconnect_pipe.cc): a Pipe over a succession   *)
(* of connections.  Users call send() and recv(), which share one loop; a  *)
(* worker dials; close() stops it and joins it.  Connections are numbered  *)
(* in the order they are dialled, and 0 is the null inner_.                *)
(*                                                                         *)
(* mu_ is held only within an action, since cv_ waits release it.  What    *)
(* the code does between two critical sections is a step: the I/O on the   *)
(* snapshot of inner_, dial_once_(), set_state() and inner_to_close->      *)
(* close().  The callback that set_state() makes once it has unlocked is   *)
(* the application's, and may take any time before the next step.          *)
(***************************************************************************)
EXTENDS Naturals, FiniteSets, CondVar

CONSTANTS Users, Worker, Closers,
          MaxAttempts,   \* policy_.max_attempts (0: retry forever)
          MaxConns       \* bound: connections dialled

ASSUME ReconnectAssumption ==
    /\ IsFiniteSet(Users) /\ IsFiniteSet(Closers)
    /\ Users \cap Closers = {} /\ Worker \notin Users \cup Closers
    /\ MaxAttempts \in Nat /\ MaxConns \in Nat

VARIABLES closed, permanently_failed, ever_connected,
          inner,       \* inner_
          state,       \* state_
          pc,          \* where each thread is
          conn,        \* inner_snapshot or inner_to_close of a thread
          attempts,    \* of worker_loop()
          dialed,      \* history: connections made so far
          shut,        \* history: connections close() was called on
          broken       \* history: connections whose I/O met a disconnect error

flags == <<closed, permanently_failed, ever_connected>>
hist == <<dialed, shut, broken>>
vars == <<flags, inner, state, pc, conn, attempts, hist>>

Threads == Users \cup {Worker} \cup Closers
ConnectionState == {"kConnecting", "kConnected", "kDisconnected", "kReconnecting", "kClosed"}

\* The constructor: it reports kConnecting and starts the worker.
Init ==
    /\ closed = FALSE /\ permanently_failed = FALSE /\ ever_connected = FALSE
    /\ inner = 0 /\ state = "kConnecting"
    /\ pc = [t \in Threads |-> IF t = Worker THEN "top" ELSE "idle"]
    /\ conn = [t \in Threads |-> 0]
    /\ attempts = 0
    /\ dialed = 0 /\ shut = {} /\ broken = {}

Goto(t, to) == pc' = [pc EXCEPT ![t] = to]
\* cv_.notify_all(), by thread t, which then goes on at `to'.
NotifyAndGoto(t, to) == pc' = [NotifyAll(pc, Threads) EXCEPT ![t] = to]

\* set_state() in a critical section of its own.
SetState(t, next, to) ==
    /\ state' = next
    /\ Goto(t, to)
    /\ UNCHANGED <<flags, inner, conn, attempts, hist>>

\* A wait on cv_ may end without a notification.
Spurious(t) ==
    /\ pc[t] = "wait"
    /\ Goto(t, "woken")
    /\ UNCHANGED <<flags, inner, state, conn, attempts, hist>>
-----------------------------------------------------------------------------
(* send() and recv() *)

Call(u) ==
    /\ pc[u] = "idle"
    /\ Goto(u, "loop")
    /\ UNCHANGED <<flags, inner, state, conn, attempts, hist>>

\* wait_connected().  It returns kClosed, kIoError or, at its timeout, kTimeout.
WaitConnected(u) ==
    /\ pc[u] \in {"loop", "woken", "expired"}
    /\ Goto(u, IF closed \/ permanently_failed THEN "idle"
               ELSE IF inner # 0 THEN "snapshot"
               ELSE IF pc[u] = "expired" THEN "idle" ELSE "wait")
    /\ UNCHANGED <<flags, inner, state, conn, attempts, hist>>

WaitTimeout(u) ==
    /\ pc[u] = "wait"
    /\ Goto(u, "expired")
    /\ UNCHANGED <<flags, inner, state, conn, attempts, hist>>

\* snapshot_inner(); the loop goes round if the connection has gone.
Snapshot(u) ==
    /\ pc[u] = "snapshot"
    /\ conn' = [conn EXCEPT ![u] = inner]
    /\ Goto(u, IF inner = 0 THEN "loop" ELSE "io")
    /\ UNCHANGED <<flags, inner, state, attempts, hist>>

\* The I/O succeeds, times out, or fails with an error that is no disconnect.
InnerReturns(u) ==
    /\ pc[u] = "io" /\ conn[u] \notin shut
    /\ Goto(u, "idle")
    /\ UNCHANGED <<flags, inner, state, conn, attempts, hist>>

\* is_disconnect_error(): the peer went, or the connection was closed here.
InnerBreaks(u) ==
    /\ pc[u] = "io"
    /\ broken' = broken \cup {conn[u]}
    /\ Goto(u, "mark")
    /\ UNCHANGED <<flags, inner, state, conn, attempts, dialed, shut>>

MutMarkDisconnected(u) ==
    /\ pc[u] = "mark"
    /\ IF closed \/ inner = 0
       THEN Goto(u, "loop") /\ UNCHANGED <<inner, conn>>
       ELSE /\ inner' = 0 /\ conn' = [conn EXCEPT ![u] = inner]
            /\ NotifyAndGoto(u, "disconnected")
    /\ UNCHANGED <<flags, state, attempts, hist>>
\* mark_disconnected(): an error of an earlier connection is ignored.
MarkDisconnected(u) ==
    /\ pc[u] = "mark"
    /\ IF closed \/ inner = 0 \/ inner # conn[u]
       THEN Goto(u, "loop") /\ UNCHANGED inner
       ELSE inner' = 0 /\ NotifyAndGoto(u, "disconnected")
    /\ UNCHANGED <<flags, state, conn, attempts, hist>>

Disconnected(u) ==
    /\ pc[u] = "disconnected"
    /\ SetState(u, "kDisconnected", "shut")

MutShutInner(u) ==
    /\ pc[u] = "shut"
    /\ Goto(u, "loop")
    /\ UNCHANGED <<flags, inner, state, conn, attempts, hist>>
\* inner_to_close->close(), and round the loop.
ShutInner(u) ==
    /\ pc[u] = "shut"
    /\ shut' = shut \cup {conn[u]}
    /\ Goto(u, "loop")
    /\ UNCHANGED <<flags, inner, state, conn, attempts, dialed, broken>>
-----------------------------------------------------------------------------
(* worker_loop() *)

LoopTop ==
    /\ pc[Worker] = "top"
    /\ Goto(Worker, IF closed THEN "done" ELSE "check")
    /\ UNCHANGED <<flags, inner, state, conn, attempts, hist>>

MutAwaitClosed ==
    /\ pc[Worker] \in {"check", "woken"}
    /\ Goto(Worker, IF closed THEN "top"
                    ELSE IF pc[Worker] = "woken" \/ inner # 0 THEN "wait" ELSE "announce")
    /\ UNCHANGED <<flags, inner, state, conn, attempts, hist>>
\* While connected, wait until disconnected or closed, and start again.
AwaitDisconnect ==
    /\ pc[Worker] \in {"check", "woken"}
    /\ Goto(Worker, IF inner # 0 /\ ~closed THEN "wait"
                    ELSE IF pc[Worker] = "woken" \/ inner # 0 THEN "top"
                    ELSE IF permanently_failed THEN "done" ELSE "announce")
    /\ UNCHANGED <<flags, inner, state, conn, attempts, hist>>

Announce ==
    /\ pc[Worker] = "announce"
    /\ SetState(Worker, IF ever_connected THEN "kReconnecting" ELSE "kConnecting", "begin")

\* The head of the dial loop.
BeginRound ==
    /\ pc[Worker] = "begin"
    /\ attempts' = 0
    /\ Goto(Worker, "try")
    /\ UNCHANGED <<flags, inner, state, conn, hist>>

Try ==
    /\ pc[Worker] = "try"
    /\ Goto(Worker, IF closed THEN "done"
                    ELSE IF MaxAttempts # 0 /\ attempts >= MaxAttempts THEN "exhausted"
                    ELSE "dial")
    /\ UNCHANGED <<flags, inner, state, conn, attempts, hist>>

MutExhausted ==
    /\ pc[Worker] = "exhausted"
    /\ permanently_failed' = TRUE
    /\ Goto(Worker, "failed")
    /\ UNCHANGED <<closed, ever_connected, inner, state, conn, attempts, hist>>
Exhausted ==
    /\ pc[Worker] = "exhausted"
    /\ permanently_failed' = TRUE
    /\ NotifyAndGoto(Worker, "failed")
    /\ UNCHANGED <<closed, ever_connected, inner, state, conn, attempts, hist>>

Failed ==
    /\ pc[Worker] = "failed"
    /\ SetState(Worker, "kDisconnected", "done")

MutDialOk ==
    /\ pc[Worker] = "dial" /\ dialed < MaxConns
    /\ dialed' = dialed + 1 /\ inner' = dialed + 1 /\ ever_connected' = TRUE
    /\ Goto(Worker, "connected")
    /\ UNCHANGED <<closed, permanently_failed, state, conn, attempts, shut, broken>>
\* dial_once_() returned a connection; it becomes inner_ whether or not the pipe
\* was closed in the meantime.
DialOk ==
    /\ pc[Worker] = "dial" /\ dialed < MaxConns
    /\ dialed' = dialed + 1 /\ inner' = dialed + 1 /\ ever_connected' = TRUE
    /\ NotifyAndGoto(Worker, "connected")
    /\ UNCHANGED <<closed, permanently_failed, state, conn, attempts, shut, broken>>

Connected ==
    /\ pc[Worker] = "connected"
    /\ SetState(Worker, "kConnected", "top")

\* Without a limit the code never looks at attempts again: it counts to 1.
DialFails ==
    /\ pc[Worker] = "dial"
    /\ attempts' = IF MaxAttempts = 0 THEN 1 ELSE attempts + 1
    /\ Goto(Worker, "backoff")
    /\ UNCHANGED <<flags, inner, state, conn, hist>>

\* cv_.wait_for(): until the delay is over, or the pipe is closed.
Backoff ==
    /\ pc[Worker] = "backoff"
    /\ Goto(Worker, "try")
    /\ UNCHANGED <<flags, inner, state, conn, attempts, hist>>
-----------------------------------------------------------------------------
(* close() *)

MutCloseLock(c) ==
    /\ pc[c] = "idle"
    /\ IF closed THEN Goto(c, "skipped") /\ UNCHANGED <<closed, inner, conn>>
       ELSE /\ closed' = TRUE
            /\ conn' = [conn EXCEPT ![c] = inner] /\ inner' = 0
            /\ Goto(c, "setclosed")
    /\ UNCHANGED <<permanently_failed, ever_connected, state, attempts, hist>>
\* A second close() returns at once.
CloseLock(c) ==
    /\ pc[c] = "idle"
    /\ IF closed THEN Goto(c, "skipped") /\ UNCHANGED <<closed, inner, conn>>
       ELSE /\ closed' = TRUE
            /\ conn' = [conn EXCEPT ![c] = inner] /\ inner' = 0
            /\ NotifyAndGoto(c, "setclosed")
    /\ UNCHANGED <<permanently_failed, ever_connected, state, attempts, hist>>

CloseState(c) ==
    /\ pc[c] = "setclosed"
    /\ SetState(c, "kClosed", "closeinner")

CloseInner(c) ==
    /\ pc[c] = "closeinner"
    /\ shut' = shut \cup ({conn[c]} \ {0})
    /\ Goto(c, "join")
    /\ UNCHANGED <<flags, inner, state, conn, attempts, dialed, broken>>

Join(c) ==
    /\ pc[c] = "join" /\ pc[Worker] = "done"
    /\ Goto(c, "closed")
    /\ UNCHANGED <<flags, inner, state, conn, attempts, hist>>

UserStep(u) == \/ Call(u) \/ WaitConnected(u) \/ WaitTimeout(u) \/ Snapshot(u)
               \/ InnerReturns(u) \/ InnerBreaks(u) \/ MarkDisconnected(u)
               \/ Disconnected(u) \/ ShutInner(u)
\* What the worker does without the help of the network.
WorkerRun == \/ LoopTop \/ AwaitDisconnect \/ Announce \/ BeginRound \/ Try \/ Exhausted
             \/ Failed \/ Connected \/ Backoff
CloseStep(c) == CloseLock(c) \/ CloseState(c) \/ CloseInner(c) \/ Join(c)

Next == \/ \E u \in Users : UserStep(u)
        \/ WorkerRun \/ DialOk \/ DialFails
        \/ \E c \in Closers : CloseStep(c)
        \/ \E t \in Threads : Spurious(t)

Spec == Init /\ [][Next]_vars

\* Threads run, callbacks return, and dial_once_() returns, as its attempts are
\* bounded in time.  Nothing makes the I/O on a connection return, and nothing
\* makes a dial succeed.
FairSpec ==
    /\ Spec
    /\ \A u \in Users : /\ WF_vars(WaitConnected(u)) /\ WF_vars(Snapshot(u))
                        /\ WF_vars(MarkDisconnected(u) \/ Disconnected(u) \/ ShutInner(u))
    /\ WF_vars(WorkerRun) /\ WF_vars(DialOk \/ DialFails)
    /\ \A c \in Closers : WF_vars(CloseState(c) \/ CloseInner(c) \/ Join(c))
-----------------------------------------------------------------------------
(* Properties *)

UserStates == {"idle", "loop", "wait", "woken", "expired", "snapshot", "io", "mark",
               "disconnected", "shut"}
WorkerStates == {"top", "check", "wait", "woken", "announce", "begin", "try", "dial",
                 "exhausted", "failed", "connected", "backoff", "done"}
CloserStates == {"idle", "skipped", "setclosed", "closeinner", "join", "closed"}

\* Types; an attempt is counted at most max_attempts times.
TypeOK ==
    /\ closed \in BOOLEAN /\ permanently_failed \in BOOLEAN /\ ever_connected \in BOOLEAN
    /\ inner \in 0..dialed /\ state \in ConnectionState
    /\ pc \in [Threads -> UserStates \cup WorkerStates \cup CloserStates]
    /\ \A u \in Users : pc[u] \in UserStates
    /\ pc[Worker] \in WorkerStates
    /\ \A c \in Closers : pc[c] \in CloserStates
    /\ conn \in [Threads -> 0..dialed]
    /\ attempts \in Nat /\ (MaxAttempts # 0 => attempts <= MaxAttempts)
    /\ dialed \in Nat /\ shut \subseteq 1..dialed /\ broken \subseteq 1..dialed

Dialling == {"announce", "begin", "try", "dial", "backoff", "exhausted", "failed"}

\* While the worker dials there is no connection: so a new one replaces none,
\* and last_error_, which the worker reads without the lock, has no other
\* writer (mark_disconnected() writes it only where inner_ is set).
WorkerOwnsInner == pc[Worker] \in Dialling => inner = 0

\* A connection is given up only by close() or by a call that met a disconnect
\* error on that connection: a late error of an earlier one does not harm it.
StaleErrorHarmless ==
    [][inner # 0 /\ inner' # inner => closed' \/ inner \in broken]_vars

\* Thread t has taken connection k out of inner_ and is about to close it.
Closes(t, k) ==
    conn[t] = k /\ pc[t] \in {"disconnected", "shut", "setclosed", "closeinner"}

\* A connection is closed once, by the one thread that took it out of inner_,
\* and never while it is inner_; none that was dialled is forgotten.
NoLeakedConnection ==
    /\ inner \notin shut
    /\ \A k \in 1..dialed : k = inner \/ k \in shut \/ \E t \in Threads : Closes(t, k)
    /\ \A k \in 1..dialed, t \in Threads : Closes(t, k) =>
          /\ k # inner /\ k \notin shut
          /\ \A other \in Threads \ {t} : ~Closes(other, k)

\* Nobody sleeps on cv_ through what it waits for: a connection, the end of one,
\* exhausted attempts or close().
NoLostWakeup ==
    /\ \A u \in Users : pc[u] = "wait" => inner = 0 /\ ~closed /\ ~permanently_failed
    /\ pc[Worker] = "wait" => inner # 0 /\ ~closed

\* close() ends: the worker can be joined, whatever the network does.
CloseJoins == \A c \in Closers : pc[c] = "setclosed" ~> pc[c] = "closed"

\* With bounded attempts a call that waits for a connection is released.
WaitersReleased == \A u \in Users : pc[u] = "wait" ~> pc[u] # "wait"

\* A lost connection is replaced or given up: the pipe does not stay without
\* one while there are attempts left.
Reconnects ==
    inner = 0 /\ ever_connected ~> inner # 0 \/ closed \/ permanently_failed
=============================================================================
