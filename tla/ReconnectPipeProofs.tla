------------------------- MODULE ReconnectPipeProofs -------------------------
(***************************************************************************)
(* Theorems about ReconnectPipe, for any number of users, closers and      *)
(* connections and any limit on attempts.  The inductive invariant is the  *)
(* conjunction of the properties and of what the threads know at points of *)
(* their code: a call that failed has a connection and has marked it       *)
(* broken, and the worker dials only below the limit.                      *)
(***************************************************************************)
EXTENDS ReconnectPipe, TLAPS

States == UserStates \cup WorkerStates \cup CloserStates

\* A call past its snapshot holds a connection.
HasConn ==
    \A u \in Users : pc[u] \in {"io", "mark", "disconnected", "shut"} => conn[u] # 0

\* mark_disconnected() is called only for a connection that broke.
MarksBroken == \A u \in Users : pc[u] = "mark" => conn[u] \in broken

\* The worker dials only below max_attempts.
DialBound == pc[Worker] = "dial" /\ MaxAttempts # 0 => attempts < MaxAttempts

Inv == /\ TypeOK /\ WorkerOwnsInner /\ NoLostWakeup /\ NoLeakedConnection
       /\ HasConn /\ MarksBroken /\ DialBound

\* The pc of every thread after a step of t without a notification.
LEMMA GotoFacts ==
    ASSUME pc \in [Threads -> States], NEW t \in Threads, NEW to \in States, Goto(t, to)
    PROVE  /\ pc' \in [Threads -> States]
           /\ pc'[t] = to
           /\ \A x \in Threads \ {t} : pc'[x] = pc[x]
BY DEF Goto

\* The pc of every thread after a step of t that notifies all waiters.
LEMMA NotifyFacts ==
    ASSUME pc \in [Threads -> States], NEW t \in Threads, NEW to \in States,
           NotifyAndGoto(t, to)
    PROVE  /\ pc' \in [Threads -> States]
           /\ pc'[t] = to
           /\ \A x \in Threads \ {t} : pc'[x] = IF pc[x] = "wait" THEN "woken" ELSE pc[x]
<1>1. "woken" \in States
  BY DEF States, UserStates
<1> QED
  BY <1>1 DEF NotifyAndGoto, NotifyAll, Wake, Waiting

\* Every thread is of one kind.
LEMMA Kinds ==
    /\ Worker \in Threads /\ Users \subseteq Threads /\ Closers \subseteq Threads
    /\ \A t \in Threads : t \in Users \/ t = Worker \/ t \in Closers
    /\ \A u \in Users : u # Worker /\ u \notin Closers
    /\ \A c \in Closers : c # Worker
BY ReconnectAssumption DEF Threads

\* A step that only moves one thread, and may set state_ and attempts, keeps
\* the invariant if it neither begins nor ends a close of a connection and
\* goes to sleep, or to dial, only where it may.
LEMMA MoveStep ==
    ASSUME Inv, NEW t \in Threads, NEW to \in States, Goto(t, to),
           UNCHANGED <<closed, permanently_failed, ever_connected, inner, conn, hist>>,
           state' \in ConnectionState,
           attempts' \in Nat, MaxAttempts # 0 => attempts' <= MaxAttempts,
           t \in Users => to \in UserStates,
           t = Worker => to \in WorkerStates,
           t \in Closers => to \in CloserStates,
           t = Worker /\ to \in Dialling => inner = 0,
           t = Worker /\ to = "wait" => inner # 0 /\ ~closed,
           t \in Users /\ to = "wait" => inner = 0 /\ ~closed /\ ~permanently_failed,
           t = Worker /\ to = "dial" /\ MaxAttempts # 0 => attempts' < MaxAttempts,
           t # Worker => attempts' = attempts,
           \/ {pc[t], to} \subseteq {"disconnected", "shut", "setclosed", "closeinner"}
           \/ {pc[t], to} \cap {"io", "mark", "disconnected", "shut", "setclosed", "closeinner"} = {}
           \/ pc[t] \in {"io", "mark"} /\ to \in {"idle", "loop"}
    PROVE  Inv'
<1> USE Kinds DEF Inv, hist
<1>1. /\ pc' \in [Threads -> States] /\ pc'[t] = to
      /\ \A x \in Threads \ {t} : pc'[x] = pc[x]
  BY GotoFacts DEF TypeOK, States
<1>2. TypeOK'
  BY <1>1 DEF TypeOK, States
<1>3. WorkerOwnsInner'
  BY <1>1 DEF WorkerOwnsInner
<1>4. NoLostWakeup'
  BY <1>1 DEF NoLostWakeup
<1>5. HasConn'
  <2> SUFFICES ASSUME NEW u \in Users,
                      pc'[u] \in {"io", "mark", "disconnected", "shut"}
               PROVE  conn[u] # 0
    BY DEF HasConn
  <2>1. CASE u # t
    BY <1>1, <2>1 DEF HasConn
  <2>2. CASE u = t
    <3>1. pc[t] \in {"disconnected", "shut"}
      BY <1>1, <2>2 DEF TypeOK, UserStates
    <3> QED
      BY <2>2, <3>1 DEF HasConn
  <2> QED
    BY <2>1, <2>2
<1>6. MarksBroken'
  BY <1>1 DEF MarksBroken
<1>7. DialBound'
  BY <1>1 DEF DialBound
<1>8. \A x \in Threads, k \in 1..dialed : Closes(x, k)' <=> Closes(x, k)
  BY <1>1 DEF Closes
<1>9. NoLeakedConnection'
  BY <1>8 DEF NoLeakedConnection
<1> QED
  BY <1>2, <1>3, <1>4, <1>5, <1>6, <1>7, <1>9

\* The calls' steps that only move them.
LEMMA UserMoves ==
    ASSUME Inv, NEW u \in Users,
           \/ Call(u) \/ WaitConnected(u) \/ WaitTimeout(u) \/ InnerReturns(u)
           \/ Disconnected(u)
    PROVE  Inv'
<1> USE Kinds DEF Inv, flags, hist
<1>1. /\ state \in ConnectionState /\ attempts \in Nat
      /\ MaxAttempts # 0 => attempts <= MaxAttempts
  BY DEF TypeOK
<1>2. CASE Call(u)
  BY <1>1, <1>2, MoveStep DEF Call, States, UserStates
<1>3. CASE WaitConnected(u)
  <2> DEFINE to == IF closed \/ permanently_failed THEN "idle"
                   ELSE IF inner # 0 THEN "snapshot"
                   ELSE IF pc[u] = "expired" THEN "idle" ELSE "wait"
  <2>1. /\ to \in {"idle", "snapshot", "wait"}
        /\ to = "wait" => inner = 0 /\ ~closed /\ ~permanently_failed
        /\ pc[u] \in {"loop", "woken", "expired"}
    BY <1>3 DEF WaitConnected
  <2>2. Goto(u, to)
    BY <1>3 DEF WaitConnected
  <2>3. UNCHANGED <<flags, inner, state, conn, attempts, hist>>
    BY <1>3 DEF WaitConnected
  <2> HIDE DEF to
  <2> QED
    BY <1>1, <2>1, <2>2, <2>3, MoveStep DEF States, UserStates
<1>4. CASE WaitTimeout(u)
  BY <1>1, <1>4, MoveStep DEF WaitTimeout, States, UserStates
<1>5. CASE InnerReturns(u)
  BY <1>1, <1>5, MoveStep DEF InnerReturns, States, UserStates
<1>6. CASE Disconnected(u)
  BY <1>1, <1>6, MoveStep DEF Disconnected, SetState, ConnectionState, States, UserStates
<1> QED
  BY <1>2, <1>3, <1>4, <1>5, <1>6

\* The worker's steps that only move it, and count attempts.
LEMMA WorkerMoves ==
    ASSUME Inv,
           \/ LoopTop \/ AwaitDisconnect \/ Announce \/ BeginRound \/ Try \/ Failed
           \/ Connected \/ DialFails \/ Backoff
    PROVE  Inv'
<1> USE Kinds DEF Inv, flags, hist
<1>1. /\ state \in ConnectionState /\ attempts \in Nat
      /\ MaxAttempts # 0 => attempts <= MaxAttempts
      /\ MaxAttempts \in Nat
  BY ReconnectAssumption DEF TypeOK
<1>2. CASE LoopTop
  BY <1>1, <1>2, MoveStep DEF LoopTop, States, WorkerStates, Dialling
<1>3. CASE AwaitDisconnect
  <2> DEFINE to == IF inner # 0 /\ ~closed THEN "wait"
                   ELSE IF pc[Worker] = "woken" \/ inner # 0 THEN "top"
                   ELSE IF permanently_failed THEN "done" ELSE "announce"
  <2>1. /\ to \in {"wait", "top", "done", "announce"}
        /\ to = "wait" => inner # 0 /\ ~closed
        /\ to = "announce" => inner = 0
        /\ pc[Worker] \in {"check", "woken"}
    BY <1>3 DEF AwaitDisconnect
  <2>2. Goto(Worker, to)
    BY <1>3 DEF AwaitDisconnect
  <2>3. UNCHANGED <<flags, inner, state, conn, attempts, hist>>
    BY <1>3 DEF AwaitDisconnect
  <2> HIDE DEF to
  <2> QED
    BY <1>1, <2>1, <2>2, <2>3, MoveStep DEF States, WorkerStates, Dialling
<1>4. CASE Announce
  BY <1>1, <1>4, MoveStep
     DEF Announce, SetState, ConnectionState, States, WorkerStates, Dialling, WorkerOwnsInner
<1>5. CASE BeginRound
  BY <1>1, <1>5, MoveStep DEF BeginRound, States, WorkerStates, Dialling, WorkerOwnsInner
<1>6. CASE Try
  <2> DEFINE to == IF closed THEN "done"
                   ELSE IF MaxAttempts # 0 /\ attempts >= MaxAttempts THEN "exhausted"
                   ELSE "dial"
  <2>1. /\ to \in {"done", "exhausted", "dial"}
        /\ to = "dial" /\ MaxAttempts # 0 => attempts < MaxAttempts
        /\ pc[Worker] = "try" /\ inner = 0
    BY <1>1, <1>6 DEF Try, WorkerOwnsInner, Dialling
  <2>2. Goto(Worker, to)
    BY <1>6 DEF Try
  <2>3. UNCHANGED <<flags, inner, state, conn, attempts, hist>>
    BY <1>6 DEF Try
  <2> HIDE DEF to
  <2> QED
    BY <1>1, <2>1, <2>2, <2>3, MoveStep DEF States, WorkerStates
<1>7. CASE Failed
  BY <1>1, <1>7, MoveStep DEF Failed, SetState, ConnectionState, States, WorkerStates, Dialling
<1>8. CASE Connected
  BY <1>1, <1>8, MoveStep DEF Connected, SetState, ConnectionState, States, WorkerStates, Dialling
<1>9. CASE DialFails
  BY <1>1, <1>9, MoveStep
     DEF DialFails, States, WorkerStates, Dialling, WorkerOwnsInner, DialBound
<1>10. CASE Backoff
  BY <1>1, <1>10, MoveStep DEF Backoff, States, WorkerStates, Dialling, WorkerOwnsInner
<1> QED
  BY <1>2, <1>3, <1>4, <1>5, <1>6, <1>7, <1>8, <1>9, <1>10

\* A wait that ends by itself, and the steps of close() that only move it.
LEMMA OtherMoves ==
    ASSUME Inv,
           \/ \E t \in Threads : Spurious(t)
           \/ \E c \in Closers : CloseState(c) \/ Join(c)
    PROVE  Inv'
<1> USE Kinds DEF Inv, flags, hist
<1>1. /\ state \in ConnectionState /\ attempts \in Nat
      /\ MaxAttempts # 0 => attempts <= MaxAttempts
  BY DEF TypeOK
<1>2. ASSUME NEW t \in Threads, Spurious(t) PROVE Inv'
  <2>1. t \notin Closers
    BY <1>2 DEF Spurious, TypeOK, CloserStates
  <2> QED
    BY <1>1, <1>2, <2>1, MoveStep
       DEF Spurious, States, UserStates, WorkerStates, Dialling
<1>3. ASSUME NEW c \in Closers, CloseState(c) PROVE Inv'
  BY <1>1, <1>3, MoveStep DEF CloseState, SetState, ConnectionState, States, CloserStates
<1>4. ASSUME NEW c \in Closers, Join(c) PROVE Inv'
  BY <1>1, <1>4, MoveStep DEF Join, States, CloserStates
<1> QED
  BY <1>2, <1>3, <1>4

\* A call takes its snapshot of inner_.
LEMMA SnapshotStep ==
    ASSUME Inv, NEW u \in Users, Snapshot(u)
    PROVE  Inv'
<1> USE Kinds DEF Inv, flags, hist
<1>1. /\ pc' \in [Threads -> States]
      /\ pc'[u] \in {"loop", "io"} /\ (pc'[u] = "io" => inner # 0)
      /\ \A x \in Threads \ {u} : pc'[x] = pc[x]
      /\ pc[u] = "snapshot"
  BY DEF Snapshot, Goto, TypeOK, States, UserStates
<1>2. /\ conn' \in [Threads -> 0..dialed] /\ conn'[u] = inner
      /\ \A x \in Threads \ {u} : conn'[x] = conn[x]
      /\ UNCHANGED <<flags, inner, state, attempts, hist>>
  BY DEF Snapshot, TypeOK
<1>3. TypeOK'
  BY <1>1, <1>2 DEF TypeOK, States, UserStates
<1>4. WorkerOwnsInner' /\ NoLostWakeup' /\ DialBound'
  BY <1>1, <1>2 DEF WorkerOwnsInner, NoLostWakeup, DialBound
<1>5. HasConn' /\ MarksBroken'
  BY <1>1, <1>2 DEF HasConn, MarksBroken
<1>6. \A x \in Threads, k \in 1..dialed : Closes(x, k)' <=> Closes(x, k)
  BY <1>1, <1>2 DEF Closes
<1>7. NoLeakedConnection'
  BY <1>2, <1>6 DEF NoLeakedConnection
<1> QED
  BY <1>3, <1>4, <1>5, <1>7

\* A call meets a disconnect error.
LEMMA BreaksStep ==
    ASSUME Inv, NEW u \in Users, InnerBreaks(u)
    PROVE  Inv'
<1> USE Kinds DEF Inv, flags, hist
<1>1. /\ pc' \in [Threads -> States] /\ pc'[u] = "mark" /\ pc[u] = "io"
      /\ \A x \in Threads \ {u} : pc'[x] = pc[x]
      /\ UNCHANGED <<flags, inner, state, conn, attempts, dialed, shut>>
      /\ broken' = broken \cup {conn[u]}
  BY GotoFacts DEF InnerBreaks, TypeOK, States, UserStates
<1>2. conn[u] \in 1..dialed
  BY <1>1 DEF HasConn, TypeOK
<1>3. TypeOK'
  BY <1>1, <1>2 DEF TypeOK, States, UserStates
<1>4. WorkerOwnsInner' /\ NoLostWakeup' /\ DialBound'
  BY <1>1 DEF WorkerOwnsInner, NoLostWakeup, DialBound
<1>5. HasConn' /\ MarksBroken'
  BY <1>1 DEF HasConn, MarksBroken
<1>6. \A x \in Threads, k \in 1..dialed : Closes(x, k)' <=> Closes(x, k)
  BY <1>1 DEF Closes
<1>7. NoLeakedConnection'
  BY <1>1, <1>6 DEF NoLeakedConnection
<1> QED
  BY <1>3, <1>4, <1>5, <1>7

\* A thread takes the connection out of inner_, to close it: mark_disconnected()
\* and close().
LEMMA TakeStep ==
    ASSUME Inv, NEW t \in Users \cup Closers, NEW to \in States,
           t \in Users => to = "disconnected" /\ inner # 0 /\ closed' = closed,
           t \in Closers => to = "setclosed" /\ closed' = TRUE,
           NotifyAndGoto(t, to), inner' = 0,
           conn' = [conn EXCEPT ![t] = inner],
           pc[t] \in {"mark", "idle"},
           UNCHANGED <<permanently_failed, ever_connected, state, attempts, hist>>
    PROVE  Inv'
<1> USE Kinds DEF Inv, hist
<1>1. /\ pc' \in [Threads -> States] /\ pc'[t] = to
      /\ \A x \in Threads \ {t} : pc'[x] = IF pc[x] = "wait" THEN "woken" ELSE pc[x]
  BY NotifyFacts DEF TypeOK, States
<1>2. /\ conn' \in [Threads -> 0..dialed] /\ conn'[t] = inner
      /\ \A x \in Threads \ {t} : conn'[x] = conn[x]
      /\ closed' \in BOOLEAN
  BY DEF TypeOK
<1>3. TypeOK'
  BY <1>1, <1>2 DEF TypeOK, States, UserStates, WorkerStates, CloserStates
<1>4. WorkerOwnsInner' /\ NoLostWakeup' /\ DialBound'
  BY <1>1 DEF WorkerOwnsInner, NoLostWakeup, DialBound, Dialling
<1>5. HasConn' /\ MarksBroken'
  BY <1>1, <1>2 DEF HasConn, MarksBroken
<1>6. /\ \A x \in Threads \ {t}, k \in 1..dialed : Closes(x, k)' <=> Closes(x, k)
      /\ \A k \in 1..dialed : Closes(t, k)' <=> k = inner
      /\ \A k \in 1..dialed : ~Closes(t, k)
  BY <1>1, <1>2 DEF Closes
<1>7. NoLeakedConnection'
  <2>1. inner' \notin shut'
    BY DEF TypeOK
  <2>2. \A k \in 1..dialed : k = inner' \/ k \in shut \/ \E x \in Threads : Closes(x, k)'
    BY <1>6 DEF NoLeakedConnection
  <2>3. ASSUME NEW k \in 1..dialed, NEW x \in Threads, Closes(x, k)'
        PROVE  /\ k # inner' /\ k \notin shut
               /\ \A other \in Threads \ {x} : ~Closes(other, k)'
    <3>1. k # 0
      BY DEF TypeOK
    <3>2. CASE x = t
      BY <1>6, <2>3, <3>1, <3>2 DEF NoLeakedConnection
    <3>3. CASE x # t
      BY <1>6, <2>3, <3>1, <3>3 DEF NoLeakedConnection
    <3> QED
      BY <3>2, <3>3
  <2> QED
    BY <2>1, <2>2, <2>3 DEF NoLeakedConnection
<1> QED
  BY <1>3, <1>4, <1>5, <1>7

\* A thread closes the connection it took out: mark_disconnected() and close().
LEMMA ShutStep ==
    ASSUME Inv, NEW t \in Users \cup Closers, NEW to \in States,
           t \in Users => to = "loop" /\ pc[t] = "shut",
           t \in Closers => to = "join" /\ pc[t] = "closeinner",
           Goto(t, to), shut' = shut \cup ({conn[t]} \ {0}),
           UNCHANGED <<flags, inner, state, conn, attempts, dialed, broken>>
    PROVE  Inv'
<1> USE Kinds DEF Inv, flags
<1>1. /\ pc' \in [Threads -> States] /\ pc'[t] = to
      /\ \A x \in Threads \ {t} : pc'[x] = pc[x]
  BY GotoFacts DEF TypeOK, States
<1>2. conn[t] \in 0..dialed
  BY DEF TypeOK
<1>3. TypeOK'
  <2>1. shut' \subseteq 1..dialed
    <3>1. dialed \in Nat /\ shut \subseteq 1..dialed
      BY DEF TypeOK
    <3>2. \A k \in {conn[t]} \ {0} : k \in 1..dialed
      BY <1>2, <3>1
    <3> QED
      BY <3>1, <3>2
  <2>2. \A x \in Users : pc'[x] \in UserStates
    BY <1>1 DEF TypeOK, UserStates
  <2>3. pc'[Worker] \in WorkerStates /\ \A c \in Closers : pc'[c] \in CloserStates
    BY <1>1 DEF TypeOK, CloserStates
  <2> QED
    BY <1>1, <2>1, <2>2, <2>3 DEF TypeOK, States
<1>4. WorkerOwnsInner' /\ NoLostWakeup' /\ DialBound'
  BY <1>1 DEF WorkerOwnsInner, NoLostWakeup, DialBound
<1>5. HasConn' /\ MarksBroken'
  BY <1>1 DEF HasConn, MarksBroken
<1>6. /\ \A x \in Threads \ {t}, k \in 1..dialed : Closes(x, k)' <=> Closes(x, k)
      /\ \A k \in 1..dialed : ~Closes(t, k)'
      /\ \A k \in 1..dialed : Closes(t, k) <=> k = conn[t]
  BY <1>1 DEF Closes
<1>7. NoLeakedConnection'
  <2>1. inner \notin shut'
    BY <1>2, <1>6 DEF NoLeakedConnection, TypeOK
  <2>2. \A k \in 1..dialed : k = inner \/ k \in shut' \/ \E x \in Threads : Closes(x, k)'
    BY <1>6 DEF NoLeakedConnection
  <2>3. ASSUME NEW k \in 1..dialed, NEW x \in Threads, Closes(x, k)'
        PROVE  /\ k # inner /\ k \notin shut'
               /\ \A other \in Threads \ {x} : ~Closes(other, k)'
    <3>1. x # t /\ Closes(x, k)
      BY <1>6, <2>3
    <3>2. k # conn[t]
      BY <1>6, <3>1 DEF NoLeakedConnection
    <3> QED
      BY <1>6, <3>1, <3>2 DEF NoLeakedConnection
  <2> QED
    BY <2>1, <2>2, <2>3 DEF NoLeakedConnection
<1> QED
  BY <1>3, <1>4, <1>5, <1>7

\* A late error is ignored; an error of the current connection takes it out.
LEMMA MarkStep ==
    ASSUME Inv, NEW u \in Users, MarkDisconnected(u)
    PROVE  Inv'
<1> USE Kinds DEF Inv, flags, hist
<1>1. CASE closed \/ inner = 0 \/ inner # conn[u]
  <2>1. /\ state \in ConnectionState /\ attempts \in Nat
        /\ MaxAttempts # 0 => attempts <= MaxAttempts
    BY DEF TypeOK
  <2> QED
    BY <1>1, <2>1, MoveStep DEF MarkDisconnected, States, UserStates
<1>2. CASE ~closed /\ inner # 0 /\ inner = conn[u]
  <2>1. conn' = [conn EXCEPT ![u] = inner]
    BY <1>2 DEF MarkDisconnected, TypeOK
  <2> QED
    BY <1>2, <2>1, TakeStep DEF MarkDisconnected, States, UserStates
<1> QED
  BY <1>1, <1>2

\* The first close() takes the connection out; another returns.
LEMMA CloseLockStep ==
    ASSUME Inv, NEW c \in Closers, CloseLock(c)
    PROVE  Inv'
<1> USE Kinds DEF Inv, flags, hist
<1>1. CASE closed
  <2>1. /\ state \in ConnectionState /\ attempts \in Nat
        /\ MaxAttempts # 0 => attempts <= MaxAttempts
    BY DEF TypeOK
  <2> QED
    BY <1>1, <2>1, MoveStep DEF CloseLock, States, CloserStates
<1>2. CASE ~closed
  BY <1>2, TakeStep DEF CloseLock, States, CloserStates
<1> QED
  BY <1>1, <1>2

\* The worker gives up, and wakes everybody.
LEMMA ExhaustedStep ==
    ASSUME Inv, Exhausted
    PROVE  Inv'
<1> USE Kinds DEF Inv, hist
<1>1. /\ pc' \in [Threads -> States] /\ pc'[Worker] = "failed" /\ pc[Worker] = "exhausted"
      /\ \A x \in Threads \ {Worker} :
            pc'[x] = IF pc[x] = "wait" THEN "woken" ELSE pc[x]
      /\ permanently_failed' = TRUE
      /\ UNCHANGED <<closed, ever_connected, inner, state, conn, attempts, hist>>
  BY NotifyFacts DEF Exhausted, TypeOK, States, WorkerStates
<1>2. TypeOK'
  BY <1>1 DEF TypeOK, States, UserStates, WorkerStates, CloserStates
<1>3. WorkerOwnsInner' /\ NoLostWakeup' /\ DialBound'
  BY <1>1 DEF WorkerOwnsInner, NoLostWakeup, DialBound, Dialling
<1>4. HasConn' /\ MarksBroken'
  BY <1>1 DEF HasConn, MarksBroken
<1>5. \A x \in Threads, k \in 1..dialed : Closes(x, k)' <=> Closes(x, k)
  BY <1>1 DEF Closes
<1>6. NoLeakedConnection'
  BY <1>1, <1>5 DEF NoLeakedConnection
<1> QED
  BY <1>2, <1>3, <1>4, <1>6

\* The worker connects: the new connection is nobody's yet.
LEMMA DialOkStep ==
    ASSUME Inv, DialOk
    PROVE  Inv'
<1> USE Kinds DEF Inv
<1>1. /\ pc' \in [Threads -> States] /\ pc'[Worker] = "connected" /\ pc[Worker] = "dial"
      /\ \A x \in Threads \ {Worker} :
            pc'[x] = IF pc[x] = "wait" THEN "woken" ELSE pc[x]
      /\ UNCHANGED <<closed, permanently_failed, state, conn, attempts, shut, broken>>
      /\ dialed' = dialed + 1 /\ inner' = dialed + 1 /\ ever_connected' = TRUE
  BY NotifyFacts DEF DialOk, TypeOK, States, WorkerStates
<1>2. inner = 0 /\ dialed \in Nat /\ conn \in [Threads -> 0..dialed]
      /\ shut \subseteq 1..dialed
  BY <1>1 DEF WorkerOwnsInner, Dialling, TypeOK
<1>3. TypeOK'
  BY <1>1 DEF TypeOK, States, UserStates, WorkerStates, CloserStates
<1>4. WorkerOwnsInner' /\ NoLostWakeup' /\ DialBound'
  BY <1>1 DEF WorkerOwnsInner, NoLostWakeup, DialBound, Dialling
<1>5. HasConn' /\ MarksBroken'
  BY <1>1 DEF HasConn, MarksBroken
<1>6. /\ \A x \in Threads, k \in 1..dialed : Closes(x, k)' <=> Closes(x, k)
      /\ \A x \in Threads : ~Closes(x, inner)'
  BY <1>1, <1>2 DEF Closes
<1>7. NoLeakedConnection'
  <2>1. \A k \in 1..dialed' : k = inner' \/ (k \in 1..dialed /\ k # inner)
    BY <1>1, <1>2
  <2>2. inner' \notin shut'
    BY <1>1, <1>2
  <2>3. ASSUME NEW k \in 1..dialed'
        PROVE  k = inner' \/ k \in shut' \/ \E t \in Threads : Closes(t, k)'
    BY <1>1, <1>6, <2>1 DEF NoLeakedConnection
  <2>4. ASSUME NEW k \in 1..dialed', NEW t \in Threads, Closes(t, k)'
        PROVE  /\ k # inner' /\ k \notin shut'
               /\ \A other \in Threads \ {t} : ~Closes(other, k)'
    <3>1. k # inner'
      BY <1>1, <1>6, <2>4
    <3>2. k \in 1..dialed
      BY <2>1, <3>1
    <3> QED
      BY <1>1, <1>6, <2>4, <3>1, <3>2 DEF NoLeakedConnection
  <2> QED
    BY <2>2, <2>3, <2>4 DEF NoLeakedConnection
<1> QED
  BY <1>3, <1>4, <1>5, <1>7

\* Every step of every thread keeps the invariant.
LEMMA InvStep == Inv /\ [Next]_vars => Inv'
<1> SUFFICES ASSUME Inv, [Next]_vars PROVE Inv'
  OBVIOUS
<1>1. ASSUME NEW u \in Users, UserStep(u) PROVE Inv'
  <2>1. CASE ShutInner(u)
    <3>1. shut' = shut \cup ({conn[u]} \ {0})
      BY <2>1, Kinds DEF ShutInner, Inv, HasConn
    <3> QED
      BY <2>1, <3>1, Kinds, ShutStep DEF ShutInner, States, UserStates
  <2> QED
    BY <1>1, <2>1, UserMoves, SnapshotStep, BreaksStep, MarkStep DEF UserStep
<1>2. CASE WorkerRun \/ DialOk \/ DialFails
  BY <1>2, WorkerMoves, ExhaustedStep, DialOkStep DEF WorkerRun
<1>3. ASSUME NEW c \in Closers, CloseStep(c) PROVE Inv'
  <2>1. CASE CloseInner(c)
    BY <2>1, Kinds, ShutStep DEF CloseInner, States, CloserStates
  <2> QED
    BY <1>3, <2>1, CloseLockStep, OtherMoves DEF CloseStep
<1>4. CASE \E t \in Threads : Spurious(t)
  BY <1>4, OtherMoves
<1>5. CASE UNCHANGED vars
  BY <1>5 DEF Inv, vars, flags, hist, TypeOK, WorkerOwnsInner, NoLostWakeup,
              NoLeakedConnection, Closes, HasConn, MarksBroken, DialBound
<1> QED
  BY <1>1, <1>2, <1>3, <1>4, <1>5 DEF Next

\* The constructor establishes it.
LEMMA InvInit == Init => Inv
<1> SUFFICES ASSUME Init PROVE Inv
  OBVIOUS
<1> USE Kinds DEF Init
<1>1. TypeOK
  <2>1. /\ closed \in BOOLEAN /\ permanently_failed \in BOOLEAN /\ ever_connected \in BOOLEAN
        /\ state \in ConnectionState
        /\ shut \subseteq 1..dialed /\ broken \subseteq 1..dialed
    BY DEF ConnectionState
  <2>4. inner \in 0..dialed /\ dialed \in Nat
    OBVIOUS
  <2>5. attempts \in Nat /\ (MaxAttempts # 0 => attempts <= MaxAttempts)
    BY ReconnectAssumption
  <2>2. conn \in [Threads -> 0..dialed]
    OBVIOUS
  <2>3. /\ pc \in [Threads -> UserStates \cup WorkerStates \cup CloserStates]
        /\ \A u \in Users : pc[u] \in UserStates
        /\ pc[Worker] \in WorkerStates
        /\ \A c \in Closers : pc[c] \in CloserStates
    BY DEF UserStates, WorkerStates, CloserStates
  <2> QED
    BY <2>1, <2>2, <2>3, <2>4, <2>5 DEF TypeOK
<1>2. WorkerOwnsInner /\ NoLostWakeup /\ DialBound
  BY DEF WorkerOwnsInner, NoLostWakeup, DialBound, Dialling
<1>3. HasConn /\ MarksBroken /\ NoLeakedConnection
  BY DEF HasConn, MarksBroken, NoLeakedConnection
<1> QED
  BY <1>1, <1>2, <1>3 DEF Inv

\* The inductive invariant holds always.
LEMMA InvAlways == Spec => []Inv
BY InvInit, InvStep, PTL DEF Spec

\* Types hold, and the worker never counts more than max_attempts attempts.
THEOREM TypeInvariant == Spec => []TypeOK
<1>1. Inv => TypeOK
  BY DEF Inv
<1> QED
  BY <1>1, InvAlways, PTL

\* While worker_loop() dials, inner_ is null: a dial never overwrites a
\* connection.
THEOREM OwnershipInvariant == Spec => []WorkerOwnsInner
<1>1. Inv => WorkerOwnsInner
  BY DEF Inv
<1> QED
  BY <1>1, InvAlways, PTL

\* Every connection that was dialled is inner_, closed, or about to be closed by
\* exactly one thread of mark_disconnected() or close().
THEOREM LeakInvariant == Spec => []NoLeakedConnection
<1>1. Inv => NoLeakedConnection
  BY DEF Inv
<1> QED
  BY <1>1, InvAlways, PTL

\* No thread waits on cv_ for what has already happened.
THEOREM WakeupInvariant == Spec => []NoLostWakeup
<1>1. Inv => NoLostWakeup
  BY DEF Inv
<1> QED
  BY <1>1, InvAlways, PTL

\* A connection is given up only by close() or after a disconnect error on it:
\* mark_disconnected() compares inner_ with the snapshot the call used.
THEOREM StaleErrors == Spec => StaleErrorHarmless
<1> DEFINE Step == inner # 0 /\ inner' # inner => closed' \/ inner \in broken
<1>1. Inv /\ [Next]_vars => [Step]_vars
  <2> SUFFICES ASSUME Inv, Next, inner # 0, inner' # inner PROVE closed' \/ inner \in broken
    BY DEF vars
  <2>1. ~DialOk
    BY DEF DialOk, Inv, WorkerOwnsInner, Dialling
  <2>2. ~WorkerRun /\ ~DialFails /\ ~\E t \in Threads : Spurious(t)
    BY DEF WorkerRun, LoopTop, AwaitDisconnect, Announce, SetState, BeginRound, Try,
           Exhausted, Failed, Connected, Backoff, DialFails, Spurious
  <2>3. ASSUME NEW c \in Closers, CloseStep(c) PROVE closed'
    BY <2>3 DEF CloseStep, CloseLock, CloseState, SetState, CloseInner, Join
  <2>4. ASSUME NEW u \in Users, UserStep(u) PROVE inner \in broken
    <3>1. MarkDisconnected(u)
      BY <2>4 DEF UserStep, Call, WaitConnected, WaitTimeout, Snapshot, InnerReturns,
                  InnerBreaks, Disconnected, SetState, ShutInner
    <3> QED
      BY <3>1 DEF MarkDisconnected, Inv, MarksBroken
  <2> QED
    BY <2>1, <2>2, <2>3, <2>4 DEF Next
<1> QED
  BY <1>1, InvAlways, PTL DEF Spec, StaleErrorHarmless
=============================================================================
