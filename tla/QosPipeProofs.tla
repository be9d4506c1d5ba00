---------------------------- MODULE QosPipeProofs ----------------------------
(***************************************************************************)
(* QosPipe's invariants for any number of senders and closers, any message *)
(* sizes, mark, TTL and underlying pipe.                                   *)
(***************************************************************************)
EXTENDS QosPipe, ByteStreamProofs

SenderStates == {"idle", "entered", "wait", "woken", "expired", "notify"}
WorkerStates == {"top", "wait", "woken", "check", "sending", "nap", "done"}
CloserStates == {"idle", "entered", "notify", "uclose", "closed"}

\* Types; a send() under way has passed the test of its size.
TypeOK ==
    /\ policy \in Policies /\ ttl \in Ttls /\ now \in Nat
    /\ queue \in Seq(Entry) /\ send_bytes \in Nat /\ send_count \in Nat
    /\ accepted \in Nat /\ enqBytes \in Nat /\ sent \in Nat
    /\ running \in BOOLEAN /\ uclosed \in BOOLEAN
    /\ pc \in [Threads -> SenderStates \cup WorkerStates]
    /\ ssize \in [Senders -> 0..Hwm]
    /\ cpc \in [Closers -> CloserStates]

Core == TypeOK /\ IsStream(queue, send_bytes, enqBytes) /\ send_count = Len(queue)

\* A send() that has a message to queue.
Unfinished == {"entered", "wait", "woken", "expired"}

\* What send() does to the data: k old messages go, one comes, for which there is
\* space unless the policy is kDropOld; nobody else has send_mutex_.
Adding(s, k) ==
    /\ LockFree /\ pc[s] \in Unfinished
    /\ \/ k = 0 /\ send_bytes < Hwm
       \/ policy = "kDropOld" /\ (k = 1 \/ queue = <<>>)
    /\ Enqueue(s, Drop(queue, k), send_bytes - PrefixBytes(queue, k), send_count - k)

\* What the worker does: k messages go, one sent or all expired.
Taking(k) ==
    /\ TakeFront(k) /\ UNCHANGED <<config, now, accepted, enqBytes>>
    /\ \/ k = 1 /\ sent' = queue[1].id
       \/ sent' = sent /\ \A i \in 1..k : Expired(queue[i], now)
    /\ UNCHANGED <<running, uclosed, cpc, ssize>>

\* What every other step does.
Idling == UNCHANGED <<config, data>> /\ now' \in Nat /\ now' >= now

Threading == pc' \in [Threads -> SenderStates \cup WorkerStates]

\* A notification keeps the types of the threads and wakes only waiters.
LEMMA NotifyTyped ==
    ASSUME NEW st \in [Threads -> SenderStates \cup WorkerStates], NEW st2,
           \/ \E n \in Nat : st2 \in NotifyN(st, Threads, n)
           \/ st2 = NotifyAll(st, Threads)
    PROVE  /\ st2 \in [Threads -> SenderStates \cup WorkerStates]
           /\ \A t \in Threads : st2[t] = st[t] \/ (st[t] = "wait" /\ st2[t] = "woken")
  <1>1. \E W \in SUBSET Waiting(st, Threads) : st2 = Wake(st, Threads, W)
    BY DEF NotifyN, NotifyAll
  <1> QED BY <1>1 DEF Wake, Waiting, SenderStates

\* The message that send() queues.
LEMMA MessageFacts ==
    ASSUME TypeOK, NEW s \in Senders
    PROVE  LET m == [id |-> accepted + 1, size |-> ssize[s], at |-> enqBytes,
                     deadline |-> IF ttl > 0 THEN now + ttl ELSE 0]
           IN  m \in Entry /\ m.at = enqBytes /\ m.size = ssize[s]
  BY QosAssumption DEF TypeOK, Entry

\* Queueing a message keeps types and counters.
LEMMA AddingCore ==
    ASSUME Core, NEW s \in Senders, NEW k \in 0..Len(queue), Adding(s, k)
    PROVE  Core'
  <1> DEFINE q == Drop(queue, k)
             b == send_bytes - PrefixBytes(queue, k)
             m == [id |-> accepted + 1, size |-> ssize[s], at |-> enqBytes,
                   deadline |-> IF ttl > 0 THEN now + ttl ELSE 0]
  <1>0. /\ TypeOK /\ queue \in Seq(Entry) /\ send_bytes \in Nat /\ enqBytes \in Nat
        /\ IsStream(queue, send_bytes, enqBytes) /\ send_count = Len(queue)
        /\ accepted \in Nat /\ ssize[s] \in Nat
    BY QosAssumption DEF Core, TypeOK
  <1>1. /\ q \in Seq(Entry) /\ b \in Nat /\ IsStream(q, b, enqBytes)
        /\ Len(q) = send_count - k
    BY <1>0, DropProperties, DropStream
  <1>2. m \in Entry /\ m.at = enqBytes /\ m.size = ssize[s] BY <1>0, MessageFacts
  <1>3. Enqueue(s, q, b, send_count - k) BY DEF Adding
  <1> HIDE DEF q, b
  <1>4. /\ queue' = Append(q, m) /\ send_bytes' = b + ssize[s]
        /\ enqBytes' = enqBytes + ssize[s]
        /\ send_count' = send_count - k + 1 /\ accepted' = accepted + 1
    BY <1>3 DEF Enqueue
  <1> HIDE DEF m
  <1>5. /\ queue' \in Seq(Entry) /\ send_count' = Len(queue') /\ send_count' \in Nat
        /\ send_bytes' \in Nat /\ enqBytes' \in Nat /\ accepted' \in Nat
    <2>1. queue' \in Seq(Entry) BY <1>1, <1>2, <1>4
    <2>2. Len(queue') = Len(q) + 1 BY <1>1, <1>4, AppendFacts
    <2>3. Len(q) \in Nat BY <1>1
    <2>4. send_count' = Len(q) + 1 BY <1>1, <1>4
    <2>5. send_bytes' \in Nat /\ enqBytes' \in Nat /\ accepted' \in Nat
      <3>1. b \in Nat /\ ssize[s] \in Nat /\ enqBytes \in Nat /\ accepted \in Nat
        BY <1>0, <1>1
      <3>2. /\ send_bytes' = b + ssize[s] /\ enqBytes' = enqBytes + ssize[s]
            /\ accepted' = accepted + 1
        BY <1>4
      <3> QED BY <3>1, <3>2
    <2> QED BY <2>1, <2>2, <2>3, <2>4, <2>5
  <1>6. IsStream(queue', send_bytes', enqBytes')
    BY <1>0, <1>1, <1>2, <1>4, AppendStream
  <1>7. pc' \in [Threads -> SenderStates \cup WorkerStates]
    BY <1>0, <1>3 DEF Enqueue, Move, TypeOK, SenderStates, Threads
  <1> QED BY <1>0, <1>3, <1>5, <1>6, <1>7 DEF Enqueue, config, Core, TypeOK

\* Taking messages off the front keeps types and counters.
LEMMA TakingCore ==
    ASSUME Core, NEW k \in 0..Len(queue), Taking(k), Threading
    PROVE  Core' /\ send_bytes' \in 0..send_bytes
  <1>0. /\ TypeOK /\ queue \in Seq(Entry) /\ send_bytes \in Nat /\ enqBytes \in Nat
        /\ IsStream(queue, send_bytes, enqBytes) /\ send_count = Len(queue) /\ sent \in Nat
    BY DEF Core, TypeOK
  <1>1. /\ queue' \in Seq(Entry) /\ Len(queue') = Len(queue) - k
        /\ send_bytes' \in 0..send_bytes
        /\ IsStream(queue', send_bytes', enqBytes)
    BY <1>0, DropProperties, DropStream DEF Taking, TakeFront
  <1>2. send_count' = Len(queue') /\ send_count' \in Nat
    BY <1>0, <1>1 DEF Taking, TakeFront
  <1>3. sent' \in Nat
    <2>1. CASE k = 1 /\ sent' = queue[1].id
      BY <1>0, <2>1, EntryFields
    <2> QED BY <1>0, <2>1 DEF Taking
  <1> QED BY <1>0, <1>1, <1>2, <1>3 DEF Taking, Threading, config, Core, TypeOK

-----------------------------------------------------------------------------
\* Every step queues a message, takes some off the front, or leaves the data
\* alone; types and counters are kept.
LEMMA CoreStep ==
    ASSUME Core, NoUseAfterClose, [Next]_vars
    PROVE  /\ Core'
           /\ \/ \E s \in Senders, k \in 0..Len(queue) : Adding(s, k)
              \/ \E k \in 0..Len(queue) : Taking(k)
              \/ Idling
  <1>0. /\ TypeOK /\ queue \in Seq(Entry) /\ send_bytes \in Nat /\ now \in Nat
        /\ 0 \in 0..Len(queue) /\ Len(queue) \in Nat
        /\ pc \in [Threads -> SenderStates \cup WorkerStates]
    BY DEF Core, TypeOK
  <1>1. Drop(queue, 0) = queue /\ send_bytes - PrefixBytes(queue, 0) = send_bytes
        /\ send_count - 0 = send_count
    BY <1>0, DropProperties DEF PrefixBytes, TypeOK
  <1>2. ASSUME NEW s \in Senders, LockFree, send_bytes < Hwm, pc[s] \in Unfinished,
               Enqueue(s, queue, send_bytes, send_count)
        PROVE  Adding(s, 0)
    BY <1>1, <1>2 DEF Adding
  <1>3. ASSUME UNCHANGED <<config, now, data, running, ssize, cpc, uclosed>>, Threading
        PROVE  Core' /\ Idling
    BY <1>0, <1>3 DEF config, data, Threading, Core, TypeOK, Idling
  <1>4. ASSUME NEW t \in Threads, NEW x \in SenderStates \cup WorkerStates, Move(t, x)
        PROVE  Threading
    BY <1>0, <1>4 DEF Move, Threading
  <1>5. ASSUME NEW s \in Senders, SendStep(s)
        PROVE  \/ \E k \in 0..Len(queue) : Adding(s, k)
               \/ Core' /\ Idling
    <2>0. s \in Threads BY DEF Threads
    <2>1. CASE SendEnter(s)
      <3>1. PICK size \in Sizes :
               /\ size <= Hwm /\ Move(s, "entered")
               /\ ssize' = [ssize EXCEPT ![s] = size]
               /\ UNCHANGED <<config, now, data, running, cpc, uclosed>>
        BY <2>1 DEF SendEnter
      <3>2. ssize' \in [Senders -> 0..Hwm]
        BY <1>0, <3>1, QosAssumption DEF TypeOK
      <3>3. Threading BY <1>4, <2>0, <3>1 DEF SenderStates
      <3> QED BY <1>0, <3>1, <3>2, <3>3 DEF config, data, Threading, Core, TypeOK, Idling
    <2>2. CASE SendRejected(s)
      BY <1>0, <1>3, <2>2 DEF SendRejected, vars, Threading
    <2>3. CASE SendAdmit(s) BY <1>0, <1>2, <2>3 DEF SendAdmit, Unfinished
    <2>4. CASE SendRefuse(s)
      BY <1>3, <1>4, <2>0, <2>4 DEF SendRefuse, SenderStates
    <2>5. CASE SendDropOld(s)
      <3> DEFINE k == IF queue = <<>> THEN 0 ELSE 1
      <3>1. k \in 0..Len(queue) BY <1>0
      <3>2. Adding(s, k) BY <2>5 DEF SendDropOld, Adding, Unfinished
      <3> QED BY <3>1, <3>2
    <2>6. CASE SendBlock(s)
      BY <1>3, <1>4, <2>0, <2>6 DEF SendBlock, SenderStates
    <2>7. CASE SendResume(s)
      <3>1. CASE send_bytes < Hwm /\ Enqueue(s, queue, send_bytes, send_count)
        BY <1>0, <1>2, <2>7, <3>1 DEF SendResume, Unfinished
      <3>2. CASE /\ Move(s, IF running /\ pc[s] = "woken" THEN "wait" ELSE "idle")
                 /\ UNCHANGED <<config, now, data, running, ssize, cpc, uclosed>>
        BY <1>3, <1>4, <2>0, <3>2 DEF SenderStates
      <3> QED BY <2>7, <3>1, <3>2 DEF SendResume
    <2>8. CASE SendTimeout(s)
      BY <1>3, <1>4, <2>0, <2>8 DEF SendTimeout, SenderStates
    <2>9. CASE SendNotify(s)
      <3>1. [pc EXCEPT ![s] = "idle"] \in [Threads -> SenderStates \cup WorkerStates]
        BY <1>0 DEF SenderStates
      <3>2. pc' \in [Threads -> SenderStates \cup WorkerStates]
        BY <2>9, <3>1, NotifyTyped DEF SendNotify
      <3> QED BY <1>3, <2>9, <3>2 DEF SendNotify, Threading
    <2> QED BY <1>5, <2>1, <2>2, <2>3, <2>4, <2>5, <2>6, <2>7, <2>8, <2>9
            DEF SendStep, SendLocked
  <1>6. ASSUME WorkerStep
        PROVE  \/ Core' /\ \E k \in 0..Len(queue) : Taking(k)
               \/ Core' /\ Idling
    <2>0. Worker \in Threads BY DEF Threads
    <2>1. CASE WorkerLoop
      <3>1. CASE ~running /\ Move(Worker, "done") /\ UNCHANGED data
        BY <1>3, <1>4, <2>0, <2>1, <3>1 DEF WorkerLoop, WorkerStates
      <3>2. CASE running /\ queue = <<>> /\ Move(Worker, "wait") /\ UNCHANGED data
        BY <1>3, <1>4, <2>0, <2>1, <3>2 DEF WorkerLoop, WorkerStates
      <3>3. CASE \E k \in 0..Len(queue) :
                    /\ LeadingExpired(queue, k, now)
                    /\ TakeFront(k)
                    /\ Move(Worker, IF k = Len(queue) THEN "top" ELSE "check")
                    /\ UNCHANGED <<accepted, enqBytes, sent>>
        <4>1. PICK k \in 0..Len(queue) :
                 /\ LeadingExpired(queue, k, now)
                 /\ TakeFront(k)
                 /\ Move(Worker, IF k = Len(queue) THEN "top" ELSE "check")
                 /\ UNCHANGED <<accepted, enqBytes, sent>>
          BY <3>3
        <4>2. Threading BY <1>4, <2>0, <4>1 DEF WorkerStates
        <4>3. Taking(k) BY <2>1, <4>1 DEF WorkerLoop, LeadingExpired, Taking
        <4> QED BY <4>2, <4>3, TakingCore
      <3> QED BY <2>1, <3>1, <3>2, <3>3 DEF WorkerLoop
    <2>2. CASE WorkerCheck \/ SendKeep \/ WorkerNap
      BY <1>3, <1>4, <2>0, <2>2 DEF WorkerCheck, SendKeep, WorkerNap, WorkerStates
    <2>3. CASE SendFatal
      <3>1. Threading BY <1>4, <2>0, <2>3 DEF SendFatal, WorkerStates
      <3>2. running' \in BOOLEAN BY <2>3 DEF SendFatal
      <3> QED BY <1>0, <2>3, <3>1, <3>2
              DEF SendFatal, config, data, Threading, Core, TypeOK, Idling
    <2>4. CASE SendOk
      <3>0. queue # <<>> BY <2>4 DEF SendOk, NoUseAfterClose
      <3>1. 1 \in 0..Len(queue) BY <1>0, <3>0
      <3>2. Threading BY <1>4, <2>0, <2>4 DEF SendOk, WorkerStates
      <3>3. Taking(1) BY <2>4 DEF SendOk, Taking
      <3> QED BY <3>1, <3>2, <3>3, TakingCore
    <2> QED BY <1>6, <2>1, <2>2, <2>3, <2>4 DEF WorkerStep
  <1>7. ASSUME NEW c \in Closers, CloseStep(c) PROVE Core' /\ Idling
    <2>1. /\ UNCHANGED <<config, now, data, ssize>>
          /\ running' \in BOOLEAN /\ uclosed' \in BOOLEAN
          /\ cpc' \in [Closers -> CloserStates]
      BY <1>0, <1>7 DEF CloseStep, CloseEnter, CloseLock, CloseNotify, CloseUnderlying,
                        TypeOK, CloserStates
    <2>2. pc' = pc \/ pc' = NotifyAll(pc, Threads)
      BY <1>7 DEF CloseStep, CloseEnter, CloseLock, CloseNotify, CloseUnderlying
    <2>3. pc' \in [Threads -> SenderStates \cup WorkerStates]
      BY <1>0, <2>2, NotifyTyped
    <2> QED BY <1>0, <2>1, <2>3 DEF config, data, Core, TypeOK, Idling
  <1>8. ASSUME NEW t \in Threads, Spurious(t) PROVE Core' /\ Idling
    BY <1>3, <1>4, <1>8 DEF Spurious, SenderStates
  <1>9. ASSUME Tick PROVE Core' /\ Idling
    BY <1>0, <1>9 DEF Tick, config, data, Core, TypeOK, Idling
  <1>10. ASSUME UNCHANGED vars PROVE Core' /\ Idling
    BY <1>0, <1>3, <1>10 DEF vars, Threading
  <1>11. ASSUME NEW s \in Senders, NEW k \in 0..Len(queue), Adding(s, k) PROVE Core'
    BY <1>11, AddingCore
  <1> QED BY <1>5, <1>6, <1>7, <1>8, <1>9, <1>10, <1>11 DEF Next

\* Whoever has stopped the pipe did so under the lock, before anything else of
\* close(): the underlying pipe is closed only after running_ is false.
Stopped ==
    /\ uclosed => ~running
    /\ \A c \in Closers : cpc[c] \in {"notify", "uclose", "closed"} => ~running

\* The worker holds the lock from its look at running_ to the end of the
\* underlying send(), and close() takes it before it clears running_.
LEMMA CloseSafe ==
    ASSUME Core, NoUseAfterClose, Stopped, [Next]_vars
    PROVE  NoUseAfterClose' /\ Stopped'
  <1> DEFINE Busy == {"check", "sending"}
  <1>0. /\ TypeOK /\ queue \in Seq(Entry) /\ Worker \in Threads /\ Worker \notin Senders
        /\ pc \in [Threads -> SenderStates \cup WorkerStates]
        /\ cpc \in [Closers -> CloserStates] /\ running \in BOOLEAN
    BY QosAssumption DEF Core, TypeOK, Threads
  <1>1. ASSUME pc'[Worker] \in Busy => pc[Worker] \in Busy /\ queue' # <<>>,
               UNCHANGED <<running, uclosed, cpc>>
        PROVE  NoUseAfterClose' /\ Stopped'
    BY <1>1 DEF NoUseAfterClose, Stopped
  <1>2. ASSUME NEW s \in Senders, SendStep(s)
        PROVE  pc'[Worker] \in Busy => pc[Worker] \in Busy /\ queue' # <<>>
    <2>1. ASSUME NEW q, NEW b, NEW n, Enqueue(s, q, b, n), LockFree
          PROVE  pc'[Worker] \notin Busy
      BY <1>0, <2>1 DEF Enqueue, Move, LockFree
    <2>2. CASE SendLocked(s)
      <3>1. pc[Worker] \notin Busy
        BY <2>2 DEF SendLocked, SendAdmit, SendRefuse, SendDropOld, SendBlock, SendResume, LockFree
      <3>2. ASSUME NEW x, Move(s, x) PROVE pc'[Worker] = pc[Worker]
        BY <1>0, <3>2 DEF Move
      <3>3. pc'[Worker] = pc[Worker]
        BY <2>2, <3>2 DEF SendLocked, SendAdmit, SendRefuse, SendDropOld, SendBlock,
                          SendResume, Enqueue
      <3> QED BY <3>1, <3>3
    <2>3. CASE SendEnter(s) \/ SendTimeout(s) \/ SendRejected(s)
      BY <1>0, <2>3 DEF SendEnter, SendTimeout, SendRejected, vars, data, Move, NoUseAfterClose
    <2>4. CASE SendNotify(s)
      <3>1. [pc EXCEPT ![s] = "idle"] \in [Threads -> SenderStates \cup WorkerStates]
        BY <1>0 DEF SenderStates
      <3>2. pc'[Worker] = [pc EXCEPT ![s] = "idle"][Worker] \/ pc'[Worker] = "woken"
        BY <1>0, <2>4, <3>1, NotifyTyped DEF SendNotify
      <3>3. pc'[Worker] = pc[Worker] \/ pc'[Worker] = "woken" BY <1>0, <3>2
      <3> QED BY <2>4, <3>3 DEF SendNotify, data, NoUseAfterClose
    <2> QED BY <1>2, <2>2, <2>3, <2>4 DEF SendStep
  <1>3. ASSUME NEW s \in Senders, SendStep(s)
        PROVE  UNCHANGED <<running, uclosed, cpc>>
    BY <1>3 DEF SendStep, SendLocked, SendEnter, SendRejected, SendAdmit, SendRefuse,
                SendDropOld, SendBlock, SendResume, SendTimeout, SendNotify, Enqueue, vars
  <1>4. CASE WorkerLoop
    <2>1. CASE ~running /\ Move(Worker, "done")
      BY <1>0, <1>1, <1>4, <2>1 DEF WorkerLoop, Move
    <2>2. CASE running /\ queue = <<>> /\ Move(Worker, "wait")
      BY <1>0, <1>1, <1>4, <2>2 DEF WorkerLoop, Move
    <2>3. CASE running /\ \E k \in 0..Len(queue) :
                  /\ TakeFront(k) /\ Move(Worker, IF k = Len(queue) THEN "top" ELSE "check")
      <3>1. PICK k \in 0..Len(queue) :
                  /\ TakeFront(k) /\ Move(Worker, IF k = Len(queue) THEN "top" ELSE "check")
        BY <2>3
      <3>2. pc'[Worker] \in Busy => k # Len(queue) BY <1>0, <3>1 DEF Move
      <3>3. k # Len(queue) => queue' # <<>> BY <1>0, <3>1, DropProperties DEF TakeFront
      <3> QED BY <1>4, <2>3, <3>2, <3>3 DEF WorkerLoop, NoUseAfterClose, Stopped
    <2> QED BY <1>4, <2>1, <2>2, <2>3 DEF WorkerLoop
  <1>5. CASE WorkerCheck
    <2>1. pc[Worker] \in Busy /\ UNCHANGED <<queue, running, uclosed, cpc>>
      BY <1>5 DEF WorkerCheck, data
    <2> QED BY <1>1, <2>1 DEF NoUseAfterClose
  <1>6. CASE SendOk \/ SendKeep \/ WorkerNap
    <2>1. pc'[Worker] \notin Busy /\ UNCHANGED <<running, uclosed, cpc>>
      BY <1>0, <1>6 DEF SendOk, SendKeep, WorkerNap, Move
    <2> QED BY <1>1, <2>1
  <1>7. CASE SendFatal
    BY <1>0, <1>7 DEF SendFatal, Move, NoUseAfterClose, Stopped
  <1>8. ASSUME NEW c \in Closers, CloseStep(c) PROVE NoUseAfterClose' /\ Stopped'
    <2>1. CASE CloseEnter(c)
      BY <1>0, <2>1 DEF CloseEnter, data, NoUseAfterClose, Stopped
    <2>2. CASE CloseLock(c)
      BY <1>0, <2>2 DEF CloseLock, LockFree, data, NoUseAfterClose, Stopped
    <2>3. CASE CloseNotify(c)
      <3>1. pc'[Worker] = pc[Worker] \/ pc'[Worker] = "woken"
        BY <1>0, <2>3, NotifyTyped DEF CloseNotify
      <3>2. ~running BY <2>3 DEF CloseNotify, Stopped
      <3>3. NoUseAfterClose' BY <2>3, <3>1, <3>2 DEF CloseNotify, data, NoUseAfterClose
      <3>4. Stopped' BY <1>0, <2>3, <3>2 DEF CloseNotify, Stopped
      <3> QED BY <3>3, <3>4
    <2>4. CASE CloseUnderlying(c)
      BY <1>0, <2>4 DEF CloseUnderlying, data, NoUseAfterClose, Stopped
    <2> QED BY <1>8, <2>1, <2>2, <2>3, <2>4 DEF CloseStep
  <1>9. ASSUME NEW t \in Threads, Spurious(t) PROVE NoUseAfterClose' /\ Stopped'
    <2>1. pc'[Worker] \in Busy => pc[Worker] \in Busy BY <1>0, <1>9 DEF Spurious, Move
    <2> QED BY <1>1, <1>9, <2>1 DEF Spurious, data, NoUseAfterClose
  <1>10. CASE Tick \/ UNCHANGED vars
    BY <1>1, <1>10 DEF Tick, vars, data, NoUseAfterClose
  <1> QED BY <1>1, <1>2, <1>3, <1>4, <1>5, <1>6, <1>7, <1>8, <1>9, <1>10 DEF Next, WorkerStep

-----------------------------------------------------------------------------
\* An empty queue, nothing closed.
LEMMA SafeInit == Init => Core /\ NoUseAfterClose /\ Stopped
  <1> SUFFICES ASSUME Init PROVE Core /\ NoUseAfterClose /\ Stopped OBVIOUS
  <1>1. queue \in Seq(Entry) /\ send_count = Len(queue) BY DEF Init
  <1>2. /\ pc \in [Threads -> SenderStates \cup WorkerStates]
        /\ ssize \in [Senders -> 0..Hwm] /\ cpc \in [Closers -> CloserStates]
        /\ pc[Worker] = "top"
    BY QosAssumption DEF Init, Threads, SenderStates, WorkerStates, CloserStates
  <1>3. IsStream(queue, send_bytes, enqBytes) BY DEF Init, IsStream, EndOfStream, Ordered
  <1>4. TypeOK
    <2>1. running \in BOOLEAN /\ uclosed \in BOOLEAN BY DEF Init
    <2> QED BY <1>1, <1>2, <2>1 DEF Init, TypeOK
  <1>5. Stopped BY DEF Init, Stopped
  <1> QED BY <1>1, <1>2, <1>3, <1>4, <1>5 DEF Core, NoUseAfterClose

Safe == Core /\ NoUseAfterClose /\ Stopped

\* What the other invariants build on.
LEMMA SafeStep == Safe /\ [Next]_vars => Safe'
  BY CoreStep, CloseSafe DEF Safe

\* The worker never hands a message to an underlying pipe that close() has
\* closed, and has a message to hand over whenever it does.
THEOREM UseInvariant == Spec => []NoUseAfterClose
  <1>1. Init => Safe BY SafeInit DEF Safe
  <1>2. Safe => NoUseAfterClose BY DEF Safe
  <1> QED BY <1>1, <1>2, SafeStep, PTL DEF Spec

\* send_bytes_ and send_count_ never underflow and are exactly the bytes and
\* messages of send_queue_, through sends, drops, expiry and failures.
THEOREM AccountingInvariant == Spec => [](TypeOK /\ QueueAccounting)
  <1>1. Init => Safe BY SafeInit DEF Safe
  <1>2. Safe => TypeOK /\ QueueAccounting
    BY DEF Safe, Core, IsStream, QueueAccounting
  <1> QED BY <1>1, <1>2, SafeStep, PTL DEF Spec

\* The end of the queue, from any message on, has at least as many bytes as
\* messages, if every message that is queued or about to be has one.
Dense ==
    0 \notin Sizes =>
        /\ \A s \in Senders : pc[s] \in Unfinished => ssize[s] > 0
        /\ \A i \in 1..Len(queue) : Len(queue) - i < enqBytes - queue[i].at

\* A send() that has yet to queue its message has had its size from SendEnter.
LEMMA SizesKept ==
    ASSUME Core, [Next]_vars, NEW r \in Senders, pc'[r] \in Unfinished
    PROVE  ssize'[r] \in Sizes \/ (pc[r] \in Unfinished /\ ssize'[r] = ssize[r])
  <1>0. /\ pc \in [Threads -> SenderStates \cup WorkerStates] /\ r \in Threads
        /\ ssize \in [Senders -> 0..Hwm] /\ Worker \notin Senders
    BY QosAssumption DEF Core, TypeOK, Threads
  <1>1. ASSUME ssize' = ssize, NEW t \in Threads, NEW x, Move(t, x), t # r \/ x \notin Unfinished
        PROVE  pc[r] \in Unfinished
    BY <1>0, <1>1 DEF Move
  <1>2. ASSUME NEW s \in Senders, SendStep(s)
        PROVE  ssize'[r] \in Sizes \/ (pc[r] \in Unfinished /\ ssize'[r] = ssize[r])
    <2>0. s \in Threads BY DEF Threads
    <2>1. CASE SendEnter(s)
      BY <1>0, <2>0, <2>1 DEF SendEnter, Move
    <2>2. CASE SendRejected(s)
      BY <2>2 DEF SendRejected, vars
    <2>3. CASE SendAdmit(s) \/ SendDropOld(s)
      BY <1>1, <2>0, <2>3 DEF SendAdmit, SendDropOld, Enqueue, Unfinished
    <2>4. CASE SendRefuse(s) \/ SendBlock(s) \/ SendResume(s) \/ SendTimeout(s)
      <3>1. ssize' = ssize /\ (pc[s] \in Unfinished)
        BY <2>4 DEF SendRefuse, SendBlock, SendResume, SendTimeout, Enqueue, Unfinished
      <3>2. \E x \in SenderStates : Move(s, x)
        BY <2>4 DEF SendRefuse, SendBlock, SendResume, SendTimeout, Enqueue, SenderStates
      <3> QED BY <1>0, <2>0, <3>1, <3>2 DEF Move
    <2>5. CASE SendNotify(s)
      <3>1. [pc EXCEPT ![s] = "idle"] \in [Threads -> SenderStates \cup WorkerStates]
        BY <1>0 DEF SenderStates
      <3> DEFINE st == [pc EXCEPT ![s] = "idle"]
      <3>2. pc'[r] = st[r] \/ st[r] = "wait"
        BY <1>0, <2>5, <3>1, NotifyTyped DEF SendNotify
      <3>3. st[r] = pc[r] \/ st[r] = "idle" BY <1>0, <2>0
      <3> QED BY <2>5, <3>2, <3>3 DEF SendNotify, Unfinished
    <2> QED BY <1>2, <2>1, <2>2, <2>3, <2>4, <2>5 DEF SendStep, SendLocked
  <1>3. CASE WorkerStep
    <2>1. \E x : Move(Worker, x)
      BY <1>3 DEF WorkerStep, WorkerLoop, WorkerCheck, SendOk, SendFatal, SendKeep, WorkerNap
    <2>2. ssize' = ssize
      BY <1>3 DEF WorkerStep, WorkerLoop, WorkerCheck, SendOk, SendFatal, SendKeep, WorkerNap
    <2> QED BY <1>0, <1>1, <2>1, <2>2 DEF Threads
  <1>4. ASSUME NEW c \in Closers, CloseStep(c)
        PROVE  pc[r] \in Unfinished /\ ssize'[r] = ssize[r]
    <2>1. CASE CloseEnter(c) \/ CloseLock(c) \/ CloseUnderlying(c)
      BY <2>1 DEF CloseEnter, CloseLock, CloseUnderlying
    <2>2. CASE CloseNotify(c)
      <3>1. pc'[r] = pc[r] \/ pc[r] = "wait" BY <1>0, <2>2, NotifyTyped DEF CloseNotify
      <3> QED BY <2>2, <3>1 DEF CloseNotify, Unfinished
    <2> QED BY <1>4, <2>1, <2>2 DEF CloseStep
  <1>5. ASSUME NEW t \in Threads, Spurious(t)
        PROVE  pc[r] \in Unfinished /\ ssize'[r] = ssize[r]
    BY <1>0, <1>5 DEF Spurious, Move, Unfinished
  <1>6. CASE Tick \/ UNCHANGED vars BY <1>6 DEF Tick, vars
  <1> QED BY <1>2, <1>3, <1>4, <1>5, <1>6 DEF Next

\* One message more is at least one byte more.
LEMMA OneMore ==
    ASSUME NEW n \in Nat, NEW i \in Nat, NEW e \in Nat, NEW a \in Nat, NEW z \in Nat,
           n - i < e - a, z > 0
    PROVE  n + 1 - i < e + z - a
  OBVIOUS

\* One step keeps the queue dense.
LEMMA DenseStep == Safe /\ Dense /\ [Next]_vars => Dense'
  <1> SUFFICES ASSUME Core, NoUseAfterClose, Dense, [Next]_vars, 0 \notin Sizes
               PROVE  /\ \A s \in Senders : pc'[s] \in Unfinished => ssize'[s] > 0
                      /\ \A i \in 1..Len(queue') : Len(queue') - i < enqBytes' - queue'[i].at
    BY DEF Safe, Dense
  <1>0. /\ TypeOK /\ queue \in Seq(Entry) /\ Len(queue) \in Nat /\ enqBytes \in Nat
        /\ \A i \in 1..Len(queue) : queue[i].at \in Nat
        /\ ssize \in [Senders -> 0..Hwm]
    BY EntryFields DEF Core, TypeOK
  <1>1. ASSUME NEW s \in Senders, pc'[s] \in Unfinished PROVE ssize'[s] > 0
    <2>1. ssize'[s] \in Sizes \/ (pc[s] \in Unfinished /\ ssize'[s] = ssize[s])
      BY <1>1, SizesKept
    <2>2. \A n \in Sizes : n > 0 BY QosAssumption
    <2> QED BY <2>1, <2>2 DEF Dense
  <1>2. ASSUME NEW k \in 0..Len(queue), NEW q, q = Drop(queue, k)
        PROVE  /\ q \in Seq(Entry) /\ Len(q) = Len(queue) - k
               /\ \A i \in 1..Len(q) : q[i].at \in Nat /\ Len(q) - i < enqBytes - q[i].at
    <2>1. q \in Seq(Entry) /\ Len(q) = Len(queue) - k BY <1>0, <1>2, DropProperties
    <2>2. ASSUME NEW i \in 1..Len(q) PROVE q[i].at \in Nat /\ Len(q) - i < enqBytes - q[i].at
      <3>1. i + k \in 1..Len(queue) /\ i \in 1..(Len(queue) - k) BY <1>0, <2>1
      <3>2. q[i] = queue[i + k] BY <1>0, <1>2, <3>1, DropProperties
      <3>3. Len(queue) - (i + k) < enqBytes - queue[i + k].at BY <3>1 DEF Dense
      <3> QED BY <1>0, <2>1, <3>1, <3>2, <3>3
    <2> QED BY <2>1, <2>2
  <1>3. ASSUME NEW s \in Senders, NEW k \in 0..Len(queue), Adding(s, k)
        PROVE  \A i \in 1..Len(queue') : Len(queue') - i < enqBytes' - queue'[i].at
    <2>1. PICK q : q = Drop(queue, k) OBVIOUS
    <2>2. PICK m \in Entry : /\ queue' = Append(q, m) /\ m.at = enqBytes
                             /\ enqBytes' = enqBytes + ssize[s]
      BY <1>0, <1>3, <2>1, MessageFacts DEF Adding, Enqueue
    <2>3. ssize[s] \in Nat /\ ssize[s] > 0 BY <1>0, <1>3, QosAssumption DEF Adding, Dense
    <2>4. /\ q \in Seq(Entry) /\ Len(q) \in Nat
          /\ \A i \in 1..Len(q) : q[i].at \in Nat /\ Len(q) - i < enqBytes - q[i].at
      <3>1. q \in Seq(Entry) BY <1>2, <2>1
      <3>2. Len(q) \in Nat BY <3>1
      <3> QED BY <1>2, <2>1, <3>1, <3>2
    <2>5. /\ Len(queue') = Len(q) + 1 /\ queue'[Len(q) + 1] = m
          /\ \A i \in 1..Len(q) : queue'[i] = q[i]
      BY <2>2, <2>4, AppendFacts
    <2>6. ASSUME NEW i \in 1..Len(queue')
          PROVE  Len(queue') - i < enqBytes' - queue'[i].at
      <3>1. CASE i = Len(q) + 1 BY <1>0, <2>2, <2>3, <2>5, <3>1
      <3>2. CASE i \in 1..Len(q)
        <4>1. PICK a \in Nat : a = queue'[i].at /\ Len(q) - i < enqBytes - a
          BY <2>4, <2>5, <3>2
        <4>2. PICK n \in Nat, e \in Nat, z \in Nat :
                 /\ n = Len(q) /\ e = enqBytes /\ z = ssize[s] /\ z > 0
                 /\ Len(queue') = n + 1 /\ enqBytes' = e + z
          BY <1>0, <2>2, <2>3, <2>4, <2>5
        <4>3. i \in Nat /\ n - i < e - a BY <3>2, <4>1, <4>2
        <4>4. z > 0 BY <4>2
        <4>5. n + 1 - i < e + z - a BY <4>3, <4>4, OneMore, Zenon
        <4> QED BY <4>1, <4>2, <4>5
      <3> QED BY <2>4, <2>5, <3>1, <3>2
    <2> QED BY <2>6
  <1>4. ASSUME NEW k \in 0..Len(queue), Taking(k)
        PROVE  \A i \in 1..Len(queue') : Len(queue') - i < enqBytes' - queue'[i].at
    BY <1>2, <1>4 DEF Taking, TakeFront
  <1>5. ASSUME Idling
        PROVE  \A i \in 1..Len(queue') : Len(queue') - i < enqBytes' - queue'[i].at
    BY <1>5 DEF Idling, data, Dense
  <1> QED BY <1>1, <1>3, <1>4, <1>5, CoreStep

\* The bytes queued stay below twice the mark, for every set of sizes, except
\* under kDropOld; and no more messages are queued than the mark has bytes.
THEOREM HwmInvariant == Spec => []HwmBound
  <1>1. Init => Safe /\ Dense /\ HwmBound
    <2> SUFFICES ASSUME Init PROVE Safe /\ Dense /\ HwmBound OBVIOUS
    <2>1. Safe BY SafeInit DEF Safe
    <2>2. \A s \in Senders : pc[s] = "idle" BY QosAssumption DEF Init, Threads
    <2>3. queue = <<>> /\ send_bytes = 0 BY DEF Init
    <2>4. Dense BY <2>2, <2>3 DEF Dense, Unfinished
    <2> QED BY <2>1, <2>3, <2>4, QosAssumption DEF HwmBound
  <1>2. Safe /\ Dense /\ HwmBound /\ [Next]_vars => HwmBound'
    <2> SUFFICES ASSUME Core, NoUseAfterClose, Dense, HwmBound, [Next]_vars PROVE HwmBound'
      BY DEF Safe
    <2>0. /\ TypeOK /\ send_bytes \in Nat /\ Hwm \in Nat /\ enqBytes \in Nat
          /\ queue \in Seq(Entry) /\ Len(queue) \in Nat
          /\ IsStream(queue, send_bytes, enqBytes)
      BY QosAssumption DEF Core, TypeOK
    <2>1. ASSUME NEW s \in Senders, NEW k \in 0..Len(queue), Adding(s, k)
          PROVE  HwmBound'
      <3>1. policy' = policy BY <2>1 DEF Adding, Enqueue, config
      <3>2. ASSUME policy # "kDropOld" PROVE send_bytes' < 2 * Hwm
        <4>1. k = 0 /\ send_bytes < Hwm BY <2>1, <3>2 DEF Adding
        <4>2. send_bytes' = send_bytes + ssize[s]
          BY <2>0, <2>1, <4>1 DEF Adding, Enqueue, PrefixBytes
        <4>3. ssize[s] \in 0..Hwm BY <2>0 DEF TypeOK
        <4> QED BY <2>0, <4>1, <4>2, <4>3
      <3>3. ASSUME 0 \notin Sizes PROVE Len(queue') <= Hwm
        <4>1. Len(queue') = Len(queue) - k + 1
          <5>1. PICK q : q = Drop(queue, k) OBVIOUS
          <5>2. q \in Seq(Entry) /\ Len(q) = Len(queue) - k BY <2>0, <5>1, DropProperties
          <5>3. \E m : queue' = Append(q, m) BY <2>1, <5>1 DEF Adding, Enqueue
          <5> QED BY <5>2, <5>3, AppendFacts
        <4>2. ssize[s] \in 1..Hwm BY <2>0, <2>1, <3>3 DEF Adding, Dense, TypeOK
        <4>3. CASE k = 1 BY <2>0, <3>3, <4>1, <4>3 DEF HwmBound
        <4>4. CASE queue = <<>> BY <2>0, <4>1, <4>2, <4>4
        <4>5. CASE send_bytes < Hwm /\ k = 0 /\ queue # <<>>
          <5>1. queue[1].at \in Nat /\ Len(queue) > 0 BY <2>0, <4>5, EntryFields
          <5>2. Len(queue) - 1 < enqBytes - queue[1].at BY <2>0, <3>3, <5>1 DEF Dense
          <5>3. send_bytes = enqBytes - queue[1].at BY <2>0, <4>5 DEF IsStream, EndOfStream
          <5> QED BY <2>0, <4>1, <4>5, <5>1, <5>2, <5>3
        <4> QED BY <2>1, <4>3, <4>4, <4>5 DEF Adding
      <3> QED BY <3>1, <3>2, <3>3 DEF HwmBound
    <2>2. ASSUME NEW k \in 0..Len(queue), Taking(k) PROVE HwmBound'
      <3>1. send_bytes' \in 0..send_bytes BY <2>0, <2>2, DropStream DEF Taking, TakeFront
      <3>2. Len(queue') = Len(queue) - k BY <2>0, <2>2, DropProperties DEF Taking, TakeFront
      <3>3. policy' = policy BY <2>2 DEF Taking, config
      <3> QED BY <2>0, <3>1, <3>2, <3>3 DEF HwmBound
    <2>3. CASE Idling BY <2>3 DEF Idling, config, data, HwmBound
    <2> QED BY <2>1, <2>2, <2>3, CoreStep
  <1> QED BY <1>1, <1>2, DenseStep, SafeStep, PTL DEF Spec

-----------------------------------------------------------------------------
(* Order and expiry *)

\* All queued messages have a deadline or none has, none of them further away
\* than the TTL, and they are sorted.
Deadlines ==
    /\ \A i \in 1..Len(queue) :
          IF ttl = 0 THEN queue[i].deadline = 0 ELSE queue[i].deadline \in 1..(now + ttl)
    /\ \A i, j \in 1..Len(queue) : i < j => queue[i].deadline <= queue[j].deadline

\* One step keeps deadlines bounded and sorted.
LEMMA DeadlineStep ==
    ASSUME Safe, Deadlines, [Next]_vars
    PROVE  Deadlines'
  <1>0. /\ queue \in Seq(Entry) /\ now \in Nat /\ ttl \in Nat /\ Len(queue) \in Nat
        /\ \A i \in 1..Len(queue) : queue[i].deadline \in Nat
    BY QosAssumption, EntryFields DEF Safe, Core, TypeOK
  <1>1. ASSUME NEW s \in Senders, NEW k \in 0..Len(queue), Adding(s, k)
        PROVE  Deadlines'
    <2> DEFINE m == [id |-> accepted + 1, size |-> ssize[s], at |-> enqBytes,
                     deadline |-> IF ttl > 0 THEN now + ttl ELSE 0]
               n == Len(queue) - k
    <2>1. queue' = Append(Drop(queue, k), m) /\ now' = now /\ ttl' = ttl
      BY <1>1 DEF Adding, Enqueue, config
    <2>2. m.deadline = IF ttl > 0 THEN now + ttl ELSE 0 OBVIOUS
    <2> HIDE DEF m
    <2>3. /\ n \in Nat /\ Len(queue') = n + 1 /\ queue'[n + 1] = m
          /\ \A i \in 1..n : i + k \in 1..Len(queue) /\ queue'[i] = queue[i + k]
      <3>1. PICK d \in Seq(Entry) : /\ d = Drop(queue, k) /\ Len(d) = n
                                  /\ \A i \in 1..n : d[i] = queue[i + k]
        BY <1>0, DropProperties
      <3>2. n \in Nat /\ \A i \in 1..n : i + k \in 1..Len(queue) BY <1>0
      <3>3. queue' = Append(d, m) BY <2>1, <3>1
      <3> HIDE DEF n
      <3> QED BY <3>1, <3>2, <3>3, AppendFacts
    <2> HIDE DEF n
    <2>4. ASSUME NEW i \in 1..Len(queue')
          PROVE  IF ttl = 0 THEN queue'[i].deadline = 0
                 ELSE queue'[i].deadline \in 1..(now + ttl)
      <3>1. CASE i = n + 1 BY <1>0, <2>2, <2>3, <3>1
      <3>2. CASE i # n + 1
        <4>1. i \in 1..n BY <2>3, <3>2
        <4> QED BY <2>3, <4>1 DEF Deadlines
      <3> QED BY <3>1, <3>2
    <2>5. ASSUME NEW i \in 1..Len(queue'), NEW j \in 1..Len(queue'), i < j
          PROVE  queue'[i].deadline <= queue'[j].deadline
      <3>1. i \in 1..n BY <2>3, <2>5
      <3>2. CASE j = n + 1
        <4>1. queue'[j].deadline = IF ttl > 0 THEN now + ttl ELSE 0 BY <2>2, <2>3, <3>2
        <4> QED BY <1>0, <2>4, <4>1
      <3>3. CASE j # n + 1
        <4>1. j \in 1..n BY <2>3, <3>3
        <4>2. i + k < j + k BY <2>5
        <4> QED BY <2>3, <3>1, <4>1, <4>2 DEF Deadlines
      <3> QED BY <3>2, <3>3
    <2> QED BY <2>1, <2>4, <2>5 DEF Deadlines
  <1>2. ASSUME NEW k \in 0..Len(queue), Taking(k) PROVE Deadlines'
    <2>1. queue' = Drop(queue, k) /\ now' = now /\ ttl' = ttl
      BY <1>2 DEF Taking, TakeFront, config
    <2>2. \A i \in 1..Len(queue') : i + k \in 1..Len(queue) /\ queue'[i] = queue[i + k]
      BY <1>0, <2>1, DropProperties, SMTT(30)
    <2>3. \A i, j \in 1..Len(queue') : i < j => i + k < j + k BY <2>1
    <2> QED BY <2>1, <2>2, <2>3 DEF Deadlines
  <1>3. CASE Idling
    <2>1. queue' = queue /\ ttl' = ttl /\ now' \in Nat /\ now' >= now
      BY <1>3 DEF Idling, config, data
    <2> QED BY <1>0, <2>1 DEF Deadlines
  <1> QED BY <1>1, <1>2, <1>3, CoreStep DEF Safe

\* The purge of the model stops at the first live message; the code's remove_if()
\* looks at all of send_queue_.  Behind the first live message there is no
\* expired one, so they remove the same.
PurgeFindsAll == \A k \in 0..Len(queue) : LeadingExpired(queue, k, now) =>
    \A i \in (k + 1)..Len(queue) : ~Expired(queue[i], now)

\* Scanning send_queue_ from the front finds every expired message.
THEOREM PurgeInvariant == Spec => []PurgeFindsAll
  <1>1. Init => Safe /\ Deadlines BY SafeInit DEF Safe, Init, Deadlines
  <1>2. Safe /\ Deadlines /\ [Next]_vars => Safe' /\ Deadlines'
    BY SafeStep, DeadlineStep
  <1>3. Safe /\ Deadlines => PurgeFindsAll
    <2> SUFFICES ASSUME Safe, Deadlines, NEW k \in 0..Len(queue),
                        LeadingExpired(queue, k, now), NEW i \in (k + 1)..Len(queue)
                 PROVE  ~Expired(queue[i], now)
      BY DEF PurgeFindsAll
    <2>0. /\ queue \in Seq(Entry) /\ now \in Nat /\ ttl \in Nat /\ Len(queue) \in Nat
          /\ \A j \in 1..Len(queue) : queue[j].deadline \in Nat
      BY QosAssumption, EntryFields DEF Safe, Core, TypeOK
    <2>1. i \in 1..Len(queue) /\ k + 1 \in 1..Len(queue) /\ k < Len(queue) BY <2>0
    <2>2. ~Expired(queue[k + 1], now) BY <2>1 DEF LeadingExpired
    <2>3. CASE ttl = 0 BY <2>1, <2>3 DEF Deadlines, Expired
    <2>4. CASE ttl # 0
      <3>1. queue[k + 1].deadline # 0 BY <2>0, <2>1, <2>4 DEF Deadlines
      <3>2. queue[k + 1].deadline >= now BY <2>0, <2>1, <2>2, <3>1 DEF Expired
      <3>3. queue[i].deadline >= queue[k + 1].deadline
        <4>1. CASE i = k + 1 BY <2>0, <2>1, <4>1
        <4>2. CASE i # k + 1
          <5>1. k + 1 < i BY <2>0, <4>2
          <5> QED BY <2>0, <2>1, <5>1 DEF Deadlines
        <4> QED BY <4>1, <4>2
      <3> QED BY <2>0, <2>1, <3>2, <3>3 DEF Expired
    <2> QED BY <2>3, <2>4
  <1> QED BY <1>1, <1>2, <1>3, PTL DEF Spec

\* One step keeps the order.
LEMMA OrderStep ==
    ASSUME Safe, Deadlines, InOrder, [Next]_vars
    PROVE  InOrder'
  <1>0. /\ queue \in Seq(Entry) /\ accepted \in Nat /\ sent \in Nat /\ Len(queue) \in Nat
    BY DEF Safe, Core, TypeOK
  <1>1. ASSUME NEW s \in Senders, NEW k \in 0..Len(queue), Adding(s, k) PROVE InOrder'
    <2> DEFINE m == [id |-> accepted + 1, size |-> ssize[s], at |-> enqBytes,
                     deadline |-> IF ttl > 0 THEN now + ttl ELSE 0]
               n == Len(queue) - k
    <2>1. /\ queue' = Append(Drop(queue, k), m) /\ accepted' = accepted + 1 /\ sent' = sent
          /\ ttl' = ttl /\ policy' = policy /\ (k = 0 \/ policy = "kDropOld")
      BY <1>1 DEF Adding, Enqueue, config
    <2>2. m.id = accepted + 1 OBVIOUS
    <2> HIDE DEF m
    <2>3. /\ n \in Nat /\ Len(queue') = n + 1 /\ queue'[n + 1] = m
          /\ \A i \in 1..n : i + k \in 1..Len(queue) /\ queue'[i] = queue[i + k]
      <3>1. PICK d \in Seq(Entry) : /\ d = Drop(queue, k) /\ Len(d) = n
                                  /\ \A i \in 1..n : d[i] = queue[i + k]
        BY <1>0, DropProperties
      <3>2. n \in Nat /\ \A i \in 1..n : i + k \in 1..Len(queue) BY <1>0
      <3>3. queue' = Append(d, m) BY <2>1, <3>1
      <3> HIDE DEF n
      <3> QED BY <3>1, <3>2, <3>3, AppendFacts
    <2>4. ASSUME NEW i \in 1..Len(queue') PROVE queue'[i].id = accepted' - Len(queue') + i
      <3>1. CASE i = n + 1 BY <1>0, <2>1, <2>2, <2>3, <3>1
      <3>2. CASE i # n + 1
        <4>1. i \in 1..n BY <2>3, <3>2
        <4>2. queue'[i].id = accepted - Len(queue) + (i + k) BY <2>3, <4>1 DEF InOrder
        <4> QED BY <1>0, <2>1, <2>3, <4>1, <4>2
      <3> QED BY <3>1, <3>2
    <2>5. Len(queue') <= accepted' - sent' BY <1>0, <2>1, <2>3 DEF InOrder
    <2>6. ttl' = 0 /\ policy' # "kDropOld" => Len(queue') = accepted' - sent'
      <3> HAVE ttl' = 0 /\ policy' # "kDropOld"
      <3>1. k = 0 /\ Len(queue) = accepted - sent BY <2>1 DEF InOrder
      <3> QED BY <1>0, <2>1, <2>3, <3>1
    <2> QED BY <2>4, <2>5, <2>6 DEF InOrder
  <1>2. ASSUME NEW k \in 0..Len(queue), Taking(k) PROVE InOrder'
    <2>1. /\ queue' = Drop(queue, k) /\ accepted' = accepted /\ ttl' = ttl /\ policy' = policy
      BY <1>2 DEF Taking, TakeFront, config
    <2>2. /\ Len(queue') = Len(queue) - k
          /\ \A i \in 1..Len(queue') : i + k \in 1..Len(queue) /\ queue'[i] = queue[i + k]
      BY <1>0, <2>1, DropProperties, SMTT(30)
    <2>3. ASSUME NEW i \in 1..Len(queue') PROVE queue'[i].id = accepted' - Len(queue') + i
      <3>1. queue'[i].id = accepted - Len(queue) + (i + k) BY <2>2 DEF InOrder
      <3> QED BY <1>0, <2>1, <2>2, <3>1
    <2>4. CASE k = 1 /\ sent' = queue[1].id
      <3>1. 1 \in 1..Len(queue) BY <1>0, <2>4
      <3>2. sent' = accepted - Len(queue) + 1 BY <2>4, <3>1 DEF InOrder
      <3> QED BY <1>0, <2>1, <2>2, <2>3, <2>4, <3>2 DEF InOrder
    <2>5. CASE sent' = sent /\ \A i \in 1..k : Expired(queue[i], now)
      <3>1. ttl = 0 => k = 0
        <4> SUFFICES ASSUME ttl = 0, k # 0 PROVE FALSE OBVIOUS
        <4>1. k \in 1..k /\ k \in 1..Len(queue) BY <1>0
        <4> QED BY <2>5, <4>1 DEF Expired, Deadlines
      <3>2. /\ Len(queue) <= accepted - sent
            /\ ttl = 0 /\ policy # "kDropOld" => Len(queue) = accepted - sent
        BY DEF InOrder
      <3>3. Len(queue') <= accepted' - sent' BY <1>0, <2>1, <2>2, <2>5, <3>2
      <3>4. ttl' = 0 /\ policy' # "kDropOld" => Len(queue') = accepted' - sent'
        BY <1>0, <2>1, <2>2, <2>5, <3>1, <3>2
      <3> QED BY <2>3, <3>3, <3>4 DEF InOrder
    <2> QED BY <1>2, <2>4, <2>5 DEF Taking
  <1>3. CASE Idling BY <1>3 DEF Idling, config, data, InOrder
  <1> QED BY <1>1, <1>2, <1>3, CoreStep DEF Safe

\* The underlying pipe gets messages in the order of acceptance, none twice, and
\* without TTL and kDropOld every accepted message is in the queue until then.
THEOREM OrderInvariant == Spec => []InOrder
  <1>1. Init => Safe /\ Deadlines /\ InOrder BY SafeInit DEF Safe, Init, Deadlines, InOrder
  <1>2. Safe /\ Deadlines /\ InOrder /\ [Next]_vars => Safe' /\ Deadlines' /\ InOrder'
    BY SafeStep, DeadlineStep, OrderStep
  <1> QED BY <1>1, <1>2, PTL DEF Spec

-----------------------------------------------------------------------------
(* Wakeups of the worker *)

\* Only kBlock makes a sender wait on send_cv_; a worker that sleeps through
\* close() is about to be notified by it, under every policy; one that sleeps
\* on a message by the send() that queued it.
Wakeups ==
    /\ \A s \in Senders : pc[s] \in {"wait", "woken", "expired"} => policy = "kBlock"
    /\ pc[Worker] = "wait" /\ ~running => \E c \in Closers : cpc[c] = "notify"
    /\ policy # "kBlock" /\ pc[Worker] = "wait" /\ queue # <<>> =>
          \E s \in Senders : pc[s] = "notify"

\* One step loses no wakeup.
LEMMA WakeupStep ==
    ASSUME Safe, Wakeups, [Next]_vars
    PROVE  Wakeups'
  <1>0. /\ TypeOK /\ queue \in Seq(Entry) /\ Worker \in Threads /\ Worker \notin Senders
        /\ pc \in [Threads -> SenderStates \cup WorkerStates]
        /\ cpc \in [Closers -> CloserStates] /\ Senders \subseteq Threads
    BY QosAssumption DEF Safe, Core, TypeOK, Threads
  \* A sender that does not notify moves.
  <1>1. ASSUME NEW s \in Senders, pc[s] # "notify", NEW x, Move(s, x),
               x \in {"wait", "woken", "expired"} => policy = "kBlock",
               UNCHANGED <<config, running, cpc>>, queue' = queue \/ x = "notify"
        PROVE  Wakeups'
    <2>1. /\ pc'[s] = x /\ pc'[Worker] = pc[Worker] /\ policy' = policy
          /\ \A u \in Senders \ {s} : pc'[u] = pc[u]
      BY <1>0, <1>1 DEF Move, config
    <2>2. \A u \in Senders : pc'[u] \in {"wait", "woken", "expired"} => policy' = "kBlock"
      BY <1>1, <2>1 DEF Wakeups
    <2>3. pc'[Worker] = "wait" /\ ~running' => \E c \in Closers : cpc'[c] = "notify"
      BY <1>1, <2>1 DEF Wakeups
    <2>4. policy' # "kBlock" /\ pc'[Worker] = "wait" /\ queue' # <<>> =>
             \E u \in Senders : pc'[u] = "notify"
      BY <1>1, <2>1 DEF Wakeups
    <2> QED BY <2>2, <2>3, <2>4 DEF Wakeups
  <1>2. ASSUME NEW s \in Senders, pc[s] # "notify", NEW q, NEW b, NEW n, Enqueue(s, q, b, n)
        PROVE  Wakeups'
    BY <1>1, <1>2 DEF Enqueue
  <1>3. ASSUME NEW s \in Senders, SendStep(s) PROVE Wakeups'
    <2>1. CASE SendEnter(s) BY <1>1, <2>1 DEF SendEnter, data
    <2>2. CASE SendRejected(s) BY <2>2 DEF SendRejected, vars, config, data, Wakeups
    <2>3. CASE SendAdmit(s) \/ SendDropOld(s) BY <1>2, <2>3 DEF SendAdmit, SendDropOld
    <2>4. CASE SendRefuse(s) BY <1>1, <2>4 DEF SendRefuse, data
    <2>5. CASE SendBlock(s) BY <1>1, <2>5 DEF SendBlock, data
    <2>6. CASE SendResume(s)
      <3>1. pc[s] # "notify" BY <2>6 DEF SendResume
      <3>2. CASE Enqueue(s, queue, send_bytes, send_count) BY <1>2, <3>1, <3>2
      <3>3. CASE /\ Move(s, IF running /\ pc[s] = "woken" THEN "wait" ELSE "idle")
                 /\ UNCHANGED <<config, now, data, running, ssize, cpc, uclosed>>
        <4>1. pc[s] = "woken" => policy = "kBlock" BY DEF Wakeups
        <4> QED BY <1>1, <3>1, <3>3, <4>1 DEF data
      <3> QED BY <2>6, <3>2, <3>3 DEF SendResume
    <2>7. CASE SendTimeout(s)
      <3>1. policy = "kBlock" BY <2>7 DEF SendTimeout, Wakeups
      <3> QED BY <1>1, <2>7, <3>1 DEF SendTimeout, data
    <2>8. CASE SendNotify(s)
      <3> DEFINE st == [pc EXCEPT ![s] = "idle"]
      <3>1. /\ st \in [Threads -> SenderStates \cup WorkerStates] /\ IsFiniteSet(Threads)
            /\ "woken" \in SenderStates \cup WorkerStates
        BY <1>0, QosAssumption, FS_AddElement DEF Threads, SenderStates
      <3>2. pc' \in NotifyN(st, Threads, 1) /\ UNCHANGED <<config, data, running, cpc>>
        BY <2>8 DEF SendNotify
      <3> DEFINE T == SenderStates \cup WorkerStates
      <3>3. PICK W \in SUBSET Waiting(st, Threads) :
               /\ pc' = Wake(st, Threads, W)
               /\ Waiting(st, Threads) # {} => W # {}
        <4> HIDE DEF st, T
        <4>1. \E W \in SUBSET Waiting(st, Threads) :
                /\ pc' = Wake(st, Threads, W) /\ pc' \in [Threads -> T]
                /\ IsFiniteSet(W)
                /\ Cardinality(W) = 1 \/ Waiting(pc', Threads) = {}
                /\ 1 > 0 /\ Waiting(st, Threads) # {} => W # {}
          <5>1. st \in [Threads -> T] /\ "woken" \in T BY <3>1 DEF T
          <5> QED BY <3>1, <3>2, <5>1, NotifyProperties
        <4> QED BY <4>1
      <3>4. \A t \in Threads : pc'[t] = IF t \in W THEN "woken" ELSE st[t] BY <3>3 DEF Wake
      <3>5. \A t \in Threads : pc'[t] = IF t \in W THEN "woken" ELSE IF t = s THEN "idle" ELSE pc[t]
        BY <1>0, <3>4
      <3>6. W \subseteq {t \in Threads \ {s} : pc[t] = "wait"} BY <1>0, <3>3 DEF Waiting
      <3>7. \A u \in Senders : pc'[u] \in {"wait", "woken", "expired"} => policy' = "kBlock"
        BY <1>0, <3>2, <3>5, <3>6 DEF Wakeups, config
      <3>8. pc'[Worker] = "wait" => pc[Worker] = "wait" /\ Worker \notin W BY <1>0, <3>5
      <3>9. pc'[Worker] = "wait" /\ ~running' => \E c \in Closers : cpc'[c] = "notify"
        BY <3>2, <3>8 DEF Wakeups
      <3>10. policy # "kBlock" => pc'[Worker] # "wait"
        <4> SUFFICES ASSUME policy # "kBlock", pc'[Worker] = "wait" PROVE FALSE OBVIOUS
        <4>1. Worker \in Waiting(st, Threads) BY <1>0, <3>8 DEF Waiting
        <4>2. PICK t \in W : TRUE BY <3>3, <4>1
        <4>3. t \in Threads /\ pc[t] = "wait" BY <3>6, <4>2
        <4>4. t \notin Senders BY <4>3 DEF Wakeups
        <4>5. t = Worker BY <4>3, <4>4 DEF Threads
        <4> QED BY <3>8, <4>2, <4>5
      <3> HIDE DEF st
      <3> QED BY <3>2, <3>7, <3>9, <3>10 DEF Wakeups, config
    <2> QED BY <1>3, <2>1, <2>2, <2>3, <2>4, <2>5, <2>6, <2>7, <2>8 DEF SendStep, SendLocked
  \* The worker moves, and sleeps only on an empty queue of a running pipe.
  <1>4. ASSUME WorkerStep PROVE Wakeups'
    <2>1. \E x : Move(Worker, x) /\ (x = "wait" => running' /\ queue' = <<>>)
      <3>1. CASE WorkerLoop BY <1>0, <3>1 DEF WorkerLoop, data
      <3>2. CASE WorkerCheck \/ SendOk \/ SendFatal \/ SendKeep \/ WorkerNap
        BY <3>2 DEF WorkerCheck, SendOk, SendFatal, SendKeep, WorkerNap
      <3> QED BY <1>4, <3>1, <3>2 DEF WorkerStep
    <2>2. /\ pc'[Worker] = "wait" => running' /\ queue' = <<>>
          /\ \A u \in Senders : pc'[u] = pc[u]
      BY <1>0, <2>1 DEF Move
    <2>3. policy' = policy
      BY <1>4 DEF WorkerStep, WorkerLoop, WorkerCheck, SendOk, SendFatal, SendKeep, WorkerNap, config
    <2> QED BY <2>2, <2>3 DEF Wakeups
  <1>5. ASSUME NEW c \in Closers, CloseStep(c) PROVE Wakeups'
    <2>1. CASE CloseEnter(c) BY <1>0, <2>1 DEF CloseEnter, config, data, Wakeups
    <2>2. CASE CloseLock(c) BY <1>0, <2>2 DEF CloseLock, config, data, Wakeups
    <2>3. CASE CloseNotify(c)
      <3>1. \A t \in Threads : pc'[t] = IF pc[t] = "wait" THEN "woken" ELSE pc[t]
        BY <1>0, <2>3 DEF CloseNotify, NotifyAll, Wake, Waiting
      <3> QED BY <1>0, <2>3, <3>1 DEF CloseNotify, config, data, Wakeups
    <2>4. CASE CloseUnderlying(c)
      BY <1>0, <2>4 DEF CloseUnderlying, config, data, Wakeups
    <2> QED BY <1>5, <2>1, <2>2, <2>3, <2>4 DEF CloseStep
  <1>6. ASSUME NEW t \in Threads, Spurious(t) PROVE Wakeups'
    <2>1. CASE t \in Senders
      <3>1. policy = "kBlock" BY <1>6, <2>1 DEF Spurious, Wakeups
      <3> QED BY <1>1, <1>6, <2>1, <3>1 DEF Spurious, data
    <2>2. CASE t = Worker
      BY <1>0, <1>6, <2>2 DEF Spurious, Move, config, data, Wakeups
    <2> QED BY <2>1, <2>2 DEF Threads
  <1>7. CASE Tick \/ UNCHANGED vars BY <1>7 DEF Tick, vars, config, data, Wakeups
  <1> QED BY <1>3, <1>4, <1>5, <1>6, <1>7 DEF Next

\* The worker does not sleep through a message or close(): whoever queued the
\* one or did the other is still to notify it.
THEOREM WakeupInvariant == Spec => []WorkerAwake
  <1>1. Init => Safe /\ Wakeups
    <2>1. Init => Wakeups
      <3> SUFFICES ASSUME Init PROVE Wakeups OBVIOUS
      <3>1. pc[Worker] = "top" /\ \A s \in Senders : pc[s] = "idle"
        BY QosAssumption DEF Init, Threads
      <3> QED BY <3>1 DEF Wakeups
    <2> QED BY <2>1, SafeInit DEF Safe
  <1>2. Safe /\ Wakeups /\ [Next]_vars => Safe' /\ Wakeups' BY SafeStep, WakeupStep
  <1>3. Wakeups => WorkerAwake BY DEF Wakeups, WorkerAwake
  <1> QED BY <1>1, <1>2, <1>3, PTL DEF Spec
=============================================================================
