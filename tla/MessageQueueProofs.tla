------------------------- MODULE MessageQueueProofs -------------------------
(***************************************************************************)
(* MessageQueue's invariants for any number of threads, any message sizes, *)
(* high water mark, TTL and bounds.                                        *)
(***************************************************************************)
EXTENDS MessageQueue, ByteStreamProofs

\* Only a kBlock queue with a mark has pushers inside not_full_cv_.wait().
OnlyBlockWaits ==
    \A t \in Pushers : pst[t] # "idle" => policy = "kBlock" /\ Hwm > 0

Core == TypeOK /\ IsStream(queue, total_bytes, enqBytes) /\ OnlyBlockWaits

\* What pop(), try_pop() and purge_expired() do to the data: k messages go, and
\* id is the last one handed out: the k-th, or none if all k were expired.
Taking(k, id) ==
    /\ TakeFront(k, id)
    /\ \/ k > 0 /\ id = queue[k].id
       \/ id = out /\ \A i \in 1..k : Expired(queue[i], now)

\* What push() does to the data: drop k old messages, then append one, for
\* which there is space.
Admits(size, b) ==
    Hwm > 0 => IF policy \in {"kDropNew", "kFailFast"} THEN b + size <= Hwm
               ELSE b < Hwm \/ b + size <= Hwm
Adding(t, size, k) ==
    LET b == total_bytes - PrefixBytes(queue, k)
    IN  /\ ~closed
        /\ k = 0 \/ policy = "kDropOld"
        /\ Admits(size, b)
        /\ Enqueue(t, size, Drop(queue, k), b)

\* The notifications of push(), pop() and close() keep thread states typed and
\* wake only waiters.
LEMMA NotifyTyped ==
    ASSUME NEW S, IsFiniteSet(S), NEW st \in [S -> ThreadStates],
           NEW st2, \/ \E n \in Nat : st2 \in NotifyN(st, S, n)
                    \/ st2 = NotifyAll(st, S)
    PROVE  /\ st2 \in [S -> ThreadStates]
           /\ \A t \in S : st2[t] = st[t] \/ (st[t] = "wait" /\ st2[t] = "woken")
  <1>1. "woken" \in ThreadStates BY DEF ThreadStates
  <1>2. ASSUME NEW W \in SUBSET Waiting(st, S), st2 = Wake(st, S, W)
        PROVE  /\ st2 \in [S -> ThreadStates]
               /\ \A t \in S : st2[t] = st[t] \/ (st[t] = "wait" /\ st2[t] = "woken")
    BY <1>1, <1>2 DEF Wake, Waiting
  <1>3. \E W \in SUBSET Waiting(st, S) : st2 = Wake(st, S, W)
    BY DEF NotifyN, NotifyAll
  <1> QED BY <1>2, <1>3

\* The tail of push() keeps types and accounting.
LEMMA AddingCore ==
    ASSUME Core, NEW t \in Pushers, NEW size \in 0..MaxSize,
           NEW k \in 0..Len(queue), Adding(t, size, k)
    PROVE  Core'
  <1> DEFINE q == Drop(queue, k)
             b == total_bytes - PrefixBytes(queue, k)
  <1>0. /\ queue \in Seq(Entry) /\ total_bytes \in Nat /\ enqBytes \in Nat
        /\ IsStream(queue, total_bytes, enqBytes) /\ TypeOK
    BY DEF Core, TypeOK
  <1>1. q \in Seq(Entry) /\ b \in Nat /\ IsStream(q, b, enqBytes)
    BY <1>0, DropProperties, DropStream
  <1>2. Enqueue(t, size, q, b) BY DEF Adding
  <1> HIDE DEF q, b
  <1>3. Message(size) \in Entry /\ Message(size).at = enqBytes
                                /\ Message(size).size = size
    BY QueueAssumption, <1>0 DEF Message, Entry, TypeOK
  <1>4. queue' = Append(q, Message(size)) /\ queue' \in Seq(Entry)
    BY <1>1, <1>2, <1>3 DEF Enqueue
  <1>5. total_bytes' = b + size /\ enqBytes' = enqBytes + size
        /\ total_bytes' \in Nat /\ enqBytes' \in Nat
    BY QueueAssumption, <1>0, <1>1, <1>2 DEF Enqueue
  <1>6. IsStream(queue', total_bytes', enqBytes')
    BY <1>0, <1>1, <1>3, <1>4, <1>5, AppendStream
  <1>7. cst' \in [Poppers -> ThreadStates]
    BY <1>0, <1>2, NotifyTyped, QueueAssumption DEF Enqueue, TypeOK
  <1>8. pst' \in [Pushers -> ThreadStates] /\ OnlyBlockWaits'
    BY <1>0, <1>2 DEF Enqueue, TypeOK, ThreadStates, Core, OnlyBlockWaits
  <1>9. /\ policy' \in Policies /\ closed' \in BOOLEAN /\ now' \in Nat
        /\ psize' \in [Pushers -> 0..MaxSize] /\ ptimed' \in [Pushers -> BOOLEAN]
        /\ ctimed' \in [Poppers -> BOOLEAN]
        /\ accepted' \in Nat /\ out' \in Nat
    BY <1>0, <1>2 DEF Enqueue, TypeOK, pcall
  <1> QED BY <1>4, <1>5, <1>6, <1>7, <1>8, <1>9 DEF Core, TypeOK

\* Removing messages from the front keeps types and accounting.
LEMMA TakingCore ==
    ASSUME Core, NEW k \in 0..Len(queue), NEW id \in Nat, TakeFront(k, id),
           \/ \E n \in Nat : pst' \in NotifyN(pst, Pushers, n)
           \/ pst' = NotifyAll(pst, Pushers)
           \/ pst' = pst,
           cst' \in [Poppers -> ThreadStates]
    PROVE  Core'
  <1>1. queue \in Seq(Entry) /\ total_bytes \in Nat /\ enqBytes \in Nat
        /\ IsStream(queue, total_bytes, enqBytes)
        /\ pst \in [Pushers -> ThreadStates]
    BY DEF Core, TypeOK
  <1>2. queue' \in Seq(Entry) BY <1>1, DropProperties DEF TakeFront
  <1>3. /\ total_bytes' \in 0..total_bytes
        /\ IsStream(queue', total_bytes', enqBytes)
    BY <1>1, DropStream DEF TakeFront
  <1>4. /\ policy' = policy /\ policy \in Policies
        /\ closed' \in BOOLEAN /\ now' \in Nat
        /\ psize' \in [Pushers -> 0..MaxSize] /\ ptimed' \in [Pushers -> BOOLEAN]
        /\ ctimed' \in [Poppers -> BOOLEAN]
        /\ accepted' \in Nat /\ out' \in Nat /\ enqBytes' = enqBytes
    BY DEF TakeFront, Core, TypeOK, pcall
  <1>5. /\ pst' \in [Pushers -> ThreadStates]
        /\ \A t \in Pushers : pst'[t] = pst[t] \/ (pst[t] = "wait" /\ pst'[t] = "woken")
    BY <1>1, NotifyTyped, QueueAssumption
  <1>6. OnlyBlockWaits' BY <1>4, <1>5 DEF Core, OnlyBlockWaits
  <1> QED BY <1>1, <1>2, <1>3, <1>4, <1>5, <1>6 DEF Core, TypeOK

\* pop() after its wait.
LEMMA PopBodyTakes ==
    ASSUME Core, NEW t \in Poppers, PopBody(t)
    PROVE  \E k \in 0..Len(queue), id \in Nat, n \in Nat :
              /\ Taking(k, id) /\ pst' \in NotifyN(pst, Pushers, n)
              /\ queue # <<>> => k > 0 /\ n > 0
              /\ cst' = [cst EXCEPT ![t] = "idle"]
  <1>1. queue \in Seq(Entry) /\ out \in Nat BY DEF Core, TypeOK
  <1>2. PICK k \in 0..Len(queue) :
           /\ LeadingExpired(queue, k, now)
           /\ IF k < Len(queue)
              THEN TakeFront(k + 1, queue[k + 1].id) /\ pst' \in NotifyN(pst, Pushers, k + 1)
              ELSE TakeFront(k, out) /\ pst' \in NotifyN(pst, Pushers, k)
           /\ cst' = [cst EXCEPT ![t] = "idle"]
    BY DEF PopBody
  <1>3. CASE k < Len(queue)
    <2>1. k + 1 \in 1..Len(queue) /\ queue[k + 1].id \in Nat
      BY <1>1, <1>3, EntryFields
    <2>2. Taking(k + 1, queue[k + 1].id) BY <1>2, <1>3, <2>1 DEF Taking
    <2> QED BY <1>2, <1>3, <2>1, <2>2
  <1>4. CASE ~(k < Len(queue))
    <2>1. k = Len(queue) /\ k \in Nat BY <1>1, <1>4
    <2>2. queue # <<>> => k > 0 BY <1>1, <2>1
    <2>3. Taking(k, out) BY <1>2, <1>4 DEF LeadingExpired, Taking
    <2> QED BY <1>1, <1>2, <1>4, <2>1, <2>2, <2>3
  <1> QED BY <1>3, <1>4

\* try_pop().
LEMMA TryPopTakes ==
    ASSUME Core, NEW t \in Poppers, TryPop(t)
    PROVE  \E k \in 0..Len(queue), id \in Nat :
              /\ Taking(k, id)
              /\ (\E n \in Nat : pst' \in NotifyN(pst, Pushers, n)) \/ pst' = pst
              /\ cst' = cst
  <1>1. queue \in Seq(Entry) /\ out \in Nat BY DEF Core, TypeOK
  <1>2. PICK k \in 0..Len(queue) :
           /\ LeadingExpired(queue, k, now)
           /\ IF k < Len(queue)
              THEN TakeFront(k + 1, queue[k + 1].id) /\ pst' \in NotifyN(pst, Pushers, 1)
              ELSE TakeFront(k, out) /\ UNCHANGED pst
           /\ cst' = cst
    BY DEF TryPop
  <1>3. CASE k < Len(queue)
    <2>1. k + 1 \in 1..Len(queue) /\ queue[k + 1].id \in Nat
      BY <1>1, <1>3, EntryFields
    <2>2. Taking(k + 1, queue[k + 1].id) BY <1>2, <1>3, <2>1 DEF Taking
    <2> QED BY <1>2, <1>3, <2>1, <2>2
  <1>4. CASE ~(k < Len(queue))
    <2>3. Taking(k, out) BY <1>2, <1>4 DEF LeadingExpired, Taking
    <2> QED BY <1>1, <1>2, <1>4, <2>3
  <1> QED BY <1>3, <1>4

\* purge_expired().
LEMMA PurgeTakes ==
    ASSUME Core, NEW t \in Poppers, PurgeExpired(t)
    PROVE  \E k \in 0..Len(queue), id \in Nat :
              Taking(k, id) /\ pst' = NotifyAll(pst, Pushers) /\ cst' = cst
  BY DEF PurgeExpired, Taking, LeadingExpired, Core, TypeOK

\* push() without waiting, under any policy but kDropOld at its mark.
LEMMA PushNowAdds ==
    ASSUME Core, NEW t \in Pushers, PushNow(t)
    PROVE  \E size \in 0..MaxSize : Adding(t, size, 0)
  <1>1. PICK size \in Sizes :
           /\ ~closed
           /\ ~AtHwm(size) \/ (policy = "kBlock" /\ PushPred(size))
           /\ Enqueue(t, size, queue, total_bytes)
    BY DEF PushNow
  <1>2. size \in 0..MaxSize /\ size \in Nat BY QueueAssumption
  <1>3. queue \in Seq(Entry) /\ total_bytes \in Nat BY DEF Core, TypeOK
  <1>4. Drop(queue, 0) = queue /\ total_bytes - PrefixBytes(queue, 0) = total_bytes
    BY <1>3, DropProperties DEF PrefixBytes
  <1>5. Admits(size, total_bytes)
    BY <1>1, <1>2, <1>3, QueueAssumption DEF AtHwm, PushPred, HasSpace, Admits
  <1>6. Adding(t, size, 0) BY <1>1, <1>4, <1>5 DEF Adding
  <1> QED BY <1>2, <1>6

\* push() under kDropOld at its mark.
LEMMA PushDropOldAdds ==
    ASSUME Core, NEW t \in Pushers, PushDropOld(t)
    PROVE  \E size \in 0..MaxSize, k \in 0..Len(queue) : Adding(t, size, k)
  <1>1. PICK size \in Sizes, k \in 0..Len(queue) :
           /\ ~closed /\ policy = "kDropOld"
           /\ HasSpace(total_bytes - PrefixBytes(queue, k)) \/ k = Len(queue)
           /\ Enqueue(t, size, Drop(queue, k), total_bytes - PrefixBytes(queue, k))
    BY DEF PushDropOld
  <1>2. size \in 0..MaxSize BY QueueAssumption
  <1>3. k = Len(queue) => total_bytes - PrefixBytes(queue, k) = 0
    BY DropStream DEF Core, TypeOK
  <1>4. Admits(size, total_bytes - PrefixBytes(queue, k))
    BY <1>1, <1>3, QueueAssumption DEF HasSpace, Admits
  <1> QED BY <1>1, <1>2, <1>4 DEF Adding

\* A push() that waited and found its predicate true.
LEMMA PushResumeAdds ==
    ASSUME Core, NEW t \in Pushers, pst[t] \in {"woken", "expired"},
           PushPred(psize[t]), ~closed, Enqueue(t, psize[t], queue, total_bytes)
    PROVE  \E size \in 0..MaxSize : Adding(t, size, 0)
  <1>1. policy = "kBlock" /\ Hwm > 0 BY DEF Core, OnlyBlockWaits
  <1>2. psize[t] \in 0..MaxSize /\ queue \in Seq(Entry) /\ total_bytes \in Nat
    BY DEF Core, TypeOK
  <1>3. Drop(queue, 0) = queue /\ total_bytes - PrefixBytes(queue, 0) = total_bytes
    BY <1>2, DropProperties DEF PrefixBytes
  <1>4. Admits(psize[t], total_bytes)
    BY <1>1, <1>2, QueueAssumption DEF PushPred, HasSpace, Admits
  <1> QED BY <1>1, <1>2, <1>3, <1>4 DEF Adding

-----------------------------------------------------------------------------
\* A step that leaves the data alone changes only thread states, the clock or
\* closed_.
Idling ==
    /\ UNCHANGED <<policy, data>>
    /\ now' \in Nat /\ now' >= now

\* Every step adds one message, removes some, or leaves the data alone, and
\* keeps types and accounting.
LEMMA CoreStep ==
    ASSUME Core, [Next]_vars
    PROVE  /\ Core'
           /\ \/ \E t \in Pushers, size \in 0..MaxSize, k \in 0..Len(queue) :
                    Adding(t, size, k)
              \/ \E k \in 0..Len(queue), id \in Nat : Taking(k, id)
              \/ Idling
  <1>0. TypeOK /\ OnlyBlockWaits /\ now \in Nat /\ now <= now /\ 0 \in 0..Len(queue)
    BY DEF Core, TypeOK
  <1>1. ASSUME NEW t \in Pushers, NEW size \in 0..MaxSize, NEW k \in 0..Len(queue),
               Adding(t, size, k)
        PROVE  Core'
    BY <1>1, AddingCore
  <1>2. ASSUME NEW t \in Pushers, PushNow(t) \/ PushDropOld(t)
        PROVE  \E size \in 0..MaxSize, k \in 0..Len(queue) : Adding(t, size, k)
    BY <1>0, <1>2, PushNowAdds, PushDropOldAdds
  <1>3. ASSUME NEW t \in Pushers, PushResume(t)
        PROVE  \/ \E size \in 0..MaxSize, k \in 0..Len(queue) : Adding(t, size, k)
               \/ Core' /\ Idling
    <2>1. CASE PushPred(psize[t]) /\ ~closed /\ Enqueue(t, psize[t], queue, total_bytes)
      BY <1>0, <1>3, <2>1, PushResumeAdds DEF PushResume
    <2>2. CASE /\ pst' = [pst EXCEPT ![t] =
                        IF ~closed /\ pst[t] = "woken" THEN "wait" ELSE "idle"]
               /\ UNCHANGED <<policy, now, closed, data, pcall, cst, ctimed>>
      BY <1>0, <1>3, <2>2 DEF Idling, PushResume, TypeOK, Core, OnlyBlockWaits,
                              data, pcall, ThreadStates
    <2> QED BY <1>3, <2>1, <2>2 DEF PushResume
  <1>4. ASSUME NEW t \in Pushers,
               \/ PushRefused(t) \/ PushBlock(t) \/ TimeoutPush(t) \/ SpuriousPush(t)
        PROVE  Core' /\ Idling
    <2>1. CASE PushRefused(t)
      BY <1>0, <2>1 DEF PushRefused, vars, data, pcall, Core, TypeOK, OnlyBlockWaits, Idling
    <2>2. CASE PushBlock(t)
      <3>1. PICK size \in Sizes, timed \in BOOLEAN :
               /\ policy = "kBlock" /\ AtHwm(size) /\ ~PushPred(size)
               /\ pst' = [pst EXCEPT ![t] = "wait"]
               /\ psize' = [psize EXCEPT ![t] = size]
               /\ ptimed' = [ptimed EXCEPT ![t] = timed]
               /\ UNCHANGED <<policy, now, closed, data, cst, ctimed>>
        BY <2>2 DEF PushBlock
      <3>2. size \in 0..MaxSize /\ Hwm > 0
        BY <3>1, QueueAssumption DEF AtHwm, HasSpace
      <3>3. OnlyBlockWaits' BY <1>0, <3>1, <3>2 DEF OnlyBlockWaits, TypeOK
      <3> QED BY <1>0, <3>1, <3>2, <3>3 DEF data, Core, TypeOK, ThreadStates, Idling
    <2>3. CASE TimeoutPush(t) \/ SpuriousPush(t)
      BY <1>0, <2>3 DEF TimeoutPush, SpuriousPush, data, pcall, Core, TypeOK,
                        ThreadStates, OnlyBlockWaits, Idling
    <2> QED BY <1>4, <2>1, <2>2, <2>3
  <1>5. ASSUME NEW t \in Poppers, PopBody(t)
        PROVE  Core' /\ \E k \in 0..Len(queue), id \in Nat : Taking(k, id)
    <2>1. PICK k \in 0..Len(queue), id \in Nat, n \in Nat :
              /\ Taking(k, id) /\ pst' \in NotifyN(pst, Pushers, n)
              /\ cst' = [cst EXCEPT ![t] = "idle"]
      BY <1>5, PopBodyTakes
    <2>2. cst' \in [Poppers -> ThreadStates] BY <1>0, <2>1 DEF TypeOK, ThreadStates
    <2> QED BY <2>1, <2>2, TakingCore DEF Taking
  <1>6. ASSUME NEW t \in Poppers, TryPop(t) \/ PurgeExpired(t)
        PROVE  Core' /\ \E k \in 0..Len(queue), id \in Nat : Taking(k, id)
    <2>1. PICK k \in 0..Len(queue), id \in Nat :
              /\ Taking(k, id) /\ cst' = cst
              /\ \/ \E n \in Nat : pst' \in NotifyN(pst, Pushers, n)
                 \/ pst' = NotifyAll(pst, Pushers)
                 \/ pst' = pst
      BY <1>6, TryPopTakes, PurgeTakes
    <2>2. cst' \in [Poppers -> ThreadStates] BY <1>0, <2>1 DEF TypeOK
    <2> QED BY <2>1, <2>2, TakingCore DEF Taking
  <1>7. ASSUME NEW t \in Poppers,
               \/ PopBlock(t) \/ TimeoutPop(t) \/ SpuriousPop(t)
               \/ PopResume(t) /\ ~PopPred
        PROVE  Core' /\ Idling
    BY <1>0, <1>7 DEF PopBlock, PopResume, PopPred, PopBody, TimeoutPop, SpuriousPop, data, pcall,
                      Core, TypeOK, ThreadStates, OnlyBlockWaits, Idling
  <1>8. ASSUME Close PROVE Core' /\ Idling
    <2>1. /\ pst' \in [Pushers -> ThreadStates] /\ cst' \in [Poppers -> ThreadStates]
          /\ \A t \in Pushers : pst'[t] = pst[t] \/ (pst[t] = "wait" /\ pst'[t] = "woken")
      <3>1. /\ pst \in [Pushers -> ThreadStates] /\ cst \in [Poppers -> ThreadStates]
            /\ IsFiniteSet(Pushers) /\ IsFiniteSet(Poppers)
        BY <1>0, QueueAssumption DEF TypeOK
      <3>2. pst' = NotifyAll(pst, Pushers) /\ cst' = NotifyAll(cst, Poppers)
        BY <1>8 DEF Close
      <3> QED BY <3>1, <3>2, NotifyTyped
    <2> QED BY <1>0, <1>8, <2>1 DEF Close, data, pcall, Core, TypeOK, OnlyBlockWaits, Idling
  <1>9. ASSUME Tick \/ UNCHANGED vars PROVE Core' /\ Idling
    BY <1>0, <1>9 DEF Tick, vars, data, pcall, Core, TypeOK, OnlyBlockWaits, Idling
  <1> QED
    BY <1>1, <1>2, <1>3, <1>4, <1>5, <1>6, <1>7, <1>8, <1>9
    DEF Next, PushStep, PopStep, PopNow, PopResume

-----------------------------------------------------------------------------
\* The queue starts empty and consistent.
LEMMA CoreInit == Init => Core
  <1> SUFFICES ASSUME Init PROVE Core OBVIOUS
  <1>1. TypeOK
    <2>1. queue \in Seq(Entry) BY DEF Init
    <2>2. /\ pst \in [Pushers -> ThreadStates] /\ cst \in [Poppers -> ThreadStates]
          /\ psize \in [Pushers -> 0..MaxSize] /\ ptimed \in [Pushers -> BOOLEAN]
          /\ ctimed \in [Poppers -> BOOLEAN]
      BY QueueAssumption DEF Init, ThreadStates
    <2> QED BY <2>1, <2>2 DEF Init, TypeOK
  <1>2. IsStream(queue, total_bytes, enqBytes)
    BY DEF Init, IsStream, EndOfStream, Ordered
  <1>3. OnlyBlockWaits BY DEF Init, OnlyBlockWaits
  <1> QED BY <1>1, <1>2, <1>3 DEF Core

\* Types are kept and total_bytes_ counts exactly the queued bytes, whatever
\* pushes, pops, drops, purges, timeouts and closes take place.
THEOREM AccountingInvariant == Spec => [](TypeOK /\ StreamAccounting)
  <1>1. Core /\ [Next]_vars => Core' BY CoreStep
  <1>2. Core => TypeOK /\ StreamAccounting
    BY DEF Core, IsStream, StreamAccounting
  <1> QED BY CoreInit, <1>1, <1>2, PTL DEF Spec

\* The high water mark is exceeded by less than one message under kBlock and
\* kDropOld and never under the other policies.
THEOREM HwmInvariant == Spec => []HwmRespected
  <1> DEFINE I == Core /\ HwmRespected
  <1>1. Init => I BY CoreInit, QueueAssumption DEF Init, HwmRespected
  <1>2. I /\ [Next]_vars => I'
    <2> SUFFICES ASSUME Core, HwmRespected, [Next]_vars PROVE HwmRespected'
      BY CoreStep
    <2>0. /\ TypeOK /\ total_bytes \in Nat /\ queue \in Seq(Entry)
          /\ IsStream(queue, total_bytes, enqBytes) /\ enqBytes \in Nat
      BY DEF Core, TypeOK
    <2>1. ASSUME NEW t \in Pushers, NEW size \in 0..MaxSize, NEW k \in 0..Len(queue),
                 Adding(t, size, k)
          PROVE  HwmRespected'
      <3>1. total_bytes - PrefixBytes(queue, k) \in Nat BY <2>0, DropStream
      <3>2. /\ total_bytes' = (total_bytes - PrefixBytes(queue, k)) + size
            /\ policy' = policy
        BY <2>1 DEF Adding, Enqueue
      <3>3. Admits(size, total_bytes - PrefixBytes(queue, k)) BY <2>1 DEF Adding
      <3> QED BY <3>1, <3>2, <3>3, QueueAssumption DEF Admits, HwmRespected
    <2>2. ASSUME NEW k \in 0..Len(queue), NEW id \in Nat, Taking(k, id)
          PROVE  HwmRespected'
      <3>1. total_bytes' \in 0..total_bytes /\ policy' = policy
        BY <2>0, <2>2, DropStream DEF Taking, TakeFront
      <3> QED BY <2>0, <3>1, QueueAssumption DEF HwmRespected
    <2>3. CASE Idling BY <2>3 DEF Idling, data, HwmRespected
    <2> QED BY <2>1, <2>2, <2>3, CoreStep
  <1> QED BY <1>1, <1>2, PTL DEF Spec

\* Without a TTL no message has a deadline; with one none is further away
\* than the TTL.
DeadlineBound ==
    \A i \in 1..Len(queue) : queue[i].deadline <= IF Ttl > 0 THEN now + Ttl ELSE 0

\* One step keeps deadlines bounded and sorted.
LEMMA DeadlineStep ==
    ASSUME Core, DeadlineBound, DeadlinesSorted, [Next]_vars
    PROVE  DeadlineBound' /\ DeadlinesSorted'
  <1>0. /\ queue \in Seq(Entry) /\ now \in Nat /\ Ttl \in Nat
        /\ \A i \in 1..Len(queue) : queue[i].deadline \in Nat
    BY QueueAssumption, EntryFields DEF Core, TypeOK
  <1>1. ASSUME NEW t \in Pushers, NEW size \in 0..MaxSize, NEW k \in 0..Len(queue),
               Adding(t, size, k)
        PROVE  DeadlineBound' /\ DeadlinesSorted'
    <2> DEFINE q == Drop(queue, k)
    <2>1. /\ q \in Seq(Entry) /\ Len(q) = Len(queue) - k
          /\ \A i \in 1..Len(q) : i + k \in 1..Len(queue) /\ q[i] = queue[i + k]
      BY <1>0, DropProperties
    <2>2. queue' = Append(q, Message(size)) /\ now' = now
      BY <1>1 DEF Adding, Enqueue
    <2> HIDE DEF q
    <2>3. /\ Len(queue') = Len(q) + 1 /\ queue'[Len(q) + 1] = Message(size)
          /\ \A i \in 1..Len(q) : queue'[i] = q[i]
      BY <2>1, <2>2
    <2>4. Message(size).deadline = IF Ttl > 0 THEN now + Ttl ELSE 0
      BY DEF Message
    <2>5. \A i \in 1..Len(q) : /\ q[i].deadline <= Message(size).deadline
                               /\ q[i].deadline \in Nat
      BY <1>0, <2>1, <2>4 DEF DeadlineBound
    <2>6. ASSUME NEW i \in 1..Len(q), NEW j \in 1..Len(q), i < j
          PROVE  q[i].deadline <= q[j].deadline
      <3>1. i + k \in 1..Len(queue) /\ j + k \in 1..Len(queue) BY <2>1
      <3>2. i + k < j + k BY <2>6, <3>1
      <3> QED BY <2>1, <3>1, <3>2 DEF DeadlinesSorted
    <2>7. DeadlineBound' BY <1>0, <2>1, <2>2, <2>3, <2>4, <2>5 DEF DeadlineBound
    <2>8. ASSUME NEW i \in 1..Len(queue'), NEW j \in 1..Len(queue'), i < j
          PROVE  queue'[i].deadline <= queue'[j].deadline
      <3>1. Len(q) \in Nat BY <2>1
      <3>2. i \in 1..Len(q) /\ queue'[i] = q[i] BY <2>3, <2>8, <3>1
      <3>3. CASE j = Len(q) + 1 BY <2>3, <2>5, <3>2, <3>3
      <3>4. CASE j # Len(q) + 1
        <4>1. j \in 1..Len(q) /\ queue'[j] = q[j] BY <2>3, <3>1, <3>4
        <4> QED BY <2>6, <2>8, <3>2, <4>1
      <3> QED BY <3>3, <3>4
    <2>9. DeadlinesSorted' BY <2>8 DEF DeadlinesSorted
    <2> QED BY <2>7, <2>9
  <1>2. ASSUME NEW k \in 0..Len(queue), NEW id \in Nat, Taking(k, id)
        PROVE  DeadlineBound' /\ DeadlinesSorted'
    <2>1. queue' = Drop(queue, k) /\ now' = now BY <1>2 DEF Taking, TakeFront
    <2>2. /\ Len(queue') = Len(queue) - k /\ Len(queue) \in Nat
          /\ \A i \in 1..(Len(queue) - k) : queue'[i] = queue[i + k]
      <3>1. Len(queue) \in Nat BY <1>0
      <3>2. /\ Len(Drop(queue, k)) = Len(queue) - k
            /\ \A i \in 1..(Len(queue) - k) : Drop(queue, k)[i] = queue[i + k]
        BY <1>0, DropProperties
      <3> QED BY <2>1, <3>1, <3>2
    <2>3. \A i \in 1..Len(queue') : i + k \in 1..Len(queue) /\ queue'[i] = queue[i + k]
      BY <2>2
    <2>4. DeadlineBound' BY <2>1, <2>3 DEF DeadlineBound
    <2>5. \A i, j \in 1..Len(queue') : i < j => i + k < j + k BY <2>2
    <2>6. DeadlinesSorted' BY <2>3, <2>5 DEF DeadlinesSorted
    <2> QED BY <2>4, <2>6
  <1>3. CASE Idling BY <1>0, <1>3 DEF Idling, data, DeadlineBound, DeadlinesSorted
  <1> QED BY <1>1, <1>2, <1>3, CoreStep

\* Deadlines grow along the queue, so that a scan from the front that stops at
\* the first live message has met every expired one.
THEOREM DeadlineInvariant == Spec => []DeadlinesSorted
  <1> DEFINE I == Core /\ DeadlineBound /\ DeadlinesSorted
  <1>1. Init => I BY CoreInit DEF Init, DeadlineBound, DeadlinesSorted
  <1>2. I /\ [Next]_vars => I' BY CoreStep, DeadlineStep
  <1> QED BY <1>1, <1>2, PTL DEF Spec

\* Messages leave in the order they were accepted, none twice, and without TTL
\* and kDropOld none is lost.
THEOREM FifoInvariant == Spec => []FifoNoLoss
  <1> DEFINE I == Core /\ DeadlineBound /\ DeadlinesSorted /\ FifoNoLoss
  <1>1. Init => I
    BY CoreInit DEF Init, DeadlineBound, DeadlinesSorted, FifoNoLoss
  <1>2. I /\ [Next]_vars => I'
    <2> SUFFICES ASSUME Core, DeadlineBound, FifoNoLoss, [Next]_vars
                 PROVE  FifoNoLoss'
      BY CoreStep, DeadlineStep
    <2>0. /\ queue \in Seq(Entry) /\ accepted \in Nat /\ out \in Nat
          /\ Len(queue) \in Nat
          /\ \A i \in 1..Len(queue) : queue[i].id \in Nat /\ queue[i].deadline \in Nat
      <3>1. queue \in Seq(Entry) /\ accepted \in Nat /\ out \in Nat
        BY DEF Core, TypeOK
      <3> QED
        BY <3>1, EntryFields
    <2>1. ASSUME NEW t \in Pushers, NEW size \in 0..MaxSize, NEW k \in 0..Len(queue),
                 Adding(t, size, k)
          PROVE  FifoNoLoss'
      <3> DEFINE q == Drop(queue, k)
      <3>1. /\ q \in Seq(Entry) /\ Len(q) = Len(queue) - k
            /\ \A i \in 1..(Len(queue) - k) : q[i] = queue[i + k]
        BY <2>0, DropProperties
      <3>2. /\ queue' = Append(q, Message(size)) /\ out' = out /\ policy' = policy
            /\ accepted' = accepted + 1 /\ (k = 0 \/ policy = "kDropOld")
        BY <2>1 DEF Adding, Enqueue
      <3> HIDE DEF q
      <3>3. /\ Len(queue') = Len(q) + 1 /\ queue'[Len(q) + 1] = Message(size)
            /\ \A i \in 1..Len(q) : queue'[i] = q[i]
        <4>1. queue' = Append(q, Message(size)) /\ q \in Seq(Entry) BY <3>1, <3>2
        <4> QED BY <4>1, AppendFacts
      <3>4. Message(size).id = accepted + 1 BY DEF Message
      <3>5. ASSUME NEW i \in 1..Len(queue')
            PROVE  queue'[i].id = accepted' - Len(queue') + i
        <4>1. CASE i = Len(q) + 1 BY <2>0, <3>1, <3>2, <3>3, <3>4, <4>1
        <4>2. CASE i # Len(q) + 1
          <5>1. i \in 1..(Len(queue) - k) /\ i + k \in 1..Len(queue)
            BY <2>0, <3>1, <3>3, <4>2
          <5>2. queue'[i].id = accepted - Len(queue) + (i + k)
            BY <3>1, <3>3, <5>1 DEF FifoNoLoss
          <5> QED BY <2>0, <3>1, <3>2, <3>3, <5>1, <5>2
        <4> QED BY <4>1, <4>2
      <3>6. /\ out' <= accepted' /\ Len(queue') <= accepted' - out'
            /\ Ttl = 0 /\ policy' # "kDropOld" => Len(queue') = accepted' - out'
        <4>1. /\ out <= accepted /\ Len(queue) <= accepted - out
              /\ Ttl = 0 /\ policy # "kDropOld" => Len(queue) = accepted - out
          BY DEF FifoNoLoss
        <4>2. Len(queue') = Len(queue) - k + 1 BY <3>1, <3>3
        <4>3. out' <= accepted' /\ Len(queue') <= accepted' - out'
          BY <2>0, <3>2, <4>1, <4>2
        <4>4. Ttl = 0 /\ policy' # "kDropOld" => Len(queue') = accepted' - out'
          <5> HAVE Ttl = 0 /\ policy' # "kDropOld"
          <5>1. k = 0 /\ Len(queue) = accepted - out BY <3>2, <4>1
          <5> QED BY <2>0, <3>2, <4>2, <5>1
        <4> QED BY <4>3, <4>4
      <3> QED BY <3>5, <3>6 DEF FifoNoLoss
    <2>2. ASSUME NEW k \in 0..Len(queue), NEW id \in Nat, Taking(k, id)
          PROVE  FifoNoLoss'
      <3>1. /\ queue' = Drop(queue, k) /\ out' = id /\ policy' = policy
            /\ accepted' = accepted
        BY <2>2 DEF Taking, TakeFront
      <3>2. /\ Len(Drop(queue, k)) = Len(queue) - k
            /\ \A i \in 1..(Len(queue) - k) : Drop(queue, k)[i] = queue[i + k]
        BY <2>0, DropProperties
      <3>3. ASSUME NEW i \in 1..Len(queue')
            PROVE  queue'[i].id = accepted' - Len(queue') + i
        <4>1. i \in 1..(Len(queue) - k) /\ i + k \in 1..Len(queue)
          BY <2>0, <3>1, <3>2
        <4>2. queue'[i].id = accepted - Len(queue) + (i + k)
          BY <3>1, <3>2, <4>1 DEF FifoNoLoss
        <4>3. /\ accepted \in Nat /\ Len(queue) \in Nat /\ k \in Nat /\ i \in Nat
              /\ Len(queue') = Len(queue) - k /\ accepted' = accepted
          BY <2>0, <3>1, <3>2, <4>1
        <4> QED BY <4>2, <4>3
      <3>4. CASE k > 0 /\ id = queue[k].id
        <4>1. id = accepted - Len(queue) + k BY <2>0, <3>4 DEF FifoNoLoss
        <4>2. Len(queue) <= accepted BY <2>0 DEF FifoNoLoss
        <4> QED BY <2>0, <3>1, <3>2, <3>3, <4>1, <4>2 DEF FifoNoLoss
      <3>5. CASE id = out /\ \A i \in 1..k : Expired(queue[i], now)
        <4>1. Ttl = 0 => k = 0
          <5>1. ASSUME Ttl = 0, k # 0 PROVE FALSE
            <6>1. k \in 1..k /\ k \in 1..Len(queue) BY <2>0, <5>1
            <6>2. queue[k].deadline # 0 BY <3>5, <6>1 DEF Expired
            <6>3. queue[k].deadline <= 0 BY <5>1, <6>1 DEF DeadlineBound
            <6> QED BY <2>0, <6>1, <6>2, <6>3
          <5> QED BY <5>1
        <4> QED BY <2>0, <3>1, <3>2, <3>3, <3>5, <4>1 DEF FifoNoLoss
      <3> QED BY <2>2, <3>4, <3>5 DEF Taking
    <2>3. CASE Idling BY <2>3 DEF Idling, data, FifoNoLoss
    <2> QED BY <2>1, <2>2, <2>3, CoreStep
  <1> QED BY <1>1, <1>2, PTL DEF Spec

-----------------------------------------------------------------------------
(* Wakeups *)

\* Threads of S that left the condition variable and contend for mu_.
Active(st, S) == {t \in S : st[t] \in {"woken", "expired"}}

\* notify_one() makes one more thread active, unless nobody waits any more.
LEMMA NotifyOneActive ==
    ASSUME NEW S, IsFiniteSet(S), NEW st \in [S -> ThreadStates],
           NEW st2 \in NotifyN(st, S, 1)
    PROVE  /\ Waiting(st2, S) \subseteq Waiting(st, S)
           /\ \/ Waiting(st2, S) = {}
              \/ Cardinality(Active(st2, S)) = Cardinality(Active(st, S)) + 1
  <1>1. PICK W \in SUBSET Waiting(st, S) :
            /\ st2 = Wake(st, S, W) /\ IsFiniteSet(W)
            /\ Cardinality(W) = 1 \/ Waiting(st2, S) = {}
    <2>1. "woken" \in ThreadStates BY DEF ThreadStates
    <2> QED BY <2>1, NotifyProperties
  <1>2. Waiting(st2, S) \subseteq Waiting(st, S) BY <1>1 DEF Waiting, Wake
  <1>3. ASSUME Cardinality(W) = 1
        PROVE  Cardinality(Active(st2, S)) = Cardinality(Active(st, S)) + 1
    <2>1. /\ Active(st2, S) = Active(st, S) \cup W
          /\ Active(st, S) \cap W = {}
      BY <1>1 DEF Active, Waiting, Wake
    <2>2. IsFiniteSet(Active(st, S)) BY FS_Subset DEF Active
    <2>3. Cardinality(Active(st, S) \cup W) =
              Cardinality(Active(st, S)) + Cardinality(W) - Cardinality({})
      BY <1>1, <2>1, <2>2, FS_Union
    <2>4. Cardinality({}) = 0 /\ Cardinality(Active(st, S)) \in Nat
      BY <2>2, FS_EmptySet, FS_CardinalityType
    <2> QED BY <1>3, <2>1, <2>3, <2>4
  <1> QED BY <1>1, <1>2, <1>3

\* close() wakes everybody, and a thread waits only on an open queue.
LEMMA ClosedStep ==
    ASSUME Core, ClosedWakesAll, [Next]_vars
    PROVE  ClosedWakesAll'
  <1>0. TypeOK BY DEF Core
  <1>1. ASSUME NEW t \in Pushers, NEW size \in 0..MaxSize, NEW k \in 0..Len(queue),
               Adding(t, size, k)
        PROVE  ClosedWakesAll'
    BY <1>1 DEF Adding, Enqueue, ClosedWakesAll
  <1>2. ASSUME NEW t \in Pushers, PushStep(t) PROVE ClosedWakesAll'
    <2>1. CASE PushNow(t) \/ PushDropOld(t)
      BY <1>2, <2>1 DEF PushNow, PushDropOld, Enqueue, ClosedWakesAll
    <2>2. CASE PushResume(t)
      BY <1>0, <2>2 DEF PushResume, Enqueue, ClosedWakesAll, TypeOK, Waiting
    <2>3. CASE PushRefused(t) BY <2>3 DEF PushRefused, vars, ClosedWakesAll
    <2>4. CASE PushBlock(t)
      BY <2>4 DEF PushBlock, PushPred, ClosedWakesAll
    <2>5. CASE TimeoutPush(t) \/ SpuriousPush(t)
      BY <1>0, <2>5 DEF TimeoutPush, SpuriousPush, ClosedWakesAll, Waiting
    <2> QED BY <1>2, <2>1, <2>2, <2>3, <2>4, <2>5 DEF PushStep
  <1>3. ASSUME NEW k \in 0..Len(queue), NEW id \in Nat, Taking(k, id),
               \/ \E n \in Nat : pst' \in NotifyN(pst, Pushers, n)
               \/ pst' = NotifyAll(pst, Pushers)
               \/ pst' = pst,
               NEW t \in Poppers,
               cst' = cst \/ cst' = [cst EXCEPT ![t] = "idle"]
        PROVE  ClosedWakesAll'
    <2>1. closed' = closed BY <1>3 DEF Taking, TakeFront
    <2>2. \A u \in Pushers : pst'[u] = pst[u] \/ (pst[u] = "wait" /\ pst'[u] = "woken")
      <3>1. pst \in [Pushers -> ThreadStates] /\ IsFiniteSet(Pushers)
        BY <1>0, QueueAssumption DEF TypeOK
      <3> QED BY <1>3, <3>1, NotifyTyped
    <2> QED BY <1>0, <1>3, <2>1, <2>2 DEF ClosedWakesAll, Waiting, TypeOK
  <1>4. ASSUME NEW t \in Poppers, PopBody(t) PROVE ClosedWakesAll'
    <2>1. PICK k \in 0..Len(queue), id \in Nat, n \in Nat :
              /\ Taking(k, id) /\ pst' \in NotifyN(pst, Pushers, n)
              /\ cst' = [cst EXCEPT ![t] = "idle"]
      BY <1>4, PopBodyTakes
    <2> QED BY <1>3, <2>1
  <1>5. ASSUME NEW t \in Poppers, TryPop(t) \/ PurgeExpired(t) PROVE ClosedWakesAll'
    BY <1>3, <1>5, TryPopTakes, PurgeTakes
  <1>6. ASSUME NEW t \in Poppers,
               \/ PopBlock(t) \/ TimeoutPop(t) \/ SpuriousPop(t)
               \/ PopResume(t) /\ ~PopPred
        PROVE  ClosedWakesAll'
    <2>1. CASE PopBlock(t) BY <2>1 DEF PopBlock, PopPred, ClosedWakesAll
    <2>2. CASE TimeoutPop(t) \/ SpuriousPop(t)
      BY <2>2 DEF TimeoutPop, SpuriousPop, ClosedWakesAll, Waiting
    <2>3. CASE PopResume(t) /\ ~PopPred
      BY <2>3 DEF PopResume, PopPred, ClosedWakesAll
    <2> QED BY <1>6, <2>1, <2>2, <2>3
  <1>7. CASE Close
    BY <1>0, <1>7 DEF Close, NotifyAll, Wake, Waiting, ClosedWakesAll
  <1>8. CASE Tick \/ UNCHANGED vars
    BY <1>8 DEF Tick, vars, ClosedWakesAll
  <1> QED BY <1>2, <1>4, <1>5, <1>6, <1>7, <1>8 DEF Next, PopStep, PopNow, PopResume

\* After close() no thread waits on a condition variable of the queue.
THEOREM CloseInvariant == Spec => []ClosedWakesAll
  <1>1. Init => ClosedWakesAll BY DEF Init, ClosedWakesAll
  <1>2. Core /\ ClosedWakesAll /\ [Next]_vars => Core' /\ ClosedWakesAll'
    BY CoreStep, ClosedStep
  <1> QED BY CoreInit, <1>1, <1>2, PTL DEF Spec

\* Threads that stop or start being active, one at a time.
LEMMA ActiveStep ==
    ASSUME NEW S, IsFiniteSet(S), NEW st \in [S -> ThreadStates], NEW t \in S,
           NEW x \in ThreadStates
    PROVE  LET st2 == [st EXCEPT ![t] = x]
           IN  /\ Cardinality(Active(st, S)) \in Nat
               /\ Cardinality(Active(st2, S)) \in Nat
               /\ t \notin Active(st, S) =>
                     Cardinality(Active(st2, S)) >= Cardinality(Active(st, S))
               /\ t \in Active(st, S) =>
                     Cardinality(Active(st2, S)) >= Cardinality(Active(st, S)) - 1
  <1> DEFINE st2 == [st EXCEPT ![t] = x]
             A == Active(st, S)
             B == Active(st2, S)
  <1>1. IsFiniteSet(A) /\ IsFiniteSet(B) BY FS_Subset DEF Active
  <1>2. Cardinality(A) \in Nat /\ Cardinality(B) \in Nat
    BY <1>1, FS_CardinalityType
  <1>3. B = A \/ B = A \cup {t} \/ B = A \ {t} BY DEF Active
  <1> SUFFICES /\ t \notin A => Cardinality(B) >= Cardinality(A)
               /\ t \in A => Cardinality(B) >= Cardinality(A) - 1
    BY <1>2
  <1> HIDE DEF A, B
  <1>4. CASE B = A BY <1>2, <1>4
  <1>5. CASE B = A \cup {t}
    <2>1. Cardinality(B) = IF t \in A THEN Cardinality(A) ELSE Cardinality(A) + 1
      BY <1>1, <1>5, FS_AddElement
    <2> QED BY <1>2, <2>1
  <1>6. CASE B = A \ {t}
    <2>1. Cardinality(B) = IF t \in A THEN Cardinality(A) - 1 ELSE Cardinality(A)
      BY <1>1, <1>6, FS_RemoveElement
    <2> QED BY <1>2, <2>1
  <1> QED BY <1>3, <1>4, <1>5, <1>6

\* One step keeps at least one active popper per message while others wait.
LEMMA PopperStep ==
    ASSUME Core, NoStrandedPopper, [Next]_vars
    PROVE  NoStrandedPopper'
  <1> DEFINE A == Active(cst, Poppers)
  <1>0. /\ cst \in [Poppers -> ThreadStates] /\ IsFiniteSet(Poppers)
        /\ queue \in Seq(Entry) /\ Len(queue) \in Nat
        /\ Cardinality(A) \in Nat
    <2>1. IsFiniteSet(A) BY QueueAssumption, FS_Subset DEF Active
    <2> QED BY <2>1, FS_CardinalityType, QueueAssumption DEF Core, TypeOK
  <1>1. Waiting(cst, Poppers) # {} => Len(queue) <= Cardinality(A)
    BY DEF NoStrandedPopper, Active
  <1>2. SUFFICES Waiting(cst', Poppers) # {} =>
                     Len(queue') <= Cardinality(Active(cst', Poppers))
    BY DEF NoStrandedPopper, Active
  <1> HIDE DEF A
  <1>3. ASSUME NEW t \in Pushers, NEW size \in 0..MaxSize, NEW k \in 0..Len(queue),
               Adding(t, size, k)
        PROVE  Waiting(cst', Poppers) # {} =>
                     Len(queue') <= Cardinality(Active(cst', Poppers))
    <2>1. /\ queue' = Append(Drop(queue, k), Message(size))
          /\ cst' \in NotifyN(cst, Poppers, 1)
      BY <1>3 DEF Adding, Enqueue
    <2>2. Drop(queue, k) \in Seq(Entry) /\ Len(Drop(queue, k)) = Len(queue) - k
      BY <1>0, DropProperties
    <2>3. Len(queue') = Len(queue) - k + 1 BY <2>1, <2>2, AppendFacts
    <2>4. /\ Waiting(cst', Poppers) \subseteq Waiting(cst, Poppers)
          /\ \/ Waiting(cst', Poppers) = {}
             \/ Cardinality(Active(cst', Poppers)) = Cardinality(A) + 1
      BY <1>0, <2>1, NotifyOneActive DEF A
    <2> QED BY <1>0, <1>1, <2>3, <2>4
  <1>4. ASSUME NEW k \in 0..Len(queue), NEW id \in Nat, Taking(k, id)
        PROVE  Len(queue') = Len(queue) - k
    BY <1>0, <1>4, DropProperties DEF Taking, TakeFront
  <1>5. ASSUME UNCHANGED queue, UNCHANGED cst
        PROVE  Waiting(cst', Poppers) # {} =>
                     Len(queue') <= Cardinality(Active(cst', Poppers))
    BY <1>1, <1>5 DEF A
  <1>6. ASSUME NEW t \in Pushers, PushStep(t)
        PROVE  Waiting(cst', Poppers) # {} =>
                     Len(queue') <= Cardinality(Active(cst', Poppers))
    <2>1. CASE PushNow(t) \/ PushDropOld(t)
      <3>1. \E size \in 0..MaxSize, k \in 0..Len(queue) : Adding(t, size, k)
        BY <1>0, <2>1, PushNowAdds, PushDropOldAdds
      <3> QED BY <1>3, <3>1
    <2>2. CASE PushResume(t)
      <3>1. CASE PushPred(psize[t]) /\ ~closed /\ Enqueue(t, psize[t], queue, total_bytes)
        <4>1. \E size \in 0..MaxSize : Adding(t, size, 0)
          BY <2>2, <3>1, PushResumeAdds DEF PushResume
        <4>2. 0 \in 0..Len(queue) BY <1>0
        <4> QED BY <1>3, <4>1, <4>2
      <3>2. CASE UNCHANGED <<data, cst>> BY <1>5, <3>2 DEF data
      <3> QED BY <2>2, <3>1, <3>2 DEF PushResume
    <2>3. CASE PushRefused(t) \/ PushBlock(t) \/ TimeoutPush(t) \/ SpuriousPush(t)
      BY <1>5, <2>3 DEF PushRefused, PushBlock, TimeoutPush, SpuriousPush, vars, data
    <2> QED BY <1>6, <2>1, <2>2, <2>3 DEF PushStep
  <1>7. ASSUME NEW t \in Poppers, PopNow(t) \/ (PopResume(t) /\ PopPred)
        PROVE  Waiting(cst', Poppers) # {} =>
                     Len(queue') <= Cardinality(Active(cst', Poppers))
    <2>1. PopBody(t) BY <1>7 DEF PopNow, PopResume
    <2>2. PICK k \in 0..Len(queue), id \in Nat :
              /\ Taking(k, id)
              /\ queue # <<>> => k > 0
              /\ cst' = [cst EXCEPT ![t] = "idle"]
      BY <2>1, PopBodyTakes
    <2>3. Len(queue') = Len(queue) - k BY <1>4, <2>2
    <2>4. cst[t] # "wait" BY <1>7 DEF PopNow, PopResume
    <2>5. Waiting(cst', Poppers) = Waiting(cst, Poppers)
      BY <1>0, <2>2, <2>4 DEF Waiting
    <2>6. /\ Cardinality(Active(cst', Poppers)) \in Nat
          /\ t \notin A => Cardinality(Active(cst', Poppers)) >= Cardinality(A)
          /\ t \in A => Cardinality(Active(cst', Poppers)) >= Cardinality(A) - 1
      <3>1. "idle" \in ThreadStates BY DEF ThreadStates
      <3> QED BY <1>0, <2>2, <3>1, ActiveStep DEF A
    <2>7. CASE queue = <<>>
      <3>1. Len(queue') = 0 BY <1>0, <2>3, <2>7
      <3> QED BY <2>6, <3>1
    <2>8. CASE queue # <<>>
      <3>1. Len(queue') <= Len(queue) - 1 /\ Len(queue') \in Int
        <4>1. k > 0 /\ k \in Nat BY <2>2, <2>8
        <4> QED BY <1>0, <2>3, <4>1
      <3> QED BY <1>0, <1>1, <2>5, <2>6, <3>1
    <2> QED BY <2>7, <2>8
  <1>8. ASSUME NEW t \in Poppers, TryPop(t) \/ PurgeExpired(t)
        PROVE  Waiting(cst', Poppers) # {} =>
                     Len(queue') <= Cardinality(Active(cst', Poppers))
    <2>1. PICK k \in 0..Len(queue), id \in Nat : Taking(k, id) /\ cst' = cst
      BY <1>8, TryPopTakes, PurgeTakes
    <2>2. Len(queue') = Len(queue) - k BY <1>4, <2>1
    <2> QED BY <1>0, <1>1, <2>1, <2>2 DEF A
  <1>9. ASSUME NEW t \in Poppers, PopBlock(t) \/ (PopResume(t) /\ ~PopPred)
        PROVE  Waiting(cst', Poppers) # {} =>
                     Len(queue') <= Cardinality(Active(cst', Poppers))
    <2>1. /\ queue' = queue /\ queue = <<>>
          /\ \E x \in ThreadStates : cst' = [cst EXCEPT ![t] = x]
      BY <1>9 DEF PopBlock, PopResume, PopPred, data, ThreadStates
    <2>2. Cardinality(Active(cst', Poppers)) \in Nat
      BY <1>0, <2>1, ActiveStep
    <2>3. Len(queue') = 0 BY <2>1
    <2> QED BY <2>2, <2>3
  <1>10. ASSUME NEW t \in Poppers, TimeoutPop(t) \/ SpuriousPop(t)
         PROVE  Waiting(cst', Poppers) # {} =>
                     Len(queue') <= Cardinality(Active(cst', Poppers))
    <2>1. /\ queue' = queue /\ cst[t] = "wait"
          /\ \E x \in ThreadStates : cst' = [cst EXCEPT ![t] = x]
      BY <1>10 DEF TimeoutPop, SpuriousPop, data, ThreadStates
    <2>2. t \notin A BY <2>1 DEF A, Active
    <2>3. /\ Cardinality(Active(cst', Poppers)) \in Nat
          /\ Cardinality(Active(cst', Poppers)) >= Cardinality(A)
      BY <1>0, <2>1, <2>2, ActiveStep DEF A
    <2>4. Waiting(cst, Poppers) # {} BY <2>1 DEF Waiting
    <2> QED BY <1>0, <1>1, <2>1, <2>3, <2>4
  <1>11. CASE Close
    <2>1. Waiting(cst', Poppers) = {}
      BY <1>0, <1>11 DEF Close, NotifyAll, Wake, Waiting
    <2> QED BY <2>1
  <1>12. CASE Tick \/ UNCHANGED vars BY <1>5, <1>12 DEF Tick, vars, data
  <1> QED BY <1>6, <1>7, <1>8, <1>9, <1>10, <1>11, <1>12 DEF Next, PopStep, PopResume

\* pop() loses no wakeup: a waiting popper never sleeps on a message nobody is
\* coming for.
THEOREM PopperInvariant == Spec => []NoStrandedPopper
  <1>1. Init => NoStrandedPopper BY DEF Init, NoStrandedPopper, Waiting
  <1>2. Core /\ NoStrandedPopper /\ [Next]_vars => Core' /\ NoStrandedPopper'
    BY CoreStep, PopperStep
  <1> QED BY CoreInit, <1>1, <1>2, PTL DEF Spec

\* Whoever takes messages off a queue on which pushers wait wakes one of them,
\* unless try_pop() meets expired messages.
LEMMA PusherStep ==
    ASSUME "try_pop" \notin ConsumerOps \/ Ttl = 0,
           Core, DeadlineBound, ClosedWakesAll, NoStrandedPusher, [Next]_vars
    PROVE  NoStrandedPusher'
  <1>0. /\ pst \in [Pushers -> ThreadStates] /\ IsFiniteSet(Pushers)
        /\ queue \in Seq(Entry) /\ Len(queue) \in Nat /\ total_bytes \in Nat
        /\ queue = <<>> => total_bytes = 0
        /\ psize \in [Pushers -> 0..MaxSize]
    BY QueueAssumption DEF Core, TypeOK, IsStream, EndOfStream
  <1>1. ASSUME NEW t \in Pushers, NEW size \in 0..MaxSize, NEW k \in 0..Len(queue),
               Adding(t, size, k)
        PROVE  NoStrandedPusher'
    <2>1. queue' = Append(Drop(queue, k), Message(size)) /\ Drop(queue, k) \in Seq(Entry)
      BY <1>0, <1>1, DropProperties DEF Adding, Enqueue
    <2>2. Len(Drop(queue, k)) \in Nat /\ Len(queue') = Len(Drop(queue, k)) + 1
      BY <2>1, AppendFacts
    <2>3. queue' # <<>> BY <2>2
    <2> QED BY <2>3 DEF NoStrandedPusher
  <1>2. ASSUME NEW size \in 0..MaxSize, ~PushPred(size)
        PROVE  queue # <<>>
    BY <1>0, <1>2, QueueAssumption DEF PushPred, HasSpace
  <1>3. ASSUME NEW t \in Pushers, PushStep(t) PROVE NoStrandedPusher'
    <2>1. CASE PushNow(t) \/ PushDropOld(t)
      <3>1. \E size \in 0..MaxSize, k \in 0..Len(queue) : Adding(t, size, k)
        BY <1>0, <2>1, PushNowAdds, PushDropOldAdds
      <3> QED BY <1>1, <3>1
    <2>2. CASE PushResume(t)
      <3>1. CASE PushPred(psize[t]) /\ ~closed /\ Enqueue(t, psize[t], queue, total_bytes)
        <4>1. \E size \in 0..MaxSize : Adding(t, size, 0)
          BY <2>2, <3>1, PushResumeAdds DEF PushResume
        <4>2. 0 \in 0..Len(queue) BY <1>0
        <4> QED BY <1>1, <4>1, <4>2
      <3>2. CASE closed /\ pst' = [pst EXCEPT ![t] = "idle"]
        <4>1. Waiting(pst', Pushers) = {}
          BY <1>0, <3>2 DEF ClosedWakesAll, Waiting
        <4> QED BY <4>1 DEF NoStrandedPusher
      <3>3. CASE ~PushPred(psize[t]) /\ queue' = queue
        <4>1. queue # <<>> BY <1>0, <1>2, <3>3
        <4> QED BY <3>3, <4>1 DEF NoStrandedPusher
      <3> QED BY <2>2, <3>1, <3>2, <3>3 DEF PushResume, data
    <2>3. CASE PushRefused(t) BY <2>3 DEF PushRefused, vars, data, NoStrandedPusher
    <2>4. CASE PushBlock(t)
      <3>1. queue' = queue /\ \E size \in 0..MaxSize : ~PushPred(size)
        BY <2>4, QueueAssumption DEF PushBlock, data
      <3> QED BY <1>2, <3>1 DEF NoStrandedPusher
    <2>5. CASE TimeoutPush(t) \/ SpuriousPush(t)
      <3>1. pst'[t] \in {"woken", "expired"}
        BY <1>0, <2>5 DEF TimeoutPush, SpuriousPush
      <3> QED BY <3>1 DEF NoStrandedPusher
    <2> QED BY <1>3, <2>1, <2>2, <2>3, <2>4, <2>5 DEF PushStep
  <1>4. ASSUME NEW n \in Nat, pst' \in NotifyN(pst, Pushers, n),
               n > 0 \/ queue = <<>>
        PROVE  NoStrandedPusher'
    <2>0. "woken" \in ThreadStates BY DEF ThreadStates
    <2>1. PICK W \in SUBSET Waiting(pst, Pushers) :
              /\ pst' = Wake(pst, Pushers, W)
              /\ n > 0 /\ Waiting(pst, Pushers) # {} => W # {}
      BY <1>0, <1>4, <2>0, NotifyProperties
    <2>2. Waiting(pst', Pushers) \subseteq Waiting(pst, Pushers)
      BY <1>0, <2>1 DEF Waiting, Wake
    <2>3. ASSUME Waiting(pst', Pushers) # {}
          PROVE  \E u \in Pushers : pst'[u] \in {"woken", "expired"}
      <3>1. Waiting(pst, Pushers) # {} BY <2>2, <2>3
      <3>2. CASE W # {} BY <2>1, <3>2 DEF Wake, Waiting
      <3>3. CASE queue = <<>>
        <4>1. PICK u \in Pushers : pst[u] \in {"woken", "expired"}
          BY <3>1, <3>3 DEF NoStrandedPusher
        <4> QED BY <2>1, <4>1 DEF Wake
      <3> QED BY <1>4, <2>1, <3>1, <3>2, <3>3
    <2> QED BY <2>3 DEF NoStrandedPusher
  <1>5. ASSUME NEW t \in Poppers, PopBody(t) PROVE NoStrandedPusher'
    <2>1. PICK n \in Nat : /\ pst' \in NotifyN(pst, Pushers, n)
                           /\ queue # <<>> => n > 0
      BY <1>5, PopBodyTakes
    <2> QED BY <1>4, <2>1
  <1>6. ASSUME NEW t \in Poppers, TryPop(t) PROVE NoStrandedPusher'
    <2>0. Ttl = 0 BY <1>6 DEF TryPop
    <2>1. PICK k \in 0..Len(queue) :
             /\ LeadingExpired(queue, k, now)
             /\ IF k < Len(queue)
                THEN TakeFront(k + 1, queue[k + 1].id) /\ pst' \in NotifyN(pst, Pushers, 1)
                ELSE TakeFront(k, out) /\ UNCHANGED pst
      BY <1>6 DEF TryPop
    <2>2. CASE k < Len(queue) BY <1>4, <2>1, <2>2
    <2>3. CASE ~(k < Len(queue))
      <3>1. k = 0
        <4>1. ASSUME k # 0 PROVE FALSE
          <5>1. k \in 1..k /\ k \in 1..Len(queue) BY <1>0, <4>1
          <5>2. queue[k].deadline # 0 BY <2>1, <5>1 DEF LeadingExpired, Expired
          <5>3. queue[k].deadline <= 0 BY <2>0, <5>1 DEF DeadlineBound
          <5>4. queue[k].deadline \in Nat BY <1>0, <5>1, EntryFields
          <5> QED BY <5>2, <5>3, <5>4
        <4> QED BY <4>1
      <3>2. queue' = queue /\ pst' = pst
        BY <1>0, <2>1, <2>3, <3>1, DropProperties DEF TakeFront
      <3> QED BY <3>2 DEF NoStrandedPusher
    <2> QED BY <2>2, <2>3
  <1>7. ASSUME NEW t \in Poppers, PurgeExpired(t) PROVE NoStrandedPusher'
    <2>1. Waiting(pst', Pushers) = {}
      BY <1>0, <1>7 DEF PurgeExpired, NotifyAll, Wake, Waiting
    <2> QED BY <2>1 DEF NoStrandedPusher
  <1>8. ASSUME UNCHANGED <<queue, pst>> PROVE NoStrandedPusher'
    BY <1>8 DEF NoStrandedPusher
  <1>9. ASSUME NEW t \in Poppers,
               \/ PopBlock(t) \/ TimeoutPop(t) \/ SpuriousPop(t)
               \/ PopResume(t) /\ ~PopPred
        PROVE  NoStrandedPusher'
    BY <1>8, <1>9 DEF PopBlock, TimeoutPop, SpuriousPop, PopResume, data
  <1>10. CASE Close
    <2>1. Waiting(pst', Pushers) = {}
      BY <1>0, <1>10 DEF Close, NotifyAll, Wake, Waiting
    <2> QED BY <2>1 DEF NoStrandedPusher
  <1>11. CASE Tick \/ UNCHANGED vars BY <1>8, <1>11 DEF Tick, vars, data
  <1> QED BY <1>3, <1>5, <1>6, <1>7, <1>9, <1>10, <1>11
          DEF Next, PopStep, PopNow, PopResume

\* push() loses no wakeup when consumers use pop() and purge_expired(), or
\* messages have no TTL: a waiting pusher never sleeps on an empty queue with
\* nobody coming.  (With try_pop() and a TTL it can: run queue_trypop.)
THEOREM PusherInvariant ==
    ASSUME "try_pop" \notin ConsumerOps \/ Ttl = 0
    PROVE  Spec => []NoStrandedPusher
  <1> DEFINE I == /\ Core /\ DeadlineBound /\ DeadlinesSorted
                  /\ ClosedWakesAll /\ NoStrandedPusher
  <1>1. Init => I
    BY CoreInit DEF Init, DeadlineBound, DeadlinesSorted, ClosedWakesAll,
                    NoStrandedPusher, Waiting
  <1>2. I /\ [Next]_vars => I'
    BY CoreStep, DeadlineStep, ClosedStep, PusherStep
  <1>3. I => NoStrandedPusher OBVIOUS
  <1> QED BY <1>1, <1>2, <1>3, PTL DEF Spec
=============================================================================
