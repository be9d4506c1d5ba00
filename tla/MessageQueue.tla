---------------------------- MODULE MessageQueue ----------------------------
(***************************************************************************)
(* class MessageQueue (src/queue.cc, include/duct/queue.h): a FIFO of      *)
(* messages bounded in bytes by a high water mark, shared by threads that  *)
(* push and threads that pop, with one mutex and two condition variables.  *)
(*                                                                         *)
(* Every method runs under mu_ from its first line to its return, except   *)
(* while it waits on a condition variable, so each action is one stretch   *)
(* of code between acquiring mu_ and returning or waiting.  A waiter is    *)
(* "wait" until it is notified (or woken spuriously), then "woken": it has *)
(* left the condition variable and contends for mu_.  A waiter whose       *)
(* timeout has passed is "expired".                                        *)
(*                                                                         *)
(* Definitions called Mut... are faults seeded into the definition that    *)
(* follows; no specification uses them.                                    *)
(***************************************************************************)
EXTENDS ByteStream, CondVar

CONSTANTS Pushers,      \* threads calling push()
          Poppers,      \* threads calling pop(), try_pop() or purge_expired()
          ConsumerOps,  \* which of these the Poppers call
          Sizes,        \* message sizes in bytes
          MaxSize,      \* the largest of them
          Policies,     \* BackpressurePolicy values the queue is built with
          Hwm,          \* hwm_bytes_ (0: no limit)
          Ttl,          \* ttl_ (0: messages do not expire)
          MaxMsgs,      \* bound: push() is not called once so many were accepted
          MaxTime       \* bound: the clock stops here

ASSUME QueueAssumption ==
    /\ IsFiniteSet(Pushers) /\ IsFiniteSet(Poppers)
    /\ ConsumerOps \subseteq {"pop", "try_pop", "purge_expired"}
    /\ MaxSize \in Nat \ {0} /\ Sizes \subseteq 0..MaxSize
    /\ Policies \subseteq {"kBlock", "kDropNew", "kDropOld", "kFailFast"}
    /\ Hwm \in Nat /\ Ttl \in Nat /\ MaxMsgs \in Nat /\ MaxTime \in Nat

VARIABLES policy,       \* policy_
          queue,        \* queue_
          total_bytes,  \* total_bytes_
          closed,       \* closed_
          now,          \* steady_clock::now(), external
          pst, psize, ptimed,   \* pusher: where it is, msg.size(), timeout > 0
          cst, ctimed,          \* popper: where it is, timeout > 0
          accepted, enqBytes,   \* history: messages and bytes ever enqueued
          out                   \* history: id of the last message handed out

data == <<queue, total_bytes, accepted, enqBytes, out>>
pcall == <<psize, ptimed>>
vars == <<policy, now, closed, data, pst, pcall, cst, ctimed>>

ThreadStates == {"idle", "wait", "woken", "expired"}

Init ==
    /\ policy \in Policies
    /\ queue = <<>> /\ total_bytes = 0 /\ closed = FALSE
    /\ now = 1
    /\ pst = [t \in Pushers |-> "idle"]
    /\ psize = [t \in Pushers |-> 0]
    /\ ptimed = [t \in Pushers |-> FALSE]
    /\ cst = [t \in Poppers |-> "idle"]
    /\ ctimed = [t \in Poppers |-> FALSE]
    /\ accepted = 0 /\ enqBytes = 0 /\ out = 0
-----------------------------------------------------------------------------
MutHasSpace(bytes) == Hwm = 0 \/ bytes <= Hwm
\* has_space_unlocked()
HasSpace(bytes) == Hwm = 0 \/ bytes < Hwm

\* push() meets the high water mark and has to apply the policy.
AtHwm(size) == ~HasSpace(total_bytes) \/ (total_bytes + size > Hwm /\ Hwm > 0)

\* The predicate a kBlock push() waits for.
PushPred(size) == \/ closed \/ HasSpace(total_bytes)
                  \/ Hwm = 0 \/ total_bytes + size <= Hwm

-----------------------------------------------------------------------------
(* push() *)

Message(size) == [id |-> accepted + 1, size |-> size, at |-> enqBytes,
                  deadline |-> IF Ttl > 0 THEN now + Ttl ELSE 0]

MutEnqueueFront(t, size, q, bytes) ==
    /\ queue' = <<Message(size)>> \o q
    /\ total_bytes' = bytes + size
    /\ accepted' = accepted + 1
    /\ enqBytes' = enqBytes + size
    /\ cst' \in NotifyN(cst, Poppers, 1)
    /\ pst' = [pst EXCEPT ![t] = "idle"]
    /\ UNCHANGED <<policy, now, closed, pcall, ctimed, out>>
MutEnqueueSilent(t, size, q, bytes) ==
    /\ queue' = Append(q, Message(size))
    /\ total_bytes' = bytes + size
    /\ accepted' = accepted + 1
    /\ enqBytes' = enqBytes + size
    /\ IF q = <<>> THEN cst' \in NotifyN(cst, Poppers, 1) ELSE UNCHANGED cst
    /\ pst' = [pst EXCEPT ![t] = "idle"]
    /\ UNCHANGED <<policy, now, closed, pcall, ctimed, out>>
\* The tail of push(): stamp the message, append it to q (what is left of
\* queue_, holding `bytes'), notify one popper, return Ok.
Enqueue(t, size, q, bytes) ==
    /\ queue' = Append(q, Message(size))
    /\ total_bytes' = bytes + size
    /\ accepted' = accepted + 1
    /\ enqBytes' = enqBytes + size
    /\ cst' \in NotifyN(cst, Poppers, 1)
    /\ pst' = [pst EXCEPT ![t] = "idle"]
    /\ UNCHANGED <<policy, now, closed, pcall, ctimed, out>>

\* A thread may call push().
PushCall(t) == pst[t] = "idle" /\ accepted < MaxMsgs

\* push() below the high water mark, or at it with the kBlock predicate true:
\* has_space_unlocked() lets a message in that does not fit entirely.
PushNow(t) == \E size \in Sizes :
    /\ PushCall(t) /\ ~closed
    /\ ~AtHwm(size) \/ (policy = "kBlock" /\ PushPred(size))
    /\ Enqueue(t, size, queue, total_bytes)

\* kDropOld at the mark: drop_oldest_unlocked() until there is space again.
PushDropOld(t) == \E size \in Sizes : \E k \in 0..Len(queue) :
    /\ PushCall(t) /\ ~closed /\ policy = "kDropOld" /\ AtHwm(size)
    /\ HasSpace(total_bytes - PrefixBytes(queue, k)) \/ k = Len(queue)
    /\ \A j \in 0..(k - 1) : ~HasSpace(total_bytes - PrefixBytes(queue, j))
    /\ Enqueue(t, size, Drop(queue, k), total_bytes - PrefixBytes(queue, k))

\* kClosed, a message dropped silently (kDropNew), or EAGAIN (kFailFast).
PushRefused(t) == \E size \in Sizes :
    /\ PushCall(t)
    /\ closed \/ (policy \in {"kDropNew", "kFailFast"} /\ AtHwm(size))
    /\ UNCHANGED vars

\* kBlock: not_full_cv_.wait() or wait_for().
PushBlock(t) == \E size \in Sizes, timed \in BOOLEAN :
    /\ PushCall(t) /\ policy = "kBlock" /\ AtHwm(size) /\ ~PushPred(size)
    /\ pst' = [pst EXCEPT ![t] = "wait"]
    /\ psize' = [psize EXCEPT ![t] = size]
    /\ ptimed' = [ptimed EXCEPT ![t] = timed]
    /\ UNCHANGED <<policy, now, closed, data, cst, ctimed>>

\* A push() leaves the condition variable and evaluates its predicate under
\* mu_: enqueue, return kClosed, wait again, or return kTimeout.
PushResume(t) ==
    /\ pst[t] \in {"woken", "expired"}
    /\ \/ PushPred(psize[t]) /\ ~closed /\ Enqueue(t, psize[t], queue, total_bytes)
       \/ /\ closed \/ ~PushPred(psize[t])
          /\ pst' = [pst EXCEPT ![t] =
                        IF ~closed /\ pst[t] = "woken" THEN "wait" ELSE "idle"]
          /\ UNCHANGED <<policy, now, closed, data, pcall, cst, ctimed>>
-----------------------------------------------------------------------------
(* pop(), try_pop(), purge_expired() *)

\* Take k messages off the front; id is that of the message handed out.
TakeFront(k, id) ==
    /\ queue' = Drop(queue, k)
    /\ total_bytes' = total_bytes - PrefixBytes(queue, k)
    /\ out' = id
    /\ UNCHANGED <<policy, now, closed, pcall, ctimed, accepted, enqBytes>>

MutPopBodyQuiet(t) == \E k \in 0..Len(queue) :
    /\ LeadingExpired(queue, k, now)
    /\ IF k < Len(queue)
       THEN TakeFront(k + 1, queue[k + 1].id) /\ pst' \in NotifyN(pst, Pushers, 1)
       ELSE TakeFront(k, out) /\ UNCHANGED pst
    /\ cst' = [cst EXCEPT ![t] = "idle"]
\* pop() once its predicate holds: skip expired messages, notifying a pusher
\* for each, and hand out the next one; without one return kClosed or
\* kTimeout ("all messages expired").
PopBody(t) == \E k \in 0..Len(queue) :
    /\ LeadingExpired(queue, k, now)
    /\ IF k < Len(queue)
       THEN TakeFront(k + 1, queue[k + 1].id) /\ pst' \in NotifyN(pst, Pushers, k + 1)
       ELSE TakeFront(k, out) /\ pst' \in NotifyN(pst, Pushers, k)
    /\ cst' = [cst EXCEPT ![t] = "idle"]

PopPred == closed \/ queue # <<>>

PopNow(t) == "pop" \in ConsumerOps /\ cst[t] = "idle" /\ PopPred /\ PopBody(t)

PopBlock(t) == \E timed \in BOOLEAN :
    /\ "pop" \in ConsumerOps /\ cst[t] = "idle" /\ ~PopPred
    /\ cst' = [cst EXCEPT ![t] = "wait"]
    /\ ctimed' = [ctimed EXCEPT ![t] = timed]
    /\ UNCHANGED <<policy, now, closed, data, pst, pcall>>

\* A pop() leaves the condition variable: serve, wait again, or return kTimeout.
PopResume(t) ==
    /\ cst[t] \in {"woken", "expired"}
    /\ \/ PopPred /\ PopBody(t)
       \/ /\ ~PopPred
          /\ cst' = [cst EXCEPT ![t] = IF cst[t] = "woken" THEN "wait" ELSE "idle"]
          /\ UNCHANGED <<policy, now, closed, data, pst, pcall, ctimed>>

\* try_pop(): the skip loop notifies nobody.
TryPop(t) == \E k \in 0..Len(queue) :
    /\ "try_pop" \in ConsumerOps /\ cst[t] = "idle"
    /\ LeadingExpired(queue, k, now)
    /\ IF k < Len(queue)
       THEN TakeFront(k + 1, queue[k + 1].id) /\ pst' \in NotifyN(pst, Pushers, 1)
       ELSE TakeFront(k, out) /\ UNCHANGED pst
    /\ UNCHANGED cst

\* purge_expired() erases every expired message.  Deadlines grow along the
\* queue (DeadlinesSorted), so they are the leading ones.
PurgeExpired(t) == \E k \in 0..Len(queue) :
    /\ "purge_expired" \in ConsumerOps /\ cst[t] = "idle"
    /\ Ttl # 0 /\ LeadingExpired(queue, k, now) /\ k > 0
    /\ TakeFront(k, out)
    /\ pst' = NotifyAll(pst, Pushers)
    /\ UNCHANGED cst
-----------------------------------------------------------------------------
MutClose ==
    /\ closed' = TRUE
    /\ pst' \in NotifyN(pst, Pushers, 1)
    /\ cst' = NotifyAll(cst, Poppers)
    /\ UNCHANGED <<policy, now, data, pcall, ctimed>>
\* close()
Close ==
    /\ closed' = TRUE
    /\ pst' = NotifyAll(pst, Pushers)
    /\ cst' = NotifyAll(cst, Poppers)
    /\ UNCHANGED <<policy, now, data, pcall, ctimed>>

\* wait_for() reaches its timeout: the waiter leaves the condition variable.
TimeoutPush(t) ==
    /\ pst[t] = "wait" /\ ptimed[t]
    /\ pst' = [pst EXCEPT ![t] = "expired"]
    /\ UNCHANGED <<policy, now, closed, data, pcall, cst, ctimed>>

TimeoutPop(t) ==
    /\ cst[t] = "wait" /\ ctimed[t]
    /\ cst' = [cst EXCEPT ![t] = "expired"]
    /\ UNCHANGED <<policy, now, closed, data, pst, pcall, ctimed>>

\* std::condition_variable may wake a waiter that nobody notified.
SpuriousPush(t) ==
    /\ pst[t] = "wait"
    /\ pst' = [pst EXCEPT ![t] = "woken"]
    /\ UNCHANGED <<policy, now, closed, data, pcall, cst, ctimed>>

SpuriousPop(t) ==
    /\ cst[t] = "wait"
    /\ cst' = [cst EXCEPT ![t] = "woken"]
    /\ UNCHANGED <<policy, now, closed, data, pst, pcall, ctimed>>

Tick ==
    /\ now < MaxTime
    /\ now' = now + 1
    /\ UNCHANGED <<policy, closed, data, pst, pcall, cst, ctimed>>

PushStep(t) == \/ PushNow(t) \/ PushDropOld(t) \/ PushRefused(t) \/ PushBlock(t)
               \/ PushResume(t) \/ TimeoutPush(t) \/ SpuriousPush(t)

PopStep(t) == \/ PopNow(t) \/ PopBlock(t) \/ PopResume(t) \/ TryPop(t)
              \/ PurgeExpired(t) \/ TimeoutPop(t) \/ SpuriousPop(t)

Next == \/ \E t \in Pushers : PushStep(t)
        \/ \E t \in Poppers : PopStep(t)
        \/ Close
        \/ Tick

Spec == Init /\ [][Next]_vars

\* A thread that left the condition variable gets mu_ at last (every holder
\* releases it), a timed wait ends at its deadline however often it wakes
\* before, and consumers keep calling.
Fairness ==
    /\ \A t \in Pushers : WF_vars(PushResume(t)) /\ SF_vars(TimeoutPush(t))
    /\ \A t \in Poppers : /\ WF_vars(PopResume(t)) /\ SF_vars(TimeoutPop(t))
                          /\ WF_vars(PopNow(t)) /\ WF_vars(TryPop(t))

FairSpec == Spec /\ Fairness
-----------------------------------------------------------------------------
(* Properties *)

\* Every variable has its type; sizes never underflow.
TypeOK ==
    /\ policy \in Policies /\ closed \in BOOLEAN /\ now \in Nat
    /\ queue \in Seq(Entry) /\ total_bytes \in Nat
    /\ pst \in [Pushers -> ThreadStates] /\ cst \in [Poppers -> ThreadStates]
    /\ psize \in [Pushers -> 0..MaxSize] /\ ptimed \in [Pushers -> BOOLEAN]
    /\ ctimed \in [Poppers -> BOOLEAN]
    /\ accepted \in Nat /\ enqBytes \in Nat /\ out \in Nat

\* The queued messages are a contiguous run of the accepted byte stream that
\* ends where the stream ends, and total_bytes_ is its length: whatever mix of
\* pops, skips, purges and drops took place, every byte was counted once.
StreamAccounting == EndOfStream(queue, total_bytes, enqBytes)

\* The high water mark bounds the bytes held: exactly under kDropNew and
\* kFailFast; kBlock and kDropOld admit a message as soon as there is any space
\* (has_space_unlocked), so they may exceed it by less than one message.
HwmRespected ==
    Hwm > 0 => total_bytes <= IF policy \in {"kDropNew", "kFailFast"}
                              THEN Hwm ELSE Hwm + MaxSize - 1

\* Messages leave in the order they were accepted, each at most once, and
\* without a TTL and without kDropOld none is lost: the queue holds exactly
\* those accepted after the last one handed out.
FifoNoLoss ==
    /\ out <= accepted
    /\ \A i \in 1..Len(queue) : queue[i].id = accepted - Len(queue) + i
    /\ Len(queue) <= accepted - out
    /\ Ttl = 0 /\ policy # "kDropOld" => Len(queue) = accepted - out

\* Deadlines grow along the queue although push() may have waited before it
\* stamped the message: skipping from the front finds every expired message.
DeadlinesSorted ==
    \A i, j \in 1..Len(queue) : i < j => queue[i].deadline <= queue[j].deadline

\* No lost wakeup for push(): while a pusher waits on not_full_cv_ there is a
\* message whose removal will notify, or a pusher already on its way.
NoStrandedPusher ==
    Waiting(pst, Pushers) # {} =>
        queue # <<>> \/ \E t \in Pushers : pst[t] \in {"woken", "expired"}

\* No lost wakeup for pop(): while a popper waits on not_empty_cv_ there are
\* at least as many poppers on their way as there are messages.
NoStrandedPopper ==
    Waiting(cst, Poppers) # {} =>
        Len(queue) <= Cardinality({t \in Poppers : cst[t] \in {"woken", "expired"}})

\* close() releases every waiter, and nobody starts to wait afterwards.
ClosedWakesAll ==
    closed => Waiting(pst, Pushers) = {} /\ Waiting(cst, Poppers) = {}

\* A push() that blocked returns: "blocks until space is available or timeout".
BlockedPushReturns == \A t \in Pushers : pst[t] = "wait" ~> pst[t] = "idle"
=============================================================================
