------------------------------- MODULE QosPipe -------------------------------
(***************************************************************************)
(* class QosPipe (src/qos_pipe.cc, include/duct/qos_pipe.h): a Pipe that    *)
(* queues messages in send() and hands them to an underlying Pipe from a   *)
(* worker thread.  One mutex, and one condition variable on which both the *)
(* worker and blocked senders wait.                                        *)
(*                                                                         *)
(* The worker keeps send_mutex_ while it checks the front message and for  *)
(* as long as underlying_->send() takes, so "check" and "sending" are the  *)
(* states in which it holds the lock; everybody else holds it only within  *)
(* one action.  send() tests running_ before it takes the lock and         *)
(* notifies after it has released it: these are steps of their own.        *)
(***************************************************************************)
EXTENDS ByteStream, CondVar

CONSTANTS Senders,        \* threads calling send()
          Worker,         \* send_thread_
          Closers,        \* threads calling close() (the destructor is one)
          Sizes,          \* message sizes in bytes
          UnderlyingMax,  \* largest message the underlying pipe accepts
          Policies,       \* values of qos_.backpressure
          Hwm,            \* qos_.snd_hwm_bytes
          Ttls,           \* values of qos_.ttl (0: disabled)
          MaxMsgs,        \* bound: no send() once so many were accepted
          MaxTime         \* bound: see Tick

ASSUME QosAssumption ==
    /\ IsFiniteSet(Senders) /\ Worker \notin Senders
    /\ Sizes \subseteq Nat /\ UnderlyingMax \in Nat
    /\ Policies \subseteq {"kBlock", "kDropNew", "kDropOld", "kFailFast"}
    /\ Hwm \in Nat /\ Ttls \subseteq Nat /\ MaxMsgs \in Nat /\ MaxTime \in Nat

VARIABLES policy, ttl, \* qos_.backpressure, qos_.ttl
          queue,       \* send_queue_
          send_bytes, send_count,
          running,     \* running_
          now,         \* steady_clock::now(), external
          pc,          \* where each sender and the worker are
          ssize,       \* msg.size() of a send() under way
          cpc,         \* where each close() is
          uclosed,     \* the underlying pipe was closed
          accepted, enqBytes,  \* history: messages and bytes ever queued
          sent         \* history: id of the last message the underlying took

data == <<queue, send_bytes, send_count, accepted, enqBytes, sent>>
config == <<policy, ttl>>
vars == <<config, now, data, running, pc, ssize, cpc, uclosed>>

Threads == Senders \cup {Worker}

Init ==
    /\ policy \in Policies /\ ttl \in Ttls
    /\ queue = <<>> /\ send_bytes = 0 /\ send_count = 0
    /\ running = TRUE /\ uclosed = FALSE /\ now = 1
    /\ pc = [t \in Threads |-> IF t = Worker THEN "top" ELSE "idle"]
    /\ ssize = [s \in Senders |-> 0]
    /\ cpc = [c \in Closers |-> "idle"]
    /\ accepted = 0 /\ enqBytes = 0 /\ sent = 0

\* Nobody holds send_mutex_.
LockFree == pc[Worker] \notin {"check", "sending"}

Move(t, state) == pc' = [pc EXCEPT ![t] = state]
-----------------------------------------------------------------------------
(* send() *)

MutEnqueueQuiet(s, q, bytes, count) ==
    /\ queue' = Append(q, [id |-> accepted + 1, size |-> ssize[s], at |-> enqBytes,
                           deadline |-> IF ttl > 0 THEN now + ttl ELSE 0])
    /\ send_bytes' = bytes + ssize[s] /\ send_count' = count + 1
    /\ accepted' = accepted + 1 /\ enqBytes' = enqBytes + ssize[s]
    /\ Move(s, "idle")
    /\ UNCHANGED <<config, now, running, ssize, cpc, uclosed, sent>>
MutEnqueueOnce(s, q, bytes, count) ==
    /\ queue' = Append(q, [id |-> accepted + 1, size |-> ssize[s], at |-> enqBytes,
                           deadline |-> IF ttl > 0 THEN now + ttl ELSE 0])
    /\ send_bytes' = send_bytes + ssize[s] /\ send_count' = send_count + 1
    /\ accepted' = accepted + 1 /\ enqBytes' = enqBytes + ssize[s]
    /\ Move(s, "notify")
    /\ UNCHANGED <<config, now, running, ssize, cpc, uclosed, sent>>
\* Append the message to q, what is left of send_queue_, and unlock.
Enqueue(s, q, bytes, count) ==
    /\ queue' = Append(q, [id |-> accepted + 1, size |-> ssize[s], at |-> enqBytes,
                           deadline |-> IF ttl > 0 THEN now + ttl ELSE 0])
    /\ send_bytes' = bytes + ssize[s] /\ send_count' = count + 1
    /\ accepted' = accepted + 1 /\ enqBytes' = enqBytes + ssize[s]
    /\ Move(s, "notify")
    /\ UNCHANGED <<config, now, running, ssize, cpc, uclosed, sent>>

MutSendEnter(s) == \E size \in Sizes :
    /\ pc[s] = "idle" /\ accepted < MaxMsgs
    /\ running
    /\ Move(s, "entered")
    /\ ssize' = [ssize EXCEPT ![s] = size]
    /\ UNCHANGED <<config, now, data, running, cpc, uclosed>>
\* The tests before the lock: running_, and the size against the mark.
SendEnter(s) == \E size \in Sizes :
    /\ pc[s] = "idle" /\ accepted < MaxMsgs
    /\ running /\ size <= Hwm
    /\ Move(s, "entered")
    /\ ssize' = [ssize EXCEPT ![s] = size]
    /\ UNCHANGED <<config, now, data, running, cpc, uclosed>>

\* kClosed or kInvalidArgument.
SendRejected(s) == \E size \in Sizes :
    /\ pc[s] = "idle" /\ accepted < MaxMsgs
    /\ ~running \/ size > Hwm
    /\ UNCHANGED vars

\* Below the mark.
SendAdmit(s) ==
    /\ pc[s] = "entered" /\ LockFree /\ send_bytes < Hwm
    /\ Enqueue(s, queue, send_bytes, send_count)

\* At the mark: kFailFast returns an error, kDropNew drops the new message.
SendRefuse(s) ==
    /\ pc[s] = "entered" /\ LockFree /\ send_bytes >= Hwm
    /\ policy \in {"kFailFast", "kDropNew"}
    /\ Move(s, "idle")
    /\ UNCHANGED <<config, now, data, running, ssize, cpc, uclosed>>

\* kDropOld drops the one oldest message, whatever its size.
SendDropOld(s) ==
    /\ pc[s] = "entered" /\ LockFree /\ send_bytes >= Hwm
    /\ policy = "kDropOld"
    /\ LET k == IF queue = <<>> THEN 0 ELSE 1
       IN  Enqueue(s, Drop(queue, k), send_bytes - PrefixBytes(queue, k), send_count - k)

\* kBlock: send_cv_.wait_for() releases the lock.
SendBlock(s) ==
    /\ pc[s] = "entered" /\ LockFree /\ send_bytes >= Hwm
    /\ policy = "kBlock" /\ running
    /\ Move(s, "wait")
    /\ UNCHANGED <<config, now, data, running, ssize, cpc, uclosed>>

\* wait_for() ends: with its predicate true, at its timeout, or at once because
\* the pipe stopped.  Still at the mark: kTimeout; else the message is queued.
SendResume(s) ==
    /\ LockFree
    /\ \/ pc[s] \in {"woken", "expired"}
       \/ pc[s] = "entered" /\ policy = "kBlock" /\ send_bytes >= Hwm /\ ~running
    /\ \/ send_bytes < Hwm /\ Enqueue(s, queue, send_bytes, send_count)
       \/ /\ send_bytes >= Hwm
          /\ Move(s, IF running /\ pc[s] = "woken" THEN "wait" ELSE "idle")
          /\ UNCHANGED <<config, now, data, running, ssize, cpc, uclosed>>

\* The timeout of wait_for(); it is immediate when opt.timeout is zero.
SendTimeout(s) ==
    /\ pc[s] = "wait"
    /\ Move(s, "expired")
    /\ UNCHANGED <<config, now, data, running, ssize, cpc, uclosed>>

\* send_cv_.notify_one(): the worker or a blocked sender.  Return Ok.
SendNotify(s) ==
    /\ pc[s] = "notify"
    /\ pc' \in NotifyN([pc EXCEPT ![s] = "idle"], Threads, 1)
    /\ UNCHANGED <<config, now, data, running, ssize, cpc, uclosed>>

\* A waiter may wake without a notification.
Spurious(t) ==
    /\ pc[t] = "wait"
    /\ Move(t, "woken")
    /\ UNCHANGED <<config, now, data, running, ssize, cpc, uclosed>>
-----------------------------------------------------------------------------
(* send_worker() *)

MutTakeFront(k) ==
    /\ queue' = SubSeq(queue, 1, Len(queue) - k)
    /\ send_bytes' = send_bytes - PrefixBytes(queue, k)
    /\ send_count' = send_count - k
\* Take k messages off the front of send_queue_.
TakeFront(k) ==
    /\ queue' = Drop(queue, k)
    /\ send_bytes' = send_bytes - PrefixBytes(queue, k)
    /\ send_count' = send_count - k

\* The head of the loop: running_, the lock, the wait predicate, the TTL purge.
WorkerLoop ==
    /\ pc[Worker] \in {"top", "woken"} /\ LockFree
    /\ \/ ~running /\ Move(Worker, "done") /\ UNCHANGED data
       \/ running /\ queue = <<>> /\ Move(Worker, "wait") /\ UNCHANGED data
       \/ /\ running /\ queue # <<>>
          /\ \E k \in 0..Len(queue) :
                /\ LeadingExpired(queue, k, now)
                /\ TakeFront(k)
                /\ Move(Worker, IF k = Len(queue) THEN "top" ELSE "check")
          /\ UNCHANGED <<accepted, enqBytes, sent>>
    /\ UNCHANGED <<config, now, running, ssize, cpc, uclosed>>

\* can_send_message() reads the clock again, and the mark.
WorkerCheck ==
    /\ pc[Worker] = "check"
    /\ Move(Worker, IF Expired(queue[1], now) \/ send_bytes >= Hwm
                    THEN "nap" ELSE "sending")
    /\ UNCHANGED <<config, now, data, running, ssize, cpc, uclosed>>

\* underlying_->send() took the front message.
SendOk ==
    /\ pc[Worker] = "sending" /\ queue[1].size <= UnderlyingMax
    /\ TakeFront(1) /\ sent' = queue[1].id
    /\ Move(Worker, "top")
    /\ UNCHANGED <<config, now, accepted, enqBytes, running, ssize, cpc, uclosed>>

\* It failed with kClosed or kIoError: the loop ends.
SendFatal ==
    /\ pc[Worker] = "sending"
    /\ running' = FALSE
    /\ Move(Worker, "done")
    /\ UNCHANGED <<config, now, data, ssize, cpc, uclosed>>

\* It failed in any other way (kTimeout, kInvalidArgument...): the message stays.
SendKeep ==
    /\ pc[Worker] = "sending"
    /\ Move(Worker, "top")
    /\ UNCHANGED <<config, now, data, running, ssize, cpc, uclosed>>

\* sleep_for(1ms), unlocked.
WorkerNap ==
    /\ pc[Worker] = "nap"
    /\ Move(Worker, "top")
    /\ UNCHANGED <<config, now, data, running, ssize, cpc, uclosed>>
-----------------------------------------------------------------------------
(* close() *)

CloseEnter(c) ==
    /\ cpc[c] = "idle"
    /\ cpc' = [cpc EXCEPT ![c] = "entered"]
    /\ UNCHANGED <<config, now, data, running, pc, ssize, uclosed>>

MutCloseLock(c) ==
    /\ cpc[c] = "entered"
    /\ running' = FALSE
    /\ cpc' = [cpc EXCEPT ![c] = "notify"]
    /\ UNCHANGED <<config, now, data, pc, ssize, uclosed>>
CloseLock(c) ==
    /\ cpc[c] = "entered" /\ LockFree
    /\ running' = FALSE
    /\ cpc' = [cpc EXCEPT ![c] = "notify"]
    /\ UNCHANGED <<config, now, data, pc, ssize, uclosed>>

MutCloseNotify(c) ==
    /\ cpc[c] = "notify"
    /\ cpc' = [cpc EXCEPT ![c] = "uclose"]
    /\ UNCHANGED <<config, now, data, running, pc, ssize, uclosed>>
CloseNotify(c) ==
    /\ cpc[c] = "notify"
    /\ pc' = NotifyAll(pc, Threads)
    /\ cpc' = [cpc EXCEPT ![c] = "uclose"]
    /\ UNCHANGED <<config, now, data, running, ssize, uclosed>>

CloseUnderlying(c) ==
    /\ cpc[c] = "uclose"
    /\ uclosed' = TRUE
    /\ cpc' = [cpc EXCEPT ![c] = "closed"]
    /\ UNCHANGED <<config, now, data, running, pc, ssize>>

\* The clock stops at MaxTime, or later if a queued message is still to expire.
Tick ==
    /\ now < MaxTime \/ \E i \in 1..Len(queue) : queue[i].deadline >= now
    /\ now' = now + 1
    /\ UNCHANGED <<config, data, running, pc, ssize, cpc, uclosed>>

\* The steps of send() that begin by acquiring send_mutex_.
SendLocked(s) == \/ SendAdmit(s) \/ SendRefuse(s) \/ SendDropOld(s) \/ SendBlock(s)
                 \/ SendResume(s)
SendStep(s) == \/ SendEnter(s) \/ SendRejected(s) \/ SendLocked(s) \/ SendTimeout(s)
               \/ SendNotify(s)
WorkerStep == \/ WorkerLoop \/ WorkerCheck \/ SendOk \/ SendFatal \/ SendKeep
              \/ WorkerNap
CloseStep(c) == CloseEnter(c) \/ CloseLock(c) \/ CloseNotify(c) \/ CloseUnderlying(c)

Next == \/ \E s \in Senders : SendStep(s)
        \/ WorkerStep
        \/ \E c \in Closers : CloseStep(c)
        \/ \E t \in Threads : Spurious(t)
        \/ Tick

Spec == Init /\ [][Next]_vars

\* Threads run, time passes, and a thread that asks for send_mutex_ gets it if the
\* mutex is free again and again.  The underlying send() returns, and succeeds if
\* it is tried long enough.  Nothing is asked of a send() before its notify_one().
WorkerFairSpec ==
    /\ Spec
    /\ \A s \in Senders : WF_vars(SendNotify(s))
    /\ \A c \in Closers :
          SF_vars(CloseLock(c)) /\ WF_vars(CloseNotify(c)) /\ WF_vars(CloseUnderlying(c))
    /\ WF_vars(WorkerLoop \/ WorkerCheck \/ WorkerNap)
    /\ WF_vars(SendOk \/ SendFatal \/ SendKeep) /\ SF_vars(SendOk)
    /\ WF_vars(Tick)

\* Senders are scheduled too: they get the mutex, and wait_for() ends at its
\* deadline however often it wakes before.
FairSpec ==
    /\ WorkerFairSpec
    /\ \A s \in Senders : SF_vars(SendLocked(s)) /\ SF_vars(SendTimeout(s))
-----------------------------------------------------------------------------
(* Properties *)

\* send_bytes_ and send_count_ are the bytes and messages in send_queue_.
QueueAccounting ==
    EndOfStream(queue, send_bytes, enqBytes) /\ send_count = Len(queue)

\* The mark is exceeded by less than itself, except under kDropOld, which makes
\* room for a large message by dropping one, however small; but there too no more
\* messages are queued than the mark has bytes, unless some are empty.
HwmBound ==
    /\ policy # "kDropOld" => send_bytes = 0 \/ send_bytes < 2 * Hwm
    /\ 0 \notin Sizes => Len(queue) <= Hwm

\* The underlying pipe gets messages in the order they were accepted, none
\* twice; without TTL and kDropOld the queue holds exactly the accepted ones
\* that it has not taken.
InOrder ==
    /\ \A i \in 1..Len(queue) : queue[i].id = accepted - Len(queue) + i
    /\ Len(queue) <= accepted - sent
    /\ ttl = 0 /\ policy # "kDropOld" => Len(queue) = accepted - sent

\* The worker never uses the underlying pipe once close() has closed it, and
\* inside underlying_->send() it holds a front message to send.
NoUseAfterClose ==
    pc[Worker] \in {"check", "sending"} => ~uclosed /\ running /\ queue # <<>>

\* No lost wakeup: when the worker sleeps on send_cv_ although there is a
\* message or the pipe stopped, somebody is about to notify it.  Under kBlock
\* senders wait there too and may be notified in its place: send() calls
\* notify_one(), and the worker may sleep on with a message queued.
WorkerAwake ==
    policy # "kBlock" /\ pc[Worker] = "wait" /\ (queue # <<>> \/ ~running) =>
        \/ \E s \in Senders : pc[s] = "notify"
        \/ \E c \in Closers : cpc[c] = "notify"

\* close() returns and the worker ends, so that the destructor can join it.
CloseCompletes ==
    \A c \in Closers : cpc[c] = "entered" ~> cpc[c] = "closed" /\ pc[Worker] = "done"

\* What is queued is sent or expires, unless the pipe stops.
QueueDrains == queue # <<>> ~> queue = <<>> \/ ~running

\* A blocked sender has the notification that was meant for the worker.
Robbed ==
    /\ policy = "kBlock" /\ queue # <<>>
    /\ pc[Worker] = "wait" /\ \A s \in Senders : pc[s] # "notify"

\* The worker finds its own queue at the mark, and nothing in it expires.
Wedged == ttl = 0 /\ send_bytes >= Hwm

\* The queue drains but in these two cases: the worker's loop of waiting, purging,
\* napping and retrying gets no message stuck, whatever senders do meanwhile.
DrainsOtherwise == queue # <<>> ~> queue = <<>> \/ ~running \/ Robbed \/ Wedged
=============================================================================
