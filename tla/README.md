# A TLA+ verification of duct

duct is a C++ library for message passing between processes and threads: `dial()`
and `listen()` give pipes over TCP, Unix sockets, Windows named pipes or shared
memory, with optional queueing (QoS) and reconnection on top. This directory holds
TLA+ models of its components, TLC configurations that check them on small
instances, and TLAPS proofs for every size of instance. `PROJECT.json` lists
components, runs, the source lines behind each definition, hazards and findings.

    tlc -workers 2 -config MCMessageQueue_safety.cfg MCMessageQueue
    tlapm MessageQueueProofs.tla

## 1. Inventory

| component | state | operations | what is hard about it |
|---|---|---|---|
| MessageQueue (`src/queue.cc`) | deque, `total_bytes_`, `closed_`, two condition variables | push (4 policies), pop, try_pop, purge_expired, close | lost wakeups, byte accounting over five removal paths, TTL against waiting |
| QosPipe (`src/qos_pipe.cc`) | `send_queue_`, `send_bytes_`, `send_count_`, `running_`, worker thread | send, worker loop, close, destructor | one condition variable for two kinds of waiter, network I/O under the mutex |
| ReconnectPipe (`src/reconnect_pipe.cc`) | `inner_`, `closed_`, `permanently_failed_`, `state_`, worker thread | send/recv loop, worker loop, close, callbacks | stale errors, state set outside the critical section, close against dial |
| shm ring (`src/shm_transport.cc`, `src/win_shm.cc`) | slots, `head`, `tail`, two semaphores per direction | send, recv, close | no lock at all, wraparound, crash between two steps |
| shm bootstrap and listener (`shm_transport.cc`, `win_shm.cc`) | named segment and semaphores, rendezvous socket or pipe | create, open, accept, dial, unlink | failures and crashes between two names, unlinking by name, a client that has gone before accept() |
| wire framing (`src/wire.cc`) | none | write_frame, read_frame, header checks | short reads and writes, a frame cut anywhere |
| tcp, uds, named pipe transports | a descriptor | dial, listen, accept, send, recv, close | close against a blocked accept(), stale paths, ignored timeouts, oversized frames |
| dial/listen, address (`duct.cc`, `address.cc`) | none | parse, dispatch, wrap | — |
| EventLoop, Channel (`async.h`) | pipes, mutex, thread; queue, condition variable | add_pipe, run, runInBackground, stop; send, recv, try_recv, close | I/O and stop()'s join under the mutex; one notification per message |
| background server (`async.h`) | listener, thread | accept loop, stop function | a close() that has to wake accept() |
| produce_loop, consume_loop (`convenience.h`) | none | send or receive until an error | kClosed as a normal end |
| StateCallbackPipe | `closed_`, `disconnected_` | send, recv, close | once-only callbacks |
| logging, metrics, status, message, raii, utils | little or none | wrapping, formatting | — |

Interactions: `dial()` wraps a transport's pipe in a QosPipe unless the options turn
it off, so QosPipe calls `send()` of a transport from its worker; ReconnectPipe calls
`dial_once_()` and the inner pipe; `async_send()` calls `send()` from a new thread per
message; EventLoop calls `recv()` of the pipes it is given and the application's callback,
which may feed a Channel; the background server calls `accept()` until its stop function
closes the listener; MessageQueue is a building block that nothing else in `src/` calls.

Notes on the build: the CMake file does not compile `queue.cc`, `reconnect_pipe.cc`,
`state_callback_pipe.cc`, `uds_transport.cc`, `socket_utils.cc` and `logging.cc`, and
`dial()` does not look at `opt.reconnect` or `opt.on_state_change`. The models take
these classes as they are written.

## 2. Modules

| module | models | extends |
|---|---|---|
| `ByteStream` | the byte counter and the TTL test shared by both queues | |
| `CondVar` | `std::condition_variable` (external) | |
| `MessageQueue` | class MessageQueue | ByteStream, CondVar |
| `QosPipe` | class QosPipe over any pipe | ByteStream, CondVar |
| `ReconnectPipe` | class ReconnectPipe over any dialler | CondVar |
| `BoundedFifo` | abstract: what one direction of a pipe promises | |
| `ShmRing` | one direction of ShmPipe; implements BoundedFifo | instances BoundedFifo |
| `StreamPipe` | one direction of TcpPipe, UdsPipe, NamedPipePipe with wire.cc's frames, between produce_loop() and consume_loop() or EventLoop; implements BoundedFifo | instances BoundedFifo |
| `DialListen` | parse, dispatch, listen, accept, dial and close of all five transports, with the named objects of shared memory | |
| `EventLoop` | class EventLoop, feeding a Channel | CondVar |
| `MC*` | finite instances for TLC | |
| `ByteStreamProofs` | lemmas on byte streams, queues and condition variables | ByteStream, CondVar, TLAPS |
| `MessageQueueProofs`, `QosPipeProofs`, `EventLoopProofs` | theorems | the module they are about, ByteStreamProofs |
| `ReconnectPipeProofs`, `ShmRingProofs`, `StreamPipeProofs`, `DialListenProofs` | theorems | the module they are about, TLAPS |

Definitions whose name begins with `Mut` are faults: a run must fail when one takes
the place of the definition that follows it. No specification uses them.

**Granularity.** A critical section is one action. What the code does without the
lock is a step of its own: QosPipe tests `running_` before it locks and notifies after
it has unlocked; ReconnectPipe does I/O, dials and sets `state_` between
critical sections; the shm ring has no lock, so there every visible access to memory
or a semaphore is an action. In StreamPipe and DialListen a step is a system call that
another process can see. EventLoop's round is a step per pipe, since it holds the mutex
while recv() blocks; a Channel's methods never block inside their mutex, and are one step.

**Condition variables.** A waiter is in state `wait`. `notify_one` moves any one of
them, `notify_all` all of them, to `woken`: they have left the condition variable and
compete for the mutex with everybody else. A `Spurious` action wakes a waiter without
reason, and a timeout makes it `expired`. The predicate is evaluated when the waiter
has the mutex again.

**Data.** A message is its size and its number in the order of acceptance (queues) or
a length and a value (ring). A queued message carries its offset `at` in the stream of
all bytes accepted, so that "the bytes of the first k messages" is a difference of
offsets: `StreamAccounting` and `QueueAccounting` say the counter is exactly that. Purging
removes the *leading* expired messages although the code scans the whole deque:
`DeadlinesSorted`, checked and proved, is why these are the same in MessageQueue, and
`PurgeFindsAll`, proved, in QosPipe.

### State and code

* `MessageQueue`: `queue`, `total_bytes`, `closed`, `policy` are the members; `pst`/`cst`
  say where each pushing or popping thread is; `accepted`, `enqBytes`, `out` are history.
* `QosPipe`: members as above; the worker's `pc` is `check` or `sending` exactly while it
  holds `send_mutex_`, which is what `LockFree` tests. The underlying pipe is the
  nondeterminism of `SendOk`, `SendFatal`, `SendKeep`; it never accepts a message over
  `UnderlyingMax`.
* `ReconnectPipe`: connections are numbered; `conn[t]` is the snapshot or the
  `inner_to_close` of a thread; `shut` and `broken` are history. `send()` and `recv()`
  share one model since their loops are the same.
* `ShmRing`: `head` and `tail` wrap at `CounterMod` (2^32 in the code, assumed to be a
  multiple of `kSlotCount`, as 64 is). `Chan` reads the messages between `tail` and
  `head` off the slots; it is the refinement mapping. A side may `Close` when none of its
  threads is in a call, and may `Crash` at any step.
* `StreamPipe`: `wire` holds what each write put on its way. A frame is a header of two
  units, magic and length, and its payload; a socket carries one unit per call, which is
  the worst that short reads and writes can do, and a named pipe in message mode carries
  header and payload as one message each. `sent` is history: the payloads promised, that
  is, sent with Ok and not too long for a frame. `Missing`, what was promised and not
  received, is the refinement mapping. `reader` chooses who receives: consume_loop() stops at the
  first error, EventLoop passes over all but kClosed. TCP, Unix socket and named pipe differ where the code does:
  poll() before each call (UDS with a timeout), the size check on sending (not in
  NamedPipePipe), SIGPIPE, resets.
* `DialListen`: `lst`, `acc` and `cli` say where each listener, its accepting thread and
  each client is; `inst` and `queue` are the kernel's listening objects and the
  connections they hold, `path` what the file system's name leads to, `names` the POSIX
  segment and semaphores with their creator, `fds` every descriptor, handle and mapping.
  `cli[c].k` counts semaphores created or unlinked, or addresses of a host tried.
  A Unix socket's bootstrap read, the renewal of the one Windows pipe instance and the
  semaphores, created one after the other even after one has failed, are steps of their own.
  `acc[l]` in state `out` has the client that the last accept() returned a pipe for. The accept
  loop is the background server's: it calls accept() again after a success, unless the
  stop function has run, and ends at the first error.
* `EventLoop`: `pipes_`, `running_`, `queue_`, `closed_` are the members, `mutex` the
  holder of `mutex_`. A pipe outside `Honours` does not return from recv() before there
  is something to return, as TcpPipe. A message of a `Chatty` pipe may be one that the callback
  keeps to itself: it is received as it arrives and leaves no trace but `has_activity`.

## 3. Runs

| run | instance | shows |
|---|---|---|
| `queue_safety` | 2 pushers, 2 consumers, every policy and operation, TTL 1 | byte counter, mark, order of messages and deadlines, wakeups of pop() and close() |
| `queue_live` | 2 pushers, kBlock, TTL, consumers that pop() or purge | no push() sleeps on an empty queue, blocked pushes return |
| `qos` | 2 senders, worker, close(), every policy, TTL 0 and 1, sizes below, at and above the mark | counters, bound of the queue, order, no use of the closed pipe, a worker that does not sleep on work; close() and worker end, the queue drains but for the two cases that `qos_wedge` and `qos_steal` show |
| `shm_ring` | 1 sender, 1 receiver, 2 slots, wrapping counters, timeouts, close and crash of either side | slots conserved, no overwrite, refinement of the fair `BoundedFifo`, send() returns |
| `reconnect` | 2 users, worker, 2 closers, 2 connections, 1 attempt a round | ownership of connections, late errors, wakeups, close() joins, waiters released, reconnection |
| `stream` | 3 transports, payloads of 0 to 3 units (2 is the maximum), 3 messages, both kinds of reader, close, crash, reset, SIGPIPE | refinement of the fair `BoundedFifo`, kClosed only after everything, calls end when the peer has gone |
| `dial_listen` | 5 transports on the platforms that have them; 2 listeners and a client or a listener and 2 clients; 2 ids; one listener and one client may crash, any call may fail | nothing leaked, one owner per set of names, a lone listener is reachable, accept() returns the connections that wait, until one accept() fails, the stop function ends its thread |
| `event_loop` | a pipe that keeps recv()'s timeout and one that does not, 2 consumers, foreground and background, peers that may send for ever | once and in order, no stranded receiver, nobody starved, stop() ends a foreground run() if rounds without a message recur |

Runs expected to fail, each a disagreement between the code and its own documentation
(quoted under `findings` in `PROJECT.json`):

| run | the code | what it contradicts |
|---|---|---|
| `queue_trypop` | try_pop skips expired messages without notifying: a push blocks on an empty queue | queue.h:30 |
| `qos_wedge` | a queue at the mark is never sent | qos_pipe.cc:65, :95 |
| `qos_steal` | under kBlock a blocked sender takes the notification for the worker and times out: the worker sleeps on a queued message, past its TTL | qos_pipe.cc:42 |
| `event_loop_stop` | stop() joins the loop's thread with the mutex that thread needs: both wait for ever | async.h:197, examples/async_example.cc:105 |

Read off the code while modelling, without a run of their own:

* MessageQueue: pop() without a timeout returns kTimeout (queue.cc:117; queue.h:36).
* QosPipe: `linger` is stored and never read (qos_pipe.cc:45; TODO.md:47); a message the
  underlying pipe can never take is retried for ever (:82; :81); close() waits for
  `send_mutex_` while the worker is in the underlying send() (:164, :72; duct.h:65);
  kDropOld drops one message whatever its size (:128; TODO.md:48), so `HwmBound` has only
  a bound on the number of messages there; a message queued after close() is lost with Ok
  (:105). `WorkerAwake` leaves out kBlock for the reason that `qos_steal` shows.
* Shared memory: a recv() is not told of its peer's end (shm_transport.cc:414;
  TODO.md:77); two send() at once on one pipe, as async_send() can make, write the same
  slot (:396), so `shm_ring` has one sender.
* ReconnectPipe: set_state(kDisconnected) may come after the reconnection
  (reconnect_pipe.cc:128), callbacks may be made in another order than the states were set
  (:94), other states may follow kClosed (:173); `last_error_` is read without `mu_`
  (:148); a second close() returns before the first has joined (:70); the first redial
  has no delay (:164; duct.h:32).
* Listeners: on Linux close() does not wake a thread in accept(), so the background
  server's stop function may not return (async.h:349), and `StopEnds` is stated for
  systems where it does (`Wakes`); NamedPipeListener::close() does nothing; listen()
  takes over a path in use, and close() removes whatever is at the path, and on Windows
  SO_REUSEADDR lets a second socket share a port (tcp_transport.cc:188), so
  `ReachableAlone` is about listeners that have not shared their address.
* Background server: any error of accept() ends its loop (async.h:328) with the listener
  open, also when a shared-memory client died before it sent its id or had closed
  already. Clients that connect afterwards wait in the kernel's queue and nobody picks them
  up: `PickedUp` has this as one of its outcomes.
* EventLoop: run() gives up `mutex_` only after a round without a message (async.h:179),
  so that under sustained traffic stop() and add_pipe() wait for ever. `StopEndsRun` is
  false without its premise `[]<>Lull`, and no document says how soon stop() returns.
* Windows shared memory: clients whose ids collide share their objects (win_shm.cc:212),
  so `OneOwner` says something of POSIX only; renewing the instance reopens a listener that
  was closed meanwhile (state `reopened`), and the id of a client that has closed before ConnectNamedPipe() is dropped
  though its dial() was Ok (win_shm.cc:414, :434).
* Streams: a Unix socket with a timeout reports kClosed on POLLHUP and loses what is
  buffered (socket_utils.cc:76), which `ClosedIsComplete` excludes; SIGPIPE on Linux
  (wire.cc:119); recv() on TCP ignores its timeout (tcp_transport.cc:62), so a silent TCP
  pipe stops an EventLoop, which `Polled` excludes (`AllPrompt`). In the model a reset connection gives errors for
  ever; Linux reports the reset once and then the end of the stream, so a reader that goes
  on after errors, as EventLoop does, may be told kClosed there after a loss.

**Bounds and why they are enough.** Two threads of each kind are the least that compete
for a notification, a space or a connection; three messages with sizes below, at and
above the mark are the least that fill the queue, overrun it and leave one to be skipped;
`MaxMsgs` and `MaxTime` only stop the producers and the clock. `BlockedPushReturns` depends
on `MaxMsgs`: among pushers that never stop, one may be overtaken for ever. In QosPipe
`MaxMsgs` is tested on entry, so two senders have three messages accepted, and the clock
goes on while a queued message is still to expire, so that liveness does not depend on
`MaxTime`. The ring is unbounded in time: counters wrap (`CounterMod` is twice
`kSlotCount`) and TLC explores every reachable state. ReconnectPipe has two connections
in succession, so that an error of the first can arrive under the second; the theorems
cover any number. In StreamPipe the kernel buffers four units (`WireCapacity`): the least
that holds the longest frame whole and no two frames with data, so that a write blocks
in the middle of a frame; lengths are zero, short, the maximum and over it. In DialListen two
processes of a kind compete for an address or an id, a `Backlog` of one makes the second
client wait, two semaphores give a failure before, between and after, and
`SmallAddresses` has every scheme, none and an unknown one, with remainders that fit and
that do not. A second listener after a crashed one is a restart. EventLoop has two
messages over two pipes that go on through the Channel: one to be overtaken, one to be
stranded. Messages that the callback keeps to itself (`LoopChatter`) are not bounded, so that
no liveness property rests on the traffic's coming to an end. `queue_safety` has a TTL, so the clause of `FifoNoLoss` on a queue
that loses nothing (TTL 0, not kDropOld) rests on the theorem `FifoInvariant`. Thread
sets are symmetric where no liveness is checked. Deadlock checking is off where a closed
object, or two crashed processes, rightly have nothing left to do.

**Fairness.** Threads that can run do (WF). A thread that asks for a mutex that is free
again and again gets it, and a timed wait ends at its deadline however often it wakes
before (SF): POSIX mutexes make no stronger promise, and the code loops on none.
Consumers of a queue keep calling; no producer need ever call. For QosPipe,
`WorkerFairSpec` has the underlying send() return and at last succeed, and of senders asks
only that they make the notify_one() they have come to; `FairSpec`, under which the two
violations are found, adds that their waits end. For the ring, a
sem_wait() that could return again and again does (SF: another thread may take the
count first), and the receiver keeps calling recv() until it closes or crashes. For ReconnectPipe dial
attempts return ("bounded", TODO.md:30) but need not succeed, and I/O on a connection
need not return. In StreamPipe a call under way goes on and the receiver keeps calling
recv() (WF); nobody need send or close. In DialListen a thread in accept() goes on (WF),
and may fail at any time, once; a client writes
the id it has to write unless it crashes; no call need be made, and dial() need not
succeed. In EventLoop the loop and stop() get a mutex that is free again and again (SF on
`LoopLock`, `StopLock`), and woken receivers run; nobody need call, send, be silent or close.

## 4. Proofs

All theorems hold for every value of the constants that satisfies the `ASSUME` of the
module: finite sets of threads, disjoint where the code has distinct roles, and natural
numbers for sizes, marks, TTLs and limits. Every invariant that a run checks is a theorem,
and so is the safety part of both refinements. The theorems are about `Spec`, which every
fair specification implies.

**Lemmas on the byte stream** (`ByteStreamProofs`). A queue is a run of the stream of all
accepted bytes. `DropProperties` and `EntryFields` describe what is left when k messages
are removed from the front, `DropStream` shows that the counter minus their bytes is the
bytes of the rest, so the subtraction never underflows, and `AppendStream` that appending
keeps the run and adds the size. `NotifyProperties` says what `notify_one` and
`notify_all` do to the states of the threads.

**MessageQueue** (`MessageQueueProofs`). The inductive core is
`Core == TypeOK /\ IsStream /\ OnlyBlockWaits`: the queue is a run of the stream, and only
kBlock makes a push wait (otherwise a waiting push could append under a policy that does
not look at the mark again). `CoreStep` also reduces every step to one of three forms
(append, take from the front, leave the queue alone), and the other proofs split on those
forms only.

| theorem | from |
|---|---|
| `AccountingInvariant`: `TypeOK /\ StreamAccounting` | Core |
| `HwmInvariant`: `HwmRespected` | Core |
| `DeadlineInvariant`: `DeadlinesSorted` | Core and `DeadlineBound` (no queued deadline is later than now + TTL) |
| `FifoInvariant`: `FifoNoLoss` | Core, DeadlineBound |
| `CloseInvariant`: `ClosedWakesAll` | Core |
| `PopperInvariant`: `NoStrandedPopper` | Core; a count of threads on their way against messages |
| `PusherInvariant`: `NoStrandedPusher` | Core, and no try_pop() on a queue with a TTL |

The assumption of the last one is needed: `queue_trypop` is its counterexample.

**ReconnectPipe** (`ReconnectPipeProofs`). The inductive invariant `Inv` is the conjunction
of `TypeOK`, `WorkerOwnsInner`, `NoLostWakeup`, `NoLeakedConnection` and three facts on
threads in the middle of their code: a call past its snapshot has a connection
(`HasConn`), one in mark_disconnected() met an error on it (`MarksBroken`), and the worker
dials only below `max_attempts` (`DialBound`). The properties need each other: that a new
connection has a fresh owner needs `WorkerOwnsInner`, and that closing it is somebody's
duty exactly once needs the comparison of `inner_` with the snapshot. `MoveStep` covers
all steps that only move one thread; `TakeStep` and `ShutStep` cover what
mark_disconnected() and close() have in common. The theorems are `TypeInvariant`,
`OwnershipInvariant`, `LeakInvariant`, `WakeupInvariant` and, as an action property,
`StaleErrors`.

**DialListen** (`DialListenProofs`). `NamesInv` says which names a client has at each
point of dial() and close(): past shm_open() the segment of its id is its own until it
has unlinked it (`HasSegment`), the semaphores it has not created, or has unlinked, do
not exist (`Absent`), a name is there only while its creator holds it or after its crash
(`HasOwner`), and `OneOwner`. They need each other: O_EXCL on a semaphore protects
nothing by itself, since a failed dial() unlinks by name; that those names are its own
follows from its holding the segment, and that nobody else is about to create
under the same id from theirs. `FdInv` gives the descriptors of each thread at each point
of its code. `MoveStep` and `NameStep` cover the steps that keep the names and the steps
that change one. `ReachInv` adds who is reached: a listener that is alone and not over is
the only one that is not over, so that nobody unlinks the path it has bound (`PathOf`),
and a port or pipe name leads to whoever is open, since a second bind is refused or,
for TCP on Windows, shares the port (`NameOf`). The theorems, for any number of listeners, clients, ids, semaphores and
whoever crashes, are `OwnerInvariant` (`OneOwner`), `LeakFree` (`NoLeak`) and
`ReachInvariant` (`ReachableAlone`).

**QosPipe** (`QosPipeProofs`). `Core` is again the types and the queue as a run of the
stream, and `CoreStep` reduces every step to `Adding`, `Taking` or `Idling`.
`Safe == Core /\ NoUseAfterClose /\ Stopped`: who has got past the critical section of
close() has left `running_` false, and the worker keeps the lock from its look at
`running_` to the end of the underlying send(), so neither a purge nor a kDropOld send()
empties the queue under it.

| theorem | from |
|---|---|
| `UseInvariant`: `NoUseAfterClose` | Safe |
| `AccountingInvariant`: `TypeOK /\ QueueAccounting` | Safe |
| `HwmInvariant`: `HwmBound` | Safe; a send() adds at most the mark to less than the mark; and `Dense`: from any message on the queue has as many bytes as messages, so under kDropOld, which only exchanges messages at the mark, their number is bounded |
| `PurgeInvariant`: `PurgeFindsAll` | Safe and `Deadlines` (in order, none later than now + TTL) |
| `OrderInvariant`: `InOrder` | Safe |
| `WakeupInvariant`: `WorkerAwake` | Safe and `Wakeups`, which says separately who is to notify a worker that sleeps on a message and one that sleeps through close() |

**Shared-memory ring** (`ShmRingProofs`). `SlotInvariant` (`SlotConservation`) is for any
finite numbers of threads on both sides: the two semaphores and the slots that calls
under way hold add up to the ring. Its type invariant says that no slot ever has a length
over the maximum; without that, recv()'s early return would lose a slot. `RingIsFifo` is
the safety part of `RefinesFifo`, for one sender and one receiver, which is all the code
is safe for. `Spsc` adds to the above how far each thread's own copy of its counter has
got (`SenderAt`, `ReceiverAt`) and that items are the distance between the counters
(`ItemCount`). The lemmas on wrapping counters (`UsedFacts` and the ones on div and mod
before it) rest on the assumption that `kSlotCount` divides `CounterMod`: two counters
less than a ring apart are in different slots, also across the wrap.

**Frames** (`StreamPipeProofs`). Nothing on the wire marks where a frame begins, so the
inductive invariant, `StreamInv`, says that there are tags: for each chunk on its way, and
for the one taken last, the payload of its frame, its place in it, and the number of
payloads promised so far. `Tags` relates each tag to its neighbour, its chunk and the
promise made with the last chunk of a frame; `Reader` and `Writer` say what the receiver
has gathered after its tag and what the sender has still to write after the last tag.
`Push` and `Pop` add a tag and remove one, and `Left` is the rest of an oversized
payload on a named pipe, in which nobody finds a header. Tags are chosen anew at each
step, so no induction over the list is needed. `ClosedInvariant` (`ClosedIsComplete`)
follows because at the end of the stream the receiver's tag is the sender's;
`StreamIsFifo` is the safety part of `RefinesFifo`, for payloads, buffers and numbers of
messages of any size.

**EventLoop and Channel** (`EventLoopProofs`). `StepKinds` reduces every step to what it
does to pipes and Channel (send, deliver, take, find nothing, close, or nothing).
`OrderInvariant` (`OnceInOrder`): what is left in a pipe are the last messages sent on it
(`InboxTail`), and the numbers of each pipe in the Channel are exactly those between the
last one taken and the first one left (`Span`). `StrandedInvariant` (`NoStranded`) counts:
a message more is a woken receiver more, and a woken receiver less takes a message or
leaves the Channel empty.

**Only model-checked:** all liveness, and with it the fairness of `BoundedFifo` that
`RefinesFifo` includes (fairness and ENABLED are out of the prover's reach). Recursive
definitions are not proved about: `InFlight` flattens the wire only to count the units in
the kernel's buffer, and no safety property depends on that count. The theorems on
`ShmRing` and `StreamPipe` are about one direction; the two do not share state.

## 5. Not modelled

Left out on purpose: wording of errors and logs, message contents, byte order, socket
options, host names and ports, the length of backoff delays (the jittered delay is one
step that may take any time), the state callback of ReconnectPipe (the application's,
made without the lock), memory orders (the semaphores and mutexes order the accesses
concerned), destruction of an object that is still in use and close() of a ring under a
call (a use of freed memory has no outcome to model), `recv()` of QosPipe (a plain call
of the underlying pipe) and that dial() wraps its result in a QosPipe.

StateCallbackPipe is two flags, each set once by a compare_exchange, around a pipe, and
nothing constructs it. Logging and metrics format, and count in single critical sections.
Status, message, raii guards, utilities and the export macros have no protocol state.

Worth adding next: the composition of QosPipe with a ring that fills. The whole is to
stay small enough to be run before a commit: a dozen runs and about forty properties, so
a new question replaces a shallower one.
