------------------------------- MODULE ShmRing -------------------------------
(***************************************************************************)
(* One direction of class ShmPipe (src/shm_transport.cc; src/win_shm.cc is *)
(* the same algorithm on Win32 semaphores): a ring of kSlotCount slots in  *)
(* shared memory, free-running 32-bit counters head and tail, and the two  *)
(* semaphores spaces and items.  The peers are processes: the threads of   *)
(* side "tx" call send(), those of side "rx" call recv(), and either side  *)
(* may close its pipe or crash between any two steps.                      *)
(*                                                                         *)
(* Every access to memory or to a semaphore that the other side can see is *)
(* a step.  The steps interleave: for one sender and one receiver the      *)
(* semaphores order the accesses to a slot.                                *)
(***************************************************************************)
EXTENDS Integers, Sequences, FiniteSets

CONSTANTS Producers, Consumers,  \* threads calling send(), recv()
          Msgs,                  \* messages: records with fields len and val
          kSlotPayloadMax,
          kSlotCount,
          CounterMod,            \* 2^32 in the code: head and tail wrap
          NoMsg, NoVal,
          MayClose, MayCrash     \* sides that close() or crash in this model

Sides == {"tx", "rx"}

ASSUME ShmAssumption ==
    /\ Producers \cap Consumers = {} /\ IsFiniteSet(Producers) /\ IsFiniteSet(Consumers)
    /\ kSlotCount \in Nat \ {0} /\ CounterMod \in Nat /\ CounterMod > kSlotCount
    /\ CounterMod % kSlotCount = 0
    /\ \A m \in Msgs : /\ m = [len |-> m.len, val |-> m.val] /\ m.len \in Nat
                       /\ m.len = 0 => m.val = NoVal
    /\ NoMsg \notin Msgs /\ kSlotPayloadMax \in Nat
    /\ MayClose \subseteq Sides /\ MayCrash \subseteq Sides

VARIABLES head, tail,     \* RingMeta
          slots,          \* Ring.slots: len and the data
          items, spaces,  \* the semaphores
          pc,             \* where each thread is
          reg,            \* its copy of head or tail
          msg,            \* the message it sends or has read
          side,           \* "open", "closed" or "crashed"
          out             \* history: the message received last

ring == <<head, tail, slots>>
vars == <<ring, items, spaces, pc, reg, msg, side, out>>

Threads == Producers \cup Consumers
SideOf(t) == IF t \in Producers THEN "tx" ELSE "rx"

\* create_resources(): zeroed memory, no items, kSlotCount spaces.
Init ==
    /\ head = 0 /\ tail = 0
    /\ slots = [i \in 0..kSlotCount - 1 |-> [len |-> 0, val |-> NoVal]]
    /\ items = 0 /\ spaces = kSlotCount
    /\ pc = [t \in Threads |-> "idle"]
    /\ reg = [t \in Threads |-> 0]
    /\ msg = [t \in Threads |-> NoMsg]
    /\ side = [s \in Sides |-> "open"]
    /\ out = NoMsg

\* Thread t, of a live process, goes from one state to the next.
Step(t, from, to) ==
    /\ side[SideOf(t)] = "open"
    /\ pc[t] = from
    /\ pc' = [pc EXCEPT ![t] = to]
    /\ UNCHANGED side

\* std::uint32_t arithmetic.
Increment(counter) == (counter + 1) % CounterMod

Slot(counter) == counter % kSlotCount
-----------------------------------------------------------------------------
(* send() *)

SendEnter(p) == \E m \in Msgs :
    /\ m.len <= kSlotPayloadMax
    /\ Step(p, "idle", "wait")
    /\ msg' = [msg EXCEPT ![p] = m]
    /\ UNCHANGED <<ring, items, spaces, reg, out>>

\* kClosed, or kInvalidArgument for a message that does not fit in a slot.
SendRejected(p) ==
    /\ side["tx"] # "crashed" /\ pc[p] = "idle"
    /\ side["tx"] = "closed" \/ \E m \in Msgs : m.len > kSlotPayloadMax
    /\ UNCHANGED vars

SendAcquire(p) ==
    /\ spaces > 0
    /\ Step(p, "wait", "load")
    /\ spaces' = spaces - 1
    /\ UNCHANGED <<ring, items, reg, msg, out>>

\* opt.timeout, when it is not zero.
SendTimeout(p) ==
    /\ spaces = 0
    /\ Step(p, "wait", "idle")
    /\ UNCHANGED <<ring, items, spaces, reg, msg, out>>

MutSendLoad(p) ==
    /\ Step(p, "load", "len")
    /\ reg' = [reg EXCEPT ![p] = head] /\ head' = Increment(head)
    /\ UNCHANGED <<tail, slots, items, spaces, msg, out>>
SendLoad(p) ==
    /\ Step(p, "load", "len")
    /\ reg' = [reg EXCEPT ![p] = head]
    /\ UNCHANGED <<ring, items, spaces, msg, out>>

SendLen(p) ==
    /\ Step(p, "len", "data")
    /\ slots' = [slots EXCEPT ![Slot(reg[p])].len = msg[p].len]
    /\ UNCHANGED <<head, tail, items, spaces, reg, msg, out>>

\* memcpy, for a message that is not empty.
SendData(p) ==
    /\ Step(p, "data", "store")
    /\ slots' = IF msg[p].len = 0 THEN slots
                ELSE [slots EXCEPT ![Slot(reg[p])].val = msg[p].val]
    /\ UNCHANGED <<head, tail, items, spaces, reg, msg, out>>

SendStore(p) ==
    /\ Step(p, "store", "post")
    /\ head' = Increment(reg[p])
    /\ UNCHANGED <<tail, slots, items, spaces, reg, msg, out>>

SendPost(p) ==
    /\ Step(p, "post", "idle")
    /\ items' = items + 1
    /\ UNCHANGED <<ring, spaces, reg, msg, out>>
-----------------------------------------------------------------------------
(* recv() *)

RecvEnter(c) ==
    /\ Step(c, "idle", "wait")
    /\ UNCHANGED <<ring, items, spaces, reg, msg, out>>

RecvClosed(c) ==
    /\ side["rx"] = "closed" /\ pc[c] = "idle"
    /\ UNCHANGED vars

RecvAcquire(c) ==
    /\ items > 0
    /\ Step(c, "wait", "load")
    /\ items' = items - 1
    /\ UNCHANGED <<ring, spaces, reg, msg, out>>

RecvTimeout(c) ==
    /\ items = 0
    /\ Step(c, "wait", "idle")
    /\ UNCHANGED <<ring, items, spaces, reg, msg, out>>

\* Read tail and the length of the slot.  A length over the maximum is
\* kProtocolError: recv() returns with the item taken and the slot still full.
RecvLoad(c) ==
    /\ Step(c, "load", IF slots[Slot(tail)].len > kSlotPayloadMax THEN "idle" ELSE "copy")
    /\ reg' = [reg EXCEPT ![c] = tail]
    /\ msg' = [msg EXCEPT ![c] = [len |-> slots[Slot(tail)].len, val |-> NoVal]]
    /\ UNCHANGED <<ring, items, spaces, out>>

\* Message::from_bytes
RecvCopy(c) ==
    /\ Step(c, "copy", "store")
    /\ msg' = IF msg[c].len = 0 THEN msg
              ELSE [msg EXCEPT ![c].val = slots[Slot(reg[c])].val]
    /\ UNCHANGED <<ring, items, spaces, reg, out>>

RecvStore(c) ==
    /\ Step(c, "store", "post")
    /\ tail' = Increment(reg[c])
    /\ out' = msg[c]
    /\ UNCHANGED <<head, slots, items, spaces, reg, msg>>

MutRecvPost(c) ==
    /\ Step(c, "post", "idle")
    /\ UNCHANGED <<ring, items, spaces, reg, msg, out>>
RecvPost(c) ==
    /\ Step(c, "post", "idle")
    /\ spaces' = spaces + 1
    /\ UNCHANGED <<ring, items, reg, msg, out>>
-----------------------------------------------------------------------------
\* close() unmaps the ring for this side, none of whose threads may be in send()
\* or recv(), and tells the peer nothing.
Close(s) ==
    /\ s \in MayClose /\ side[s] = "open"
    /\ \A t \in Threads : SideOf(t) = s => pc[t] = "idle"
    /\ side' = [side EXCEPT ![s] = "closed"]
    /\ UNCHANGED <<ring, items, spaces, pc, reg, msg, out>>

Crash(s) ==
    /\ s \in MayCrash /\ side[s] = "open"
    /\ side' = [side EXCEPT ![s] = "crashed"]
    /\ UNCHANGED <<ring, items, spaces, pc, reg, msg, out>>

\* send() after it has been called, but for its wait.
SendRun(p) == \/ SendLoad(p) \/ SendLen(p) \/ SendData(p) \/ SendStore(p) \/ SendPost(p)
RecvRun(c) == \/ RecvLoad(c) \/ RecvCopy(c) \/ RecvStore(c) \/ RecvPost(c)

Next == \/ \E p \in Producers : \/ SendEnter(p) \/ SendRejected(p)
                                \/ SendAcquire(p) \/ SendTimeout(p) \/ SendRun(p)
        \/ \E c \in Consumers : \/ RecvEnter(c) \/ RecvClosed(c)
                                \/ RecvAcquire(c) \/ RecvTimeout(c) \/ RecvRun(c)
        \/ \E s \in Sides : Close(s) \/ Crash(s)

Spec == Init /\ [][Next]_vars

\* Threads run and sem_wait() returns when there is something to take again and
\* again; the receiver keeps calling recv().  Nobody need ever call send().
FairSpec ==
    /\ Spec
    /\ \A p \in Producers : SF_vars(SendAcquire(p)) /\ WF_vars(SendRun(p))
    /\ \A c \in Consumers : /\ WF_vars(RecvEnter(c))
                            /\ SF_vars(RecvAcquire(c)) /\ WF_vars(RecvRun(c))
-----------------------------------------------------------------------------
(* Properties *)

Stored == {"len", "data", "store", "post"}

Holding(S, states) == Cardinality({t \in S : pc[t] \in states})

\* The messages between tail and head: what has been sent and not received.
InRing(i) == slots[Slot(tail + i - 1)]
Chan == [i \in 1..(head - tail) % CounterMod |->
            [len |-> InRing(i).len,
             val |-> IF InRing(i).len = 0 THEN NoVal ELSE InRing(i).val]]

\* Every slot is a space, an item, or held by one call under way, whichever
\* calls timed out or were cut off by a crash; so no semaphore passes
\* kSlotCount, the maximum that win_shm.cc gives it.
SlotConservation ==
    spaces + items + Holding(Producers, Stored \cup {"load"})
                   + Holding(Consumers, {"load", "copy", "store", "post"}) = kSlotCount

Fifo == INSTANCE BoundedFifo
            WITH Msgs <- {m \in Msgs : m.len <= kSlotPayloadMax},
                 Capacity <- kSlotCount, chan <- Chan,
                 up <- \A s \in Sides : side[s] = "open"

\* The ring implements the bounded FIFO, whoever closes, times out or crashes at
\* whichever step: messages are received whole, once, in order, and, while
\* both sides are open, every message sent is received.
RefinesFifo == Fifo!Spec

\* A send() that waits for a space ends, while the receiver keeps receiving.
SendReturns ==
    \A p \in Producers : pc[p] = "wait" ~> pc[p] = "idle" \/ \E s \in Sides : side[s] # "open"
=============================================================================
