--------------------------- MODULE ShmRingProofs ---------------------------
(***************************************************************************)
(* Theorems about ShmRing: every slot of the ring is accounted for,        *)
(* however many threads send and receive on a pipe, and for one sender and *)
(* one receiver the ring is a bounded FIFO.                                *)
(***************************************************************************)
EXTENDS ShmRing, FiniteSetTheorems, TLAPS

-----------------------------------------------------------------------------
(* The remainder: head and tail wrap, and a slot is a counter's remainder *)

\* A number is a multiple of y and its remainder.
LEMMA DivMod ==
    ASSUME NEW x \in Int, NEW y \in Nat \ {0}
    PROVE  x % y \in 0..y - 1 /\ \E q \in Int : x = y * q + (x % y)
  <1>1. x % y \in 0..y - 1 OBVIOUS
  <1>2. x \div y \in Int OBVIOUS
  <1>3. x = y * (x \div y) + (x % y) OBVIOUS
  <1> QED BY <1>1, <1>2, <1>3

\* Two remainders do not differ by a multiple of y.
LEMMA NoMultiple ==
    ASSUME NEW y \in Nat \ {0}, NEW q \in Int, NEW r \in 0..y - 1, NEW s \in 0..y - 1,
           y * q = r - s
    PROVE  q = 0
  <1>1. CASE q >= 1
    <2>1. y * q = y + y * (q - 1) OBVIOUS
    <2>2. y * (q - 1) >= 0 BY <1>1
    <2> QED BY <2>1, <2>2
  <1>2. CASE q <= -1
    <2>1. y * q = -y + y * (q + 1) OBVIOUS
    <2>2. y * (q + 1) <= 0 BY <1>2
    <2> QED BY <2>1, <2>2
  <1> QED BY <1>1, <1>2

\* The remainder is unique.
LEMMA ModUnique ==
    ASSUME NEW x \in Int, NEW y \in Nat \ {0}, NEW q \in Int, NEW r \in 0..y - 1,
           x = y * q + r
    PROVE  x % y = r
  <1>1. PICK k \in Int : x = y * k + (x % y) BY DivMod
  <1>2. x % y \in 0..y - 1 BY DivMod
  <1>3. y * (q - k) = (x % y) - r BY <1>1, <1>2
  <1>4. q - k = 0 BY <1>2, <1>3, NoMultiple
  <1> QED BY <1>2, <1>3, <1>4

\* Within one turn of y on either side of it, % adds or takes away one turn.
LEMMA ModTurn ==
    ASSUME NEW x \in Int, NEW y \in Nat \ {0}
    PROVE  /\ x \in 0..y - 1 => x % y = x
           /\ x \in y..2 * y - 1 => x % y = x - y
           /\ x \in (-y)..(-1) => x % y = x + y
  <1>1. ASSUME x \in 0..y - 1 PROVE x % y = x
    BY <1>1, x = y * 0 + x, ModUnique
  <1>2. ASSUME x \in y..2 * y - 1 PROVE x % y = x - y
    BY <1>2, x = y * 1 + (x - y), ModUnique
  <1>3. ASSUME x \in (-y)..(-1) PROVE x % y = x + y
    BY <1>3, x = y * (-1) + (x + y), ModUnique
  <1> QED BY <1>1, <1>2, <1>3

\* A multiple of y added changes no remainder.
LEMMA ModShift ==
    ASSUME NEW x \in Int, NEW y \in Nat \ {0}, NEW m \in Nat, m % y = 0
    PROVE  (x + m) % y = x % y
  <1>0. m \in Int OBVIOUS
  <1>1. PICK k \in Int : m = y * k + (m % y) BY <1>0, DivMod
  <1>2. PICK j \in Int : x = y * j + (x % y) BY DivMod
  <1> DEFINE r == x % y
  <1>3. r \in 0..y - 1 BY DivMod
  <1>4. m = y * k BY <1>1
  <1>5. x = y * j + r BY <1>2
  <1> HIDE DEF r
  <1>6. x + m = y * (j + k) + r
    <2>1. y * (j + k) = y * j + y * k OBVIOUS
    <2>2. y * j \in Int /\ y * k \in Int OBVIOUS
    <2> QED BY <1>3, <1>4, <1>5, <2>1, <2>2
  <1>7. x + m \in Int /\ j + k \in Int OBVIOUS
  <1>8. (x + m) % y = r BY <1>3, <1>6, <1>7, ModUnique
  <1> QED BY <1>8 DEF r

\* Less than y apart, two numbers have different remainders.
LEMMA ModDistinct ==
    ASSUME NEW x \in Int, NEW y \in Nat \ {0}, NEW d \in 1..y - 1
    PROVE  (x + d) % y # x % y
  <1> SUFFICES ASSUME (x + d) % y = x % y PROVE FALSE OBVIOUS
  <1>1. PICK k \in Int : x + d = y * k + (x % y)
    <2>1. x + d \in Int OBVIOUS
    <2> QED BY <2>1, DivMod
  <1>2. PICK j \in Int : x = y * j + (x % y) BY DivMod
  <1>3. x % y \in 0..y - 1 BY DivMod
  <1>4. y * (k - j) = d - 0
    <2>1. y * (k - j) = y * k - y * j OBVIOUS
    <2> QED BY <1>1, <1>2, <1>3, <2>1
  <1>5. k - j = 0 BY <1>4, NoMultiple
  <1> QED BY <1>4, <1>5

-----------------------------------------------------------------------------
(* Types *)

SenderStates == {"idle", "wait", "load"} \cup Stored
ReceiverHolds == {"load", "copy", "store", "post"}
ReceiverStates == {"idle", "wait"} \cup ReceiverHolds

\* What send() accepts, and what a slot holds: no length over the maximum.
Fitting == {m \in Msgs : m.len <= kSlotPayloadMax}
Content == [len : 0..kSlotPayloadMax, val : {m.val : m \in Msgs} \cup {NoVal}]

Counters == 0..CounterMod - 1

TypeOK ==
    /\ head \in Counters /\ tail \in Counters
    /\ slots \in [0..kSlotCount - 1 -> Content]
    /\ items \in Nat /\ spaces \in Nat
    /\ pc \in [Threads -> SenderStates \cup ReceiverStates]
    /\ \A p \in Producers : pc[p] \in SenderStates
    /\ \A c \in Consumers : pc[c] \in ReceiverStates
    /\ reg \in [Threads -> Counters]
    /\ msg \in [Threads -> Content \cup {NoMsg}]
    /\ \A p \in Producers : pc[p] # "idle" => msg[p] \in Fitting
    /\ \A c \in Consumers : pc[c] \in {"copy", "store", "post"} => msg[c] \in Content
    /\ side \in [Sides -> {"open", "closed", "crashed"}]

LEMMA ConstantFacts ==
    /\ kSlotCount \in Nat \ {0} /\ CounterMod \in Nat \ {0} /\ CounterMod > kSlotCount
    /\ kSlotPayloadMax \in Nat /\ 0 \in Counters
    /\ Fitting \subseteq Content
  <1>1. kSlotCount \in Nat \ {0} /\ CounterMod \in Nat \ {0} /\ CounterMod > kSlotCount
    BY ShmAssumption
  <1>2. kSlotPayloadMax \in Nat BY ShmAssumption
  <1>3. ASSUME NEW m \in Fitting PROVE m \in Content
    <2>1. m \in Msgs /\ m.len \in 0..kSlotPayloadMax /\ m = [len |-> m.len, val |-> m.val]
      BY ShmAssumption DEF Fitting
    <2>2. m.val \in {n.val : n \in Msgs} BY <2>1
    <2> QED BY <2>1, <2>2 DEF Content
  <1> QED BY <1>1, <1>2, <1>3 DEF Counters

\* A counter's slot, and the counter after it.
LEMMA CounterTypes ==
    ASSUME NEW x \in Counters
    PROVE  /\ Slot(x) \in 0..kSlotCount - 1 /\ Increment(x) \in Counters
           /\ Increment(x) = IF x = CounterMod - 1 THEN 0 ELSE x + 1
  <1>1. x \in Int /\ x + 1 \in Int BY ConstantFacts DEF Counters
  <1>2. Slot(x) \in 0..kSlotCount - 1 BY <1>1, ConstantFacts, DivMod DEF Slot
  <1>3. Increment(x) = IF x = CounterMod - 1 THEN 0 ELSE x + 1
    <2>1. CASE x = CounterMod - 1
      <3>1. x + 1 \in CounterMod..2 * CounterMod - 1 BY <2>1, ConstantFacts
      <3> QED BY <1>1, <2>1, <3>1, ConstantFacts, ModTurn DEF Increment
    <2>2. CASE x # CounterMod - 1
      <3>1. x + 1 \in 0..CounterMod - 1 BY <2>2, ConstantFacts DEF Counters
      <3> QED BY <1>1, <2>2, <3>1, ConstantFacts, ModTurn DEF Increment
    <2> QED BY <2>1, <2>2
  <1> QED BY <1>2, <1>3, ConstantFacts DEF Counters

LEMMA TypeInit == Init => TypeOK
  <1> SUFFICES ASSUME Init PROVE TypeOK OBVIOUS
  <1>1. [len |-> 0, val |-> NoVal] \in Content BY ConstantFacts DEF Content
  <1>2. slots \in [0..kSlotCount - 1 -> Content] BY <1>1 DEF Init
  <1>3. \A t \in Threads : pc[t] = "idle" BY DEF Init
  <1>4. pc \in [Threads -> SenderStates \cup ReceiverStates]
    BY DEF Init, SenderStates, ReceiverStates
  <1> QED BY <1>2, <1>3, <1>4, ConstantFacts
        DEF Init, TypeOK, Threads, SenderStates, ReceiverStates

\* One step keeps the types; above all no length over the maximum gets into a slot.
LEMMA TypeStep == ASSUME TypeOK, [Next]_vars PROVE TypeOK'
  <1>0. /\ Producers \cap Consumers = {} /\ Producers \subseteq Threads
        /\ Consumers \subseteq Threads
    BY ShmAssumption DEF Threads
  \* A thread moves; the message it has may change.
  <1>1. ASSUME NEW t \in Threads, NEW from, NEW to, Step(t, from, to),
               t \in Producers => to \in SenderStates,
               t \in Consumers => to \in ReceiverStates,
               msg' \in [Threads -> Content \cup {NoMsg}],
               \A u \in Threads \ {t} : msg'[u] = msg[u],
               t \in Producers /\ to # "idle" => msg'[t] \in Fitting,
               t \in Consumers /\ to \in {"copy", "store", "post"} => msg'[t] \in Content,
               head' \in Counters, tail' \in Counters,
               slots' \in [0..kSlotCount - 1 -> Content],
               items' \in Nat, spaces' \in Nat, reg' \in [Threads -> Counters]
        PROVE  TypeOK'
    <2>1. /\ pc' \in [Threads -> SenderStates \cup ReceiverStates]
          /\ pc'[t] = to /\ \A u \in Threads \ {t} : pc'[u] = pc[u]
      BY <1>1 DEF Step, TypeOK, Threads
    <2>2. \A p \in Producers : /\ pc'[p] \in SenderStates
                               /\ pc'[p] # "idle" => msg'[p] \in Fitting
      BY <1>0, <1>1, <2>1 DEF TypeOK
    <2>3. \A c \in Consumers :
             /\ pc'[c] \in ReceiverStates
             /\ pc'[c] \in {"copy", "store", "post"} => msg'[c] \in Content
      BY <1>0, <1>1, <2>1 DEF TypeOK
    <2> QED BY <1>1, <2>1, <2>2, <2>3 DEF Step, TypeOK
  <1>2. ASSUME NEW p \in Producers,
               SendAcquire(p) \/ SendTimeout(p) \/ SendPost(p)
        PROVE  TypeOK'
    BY <1>0, <1>1, <1>2
       DEF SendAcquire, SendTimeout, SendPost, Step, ring, TypeOK, SenderStates, Stored
  <1>3. ASSUME NEW p \in Producers, SendEnter(p) PROVE TypeOK'
    <2>1. PICK m \in Fitting : msg' = [msg EXCEPT ![p] = m] BY <1>3 DEF SendEnter, Fitting
    <2>2. m \in Content BY ConstantFacts
    <2> QED BY <1>0, <1>1, <1>3, <2>1, <2>2 DEF SendEnter, ring, TypeOK, SenderStates
  <1>4. ASSUME NEW p \in Producers, SendLoad(p) PROVE TypeOK'
    BY <1>0, <1>1, <1>4 DEF SendLoad, Step, ring, TypeOK, SenderStates, Stored
  <1>5. ASSUME NEW p \in Producers, SendLen(p) \/ SendData(p) PROVE TypeOK'
    <2>1. msg[p] \in Fitting /\ pc[p] # "idle" BY <1>5 DEF SendLen, SendData, Step, TypeOK
    <2>2. msg[p] \in Content BY <2>1, ConstantFacts
    <2>3. Slot(reg[p]) \in 0..kSlotCount - 1 BY <1>0, CounterTypes DEF TypeOK
    <2>4. slots' \in [0..kSlotCount - 1 -> Content]
      <3> DEFINE i == Slot(reg[p])
      <3>1. slots[i] \in Content /\ slots \in [0..kSlotCount - 1 -> Content]
        BY <2>3 DEF TypeOK
      <3>2. /\ [slots[i] EXCEPT !.len = msg[p].len] \in Content
            /\ [slots[i] EXCEPT !.val = msg[p].val] \in Content
        BY <2>2, <3>1 DEF Content
      <3>3. \/ slots' = slots
            \/ slots' = [slots EXCEPT ![i] = [slots[i] EXCEPT !.len = msg[p].len]]
            \/ slots' = [slots EXCEPT ![i] = [slots[i] EXCEPT !.val = msg[p].val]]
        BY <1>5 DEF SendLen, SendData
      <3> HIDE DEF i
      <3> QED BY <3>1, <3>2, <3>3
    <2> QED BY <1>0, <1>1, <1>5, <2>1, <2>4
          DEF SendLen, SendData, TypeOK, SenderStates, Stored
  <1>6. ASSUME NEW p \in Producers, SendStore(p) PROVE TypeOK'
    <2>1. msg[p] \in Fitting BY <1>6 DEF SendStore, Step, TypeOK
    <2>2. Increment(reg[p]) \in Counters BY <1>0, CounterTypes DEF TypeOK
    <2> QED BY <1>0, <1>1, <1>6, <2>1, <2>2 DEF SendStore, TypeOK, SenderStates, Stored
  <1>7. ASSUME NEW c \in Consumers,
               RecvEnter(c) \/ RecvAcquire(c) \/ RecvTimeout(c) \/ RecvPost(c)
        PROVE  TypeOK'
    BY <1>0, <1>1, <1>7
       DEF RecvEnter, RecvAcquire, RecvTimeout, RecvPost, ring, TypeOK,
           ReceiverStates, ReceiverHolds
  <1>8. ASSUME NEW c \in Consumers, RecvLoad(c) PROVE TypeOK'
    <2> DEFINE m == [len |-> slots[Slot(tail)].len, val |-> NoVal]
               to == IF slots[Slot(tail)].len > kSlotPayloadMax THEN "idle" ELSE "copy"
    <2>1. slots[Slot(tail)] \in Content BY CounterTypes DEF TypeOK
    <2>2. m \in Content BY <2>1 DEF Content
    <2>3. /\ msg' = [msg EXCEPT ![c] = m] /\ Step(c, "load", to)
          /\ reg' = [reg EXCEPT ![c] = tail]
          /\ UNCHANGED <<head, tail, slots, items, spaces>>
      BY <1>8 DEF RecvLoad, ring
    <2>4. to \in ReceiverStates BY DEF ReceiverStates, ReceiverHolds
    <2> HIDE DEF m, to
    <2>5. /\ msg' \in [Threads -> Content \cup {NoMsg}] /\ msg'[c] \in Content
          /\ reg' \in [Threads -> Counters]
          /\ \A u \in Threads \ {c} : msg'[u] = msg[u]
      BY <1>0, <2>2, <2>3 DEF TypeOK
    <2> QED BY <1>0, <1>1, <2>3, <2>4, <2>5 DEF TypeOK
  <1>9. ASSUME NEW c \in Consumers, RecvCopy(c) PROVE TypeOK'
    <2>1. msg[c] \in Content /\ Step(c, "copy", "store")
      BY <1>9 DEF RecvCopy, Step, TypeOK
    <2>2. slots[Slot(reg[c])] \in Content BY <1>0, CounterTypes DEF TypeOK
    <2>3. /\ msg' \in [Threads -> Content \cup {NoMsg}] /\ msg'[c] \in Content
          /\ \A u \in Threads \ {c} : msg'[u] = msg[u]
      BY <1>0, <1>9, <2>1, <2>2 DEF RecvCopy, TypeOK, Content
    <2> QED BY <1>0, <1>1, <1>9, <2>1, <2>3
          DEF RecvCopy, ring, TypeOK, ReceiverStates, ReceiverHolds
  <1>10. ASSUME NEW c \in Consumers, RecvStore(c) PROVE TypeOK'
    <2>1. msg[c] \in Content BY <1>10 DEF RecvStore, Step, TypeOK
    <2>2. Increment(reg[c]) \in Counters BY <1>0, CounterTypes DEF TypeOK
    <2> QED BY <1>0, <1>1, <1>10, <2>1, <2>2
          DEF RecvStore, TypeOK, ReceiverStates, ReceiverHolds
  <1>11. ASSUME NEW s \in Sides, Close(s) \/ Crash(s) PROVE TypeOK'
    BY <1>11 DEF Close, Crash, ring, TypeOK
  <1>12. CASE UNCHANGED vars BY <1>12 DEF vars, ring, TypeOK
  <1> QED BY <1>2, <1>3, <1>4, <1>5, <1>6, <1>7, <1>8, <1>9, <1>10, <1>11, <1>12
        DEF Next, SendRun, RecvRun, SendRejected, RecvClosed

-----------------------------------------------------------------------------
(* Every slot is accounted for *)

\* What a move of one thread does to the number of threads in given states.
LEMMA HoldingStep ==
    ASSUME TypeOK, NEW S, S \subseteq Threads, IsFiniteSet(S), NEW A,
           NEW t \in Threads, NEW from, NEW to, Step(t, from, to)
    PROVE  /\ Holding(S, A) \in Nat
           /\ Holding(S, A)' = Holding(S, A) + (IF t \in S /\ to \in A THEN 1 ELSE 0)
                                             - (IF t \in S /\ from \in A THEN 1 ELSE 0)
  <1> DEFINE H == {u \in S : pc[u] \in A}
             N == {u \in S : pc'[u] \in A}
  <1>1. \A u \in Threads : pc'[u] = IF u = t THEN to ELSE pc[u]
    BY DEF Step, TypeOK
  <1>2. pc[t] = from BY DEF Step
  <1>3. IsFiniteSet(H) /\ IsFiniteSet(N)
    <2>1. H \subseteq S /\ N \subseteq S OBVIOUS
    <2> QED BY <2>1, FS_Subset
  <1>4. Cardinality(H) \in Nat /\ Cardinality(N) \in Nat BY <1>3, FS_CardinalityType
  <1>5. Holding(S, A) = Cardinality(H) /\ Holding(S, A)' = Cardinality(N) BY DEF Holding
  <1>6. CASE t \in S /\ to \in A
    <2>1. N = H \cup {t} BY <1>1, <1>6
    <2>2. t \in H <=> from \in A BY <1>2, <1>6
    <2>3. Cardinality(N) = IF t \in H THEN Cardinality(H) ELSE Cardinality(H) + 1
      BY <1>3, <2>1, FS_AddElement
    <2> HIDE DEF H, N
    <2> QED BY <1>4, <1>5, <1>6, <2>2, <2>3
  <1>7. CASE t \in S /\ to \notin A
    <2>1. N = H \ {t} BY <1>1, <1>7
    <2>2. t \in H <=> from \in A BY <1>2, <1>7
    <2>3. Cardinality(N) = IF t \in H THEN Cardinality(H) - 1 ELSE Cardinality(H)
      BY <1>3, <2>1, FS_RemoveElement
    <2> HIDE DEF H, N
    <2> QED BY <1>4, <1>5, <1>7, <2>2, <2>3
  <1>8. CASE t \notin S
    <2>1. N = H BY <1>1, <1>8
    <2> HIDE DEF H, N
    <2> QED BY <1>4, <1>5, <1>8, <2>1
  <1> QED BY <1>6, <1>7, <1>8

SenderHolds == Stored \cup {"load"}

\* One step loses no slot and makes none.
LEMMA SlotStep ==
    ASSUME TypeOK, SlotConservation, [Next]_vars
    PROVE  SlotConservation'
  <1> DEFINE P == Holding(Producers, SenderHolds)
             C == Holding(Consumers, ReceiverHolds)
  <1>0. /\ Producers \cap Consumers = {} /\ IsFiniteSet(Producers) /\ IsFiniteSet(Consumers)
        /\ Producers \subseteq Threads /\ Consumers \subseteq Threads
    BY ShmAssumption DEF Threads
  <1>1. /\ spaces + items + P + C = kSlotCount /\ spaces \in Nat /\ items \in Nat
        /\ kSlotCount \in Nat
    BY ConstantFacts DEF SlotConservation, SenderHolds, ReceiverHolds, TypeOK
  <1>2. SUFFICES spaces' + items' + P' + C' = kSlotCount
    BY DEF SlotConservation, SenderHolds, ReceiverHolds
  <1>3. ASSUME NEW p \in Producers, NEW from, NEW to, Step(p, from, to)
        PROVE  /\ P \in Nat /\ C \in Nat /\ C' = C
               /\ P' = P + (IF to \in SenderHolds THEN 1 ELSE 0)
                         - (IF from \in SenderHolds THEN 1 ELSE 0)
    <2>1. p \in Threads /\ p \notin Consumers BY <1>0
    <2>2. C \in Nat /\ C' = C + 0 - 0 BY <1>0, <1>3, <2>1, HoldingStep
    <2>3. /\ P \in Nat
          /\ P' = P + (IF to \in SenderHolds THEN 1 ELSE 0)
                    - (IF from \in SenderHolds THEN 1 ELSE 0)
      BY <1>0, <1>3, <2>1, HoldingStep
    <2> HIDE DEF P, C
    <2> QED BY <2>2, <2>3
  <1>4. ASSUME NEW c \in Consumers, NEW from, NEW to, Step(c, from, to)
        PROVE  /\ P \in Nat /\ C \in Nat /\ P' = P
               /\ C' = C + (IF to \in ReceiverHolds THEN 1 ELSE 0)
                         - (IF from \in ReceiverHolds THEN 1 ELSE 0)
    <2>1. c \in Threads /\ c \notin Producers BY <1>0
    <2>2. P \in Nat /\ P' = P + 0 - 0 BY <1>0, <1>4, <2>1, HoldingStep
    <2>3. /\ C \in Nat
          /\ C' = C + (IF to \in ReceiverHolds THEN 1 ELSE 0)
                    - (IF from \in ReceiverHolds THEN 1 ELSE 0)
      BY <1>0, <1>4, <2>1, HoldingStep
    <2> HIDE DEF P, C
    <2> QED BY <2>2, <2>3
  <1>5. CASE UNCHANGED pc /\ UNCHANGED <<spaces, items>>
    BY <1>1, <1>5 DEF Holding
  <1> HIDE DEF P, C
  <1>6. ASSUME NEW p \in Producers, SendAcquire(p)
        PROVE  spaces' + items' + P' + C' = kSlotCount
    BY <1>1, <1>3, <1>6 DEF SendAcquire, SenderHolds, Stored
  <1>7. ASSUME NEW p \in Producers, SendPost(p)
        PROVE  spaces' + items' + P' + C' = kSlotCount
    BY <1>1, <1>3, <1>7 DEF SendPost, SenderHolds, Stored
  <1>8. ASSUME NEW p \in Producers, SendEnter(p) \/ SendTimeout(p)
        PROVE  spaces' + items' + P' + C' = kSlotCount
    BY <1>1, <1>3, <1>8 DEF SendEnter, SendTimeout, SenderHolds, Stored
  <1>9. ASSUME NEW p \in Producers, SendLoad(p) \/ SendLen(p) \/ SendData(p) \/ SendStore(p)
        PROVE  spaces' + items' + P' + C' = kSlotCount
    BY <1>1, <1>3, <1>9 DEF SendLoad, SendLen, SendData, SendStore, SenderHolds, Stored
  <1>10. ASSUME NEW c \in Consumers, RecvAcquire(c)
         PROVE  spaces' + items' + P' + C' = kSlotCount
    BY <1>1, <1>4, <1>10 DEF RecvAcquire, ReceiverHolds
  <1>11. ASSUME NEW c \in Consumers, RecvPost(c)
         PROVE  spaces' + items' + P' + C' = kSlotCount
    BY <1>1, <1>4, <1>11 DEF RecvPost, ReceiverHolds
  <1>12. ASSUME NEW c \in Consumers, RecvEnter(c) \/ RecvTimeout(c)
         PROVE  spaces' + items' + P' + C' = kSlotCount
    BY <1>1, <1>4, <1>12 DEF RecvEnter, RecvTimeout, ReceiverHolds
  \* The length is never over the maximum, so RecvLoad keeps the slot.
  <1>13. ASSUME NEW c \in Consumers, RecvLoad(c)
         PROVE  spaces' + items' + P' + C' = kSlotCount
    <2>1. slots[Slot(tail)] \in Content BY CounterTypes DEF TypeOK
    <2>2. ~(slots[Slot(tail)].len > kSlotPayloadMax) BY <2>1, ConstantFacts DEF Content
    <2>3. Step(c, "load", "copy") BY <1>13, <2>2 DEF RecvLoad
    <2> QED BY <1>1, <1>4, <1>13, <2>3 DEF RecvLoad, ReceiverHolds
  <1>14. ASSUME NEW c \in Consumers, RecvCopy(c) \/ RecvStore(c)
         PROVE  spaces' + items' + P' + C' = kSlotCount
    BY <1>1, <1>4, <1>14 DEF RecvCopy, RecvStore, ReceiverHolds
  <1>15. ASSUME NEW s \in Sides, Close(s) \/ Crash(s)
         PROVE  spaces' + items' + P' + C' = kSlotCount
    BY <1>5, <1>15 DEF Close, Crash
  <1>16. CASE UNCHANGED vars BY <1>5, <1>16 DEF vars
  <1> QED BY <1>6, <1>7, <1>8, <1>9, <1>10, <1>11, <1>12, <1>13, <1>14, <1>15, <1>16
        DEF Next, SendRun, RecvRun, SendRejected, RecvClosed

LEMMA SlotInit == Init => SlotConservation
  <1> SUFFICES ASSUME Init PROVE SlotConservation OBVIOUS
  <1>1. \A t \in Threads : pc[t] = "idle" BY DEF Init
  <1>2. /\ {t \in Producers : pc[t] \in Stored \cup {"load"}} = {}
        /\ {t \in Consumers : pc[t] \in {"load", "copy", "store", "post"}} = {}
    BY <1>1 DEF Threads, Stored
  <1>3. /\ Holding(Producers, Stored \cup {"load"}) = 0
        /\ Holding(Consumers, {"load", "copy", "store", "post"}) = 0
    BY <1>2, FS_EmptySet DEF Holding
  <1> QED BY <1>3, ConstantFacts DEF Init, SlotConservation

\* Every slot is a space, an item, or held by one send() or recv() under way,
\* for any number of sending and receiving threads, whoever times out, closes or
\* crashes; a receiver's early return for a length over the maximum, which would
\* lose a slot, is not reached while the peer writes through send().
THEOREM SlotInvariant == Spec => [](TypeOK /\ SlotConservation)
  <1>1. Init => TypeOK /\ SlotConservation BY TypeInit, SlotInit
  <1>2. TypeOK /\ SlotConservation /\ [Next]_vars => TypeOK' /\ SlotConservation'
    BY TypeStep, SlotStep
  <1> QED BY <1>1, <1>2, PTL DEF Spec

-----------------------------------------------------------------------------
(* One sender and one receiver: the ring is a bounded FIFO *)

\* The slots from counter t up to counter h.
Used(h, t) == (h - t) % CounterMod

\* A counter that wraps stays at its slot: kSlotCount divides CounterMod.
LEMMA SlotTurn == ASSUME NEW x \in Int PROVE Slot(x + CounterMod) = Slot(x)
  <1> DEFINE y == kSlotCount
             m == CounterMod
  <1>1. y \in Nat \ {0} /\ m \in Nat /\ m % y = 0 BY ShmAssumption
  <1> HIDE DEF y, m
  <1>2. (x + m) % y = x % y BY <1>1, ModShift
  <1> QED BY <1>2 DEF Slot, y, m

LEMMA UsedFacts ==
    ASSUME NEW h \in Counters, NEW t \in Counters
    PROVE  /\ Used(h, t) = IF h >= t THEN h - t ELSE h - t + CounterMod
           /\ Used(h, t) \in Counters
           /\ Slot(t + Used(h, t)) = Slot(h)
  <1>0. h \in Int /\ t \in Int /\ h - t \in Int /\ h \in Nat BY ConstantFacts DEF Counters
  <1>1. Used(h, t) = IF h >= t THEN h - t ELSE h - t + CounterMod
    <2>1. CASE h >= t
      <3>1. h - t \in 0..CounterMod - 1 BY <1>0, <2>1, ConstantFacts DEF Counters
      <3> QED BY <1>0, <2>1, <3>1, ConstantFacts, ModTurn DEF Used
    <2>2. CASE ~(h >= t)
      <3>1. h - t \in (-CounterMod)..(-1) BY <1>0, <2>2, ConstantFacts DEF Counters
      <3> QED BY <1>0, <2>2, <3>1, ConstantFacts, ModTurn DEF Used
    <2> QED BY <2>1, <2>2
  <1>2. Used(h, t) \in Counters BY <1>1, ConstantFacts DEF Counters
  <1>3. Slot(t + Used(h, t)) = Slot(h)
    <2>1. CASE h >= t BY <1>0, <1>1, <2>1
    <2>2. CASE ~(h >= t)
      <3>1. t + Used(h, t) = h + CounterMod BY <1>0, <1>1, <2>2, ConstantFacts
      <3> QED BY <1>0, <3>1, SlotTurn
    <2> QED BY <2>1, <2>2
  <1> QED BY <1>1, <1>2, <1>3

\* The slot at h, to be written next, is none of the used ones while one is free.
LEMMA FreeSlot ==
    ASSUME NEW h \in Counters, NEW t \in Counters, Used(h, t) < kSlotCount,
           NEW i \in Nat, i < Used(h, t)
    PROVE  Slot(t + i) # Slot(h)
  <1>0. t \in Int /\ Used(h, t) \in Nat BY UsedFacts DEF Counters
  <1> DEFINE x == t + i
             d == Used(h, t) - i
  <1>1. x \in Int /\ d \in 1..kSlotCount - 1 BY <1>0, ConstantFacts
  <1>2. x + d = t + Used(h, t) BY <1>0
  <1>3. Slot(x + d) = Slot(h) BY <1>2, UsedFacts
  <1> HIDE DEF x, d
  <1>4. (x + d) % kSlotCount # x % kSlotCount BY <1>1, ConstantFacts, ModDistinct
  <1> QED BY <1>3, <1>4 DEF Slot, x

\* Advancing head uses one slot more.
LEMMA UsedGrows ==
    ASSUME NEW h \in Counters, NEW t \in Counters, Used(h, t) < kSlotCount
    PROVE  Used(Increment(h), t) = Used(h, t) + 1
  <1>1. /\ Increment(h) \in Counters
        /\ Increment(h) = IF h = CounterMod - 1 THEN 0 ELSE h + 1
    BY CounterTypes
  <1>2. Used(h, t) = IF h >= t THEN h - t ELSE h - t + CounterMod BY UsedFacts
  <1>3. Used(Increment(h), t) =
           IF Increment(h) >= t THEN Increment(h) - t ELSE Increment(h) - t + CounterMod
    BY <1>1, UsedFacts
  <1>4. h \in 0..CounterMod - 1 /\ t \in 0..CounterMod - 1 BY DEF Counters
  <1> QED BY <1>1, <1>2, <1>3, <1>4, ConstantFacts

\* Advancing tail uses one slot less, and the slots that follow it stay.
LEMMA UsedShrinks ==
    ASSUME NEW h \in Counters, NEW t \in Counters, Used(h, t) > 0
    PROVE  /\ Used(h, Increment(t)) = Used(h, t) - 1
           /\ \A i \in Nat : Slot(Increment(t) + i) = Slot(t + 1 + i)
  <1>1. /\ Increment(t) \in Counters
        /\ Increment(t) = IF t = CounterMod - 1 THEN 0 ELSE t + 1
    BY CounterTypes
  <1>2. Used(h, t) = IF h >= t THEN h - t ELSE h - t + CounterMod BY UsedFacts
  <1>3. Used(h, Increment(t)) =
           IF h >= Increment(t) THEN h - Increment(t) ELSE h - Increment(t) + CounterMod
    BY <1>1, UsedFacts
  <1>4. h \in 0..CounterMod - 1 /\ t \in 0..CounterMod - 1 BY DEF Counters
  <1>5. Used(h, Increment(t)) = Used(h, t) - 1 BY <1>1, <1>2, <1>3, <1>4, ConstantFacts
  <1>6. ASSUME NEW i \in Nat PROVE Slot(Increment(t) + i) = Slot(t + 1 + i)
    <2>1. CASE t = CounterMod - 1
      <3>1. Increment(t) + i = i /\ t + 1 + i = i + CounterMod
        BY <1>1, <2>1, ConstantFacts
      <3>2. i \in Int OBVIOUS
      <3> QED BY <3>1, <3>2, SlotTurn
    <2>2. CASE t # CounterMod - 1 BY <1>1, <2>2
    <2> QED BY <2>1, <2>2
  <1> QED BY <1>5, <1>6

\* Between its load of head and its store the sender has head in reg, and fills
\* the slot at head with its message.
SenderAt(p) ==
    /\ pc[p] \in {"len", "data", "store"} => reg[p] = head
    /\ pc[p] \in {"data", "store"} => slots[Slot(head)].len = msg[p].len
    /\ pc[p] = "store" /\ msg[p].len # 0 => slots[Slot(head)].val = msg[p].val

\* The receiver has tail in reg, and what it has read is what is at tail.
ReceiverAt(c) ==
    /\ pc[c] \in {"copy", "store"} =>
          reg[c] = tail /\ msg[c].len = slots[Slot(tail)].len
    /\ pc[c] = "copy" => msg[c].val = NoVal
    /\ pc[c] = "store" =>
          msg[c].val = IF msg[c].len = 0 THEN NoVal ELSE slots[Slot(tail)].val

\* items counts the used slots, but for those that one of the two is about to
\* announce or to release.
ItemCount(p, c) ==
    Used(head, tail) = items + (IF pc[c] \in {"load", "copy", "store"} THEN 1 ELSE 0)
                             + (IF pc[p] = "post" THEN 1 ELSE 0)

Spsc(p, c) == TypeOK /\ SlotConservation /\ SenderAt(p) /\ ReceiverAt(c) /\ ItemCount(p, c)

\* A sender that got a space finds a free slot, a receiver that got an item a
\* used one, and never are more slots used than there are.
LEMMA SpscRoom ==
    ASSUME NEW p, NEW c, Producers = {p}, Consumers = {c}, Spsc(p, c)
    PROVE  /\ Used(head, tail) \in 0..kSlotCount
           /\ pc[p] \in {"load", "len", "data", "store"} => Used(head, tail) < kSlotCount
           /\ pc[c] \in {"load", "copy", "store"} => Used(head, tail) > 0
  <1>0. /\ TypeOK /\ Used(head, tail) \in Nat /\ items \in Nat /\ spaces \in Nat
        /\ kSlotCount \in Nat
    <2>1. TypeOK /\ head \in Counters /\ tail \in Counters BY DEF Spsc, TypeOK
    <2>2. Used(head, tail) \in Counters BY <2>1, UsedFacts
    <2> QED BY <2>1, <2>2, ConstantFacts DEF TypeOK, Counters
  <1>1. ASSUME NEW t, NEW A
        PROVE  Holding({t}, A) = IF pc[t] \in A THEN 1 ELSE 0
    <2>1. {u \in {t} : pc[u] \in A} = IF pc[t] \in A THEN {t} ELSE {} OBVIOUS
    <2> QED BY <2>1, FS_Singleton, FS_EmptySet DEF Holding
  <1>2. /\ Holding(Producers, Stored \cup {"load"}) =
              IF pc[p] \in Stored \cup {"load"} THEN 1 ELSE 0
        /\ Holding(Consumers, {"load", "copy", "store", "post"}) =
              IF pc[c] \in {"load", "copy", "store", "post"} THEN 1 ELSE 0
    BY <1>1
  <1>3. spaces + items + (IF pc[p] \in Stored \cup {"load"} THEN 1 ELSE 0)
               + (IF pc[c] \in {"load", "copy", "store", "post"} THEN 1 ELSE 0) = kSlotCount
    BY <1>2 DEF Spsc, SlotConservation
  <1> QED BY <1>0, <1>3 DEF Spsc, ItemCount, Stored

LEMMA SpscStep ==
    ASSUME NEW p, NEW c, Producers = {p}, Consumers = {c}, Spsc(p, c), [Next]_vars
    PROVE  Spsc(p, c)'
  <1>0. /\ TypeOK /\ TypeOK' /\ SlotConservation' /\ p \in Threads /\ c \in Threads /\ p # c
        /\ items \in Nat /\ Used(head, tail) \in 0..kSlotCount
        /\ pc \in [Threads -> SenderStates \cup ReceiverStates]
        /\ reg \in [Threads -> Counters] /\ msg \in [Threads -> Content \cup {NoMsg}]
        /\ head \in Counters /\ tail \in Counters
        /\ Slot(head) \in 0..kSlotCount - 1 /\ Slot(tail) \in 0..kSlotCount - 1
        /\ slots \in [0..kSlotCount - 1 -> Content]
    <2>1. TypeOK /\ SlotConservation BY DEF Spsc
    <2>2. TypeOK' /\ SlotConservation' BY <2>1, TypeStep, SlotStep
    <2>3. p \in Threads /\ c \in Threads /\ p # c BY ShmAssumption DEF Threads
    <2>4. Used(head, tail) \in 0..kSlotCount BY SpscRoom
    <2> QED BY <2>1, <2>2, <2>3, <2>4, CounterTypes DEF TypeOK
  <1>1. SUFFICES SenderAt(p)' /\ ReceiverAt(c)' /\ ItemCount(p, c)' BY <1>0 DEF Spsc
  <1>2. SenderAt(p) /\ ReceiverAt(c) /\ ItemCount(p, c) BY DEF Spsc
  \* The sender's steps do not disturb the receiver, nor the other way round.
  <1>3. ASSUME NEW from, NEW to, Step(p, from, to),
               tail' = tail, reg'[c] = reg[c], msg'[c] = msg[c],
               Used(head, tail) > 0 => slots'[Slot(tail)] = slots[Slot(tail)]
        PROVE  ReceiverAt(c)' /\ pc'[c] = pc[c] /\ pc[p] = from /\ pc'[p] = to
    <2>1. pc'[c] = pc[c] /\ pc[p] = from /\ pc'[p] = to BY <1>0, <1>3 DEF Step
    <2>2. pc[c] \in {"copy", "store"} => slots'[Slot(tail)] = slots[Slot(tail)]
      BY <1>3, SpscRoom
    <2> QED BY <1>2, <1>3, <2>1, <2>2 DEF ReceiverAt, Slot
  <1>4. ASSUME NEW from, NEW to, Step(c, from, to),
               UNCHANGED <<head, slots>>, reg'[p] = reg[p], msg'[p] = msg[p]
        PROVE  SenderAt(p)' /\ pc'[p] = pc[p] /\ pc[c] = from /\ pc'[c] = to
    <2>1. pc'[p] = pc[p] /\ pc[c] = from /\ pc'[c] = to BY <1>0, <1>4 DEF Step
    <2> QED BY <1>2, <1>4, <2>1 DEF SenderAt, Slot
  \* The sender
  <1>5. CASE SendEnter(p) \/ SendAcquire(p) \/ SendTimeout(p) \/ SendPost(p)
    <2>1. /\ UNCHANGED <<head, tail, slots, reg>> /\ msg'[c] = msg[c]
          /\ \/ Step(p, "idle", "wait") /\ items' = items
             \/ Step(p, "wait", "load") /\ items' = items
             \/ Step(p, "wait", "idle") /\ items' = items
             \/ Step(p, "post", "idle") /\ items' = items + 1
      BY <1>0, <1>5 DEF SendEnter, SendAcquire, SendTimeout, SendPost, ring
    <2>2. /\ ReceiverAt(c)' /\ pc'[c] = pc[c] /\ pc'[p] \in {"idle", "wait", "load"}
          /\ IF pc[p] = "post" THEN items' = items + 1 ELSE items' = items
      BY <1>3, <2>1
    <2>3. SenderAt(p)' BY <2>2 DEF SenderAt
    <2>4. ItemCount(p, c)' BY <1>0, <1>2, <2>1, <2>2 DEF ItemCount, Used
    <2> QED BY <2>2, <2>3, <2>4
  <1>6. CASE SendLoad(p)
    <2>1. /\ UNCHANGED <<head, tail, slots, items, msg>> /\ Step(p, "load", "len")
          /\ reg'[p] = head /\ reg'[c] = reg[c]
      BY <1>0, <1>6 DEF SendLoad, ring
    <2>2. ReceiverAt(c)' /\ pc'[c] = pc[c] /\ pc[p] = "load" /\ pc'[p] = "len"
      BY <1>3, <2>1
    <2>3. SenderAt(p)' BY <2>1, <2>2 DEF SenderAt
    <2>4. ItemCount(p, c)' BY <1>2, <2>1, <2>2 DEF ItemCount, Used
    <2> QED BY <2>2, <2>3, <2>4
  <1>7. CASE SendLen(p) \/ SendData(p)
    <2>1. /\ UNCHANGED <<head, tail, items, reg, msg>>
          /\ pc[p] \in {"len", "data"} /\ reg[p] = head
          /\ \E from, to : Step(p, from, to) /\ to # "post"
          /\ \A i \in 0..kSlotCount - 1 : i # Slot(head) => slots'[i] = slots[i]
      BY <1>0, <1>2, <1>7, ZenonT(60) DEF SendLen, SendData, Step, SenderAt
    <2>2. Used(head, tail) > 0 => Slot(tail) # Slot(head)
      <3>1. SUFFICES ASSUME Used(head, tail) > 0 PROVE Slot(tail) # Slot(head) OBVIOUS
      <3>2. Used(head, tail) < kSlotCount BY <2>1, SpscRoom
      <3>3. Slot(tail + 0) # Slot(head) BY <1>0, <3>1, <3>2, FreeSlot
      <3>4. tail + 0 = tail BY <1>0 DEF Counters
      <3> QED BY <3>3, <3>4
    <2>3. /\ ReceiverAt(c)' /\ pc'[c] = pc[c] /\ pc'[p] # "post" /\ pc[p] # "post"
      BY <1>0, <1>3, <2>1, <2>2
    <2>4. SenderAt(p)'
      <3>1. CASE SendLen(p)
        <4>1. pc'[p] = "data" /\ slots'[Slot(head)].len = msg[p].len
          BY <1>0, <2>1, <3>1 DEF SendLen, Step, Content
        <4> QED BY <2>1, <4>1 DEF SenderAt, Slot
      <3>2. CASE SendData(p)
        <4>1. pc'[p] = "store" /\ pc[p] = "data" /\ slots[Slot(head)].len = msg[p].len
          BY <1>0, <1>2, <3>2 DEF SendData, Step, SenderAt
        <4>2. /\ slots'[Slot(head)].len = slots[Slot(head)].len
              /\ msg[p].len # 0 => slots'[Slot(head)].val = msg[p].val
          BY <1>0, <2>1, <3>2 DEF SendData, Content
        <4> QED BY <2>1, <4>1, <4>2 DEF SenderAt, Slot
      <3> QED BY <1>7, <3>1, <3>2
    <2>5. ItemCount(p, c)' BY <1>2, <2>1, <2>3 DEF ItemCount, Used
    <2> QED BY <2>3, <2>4, <2>5
  <1>8. CASE SendStore(p)
    <2>1. /\ UNCHANGED <<tail, slots, items, reg, msg>> /\ Step(p, "store", "post")
          /\ head' = Increment(reg[p])
      BY <1>8 DEF SendStore
    <2>2. ReceiverAt(c)' /\ pc'[c] = pc[c] /\ pc[p] = "store" /\ pc'[p] = "post"
      BY <1>3, <2>1
    <2>3. head' = Increment(head) /\ Used(head, tail) < kSlotCount
      BY <1>2, <2>1, <2>2, SpscRoom DEF SenderAt
    <2>4. Used(head, tail)' = Used(head, tail) + 1
      BY <1>0, <2>1, <2>3, UsedGrows DEF Used
    <2>5. ItemCount(p, c)' BY <1>0, <1>2, <2>1, <2>2, <2>4 DEF ItemCount
    <2>6. SenderAt(p)' BY <2>2 DEF SenderAt
    <2> QED BY <2>2, <2>5, <2>6
  \* The receiver
  <1>9. CASE RecvEnter(c) \/ RecvAcquire(c) \/ RecvTimeout(c) \/ RecvPost(c)
    <2>1. /\ UNCHANGED <<head, tail, slots, reg, msg>>
          /\ \/ Step(c, "idle", "wait") /\ items' = items
             \/ Step(c, "wait", "load") /\ items' = items - 1
             \/ Step(c, "wait", "idle") /\ items' = items
             \/ Step(c, "post", "idle") /\ items' = items
      BY <1>9 DEF RecvEnter, RecvAcquire, RecvTimeout, RecvPost, ring
    <2>2. /\ SenderAt(p)' /\ pc'[p] = pc[p] /\ pc[c] \in {"idle", "wait", "post"}
          /\ pc'[c] \in {"idle", "wait", "load"}
          /\ IF pc'[c] = "load" THEN items' = items - 1 ELSE items' = items
      BY <1>4, <2>1
    <2>3. ReceiverAt(c)' BY <2>2 DEF ReceiverAt
    <2>4. ItemCount(p, c)' BY <1>0, <1>2, <2>1, <2>2 DEF ItemCount, Used
    <2> QED BY <2>2, <2>3, <2>4
  <1>10. CASE RecvLoad(c)
    <2>1. slots[Slot(tail)] \in Content BY <1>0
    <2>2. Step(c, "load", "copy")
      <3>1. ~(slots[Slot(tail)].len > kSlotPayloadMax) BY <2>1, ConstantFacts DEF Content
      <3> QED BY <1>10, <3>1 DEF RecvLoad
    <2>3. /\ UNCHANGED <<head, tail, slots, items>>
          /\ reg'[c] = tail /\ reg'[p] = reg[p] /\ msg'[p] = msg[p]
          /\ msg'[c] = [len |-> slots[Slot(tail)].len, val |-> NoVal]
      BY <1>0, <1>10 DEF RecvLoad, ring
    <2>4. SenderAt(p)' /\ pc'[p] = pc[p] /\ pc[c] = "load" /\ pc'[c] = "copy"
      BY <1>4, <2>2, <2>3
    <2>5. ReceiverAt(c)' BY <2>3, <2>4 DEF ReceiverAt, Slot
    <2>6. ItemCount(p, c)' BY <1>2, <2>3, <2>4 DEF ItemCount, Used
    <2> QED BY <2>4, <2>5, <2>6
  <1>11. CASE RecvCopy(c)
    <2>1. /\ UNCHANGED <<head, tail, slots, items, reg>> /\ Step(c, "copy", "store")
          /\ msg'[p] = msg[p] /\ pc[c] = "copy"
      BY <1>0, <1>11 DEF RecvCopy, Step, ring
    <2>2. msg[c] \in Content /\ reg[c] = tail BY <1>0, <1>2, <2>1 DEF TypeOK, ReceiverAt
    <2>3. /\ msg'[c].len = msg[c].len
          /\ msg'[c].val = IF msg[c].len = 0 THEN NoVal ELSE slots[Slot(tail)].val
      <3>1. /\ msg[c].val = NoVal
            /\ msg' = IF msg[c].len = 0 THEN msg
                      ELSE [msg EXCEPT ![c] = [msg[c] EXCEPT !.val = slots[Slot(tail)].val]]
        BY <1>2, <1>11, <2>1, <2>2 DEF RecvCopy, ReceiverAt
      <3>2. CASE msg[c].len = 0 BY <3>1, <3>2
      <3>3. CASE msg[c].len # 0
        <4>1. msg'[c] = [msg[c] EXCEPT !.val = slots[Slot(tail)].val] BY <1>0, <3>1, <3>3
        <4> QED BY <2>2, <3>3, <4>1 DEF Content
      <3> QED BY <3>2, <3>3
    <2>4. SenderAt(p)' /\ pc'[p] = pc[p] /\ pc'[c] = "store" BY <1>4, <2>1
    <2>5. ReceiverAt(c)' BY <1>2, <2>1, <2>2, <2>3, <2>4 DEF ReceiverAt, Slot
    <2>6. ItemCount(p, c)' BY <1>2, <2>1, <2>4 DEF ItemCount, Used
    <2> QED BY <2>4, <2>5, <2>6
  <1>12. CASE RecvStore(c)
    <2>1. /\ UNCHANGED <<head, slots, items, reg, msg>> /\ Step(c, "store", "post")
          /\ tail' = Increment(reg[c])
      BY <1>12 DEF RecvStore
    <2>2. SenderAt(p)' /\ pc'[p] = pc[p] /\ pc[c] = "store" /\ pc'[c] = "post"
      BY <1>4, <2>1
    <2>3. tail' = Increment(tail) /\ Used(head, tail) > 0
      BY <1>2, <2>1, <2>2, SpscRoom DEF ReceiverAt
    <2>4. Used(head, tail)' = Used(head, tail) - 1
      BY <1>0, <2>1, <2>3, UsedShrinks DEF Used
    <2>5. ItemCount(p, c)' BY <1>0, <1>2, <2>1, <2>2, <2>4 DEF ItemCount
    <2>6. ReceiverAt(c)' BY <2>2 DEF ReceiverAt
    <2> QED BY <2>2, <2>5, <2>6
  <1>13. CASE (\E s \in Sides : Close(s) \/ Crash(s)) \/ UNCHANGED vars
    <2>1. UNCHANGED <<head, tail, slots, items, pc, reg, msg>>
      BY <1>13 DEF Close, Crash, vars, ring
    <2> QED BY <1>2, <2>1 DEF SenderAt, ReceiverAt, ItemCount, Used, Slot
  <1> QED BY <1>5, <1>6, <1>7, <1>8, <1>9, <1>10, <1>11, <1>12, <1>13
        DEF Next, SendRun, RecvRun, SendRejected, RecvClosed

\* What a slot says to recv(): the bytes of an empty message are not looked at.
Message(slot) == [len |-> slot.len, val |-> IF slot.len = 0 THEN NoVal ELSE slot.val]

\* The messages in the slots sl from counter t up to counter h.
Between(h, t, sl) == [i \in 1..Used(h, t) |-> Message(sl[Slot(t + i - 1)])]

LEMMA ChanFacts ==
    /\ Chan = Between(head, tail, slots)
    /\ Chan' = Between(head', tail', slots')
  BY DEF Chan, InRing, Between, Message, Used, Slot

LEMMA BetweenFacts ==
    ASSUME NEW h \in Counters, NEW t \in Counters, NEW sl \in [0..kSlotCount - 1 -> Content]
    PROVE  /\ Used(h, t) \in Nat /\ t \in Nat
           /\ Between(h, t, sl) \in Seq(Content) /\ Len(Between(h, t, sl)) = Used(h, t)
           /\ \A i \in 1..Used(h, t) :
                 /\ Slot(t + i - 1) \in 0..kSlotCount - 1
                 /\ Between(h, t, sl)[i] = Message(sl[Slot(t + i - 1)])
  <1> DEFINE n == Used(h, t)
             b == Between(h, t, sl)
  <1>1. n \in Nat /\ t \in Nat
    <2>1. n \in Counters BY UsedFacts
    <2> QED BY <2>1, ConstantFacts DEF Counters
  <1>2. b = [i \in 1..n |-> Message(sl[Slot(t + i - 1)])] BY DEF Between
  <1> HIDE DEF n, b
  <1>3. ASSUME NEW i \in 1..n
        PROVE  /\ Slot(t + i - 1) \in 0..kSlotCount - 1
               /\ Message(sl[Slot(t + i - 1)]) \in Content
    <2>1. t + i - 1 \in Int BY <1>1
    <2>2. Slot(t + i - 1) \in 0..kSlotCount - 1 BY <2>1, ConstantFacts, DivMod DEF Slot
    <2>3. sl[Slot(t + i - 1)] \in Content BY <2>2
    <2> QED BY <2>2, <2>3 DEF Message, Content
  <1>4. b \in [1..n -> Content] BY <1>2, <1>3
  <1>5. b \in Seq(Content) /\ Len(b) = n BY <1>1, <1>4
  <1> QED BY <1>1, <1>2, <1>3, <1>5 DEF n, b

\* Sequences with the same length and the same elements are equal.
LEMMA SeqEqual ==
    ASSUME NEW S, NEW x \in Seq(S), NEW y \in Seq(S), NEW n \in Nat,
           Len(x) = n, Len(y) = n, \A i \in 1..n : x[i] = y[i]
    PROVE  x = y
  OBVIOUS

LEMMA ChanUnchanged == ASSUME UNCHANGED ring PROVE Chan' = Chan
  BY DEF ring, Chan, InRing, Slot

\* Every step of the ring is a step of the FIFO, or leaves it as it is: the
\* store of head is the send, the store of tail the reception.
LEMMA FifoStep ==
    ASSUME NEW p, NEW c, Producers = {p}, Consumers = {c}, Spsc(p, c), [Next]_vars
    PROVE  [Fifo!Next]_Fifo!vars
  <1> DEFINE n == Used(head, tail)
             up == \A s \in Sides : side[s] = "open"
  <1>0. /\ TypeOK /\ TypeOK' /\ head \in Counters /\ tail \in Counters
        /\ head' \in Counters /\ tail' \in Counters
        /\ Spsc(p, c)' /\ SenderAt(p) /\ ReceiverAt(c)
        /\ p \in Threads /\ c \in Threads
    <2>1. Spsc(p, c)' BY SpscStep
    <2> QED BY <2>1 DEF Spsc, TypeOK, Threads
  <1>1. /\ n \in Nat /\ tail \in Nat /\ Chan \in Seq(Content) /\ Len(Chan) = n
        /\ \A i \in 1..n : /\ Slot(tail + i - 1) \in 0..kSlotCount - 1
                           /\ Chan[i] = Message(slots[Slot(tail + i - 1)])
    BY <1>0, ChanFacts, BetweenFacts DEF TypeOK
  <1>2. /\ tail' \in Nat /\ Chan' \in Seq(Content) /\ Len(Chan') = Used(head', tail')
         /\ \A i \in 1..Used(head', tail') :
               Chan'[i] = Message(slots'[Slot(tail' + i - 1)])
    <2>1. slots' \in [0..kSlotCount - 1 -> Content] BY <1>0 DEF TypeOK
    <2> QED BY <1>0, <2>1, ChanFacts, BetweenFacts
  \* A step that leaves the ring and the sides alone.
  <1>3. ASSUME Chan' = Chan, UNCHANGED <<side, out>> PROVE [Fifo!Next]_Fifo!vars
    BY <1>3 DEF Fifo!vars
  <1>4. ASSUME NEW t \in Threads, NEW from, NEW to, Step(t, from, to), UNCHANGED <<ring, out>>
        PROVE  [Fifo!Next]_Fifo!vars
    BY <1>3, <1>4, ChanUnchanged DEF Step
  <1>5. CASE \/ SendEnter(p) \/ SendAcquire(p) \/ SendTimeout(p) \/ SendLoad(p) \/ SendPost(p)
    BY <1>0, <1>4, <1>5 DEF SendEnter, SendAcquire, SendTimeout, SendLoad, SendPost
  <1>6. CASE \/ RecvEnter(c) \/ RecvAcquire(c) \/ RecvTimeout(c) \/ RecvLoad(c) \/ RecvCopy(c)
             \/ RecvPost(c)
    BY <1>0, <1>4, <1>6 DEF RecvEnter, RecvAcquire, RecvTimeout, RecvLoad, RecvCopy, RecvPost
  \* The sender writes to a slot that the channel does not use yet.
  <1>7. CASE SendLen(p) \/ SendData(p)
    <2>1. /\ UNCHANGED <<head, tail, side, out>>
          /\ pc[p] \in {"len", "data"} /\ reg[p] = head
      BY <1>0, <1>7 DEF SendLen, SendData, Step, SenderAt
    <2>2. \A i \in 0..kSlotCount - 1 : i # Slot(head) => slots'[i] = slots[i]
      BY <1>0, <1>7, <2>1, CounterTypes DEF SendLen, SendData, TypeOK
    <2>3. n < kSlotCount BY <2>1, SpscRoom
    <2>4. ASSUME NEW i \in 1..n
          PROVE  slots'[Slot(tail + i - 1)] = slots[Slot(tail + i - 1)]
      <3>1. i - 1 \in Nat /\ i - 1 < n /\ tail + (i - 1) = tail + i - 1 BY <1>1
      <3>2. Slot(tail + i - 1) # Slot(head) BY <1>0, <2>3, <3>1, FreeSlot
      <3> QED BY <1>1, <2>2, <3>2
    <2>5. Chan' = Chan BY <2>1, <2>4, ChanFacts DEF Between
    <2> QED BY <1>3, <2>1, <2>5
  <1>8. CASE SendStore(p)
    <2>1. /\ UNCHANGED <<tail, slots, side, out>> /\ pc[p] = "store"
          /\ head' = Increment(head)
      BY <1>0, <1>8 DEF SendStore, Step, SenderAt
    <2>2. n < kSlotCount BY <2>1, SpscRoom
    <2>3. Used(head', tail') = n + 1 BY <1>0, <2>1, <2>2, UsedGrows
    <2>4. Slot(tail + n) = Slot(head) BY <1>0, UsedFacts
    <2>5. msg[p] \in Fitting /\ msg[p] \in Content /\ msg[p] \in Msgs
      BY <1>0, <2>1, ConstantFacts DEF TypeOK, Fitting
    <2>6. Message(slots[Slot(head)]) = msg[p]
      <3>1. /\ msg[p] = [len |-> msg[p].len, val |-> msg[p].val]
            /\ msg[p].len = 0 => msg[p].val = NoVal
        BY <2>5, ShmAssumption
      <3>2. /\ slots[Slot(head)].len = msg[p].len
            /\ msg[p].len # 0 => slots[Slot(head)].val = msg[p].val
        BY <1>0, <2>1 DEF SenderAt
      <3>3. (IF slots[Slot(head)].len = 0 THEN NoVal ELSE slots[Slot(head)].val) = msg[p].val
        BY <3>1, <3>2
      <3> QED BY <3>1, <3>2, <3>3 DEF Message
    <2>7. /\ Chan' \in Seq(Content) /\ Len(Chan') = n + 1
          /\ \A i \in 1..n + 1 : Chan'[i] = Message(slots[Slot(tail + i - 1)])
      BY <1>2, <2>1, <2>3
    <2> HIDE DEF n
    <2>8. Chan'[n + 1] = msg[p]
      <3>1. tail + (n + 1) - 1 = tail + n /\ n + 1 \in 1..n + 1 BY <1>1
      <3> QED BY <2>4, <2>6, <2>7, <3>1
    <2>9. Chan' = Append(Chan, msg[p])
      <3>1. /\ Append(Chan, msg[p]) \in Seq(Content) /\ Len(Append(Chan, msg[p])) = n + 1
            /\ \A i \in 1..n : Append(Chan, msg[p])[i] = Chan[i]
            /\ Append(Chan, msg[p])[n + 1] = msg[p]
        BY <1>1, <2>5
      <3>2. \A i \in 1..n + 1 : Chan'[i] = Append(Chan, msg[p])[i]
        BY <1>1, <2>7, <2>8, <3>1
      <3> QED BY <2>7, <3>1, <3>2, SeqEqual
    <2>10. Fifo!Send BY <1>1, <2>1, <2>2, <2>5, <2>9 DEF Fifo!Send, Fitting, n
    <2> QED BY <2>10 DEF Fifo!Next
  <1>9. CASE RecvStore(c)
    <2>1. /\ UNCHANGED <<head, slots, side>> /\ pc[c] = "store" /\ out' = msg[c]
          /\ tail' = Increment(tail)
      BY <1>0, <1>9 DEF RecvStore, Step, ReceiverAt
    <2>2. n > 0 BY <2>1, SpscRoom
    <2>3. /\ Used(head', tail') = n - 1
          /\ \A i \in Nat : Slot(tail' + i) = Slot(tail + 1 + i)
      BY <1>0, <2>1, <2>2, UsedShrinks
    <2>4. msg[c] \in Content BY <1>0, <2>1 DEF TypeOK
    <2>5. Message(slots[Slot(tail)]) = msg[c]
      <3>1. msg[c] = [len |-> msg[c].len, val |-> msg[c].val] BY <2>4 DEF Content
      <3>2. /\ slots[Slot(tail)].len = msg[c].len
            /\ msg[c].val = IF msg[c].len = 0 THEN NoVal ELSE slots[Slot(tail)].val
        BY <1>0, <2>1 DEF ReceiverAt
      <3> QED BY <3>1, <3>2 DEF Message
    <2>6. Head(Chan) = msg[c] /\ Chan # <<>>
      <3>1. 1 \in 1..n /\ tail + 1 - 1 = tail BY <1>1, <2>2
      <3>2. Chan[1] = msg[c] BY <1>1, <2>5, <3>1
      <3> HIDE DEF n
      <3> QED BY <1>1, <2>2, <3>2
    <2>7. /\ Chan' \in Seq(Content) /\ Len(Chan') = n - 1 /\ tail' \in Nat
          /\ \A i \in 1..n - 1 : Chan'[i] = Message(slots[Slot(tail' + i - 1)])
      BY <1>2, <2>1, <2>3
    <2> HIDE DEF n
    <2>8. Chan' = Tail(Chan)
      <3>1. /\ Tail(Chan) \in Seq(Content) /\ Len(Tail(Chan)) = n - 1
            /\ \A i \in 1..n - 1 : Tail(Chan)[i] = Chan[i + 1]
        BY <1>1, <2>2
      <3>2. ASSUME NEW i \in 1..n - 1 PROVE Chan'[i] = Tail(Chan)[i]
        <4>0. n \in Nat /\ tail \in Nat /\ tail' \in Nat BY <1>1, <2>7
        <4>1. /\ i - 1 \in Nat /\ i + 1 \in 1..n
              /\ tail' + (i - 1) = tail' + i - 1 /\ tail + 1 + (i - 1) = tail + (i + 1) - 1
          BY <4>0
        <4>2. Slot(tail' + (i - 1)) = Slot(tail + 1 + (i - 1)) BY <2>3, <4>1
        <4>3. Slot(tail' + i - 1) = Slot(tail + (i + 1) - 1) BY <4>1, <4>2
        <4> QED BY <1>1, <2>7, <3>1, <4>1, <4>3
      <3> QED BY <2>7, <3>1, <3>2, SeqEqual
    <2>9. Fifo!Recv BY <2>1, <2>6, <2>8 DEF Fifo!Recv
    <2> QED BY <2>9 DEF Fifo!Next
  <1>10. ASSUME NEW s \in Sides, Close(s) \/ Crash(s) PROVE [Fifo!Next]_Fifo!vars
    <2>1. UNCHANGED <<ring, out>> /\ side'[s] # "open"
      BY <1>0, <1>10 DEF Close, Crash, TypeOK
    <2>2. Fifo!Down BY <1>10, <2>1, ChanUnchanged DEF Fifo!Down
    <2> QED BY <2>2 DEF Fifo!Next
  <1>11. CASE UNCHANGED vars BY <1>3, <1>11, ChanUnchanged DEF vars
  <1> QED BY <1>5, <1>6, <1>7, <1>8, <1>9, <1>10, <1>11
        DEF Next, SendRun, RecvRun, SendRejected, RecvClosed

\* For one sender and one receiver the ring implements the bounded FIFO, all but
\* its liveness: messages arrive whole, once and in order, and no send()
\* overwrites one that is not received, over any number of turns of the
\* 32-bit counters, whoever times out, closes or crashes at whichever step.
THEOREM RingIsFifo ==
    ASSUME NEW p, NEW c, Producers = {p}, Consumers = {c}
    PROVE  Spec => Fifo!Init /\ [][Fifo!Next]_Fifo!vars
  <1>1. Init => Spsc(p, c) /\ Fifo!Init
    <2> SUFFICES ASSUME Init PROVE Spsc(p, c) /\ Fifo!Init OBVIOUS
    <2>1. TypeOK /\ SlotConservation BY TypeInit, SlotInit
    <2>2. pc[p] = "idle" /\ pc[c] = "idle" BY DEF Init, Threads
    <2>3. Used(head, tail) = 0 /\ 0 \in Counters
      BY ConstantFacts, UsedFacts DEF Init
    <2>4. Spsc(p, c)
      BY <2>1, <2>2, <2>3 DEF Spsc, SenderAt, ReceiverAt, ItemCount, Init
    <2>5. Chan = <<>>
      <3>1. Chan \in Seq(Content) /\ Len(Chan) = 0
        BY <2>1, <2>3, ChanFacts, BetweenFacts DEF TypeOK
      <3> QED BY <3>1
    <2>6. \A s \in Sides : side[s] = "open" BY DEF Init
    <2>7. Fifo!Init BY <2>5, <2>6 DEF Fifo!Init, Init
    <2> QED BY <2>4, <2>7
  <1>2. Spsc(p, c) /\ [Next]_vars => Spsc(p, c)' /\ [Fifo!Next]_Fifo!vars
    BY SpscStep, FifoStep
  <1> QED BY <1>1, <1>2, PTL DEF Spec
=============================================================================
