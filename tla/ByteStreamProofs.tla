-------------------------- MODULE ByteStreamProofs --------------------------
(***************************************************************************)
(* What the operators of ByteStream and CondVar preserve, for queues of    *)
(* any length: the lemmas the proofs about MessageQueue and QosPipe cite.  *)
(***************************************************************************)
EXTENDS ByteStream, CondVar, FiniteSetTheorems, TLAPS

\* Inductive form of EndOfStream: offsets are ordered along the whole queue,
\* not only between neighbours.
Ordered(q, e) ==
    /\ \A i \in 1..Len(q) : q[i].at + q[i].size <= e
    /\ \A i, j \in 1..Len(q) : i < j => q[i].at + q[i].size <= q[j].at

IsStream(q, bytes, e) == EndOfStream(q, bytes, e) /\ Ordered(q, e)

\* pop_front() k times leaves the messages after the k-th, in order.
LEMMA DropProperties ==
    ASSUME NEW S, NEW q \in Seq(S), NEW k \in 0..Len(q)
    PROVE  /\ Drop(q, k) \in Seq(S)
           /\ Len(Drop(q, k)) = Len(q) - k
           /\ \A i \in 1..(Len(q) - k) : Drop(q, k)[i] = q[i + k]
           /\ Drop(q, k) = <<>> <=> k = Len(q)
           /\ k = 0 => Drop(q, k) = q
  BY DEF Drop

\* push_back() adds one message at the end.
LEMMA AppendFacts ==
    ASSUME NEW S, NEW q \in Seq(S), NEW m
    PROVE  /\ Len(Append(q, m)) = Len(q) + 1 /\ Append(q, m)[Len(q) + 1] = m
           /\ \A i \in 1..Len(q) : Append(q, m)[i] = q[i]
  OBVIOUS

\* The fields of a queued message have their types.
LEMMA EntryFields ==
    ASSUME NEW q \in Seq(Entry)
    PROVE  \A i \in 1..Len(q) : /\ q[i] \in Entry
                                /\ q[i].at \in Nat /\ q[i].size \in Nat
                                /\ q[i].id \in Nat /\ q[i].deadline \in Nat
  <1> TAKE i \in 1..Len(q)
  <1>1. q[i] \in Entry OBVIOUS
  <1> QED BY <1>1 DEF Entry

\* Dropping k messages and the bytes of k messages leaves the end of the
\* stream, and the counter neither underflows nor grows.
LEMMA DropStream ==
    ASSUME NEW q \in Seq(Entry), NEW b \in Nat, NEW e \in Nat,
           IsStream(q, b, e), NEW k \in 0..Len(q)
    PROVE  /\ b - PrefixBytes(q, k) \in 0..b
           /\ IsStream(Drop(q, k), b - PrefixBytes(q, k), e)
           /\ k = Len(q) => b - PrefixBytes(q, k) = 0
  <1> DEFINE r == Drop(q, k)
             c == b - PrefixBytes(q, k)
  <1>1. /\ r \in Seq(Entry) /\ Len(r) = Len(q) - k
        /\ \A i \in 1..(Len(q) - k) : r[i] = q[i + k]
        /\ r = <<>> <=> k = Len(q)
        /\ k = 0 => r = q
    BY DropProperties
  <1>2. \A i \in 1..Len(q) : q[i].at \in Nat /\ q[i].size \in Nat
    BY EntryFields
  <1>3. CASE k = 0
    <2>1. c = b BY <1>3 DEF PrefixBytes
    <2>2. k = Len(q) => b = 0 BY <1>3 DEF IsStream, EndOfStream
    <2> QED BY <1>1, <1>3, <2>1, <2>2
  <1>4. CASE k # 0
    <2>1. k \in 1..Len(q) /\ q # <<>> /\ 1 \in 1..Len(q) BY <1>4
    <2>2. b = e - q[1].at BY <2>1 DEF IsStream, EndOfStream
    <2>3. PrefixBytes(q, k) = (q[k].at + q[k].size) - q[1].at
      BY <1>4 DEF PrefixBytes
    <2>4. c = e - (q[k].at + q[k].size) BY <1>2, <2>1, <2>2, <2>3
    <2>5. q[k].at + q[k].size <= e BY <2>1 DEF IsStream, Ordered
    <2>6. q[1].at <= q[k].at + q[k].size
      <3>1. CASE k = 1 BY <3>1, <1>2, <2>1
      <3>2. CASE k # 1
        <4>1. q[1].at + q[1].size <= q[k].at BY <3>2, <2>1 DEF IsStream, Ordered
        <4> QED BY <4>1, <1>2, <2>1, SMTT(30)
      <3> QED BY <3>1, <3>2
    <2>7. c \in 0..b BY <1>2, <2>1, <2>2, <2>4, <2>5, <2>6, SMTT(30)
    <2>8. q[k].at + q[k].size = IF k = Len(q) THEN e ELSE q[k + 1].at
      BY <2>1 DEF IsStream, EndOfStream
    <2>9. k = Len(q) => c = 0 BY <1>2, <2>1, <2>4, <2>8
    <2>10. r # <<>> => c = e - r[1].at
      <3> HAVE r # <<>>
      <3>1. k < Len(q) /\ 1 \in 1..(Len(q) - k) BY <1>1, <2>1
      <3>2. r[1] = q[1 + k] BY <1>1, <3>1
      <3> QED BY <2>4, <2>8, <3>1, <3>2, <2>1
    <2>11. \A i \in 1..Len(r) :
              r[i].at + r[i].size = IF i = Len(r) THEN e ELSE r[i + 1].at
      <3> TAKE i \in 1..Len(r)
      <3>1. i + k \in 1..Len(q) /\ r[i] = q[i + k] BY <1>1
      <3>2. q[i + k].at + q[i + k].size =
               IF i + k = Len(q) THEN e ELSE q[i + k + 1].at
        BY <3>1 DEF IsStream, EndOfStream
      <3>3. i # Len(r) => r[i + 1] = q[i + 1 + k] /\ i + 1 + k = i + k + 1
        <4> HAVE i # Len(r)
        <4>0. Len(r) = Len(q) - k /\ Len(q) \in Nat BY <1>1
        <4>1. i + 1 \in 1..(Len(q) - k) BY <4>0
        <4>2. r[i + 1] = q[(i + 1) + k] BY <1>1, <4>1
        <4> QED BY <4>1, <4>2
      <3> QED BY <1>1, <3>1, <3>2, <3>3
    <2>12. Ordered(r, e)
      <3>1. \A i \in 1..Len(r) : i + k \in 1..Len(q) /\ r[i] = q[i + k] BY <1>1
      <3>2. \A i, j \in 1..Len(r) : i < j => i + k < j + k BY <1>1
      <3> QED BY <3>1, <3>2 DEF IsStream, Ordered
    <2> QED BY <1>1, <2>7, <2>9, <2>10, <2>11, <2>12 DEF IsStream, EndOfStream
  <1> QED BY <1>3, <1>4

\* Appending a message stamped with the end of the stream keeps it a stream.
LEMMA AppendStream ==
    ASSUME NEW q \in Seq(Entry), NEW b \in Nat, NEW e \in Nat,
           IsStream(q, b, e), NEW m \in Entry, m.at = e
    PROVE  IsStream(Append(q, m), b + m.size, e + m.size)
  <1> DEFINE r == Append(q, m)
  <1>1. /\ r \in Seq(Entry) /\ Len(r) = Len(q) + 1
        /\ \A i \in 1..Len(q) : r[i] = q[i]
        /\ r[Len(q) + 1] = m /\ r # <<>>
    OBVIOUS
  <1>2. \A i \in 1..Len(q) : q[i].at \in Nat /\ q[i].size \in Nat
    BY EntryFields
  <1>3. m.at \in Nat /\ m.size \in Nat BY DEF Entry
  <1>4. b + m.size = (e + m.size) - r[1].at
    <2>1. CASE q = <<>>
      <3>1. Len(q) = 0 /\ b = 0 BY <2>1 DEF IsStream, EndOfStream
      <3> QED BY <3>1, <1>1, <1>3
    <2>2. CASE q # <<>>
      <3>1. 1 \in 1..Len(q) /\ b = e - q[1].at
        BY <2>2 DEF IsStream, EndOfStream
      <3> QED BY <3>1, <1>1, <1>2, <1>3
    <2> QED BY <2>1, <2>2
  <1>5. \A i \in 1..Len(r) :
            r[i].at + r[i].size = IF i = Len(r) THEN e + m.size ELSE r[i + 1].at
    <2> TAKE i \in 1..Len(r)
    <2>1. CASE i = Len(q) + 1 BY <2>1, <1>1, <1>3
    <2>2. CASE i # Len(q) + 1
      <3>1. i \in 1..Len(q) /\ r[i] = q[i] /\ i # Len(r) BY <2>2, <1>1
      <3>2. q[i].at + q[i].size = IF i = Len(q) THEN e ELSE q[i + 1].at
        BY <3>1 DEF IsStream, EndOfStream
      <3>3. i # Len(q) => i + 1 \in 1..Len(q) BY <3>1
      <3> QED BY <1>1, <3>1, <3>2, <3>3
    <2> QED BY <2>1, <2>2
  <1>6. Ordered(r, e + m.size)
    <2>1. ASSUME NEW i \in 1..Len(r) PROVE r[i].at + r[i].size <= e + m.size
      <3>1. CASE i = Len(q) + 1 BY <3>1, <1>1, <1>3
      <3>2. CASE i # Len(q) + 1
        <4>1. i \in 1..Len(q) /\ r[i] = q[i] BY <3>2, <1>1
        <4>2. q[i].at + q[i].size <= e BY <4>1 DEF IsStream, Ordered
        <4> QED BY <4>1, <4>2, <1>2, <1>3, SMTT(30)
      <3> QED BY <3>1, <3>2
    <2>2. ASSUME NEW i \in 1..Len(r), NEW j \in 1..Len(r), i < j
          PROVE  r[i].at + r[i].size <= r[j].at
      <3>1. i \in 1..Len(q) /\ r[i] = q[i] BY <2>2, <1>1
      <3>2. CASE j = Len(q) + 1
        <4>1. q[i].at + q[i].size <= e BY <3>1 DEF IsStream, Ordered
        <4> QED BY <4>1, <3>1, <3>2, <1>1
      <3>3. CASE j # Len(q) + 1
        <4>1. j \in 1..Len(q) /\ r[j] = q[j] BY <3>3, <1>1
        <4> QED BY <3>1, <4>1, <2>2 DEF IsStream, Ordered
      <3> QED BY <3>2, <3>3
    <2> QED BY <2>1, <2>2 DEF Ordered
  <1> QED BY <1>1, <1>4, <1>5, <1>6 DEF IsStream, EndOfStream

\* notify_one() n times: threads keep their state or go from "wait" to
\* "woken"; either n of them do, or nobody is left waiting.
LEMMA NotifyProperties ==
    ASSUME NEW S, IsFiniteSet(S), NEW T, "woken" \in T, NEW st \in [S -> T],
           NEW n \in Nat, NEW st2 \in NotifyN(st, S, n)
    PROVE  \E W \in SUBSET Waiting(st, S) :
              /\ st2 = Wake(st, S, W) /\ st2 \in [S -> T]
              /\ IsFiniteSet(W)
              /\ Cardinality(W) = n \/ Waiting(st2, S) = {}
              /\ n > 0 /\ Waiting(st, S) # {} => W # {}
  <1>1. PICK W \in SUBSET Waiting(st, S) :
            /\ st2 = Wake(st, S, W)
            /\ Cardinality(W) = n \/ W = Waiting(st, S)
    BY DEF NotifyN
  <1>2. st2 \in [S -> T] BY <1>1 DEF Wake
  <1>3. IsFiniteSet(W) BY FS_Subset DEF Waiting
  <1>4. W = Waiting(st, S) => Waiting(st2, S) = {}
    BY <1>1 DEF Waiting, Wake
  <1>5. n > 0 /\ Waiting(st, S) # {} => W # {}
    BY <1>1, FS_EmptySet
  <1> QED BY <1>1, <1>2, <1>3, <1>4, <1>5
=============================================================================
