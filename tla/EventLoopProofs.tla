-------------------------- MODULE EventLoopProofs --------------------------
(***************************************************************************)
(* Theorems about EventLoop and its Channel: no message is lost, repeated  *)
(* or overtaken between a pipe and a consumer, and no receiver sleeps on   *)
(* a message of the Channel or through its close().                        *)
(***************************************************************************)
EXTENDS EventLoop, ByteStreamProofs

-----------------------------------------------------------------------------
(* Types *)

ConsumerStates == {"idle", "wait", "woken", "done"}

\* A message is known by its pipe and its number.
Letter == Pipes \X Nat

LoopState == [pc : {"new", "lock", "poll", "done"}, i : Nat, active : BOOLEAN]

TypeOK ==
    /\ sent \in [Pipes -> Nat] /\ got \in [Pipes -> Nat]
    /\ inbox \in [Pipes -> Seq(Letter)] /\ queue_ \in Seq(Letter)
    /\ pipes_ \in Seq(Pipes)
    /\ loop \in LoopState
    /\ loop.pc = "poll" => loop.i > 0
    /\ running_ \in BOOLEAN /\ closed_ \in BOOLEAN
    /\ cons \in [Consumers -> ConsumerStates]

\* What is left in a pipe are the last messages it was sent, in order.
InboxTail ==
    \A p \in Pipes :
        /\ Len(inbox[p]) <= sent[p]
        /\ \A n \in 1..Len(inbox[p]) : inbox[p][n] = <<p, sent[p] - Len(inbox[p]) + n>>

\* A callback has been given the front message m of p, and sends it.
Delivering(p) ==
    /\ inbox[p] # <<>> /\ inbox' = [inbox EXCEPT ![p] = Tail(@)]
    /\ ChannelSend(Head(inbox[p])) /\ UNCHANGED <<sent, got, closed_>>

\* A consumer takes the front of the Channel.
Taking == \E t \in Consumers :
    /\ queue_ # <<>> /\ cons[t] \in {"idle", "woken"} /\ Take(t, "idle")
    /\ UNCHANGED <<sent, inbox, closed_>>

\* A consumer finds the Channel empty.
Finding == \E t \in Consumers :
    /\ queue_ = <<>> /\ cons[t] \in {"idle", "woken"}
    /\ cons' = [cons EXCEPT ![t] = IF closed_ THEN "done" ELSE "wait"]
    /\ UNCHANGED <<sent, inbox, queue_, closed_, got>>

Sending(p) ==
    /\ sent' = [sent EXCEPT ![p] = @ + 1]
    /\ inbox' = [inbox EXCEPT ![p] = Append(@, <<p, sent[p] + 1>>)]
    /\ UNCHANGED channel

Closing == closed_' = TRUE /\ cons' = NotifyAll(cons, Consumers)
           /\ UNCHANGED <<sent, inbox, queue_, got>>

\* The rest of the system leaves messages and consumers alone.
Elsewhere == UNCHANGED <<sent, inbox, queue_, closed_, cons, got>>

\* A step, as far as the messages and the consumers are concerned.
LEMMA StepKinds ==
    ASSUME TypeOK, [Next]_vars
    PROVE  \/ \E p \in Pipes : Delivering(p) \/ Sending(p)
           \/ Taking \/ Finding \/ Closing \/ Elsewhere
  <1>1. ASSUME NEW p \in Pipes, PeerSend(p) PROVE Sending(p) BY <1>1 DEF PeerSend, Sending
  <1>2. ASSUME NEW p \in Pipes, PeerEnds(p) \/ AddPipe(p) PROVE Elsewhere
    BY <1>2 DEF PeerEnds, AddPipe, Elsewhere, far, channel
  <1>3. ASSUME NEW t \in Consumers, Recv(t) \/ TryRecv(t) PROVE Taking \/ Finding
    BY <1>3 DEF Recv, TryRecv, Taking, Finding, far
  <1>4. CASE ChannelClose BY <1>4 DEF ChannelClose, Closing, far
  <1>5. CASE LoopRecv
    <2> DEFINE p == pipes_[loop.i]
    <2>1. p \in Pipes
      <3>1. loop.i \in 1..Len(pipes_) BY <1>5 DEF LoopRecv, TypeOK, LoopState
      <3> QED BY <3>1 DEF TypeOK
    <2>2. Delivering(p) \/ Elsewhere
      BY <1>5 DEF LoopRecv, Delivering, Elsewhere, far
    <2> QED BY <2>1, <2>2
  <1>6. CASE Start \/ LoopLock \/ LoopChatter \/ LoopRound \/ StopCall \/ StopLock
    BY <1>6 DEF Start, LoopLock, LoopChatter, LoopRound, StopCall, StopLock, Elsewhere, far, channel
  <1>7. CASE UNCHANGED vars BY <1>7 DEF vars, Elsewhere
  <1> QED BY <1>1, <1>2, <1>3, <1>4, <1>5, <1>6, <1>7 DEF Next

LEMMA TypeInit == Init => TypeOK
  <1> SUFFICES ASSUME Init PROVE TypeOK OBVIOUS
  <1>1. /\ sent \in [Pipes -> Nat] /\ got \in [Pipes -> Nat]
        /\ inbox \in [Pipes -> Seq(Letter)] /\ queue_ \in Seq(Letter) /\ pipes_ \in Seq(Pipes)
        /\ cons \in [Consumers -> ConsumerStates]
    BY DEF Init, ConsumerStates
  <1>2. /\ loop \in LoopState
        /\ loop.pc = "new" /\ running_ \in BOOLEAN /\ closed_ \in BOOLEAN
    BY DEF Init, LoopState
  <1> QED BY <1>1, <1>2 DEF TypeOK

LEMMA TypeStep == ASSUME TypeOK, [Next]_vars PROVE TypeOK'
  <1>1. /\ pipes_' \in Seq(Pipes)
        /\ loop' \in LoopState
        /\ loop'.pc = "poll" => loop'.i > 0
        /\ running_' \in BOOLEAN
    <2>1. CASE LoopRecv \/ LoopChatter \/ LoopRound \/ LoopLock \/ Start
      <3>0. /\ loop \in LoopState
            /\ loop.pc = "poll" => loop.i > 0
        BY DEF TypeOK
      <3>1. /\ UNCHANGED pipes_
            /\ \/ loop' = [loop EXCEPT !.pc = "lock"]
               \/ loop' = [loop EXCEPT !.i = @ + 1, !.active = TRUE]
               \/ loop' = [loop EXCEPT !.i = @ + 1]
               \/ loop' = [pc |-> "poll", i |-> 1, active |-> FALSE]
               \/ loop' = [pc |-> "done", i |-> 1, active |-> FALSE]
        BY <2>1 DEF LoopRecv, LoopChatter, LoopRound, LoopLock, LoopTest, Start
      <3>2. loop' \in LoopState
        <4>1. CASE loop' = [loop EXCEPT !.pc = "lock"] BY <3>0, <4>1 DEF LoopState
        <4>2. CASE loop' = [loop EXCEPT !.i = @ + 1, !.active = TRUE]
          <5>1. loop.i + 1 \in Nat BY <3>0 DEF LoopState
          <5>2. loop' = [loop EXCEPT !.i = loop.i + 1, !.active = TRUE] BY <4>2
          <5> QED BY <3>0, <5>1, <5>2, Zenon DEF LoopState
        <4>3. CASE loop' = [loop EXCEPT !.i = @ + 1] BY <3>0, <4>3 DEF LoopState
        <4>4. CASE \/ loop' = [pc |-> "poll", i |-> 1, active |-> FALSE]
                   \/ loop' = [pc |-> "done", i |-> 1, active |-> FALSE]
          <5>1. ASSUME NEW pc \in {"poll", "done"}
                PROVE  [pc |-> pc, i |-> 1, active |-> FALSE] \in LoopState
            BY DEF LoopState
          <5> QED BY <4>4, <5>1
        <4> QED BY <3>1, <4>1, <4>2, <4>3, <4>4
      <3>4. loop'.pc = "poll" => loop'.i > 0
        <4>1. loop.i \in Nat /\ (loop.pc = "poll" => loop.i > 0) BY <3>0 DEF LoopState
        <4>2. \/ loop'.pc \in {"lock", "done"} \/ loop'.i = 1
              \/ loop'.pc = loop.pc /\ loop'.i = loop.i + 1
          <5>1. CASE loop' = [loop EXCEPT !.pc = "lock"] BY <3>0, <5>1 DEF LoopState
          <5>2. CASE loop' = [loop EXCEPT !.i = @ + 1, !.active = TRUE]
            BY <3>0, <5>2, Zenon DEF LoopState
          <5>3. CASE loop' = [loop EXCEPT !.i = @ + 1] BY <3>0, <5>3 DEF LoopState
          <5>4. CASE \/ loop' = [pc |-> "poll", i |-> 1, active |-> FALSE]
                     \/ loop' = [pc |-> "done", i |-> 1, active |-> FALSE]
            BY <5>4
          <5> QED BY <3>1, <5>1, <5>2, <5>3, <5>4
        <4> QED BY <4>1, <4>2
      <3>3. running_' \in BOOLEAN
        BY <2>1 DEF LoopRecv, LoopChatter, LoopRound, LoopLock, Start, TypeOK
      <3> QED BY <3>1, <3>2, <3>3, <3>4 DEF TypeOK
    <2>2. ASSUME NEW p \in Pipes, AddPipe(p) PROVE /\ UNCHANGED <<loop, running_>>
                                                  /\ pipes_' \in Seq(Pipes)
      BY <2>2 DEF AddPipe, TypeOK
    <2>3. CASE \/ \E p \in Pipes : PeerSend(p) \/ PeerEnds(p)
               \/ \E t \in Consumers : Recv(t) \/ TryRecv(t)
               \/ ChannelClose \/ StopCall \/ StopLock \/ UNCHANGED vars
      <3>1. UNCHANGED <<pipes_, loop>> /\ running_' \in BOOLEAN
        BY <2>3 DEF PeerSend, PeerEnds, Recv, TryRecv, ChannelClose, StopCall, StopLock, vars, TypeOK
      <3> QED BY <3>1 DEF TypeOK
    <2> QED BY <2>1, <2>2, <2>3 DEF Next, TypeOK
  <1>2. /\ sent' \in [Pipes -> Nat] /\ got' \in [Pipes -> Nat]
        /\ inbox' \in [Pipes -> Seq(Letter)] /\ queue_' \in Seq(Letter)
        /\ closed_' \in BOOLEAN /\ cons' \in [Consumers -> ConsumerStates]
    <2>0. /\ sent \in [Pipes -> Nat] /\ got \in [Pipes -> Nat]
          /\ inbox \in [Pipes -> Seq(Letter)] /\ queue_ \in Seq(Letter)
          /\ closed_ \in BOOLEAN /\ cons \in [Consumers -> ConsumerStates]
      BY DEF TypeOK
    <2>1. ASSUME NEW p \in Pipes, Sending(p)
          PROVE  sent' \in [Pipes -> Nat] /\ inbox' \in [Pipes -> Seq(Letter)]
      <3>1. <<p, sent[p] + 1>> \in Letter BY <2>0 DEF Letter
      <3>2. Append(inbox[p], <<p, sent[p] + 1>>) \in Seq(Letter) BY <2>0, <3>1
      <3> QED BY <2>0, <2>1, <3>2 DEF Sending
    <2>2. ASSUME NEW p \in Pipes, Delivering(p)
          PROVE  /\ inbox' \in [Pipes -> Seq(Letter)] /\ queue_' \in Seq(Letter)
                 /\ cons' \in [Consumers -> ConsumerStates]
      <3>1. inbox[p] \in Seq(Letter) /\ inbox[p] # <<>> BY <2>0, <2>2 DEF Delivering
      <3>2. Head(inbox[p]) \in Letter /\ Tail(inbox[p]) \in Seq(Letter) BY <3>1
      <3>3. cons' = cons \/ cons' \in NotifyN(cons, Consumers, 1)
        BY <2>2 DEF Delivering, ChannelSend
      <3>4. cons' \in [Consumers -> ConsumerStates]
        <4>1. "woken" \in ConsumerStates /\ IsFiniteSet(Consumers) /\ 1 \in Nat
          BY LoopAssumption DEF ConsumerStates
        <4>2. ASSUME cons' \in NotifyN(cons, Consumers, 1)
              PROVE  cons' \in [Consumers -> ConsumerStates]
          BY <2>0, <4>1, <4>2, NotifyProperties
        <4> QED BY <2>0, <3>3, <4>2
      <3>5. queue_' \in Seq(Letter)
        <4>1. queue_' = queue_ \/ queue_' = Append(queue_, Head(inbox[p]))
          BY <2>2 DEF Delivering, ChannelSend
        <4>2. queue_ \in Seq(Letter) /\ Head(inbox[p]) \in Letter BY <2>0, <3>2
        <4> QED BY <4>1, <4>2
      <3> QED BY <2>0, <2>2, <3>2, <3>4, <3>5 DEF Delivering
    <2>3. ASSUME Taking
          PROVE  /\ got' \in [Pipes -> Nat] /\ queue_' \in Seq(Letter)
                 /\ cons' \in [Consumers -> ConsumerStates]
      <3>1. Head(queue_) \in Letter /\ Tail(queue_) \in Seq(Letter) BY <2>0, <2>3 DEF Taking
      <3>2. Head(queue_)[1] \in Pipes /\ Head(queue_)[2] \in Nat BY <3>1 DEF Letter
      <3> QED BY <2>0, <2>3, <3>1, <3>2 DEF Taking, Take, ConsumerStates
    <2>4. ASSUME Finding \/ Closing PROVE cons' \in [Consumers -> ConsumerStates]
      BY <2>0, <2>4 DEF Finding, Closing, NotifyAll, Wake, ConsumerStates
    <2>5. CASE \E p \in Pipes : Delivering(p)
      BY <2>0, <2>2, <2>5 DEF Delivering
    <2>6. CASE \E p \in Pipes : Sending(p) BY <2>0, <2>1, <2>6 DEF Sending, channel
    <2>7. CASE Taking BY <2>0, <2>3, <2>7 DEF Taking
    <2>8. CASE Finding \/ Closing \/ Elsewhere
      BY <2>0, <2>4, <2>8 DEF Finding, Closing, Elsewhere
    <2> QED BY <2>5, <2>6, <2>7, <2>8, StepKinds
  <1> QED BY <1>1, <1>2 DEF TypeOK

-----------------------------------------------------------------------------
(* Once, and in order *)

\* What OnceInOrder says of a queue, and the numbers of the messages of p in it.
Increasing(q) ==
    \A i, j \in DOMAIN q : i < j /\ q[i][1] = q[j][1] => q[i][2] < q[j][2]
NumbersIn(q, p) == {q[i][2] : i \in {j \in DOMAIN q : q[j][1] = p}}

LEMMA LetterFacts ==
    ASSUME NEW q \in Seq(Letter)
    PROVE  /\ DOMAIN q = 1..Len(q)
           /\ \A i \in 1..Len(q) : q[i] \in Letter /\ q[i][1] \in Pipes /\ q[i][2] \in Nat
  <1>1. \A i \in 1..Len(q) : q[i] \in Letter OBVIOUS
  <1>2. \A m \in Letter : m[1] \in Pipes /\ m[2] \in Nat BY DEF Letter
  <1> QED BY <1>1, <1>2

\* A message appended adds its number to those of its pipe.
LEMMA NumbersAppend ==
    ASSUME NEW q \in Seq(Letter), NEW m \in Letter, Increasing(q), NEW p \in Pipes
    PROVE  /\ NumbersIn(Append(q, m), p) =
                 NumbersIn(q, p) \cup (IF m[1] = p THEN {m[2]} ELSE {})
           /\ (\A n \in NumbersIn(q, m[1]) : n < m[2]) => Increasing(Append(q, m))
  <1> DEFINE r == Append(q, m)
  <1>1. /\ r \in Seq(Letter) /\ Len(r) = Len(q) + 1 /\ r[Len(q) + 1] = m
        /\ \A i \in 1..Len(q) : r[i] = q[i] /\ Len(q) \in Nat
    OBVIOUS
  <1>2. DOMAIN r = 1..Len(q) + 1 /\ DOMAIN q = 1..Len(q) BY <1>1, LetterFacts
  <1>3. Len(q) \in Nat OBVIOUS
  <1> HIDE DEF r
  <1>4. NumbersIn(r, p) = NumbersIn(q, p) \cup (IF m[1] = p THEN {m[2]} ELSE {})
    <2>1. ASSUME NEW n \in NumbersIn(r, p)
          PROVE  n \in NumbersIn(q, p) \cup (IF m[1] = p THEN {m[2]} ELSE {})
      <3>1. PICK i \in 1..Len(q) + 1 : r[i][1] = p /\ n = r[i][2]
        BY <1>2 DEF NumbersIn
      <3>2. CASE i = Len(q) + 1 BY <1>1, <3>1, <3>2
      <3>3. CASE i # Len(q) + 1
        <4>1. i \in 1..Len(q) BY <1>3, <3>3
        <4> QED BY <1>1, <1>2, <3>1, <4>1 DEF NumbersIn
      <3> QED BY <3>2, <3>3
    <2>2. ASSUME NEW n \in NumbersIn(q, p) PROVE n \in NumbersIn(r, p)
      <3>1. PICK i \in 1..Len(q) : q[i][1] = p /\ n = q[i][2] BY <1>2 DEF NumbersIn
      <3>2. i \in 1..Len(q) + 1 /\ r[i] = q[i] BY <1>1, <1>3
      <3> QED BY <1>2, <3>1, <3>2 DEF NumbersIn
    <2>3. m[1] = p => m[2] \in NumbersIn(r, p)
      <3>1. Len(q) + 1 \in 1..Len(q) + 1 BY <1>3
      <3> QED BY <1>1, <1>2, <3>1 DEF NumbersIn
    <2> QED BY <2>1, <2>2, <2>3
  <1>5. ASSUME \A n \in NumbersIn(q, m[1]) : n < m[2] PROVE Increasing(r)
    <2> SUFFICES ASSUME NEW i \in 1..Len(q) + 1, NEW j \in 1..Len(q) + 1,
                        i < j, r[i][1] = r[j][1]
                 PROVE  r[i][2] < r[j][2]
      BY <1>2 DEF Increasing
    <2>1. i \in 1..Len(q) /\ r[i] = q[i] BY <1>1, <1>3
    <2>2. CASE j = Len(q) + 1
      <3>1. r[j] = m /\ q[i][2] \in NumbersIn(q, m[1])
        BY <1>1, <1>2, <2>1, <2>2 DEF NumbersIn
      <3> QED BY <1>5, <2>1, <3>1
    <2>3. CASE j # Len(q) + 1
      <3>1. j \in 1..Len(q) /\ r[j] = q[j] BY <1>1, <1>3, <2>3
      <3> QED BY <1>2, <2>1, <3>1 DEF Increasing
    <2> QED BY <2>2, <2>3
  <1> QED BY <1>4, <1>5 DEF r

\* The front message has the least number of its pipe; without it the others
\* keep their order.
LEMMA NumbersTail ==
    ASSUME NEW q \in Seq(Letter), q # <<>>, Increasing(q), NEW p \in Pipes
    PROVE  /\ Increasing(Tail(q))
           /\ Head(q)[1] # p => NumbersIn(Tail(q), p) = NumbersIn(q, p)
           /\ Head(q)[1] = p =>
                 /\ Head(q)[2] \in NumbersIn(q, p)
                 /\ \A n \in NumbersIn(q, p) : Head(q)[2] <= n
                 /\ NumbersIn(Tail(q), p) = NumbersIn(q, p) \ {Head(q)[2]}
  <1> DEFINE r == Tail(q)
             L == Len(q)
  <1>1. /\ r \in Seq(Letter) /\ Len(r) = L - 1 /\ L \in Nat /\ L > 0 /\ Head(q) = q[1]
        /\ \A i \in 1..L - 1 : r[i] = q[i + 1]
    OBVIOUS
  <1>2. /\ DOMAIN r = 1..L - 1 /\ DOMAIN q = 1..L
        /\ \A i \in 1..L : q[i][2] \in Nat
    BY <1>1, LetterFacts
  <1> HIDE DEF r, L
  <1>3. Increasing(r)
    <2> SUFFICES ASSUME NEW i \in 1..L - 1, NEW j \in 1..L - 1, i < j, r[i][1] = r[j][1]
                 PROVE  r[i][2] < r[j][2]
      BY <1>2 DEF Increasing
    <2>1. i + 1 \in 1..L /\ j + 1 \in 1..L /\ i + 1 < j + 1 BY <1>1
    <2>2. r[i] = q[i + 1] /\ r[j] = q[j + 1] BY <1>1
    <2> QED BY <1>2, <2>1, <2>2 DEF Increasing
  <1>4. ASSUME NEW n \in NumbersIn(r, p)
        PROVE  n \in NumbersIn(q, p) /\ (Head(q)[1] = p => n # Head(q)[2])
    <2>1. PICK i \in 1..L - 1 : r[i][1] = p /\ n = r[i][2] BY <1>2 DEF NumbersIn
    <2>2. i + 1 \in 1..L /\ r[i] = q[i + 1] /\ 1 \in 1..L /\ 1 < i + 1 BY <1>1
    <2>3. n \in NumbersIn(q, p) BY <1>2, <2>1, <2>2 DEF NumbersIn
    <2>4. q[1][1] = p => q[1][2] < n BY <1>2, <2>1, <2>2 DEF Increasing
    <2> QED BY <1>1, <1>2, <2>2, <2>3, <2>4
  <1>5. ASSUME NEW n \in NumbersIn(q, p)
        PROVE  \/ n \in NumbersIn(r, p)
               \/ Head(q)[1] = p /\ n = Head(q)[2]
    <2>1. PICK i \in 1..L : q[i][1] = p /\ n = q[i][2] BY <1>2 DEF NumbersIn
    <2>2. CASE i = 1 BY <1>1, <2>1, <2>2
    <2>3. CASE i # 1
      <3>1. i - 1 \in 1..L - 1 /\ (i - 1) + 1 = i BY <1>1, <2>3
      <3>2. r[i - 1] = q[i] BY <1>1, <3>1
      <3> QED BY <1>2, <2>1, <3>1, <3>2 DEF NumbersIn
    <2> QED BY <2>2, <2>3
  <1>6. ASSUME Head(q)[1] = p, NEW n \in NumbersIn(q, p) PROVE Head(q)[2] <= n
    <2>1. PICK i \in 1..L : q[i][1] = p /\ n = q[i][2] BY <1>2 DEF NumbersIn
    <2>2. CASE i = 1 BY <1>1, <1>2, <2>1, <2>2
    <2>3. CASE i # 1
      <3>1. 1 \in 1..L /\ 1 < i BY <1>1, <2>3
      <3>2. q[1][2] < q[i][2] BY <1>1, <1>2, <1>6, <2>1, <3>1 DEF Increasing
      <3> QED BY <1>1, <1>2, <2>1, <3>1, <3>2
    <2> QED BY <2>2, <2>3
  <1>7. Head(q)[1] = p => Head(q)[2] \in NumbersIn(q, p)
    <2>1. 1 \in 1..L BY <1>1
    <2> QED BY <1>1, <1>2, <2>1 DEF NumbersIn
  <1>8. Head(q)[1] # p => NumbersIn(r, p) = NumbersIn(q, p) BY <1>4, <1>5
  <1>9. Head(q)[1] = p => NumbersIn(r, p) = NumbersIn(q, p) \ {Head(q)[2]} BY <1>4, <1>5
  <1> QED BY <1>3, <1>6, <1>7, <1>8, <1>9 DEF r

\* The messages of p are the numbers after the last one taken, up to last.
Span(p, last) ==
    /\ last \in Nat /\ got[p] <= last /\ last <= sent[p]
    /\ NumbersIn(queue_, p) = got[p] + 1..last
    /\ ~closed_ => last + Len(inbox[p]) = sent[p]

LEMMA OrderForm ==
    ASSUME got \in [Pipes -> Nat], sent \in [Pipes -> Nat]
    PROVE  OnceInOrder <=> Increasing(queue_) /\ \A p \in Pipes : \E last \in Nat : Span(p, last)
  <1>1. ASSUME NEW p \in Pipes
        PROVE  (\E last \in Nat : Span(p, last)) <=>
               \E last \in got[p]..sent[p] :
                  /\ Numbers(p) = got[p] + 1..last
                  /\ ~closed_ => last + Len(inbox[p]) = sent[p]
    <2>1. Numbers(p) = NumbersIn(queue_, p) BY DEF Numbers, NumbersIn
    <2>2. got[p] \in Nat /\ sent[p] \in Nat OBVIOUS
    <2> QED BY <2>1, <2>2 DEF Span
  <1> QED BY <1>1 DEF OnceInOrder, Increasing

LEMMA SpanPrime ==
    ASSUME NEW p, NEW last
    PROVE  Span(p, last)' <=>
              /\ last \in Nat /\ got'[p] <= last /\ last <= sent'[p]
              /\ NumbersIn(queue_', p) = got'[p] + 1..last
              /\ ~closed_' => last + Len(inbox'[p]) = sent'[p]
  <1>1. NumbersIn(queue_, p)' = NumbersIn(queue_', p) BY DEF NumbersIn
  <1> QED BY <1>1 DEF Span

LEMMA OrderFormPrime ==
    ASSUME got' \in [Pipes -> Nat], sent' \in [Pipes -> Nat]
    PROVE  OnceInOrder' <=>
              Increasing(queue_') /\ \A p \in Pipes : \E last \in Nat : Span(p, last)'
  <1>1. ASSUME NEW p \in Pipes
        PROVE  (\E last \in Nat : Span(p, last)') <=>
               \E last \in got'[p]..sent'[p] :
                  /\ Numbers(p)' = got'[p] + 1..last
                  /\ ~closed_' => last + Len(inbox'[p]) = sent'[p]
    <2>1. Numbers(p)' = NumbersIn(queue_', p) BY DEF Numbers, NumbersIn
    <2>2. got'[p] \in Nat /\ sent'[p] \in Nat OBVIOUS
    <2> QED BY <2>1, <2>2, SpanPrime
  <1> QED BY <1>1 DEF OnceInOrder, Increasing

LEMMA OrderStep ==
    ASSUME TypeOK, InboxTail, OnceInOrder, [Next]_vars
    PROVE  InboxTail' /\ OnceInOrder'
  <1>0. /\ sent \in [Pipes -> Nat] /\ got \in [Pipes -> Nat]
        /\ inbox \in [Pipes -> Seq(Letter)] /\ queue_ \in Seq(Letter)
        /\ sent' \in [Pipes -> Nat] /\ got' \in [Pipes -> Nat]
    BY TypeStep DEF TypeOK
  <1>1. Increasing(queue_) /\ \A p \in Pipes : \E last \in Nat : Span(p, last)
    BY <1>0, OrderForm
  <1>2. \A p \in Pipes : inbox[p] \in Seq(Letter) /\ Len(inbox[p]) \in Nat /\ sent[p] \in Nat
    BY <1>0
  <1>3. SUFFICES /\ InboxTail' /\ Increasing(queue_')
                 /\ \A p \in Pipes : \E last \in Nat : Span(p, last)'
    BY <1>0, OrderFormPrime
  \* The peer of a pipe sends a message.
  <1>4. ASSUME NEW p \in Pipes, Sending(p)
        PROVE  /\ InboxTail' /\ Increasing(queue_')
               /\ \A u \in Pipes : \E last \in Nat : Span(u, last)'
    <2>1. /\ UNCHANGED <<queue_, closed_, got>>
          /\ \A u \in Pipes : sent'[u] = IF u = p THEN sent[p] + 1 ELSE sent[u]
          /\ \A u \in Pipes : inbox'[u] = IF u = p THEN Append(inbox[p], <<p, sent[p] + 1>>)
                                          ELSE inbox[u]
      BY <1>0, <1>4 DEF Sending, channel
    <2>2. /\ Len(inbox'[p]) = Len(inbox[p]) + 1
          /\ inbox'[p][Len(inbox[p]) + 1] = <<p, sent[p] + 1>>
          /\ \A n \in 1..Len(inbox[p]) : inbox'[p][n] = inbox[p][n]
      <3>1. inbox'[p] = Append(inbox[p], <<p, sent[p] + 1>>) /\ inbox[p] \in Seq(Letter)
        BY <1>2, <2>1
      <3> QED BY <3>1
    <2>3. ASSUME NEW u \in Pipes
          PROVE  /\ Len(inbox'[u]) <= sent'[u]
                 /\ \A n \in 1..Len(inbox'[u]) :
                       inbox'[u][n] = <<u, sent'[u] - Len(inbox'[u]) + n>>
      <3>1. CASE u # p BY <2>1, <3>1 DEF InboxTail
      <3>2. CASE u = p
        <4>1. sent'[p] = sent[p] + 1 /\ Len(inbox[p]) <= sent[p] BY <2>1 DEF InboxTail
        <4>2. ASSUME NEW n \in 1..Len(inbox[p]) + 1
              PROVE  inbox'[p][n] = <<p, (sent[p] + 1) - (Len(inbox[p]) + 1) + n>>
          <5>1. CASE n = Len(inbox[p]) + 1
            <6>1. (sent[p] + 1) - (Len(inbox[p]) + 1) + n = sent[p] + 1 BY <1>2, <5>1
            <6> QED BY <2>2, <5>1, <6>1
          <5>2. CASE n # Len(inbox[p]) + 1
            <6>1. n \in 1..Len(inbox[p]) BY <1>2, <5>2
            <6>2. (sent[p] + 1) - (Len(inbox[p]) + 1) + n = sent[p] - Len(inbox[p]) + n
              BY <1>2, <6>1
            <6> QED BY <2>2, <6>1, <6>2 DEF InboxTail
          <5> QED BY <5>1, <5>2
        <4>3. Len(inbox[p]) + 1 <= sent[p] + 1 BY <1>2, <4>1
        <4> QED BY <2>2, <3>2, <4>1, <4>2, <4>3
      <3> QED BY <3>1, <3>2
    <2>4. ASSUME NEW u \in Pipes PROVE \E last \in Nat : Span(u, last)'
      <3>1. PICK last \in Nat : Span(u, last) BY <1>1
      <3>2. CASE u # p
        <4>1. Span(u, last)' BY <2>1, <3>1, <3>2, SpanPrime DEF Span
        <4> QED BY <4>1
      <3>3. CASE u = p
        <4>1. sent'[p] = sent[p] + 1 /\ Len(inbox'[p]) = Len(inbox[p]) + 1 BY <2>1, <2>2
        <4>2. got'[p] = got[p] /\ got[p] \in Nat /\ NumbersIn(queue_', p) = NumbersIn(queue_, p)
          BY <1>0, <2>1
        <4>3. last <= sent[p] + 1 BY <1>2, <3>1, <3>3 DEF Span
        <4>4. ~closed_' => last + (Len(inbox[p]) + 1) = sent[p] + 1
          BY <1>2, <2>1, <3>1, <3>3 DEF Span
        <4>5. Span(p, last)' BY <3>1, <3>3, <4>1, <4>2, <4>3, <4>4, SpanPrime DEF Span
        <4> QED BY <3>3, <4>5
      <3> QED BY <3>2, <3>3
    <2> QED BY <1>1, <2>1, <2>3, <2>4 DEF InboxTail
  \* The callback sends the front message of a pipe through the Channel.
  <1>5. ASSUME NEW p \in Pipes, Delivering(p)
        PROVE  /\ InboxTail' /\ Increasing(queue_')
               /\ \A u \in Pipes : \E last \in Nat : Span(u, last)'
    <2> DEFINE b == inbox[p]
               m == Head(b)
    <2>1. /\ UNCHANGED <<sent, closed_, got>> /\ b # <<>>
          /\ \A u \in Pipes : inbox'[u] = IF u = p THEN Tail(b) ELSE inbox[u]
          /\ IF closed_ THEN queue_' = queue_ ELSE queue_' = Append(queue_, m)
      BY <1>0, <1>5 DEF Delivering, ChannelSend
    <2>2. /\ Len(b) \in Nat /\ Len(b) > 0 /\ Len(Tail(b)) = Len(b) - 1 /\ m = b[1]
          /\ \A n \in 1..Len(b) - 1 : Tail(b)[n] = b[n + 1]
      <3>1. b \in Seq(Letter) /\ b # <<>> BY <1>2, <2>1
      <3> HIDE DEF b
      <3> QED BY <3>1
    <2>3. /\ Len(b) <= sent[p] /\ sent[p] \in Nat
          /\ \A n \in 1..Len(b) : b[n] = <<p, sent[p] - Len(b) + n>>
      BY <1>2 DEF InboxTail
    <2>4. m = <<p, sent[p] - Len(b) + 1>> /\ m \in Letter
      <3>1. 1 \in 1..Len(b) /\ sent[p] - Len(b) + 1 \in Nat BY <2>2, <2>3
      <3>2. m = <<p, sent[p] - Len(b) + 1>> BY <2>2, <2>3, <3>1
      <3> HIDE DEF m, b
      <3> QED BY <3>1, <3>2 DEF Letter
    <2>5. ASSUME NEW u \in Pipes
          PROVE  /\ Len(inbox'[u]) <= sent'[u]
                 /\ \A n \in 1..Len(inbox'[u]) :
                       inbox'[u][n] = <<u, sent'[u] - Len(inbox'[u]) + n>>
      <3>1. CASE u # p BY <2>1, <3>1 DEF InboxTail
      <3>2. CASE u = p
        <4>1. sent'[p] = sent[p] /\ Len(inbox'[p]) = Len(b) - 1 BY <2>1, <2>2
        <4>2. ASSUME NEW n \in 1..Len(b) - 1
              PROVE  inbox'[p][n] = <<p, sent[p] - (Len(b) - 1) + n>>
          <5>1. n + 1 \in 1..Len(b) /\ sent[p] - (Len(b) - 1) + n = sent[p] - Len(b) + (n + 1)
            BY <2>2, <2>3
          <5>2. inbox'[p][n] = b[n + 1] BY <2>1, <2>2
          <5> QED BY <2>3, <5>1, <5>2
        <4>3. Len(b) - 1 <= sent[p] BY <2>2, <2>3
        <4> HIDE DEF b
        <4> QED BY <3>2, <4>1, <4>2, <4>3
      <3> QED BY <3>1, <3>2
    <2>6. CASE closed_
      <3>1. queue_' = queue_ BY <2>1, <2>6
      <3>2. ASSUME NEW u \in Pipes PROVE \E last \in Nat : Span(u, last)'
        <4>1. PICK last \in Nat : Span(u, last) BY <1>1
        <4>2. Span(u, last)' BY <2>1, <2>6, <3>1, <4>1, SpanPrime DEF Span
        <4> QED BY <4>2
      <3> QED BY <1>1, <2>5, <3>1, <3>2 DEF InboxTail
    <2>7. CASE ~closed_
      <3>1. queue_' = Append(queue_, m) /\ ~closed_' BY <2>1, <2>7
      <3>2. PICK last \in Nat : Span(p, last) BY <1>1
      <3>3. last + Len(b) = sent[p] BY <2>7, <3>2 DEF Span
      <3>4. m[1] = p /\ m[2] = last + 1 BY <2>2, <2>3, <2>4, <3>3
      <3> HIDE DEF b, m
      <3>5. /\ \A u \in Pipes : NumbersIn(queue_', u) =
                  NumbersIn(queue_, u) \cup (IF m[1] = u THEN {m[2]} ELSE {})
            /\ (\A n \in NumbersIn(queue_, m[1]) : n < m[2]) => Increasing(queue_')
        <4>1. m \in Letter /\ queue_ \in Seq(Letter) /\ Increasing(queue_) BY <1>0, <1>1, <2>4
        <4>2. /\ \A u \in Pipes : NumbersIn(Append(queue_, m), u) =
                    NumbersIn(queue_, u) \cup (IF m[1] = u THEN {m[2]} ELSE {})
              /\ (\A n \in NumbersIn(queue_, m[1]) : n < m[2]) => Increasing(Append(queue_, m))
          BY <4>1, NumbersAppend
        <4> QED BY <3>1, <4>2
      <3>6. NumbersIn(queue_, p) = got[p] + 1..last /\ got[p] <= last /\ got[p] \in Nat
        BY <1>0, <3>2 DEF Span
      <3>7. Increasing(queue_') BY <3>4, <3>5, <3>6
      <3>8. NumbersIn(queue_', p) = got[p] + 1..last + 1
        <4>1. NumbersIn(queue_', p) = (got[p] + 1..last) \cup {last + 1}
          BY <3>4, <3>5, <3>6, SMTT(30)
        <4>2. PICK a \in Nat : a = got[p] /\ a <= last BY <3>6
        <4>3. (a + 1..last) \cup {last + 1} = a + 1..last + 1 BY <4>2
        <4> QED BY <4>1, <4>2, <4>3
      <3>9. Len(inbox'[p]) = Len(b) - 1 BY <2>1, <2>2
      <3>10. Span(p, last + 1)'
        <4>1. last + 1 \in Nat /\ got[p] <= last + 1 /\ last + 1 <= sent[p]
          BY <2>2, <2>3, <3>3, <3>6
        <4>2. last + 1 + (Len(b) - 1) = sent[p] BY <2>2, <3>3
        <4> QED BY <2>1, <3>8, <3>9, <4>1, <4>2, SpanPrime DEF Span
      <3>11. ASSUME NEW u \in Pipes, u # p PROVE \E l \in Nat : Span(u, l)'
        <4>1. PICK l \in Nat : Span(u, l) BY <1>1
        <4>2. NumbersIn(queue_', u) = NumbersIn(queue_, u) BY <3>4, <3>5, <3>11
        <4>3. Span(u, l)' BY <2>1, <3>11, <4>1, <4>2, SpanPrime DEF Span
        <4> QED BY <4>3
      <3>12. last + 1 \in Nat OBVIOUS
      <3> QED BY <2>5, <3>7, <3>10, <3>11, <3>12 DEF InboxTail
    <2> QED BY <2>6, <2>7
  \* A consumer takes the front message of the Channel.
  <1>6. ASSUME Taking
        PROVE  /\ InboxTail' /\ Increasing(queue_')
               /\ \A u \in Pipes : \E last \in Nat : Span(u, last)'
    <2> DEFINE m == Head(queue_)
    <2>1. /\ UNCHANGED <<sent, inbox, closed_>> /\ queue_ # <<>>
          /\ queue_' = Tail(queue_) /\ got' = [got EXCEPT ![m[1]] = m[2]]
      BY <1>6 DEF Taking, Take
    <2>2. m[1] \in Pipes /\ m[2] \in Nat
      <3>1. m \in Letter BY <1>0, <2>1
      <3> QED BY <3>1 DEF Letter
    <2>3. /\ Increasing(queue_')
          /\ \A u \in Pipes :
                /\ m[1] # u => NumbersIn(queue_', u) = NumbersIn(queue_, u)
                /\ m[1] = u => /\ m[2] \in NumbersIn(queue_, u)
                               /\ \A n \in NumbersIn(queue_, u) : m[2] <= n
                               /\ NumbersIn(queue_', u) = NumbersIn(queue_, u) \ {m[2]}
      BY <1>0, <1>1, <2>1, <2>2, NumbersTail
    <2> HIDE DEF m
    <2>4. ASSUME NEW u \in Pipes PROVE \E last \in Nat : Span(u, last)'
      <3>1. PICK last \in Nat : Span(u, last) BY <1>1
      <3>2. CASE m[1] # u
        <4>1. Span(u, last)' BY <1>0, <2>1, <2>3, <3>1, <3>2, SpanPrime DEF Span
        <4> QED BY <4>1
      <3>3. CASE m[1] = u
        <4>1. /\ NumbersIn(queue_, u) = got[u] + 1..last /\ got[u] \in Nat /\ sent[u] \in Nat
              /\ last <= sent[u]
          BY <1>0, <3>1 DEF Span
        <4>2. m[2] = got[u] + 1 /\ m[2] <= last
          <5>1. m[2] \in got[u] + 1..last /\ \A n \in got[u] + 1..last : m[2] <= n
            BY <2>3, <3>3, <4>1
          <5>2. got[u] + 1 \in got[u] + 1..last BY <2>2, <4>1, <5>1
          <5>3. m[2] <= got[u] + 1 BY <5>1, <5>2
          <5> QED BY <2>2, <4>1, <5>1, <5>3
        <4>3. NumbersIn(queue_', u) = m[2] + 1..last
          <5>1. NumbersIn(queue_', u) = (got[u] + 1..last) \ {got[u] + 1}
            BY <2>3, <3>3, <4>1, <4>2
          <5>2. (got[u] + 1..last) \ {got[u] + 1} = got[u] + 1 + 1..last BY <4>1
          <5> QED BY <4>2, <5>1, <5>2
        <4>4. got'[u] = m[2] BY <1>0, <2>1, <2>2, <3>3
        <4>5. Span(u, last)' BY <2>1, <3>1, <4>1, <4>2, <4>3, <4>4, SpanPrime DEF Span
        <4> QED BY <4>5
      <3> QED BY <3>2, <3>3
    <2>5. InboxTail' BY <2>1 DEF InboxTail
    <2> QED BY <2>3, <2>4, <2>5
  <1>7. CASE Finding \/ Closing \/ Elsewhere
    <2>1. /\ UNCHANGED <<sent, inbox, queue_, got>>
          /\ closed_' = closed_ \/ closed_' = TRUE
      BY <1>7 DEF Finding, Closing, Elsewhere
    <2>2. InboxTail' /\ Increasing(queue_') BY <1>1, <2>1 DEF InboxTail
    <2>3. ASSUME NEW u \in Pipes PROVE \E last \in Nat : Span(u, last)'
      <3>1. PICK last \in Nat : Span(u, last) BY <1>1
      <3>2. Span(u, last)' BY <2>1, <3>1, SpanPrime DEF Span
      <3> QED BY <3>2
    <2> QED BY <2>2, <2>3
  <1> QED BY <1>4, <1>5, <1>6, <1>7, StepKinds

\* From a pipe through the callback and the Channel, messages reach the consumers
\* once and in the order of their pipe, for any number of pipes, messages and
\* consumers and however recv(), try_recv() and close() interleave with the loop.
THEOREM OrderInvariant == Spec => []OnceInOrder
  <1>1. Init => TypeOK /\ InboxTail /\ OnceInOrder
    <2> SUFFICES ASSUME Init PROVE InboxTail /\ OnceInOrder BY TypeInit
    <2>1. /\ queue_ = <<>> /\ closed_ = FALSE
          /\ \A p \in Pipes : inbox[p] = <<>> /\ sent[p] = 0 /\ got[p] = 0
      BY DEF Init
    <2>2. Increasing(queue_) /\ \A p \in Pipes : NumbersIn(queue_, p) = {}
      BY <2>1 DEF Increasing, NumbersIn
    <2>3. \A p \in Pipes : Span(p, 0)
      <3> TAKE p \in Pipes
      <3>1. got[p] = 0 /\ sent[p] = 0 /\ Len(inbox[p]) = 0 BY <2>1
      <3>2. NumbersIn(queue_, p) = got[p] + 1..0
        <4>1. got[p] + 1..0 = {} BY <3>1
        <4> QED BY <2>2, <4>1
      <3> QED BY <3>1, <3>2 DEF Span
    <2>4. OnceInOrder BY <2>2, <2>3, TypeInit, OrderForm DEF TypeOK
    <2>5. InboxTail BY <2>1 DEF InboxTail
    <2> QED BY <2>4, <2>5
  <1>2. TypeOK /\ InboxTail /\ OnceInOrder /\ [Next]_vars => TypeOK' /\ InboxTail' /\ OnceInOrder'
    BY TypeStep, OrderStep
  <1> QED BY <1>1, <1>2, PTL DEF Spec

-----------------------------------------------------------------------------
(* No receiver is stranded *)

Woken(st) == {t \in Consumers : st[t] = "woken"}

\* One receiver more or less among those that are awake.
LEMMA WokenFinite ==
    ASSUME NEW st
    PROVE  IsFiniteSet(Woken(st)) /\ Cardinality(Woken(st)) \in Nat
  <1>1. Woken(st) \subseteq Consumers BY DEF Woken
  <1>2. IsFiniteSet(Woken(st)) BY <1>1, LoopAssumption, FS_Subset
  <1> QED BY <1>2, FS_CardinalityType

LEMMA StrandedStep ==
    ASSUME TypeOK, NoStranded, [Next]_vars
    PROVE  NoStranded'
  <1>0. /\ cons \in [Consumers -> ConsumerStates] /\ queue_ \in Seq(Letter)
        /\ Len(queue_) \in Nat /\ closed_ \in BOOLEAN
        /\ Cardinality(Woken(cons)) \in Nat /\ Cardinality(Woken(cons')) \in Nat
    BY WokenFinite DEF TypeOK
  <1>1. Waiting(cons, Consumers) # {} => ~closed_ /\ Len(queue_) <= Cardinality(Woken(cons))
    BY DEF NoStranded, Woken
  <1>2. SUFFICES ASSUME Waiting(cons', Consumers) # {}
                 PROVE  ~closed_' /\ Len(queue_') <= Cardinality(Woken(cons'))
    <2>1. Waiting(cons, Consumers)' = Waiting(cons', Consumers) BY DEF Waiting
    <2> QED BY <1>2, <2>1 DEF NoStranded, Woken
  <1>3. CASE UNCHANGED <<queue_, closed_, cons>> BY <1>1, <1>2, <1>3
  \* A message is added, and a receiver woken for it if one waits.
  <1>4. ASSUME NEW p \in Pipes, Delivering(p)
        PROVE  ~closed_' /\ Len(queue_') <= Cardinality(Woken(cons'))
    <2>1. CASE closed_ BY <1>3, <1>4, <2>1 DEF Delivering, ChannelSend
    <2>2. CASE ~closed_
      <3>1. /\ ~closed_' /\ queue_' = Append(queue_, Head(inbox[p]))
            /\ cons' \in NotifyN(cons, Consumers, 1)
        BY <1>4, <2>2 DEF Delivering, ChannelSend
      <3>2. PICK W \in SUBSET Waiting(cons, Consumers) :
               /\ cons' = Wake(cons, Consumers, W) /\ IsFiniteSet(W)
               /\ Cardinality(W) = 1 \/ Waiting(cons', Consumers) = {}
        <4>1. "woken" \in ConsumerStates /\ IsFiniteSet(Consumers) /\ 1 \in Nat
          BY LoopAssumption DEF ConsumerStates
        <4> QED BY <1>0, <3>1, <4>1, NotifyProperties
      <3>3. Waiting(cons, Consumers) # {} BY <1>2, <3>2 DEF Waiting, Wake
      <3>4. Woken(cons') = Woken(cons) \cup W /\ Woken(cons) \cap W = {}
        BY <3>2 DEF Woken, Wake, Waiting
      <3>5. Cardinality(Woken(cons')) = Cardinality(Woken(cons)) + 1
        <4>1. Cardinality(Woken(cons) \cup W) =
                 Cardinality(Woken(cons)) + Cardinality(W) - Cardinality({})
          BY <3>2, <3>4, WokenFinite, FS_Union
        <4>2. Cardinality({}) = 0 BY FS_EmptySet
        <4> QED BY <1>0, <1>2, <3>2, <3>4, <4>1, <4>2
      <3>6. Len(queue_') = Len(queue_) + 1 BY <1>0, <3>1
      <3> QED BY <1>0, <1>1, <3>1, <3>3, <3>5, <3>6
    <2> QED BY <1>0, <2>1, <2>2
  \* A message is taken, perhaps by a receiver that was not woken for it.
  <1>5. ASSUME Taking
        PROVE  ~closed_' /\ Len(queue_') <= Cardinality(Woken(cons'))
    <2>1. PICK t \in Consumers : /\ cons[t] \in {"idle", "woken"}
                                 /\ cons' = [cons EXCEPT ![t] = "idle"]
      BY <1>5 DEF Taking, Take
    <2>2. queue_ # <<>> /\ queue_' = Tail(queue_) /\ closed_' = closed_
      BY <1>5 DEF Taking, Take
    <2>3. Len(queue_') = Len(queue_) - 1 /\ Len(queue_) > 0 BY <1>0, <2>2
    <2>4. Waiting(cons, Consumers) # {} BY <1>0, <1>2, <2>1 DEF Waiting
    <2>5. Woken(cons') = Woken(cons) \ {t} BY <1>0, <2>1 DEF Woken
    <2>6. Cardinality(Woken(cons) \ {t}) =
             IF t \in Woken(cons) THEN Cardinality(Woken(cons)) - 1
             ELSE Cardinality(Woken(cons))
      BY WokenFinite, FS_RemoveElement
    <2> QED BY <1>0, <1>1, <2>2, <2>3, <2>4, <2>5, <2>6
  \* A receiver waits on an empty Channel only.
  <1>6. ASSUME Finding
        PROVE  ~closed_' /\ Len(queue_') <= Cardinality(Woken(cons'))
    <2>1. PICK t \in Consumers : /\ cons[t] \in {"idle", "woken"}
                                 /\ cons' = [cons EXCEPT ![t] = IF closed_ THEN "done" ELSE "wait"]
      BY <1>6 DEF Finding
    <2>2. queue_' = <<>> /\ closed_' = closed_ BY <1>6 DEF Finding
    <2>3. closed_ => Waiting(cons, Consumers) # {} BY <1>0, <1>2, <2>1 DEF Waiting
    <2>4. Len(queue_') = 0 BY <2>2
    <2> QED BY <1>0, <1>1, <2>2, <2>3, <2>4
  <1>7. ASSUME Closing PROVE FALSE
    BY <1>2, <1>7 DEF Closing, NotifyAll, Wake, Waiting
  <1>8. CASE Elsewhere \/ \E p \in Pipes : Sending(p)
    BY <1>3, <1>8 DEF Elsewhere, Sending, channel
  <1> QED BY <1>4, <1>5, <1>6, <1>7, <1>8, StepKinds

\* While a receiver waits, the Channel is open and every message in it has a
\* receiver that is awake, for any number of consumers: notify_one() per message
\* is enough although try_recv() takes what others were woken for.
THEOREM StrandedInvariant == Spec => []NoStranded
  <1>1. Init => TypeOK /\ NoStranded
    <2> SUFFICES ASSUME Init PROVE NoStranded BY TypeInit
    <2>1. Waiting(cons, Consumers) = {} BY DEF Init, Waiting
    <2> QED BY <2>1 DEF NoStranded
  <1>2. TypeOK /\ NoStranded /\ [Next]_vars => TypeOK' /\ NoStranded'
    BY TypeStep, StrandedStep
  <1> QED BY <1>1, <1>2, PTL DEF Spec
=============================================================================
