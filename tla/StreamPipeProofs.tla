-------------------------- MODULE StreamPipeProofs --------------------------
(***************************************************************************)
(* Frames arrive whole, once and in order over every stream transport, and *)
(* kClosed means that all did: for payloads, buffers and numbers of        *)
(* messages of any size.                                                   *)
(*                                                                         *)
(* What is on the wire is a list of chunks without marks between frames.   *)
(* The proof puts a tag on each chunk, and on the one that the receiver    *)
(* took last: the payload of its frame, its place in the frame, and the    *)
(* number of payloads promised up to this frame.  Tags are facts about     *)
(* neighbours, so that nothing has to be said about the whole list.        *)
(***************************************************************************)
EXTENDS StreamPipe, SequenceTheorems, TLAPS

Unit == [kind : {"magic", "len", "data"}, n : Nat]
Bytes == Seq(Unit)

Sender == [pc : {"idle", "poll", "write", "failed"}, n : Nat, todo : Seq(Bytes), payload : Bytes]
Receiver == [pc : {"idle", "poll", "header", "payload", "ended"}, buf : Bytes, want : Nat,
             res : {"none", "ok", "closed", "error", "timeout"}]

TypeOK ==
    /\ transport \in {"tcp", "uds", "pipe"} /\ timed \in BOOLEAN /\ reader \in {"consume_loop", "EventLoop"}
    /\ side \in [{"tx", "rx"} -> {"open", "closed", "crashed"}] /\ reset \in BOOLEAN
    /\ wire \in Seq(Bytes) /\ sent \in Seq(Bytes) /\ got \in Seq(Bytes)
    /\ tx \in Sender
    /\ rx \in Receiver

\* The payload that send() is working on is the application's tx.n-th.
Numbered ==
    /\ tx.n <= MaxMsgs
    /\ Len(got) <= Len(sent) /\ Len(sent) <= tx.n
    /\ tx.pc \in {"poll", "write"} =>
          /\ Len(sent) < tx.n /\ \E len \in Nat : tx.payload = Payload(tx.n, len)
          /\ transport # "pipe" => Len(tx.payload) <= kMaxFramePayload
          /\ tx.todo # <<>>

-----------------------------------------------------------------------------
(* Chunks: what one call writes *)

Chunks(payload) == IF transport = "pipe" THEN Messages(payload) ELSE Frame(payload)

\* Payloads, headers, frames and messages, unit by unit.
LEMMA PayloadFacts ==
    ASSUME NEW id \in Nat, NEW len \in Nat
    PROVE  Payload(id, len) \in Bytes /\ Len(Payload(id, len)) = len
BY DEF Payload, Bytes, Unit

LEMMA HeaderFacts ==
    ASSUME NEW len \in Nat
    PROVE  /\ EncodeHeader(len) \in Bytes /\ Len(EncodeHeader(len)) = 2
           /\ EncodeHeader(len)[1] = [kind |-> "magic", n |-> 0]
           /\ EncodeHeader(len)[2] = [kind |-> "len", n |-> len]
BY DEF EncodeHeader, Bytes, Unit

LEMMA Pair ==
    ASSUME NEW a, NEW b
    PROVE  <<a>> \o <<b>> = <<a, b>>
<1>1. <<a>> \in Seq({a, b}) /\ <<b>> \in Seq({a, b}) /\ <<a, b>> \in Seq({a, b})
  OBVIOUS
<1>2. Append(<<a>>, b) = <<a>> \o <<b>>
  BY <1>1, AppendIsConcat
<1>3. /\ Append(<<a>>, b) \in Seq({a, b}) /\ Len(Append(<<a>>, b)) = 2
      /\ Append(<<a>>, b)[1] = a /\ Append(<<a>>, b)[2] = b
  BY <1>1, AppendProperties
<1>4. Len(<<a, b>>) = 2 /\ <<a, b>>[1] = a /\ <<a, b>>[2] = b
  OBVIOUS
<1>5. Append(<<a>>, b) = <<a, b>>
  <2>1. \A i \in 1..2 : i = 1 \/ i = 2
    OBVIOUS
  <2>2. \A i \in 1..Len(Append(<<a>>, b)) : Append(<<a>>, b)[i] = <<a, b>>[i]
    BY <1>3, <1>4, <2>1, Zenon
  <2>3. Len(Append(<<a>>, b)) = Len(<<a, b>>)
    BY <1>3, <1>4, Zenon
  <2> QED
    BY <1>1, <1>3, <2>2, <2>3, SeqEqual, Zenon
<1> QED
  BY <1>2, <1>5

LEMMA FrameFacts ==
    ASSUME NEW p \in Bytes
    PROVE  /\ Frame(p) \in Seq(Bytes) /\ Len(Frame(p)) = Len(p) + 2
           /\ Frame(p)[1] = <<[kind |-> "magic", n |-> 0]>>
           /\ Frame(p)[2] = <<[kind |-> "len", n |-> Len(p)]>>
           /\ \A i \in 1..Len(p) : Frame(p)[i + 2] = <<p[i]>>
<1> DEFINE units == EncodeHeader(Len(p)) \o p
<1>1. Len(p) \in Nat /\ p \in Seq(Unit)
  BY DEF Bytes
<1>2. PICK h \in Bytes : /\ h = EncodeHeader(Len(p)) /\ Len(h) = 2
                         /\ h[1] = [kind |-> "magic", n |-> 0] /\ h[2] = [kind |-> "len", n |-> Len(p)]
  BY <1>1, HeaderFacts
<1>3. units = h \o p /\ h \in Seq(Unit)
  BY <1>2 DEF Bytes
<1>4. Frame(p) = [i \in 1..Len(units) |-> <<units[i]>>]
  BY DEF Frame
<1> HIDE DEF units
<1>5. /\ h \o p \in Seq(Unit) /\ Len(h \o p) = Len(h) + Len(p)
      /\ \A i \in 1..(Len(h) + Len(p)) : (h \o p)[i] = IF i <= Len(h) THEN h[i] ELSE p[i - Len(h)]
  BY <1>1, <1>3, ConcatProperties, Zenon
<1>6. /\ units \in Seq(Unit) /\ Len(units) = 2 + Len(p)
      /\ \A i \in 1..(2 + Len(p)) : units[i] = IF i <= 2 THEN h[i] ELSE p[i - 2]
  BY <1>1, <1>2, <1>3, <1>5
<1>7. units \in Bytes /\ Len(units) = Len(p) + 2
  BY <1>1, <1>6 DEF Bytes
<1>8. units[1] = [kind |-> "magic", n |-> 0] /\ units[2] = [kind |-> "len", n |-> Len(p)]
  BY <1>1, <1>2, <1>6
<1>9. \A i \in 1..Len(p) : units[i + 2] = p[i]
  BY <1>1, <1>6
<1>10. \A i \in 1..Len(units) : <<units[i]>> \in Bytes
  BY <1>7 DEF Bytes
<1>11. Frame(p) \in Seq(Bytes) /\ Len(Frame(p)) = Len(units)
  BY <1>1, <1>7, <1>4, <1>10
<1>12. \A i \in 1..Len(units) : Frame(p)[i] = <<units[i]>>
  BY <1>4
<1>13. /\ 1 \in 1..Len(units) /\ 2 \in 1..Len(units) 
      /\ \A i \in 1..Len(p) : i + 2 \in 1..Len(units)
  BY <1>1, <1>7
<1> QED
  BY <1>7, <1>8, <1>9, <1>11, <1>12, <1>13

LEMMA MessagesFacts ==
    ASSUME NEW p \in Bytes
    PROVE  /\ Messages(p) \in Seq(Bytes) /\ Messages(p)[1] = EncodeHeader(Len(p))
           /\ p = <<>> => Len(Messages(p)) = 1
           /\ p # <<>> => Len(Messages(p)) = 2 /\ Messages(p)[2] = p
<1>0. Len(p) \in Nat
  BY DEF Bytes
<1>1. PICK h \in Bytes : h = EncodeHeader(Len(p))
  BY <1>0, HeaderFacts
<1>2. CASE p = <<>>
  <2>1. Messages(p) = <<h>> \o <<>>
    BY <1>1, <1>2 DEF Messages
  <2>2. <<h>> \in Seq(Bytes) /\ Len(<<h>>) = 1 /\ <<h>>[1] = h
    OBVIOUS
  <2>3. Messages(p) = <<h>>
    BY <2>1, <2>2, ConcatEmptySeq
  <2> QED
    BY <1>1, <1>2, <2>2, <2>3
<1>3. CASE p # <<>>
  <2>1. Messages(p) = <<h>> \o <<p>>
    BY <1>1, <1>3 DEF Messages
  <2> QED
    BY <1>1, <1>3, <2>1
<1> QED
  BY <1>2, <1>3

\* Both kinds of chunks.
LEMMA ChunksFacts ==
    ASSUME NEW p \in Bytes
    PROVE  /\ Chunks(p) \in Seq(Bytes) /\ Len(Chunks(p)) \in Nat /\ Len(Chunks(p)) >= 1
           /\ \A k \in 1..Len(Chunks(p)) : Chunks(p)[k] \in Bytes
<1>0. Len(p) \in Nat
  BY DEF Bytes
<1>1. /\ Frame(p) \in Seq(Bytes) /\ Len(Frame(p)) >= 1
  <2>1. Frame(p) \in Seq(Bytes) /\ Len(Frame(p)) = Len(p) + 2
    BY FrameFacts, Zenon
  <2> QED
    BY <1>0, <2>1
<1>2. /\ Messages(p) \in Seq(Bytes) /\ Len(Messages(p)) >= 1
  BY <1>0, MessagesFacts
<1>3. Chunks(p) \in Seq(Bytes) /\ Len(Chunks(p)) >= 1
  BY <1>1, <1>2 DEF Chunks
<1> QED
  BY <1>3
-----------------------------------------------------------------------------
(* Tags *)

Tag == [p : Bytes, k : Nat, r : Nat]
Fits(p) == Len(p) <= kMaxFramePayload
One(p) == IF Fits(p) THEN 1 ELSE 0
Whole(g) == g.k = Len(Chunks(g.p))

\* A chunk of a frame; sockets carry no frame that is too long.
Tagged(g) ==
    /\ g \in Tag /\ g.k \in 1..Len(Chunks(g.p))
    /\ transport # "pipe" => Fits(g.p)

\* The chunk after g is the next of its frame, or the first of another.
Follows(g, h) ==
    \/ ~Whole(g) /\ h = [p |-> g.p, k |-> g.k + 1, r |-> g.r]
    \/ Whole(g) /\ h.k = 1 /\ h.r = g.r + One(h.p)

\* What a chunk holds.  Of the payload that is too long some of the end is left.
Carries(g, chunk) ==
    IF Fits(g.p) \/ g.k = 1 THEN chunk = Chunks(g.p)[g.k]
    ELSE chunk \in Bytes /\ chunk # <<>> /\ \A i \in 1..Len(chunk) : chunk[i].kind = "data"

\* The last chunk of a frame is written with the promise.
Arrives(g) == Fits(g.p) /\ Whole(g) => g.r \in 1..Len(sent) /\ sent[g.r] = g.p

\* t[j] is the tag of the j-th chunk on the wire, t[0] that of the one before.
Tags(t) ==
    /\ \A j \in 0..Len(wire) : Tagged(t[j])
    /\ \A j \in 1..Len(wire) : Follows(t[j - 1], t[j]) /\ Carries(t[j], wire[j]) /\ Arrives(t[j])

\* What the receiver knows after chunk g, while it may read on.
Reader(g) ==
    /\ (rx.pc \in {"idle", "poll"} /\ rx.res # "closed") \/ (rx.pc = "header" /\ rx.buf = <<>>) =>
          (Whole(g) \/ ~Fits(g.p)) /\ g.r = Len(got)
    /\ rx.pc = "header" /\ rx.buf # <<>> =>
          /\ rx.buf = <<[kind |-> "magic", n |-> 0]>> /\ transport # "pipe"
          /\ Fits(g.p) /\ g.k = 1 /\ g.r = Len(got) + 1
    /\ rx.pc = "payload" =>
          /\ Fits(g.p) /\ rx.want = Len(g.p) /\ g.r = Len(got) + 1 /\ Len(rx.buf) < rx.want
          /\ g.k = IF transport = "pipe" THEN 1 ELSE 2 + Len(rx.buf)
          /\ transport = "pipe" => rx.buf = <<>>
          /\ \A i \in 1..Len(rx.buf) : rx.buf[i] = g.p[i]

\* What the sender still has to write after chunk g.
Writer(g) ==
    /\ Len(sent) = IF Whole(g) THEN g.r ELSE g.r - One(g.p)
    /\ tx.pc = "idle" => Whole(g)
    /\ tx.pc \in {"poll", "write"} =>
          \/ Whole(g) /\ tx.todo = Chunks(tx.payload)
          \/ /\ ~Whole(g) /\ g.p = tx.payload
             /\ tx.todo = SubSeq(Chunks(g.p), g.k + 1, Len(Chunks(g.p)))

Chain(t) == Tags(t) /\ Reader(t[0]) /\ Writer(t[Len(wire)])

\* kClosed is only told after the sender has gone.
Informed ==
    /\ rx.pc = "poll" => Polls /\ rx.buf = <<>>
    /\ rx.pc \in {"poll", "header", "payload"} => rx.res = "none"
    /\ rx.res = "closed" => Gone("tx") /\ (~Polls => Len(got) = Len(sent))

StreamInv == TypeOK /\ Numbered /\ Informed /\ (~reset => \E t : Chain(t))

\* A call writes a chunk.
LEMMA Push ==
    ASSUME TypeOK, NEW t, Tags(t), NEW g, Tagged(g), NEW chunk, Carries(g, chunk),
           Follows(t[Len(wire)], g), Arrives(g)',
           UNCHANGED transport, wire' = Append(wire, chunk),
           \A i \in 1..Len(sent) : i \in 1..Len(sent') /\ sent'[i] = sent[i]
    PROVE  \E u : Tags(u)' /\ u[0] = t[0] /\ u[Len(wire)'] = g
<1> PICK n \in Nat : n = Len(wire)
  <2>1. wire \in Seq(Bytes)
    BY DEF TypeOK
  <2> QED
    BY <2>1
<1> PICK u : u = [j \in 0..(n + 1) |-> IF j <= n THEN t[j] ELSE g]
  OBVIOUS
<1>1. Len(wire)' = n + 1 /\ wire'[n + 1] = chunk /\ \A j \in 1..n : wire'[j] = wire[j]
  BY DEF TypeOK
<1>2. \A j \in 0..n : u[j] = t[j]
  OBVIOUS
<1>3. u[n + 1] = g
  OBVIOUS
<1>4. ASSUME NEW h, Tagged(h) PROVE Tagged(h)'
  BY <1>4 DEF Tagged, Chunks
<1>5. ASSUME NEW h, Arrives(h) PROVE Arrives(h)'
  BY <1>5 DEF Arrives, Whole, Chunks
<1>6. ASSUME NEW h1, NEW h2, Follows(h1, h2) PROVE Follows(h1, h2)'
  BY <1>6 DEF Follows, Whole, Chunks
<1>7. ASSUME NEW h, NEW c, Carries(h, c) PROVE Carries(h, c)'
  BY <1>7 DEF Carries, Chunks
<1>8. \A j \in 0..Len(wire)' : Tagged(u[j])'
  <2> TAKE j \in 0..Len(wire)'
  <2>1. CASE j \in 0..n
    BY <2>1, <1>2, <1>4 DEF Tags
  <2>2. CASE j = n + 1
    BY <2>2, <1>3, <1>4
  <2> QED
    BY <1>1, <2>1, <2>2
<1>9. \A j \in 1..Len(wire)' : Follows(u[j - 1], u[j])' /\ Carries(u[j], wire[j])' /\ Arrives(u[j])'
  <2> TAKE j \in 1..Len(wire)'
  <2>1. CASE j \in 1..n
    <3>1. u[j - 1] = t[j - 1] /\ u[j] = t[j] /\ wire'[j] = wire[j]
      BY <2>1, <1>1, <1>2
    <3>2. Follows(t[j - 1], t[j]) /\ Carries(t[j], wire[j]) /\ Arrives(t[j])
      BY <2>1 DEF Tags
    <3>3. Follows(t[j - 1], t[j])' /\ Arrives(t[j])'
      BY <3>2, <1>5, <1>6
    <3>4. PICK c : c = wire[j]
      OBVIOUS
    <3>5. Carries(t[j], c)'
      BY <3>2, <3>4, <1>7
    <3> QED
      BY <3>1, <3>3, <3>4, <3>5
  <2>2. CASE j = n + 1
    <3>1. u[j - 1] = t[n] /\ u[j] = g /\ wire'[j] = chunk
      BY <2>2, <1>1, <1>2, <1>3
    <3>2. Follows(t[n], g)' /\ Carries(g, chunk)'
      BY <1>6, <1>7
    <3> QED
      BY <3>1, <3>2
  <2> QED
    BY <1>1, <2>1, <2>2
<1>10. Tags(u)'
  BY <1>8, <1>9 DEF Tags
<1>11. u[0] = t[0] /\ u[Len(wire)'] = g
  BY <1>1, <1>2, <1>3
<1> QED
  BY <1>10, <1>11

\* A call takes the first chunk.
LEMMA Pop ==
    ASSUME TypeOK, NEW t, Tags(t), wire # <<>>, wire' = Tail(wire), UNCHANGED <<transport, sent>>
    PROVE  \E u : Tags(u)' /\ u[0] = t[1] /\ u[Len(wire)'] = t[Len(wire)]
<1> PICK n \in Nat : n = Len(wire)'
  <2>1. wire' \in Seq(Bytes)
    BY HeadTailProperties DEF TypeOK
  <2> QED
    BY <2>1
<1> PICK u : u = [j \in 0..n |-> t[j + 1]]
  OBVIOUS
<1>1. Len(wire) = n + 1 /\ \A j \in 1..n : wire'[j] = wire[j + 1]
  BY DEF TypeOK
<1>2. \A j \in 0..n : u[j] = t[j + 1]
  OBVIOUS
<1>3. \A j \in 0..n : Tagged(u[j])'
  <2> TAKE j \in 0..n
  <2>1. j + 1 \in 0..Len(wire)
    BY <1>1
  <2> QED
    BY <2>1, <1>2 DEF Tags, Tagged, Chunks
<1>4. \A j \in 1..n : Follows(u[j - 1], u[j])' /\ Carries(u[j], wire[j])' /\ Arrives(u[j])'
  <2> TAKE j \in 1..n
  <2>1. u[j - 1] = t[j] /\ u[j] = t[j + 1] /\ wire'[j] = wire[j + 1]
    BY <1>1, <1>2
  <2>2. Follows(t[j], t[j + 1]) /\ Carries(t[j + 1], wire[j + 1]) /\ Arrives(t[j + 1])
    BY <1>1 DEF Tags
  <2>3. Follows(t[j], t[j + 1])' /\ Arrives(t[j + 1])'
    BY <2>2 DEF Follows, Arrives, Whole, Chunks
  <2>4. Carries(u[j], wire[j])'
    BY <2>1, <2>2 DEF Carries, Chunks
  <2> QED
    BY <2>1, <2>3, <2>4
<1>5. Tags(u)'
  BY <1>3, <1>4 DEF Tags
<1>6. u[0] = t[1] /\ u[Len(wire)'] = t[Len(wire)]
  BY <1>1, <1>2
<1> QED
  BY <1>5, <1>6
-----------------------------------------------------------------------------
(* recv() *)

\* recv() returns.
LEMMA ReturnFacts ==
    ASSUME TypeOK, NEW result \in {"ok", "closed", "error", "timeout"}, Return(result)
    PROVE  /\ rx' \in Receiver /\ rx'.pc \in {"idle", "ended"} /\ rx'.res = result
           /\ result = "ok" => rx'.pc = "idle"
BY DEF TypeOK, Receiver, Return, After

\* A chunk has been taken, and the receiver knows what it was.
LEMMA Taken ==
    ASSUME StreamInv, ~reset, UNCHANGED <<world, tx, sent>>, rx' \in Receiver, got' \in Seq(Bytes),
           Len(got') <= Len(sent), rx'.res # "closed",
           rx'.pc \in {"header", "payload"} => rx'.res = "none", rx'.pc # "poll",
           NEW t, Chain(t), wire # <<>>, wire' = Tail(wire), Reader(t[1])'
    PROVE  StreamInv'
<1>1. TypeOK'
  <2>1. wire' \in Seq(Bytes)
    BY HeadTailProperties DEF StreamInv, TypeOK
  <2> QED
    BY <2>1 DEF StreamInv, TypeOK, world
<1>2. Numbered'
  BY DEF StreamInv, Numbered, world
<1>3. Informed'
  BY DEF Informed
<1>4. PICK u : Tags(u)' /\ u[0] = t[1] /\ u[Len(wire)'] = t[Len(wire)]
  BY Pop DEF StreamInv, Chain, world
<1>5. Writer(u[Len(wire)])'
  <2>1. Writer(t[Len(wire)])
    BY DEF Chain
  <2> PICK g : g = t[Len(wire)]
    OBVIOUS
  <2>2. Writer(g)'
    BY <2>1 DEF Writer, Whole, Chunks, world
  <2> QED
    BY <2>2, <1>4
<1>6. Chain(u)'
  BY <1>4, <1>5 DEF Chain
<1> QED
  BY <1>1, <1>2, <1>3, <1>6 DEF StreamInv

\* What a read does to the queue that the pipe is.
Delivers ==
    \/ UNCHANGED got
    \/ Len(got) < Len(sent) /\ got' = Append(got, sent[Len(got) + 1]) /\ rx'.pc = "idle"

\* Sockets: the chunk is one unit.
LEMMA ReadExactStep ==
    ASSUME StreamInv, ReadExact
    PROVE  StreamInv' /\ Delivers
<1> DEFINE data == rx.buf \o Head(wire)
           magic == [kind |-> "magic", n |-> 0]
<1>1. /\ transport # "pipe" /\ wire # <<>> /\ rx.pc \in {"header", "payload"} /\ ~reset
      /\ wire' = Tail(wire) /\ UNCHANGED <<world, tx, sent>>
      /\ Len(data) = Wanted => Complete(data)
      /\ Len(data) < Wanted => rx' = [rx EXCEPT !.buf = data] /\ UNCHANGED got
  BY DEF ReadExact, Read
<1> HIDE DEF data
<1>2. PICK t : Chain(t)
  BY <1>1 DEF StreamInv
<1>3. /\ rx \in Receiver /\ wire \in Seq(Bytes) /\ got \in Seq(Bytes) /\ sent \in Seq(Bytes)
      /\ rx.res = "none" /\ Len(got) <= Len(sent) /\ rx.buf \in Bytes /\ rx.want \in Nat /\ TypeOK
  BY <1>1 DEF StreamInv, TypeOK, Receiver, Numbered, Informed
<1>4. 1 \in 1..Len(wire) /\ 0 \in 0..Len(wire) /\ 1 \in 0..Len(wire) /\ Head(wire) = wire[1]
  BY <1>1, <1>3
<1>5. PICK g \in Tag : g = t[0] /\ Tagged(g) /\ Reader(g)
  BY <1>2, <1>4 DEF Chain, Tags, Tagged
<1>6. PICK h \in Tag : /\ h = t[1] /\ Tagged(h) /\ Follows(g, h) /\ Carries(h, wire[1]) /\ Arrives(h)
  <2>1. Tagged(t[1]) /\ Follows(t[1 - 1], t[1]) /\ Carries(t[1], wire[1]) /\ Arrives(t[1])
    BY <1>2, <1>4 DEF Chain, Tags
  <2> QED
    BY <2>1, <1>5 DEF Tagged
<1>7. /\ Fits(g.p) /\ Fits(h.p) /\ Head(wire) = Frame(h.p)[h.k]
      /\ g.p \in Bytes /\ g.k \in Nat /\ g.r \in Nat /\ h.p \in Bytes /\ h.k \in Nat /\ h.r \in Nat
  BY <1>1, <1>4, <1>5, <1>6 DEF Tagged, Tag, Carries, Chunks
<1>8. /\ Len(Chunks(g.p)) = Len(g.p) + 2 /\ Len(Chunks(h.p)) = Len(h.p) + 2
      /\ Len(g.p) \in Nat /\ Len(h.p) \in Nat
  <2>1. Len(g.p) \in Nat /\ Len(h.p) \in Nat
    BY <1>7 DEF Bytes
  <2>2. Len(Frame(g.p)) = Len(g.p) + 2 /\ Len(Frame(h.p)) = Len(h.p) + 2
    BY <1>7, FrameFacts
  <2> QED
    BY <1>1, <2>1, <2>2 DEF Chunks
<1>9. /\ Frame(h.p)[1] = <<magic>> /\ Frame(h.p)[2] = <<[kind |-> "len", n |-> Len(h.p)]>>
      /\ \A i \in 1..Len(h.p) : Frame(h.p)[i + 2] = <<h.p[i]>>
  BY <1>7, FrameFacts
<1>10. Whole(h) => h.r <= Len(sent) /\ sent[h.r] = h.p
  BY <1>3, <1>6, <1>7 DEF Arrives
<1>11. CASE rx.pc = "header" /\ rx.buf = <<>>
  <2>1. Whole(g) /\ g.r = Len(got)
    BY <1>5, <1>7, <1>11 DEF Reader
  <2>2. h.k = 1 /\ h.r = Len(got) + 1
    BY <1>6, <1>7, <2>1 DEF Follows, One
  <2>3. data = <<magic>>
    BY <1>7, <1>9, <1>11, <2>2 DEF data
  <2>4. Len(data) < Wanted
    BY <2>3, <1>11 DEF Wanted
  <2>5. rx' = [rx EXCEPT !.buf = <<magic>>] /\ UNCHANGED got
    BY <1>1, <2>3, <2>4
  <2>6. rx' \in Receiver /\ rx'.pc = "header" /\ rx'.buf = <<magic>> /\ rx'.res = "none"
    <3>1. <<magic>> \in Bytes
      BY DEF Bytes, Unit
    <3> QED
      BY <1>3, <1>11, <2>5, <3>1 DEF Receiver
  <2>7. Reader(h)'
    BY <1>1, <1>7, <2>2, <2>5, <2>6 DEF Reader, world, Fits
  <2> QED
    BY <1>1, <1>2, <1>3, <1>6, <2>5, <2>6, <2>7, Taken DEF Delivers
<1>12. CASE rx.pc = "header" /\ rx.buf # <<>>
  <2>1. rx.buf = <<magic>> /\ g.k = 1 /\ g.r = Len(got) + 1
    BY <1>5, <1>12 DEF Reader
  <2>2. h.p = g.p /\ h.k = 2 /\ h.r = Len(got) + 1
    BY <1>6, <1>7, <1>8, <2>1 DEF Follows, Whole
  <2>3. data = <<magic, [kind |-> "len", n |-> Len(h.p)]>>
    <3>1. data = <<magic>> \o <<[kind |-> "len", n |-> Len(h.p)]>>
      BY <1>7, <1>9, <2>1, <2>2 DEF data
    <3> QED
      BY <3>1, Pair
  <2>4. Len(data) = Wanted
    BY <2>3, <1>12 DEF Wanted
  <2>5. \A len \in Nat : DecodesTo(data, len) <=> len = Len(h.p)
    BY <1>7, <1>8, <2>3, StreamAssumption DEF DecodesTo, Fits
  <2>6. Complete(data) /\ rx.pc = "header"
    BY <1>1, <1>12, <2>4
  <2>7. CASE Len(h.p) = 0
    <3>1. Return("ok") /\ got' = Append(got, <<>>)
      <4>1. DecodesTo(data, 0) /\ ~(\E len \in 1..kMaxFramePayload : DecodesTo(data, len))
        BY <2>5, <2>7, StreamAssumption
      <4>2. 0 \in 0..kMaxFramePayload
        BY StreamAssumption
      <4> QED
        BY <2>6, <4>1, <4>2, Zenon DEF Complete
    <3>2. Whole(h) /\ h.p = <<>>
      BY <1>7, <1>8, <2>2, <2>7 DEF Whole, Bytes
    <3>3. Len(got) < Len(sent) /\ sent[Len(got) + 1] = <<>>
      BY <1>3, <1>10, <2>2, <3>2
    <3>4. got' \in Seq(Bytes) /\ Len(got') = Len(got) + 1
      BY <1>3, <3>1, <3>3 DEF Bytes
    <3>5. rx' \in Receiver /\ rx'.pc = "idle" /\ rx'.res = "ok"
      BY <1>3, <3>1, ReturnFacts
    <3>6. Reader(h)'
      BY <1>1, <2>2, <3>2, <3>4, <3>5 DEF Reader, Whole, Chunks, world
    <3>7. Len(got') <= Len(sent)
      BY <1>3, <3>3, <3>4
    <3> QED
      BY <1>1, <1>2, <1>3, <1>6, <3>1, <3>3, <3>4, <3>5, <3>6, <3>7, Taken DEF Delivers
  <2>8. CASE Len(h.p) # 0
    <3>1. rx' = [rx EXCEPT !.pc = "payload", !.buf = <<>>, !.want = Len(h.p)] /\ got' = got
      <4>1. /\ Len(h.p) \in 0..kMaxFramePayload /\ ~DecodesTo(data, 0)
            /\ \A len \in 1..kMaxFramePayload : DecodesTo(data, len) => len = Len(h.p)
            /\ DecodesTo(data, Len(h.p))
        BY <1>7, <1>8, <2>5, <2>8, StreamAssumption DEF Fits
      <4> QED
        BY <2>6, <4>1, Zenon DEF Complete
    <3>2. /\ rx' \in Receiver /\ rx'.pc = "payload" /\ rx'.buf = <<>> /\ rx'.want = Len(h.p)
          /\ rx'.res = "none"
      <4>1. <<>> \in Bytes
        BY DEF Bytes
      <4> QED
        BY <1>3, <1>8, <3>1, <4>1 DEF Receiver
    <3>3. Reader(h)'
      BY <1>1, <1>7, <1>8, <2>2, <2>8, <3>1, <3>2 DEF Reader, world, Fits
    <3> QED
      BY <1>1, <1>2, <1>3, <1>6, <3>1, <3>2, <3>3, Taken DEF Delivers
  <2> QED
    BY <2>7, <2>8
<1>13. CASE rx.pc = "payload"
  <2> PICK b \in Nat : b = Len(rx.buf)
    BY <1>3 DEF Bytes
  <2>1. /\ g.k = 2 + b /\ g.r = Len(got) + 1 /\ rx.want = Len(g.p) /\ b < Len(g.p)
        /\ \A i \in 1..b : rx.buf[i] = g.p[i]
    BY <1>1, <1>5, <1>13 DEF Reader
  <2>2. h.p = g.p /\ h.k = 3 + b /\ h.r = Len(got) + 1
    BY <1>6, <1>7, <1>8, <2>1 DEF Follows, Whole
  <2>3. Head(wire) = <<h.p[b + 1]>>
    <3>1. b + 1 \in 1..Len(h.p) /\ (b + 1) + 2 = h.k
      BY <1>8, <2>1, <2>2
    <3> QED
      BY <1>7, <1>9, <3>1
  <2>4. data = Append(rx.buf, h.p[b + 1]) /\ h.p[b + 1] \in Unit
    <3>1. b + 1 \in 1..Len(h.p) /\ h.p \in Seq(Unit) /\ rx.buf \in Seq(Unit)
      BY SMTT(30), <1>3, <1>7, <1>8, <2>1, <2>2 DEF Bytes
    <3>2. PICK x \in Unit : x = h.p[b + 1]
      BY <3>1
    <3>3. Append(rx.buf, x) = rx.buf \o <<x>>
      BY <3>1, AppendIsConcat, Zenon
    <3> QED
      BY <2>3, <3>2, <3>3 DEF data
  <2>5. data \in Bytes /\ Len(data) = b + 1 /\ \A i \in 1..(b + 1) : data[i] = h.p[i]
    BY <1>3, <2>1, <2>2, <2>4 DEF Bytes
  <2>6. CASE b + 1 < Len(h.p)
    <3>1. rx' = [rx EXCEPT !.buf = data] /\ got' = got
      BY <1>1, <1>13, <2>1, <2>2, <2>5, <2>6 DEF Wanted
    <3>2. /\ rx' \in Receiver /\ rx'.pc = "payload" /\ rx'.buf = data /\ rx'.want = Len(h.p)
          /\ rx'.res = "none"
      BY <1>3, <1>13, <2>1, <2>2, <2>5, <3>1 DEF Receiver
    <3>3. Reader(h)'
      BY <1>1, <1>7, <1>8, <2>2, <2>5, <2>6, <3>1, <3>2 DEF Reader, world, Fits
    <3> QED
      BY <1>1, <1>2, <1>3, <1>6, <3>1, <3>2, <3>3, Taken DEF Delivers
  <2>7. CASE b + 1 = Len(h.p)
    <3>1. Complete(data)
      BY <1>1, <1>13, <2>1, <2>2, <2>5, <2>7 DEF Wanted
    <3>2. Return("ok") /\ got' = Append(got, data)
      BY <1>13, <3>1 DEF Complete
    <3>3. Whole(h) /\ data = h.p
      <4>1. data = h.p
        BY <1>7, <2>5, <2>7, SeqEqual DEF Bytes
      <4> QED
        BY <1>8, <2>2, <2>7, <4>1 DEF Whole
    <3>4. Len(got) < Len(sent) /\ sent[Len(got) + 1] = data
      BY <1>3, <1>10, <2>2, <3>3
    <3>5. got' \in Seq(Bytes) /\ Len(got') = Len(got) + 1
      BY <1>3, <2>5, <3>2
    <3>6. rx' \in Receiver /\ rx'.pc = "idle" /\ rx'.res = "ok"
      BY <1>3, <3>2, ReturnFacts
    <3>7. Reader(h)'
      BY <1>1, <2>2, <3>3, <3>5, <3>6 DEF Reader, Whole, Chunks, world
    <3>8. Len(got') <= Len(sent)
      BY <1>3, <3>4, <3>5
    <3> QED
      BY <1>1, <1>2, <1>3, <1>6, <3>2, <3>4, <3>5, <3>6, <3>7, <3>8, Taken DEF Delivers
  <2> QED
    BY <1>8, <2>1, <2>2, <2>6, <2>7
<1> QED
  BY <1>1, <1>11, <1>12, <1>13

\* A named pipe keeps what a ReadFile() did not take of a payload that is too long.
LEMMA Left ==
    ASSUME StreamInv, ~reset, UNCHANGED <<world, tx, sent, got>>, Return("error"),
           NEW t, Chain(t), wire # <<>>, Reader(t[0])', ~Fits(t[1].p), t[1].k # 1,
           NEW left \in Bytes, left # <<>>, \A i \in 1..Len(left) : left[i].kind = "data",
           wire' = <<left>> \o Tail(wire)
    PROVE  StreamInv'
<1>0. TypeOK /\ wire \in Seq(Bytes)
  BY DEF StreamInv, TypeOK
<1>1. /\ wire' \in Seq(Bytes) /\ Len(wire') = Len(wire) /\ wire'[1] = left
      /\ \A j \in 2..Len(wire) : wire'[j] = wire[j]
  <2>1. /\ Tail(wire) \in Seq(Bytes) /\ Len(Tail(wire)) = Len(wire) - 1 /\ Len(wire) \in Nat \ {0}
        /\ \A j \in 1..(Len(wire) - 1) : Tail(wire)[j] = wire[j + 1]
    BY <1>0, HeadTailProperties
  <2>2. <<left>> \in Seq(Bytes) /\ Len(<<left>>) = 1 /\ <<left>>[1] = left
    OBVIOUS
  <2> PICK one \in Seq(Bytes) : one = <<left>>
    BY <2>2
  <2> PICK rest \in Seq(Bytes) : rest = Tail(wire)
    BY <2>1
  <2>3. /\ one \o rest \in Seq(Bytes) /\ Len(one \o rest) = Len(one) + Len(rest)
        /\ \A j \in 1..(Len(one) + Len(rest)) :
              (one \o rest)[j] = IF j <= Len(one) THEN one[j] ELSE rest[j - Len(one)]
    BY ConcatProperties, ZenonT(60)
  <2>4. wire' = one \o rest /\ Len(one) = 1 /\ one[1] = left
    BY <2>2
  <2> QED
    BY <2>1, <2>3, <2>4
<1>2. /\ rx' \in Receiver /\ rx'.pc \in {"idle", "ended"} /\ rx'.res = "error"
  BY <1>0, ReturnFacts
<1>3. TypeOK'
  BY <1>1, <1>2 DEF StreamInv, TypeOK, world
<1>4. Numbered'
  BY DEF StreamInv, Numbered, world
<1>5. Informed'
  BY <1>2 DEF Informed
<1>6. Tags(t)'
  <2>1. \A j \in 0..Len(wire)' : Tagged(t[j])'
    BY <1>1 DEF Chain, Tags, Tagged, Chunks, world
  <2>2. ASSUME NEW j \in 1..Len(wire)'
        PROVE  Follows(t[j - 1], t[j])' /\ Carries(t[j], wire[j])' /\ Arrives(t[j])'
    <3>1. Follows(t[j - 1], t[j]) /\ Carries(t[j], wire[j]) /\ Arrives(t[j])
      BY <1>1 DEF Chain, Tags
    <3>2. Follows(t[j - 1], t[j])' /\ Arrives(t[j])'
      BY <3>1 DEF Follows, Arrives, Whole, Chunks, world
    <3>3. CASE j = 1
      BY <1>1, <3>2, <3>3 DEF Carries, Fits
    <3>4. CASE j # 1
      <4>1. wire'[j] = wire[j]
        BY <1>0, <1>1, <3>4
      <4> QED
        BY <3>1, <3>2, <4>1 DEF Carries, Chunks, world
    <3> QED
      BY <3>3, <3>4
  <2> QED
    BY <2>1, <2>2 DEF Tags
<1>7. Writer(t[Len(wire)])'
  <2>1. Writer(t[Len(wire)])
    BY DEF Chain
  <2> QED
    BY <1>1, <2>1 DEF Writer, Whole, Chunks, world
<1> QED
  BY <1>3, <1>4, <1>5, <1>6, <1>7 DEF StreamInv, Chain

\* Named pipes: the chunk is a header or a payload, or the rest of one that is
\* too long, in which no header is found.
LEMMA ReadFileStep ==
    ASSUME StreamInv, ReadFile
    PROVE  StreamInv' /\ Delivers
<1> DEFINE data == Head(wire)
           left == SubSeq(data, Wanted + 1, Len(data))
<1>1. /\ transport = "pipe" /\ wire # <<>> /\ rx.pc \in {"header", "payload"} /\ ~reset
      /\ wire' = (IF left = <<>> THEN <<>> ELSE <<left>>) \o Tail(wire) /\ UNCHANGED <<world, tx, sent>>
      /\ Len(data) = Wanted => Complete(data)
      /\ Len(data) # Wanted => Return("error") /\ UNCHANGED got
  BY DEF ReadFile, Read
<1>2. PICK t : Chain(t)
  BY <1>1 DEF StreamInv
<1>3. /\ rx \in Receiver /\ wire \in Seq(Bytes) /\ got \in Seq(Bytes) /\ sent \in Seq(Bytes)
      /\ rx.res = "none" /\ Len(got) <= Len(sent) /\ rx.buf \in Bytes /\ rx.want \in Nat /\ TypeOK
  BY <1>1 DEF StreamInv, TypeOK, Receiver, Numbered, Informed
<1>4. /\ 1 \in 1..Len(wire) /\ 0 \in 0..Len(wire) /\ 1 \in 0..Len(wire) /\ data = wire[1]
      /\ data \in Bytes /\ Len(data) \in Nat
  BY <1>1, <1>3 DEF Bytes
<1>5. PICK g \in Tag : g = t[0] /\ Tagged(g) /\ Reader(g)
  BY <1>2, <1>4 DEF Chain, Tags, Tagged
<1>6. PICK h \in Tag : /\ h = t[1] /\ Tagged(h) /\ Follows(g, h) /\ Carries(h, data) /\ Arrives(h)
  <2>1. Tagged(t[1]) /\ Follows(t[1 - 1], t[1]) /\ Carries(t[1], wire[1]) /\ Arrives(t[1])
    BY <1>2, <1>4 DEF Chain, Tags
  <2> QED
    BY <2>1, <1>4, <1>5 DEF Tagged
<1>7. /\ g.p \in Bytes /\ g.k \in Nat /\ g.r \in Nat /\ h.p \in Bytes /\ h.k \in Nat /\ h.r \in Nat
      /\ Len(g.p) \in Nat /\ Len(h.p) \in Nat
  BY <1>5, <1>6 DEF Tag, Bytes
<1>8. /\ Chunks(g.p) = Messages(g.p) /\ Chunks(h.p) = Messages(h.p)
  BY <1>1 DEF Chunks
<1>9. Whole(h) /\ Fits(h.p) => h.r <= Len(sent) /\ sent[h.r] = h.p
  BY <1>3, <1>6 DEF Arrives
<1>10. Wanted \in Nat
  BY <1>3 DEF Wanted
<1>11. Len(data) <= Wanted => left = <<>>
  BY <1>4, <1>10, SubSeqEmpty
<1>12. left = <<>> => wire' = Tail(wire)
  <2>1. Tail(wire) \in Seq(Bytes)
    BY <1>1, <1>3, HeadTailProperties
  <2> QED
    BY <1>1, <2>1, ConcatEmptySeq
<1> HIDE DEF data
\* No header where a payload is left.
<1>13. ASSUME ~Fits(h.p), rx.pc = "header", Return("error"), UNCHANGED got, wire' = Tail(wire), h.r = Len(got)
       PROVE  StreamInv' /\ Delivers
  <2>1. /\ rx' \in Receiver /\ rx'.pc \in {"idle", "ended"} /\ rx'.res = "error"
    BY <1>3, <1>13, ReturnFacts
  <2>2. Reader(h)'
    BY <1>13, <2>1 DEF Reader, Fits
  <2> QED
    BY <1>1, <1>2, <1>3, <1>6, <1>13, <2>1, <2>2, Taken DEF Delivers
<1>14. CASE rx.pc = "header" /\ h.k = 1
  <2>1. (Whole(g) \/ ~Fits(g.p)) /\ g.r = Len(got)
    BY <1>1, <1>5, <1>14 DEF Reader
  <2>2. h.r = Len(got) + One(h.p)
    BY <1>5, <1>6, <1>7, <1>14, <2>1 DEF Follows, Tagged
  <2>3. /\ Len(data) = 2 /\ data[1] = [kind |-> "magic", n |-> 0]
        /\ data[2] = [kind |-> "len", n |-> Len(h.p)]
    <3>1. data = EncodeHeader(Len(h.p))
      BY <1>6, <1>7, <1>8, <1>14, MessagesFacts DEF Carries
    <3> QED
      BY <1>7, <3>1, HeaderFacts
  <2>4. Complete(data) /\ wire' = Tail(wire)
    <3>1. Len(data) = Wanted
      BY <1>14, <2>3 DEF Wanted
    <3> QED
      BY <1>1, <1>4, <1>10, <1>11, <1>12, <3>1
  <2>5. \A len \in Nat : DecodesTo(data, len) <=> len = Len(h.p) /\ Fits(h.p)
    BY <1>7, <2>3 DEF DecodesTo, Fits
  <2>6. CASE ~Fits(h.p)
    <3>1. ~(\E len \in 0..kMaxFramePayload : DecodesTo(data, len)) /\ ~DecodesTo(data, 0)
      BY <2>5, <2>6, StreamAssumption
    <3>2. \A len \in 1..kMaxFramePayload : ~DecodesTo(data, len)
      BY <2>5, <2>6, StreamAssumption
    <3>3. Return("error") /\ UNCHANGED got
      BY <1>14, <2>4, <3>1, <3>2, Zenon DEF Complete
    <3>4. h.r = Len(got)
      BY <1>7, <2>2, <2>6, <1>3 DEF One
    <3> QED
      BY <1>13, <1>14, <2>4, <2>6, <3>3, <3>4
  <2>7. CASE Fits(h.p) /\ Len(h.p) = 0
    <3>1. Return("ok") /\ got' = Append(got, <<>>)
      <4>1. DecodesTo(data, 0) /\ ~(\E len \in 1..kMaxFramePayload : DecodesTo(data, len))
        BY <2>5, <2>7, StreamAssumption
      <4>2. 0 \in 0..kMaxFramePayload
        BY StreamAssumption
      <4> QED
        BY <1>14, <2>4, <4>1, <4>2, Zenon DEF Complete
    <3>2. Whole(h) /\ h.p = <<>>
      <4>1. h.p = <<>>
        BY <1>7, <2>7 DEF Bytes
      <4> QED
        BY <1>7, <1>8, <1>14, <4>1, MessagesFacts DEF Whole
    <3>3. Len(got) < Len(sent) /\ sent[Len(got) + 1] = <<>>
      BY <1>3, <1>9, <2>2, <2>7, <3>2 DEF One
    <3>4. got' \in Seq(Bytes) /\ Len(got') = Len(got) + 1
      BY <1>3, <3>1, <3>3 DEF Bytes
    <3>5. rx' \in Receiver /\ rx'.pc = "idle" /\ rx'.res = "ok"
      BY <1>3, <3>1, ReturnFacts
    <3>6. Reader(h)'
      BY <1>1, <2>2, <2>7, <3>2, <3>4, <3>5 DEF Reader, Whole, Chunks, One, world
    <3>7. Len(got') <= Len(sent)
      BY <1>3, <3>3, <3>4
    <3> QED
      BY <1>1, <1>2, <1>3, <1>6, <2>4, <3>1, <3>3, <3>4, <3>5, <3>6, <3>7, Taken DEF Delivers
  <2>8. CASE Fits(h.p) /\ Len(h.p) # 0
    <3>1. rx' = [rx EXCEPT !.pc = "payload", !.buf = <<>>, !.want = Len(h.p)] /\ got' = got
      <4>1. /\ Len(h.p) \in 0..kMaxFramePayload /\ ~DecodesTo(data, 0)
            /\ \A len \in 1..kMaxFramePayload : DecodesTo(data, len) => len = Len(h.p)
            /\ DecodesTo(data, Len(h.p))
        BY <1>7, <2>5, <2>8, StreamAssumption DEF Fits
      <4> QED
        BY <1>14, <2>4, <4>1, Zenon DEF Complete
    <3>2. /\ rx' \in Receiver /\ rx'.pc = "payload" /\ rx'.buf = <<>> /\ rx'.want = Len(h.p)
          /\ rx'.res = "none"
      <4>1. <<>> \in Bytes
        BY DEF Bytes
      <4> QED
        BY <1>3, <1>7, <3>1, <4>1 DEF Receiver
    <3>3. Reader(h)'
      BY <1>1, <1>7, <1>14, <2>2, <2>8, <3>1, <3>2 DEF Reader, world, Fits, One
    <3> QED
      BY <1>1, <1>2, <1>3, <1>6, <2>4, <3>1, <3>2, <3>3, Taken DEF Delivers
  <2> QED
    BY <2>6, <2>7, <2>8
<1>15. CASE rx.pc = "header" /\ h.k # 1
  <2>1. (Whole(g) \/ ~Fits(g.p)) /\ g.r = Len(got)
    BY <1>1, <1>5, <1>15 DEF Reader
  <2>2. h.p = g.p /\ h.r = Len(got) /\ ~Fits(h.p)
    BY <1>6, <1>7, <1>15, <2>1 DEF Follows
  <2>3. data # <<>> /\ \A i \in 1..Len(data) : data[i].kind = "data"
    BY <1>6, <1>15, <2>2 DEF Carries
  <2>4. CASE Len(data) = Wanted
    <3>1. \A len : ~DecodesTo(data, len)
      <4>1. 1 \in 1..Len(data) /\ data[1].kind = "data"
        BY <1>4, <2>3 DEF Bytes
      <4> QED
        BY <4>1 DEF DecodesTo
    <3>2. Return("error") /\ UNCHANGED got
      BY <1>1, <1>15, <2>4, <3>1, Zenon DEF Complete
    <3> QED
      BY <1>4, <1>10, <1>11, <1>12, <1>13, <1>15, <2>2, <2>4, <3>2
  <2>5. CASE Len(data) # Wanted /\ left = <<>>
    BY <1>1, <1>12, <1>13, <1>15, <2>2, <2>5
  <2>6. CASE Len(data) # Wanted /\ left # <<>>
    <3>1. Return("error") /\ UNCHANGED got /\ wire' = <<left>> \o Tail(wire)
      BY <1>1, <2>6
    <3>2. left \in Bytes /\ \A i \in 1..Len(left) : left[i].kind = "data"
      <4>1. Wanted + 1 \in Int /\ Len(data) \in Int /\ Wanted + 1 >= 1
        BY <1>4, <1>10
      <4>2. \A i \in (Wanted + 1)..Len(data) : data[i] \in {x \in Unit : x.kind = "data"}
        BY <1>4, <1>10, <2>3 DEF Bytes
      <4>3. left \in Seq({x \in Unit : x.kind = "data"})
        BY <4>1, <4>2, SubSeqProperties
      <4> HIDE DEF left
      <4> QED
        BY <4>3 DEF Bytes
    <3>3. Reader(g)'
      <4>1. /\ rx' \in Receiver /\ rx'.pc \in {"idle", "ended"} /\ rx'.res = "error"
        BY <1>3, <3>1, ReturnFacts
      <4> QED
        BY <1>1, <2>1, <3>1, <4>1 DEF Reader, Whole, Chunks, Fits, world
    <3> HIDE DEF left
    <3>4. StreamInv'
      BY <1>1, <1>2, <1>5, <1>6, <1>15, <2>2, <2>6, <3>1, <3>2, <3>3, Left
    <3> QED
      BY <3>1, <3>4 DEF Delivers
  <2> QED
    BY <2>4, <2>5, <2>6
<1>16. CASE rx.pc = "payload"
  <2>1. /\ g.k = 1 /\ g.r = Len(got) + 1 /\ rx.want = Len(g.p) /\ Len(g.p) > 0 /\ Fits(g.p)
    <3>1. rx.buf = <<>> => Len(rx.buf) = 0
      OBVIOUS
    <3> QED
      BY <1>1, <1>5, <1>7, <1>16, <3>1 DEF Reader
  <2>2. g.p # <<>> /\ Len(Chunks(g.p)) = 2
    <3>1. g.p # <<>>
      BY <1>7, <2>1
    <3> QED
      BY <1>7, <1>8, <3>1, MessagesFacts
  <2>3. h.p = g.p /\ h.k = 2 /\ h.r = Len(got) + 1 /\ Whole(h)
    <3>1. ~Whole(g)
      BY <2>1, <2>2 DEF Whole
    <3>2. h = [p |-> g.p, k |-> 2, r |-> g.r]
      BY <1>6, <2>1, <3>1 DEF Follows
    <3> QED
      BY <2>1, <2>2, <3>2 DEF Whole
  <2>4. data = h.p
    BY <1>6, <1>7, <1>8, <2>1, <2>2, <2>3, MessagesFacts DEF Carries
  <2>5. Complete(data) /\ wire' = Tail(wire)
    <3>1. Len(data) = Wanted
      BY <1>16, <2>1, <2>3, <2>4 DEF Wanted
    <3> QED
      BY <1>1, <1>4, <1>10, <1>11, <1>12, <3>1
  <2>6. Return("ok") /\ got' = Append(got, data)
    BY <1>16, <2>5 DEF Complete
  <2>7. Len(got) < Len(sent) /\ sent[Len(got) + 1] = data
    BY <1>3, <1>9, <2>1, <2>3, <2>4
  <2>8. got' \in Seq(Bytes) /\ Len(got') = Len(got) + 1 /\ Len(got') <= Len(sent)
    BY <1>3, <1>4, <2>6, <2>7
  <2>9. rx' \in Receiver /\ rx'.pc = "idle" /\ rx'.res = "ok"
    BY <1>3, <2>6, ReturnFacts
  <2>10. Reader(h)'
    BY <1>1, <2>3, <2>8, <2>9 DEF Reader, Whole, Chunks, world
  <2> QED
    BY <1>1, <1>2, <1>3, <1>6, <2>5, <2>6, <2>7, <2>8, <2>9, <2>10, Taken DEF Delivers
<1> QED
  BY <1>1, <1>14, <1>15, <1>16

-----------------------------------------------------------------------------
(* send() *)

\* A step that leaves the wire alone leaves the tags.
LEMMA Same ==
    ASSUME NEW t, Chain(t), UNCHANGED <<transport, wire, sent>>, Reader(t[0])', Writer(t[Len(wire)])'
    PROVE  Chain(t)'
BY DEF Chain, Tags, Tagged, Follows, Carries, Arrives, Whole, Chunks

\* A step of the sender that writes nothing.
LEMMA NotWritten ==
    ASSUME StreamInv, UNCHANGED <<transport, timed, reader, reset, wire, rx, sent, got>>,
           side' \in [{"tx", "rx"} -> {"open", "closed", "crashed"}], Gone("tx") => Gone("tx")',
           TypeOK', Numbered',
           \A g : Tagged(g) /\ Writer(g) => Writer(g)'
    PROVE  StreamInv'
<1>1. Informed'
  BY DEF StreamInv, Informed, Polls
<1>2. ASSUME ~reset' PROVE \E t : Chain(t)'
  <2>1. PICK t : Chain(t)
    BY <1>2 DEF StreamInv
  <2>2. Reader(t[0])'
    <3>1. Reader(t[0])
      BY <2>1 DEF Chain
    <3> QED
      BY <3>1 DEF Reader, Whole, Chunks
  <2>3. Writer(t[Len(wire)])'
    <3>1. Len(wire) \in 0..Len(wire)
      BY DEF StreamInv, TypeOK
    <3>2. PICK g : g = t[Len(wire)]
      OBVIOUS
    <3>3. Tagged(g) /\ Writer(g)
      BY <2>1, <3>1, <3>2 DEF Chain, Tags
    <3>4. Writer(g)'
      BY <3>3
    <3> QED
      BY <3>2, <3>4
  <2> QED
    BY <2>1, <2>2, <2>3, Same
<1> QED
  BY <1>1, <1>2 DEF StreamInv

\* send() begins a frame after the last one is written.
LEMMA SendCallStep ==
    ASSUME StreamInv, NEW len \in Lengths, SendCall(len)
    PROVE  StreamInv'
<1>1. tx.n \in Nat /\ len \in Nat /\ tx.n + 1 \in Nat /\ TypeOK
  BY StreamAssumption DEF StreamInv, TypeOK, Sender
<1>2. PICK p \in Bytes : p = Payload(tx.n + 1, len) /\ Len(p) = len
  BY <1>1, PayloadFacts
<1>3. /\ tx' = [pc |-> IF Polls THEN "poll" ELSE "write", n |-> tx.n + 1, payload |-> p, todo |-> Chunks(p)]
      /\ tx.pc = "idle" /\ tx.n < MaxMsgs /\ (transport = "pipe" \/ len <= kMaxFramePayload)
      /\ UNCHANGED <<world, wire, rx, sent, got>>
  BY <1>2 DEF SendCall, Chunks
<1>4. Chunks(p) \in Seq(Bytes) /\ Chunks(p) # <<>>
  <2>1. Chunks(p) \in Seq(Bytes) /\ Len(Chunks(p)) >= 1
    BY ChunksFacts
  <2>2. Chunks(p) = <<>> => Len(Chunks(p)) = 0
    OBVIOUS
  <2> QED
    BY <2>1, <2>2
<1>5. TypeOK'
  BY <1>1, <1>3, <1>4 DEF TypeOK, Sender, world
<1>6. Numbered'
  BY <1>1, <1>2, <1>3, <1>4, StreamAssumption DEF StreamInv, Numbered, world, TypeOK
<1>7. \A g : Writer(g) => Writer(g)'
  BY <1>3 DEF Writer, Whole, Chunks, world
<1> QED
  BY <1>1, <1>3, <1>5, <1>6, <1>7, NotWritten DEF world, TypeOK, Gone

\* send() fails, perhaps with half a frame written.
LEMMA SendEndsStep ==
    ASSUME StreamInv, (\E len \in Lengths : SendRefused(len)) \/ PollWritable \/ WriteFails
    PROVE  StreamInv'
<1>1. /\ UNCHANGED <<transport, timed, reader, reset, wire, rx, sent, got>>
      /\ side' = side \/ side' = [side EXCEPT !["tx"] = "crashed"]
      /\ tx' = [tx EXCEPT !.pc = "failed"] \/ (tx.pc = "poll" /\ tx' = [tx EXCEPT !.pc = "write"])
  BY DEF SendRefused, PollWritable, WriteFails, Ends, world
<1>2. TypeOK /\ TypeOK'
  BY <1>1 DEF StreamInv, TypeOK, Sender
<1>3. /\ tx'.pc = "failed" \/ (tx.pc = "poll" /\ tx'.pc = "write")
      /\ tx'.n = tx.n /\ tx'.payload = tx.payload /\ tx'.todo = tx.todo
  BY <1>1, <1>2 DEF TypeOK, Sender
<1>4. Numbered'
  BY <1>1, <1>3 DEF StreamInv, Numbered
<1>5. \A g : Writer(g) => Writer(g)'
  BY <1>1, <1>3 DEF Writer, Whole, Chunks
<1>6. Gone("tx") => Gone("tx")'
  BY <1>1, <1>2 DEF Gone, TypeOK
<1> QED
  BY <1>1, <1>2, <1>4, <1>5, <1>6, NotWritten DEF TypeOK

\* What is promised with a write.
Promises ==
    \/ UNCHANGED sent
    \/ /\ sent' = Append(sent, tx.payload) /\ Len(sent) < tx.n /\ tx.n <= MaxMsgs
       /\ Fits(tx.payload) /\ \E len \in Nat : tx.payload = Payload(tx.n, len)

\* The sender writes the chunk that follows the last one on the wire.
LEMMA WriteAllStep ==
    ASSUME StreamInv, WriteAll
    PROVE  StreamInv' /\ Promises
<1> DEFINE p == tx.payload
           C == Chunks(p)
<1>1. /\ side["tx"] = "open" /\ tx.pc = "write" /\ ~reset /\ wire' = Append(wire, Head(tx.todo))
      /\ IF Len(tx.todo) > 1
         THEN tx' = [tx EXCEPT !.todo = Tail(@)] /\ UNCHANGED sent
         ELSE tx' = [tx EXCEPT !.pc = "idle", !.todo = <<>>] /\ Promise(p)
      /\ UNCHANGED <<world, rx, got>>
  BY DEF WriteAll
<1>2. PICK t : Chain(t)
  BY <1>1 DEF StreamInv
<1>3. /\ TypeOK /\ wire \in Seq(Bytes) /\ sent \in Seq(Bytes) /\ Len(sent) \in Nat
      /\ p \in Bytes /\ Len(p) \in Nat /\ tx.todo \in Seq(Bytes) /\ tx.todo # <<>>
      /\ Len(got) <= Len(sent) /\ Len(sent) < tx.n /\ tx.n <= MaxMsgs /\ tx.n \in Nat
      /\ transport # "pipe" => Fits(p)
  BY <1>1 DEF StreamInv, TypeOK, Sender, Numbered, Fits, Bytes
<1>4. PICK len \in Nat : p = Payload(tx.n, len)
  BY <1>1 DEF StreamInv, Numbered
<1>5. C \in Seq(Bytes) /\ Len(C) \in Nat /\ Len(C) >= 1
  BY <1>3, ChunksFacts
<1>6. PICK g \in Tag : g = t[Len(wire)] /\ Tagged(g) /\ Writer(g)
  <2>1. Len(wire) \in 0..Len(wire)
    BY <1>3
  <2> QED
    BY <1>2, <2>1 DEF Chain, Tags, Tagged
<1>7. g.p \in Bytes /\ g.k \in Nat /\ g.r \in Nat /\ One(p) \in {0, 1} /\ One(g.p) \in {0, 1}
  BY <1>6 DEF Tag, One
<1>8. PICK h \in Tag : /\ h.p = p /\ h.k \in 1..Len(C) /\ h.r = Len(sent) + One(p) /\ Follows(g, h)
                       /\ tx.todo = SubSeq(C, h.k, Len(C))
  <2>1. CASE Whole(g) /\ tx.todo = C
    <3> PICK h : h = [p |-> p, k |-> 1, r |-> Len(sent) + One(p)]
      OBVIOUS
    <3>1. h \in Tag /\ h.p = p /\ h.k = 1 /\ h.r = Len(sent) + One(p)
      BY <1>3, <1>7 DEF Tag
    <3>2. Len(sent) = g.r
      BY <1>6, <2>1 DEF Writer
    <3>3. Follows(g, h)
      BY <2>1, <3>1, <3>2 DEF Follows
    <3>4. tx.todo = SubSeq(C, 1, Len(C))
      BY <1>5, <2>1, SubSeqFull
    <3> QED
      BY <1>5, <3>1, <3>3, <3>4
  <2>2. CASE ~Whole(g) /\ g.p = p /\ tx.todo = SubSeq(Chunks(g.p), g.k + 1, Len(Chunks(g.p)))
    <3> PICK h : h = [p |-> g.p, k |-> g.k + 1, r |-> g.r]
      OBVIOUS
    <3>1. h \in Tag /\ h.p = p /\ h.k = g.k + 1 /\ h.r = g.r
      BY <1>7, <2>2 DEF Tag
    <3>2. Len(sent) = g.r - One(p)
      BY <1>6, <2>2 DEF Writer
    <3>3. h.r = Len(sent) + One(p)
      BY <1>7, <3>1, <3>2
    <3>4. h.k \in 1..Len(C)
      BY <1>5, <1>6, <1>7, <2>2, <3>1 DEF Whole, Tagged
    <3>5. Follows(g, h)
      BY <2>2 DEF Follows
    <3> QED
      BY <2>2, <3>1, <3>3, <3>4, <3>5
  <2> QED
    BY <1>1, <1>6, <2>1, <2>2 DEF Writer
<1> HIDE DEF C
<1>9. /\ Head(tx.todo) = C[h.k] /\ Tail(tx.todo) = SubSeq(C, h.k + 1, Len(C))
      /\ Len(tx.todo) > 1 <=> h.k # Len(C)
  <2>1. h.k \in 1..Len(C) /\ Len(C) \in h.k..Len(C)
    BY <1>5, <1>8
  <2>2. /\ Head(SubSeq(C, h.k, Len(C))) = C[h.k]
        /\ Tail(SubSeq(C, h.k, Len(C))) = SubSeq(C, h.k + 1, Len(C))
    BY <1>5, <2>1, HeadTailOfSubSeq
  <2>3. Len(SubSeq(C, h.k, Len(C))) = Len(C) - h.k + 1
    BY <1>5, <2>1
  <2>4. Head(tx.todo) = C[h.k] /\ Tail(tx.todo) = SubSeq(C, h.k + 1, Len(C))
    BY <1>8, <2>2, Zenon
  <2>5. Len(tx.todo) = Len(C) - h.k + 1
    BY <1>8, <2>3, Zenon
  <2>6. Len(tx.todo) > 1 <=> h.k # Len(C)
    BY <1>5, <2>1, <2>5
  <2> QED
    BY <2>4, <2>6
<1>10. Whole(h) <=> h.k = Len(C)
  BY <1>8 DEF Whole, C
<1>11. Tagged(h) /\ Carries(h, Head(tx.todo))
  <2>1. Tagged(h)
    BY <1>3, <1>8 DEF Tagged, C
  <2>2. CASE Fits(p) \/ h.k = 1
    BY <1>8, <1>9, <2>1, <2>2 DEF Carries, C
  <2>3. CASE ~Fits(p) /\ h.k # 1
    <3>1. transport = "pipe" /\ C = Messages(p)
      BY <1>3, <2>3 DEF C, Chunks
    <3>2. p # <<>>
      <4>1. Len(p) > 0
        BY <1>3, <2>3, StreamAssumption DEF Fits
      <4> QED
        BY <4>1
    <3>3. Len(C) = 2 /\ C[2] = p
      BY <1>3, <3>1, <3>2, MessagesFacts
    <3>4. h.k = 2
      BY <1>8, <2>3, <3>3
    <3>5. \A i \in 1..Len(p) : p[i].kind = "data"
      <4>1. tx.n \in Nat
        BY <1>3
      <4> QED
        BY <1>4, <4>1 DEF Payload
    <3> QED
      BY <1>3, <1>8, <1>9, <2>1, <2>3, <3>2, <3>3, <3>4, <3>5 DEF Carries
  <2> QED
    BY <2>2, <2>3
<1>12. PICK chunk \in Bytes : chunk = Head(tx.todo)
  BY <1>3, HeadTailProperties
<1>13. Reader(t[0])'
  <2>1. Reader(t[0])
    BY <1>2 DEF Chain
  <2> QED
    BY <1>1, <2>1 DEF Reader, Whole, Chunks, world
<1>14. wire' \in Seq(Bytes)
  BY <1>1, <1>3, <1>12
<1>15. ASSUME Arrives(h)', Writer(h)', TypeOK', Numbered', Len(sent)' >= Len(sent),
              \A i \in 1..Len(sent) : i \in 1..Len(sent') /\ sent'[i] = sent[i]
       PROVE  StreamInv'
  <2>1. PICK u : Tags(u)' /\ u[0] = t[0] /\ u[Len(wire)'] = h
    <3>1. Tags(t) /\ Follows(t[Len(wire)], h) /\ UNCHANGED transport /\ wire' = Append(wire, chunk)
      BY <1>1, <1>2, <1>6, <1>8, <1>12 DEF Chain, world
    <3> QED
      BY SMTT(30), <1>3, <1>11, <1>12, <1>15, <3>1, Push
  <2>2. Chain(u)'
    BY <1>13, <1>15, <2>1 DEF Chain
  <2>3. Informed'
    BY <1>1, <1>15 DEF StreamInv, Informed, Gone, Polls, world
  <2> QED
    BY <1>15, <2>2, <2>3 DEF StreamInv
<1>16. CASE Len(tx.todo) > 1
  <2>1. tx' = [tx EXCEPT !.todo = SubSeq(C, h.k + 1, Len(C))] /\ UNCHANGED sent /\ ~Whole(h)
    BY <1>1, <1>9, <1>10, <1>16
  <2>2. SubSeq(C, h.k + 1, Len(C)) \in Seq(Bytes) /\ SubSeq(C, h.k + 1, Len(C)) # <<>>
    <3>1. /\ Tail(tx.todo) \in Seq(Bytes) /\ Len(Tail(tx.todo)) = Len(tx.todo) - 1
      BY <1>3, HeadTailProperties
    <3>2. Tail(tx.todo) # <<>>
      <4>1. PICK r \in Seq(Bytes) : r = Tail(tx.todo)
        BY <3>1
      <4>2. Len(r) > 0
        BY <1>3, <1>16, <3>1, <4>1
      <4>3. r # <<>>
        BY <4>2
      <4> QED
        BY <4>1, <4>3
    <3> QED
      BY <1>9, <3>1, <3>2, Zenon
  <2> PICK rest \in Seq(Bytes) : rest = SubSeq(C, h.k + 1, Len(C)) /\ rest # <<>>
    BY <2>2
  <2>3. /\ tx' = [tx EXCEPT !.todo = rest] /\ tx'.todo = rest /\ tx'.pc = "write"
        /\ tx'.n = tx.n /\ tx'.payload = p
    BY <1>1, <1>3, <2>1 DEF TypeOK, Sender
  <2>4. TypeOK'
    BY <1>1, <1>3, <1>14, <2>1, <2>3 DEF TypeOK, Sender, world
  <2>5. Numbered'
    BY <1>1, <2>1, <2>3 DEF StreamInv, Numbered, world
  <2>6. Arrives(h)'
    BY <1>1, <2>1 DEF Arrives, Whole, Chunks, world
  <2>7. Writer(h)'
    <3>1. ~Whole(h)' /\ Chunks(h.p)' = C
      BY <1>1, <1>8, <2>1 DEF Whole, Chunks, C, world
    <3>2. Len(sent') = h.r - One(h.p)
      BY SMTT(30), <1>3, <1>7, <1>8, <2>1
    <3> QED
      BY <1>8, <2>3, <3>1, <3>2 DEF Writer, One, Fits
  <2> QED
    BY <1>3, <1>15, <2>1, <2>4, <2>5, <2>6, <2>7 DEF Promises
<1>17. CASE ~(Len(tx.todo) > 1)
  <2>1. /\ tx' = [tx EXCEPT !.pc = "idle", !.todo = <<>>] /\ Whole(h)
        /\ sent' = IF Fits(p) THEN Append(sent, p) ELSE sent
    BY <1>1, <1>9, <1>10, <1>17 DEF Promise, Fits
  <2>2. /\ sent' \in Seq(Bytes) /\ Len(sent') = Len(sent) + One(p)
        /\ Fits(p) => sent'[Len(sent) + 1] = p
        /\ \A i \in 1..Len(sent) : sent'[i] = sent[i]
    BY <1>3, <2>1 DEF One
  <2>3. tx'.pc = "idle" /\ tx'.n = tx.n /\ tx'.payload = p
    BY <1>3, <2>1 DEF TypeOK
  <2>4. TypeOK'
    <3>1. tx \in Sender /\ <<>> \in Seq(Bytes)
      BY <1>3 DEF TypeOK
    <3>2. tx' \in Sender
      BY <2>1, <3>1 DEF Sender
    <3> QED
      BY <1>1, <1>3, <1>14, <2>2, <3>2 DEF TypeOK, world
  <2>5. Numbered'
    <3>1. Len(got) \in Nat
      BY <1>3 DEF TypeOK
    <3> QED
      BY <1>1, <1>3, <1>7, <2>2, <2>3, <3>1 DEF Numbered, world
  <2>6. Arrives(h)'
    BY <1>3, <1>8, <2>2 DEF Arrives, One, Fits
  <2>7. Writer(h)'
    <3>1. Whole(h)'
      BY <1>1, <2>1 DEF Whole, Chunks, world
    <3> QED
      BY <1>8, <2>2, <2>3, <3>1 DEF Writer
  <2>8. Len(sent)' >= Len(sent) /\ \A i \in 1..Len(sent) : i \in 1..Len(sent') /\ sent'[i] = sent[i]
    BY <1>3, <1>7, <2>2
  <2> QED
    BY <1>3, <1>4, <1>15, <2>1, <2>4, <2>5, <2>6, <2>7, <2>8 DEF Promises
<1> QED
  BY <1>16, <1>17

-----------------------------------------------------------------------------
(* The rest of recv(), close() and crashes *)

\* A step of the receiver that reads nothing.
LEMMA NotRead ==
    ASSUME StreamInv, UNCHANGED <<world, wire, tx, sent, got>>, rx' \in Receiver, Informed',
           ~reset => \A g : Reader(g) => Reader(g)'
    PROVE  StreamInv'
<1>1. TypeOK' /\ Numbered'
  BY DEF StreamInv, TypeOK, Numbered, world
<1>2. ASSUME ~reset' PROVE \E t : Chain(t)'
  <2>1. PICK t : Chain(t)
    BY <1>2 DEF StreamInv, world
  <2>2. Reader(t[0])'
    <3>1. Reader(t[0])
      BY <2>1 DEF Chain
    <3> QED
      BY <1>2, <3>1 DEF world
  <2>3. Writer(t[Len(wire)])'
    <3>1. Writer(t[Len(wire)])
      BY <2>1 DEF Chain
    <3> QED
      BY <3>1 DEF Writer, Whole, Chunks, world
  <2> QED
    BY <2>1, <2>2, <2>3, Same DEF world
<1> QED
  BY <1>1, <1>2 DEF StreamInv

\* recv() begins between two frames.
LEMMA RecvCallStep ==
    ASSUME StreamInv, RecvCall
    PROVE  StreamInv'
<1>1. /\ rx.pc = "idle" /\ rx.res # "closed" /\ UNCHANGED <<world, wire, tx, sent, got>>
      /\ rx' = [rx EXCEPT !.pc = IF Polls THEN "poll" ELSE "header", !.buf = <<>>, !.res = "none"]
  BY DEF RecvCall
<1>2. rx \in Receiver /\ <<>> \in Bytes
  BY DEF StreamInv, TypeOK, Bytes
<1>3. rx' \in Receiver /\ rx'.pc \in {"poll", "header"} /\ rx'.buf = <<>> /\ rx'.res = "none"
  BY <1>1, <1>2 DEF Receiver
<1>4. Informed'
  <2>1. rx'.pc = "poll" => Polls
    BY <1>1, <1>2 DEF Receiver
  <2> QED
    BY <1>1, <1>3, <2>1 DEF Informed, Polls, world
<1>5. \A g : Reader(g) => Reader(g)'
  BY <1>1, <1>3 DEF Reader, Whole, Chunks, Fits, world
<1> QED
  BY <1>1, <1>3, <1>4, <1>5, NotRead

\* wait_readable() takes nothing.
LEMMA PollReadableStep ==
    ASSUME StreamInv, PollReadable
    PROVE  StreamInv'
<1>1. /\ rx.pc = "poll" /\ UNCHANGED <<world, wire, tx, sent, got>>
      /\ \/ Gone("tx") /\ Return("closed")
         \/ rx' = [rx EXCEPT !.pc = "header"]
         \/ Return("timeout")
  BY DEF PollReadable
<1>2. rx \in Receiver /\ rx.res = "none" /\ TypeOK
  BY <1>1 DEF StreamInv, TypeOK, Informed
<1>3. Polls /\ rx.buf = <<>>
  BY <1>1 DEF StreamInv, Informed
<1>4. CASE rx' = [rx EXCEPT !.pc = "header"]
  <2>1. rx' \in Receiver /\ rx'.pc = "header" /\ rx'.buf = <<>> /\ rx'.res = "none"
    BY <1>2, <1>3, <1>4 DEF Receiver
  <2>2. Informed'
    BY <2>1 DEF Informed
  <2>3. \A g : Reader(g) => Reader(g)'
    BY <1>1, <1>2, <2>1 DEF Reader, Whole, Chunks, world
  <2> QED
    BY <1>1, <2>1, <2>2, <2>3, NotRead
<1>5. CASE (Gone("tx") /\ Return("closed")) \/ Return("timeout")
  <2>1. /\ rx' \in Receiver /\ rx'.pc \in {"idle", "ended"}
        /\ rx'.res = "timeout" \/ (Gone("tx") /\ rx'.res = "closed")
    BY <1>2, <1>5, ReturnFacts
  <2>2. Informed'
    BY <1>1, <1>3, <2>1 DEF Informed, Polls, Gone, world
  <2>3. \A g : Reader(g) => Reader(g)'
    BY <1>1, <1>2, <2>1 DEF Reader, Whole, Chunks, world
  <2> QED
    BY <1>1, <2>1, <2>2, <2>3, NotRead
<1> QED
  BY <1>1, <1>4, <1>5

\* The end of the stream: nothing is on its way, so what the receiver lacks the
\* sender has not finished.
LEMMA ReadEndsStep ==
    ASSUME StreamInv, ReadEnds
    PROVE  StreamInv'
<1>1. /\ rx.pc \in {"header", "payload"} /\ UNCHANGED <<world, wire, tx, sent, got>>
      /\ reset \/ (Gone("tx") /\ wire = <<>>)
      /\ Return(IF reset THEN "error" ELSE "closed")
  BY DEF ReadEnds
<1>2. TypeOK /\ reset \in BOOLEAN
  BY DEF StreamInv, TypeOK
<1>3. /\ rx' \in Receiver /\ rx'.pc \in {"idle", "ended"}
      /\ rx'.res = IF reset THEN "error" ELSE "closed"
  <2>1. CASE reset
    BY <1>1, <1>2, <2>1, ReturnFacts
  <2>2. CASE ~reset
    BY <1>1, <1>2, <2>2, ReturnFacts
  <2> QED
    BY <2>1, <2>2
<1>4. ~reset => Len(got) = Len(sent)
  <2> SUFFICES ASSUME ~reset PROVE Len(got) = Len(sent)
    OBVIOUS
  <2>1. PICK t : Chain(t)
    BY DEF StreamInv
  <2>2. Len(wire) = 0 /\ 0 \in 0..Len(wire)
    BY <1>1
  <2>3. PICK g \in Tag : Tagged(g) /\ Reader(g) /\ Writer(g)
    BY <2>1, <2>2 DEF Chain, Tags, Tagged
  <2>4. /\ g.p \in Bytes /\ g.r \in Nat /\ g.k \in Nat /\ Len(g.p) \in Nat
        /\ Len(got) \in Nat /\ Len(sent) \in Nat /\ Len(rx.buf) \in Nat
    BY <1>2, <2>3 DEF Tag, TypeOK, Receiver, Bytes
  <2>5. CASE rx.pc = "header" /\ rx.buf = <<>>
    BY <2>3, <2>4, <2>5 DEF Reader, Writer, One
  <2>6. ASSUME Fits(g.p), g.r = Len(got) + 1, ~Whole(g) PROVE Len(got) = Len(sent)
    BY <2>3, <2>4, <2>6 DEF Writer, One
  <2>7. CASE rx.pc = "header" /\ rx.buf # <<>>
    <3>1. Fits(g.p) /\ g.r = Len(got) + 1 /\ g.k = 1 /\ transport # "pipe"
      BY <2>3, <2>7 DEF Reader
    <3>2. Len(Chunks(g.p)) = Len(g.p) + 2
      BY <2>4, <3>1, FrameFacts DEF Chunks
    <3> QED
      BY <2>4, <2>6, <3>1, <3>2 DEF Whole
  <2>8. CASE rx.pc = "payload"
    <3>1. /\ Fits(g.p) /\ g.r = Len(got) + 1 /\ Len(rx.buf) < Len(g.p)
          /\ g.k = IF transport = "pipe" THEN 1 ELSE 2 + Len(rx.buf)
      BY <2>3, <2>8 DEF Reader
    <3>2. CASE transport # "pipe"
      <4>1. Len(Chunks(g.p)) = Len(g.p) + 2
        BY <2>4, <3>2, FrameFacts DEF Chunks
      <4> QED
        BY <2>4, <2>6, <3>1, <3>2, <4>1 DEF Whole
    <3>3. CASE transport = "pipe"
      <4>1. g.p # <<>>
        BY <2>4, <3>1
      <4>2. Len(Chunks(g.p)) = 2
        BY <2>4, <3>3, <4>1, MessagesFacts DEF Chunks
      <4> QED
        BY <2>6, <3>1, <3>3, <4>2 DEF Whole
    <3> QED
      BY <3>2, <3>3
  <2> QED
    BY <1>1, <2>5, <2>7, <2>8
<1>5. Informed'
  <2>1. rx'.res = "closed" => Gone("tx") /\ Len(got) = Len(sent)
    BY <1>1, <1>2, <1>3, <1>4
  <2> QED
    BY <1>1, <1>3, <2>1 DEF Informed, Gone, world
<1>6. ~reset => \A g : Reader(g) => Reader(g)'
  BY <1>3 DEF Reader
<1> QED
  BY <1>1, <1>3, <1>5, <1>6, NotRead

\* close(), a crash and a reset of the connection.
LEMMA GoneStep ==
    ASSUME StreamInv, (\E s \in {"tx", "rx"} : Close(s) \/ Crash(s)) \/ Reset
    PROVE  StreamInv'
<1>1. CASE \E s \in {"tx", "rx"} : Close(s) \/ Crash(s)
  <2>1. PICK s \in {"tx", "rx"}, how \in {"closed", "crashed"} : side' = [side EXCEPT ![s] = how]
    BY <1>1 DEF Close, Crash
  <2>2. UNCHANGED <<transport, timed, reader, reset, wire, tx, rx, sent, got>>
    BY <1>1 DEF Close, Crash
  <2>3. Gone("tx") => Gone("tx")'
    BY <2>1, <2>2 DEF StreamInv, TypeOK, Gone
  <2>4. TypeOK'
    BY <2>1, <2>2 DEF StreamInv, TypeOK
  <2>5. Numbered' /\ \A g : Writer(g) => Writer(g)'
    BY <2>2 DEF StreamInv, Numbered, Writer, Whole, Chunks
  <2>6. side' \in [{"tx", "rx"} -> {"open", "closed", "crashed"}]
    BY <2>4 DEF TypeOK
  <2> QED
    BY <2>2, <2>3, <2>4, <2>5, <2>6, NotWritten
<1>2. CASE Reset
  <2>1. reset' /\ wire' = <<>> /\ UNCHANGED <<transport, timed, reader, side, tx, rx, sent, got>>
    BY <1>2 DEF Reset
  <2>2. TypeOK'
    BY <2>1, <1>2 DEF StreamInv, TypeOK, Reset
  <2>3. Numbered' /\ Informed'
    BY <2>1 DEF StreamInv, Numbered, Informed, Polls, Gone
  <2> QED
    BY <2>1, <2>2, <2>3 DEF StreamInv
<1> QED
  BY <1>1, <1>2

-----------------------------------------------------------------------------
(* Theorems *)

\* The tag of the chunk before the first is that of an empty frame.
LEMMA StreamInit == Init => StreamInv
<1> SUFFICES ASSUME Init PROVE StreamInv
  OBVIOUS
<1>1. <<>> \in Bytes /\ Len(<<>>) = 0
  BY DEF Bytes
<1>2. TypeOK
  <2>1. <<>> \in Seq(Bytes)
    OBVIOUS
  <2>2. tx \in Sender
    BY <1>1, <2>1 DEF Init, Sender
  <2>3. rx \in Receiver
    BY <1>1 DEF Init, Receiver
  <2> QED
    BY <2>1, <2>2, <2>3, StreamAssumption DEF Init, TypeOK
<1>3. Numbered /\ Informed
  BY <1>1, StreamAssumption DEF Init, Numbered, Informed
<1>4. PICK g : g = [p |-> <<>>, k |-> Len(Chunks(<<>>)), r |-> 0]
  OBVIOUS
<1>5. g \in Tag /\ Whole(g) /\ Tagged(g) /\ g.r = 0
  BY <1>1, <1>4, ChunksFacts, StreamAssumption DEF Tag, Tagged, Whole, Fits
<1>6. PICK t : t = [j \in {0} |-> g]
  OBVIOUS
<1>7. Tags(t) /\ Reader(t[0]) /\ Writer(t[Len(wire)])
  <2>1. Len(wire) = 0 /\ Len(sent) = 0 /\ Len(got) = 0 /\ rx.pc = "idle" /\ tx.pc = "idle" /\ t[0] = g
    BY <1>1, <1>6 DEF Init
  <2>2. Tags(t)
    BY <1>5, <2>1 DEF Tags
  <2>3. Reader(g)
    BY <1>5, <2>1 DEF Reader
  <2>4. Writer(g)
    BY <1>5, <2>1 DEF Writer
  <2> QED
    BY <2>1, <2>2, <2>3, <2>4
<1> QED
  BY <1>2, <1>3, <1>7 DEF StreamInv, Chain

\* Every step keeps the tags and what both ends know.
LEMMA StreamStep ==
    ASSUME StreamInv, [Next]_vars
    PROVE  StreamInv'
<1>1. CASE Next
  BY <1>1, SendCallStep, SendEndsStep, WriteAllStep, RecvCallStep, PollReadableStep, ReadExactStep,
     ReadFileStep, ReadEndsStep, GoneStep DEF Next, Sending, Receiving
<1>2. CASE UNCHANGED vars
  <2>1. TypeOK' /\ Numbered' /\ Informed'
    BY <1>2 DEF StreamInv, TypeOK, Numbered, Informed, Polls, Gone, vars
  <2>2. ASSUME ~reset' PROVE \E t : Chain(t)'
    <3>1. PICK t : Chain(t)
      BY <1>2, <2>2 DEF StreamInv, vars
    <3>2. Reader(t[0])' /\ Writer(t[Len(wire)])'
      BY <1>2, <3>1 DEF Chain, Reader, Writer, Whole, Chunks, vars
    <3> QED
      BY <1>2, <3>1, <3>2, Same DEF vars
  <2> QED
    BY <2>1, <2>2 DEF StreamInv
<1> QED
  BY <1>1, <1>2

\* kClosed is told only when everything promised has been received, over every
\* transport, whatever the sizes: recv() reads to the end of what is on its way.
THEOREM ClosedInvariant == Spec => []ClosedIsComplete
<1>1. StreamInv => ClosedIsComplete
  <2> SUFFICES ASSUME StreamInv, rx.res = "closed", ~Polls PROVE Missing = <<>>
    BY DEF ClosedIsComplete
  <2>1. Len(got) = Len(sent) /\ Len(sent) \in Nat
    BY DEF StreamInv, Informed, TypeOK
  <2> QED
    BY <2>1, SubSeqEmpty DEF Missing
<1>2. StreamInv /\ [Next]_vars => StreamInv'
  BY StreamStep
<1> QED
  BY <1>1, <1>2, StreamInit, PTL DEF Spec

Up == ~reset /\ ~Gone("tx") /\ ~Gone("rx") /\ rx.pc # "ended"
Out == IF got = <<>> THEN Nothing ELSE Last(got)

\* A step that promises and delivers nothing, and does not bring an end back.
LEMMA FifoIdle ==
    ASSUME UNCHANGED <<sent, got>>, Up' => Up
    PROVE  [Fifo!Next]_Fifo!vars
<1>1. Missing' = Missing /\ Out' = Out
  BY DEF Missing, Out
<1>2. CASE Up' = Up
  BY <1>1, <1>2 DEF Fifo!vars, Up, Out
<1>3. CASE Up' # Up
  <2>1. Up' = FALSE
    BY <1>3 DEF Up
  <2> QED
    BY <1>1, <2>1 DEF Fifo!Next, Fifo!Down, Up, Out
<1> QED
  BY <1>2, <1>3

\* What SubSeq leaves of a queue.
LEMMA Rest ==
    ASSUME NEW q \in Seq(Bytes), NEW k \in 0..Len(q)
    PROVE  LET r == SubSeq(q, k + 1, Len(q))
           IN  r \in Seq(Bytes) /\ Len(r) = Len(q) - k /\ \A i \in 1..(Len(q) - k) : r[i] = q[k + i]
<1>1. /\ k + 1 \in Int /\ Len(q) \in Int
      /\ \A i \in (k + 1)..Len(q) : q[i] \in Bytes
  OBVIOUS
<1>2. /\ SubSeq(q, k + 1, Len(q)) \in Seq(Bytes)
      /\ Len(SubSeq(q, k + 1, Len(q))) = IF k + 1 <= Len(q) THEN Len(q) - (k + 1) + 1 ELSE 0
      /\ \A i \in 1..(Len(q) - (k + 1) + 1) : SubSeq(q, k + 1, Len(q))[i] = q[(k + 1) + i - 1]
  BY <1>1, SubSeqProperties
<1> QED
  BY <1>2

\* A promise enters the queue.
LEMMA FifoSend ==
    ASSUME StreamInv, WriteAll
    PROVE  [Fifo!Next]_Fifo!vars
<1>1. UNCHANGED got /\ Up' = Up /\ Promises
  BY WriteAllStep DEF WriteAll, world, Up, Gone
<1>2. CASE UNCHANGED sent
  BY <1>1, <1>2, FifoIdle
<1>3. CASE /\ sent' = Append(sent, tx.payload) /\ Len(sent) < tx.n /\ tx.n <= MaxMsgs
           /\ Fits(tx.payload) /\ \E len \in Nat : tx.payload = Payload(tx.n, len)
  <2>1. /\ sent \in Seq(Bytes) /\ Len(sent) \in Nat /\ Len(got) \in Nat /\ tx.n \in Nat
        /\ Len(got) <= Len(sent) /\ tx.payload \in Bytes
    BY DEF StreamInv, TypeOK, Sender, Numbered
  <2>2. PICK len \in Nat : tx.payload = Payload(tx.n, len)
    BY <1>3
  <2>3. tx.payload \in {Payload(id, l) : id \in 1..MaxMsgs, l \in 0..kMaxFramePayload}
    <3>1. Len(tx.payload) = len
      BY <2>1, <2>2, PayloadFacts
    <3>2. tx.n \in 1..MaxMsgs /\ len \in 0..kMaxFramePayload
      BY <1>3, <2>1, <2>2, <3>1, StreamAssumption DEF Fits
    <3> QED
      BY <2>2, <3>2
  <2>4. Missing' = Append(Missing, tx.payload) /\ Len(Missing) = Len(sent) - Len(got)
    <3>1. PICK k \in 0..Len(sent) : k = Len(got) /\ k = Len(got')
      BY <1>1, <2>1
    <3>2. PICK q \in Seq(Bytes) : q = sent' /\ Len(q) = Len(sent) + 1 /\ q[Len(sent) + 1] = tx.payload
                                 /\ \A i \in 1..Len(sent) : q[i] = sent[i]
      BY SMTT(30), <1>3, <2>1, AppendProperties
    <3>3. PICK r \in Seq(Bytes) : /\ r = Missing /\ Len(r) = Len(sent) - k
                                  /\ \A i \in 1..(Len(sent) - k) : r[i] = sent[k + i]
      BY <2>1, <3>1, Rest DEF Missing
    <3>4. PICK z \in Seq(Bytes) : /\ z = Missing' /\ Len(z) = Len(q) - k
                                  /\ \A i \in 1..(Len(q) - k) : z[i] = q[k + i]
      <4>1. k \in 0..Len(q)
        BY <2>1, <3>1, <3>2
      <4>2. Missing' = SubSeq(q, k + 1, Len(q))
        BY <3>1, <3>2 DEF Missing
      <4> QED
        BY <4>1, <4>2, Rest
    <3>5. /\ Append(r, tx.payload) \in Seq(Bytes) /\ Len(Append(r, tx.payload)) = Len(r) + 1
          /\ \A i \in 1..Len(r) : Append(r, tx.payload)[i] = r[i]
          /\ Append(r, tx.payload)[Len(r) + 1] = tx.payload
      BY <2>1, AppendProperties
    <3>6. Len(z) = Len(Append(r, tx.payload))
      BY <2>1, <3>1, <3>2, <3>3, <3>4, <3>5
    <3>7. \A i \in 1..Len(z) : z[i] = Append(r, tx.payload)[i]
      <4> TAKE i \in 1..Len(z)
      <4>0. /\ k \in Nat /\ i \in Nat /\ i >= 1 /\ Len(r) \in Nat /\ Len(sent) = Len(r) + k
            /\ Len(z) = Len(r) + 1 /\ z[i] = q[k + i]
        BY <2>1, <3>1, <3>2, <3>3, <3>4
      <4>1. CASE i <= Len(r)
        <5>1. i \in 1..(Len(sent) - k) /\ k + i \in 1..Len(sent) /\ i \in 1..Len(r)
          BY <4>0, <4>1
        <5>2. q[k + i] = sent[k + i] /\ r[i] = sent[k + i]
          BY <3>2, <3>3, <5>1
        <5> QED
          BY <3>5, <4>0, <5>1, <5>2
      <4>2. CASE i = Len(r) + 1
        <5>1. k + i = Len(sent) + 1
          BY <4>0, <4>2
        <5> QED
          BY <3>2, <3>5, <4>0, <4>2, <5>1
      <4> QED
        BY <4>0, <4>1, <4>2
    <3>8. z = Append(r, tx.payload)
      BY <3>5, <3>6, <3>7, SeqEqual
    <3> QED
      BY <3>1, <3>3, <3>4, <3>8
  <2>5. Len(Missing) < MaxMsgs
    <3>1. Len(sent) < tx.n /\ tx.n <= MaxMsgs
      BY <1>3
    <3>2. MaxMsgs \in Nat
      BY StreamAssumption
    <3> QED
      BY <2>1, <2>4, <3>1, <3>2
  <2>6. Out' = Out
    BY <1>1 DEF Out
  <2>7. Fifo!Send
    BY <1>1, <2>3, <2>4, <2>5, <2>6 DEF Fifo!Send, Up, Out
  <2> QED
    BY <2>7 DEF Fifo!Next
<1> QED
  BY <1>1, <1>2, <1>3 DEF Promises

\* A payload leaves the queue as recv() returns it.
LEMMA FifoRecv ==
    ASSUME StreamInv, ReadExact \/ ReadFile
    PROVE  [Fifo!Next]_Fifo!vars
<1>1. UNCHANGED <<sent, world>> /\ rx.pc # "ended" /\ Delivers
  BY ReadExactStep, ReadFileStep DEF ReadExact, ReadFile, Read
<1>2. CASE UNCHANGED got
  BY <1>1, <1>2, FifoIdle DEF Up, Gone, world
<1>3. CASE Len(got) < Len(sent) /\ got' = Append(got, sent[Len(got) + 1]) /\ rx'.pc = "idle"
  <2>1. sent \in Seq(Bytes) /\ got \in Seq(Bytes) /\ Len(sent) \in Nat /\ Len(got) \in Nat
    BY DEF StreamInv, TypeOK
  <2>2. /\ Missing # <<>> /\ Head(Missing) = sent[Len(got) + 1] /\ Missing' = Tail(Missing)
    <3>1. PICK k \in 0..Len(sent) : k = Len(got) /\ k < Len(sent) /\ Len(got') = k + 1
      BY <1>3, <2>1
    <3>2. k + 1 \in 1..Len(sent) /\ Len(sent) \in (k + 1)..Len(sent)
      BY <2>1, <3>1
    <3>3. /\ Head(SubSeq(sent, k + 1, Len(sent))) = sent[k + 1]
          /\ Tail(SubSeq(sent, k + 1, Len(sent))) = SubSeq(sent, (k + 1) + 1, Len(sent))
      BY <2>1, <3>2, HeadTailOfSubSeq
    <3>4. Missing = SubSeq(sent, k + 1, Len(sent)) /\ Missing' = SubSeq(sent, (k + 1) + 1, Len(sent))
      BY <1>1, <3>1 DEF Missing
    <3>5. Missing # <<>>
      <4>1. PICK r \in Seq(Bytes) : r = Missing /\ Len(r) = Len(sent) - k
        BY <2>1, <3>1, <3>4, Rest
      <4>2. Len(r) > 0
        BY <2>1, <3>1, <4>1
      <4>3. r # <<>>
        BY <4>2
      <4> QED
        BY <4>1, <4>3
    <3> QED
      BY <3>1, <3>3, <3>4, <3>5
  <2>3. Out' = sent[Len(got) + 1]
    <3>1. Len(got') = Len(got) + 1 /\ got' # <<>> /\ got'[Len(got) + 1] = sent[Len(got) + 1]
      BY <1>3, <2>1
    <3> QED
      BY <3>1 DEF Out, Last
  <2>4. Up' = Up
    BY <1>1, <1>3 DEF Up, Gone, world
  <2>5. Fifo!Recv
    BY <2>2, <2>3, <2>4 DEF Fifo!Recv, Up, Out
  <2> QED
    BY <2>5 DEF Fifo!Next
<1> QED
  BY <1>1, <1>2, <1>3 DEF Delivers

\* Every step is a step of the queue, or none.
LEMMA FifoStep ==
    ASSUME StreamInv, [Next]_vars
    PROVE  [Fifo!Next]_Fifo!vars
<1>1. CASE \/ \E len \in Lengths : SendCall(len) \/ SendRefused(len)
           \/ PollWritable \/ WriteFails
  <2>1. UNCHANGED <<sent, got, rx, reset>> /\ (Gone("tx") => Gone("tx")') /\ (Gone("rx") => Gone("rx")')
    BY <1>1 DEF SendCall, SendRefused, PollWritable, WriteFails, Gone, world, StreamInv, TypeOK
  <2> QED
    BY <2>1, FifoIdle DEF Up
<1>2. CASE RecvCall \/ PollReadable \/ ReadEnds
  <2>1. UNCHANGED <<sent, got, world>> /\ rx.pc # "ended"
    BY <1>2 DEF RecvCall, PollReadable, ReadEnds
  <2> QED
    BY <2>1, FifoIdle DEF Up, Gone, world
<1>3. CASE (\E s \in {"tx", "rx"} : Close(s) \/ Crash(s)) \/ Reset
  <2>1. /\ UNCHANGED <<sent, got, rx>> /\ (reset => reset')
        /\ (Gone("tx") => Gone("tx")') /\ (Gone("rx") => Gone("rx")')
    BY <1>3 DEF Close, Crash, Reset, Gone, StreamInv, TypeOK
  <2> QED
    BY <2>1, FifoIdle DEF Up
<1>4. CASE UNCHANGED vars
  BY <1>4, FifoIdle DEF vars, Up, Gone
<1> QED
  BY <1>1, <1>2, <1>3, <1>4, FifoSend, FifoRecv DEF Next, Sending, Receiving

\* Every stream transport implements the FIFO (but for its liveness): frames are
\* received whole, once and in the order of the sends, whatever reads and writes
\* return, whoever goes when, and an oversized frame costs no other frame.
THEOREM StreamIsFifo == Spec => Fifo!Init /\ [][Fifo!Next]_Fifo!vars
<1>1. Init => Fifo!Init
  <2> SUFFICES ASSUME Init PROVE Fifo!Init
    OBVIOUS
  <2>1. sent = <<>> /\ got = <<>> /\ Len(<<>>) = 0
    BY DEF Init
  <2>2. Missing = <<>>
    BY <2>1, SubSeqEmpty DEF Missing
  <2>3. Up
    BY DEF Init, Up, Gone
  <2> QED
    BY <2>1, <2>2, <2>3 DEF Fifo!Init, Up
<1>2. StreamInv /\ [Next]_vars => StreamInv' /\ [Fifo!Next]_Fifo!vars
  BY StreamStep, FifoStep
<1> QED
  BY <1>1, <1>2, StreamInit, PTL DEF Spec
=============================================================================
