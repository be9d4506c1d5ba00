----------------------------- MODULE ByteStream -----------------------------
(***************************************************************************)
(* The byte counter of duct's message queues.  MessageQueue (src/queue.cc) *)
(* and QosPipe (src/qos_pipe.cc) each keep a deque of messages and a byte  *)
(* count that they add to and subtract from message by message.  Here a    *)
(* queued message carries its offset `at' in the stream of all bytes ever  *)
(* accepted, so the bytes of a run of messages are a difference of         *)
(* offsets, and the counter is right if the queue is the end of the stream.*)
(***************************************************************************)
EXTENDS Integers, Sequences

Entry == [id : Nat, size : Nat, deadline : Nat, at : Nat]

\* queue.pop_front(), k times.
Drop(q, k) == SubSeq(q, k + 1, Len(q))

MutPrefixBytes(q, k) == IF k = 0 THEN 0 ELSE q[k].at - q[1].at
\* What the byte counter loses with the first k messages of q.
PrefixBytes(q, k) == IF k = 0 THEN 0 ELSE (q[k].at + q[k].size) - q[1].at

\* q is a contiguous run of the stream that ends at offset e, of `bytes' bytes.
EndOfStream(q, bytes, e) ==
    /\ q = <<>> => bytes = 0
    /\ q # <<>> => bytes = e - q[1].at
    /\ \A i \in 1..Len(q) :
          q[i].at + q[i].size = IF i = Len(q) THEN e ELSE q[i + 1].at

\* TTL check: a deadline of zero means the message does not expire.
Expired(m, time) == m.deadline # 0 /\ time > m.deadline

\* Of q, exactly the first k messages a front-to-back TTL scan removes.
LeadingExpired(q, k, time) ==
    /\ \A i \in 1..k : Expired(q[i], time)
    /\ k < Len(q) => ~Expired(q[k + 1], time)
=============================================================================
