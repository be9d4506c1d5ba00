----------------------------- MODULE StreamPipe -----------------------------
(***************************************************************************)
(* One direction of a framed pipe: wire.cc's frames over TcpPipe, UdsPipe  *)
(* (sockets: a stream of bytes) or NamedPipePipe (Windows message mode:    *)
(* one ReadFile() sees at most one WriteFile()), between an application    *)
(* that sends until the first error, as produce_loop() does, and one that  *)
(* receives until the first error, as consume_loop() does, or passes over  *)
(* all but kClosed, as EventLoop does.                                     *)
(*                                                                         *)
(* A frame is a header of two units, the second with the payload's length, *)
(* and the units of the payload.  Sockets carry one unit per call, the     *)
(* worst that short reads and short writes can do; a named pipe carries    *)
(* header and payload whole.  Either process may close its end or crash    *)
(* between any two calls.                                                  *)
(***************************************************************************)
EXTENDS Naturals, Sequences, SequencesExt

CONSTANTS Transports,        \* subset of {"tcp", "uds", "pipe"}
          Lengths,           \* payload lengths the application tries
          kMaxFramePayload,
          WireCapacity,      \* units the kernel buffers
          MaxMsgs            \* bound on the messages sent

ASSUME StreamAssumption ==
    /\ Transports \subseteq {"tcp", "uds", "pipe"}
    /\ Lengths \subseteq Nat /\ kMaxFramePayload \in Nat /\ MaxMsgs \in Nat
    /\ \A n \in Lengths : n <= WireCapacity
    /\ WireCapacity \in Nat /\ WireCapacity >= 2

VARIABLES transport,
          timed,      \* the applications pass timeouts
          reader,     \* the one that receives: "consume_loop" or "EventLoop"
          side,       \* each end: "open", "closed" or "crashed"
          reset,      \* TCP: the connection was reset
          wire,       \* calls' worth of units on their way
          tx,         \* sender: pc, number of sends, chunks left to write, payload
          rx,         \* receiver: pc, bytes read so far, length wanted, last result
          sent, got   \* history: payloads promised, by a send() that was Ok, and received

vars == <<transport, timed, reader, side, reset, wire, tx, rx, sent, got>>
world == <<transport, timed, reader, side, reset>>

Init ==
    /\ transport \in Transports /\ timed \in BOOLEAN /\ reader \in {"consume_loop", "EventLoop"}
    /\ side = [s \in {"tx", "rx"} |-> "open"] /\ reset = FALSE
    /\ wire = <<>> /\ sent = <<>> /\ got = <<>>
    /\ tx = [pc |-> "idle", n |-> 0, todo |-> <<>>, payload |-> <<>>]
    /\ rx = [pc |-> "idle", buf |-> <<>>, want |-> 0, res |-> "none"]

Gone(s) == side[s] # "open"
Polls == transport = "uds" /\ timed
InFlight == FlattenSeq(wire)
-----------------------------------------------------------------------------
(* Frames *)

EncodeHeader(len) == <<[kind |-> "magic", n |-> 0], [kind |-> "len", n |-> len]>>

\* decode_header: version and header_len are checked as the magic is.
DecodesTo(hdr, len) ==
    /\ hdr[1].kind = "magic" /\ hdr[2] = [kind |-> "len", n |-> len]
    /\ len <= kMaxFramePayload

Payload(id, len) == [i \in 1..len |-> [kind |-> "data", n |-> 10 * id + i]]

\* write_frame(): what its calls of ::send() write, a unit at a time.
Frame(payload) ==
    LET units == EncodeHeader(Len(payload)) \o payload
    IN [i \in 1..Len(units) |-> <<units[i]>>]

\* NamedPipePipe::send(): two WriteFile(), or one when the payload is empty.
Messages(payload) ==
    <<EncodeHeader(Len(payload))>> \o (IF payload = <<>> THEN <<>> ELSE <<payload>>)
-----------------------------------------------------------------------------
(* send() *)

SendCall(len) ==
    /\ side["tx"] = "open" /\ tx.pc = "idle" /\ tx.n < MaxMsgs
    /\ transport = "pipe" \/ len <= kMaxFramePayload
    /\ LET p == Payload(tx.n + 1, len)
       IN tx' = [pc |-> IF Polls THEN "poll" ELSE "write", n |-> tx.n + 1, payload |-> p,
                   todo |-> IF transport = "pipe" THEN Messages(p) ELSE Frame(p)]
    /\ UNCHANGED <<world, wire, rx, sent, got>>

\* produce_loop() ends with the first error.
Ends == [tx EXCEPT !.pc = "failed"]

\* write_frame() refuses a payload over the maximum; NamedPipePipe does not.
SendRefused(len) ==
    /\ side["tx"] = "open" /\ tx.pc = "idle"
    /\ transport # "pipe" /\ len > kMaxFramePayload
    /\ tx' = Ends
    /\ UNCHANGED <<world, wire, rx, sent, got>>

\* wait_writable(): Ok when there is room for something, else kTimeout, and
\* kClosed on POLLHUP.
PollWritable ==
    /\ side["tx"] = "open" /\ tx.pc = "poll"
    /\ tx' = IF Gone("rx") \/ Len(InFlight) = WireCapacity THEN Ends ELSE [tx EXCEPT !.pc = "write"]
    /\ UNCHANGED <<world, wire, rx, sent, got>>

\* What a frame can carry is promised with the Ok; a named pipe sends longer
\* payloads as well, and the receiver refuses them.
Promise(payload) ==
    sent' = IF Len(payload) <= kMaxFramePayload THEN Append(sent, payload) ELSE sent

MutWriteAll ==
    /\ side["tx"] = "open" /\ tx.pc = "write"
    /\ Len(InFlight \o Head(tx.todo)) <= WireCapacity
    /\ ~reset /\ (Gone("rx") => transport = "tcp")
    /\ wire' = Append(wire, Head(tx.todo))
    /\ IF Len(tx.todo) > 1 /\ Head(tx.todo)[1].kind # "data"
       THEN tx' = [tx EXCEPT !.todo = Tail(@)] /\ UNCHANGED sent
       ELSE tx' = [tx EXCEPT !.pc = "idle", !.todo = <<>>] /\ Promise(tx.payload)
    /\ UNCHANGED <<world, rx, got>>
\* A call that writes something; after the last one send() is Ok.  TCP takes
\* what is written to a peer that has gone until it learns of that.
WriteAll ==
    /\ side["tx"] = "open" /\ tx.pc = "write"
    /\ Len(InFlight \o Head(tx.todo)) <= WireCapacity
    /\ ~reset /\ (Gone("rx") => transport = "tcp")
    /\ wire' = Append(wire, Head(tx.todo))
    /\ IF Len(tx.todo) > 1
       THEN tx' = [tx EXCEPT !.todo = Tail(@)] /\ UNCHANGED sent
       ELSE tx' = [tx EXCEPT !.pc = "idle", !.todo = <<>>] /\ Promise(tx.payload)
    /\ UNCHANGED <<world, rx, got>>

\* The peer has gone: an error; or, for a socket on Linux, where send() is
\* called without MSG_NOSIGNAL, SIGPIPE ends the process.
WriteFails ==
    /\ side["tx"] = "open" /\ tx.pc = "write"
    /\ reset \/ Gone("rx")
    /\ tx' = Ends
    /\ \/ UNCHANGED side
       \/ transport # "pipe" /\ side' = [side EXCEPT !["tx"] = "crashed"]
    /\ UNCHANGED <<transport, timed, reader, reset, wire, rx, sent, got>>
-----------------------------------------------------------------------------
(* recv() *)

\* recv(), which polls first when the socket is Unix and there is a timeout.
RecvCall ==
    /\ side["rx"] = "open" /\ rx.pc = "idle" /\ rx.res # "closed"
    /\ rx' = [rx EXCEPT !.pc = IF Polls THEN "poll" ELSE "header", !.buf = <<>>, !.res = "none"]
    /\ UNCHANGED <<world, wire, tx, sent, got>>

\* consume_loop() ends when recv() fails, with Ok if that is kClosed.
After(result) == IF reader = "consume_loop" /\ result # "ok" THEN "ended" ELSE "idle"

Return(result) == rx' = [rx EXCEPT !.pc = After(result), !.res = result]

\* wait_readable(): kClosed on POLLHUP, whether or not there is data as well.
PollReadable ==
    /\ side["rx"] = "open" /\ rx.pc = "poll"
    /\ \/ Gone("tx") /\ Return("closed")
       \/ ~Gone("tx") /\ wire # <<>> /\ rx' = [rx EXCEPT !.pc = "header"]
       \/ ~Gone("tx") /\ wire = <<>> /\ Return("timeout")
    /\ UNCHANGED <<world, wire, tx, sent, got>>

\* A header or a payload is complete.
Complete(data) ==
    IF rx.pc = "header"
    THEN /\ \/ \E len \in 1..kMaxFramePayload :
                  DecodesTo(data, len) /\ rx' = [rx EXCEPT !.pc = "payload", !.buf = <<>>, !.want = len]
            \/ ~(\E len \in 0..kMaxFramePayload : DecodesTo(data, len)) /\ Return("error")
            \/ DecodesTo(data, 0) /\ Return("ok")
         /\ got' = IF DecodesTo(data, 0) THEN Append(got, <<>>) ELSE got
    ELSE Return("ok") /\ got' = Append(got, data)

Wanted == IF rx.pc = "header" THEN 2 ELSE rx.want

Read(data, rest) ==
    /\ side["rx"] = "open" /\ rx.pc \in {"header", "payload"} /\ ~reset
    /\ wire' = rest
    /\ UNCHANGED <<world, tx, sent>>
    /\ Len(data) = Wanted => Complete(data)

\* read_exact(): one call that returns something, and another while something is
\* missing.
ReadExact ==
    /\ transport # "pipe" /\ wire # <<>>
    /\ LET data == rx.buf \o Head(wire) IN
       /\ Read(data, Tail(wire))
       /\ Len(data) < Wanted => rx' = [rx EXCEPT !.buf = data] /\ UNCHANGED got

\* ReadFile() that finds less or more than it wants is an error; what it did not
\* take of a longer message is left for the next.
ReadFile ==
    /\ transport = "pipe" /\ wire # <<>>
    /\ LET data == Head(wire)
           left == SubSeq(data, Wanted + 1, Len(data)) IN
       /\ Read(data, (IF left = <<>> THEN <<>> ELSE <<left>>) \o Tail(wire))
       /\ Len(data) # Wanted => Return("error") /\ UNCHANGED got

MutReadEnds ==
    /\ side["rx"] = "open" /\ rx.pc \in {"header", "payload"}
    /\ reset \/ Gone("tx")
    /\ Return(IF reset THEN "error" ELSE "closed")
    /\ UNCHANGED <<world, wire, tx, sent, got>>
MutReadEndsAtFrame ==
    /\ side["rx"] = "open" /\ rx.pc \in {"header", "payload"}
    /\ reset \/ (Gone("tx") /\ InFlight = <<>> /\ rx.buf = <<>>)
    /\ Return(IF reset THEN "error" ELSE "closed")
    /\ UNCHANGED <<world, wire, tx, sent, got>>
\* End of file, also in the middle of a frame, is kClosed; a reset is kIoError.
ReadEnds ==
    /\ side["rx"] = "open" /\ rx.pc \in {"header", "payload"}
    /\ reset \/ (Gone("tx") /\ wire = <<>>)
    /\ Return(IF reset THEN "error" ELSE "closed")
    /\ UNCHANGED <<world, wire, tx, sent, got>>
-----------------------------------------------------------------------------
\* close(), by a process none of whose calls is under way.
Close(s) ==
    /\ side[s] = "open"
    /\ IF s = "tx" THEN tx.pc \in {"idle", "failed"} ELSE rx.pc \in {"idle", "ended"}
    /\ side' = [side EXCEPT ![s] = "closed"]
    /\ UNCHANGED <<transport, timed, reader, reset, wire, tx, rx, sent, got>>

\* The kernel closes what a dead process had open.
Crash(s) ==
    /\ side[s] = "open"
    /\ side' = [side EXCEPT ![s] = "crashed"]
    /\ UNCHANGED <<transport, timed, reader, reset, wire, tx, rx, sent, got>>

\* TCP: what is on its way is lost.
Reset ==
    /\ transport = "tcp" /\ ~reset
    /\ reset' = TRUE /\ wire' = <<>>
    /\ UNCHANGED <<transport, timed, reader, side, tx, rx, sent, got>>

Sending == PollWritable \/ WriteAll \/ WriteFails
Receiving == RecvCall \/ PollReadable \/ ReadExact \/ ReadFile \/ ReadEnds

Next == \/ \E len \in Lengths : SendCall(len) \/ SendRefused(len)
        \/ Sending \/ Receiving
        \/ \E s \in {"tx", "rx"} : Close(s) \/ Crash(s)
        \/ Reset

Spec == Init /\ [][Next]_vars

\* A call under way goes on; the receiving application keeps calling recv().
FairSpec == Spec /\ WF_vars(Sending) /\ WF_vars(Receiving)
-----------------------------------------------------------------------------
(* Properties *)

\* Promised and not received yet.
Missing == SubSeq(sent, Len(got) + 1, Len(sent))

Nothing == <<[kind |-> "none", n |-> 0]>>

Fifo == INSTANCE BoundedFifo
            WITH Msgs <- {Payload(id, len) : id \in 1..MaxMsgs, len \in 0..kMaxFramePayload},
                 Capacity <- MaxMsgs, NoMsg <- Nothing, chan <- Missing,
                 out <- IF got = <<>> THEN Nothing ELSE Last(got),
                 up <- ~reset /\ ~Gone("tx") /\ ~Gone("rx") /\ rx.pc # "ended"

\* Each transport implements the FIFO whatever the reads and writes return and
\* whoever goes when: frames are received whole, once and in order, an oversized
\* frame on a named pipe costs no other frame, and all arrive while both ends
\* are up and the receiver goes on.
RefinesFifo == Fifo!Spec

\* kClosed, which consume_loop() reports as a normal end, is told only when
\* everything promised has been received: a sender may send and close.
\* (Not for UDS with a timeout: see PollReadable.)
ClosedIsComplete == rx.res = "closed" /\ ~Polls => Missing = <<>>

RecvEnds == Gone("tx") ~> rx.res \in {"closed", "error"} \/ rx.pc = "ended" \/ Gone("rx")
SendEnds == Gone("rx") ~> tx.pc \in {"idle", "failed"} \/ Gone("tx")

\* A receiver whose peer has gone learns of it, in the middle of a frame too, and
\* a send() that finds no room does not outlast its peer.
CallsEnd == RecvEnds /\ SendEnds
=============================================================================
