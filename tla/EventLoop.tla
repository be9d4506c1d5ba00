----------------------------- MODULE EventLoop -----------------------------
(***************************************************************************)
(* async.h: an EventLoop that polls pipes and whose on_message callback    *)
(* sends what it gets through a Channel to consumer threads.               *)
(*                                                                         *)
(* The loop holds mutex_ while it receives, with a timeout of 100 ms, and  *)
(* while it calls back; it gives it up only in cv_.wait_for(), after a     *)
(* round without a message.  add_pipe(), runInBackground() and stop() need *)
(* the same mutex.  A Channel's methods are critical sections of its own   *)
(* mutex that never block inside: one step each.                           *)
(***************************************************************************)
EXTENDS Naturals, Sequences, Functions, CondVar

CONSTANTS Pipes,
          Honours,      \* those whose recv() keeps its timeout: TcpPipe's does not
          Chatty,       \* those that may also carry messages nobody forwards
          Consumers,
          Modes,        \* "foreground": a thread calls run(); "background"
          MaxMsgs,      \* bound on the messages that go through the Channel
          None

ASSUME LoopAssumption ==
    /\ Honours \subseteq Pipes /\ Chatty \subseteq Pipes /\ IsFiniteSet(Consumers) /\ MaxMsgs \in Nat
    /\ Modes \subseteq {"foreground", "background"}

VARIABLES mode,
          peer,       \* each pipe's other end: "open", "closed" or "broken"
          sent,       \* messages it has sent
          inbox,      \* those not received
          pipes_,     \* registered with add_pipe(), in this order
          running_,
          mutex,      \* who holds mutex_: None, "loop" or "stop"
          loop,       \* the loop's thread: pc, entry of pipes_, has_activity
          stop,       \* the thread that calls stop(): "idle", "call", "join", "done"
          queue_, closed_,   \* the Channel
          cons,       \* consumers: "idle", "wait", "woken", "done"
          got         \* history: the last message of each pipe that consumers took

vars == <<mode, peer, sent, inbox, pipes_, running_, mutex, loop, stop, queue_, closed_, cons, got>>
far == <<mode, peer, sent>>
channel == <<queue_, closed_, cons, got>>

Init ==
    /\ mode \in Modes
    /\ peer = [p \in Pipes |-> "open"] /\ sent = [p \in Pipes |-> 0]
    /\ inbox = [p \in Pipes |-> <<>>]
    /\ pipes_ = <<>> /\ running_ = TRUE /\ mutex = None
    /\ loop = [pc |-> "new", i |-> 0, active |-> FALSE] /\ stop = "idle"
    /\ queue_ = <<>> /\ closed_ = FALSE /\ got = [p \in Pipes |-> 0]
    /\ cons = [t \in Consumers |-> "idle"]

PeerSend(p) ==
    /\ peer[p] = "open" /\ SumFunction(sent) < MaxMsgs
    /\ sent' = [sent EXCEPT ![p] = @ + 1] /\ inbox' = [inbox EXCEPT ![p] = Append(@, <<p, sent[p] + 1>>)]
    /\ UNCHANGED <<mode, peer, pipes_, running_, mutex, loop, stop, channel>>

PeerEnds(p) ==
    /\ peer[p] = "open" /\ peer' \in {[peer EXCEPT ![p] = e] : e \in {"closed", "broken"}}
    /\ UNCHANGED <<mode, sent, inbox, pipes_, running_, mutex, loop, stop, channel>>
-----------------------------------------------------------------------------
(* Channel *)

MutChannelSend(m) ==
    IF closed_ THEN UNCHANGED <<queue_, cons>>
    ELSE /\ queue_' = Append(queue_, m)
         /\ IF queue_ = <<>> THEN cons' \in NotifyN(cons, Consumers, 1) ELSE UNCHANGED cons
\* send(): refused when closed; notify_one() even if a receiver is awake.
ChannelSend(m) ==
    IF closed_ THEN UNCHANGED <<queue_, cons>>
    ELSE queue_' = Append(queue_, m) /\ cons' \in NotifyN(cons, Consumers, 1)

MutTake(t, pc) ==
    /\ got' = [got EXCEPT ![Head(queue_)[1]] = Head(queue_)[2]] /\ UNCHANGED queue_
    /\ cons' = [cons EXCEPT ![t] = pc]
Take(t, pc) ==
    /\ got' = [got EXCEPT ![Head(queue_)[1]] = Head(queue_)[2]] /\ queue_' = Tail(queue_)
    /\ cons' = [cons EXCEPT ![t] = pc]

\* recv(): called, or woken in its wait.
Recv(t) ==
    /\ cons[t] \in {"idle", "woken"}
    /\ IF queue_ # <<>> THEN Take(t, "idle")
       ELSE cons' = [cons EXCEPT ![t] = IF closed_ THEN "done" ELSE "wait"] /\ UNCHANGED <<queue_, got>>
    /\ UNCHANGED <<far, inbox, pipes_, running_, mutex, loop, stop, closed_>>

\* try_recv(), which finds something; that a receiver has been woken for it
\* makes no difference.
TryRecv(t) ==
    /\ cons[t] = "idle" /\ queue_ # <<>> /\ Take(t, "idle")
    /\ UNCHANGED <<far, inbox, pipes_, running_, mutex, loop, stop, closed_>>

ChannelClose ==
    /\ ~closed_ /\ closed_' = TRUE /\ cons' = NotifyAll(cons, Consumers)
    /\ UNCHANGED <<far, inbox, pipes_, running_, mutex, loop, stop, queue_, got>>
-----------------------------------------------------------------------------
(* EventLoop *)

AddPipe(p) ==
    /\ mutex = None /\ p \notin Range(pipes_) /\ pipes_' = Append(pipes_, p)
    /\ UNCHANGED <<far, inbox, running_, mutex, loop, stop, channel>>

\* runInBackground() and its thread, or a thread of the application's in run().
Start ==
    /\ loop.pc = "new" /\ loop' = [loop EXCEPT !.pc = "lock"]
    /\ mode = "background" => mutex = None
    /\ running_' = (mode = "background" \/ running_)
    /\ UNCHANGED <<far, inbox, pipes_, mutex, stop, channel>>

\* while (running_).  The end of the thread is what a join() waits for.
LoopTest ==
    /\ loop' = [pc |-> IF running_ THEN "poll" ELSE "done", i |-> 1, active |-> FALSE]
    /\ mutex' = IF running_ THEN "loop" ELSE None
    /\ stop' = IF ~running_ /\ stop = "join" THEN "done" ELSE stop

\* run() takes mutex_, at first and after cv_.wait_for(), which a notification
\* or the 100 ms end: it waits for the mutex then.
LoopLock ==
    /\ loop.pc = "lock" /\ mutex = None /\ LoopTest
    /\ UNCHANGED <<far, inbox, pipes_, running_, channel>>

Prompt(p) == p \in Honours \/ peer[p] # "open"

MutLoopRecv ==
    LET p == pipes_[loop.i] IN
    /\ loop.pc = "poll" /\ loop.i <= Len(pipes_)
    /\ \/ /\ inbox[p] # <<>> /\ inbox' = [inbox EXCEPT ![p] = Tail(@)] /\ ChannelSend(Head(inbox[p]))
          /\ loop' = [loop EXCEPT !.i = @ + 1, !.active = TRUE]
       \/ /\ inbox[p] = <<>> /\ Prompt(p)
          /\ loop' = [loop EXCEPT !.i = IF peer[p] = "broken" THEN Len(pipes_) + 1 ELSE @ + 1]
          /\ UNCHANGED <<inbox, queue_, cons>>
    /\ UNCHANGED <<far, pipes_, running_, mutex, stop, closed_, got>>
\* recv() on the next pipe: a message, and on_message; a timeout or the end,
\* which are passed over; an error, and on_error: the entry stays in any case.
LoopRecv ==
    LET p == pipes_[loop.i] IN
    /\ loop.pc = "poll" /\ loop.i <= Len(pipes_)
    /\ \/ /\ inbox[p] # <<>> /\ inbox' = [inbox EXCEPT ![p] = Tail(@)] /\ ChannelSend(Head(inbox[p]))
          /\ loop' = [loop EXCEPT !.i = @ + 1, !.active = TRUE]
       \/ /\ inbox[p] = <<>> /\ Prompt(p)
          /\ loop' = [loop EXCEPT !.i = @ + 1] /\ UNCHANGED <<inbox, queue_, cons>>
    /\ UNCHANGED <<far, pipes_, running_, mutex, stop, closed_, got>>

\* A message that on_message keeps to itself, received as it arrives.  There is
\* no bound on these: a peer may send them for ever.
LoopChatter ==
    /\ loop.pc = "poll" /\ loop.i <= Len(pipes_)
    /\ LET p == pipes_[loop.i] IN p \in Chatty /\ peer[p] = "open" /\ inbox[p] = <<>>
    /\ loop' = [loop EXCEPT !.i = @ + 1, !.active = TRUE]
    /\ UNCHANGED <<far, inbox, pipes_, running_, mutex, stop, channel>>

MutLoopRound ==
    /\ loop.pc = "poll" /\ loop.i > Len(pipes_) /\ LoopTest
    /\ UNCHANGED <<far, inbox, pipes_, running_, channel>>
\* After the last pipe: the next round, or cv_.wait_for() without the mutex.
LoopRound ==
    /\ loop.pc = "poll" /\ loop.i > Len(pipes_)
    /\ IF loop.active THEN LoopTest
       ELSE loop' = [loop EXCEPT !.pc = "lock"] /\ mutex' = None /\ UNCHANGED stop
    /\ UNCHANGED <<far, inbox, pipes_, running_, channel>>

StopCall ==
    /\ stop = "idle" /\ stop' = "call"
    /\ UNCHANGED <<far, inbox, pipes_, running_, mutex, loop, channel>>

\* thread_ is joinable once runInBackground() has been called; the join() keeps
\* mutex_.
StopLock ==
    /\ stop = "call" /\ mutex = None /\ running_' = FALSE
    /\ IF mode = "background" /\ loop.pc # "new"
       THEN stop' = "join" /\ mutex' = "stop"
       ELSE stop' = "done" /\ UNCHANGED mutex
    /\ UNCHANGED <<far, inbox, pipes_, loop, channel>>

Next ==
    \/ \E p \in Pipes : PeerSend(p) \/ PeerEnds(p) \/ AddPipe(p)
    \/ \E t \in Consumers : Recv(t) \/ TryRecv(t)
    \/ ChannelClose \/ Start \/ LoopLock \/ LoopRecv \/ LoopChatter \/ LoopRound
    \/ StopCall \/ StopLock

Spec == Init /\ [][Next]_vars

\* Threads run; one that asks for the mutex each time it is free gets it: SF.
\* Peers send or are silent as they please.
FairSpec ==
    /\ Spec /\ WF_vars(Start) /\ SF_vars(LoopLock) /\ WF_vars(LoopRecv) /\ WF_vars(LoopRound)
    /\ SF_vars(StopLock)
    /\ \A t \in Consumers : WF_vars(cons[t] = "woken" /\ Recv(t))
-----------------------------------------------------------------------------
(* Properties *)

Registered == Range(pipes_)
AllPrompt == \A p \in Registered : Prompt(p)

\* The numbers of the messages of p that are in the Channel.
Numbers(p) == {queue_[i][2] : i \in {j \in DOMAIN queue_ : queue_[j][1] = p}}

\* From a pipe through the callback and the Channel to a consumer, a message is
\* neither lost nor repeated nor overtaken by a later one of its pipe, however
\* the consumers' recv() and try_recv() interleave, until the Channel is closed.
OnceInOrder ==
    /\ \A i, j \in DOMAIN queue_ :
          i < j /\ queue_[i][1] = queue_[j][1] => queue_[i][2] < queue_[j][2]
    /\ \A p \in Pipes : \E last \in got[p]..sent[p] :
          /\ Numbers(p) = got[p] + 1..last
          /\ ~closed_ => last + Len(inbox[p]) = sent[p]

\* notify_one() per message is enough: while a receiver waits, each message of
\* the Channel has a receiver that is awake, even if try_recv() took one that
\* another was woken for; and nobody waits once the Channel is closed.
NoStranded ==
    Waiting(cons, Consumers) # {} =>
        ~closed_ /\ Len(queue_) <= Cardinality({t \in Consumers : cons[t] = "woken"})

\* A pipe that is silent, closed or broken, and stays in pipes_, does not keep
\* the loop from the messages of the others, as long as recv() keeps its timeout.
Polled == \A p \in Pipes :
    (AllPrompt /\ p \in Registered /\ inbox[p] # <<>>)
        ~> (inbox[p] = <<>> \/ ~running_ \/ ~AllPrompt)

\* The loop is not in a round that has had, or may yet have, a message.
Lull == loop.pc = "poll" => loop.i > Len(pipes_) /\ ~loop.active

\* stop() of a loop that a thread of the application's runs returns, and run()
\* with it, if rounds without a message recur: only then does run() give up
\* mutex_, and the notify_all() under it is not lost.  Traffic in every round
\* keeps stop(), like add_pipe(), waiting for ever.
StopEndsRun ==
    []<>Lull =>
        ((mode = "foreground" /\ stop = "call" /\ loop.pc # "new" /\ AllPrompt)
            ~> ((stop = "done" /\ loop.pc = "done") \/ ~AllPrompt))

\* async.h:197, "stop the event loop": after runInBackground(), stop() returns.
StopReturns == stop = "call" ~> stop = "done"
=============================================================================
