--------------------------- MODULE QuicTransport ---------------------------
(***************************************************************************)
(* One QUIC connection of a richat server and the client that reads it.    *)
(* The server answers one request, opens the unidirectional streams the    *)
(* client asked for and writes every message on whichever stream is free,  *)
(* as (id, length, body), up to max_backlog ids apart.  The client reads   *)
(* the streams in turn and puts the messages back in the order of their    *)
(* ids.  QUIC keeps the order of one stream and says nothing about two, so *)
(* a later message may arrive first.                                       *)
(*   src/shared/src/transports/quic.rs, src/client/src/quic.rs             *)
(***************************************************************************)
EXTENDS Integers, Sequences, FiniteSets, SequencesExt, FiniteSetsExt

CONSTANTS
    Scenarios,        \* the requests and subscriptions to explore
    MaxRecvStreams,   \* config.max_recv_streams
    MaxRequestSize,   \* config.max_request_size
    MaxMessages,      \* messages a subscription gives, at most
    MaxFaults         \* connections lost, at most

ASSUME BoundsAssumption ==
    /\ MaxRecvStreams \in Nat \ {0}
    /\ MaxRequestSize \in Nat /\ MaxMessages \in Nat /\ MaxFaults \in Nat

\* max_backlog of a request that names none: more than any message id.
NoBacklog == MaxMessages + 1

ASSUME ScenarioAssumption ==
    \A x \in Scenarios :
        /\ x.streams \in Nat
        /\ x.backlog \in Nat
        /\ x.size \in Nat
        /\ x.token \in {"none", "good", "bad"}
        /\ x.tokens \in BOOLEAN /\ x.decodes \in BOOLEAN
        /\ x.channel \in {"ready", "NotInitialized", "SlotNotAvailable"}
        /\ x.messages \in 0 .. MaxMessages
        /\ x.ending \in {"none", "Lagged", "Closed"}

VARIABLES
    env,       \* the scenario: the request, and what the subscription gives
    srv,       \* where handle_incoming is
    response,  \* the answer written to the bidirectional stream
    rx,        \* the subscription: messages given, and whether it has ended
    loop,      \* the locals of the send loop
    conns,     \* the gauge on_conn_new_cb and on_conn_drop_cb keep
    sent,      \* per stream, frames written that are still on their way
    arrived,   \* per stream, frames the client can read
    conn,      \* the QUIC connection
    faults,    \* connections lost so far
    pc,        \* where the client is
    result,    \* what the client was told when its stream ended
    poll,      \* index, number of readers polled, wakers left, woken
    messages,  \* frames read before their turn
    msg_id,    \* the id the client gives next
    out        \* bodies the client gave to its caller

server == <<srv, rx, loop, conns>>
client == <<pc, result, poll, messages, msg_id, out>>
network == <<sent, arrived, conn, faults>>
vars == <<env, response, server, client, network>>

Streams == 1 .. MaxRecvStreams
Reader == 1 .. env.streams

MessageFrame(id, body) == [kind |-> "message", id |-> id, body |-> body]
CloseFrame(error) == [kind |-> "close", id |-> -1, body |-> error]
Fin == [kind |-> "fin", id |-> -1, body |-> "none"]

Init ==
    /\ env \in Scenarios
    /\ srv = "request"
    /\ response = "none"
    /\ rx = [given |-> 0, state |-> "live"]
    /\ loop = [next_message |-> 0, msg_id |-> 0, msg_ids |-> {}, streams |-> <<>>, set |-> {}]
    /\ conns = 1
    /\ sent = [s \in Streams |-> <<>>]
    /\ arrived = [s \in Streams |-> <<>>]
    /\ conn = "open" /\ faults = 0
    /\ pc = "request" /\ result = "none"
    /\ poll = [index |-> 1, polled |-> 0, wakers |-> {}, woken |-> FALSE]
    /\ messages = {} /\ msg_id = 0 /\ out = <<>>

-----------------------------------------------------------------------------
(* Server: the request.                                                    *)

\* The checks of handle_request, in its order; "none" when all pass.
Refusal ==
    CASE env.size > MaxRequestSize -> "RequestSizeTooLarge"
      [] env.tokens /\ env.token = "bad" -> "XTokenInvalid"
      [] env.tokens /\ env.token = "none" -> "XTokenRequired"
      [] env.streams = 0 -> "ZeroRecvStreams"
      [] env.streams > MaxRecvStreams -> "ExceedRecvStreams"
      [] env.channel # "ready" -> env.channel
      [] OTHER -> "none"

\* handle_incoming returns: on_conn_drop_cb runs and the task's streams,
\* write tasks and connection are dropped.
Leave ==
    /\ srv' = "done"
    /\ conns' = 0
    /\ loop' = [loop EXCEPT !.set = {}]

\* Message::decode fails, on a request that is not too large to be read.
Undecodable == env.size <= MaxRequestSize /\ ~env.decodes

HandleRequest ==
    /\ srv = "request" /\ conn = "open" /\ ~Undecodable
    /\ response' = IF Refusal = "none" THEN "ok" ELSE Refusal
    /\ IF Refusal = "none"
       THEN srv' = "open" /\ UNCHANGED <<loop, conns>>
       ELSE Leave
    /\ UNCHANGED <<env, rx, client, network>>

\* A connection lost before the loop: accept_bi, a read or open_uni fails; or a request
\* that cannot be decoded.  Neither is answered.
RequestFails ==
    /\ \/ srv \in {"request", "open"} /\ conn = "lost"
       \/ srv = "request" /\ conn = "open" /\ Undecodable
    /\ Leave
    /\ UNCHANGED <<env, response, rx, client, network>>

OpenStreams ==
    /\ srv = "open" /\ conn = "open"
    /\ srv' = "loop"
    /\ loop' = [loop EXCEPT !.streams = [i \in Reader |-> i]]
    /\ UNCHANGED <<env, response, rx, conns, client, network>>

-----------------------------------------------------------------------------
(* Server: the send loop.  Every iteration starts with TrySend, so each    *)
(* branch of the select ends with it.                                      *)

FirstId(l) == IF l.msg_ids = {} THEN l.msg_id ELSE Min(l.msg_ids)

\* Mutant: one id too many.
WithinBacklogLate(l) == l.msg_id - FirstId(l) <= env.backlog

\* Mutant: one id too few.
WithinBacklogEarly(l) == l.msg_id - FirstId(l) < env.backlog - 1

WithinBacklog(l) == l.msg_id - FirstId(l) < env.backlog

\* Mutant: the stream stays in the queue of free streams.
SpawnKeepsStream(l, frame) ==
    [l EXCEPT !.set = @ \cup {[stream |-> Head(l.streams), id |-> l.msg_id,
                               frame |-> frame, state |-> "writing"]}]

Spawn(l, frame) ==
    [l EXCEPT !.streams = Tail(@),
              !.set = @ \cup {[stream |-> Head(l.streams), id |-> l.msg_id,
                               frame |-> frame, state |-> "writing"]}]

TrySend(l) ==
    IF l.next_message # 0 /\ WithinBacklog(l) /\ l.streams # <<>>
    THEN [Spawn(l, MessageFrame(l.msg_id, l.next_message))
            EXCEPT !.next_message = 0,
                   !.msg_ids = @ \cup {l.msg_id},
                   !.msg_id = l.msg_id + 1]
    ELSE l

\* A write task ended well: its id leaves msg_ids, its stream is free again.
Joined(l, t) ==
    [l EXCEPT !.set = @ \ {t}, !.msg_ids = @ \ {t.id}, !.streams = Append(@, t.stream)]

RxMessage ==
    /\ srv = "loop" /\ loop.next_message = 0
    /\ rx.state = "live" /\ rx.given < env.messages
    /\ rx' = [rx EXCEPT !.given = @ + 1]
    /\ loop' = TrySend([loop EXCEPT !.next_message = rx.given + 1])
    /\ UNCHANGED <<env, response, srv, conns, client, network>>

\* Lagged or Closed: the handler will not go on until it has a stream for
\* the close frame.
RxError ==
    /\ srv = "loop" /\ loop.next_message = 0
    /\ rx.state = "live" /\ env.ending # "none"
    /\ rx' = [rx EXCEPT !.state = "failed"]
    /\ srv' = "closing"
    /\ UNCHANGED <<env, response, loop, conns, client, network>>

SendClose ==
    /\ srv = "closing"
    /\ \/ /\ loop.streams # <<>>
          /\ srv' = "loop"
          /\ loop' = Spawn(loop, CloseFrame(env.ending))
          /\ UNCHANGED conns
       \/ /\ loop.streams = <<>>
          /\ \E t \in loop.set :
                \/ /\ t.state = "written"
                   /\ srv' = "loop"
                   /\ loop' = Spawn(Joined(loop, t), CloseFrame(env.ending))
                   /\ UNCHANGED conns
                \/ t.state = "failed" /\ Leave
    /\ UNCHANGED <<env, response, rx, client, network>>

\* The subscription ends after its error: the loop breaks.
RxNone ==
    /\ srv = "loop" /\ loop.next_message = 0
    /\ rx.state = "failed"
    /\ rx' = [rx EXCEPT !.state = "ended"]
    /\ srv' = "break"
    /\ UNCHANGED <<env, response, loop, conns, client, network>>

JoinNext ==
    /\ srv = "loop"
    /\ \E t \in loop.set :
          \/ /\ t.state = "written"
             /\ loop' = TrySend(Joined(loop, t))
             /\ UNCHANGED <<srv, conns>>
          \/ t.state = "failed" /\ Leave
    /\ UNCHANGED <<env, response, rx, client, network>>

\* select! with every branch disabled panics: no message is wanted and no
\* write can end.  The task dies without on_conn_drop_cb.
SelectPanics ==
    /\ srv = "loop" /\ loop.next_message # 0 /\ loop.set = {}
    /\ srv' = "panicked"
    /\ UNCHANGED <<env, response, rx, loop, conns, client, network>>

\* A spawned write: all of its frame is accepted by the stream, or it fails.
Write(t) ==
    /\ t \in loop.set /\ t.state = "writing"
    /\ loop' = [loop EXCEPT !.set = (@ \ {t}) \cup
                    {[t EXCEPT !.state = IF conn = "open" THEN "written" ELSE "failed"]}]
    /\ sent' = IF conn = "open" THEN [sent EXCEPT ![t.stream] = Append(@, t.frame)] ELSE sent
    /\ UNCHANGED <<env, response, srv, rx, conns, client, arrived, conn, faults>>

\* join_all waits for the writes, then every stream is finished.
FinishStreams ==
    /\ srv = "break"
    /\ \A t \in loop.set : t.state # "writing"
    /\ sent' = [s \in Streams |->
                 IF s \in Reader /\ conn = "open" THEN Append(sent[s], Fin) ELSE sent[s]]
    /\ Leave
    /\ UNCHANGED <<env, response, rx, client, arrived, conn, faults>>

-----------------------------------------------------------------------------
(* The network: quinn, outside src/.                                       *)

Wake(p, s) == IF s \in p.wakers THEN [p EXCEPT !.wakers = @ \ {s}, !.woken = TRUE] ELSE p

Arrive(s) ==
    /\ conn = "open" /\ sent[s] # <<>>
    /\ sent' = [sent EXCEPT ![s] = Tail(@)]
    /\ arrived' = [arrived EXCEPT ![s] = Append(@, Head(sent[s]))]
    /\ poll' = Wake(poll, s)
    /\ UNCHANGED <<env, response, server, pc, result, messages, msg_id, out, conn, faults>>

\* The connection ends and what is still on its way is gone; every reader
\* that waits is woken.
Lose ==
    /\ conn' = "lost"
    /\ sent' = [s \in Streams |-> <<>>]
    /\ poll' = IF poll.wakers = {} THEN poll ELSE [poll EXCEPT !.wakers = {}, !.woken = TRUE]
    /\ UNCHANGED <<env, response, server, pc, result, messages, msg_id, out, arrived>>

\* A fault, or the endpoint closed by a shutdown.
ConnectionLost ==
    /\ conn = "open" /\ faults < MaxFaults
    /\ faults' = faults + 1
    /\ Lose

\* The handler has dropped the connection.
ConnectionDropped ==
    /\ conn = "open" /\ srv \in {"done", "panicked"}
    /\ Lose
    /\ UNCHANGED faults

-----------------------------------------------------------------------------
(* Client: subscribe, then poll_next, one reader at a time.                *)

Ends(why) == pc' = "ended" /\ result' = why

ParseResponse ==
    /\ pc = "request"
    /\ \/ /\ response = "ok"
          /\ pc' = "accept" /\ UNCHANGED result
       \/ response \notin {"none", "ok"} /\ Ends(response)
       \/ conn = "lost" /\ Ends("lost")
    /\ UNCHANGED <<env, response, server, network, poll, messages, msg_id, out>>

\* accept_uni gives a stream once something arrived on it or on a later one;
\* the last of the streams decides.
AcceptUni ==
    /\ pc = "accept"
    /\ \/ /\ arrived[env.streams] # <<>>
          /\ pc' = "poll" /\ UNCHANGED result
       \/ /\ arrived[env.streams] = <<>> /\ conn = "lost"
          /\ Ends("lost")
    /\ UNCHANGED <<env, response, server, network, poll, messages, msg_id, out>>

Give(frame) ==
    /\ out' = Append(out, frame.body)
    /\ msg_id' = msg_id + 1

\* Mutant: what was read before its turn is not looked up.
InTurnLost == {}

InTurn == {f \in messages : f.id = msg_id}

\* The start of poll_next: a message read earlier whose turn has come.
TakeBuffered ==
    /\ pc = "poll" /\ InTurn # {}
    /\ \E f \in InTurn : Give(f) /\ messages' = messages \ {f}
    /\ poll' = [poll EXCEPT !.woken = FALSE]
    /\ UNCHANGED <<env, response, server, network, pc, result>>

StartReaders ==
    /\ pc = "poll" /\ InTurn = {}
    /\ pc' = "readers"
    /\ poll' = [poll EXCEPT !.polled = 0, !.woken = FALSE]
    /\ UNCHANGED <<env, response, server, network, result, messages, msg_id, out>>

\* Mutant: the last reader is not polled.
AllPolledEarly(polled) == polled >= env.streams - 1 /\ polled > 0

\* Pending once every reader was polled.
AllPolled(polled) == polled = env.streams

Polled(wakers) ==
    /\ poll' = [poll EXCEPT !.index = (@ % env.streams) + 1, !.polled = @ + 1, !.wakers = wakers]
    /\ pc' = IF AllPolled(poll.polled + 1) THEN "pending" ELSE "readers"
    /\ UNCHANGED result

\* Mutant: a message is given as it comes.
IsNextAny(frame) == frame.id >= msg_id

IsNext(frame) == frame.id = msg_id

PollReaderFrame ==
    /\ pc = "readers"
    /\ LET s == poll.index
           f == Head(arrived[s])
           rest == [poll EXCEPT !.index = (@ % env.streams) + 1]
       IN  /\ arrived[s] # <<>>
           /\ arrived' = [arrived EXCEPT ![s] = Tail(@)]
           /\ \/ /\ f.kind = "message" /\ IsNext(f)
                 /\ Give(f) /\ pc' = "poll" /\ poll' = rest
                 /\ UNCHANGED <<result, messages>>
              \/ /\ f.kind = "message" /\ ~IsNext(f)
                 /\ messages' = messages \cup {f}
                 /\ Polled(poll.wakers)
                 /\ UNCHANGED <<msg_id, out>>
              \/ /\ f.kind = "close" /\ Ends(f.body)
                 /\ poll' = rest /\ UNCHANGED <<messages, msg_id, out>>
              \/ /\ f.kind = "fin" /\ Ends("eof")
                 /\ poll' = rest /\ UNCHANGED <<messages, msg_id, out>>
    /\ UNCHANGED <<env, response, server, sent, conn, faults>>

\* Mutant: a lost connection looks like an idle one.
PollReaderEmptyWaits ==
    /\ pc = "readers" /\ arrived[poll.index] = <<>>
    /\ Polled(poll.wakers \cup {poll.index})
    /\ UNCHANGED <<env, response, server, network, messages, msg_id, out>>

PollReaderEmpty ==
    /\ pc = "readers" /\ arrived[poll.index] = <<>>
    /\ \/ conn = "open" /\ Polled(poll.wakers \cup {poll.index})
       \/ conn = "lost" /\ Ends("lost") /\ UNCHANGED poll
    /\ UNCHANGED <<env, response, server, network, messages, msg_id, out>>

\* The task that polls the stream runs again when a waker was used.
Woken ==
    /\ pc = "pending" /\ poll.woken
    /\ pc' = "poll"
    /\ UNCHANGED <<env, response, server, network, result, poll, messages, msg_id, out>>

-----------------------------------------------------------------------------
ServerStep ==
    \/ HandleRequest \/ RequestFails \/ OpenStreams
    \/ RxMessage \/ RxError \/ SendClose \/ RxNone \/ JoinNext \/ SelectPanics
    \/ FinishStreams

ClientStep ==
    \/ ParseResponse \/ AcceptUni \/ TakeBuffered \/ StartReaders
    \/ PollReaderFrame \/ PollReaderEmpty \/ Woken

Next ==
    \/ ServerStep
    \/ ClientStep
    \/ \E t \in loop.set : Write(t)
    \/ \E s \in Streams : Arrive(s)
    \/ ConnectionLost
    \/ ConnectionDropped

Spec == Init /\ [][Next]_vars

\* tokio runs a ready task, quinn delivers what was written while the
\* connection lives, and a dropped connection closes.  The subscription of a
\* scenario may stay silent only after all its messages.
Fairness ==
    /\ WF_vars(ServerStep) /\ WF_vars(ClientStep)
    /\ \A s \in Streams : WF_vars(Arrive(s))
    /\ WF_vars(\E t \in loop.set : Write(t))
    /\ WF_vars(ConnectionDropped)

FairSpec == Spec /\ Fairness

-----------------------------------------------------------------------------
\* Every variable has its type; the streams of the send loop are distinct and
\* each is either free or owned by exactly one write.
TypeOK ==
    /\ env \in Scenarios
    /\ srv \in {"request", "open", "loop", "closing", "break", "done", "panicked"}
    /\ rx \in [given : 0 .. env.messages, state : {"live", "failed", "ended"}]
    /\ conns \in {0, 1} /\ (conns = 0 <=> srv = "done")
    /\ conn \in {"open", "lost"}
    /\ pc \in {"request", "accept", "poll", "readers", "pending", "ended"}
    /\ msg_id \in 0 .. MaxMessages
    /\ \A s \in Streams : \A f \in ToSet(sent[s]) \cup ToSet(arrived[s]) :
          f.kind \in {"message", "close", "fin"}
    /\ srv \in {"loop", "closing", "break"} =>
          /\ Cardinality({t.stream : t \in loop.set}) = Cardinality(loop.set)
          /\ ToSet(loop.streams) \cap {t.stream : t \in loop.set} = {}
          /\ Len(loop.streams) + Cardinality(loop.set) = env.streams

\* The client gives its caller exactly the messages of the subscription, in
\* their order, from the first on and with none missing or repeated, however
\* the streams are chosen and however they overtake each other.
InOrder == \A i \in 1 .. Len(out) : out[i] = i

\* The ids being written are never max_backlog apart or more, and the send
\* loop knows exactly which ones they are.
BacklogRespected ==
    srv = "loop" =>
        /\ loop.msg_ids = {t.id : t \in {u \in loop.set : u.frame.kind = "message"}}
        /\ loop.msg_ids # {} => loop.msg_id - Min(loop.msg_ids) <= env.backlog

\* The send loop can always go on: when it holds a message it may not send
\* yet, some write is under way whose end will free a stream or the window,
\* so select! is never left without a branch.  Only a client that asks for a
\* max_backlog of zero is never sent anything: its handler panics on the first
\* message.
SelectHasBranch == env.backlog > 0 => srv # "panicked"

\* poll_next returns Pending without a waker on a reader that gave a message
\* out of turn.  That is safe: while the client sleeps unwoken no reader with a
\* waker has anything to read, and the message whose turn it is waits in no
\* reader.
NoLostWakeup ==
    pc = "pending" /\ ~poll.woken =>
        \A s \in Reader : arrived[s] # <<>> => s \notin poll.wakers /\ ~IsNext(Head(arrived[s]))

\* Once the client is subscribed, a message the subscription gave is given to
\* its caller, or the client is told that the stream ended.
MessagesReachTheClient ==
    \A k \in 1 .. MaxMessages :
        (pc \notin {"request", "accept"} /\ rx.given >= k) ~> (Len(out) >= k \/ pc = "ended")

\* A client whose server handler ended, by an error, the end of the
\* subscription or a panic, is not left waiting.
EndIsTold == (srv \in {"done", "panicked"}) ~> (pc = "ended")

\* Not so: subscribe() returns once the last of the streams was used, so a
\* subscription with fewer messages than streams shows none of them.
SubscribeReturns == (rx.given > 0) ~> (pc \notin {"request", "accept"})

\* The send loop knows its streams and the ids on them, keeps the backlog and can go on.
SendLoopInv == TypeOK /\ BacklogRespected /\ SelectHasBranch

\* A subscribed client gets every message or learns of the end, and never waits for a server
\* that is gone.
ClientIsServed == MessagesReachTheClient /\ EndIsTold
=============================================================================
