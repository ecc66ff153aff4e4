-------------------------- MODULE GrpcServerProofs --------------------------
(***************************************************************************)
(* Proofs about GrpcServer.  A client is in one place, the queue of the    *)
(* workers or the hands of one of them, and so is a replay request, with   *)
(* the place it takes in the replay queue: for every number of clients,    *)
(* workers, replay threads and records, and every size of rings, queues    *)
(* and caches.                                                             *)
(***************************************************************************)
EXTENDS GrpcServer, RingLemmas

\* The state of a client; of the fields that decide nothing here only the presence.
ClientState(x) ==
    x \in [finished : BOOLEAN, filter : BOOLEAN, level : {x.level}, gen : {x.gen},
           epoch : {x.epoch}, from : {x.from},
           head : [at : {"unknown", "memory", "storage"}, pos : {x.head.pos}],
           messages : Seq(Range(x.messages)), len : Nat,
           stream : {"none", "open", "finished", "dropped"}, asking : {x.asking},
           seen_epoch : {x.seen_epoch}, stopped : {x.stopped}]

\* The length counts at least what is queued in front of an error, until the error is taken.
LenOK(x) ==
    x.stream \in {"none", "open"} =>
    \A n \in 0 .. Len(x.messages) : (\A i \in 1 .. n : x.messages[i] # Error) => n <= x.len

ClientOK(x) == ClientState(x) /\ LenOK(x)

\* The workers have to serve the client.
InService(x) ==
    x.stream = "open" /\ ~x.finished /\ \A i \in 1 .. Len(x.messages) : x.messages[i] # Error

ClientsInv ==
    /\ cl = [c \in Client |-> cl[c]]
    /\ \A c \in Client : ClientOK(cl[c])

\* A worker holds the client it serves, or the one it is about to put back.
WorkerOK(x) ==
    /\ x \in [pc : {"pop", "recv", "ended"}, client : Client \cup {NoOne},
              prev : Client \cup {NoOne}, count : {x.count}, len : {x.len}, cache : {x.cache}]
    /\ x.pc = "recv" => x.client \in Client /\ x.prev = NoOne

WorkersInv ==
    /\ workers = [w \in Worker |-> workers[w]]
    /\ \A w \in Worker : WorkerOK(workers[w])
    /\ clients \in Seq(Client)

Held(x) == IF x.pc = "recv" THEN x.client ELSE x.prev

\* No client is in two places.
OnceInv ==
    /\ \A i, j \in 1 .. Len(clients) : clients[i] = clients[j] => i = j
    /\ \A w \in Worker, i \in 1 .. Len(clients) : Held(workers[w]) # clients[i]
    /\ \A w, v \in Worker : Held(workers[w]) = Held(workers[v]) /\ Held(workers[w]) # NoOne => w = v

Placed(c) ==
    \/ \E i \in 1 .. Len(clients) : clients[i] = c
    \/ \E w \in Worker : Held(workers[w]) = c

\* A client that is to be served has a place, and one that has not called has none.
PlacedInv ==
    \A c \in Client :
        /\ cl[c].stream = "none" => ~Placed(c)
        /\ ~stopped /\ InService(cl[c]) => Placed(c)

\* A request names its client.
RequestOK(r) ==
    r \in [client : Client, gen : {r.gen}, level : {r.level}, deferred : {r.deferred},
           msgs : {r.msgs}, error : {r.error}, reader : {r.reader}, cursor : {r.cursor},
           last : {r.last}]

\* A thread holds the request of its turn, or the one it is about to put back.
TurnOK(x) ==
    /\ x \in [pc : {"pop", "check", "push", "read", "ended"}, req : {x.req}, prev : {x.prev},
              count : {x.count}, from : {x.from}, level : {x.level}]
    /\ x.pc \in {"pop", "ended"} => x.req = NoRequest /\ (x.prev = NoRequest \/ RequestOK(x.prev))
    /\ x.pc \in {"check", "push", "read"} => RequestOK(x.req) /\ x.prev = NoRequest

ThreadsInv ==
    /\ threads = [t \in Thread |-> threads[t]]
    /\ \A t \in Thread : TurnOK(threads[t])

QueueInv ==
    /\ rq \in [cap : {0, InflightMax}, len : Nat, list : Seq(Range(rq.list))]
    /\ rq.len <= rq.cap
    /\ \A k \in 1 .. Len(rq.list) : RequestOK(rq.list[k])

\* Threads that have a request, in either hand.
Busy == {t \in Thread : threads[t].req # NoRequest \/ threads[t].prev # NoRequest}

AccountInv == ~stopped => rq.len = Len(rq.list) + Cardinality(Busy)

Serving == ClientsInv /\ WorkersInv /\ OnceInv /\ PlacedInv
Requests == ThreadsInv /\ QueueInv /\ AccountInv

\* The inductive invariant.
ServeInv == env \in Scenarios /\ frames \in Nat /\ stopped \in BOOLEAN /\ Serving /\ Requests

-----------------------------------------------------------------------------
(* The state of a client *)

\* The client is at least as much out of service as before, and its call goes on.
Follows(x, y) ==
    /\ ClientOK(y)
    /\ y.stream = "none" <=> x.stream = "none"
    /\ InService(y) => InService(x)

\* Updates that leave the queue, the stream and the end of a client alone.
LEMMA SameQueue ==
    ASSUME NEW x, NEW y, ClientOK(x), ClientState(y),
           y.messages = x.messages, y.len = x.len, y.stream = x.stream, y.finished = x.finished
    PROVE  Follows(x, y)
  BY DEF Follows, ClientOK, LenOK, InService

\* A sequence is one over its range.
LEMMA OverRange ==
    ASSUME NEW A, NEW s \in Seq(A)
    PROVE  s \in Seq(Range(s))
<1>1. Len(s) \in Nat /\ DOMAIN s = 1 .. Len(s)
  OBVIOUS
<1>2. s \in [1 .. Len(s) -> Range(s)]
  BY <1>1 DEF Range
<1> QED
  BY <1>1, <1>2

LEMMA RangeSeq ==
    ASSUME NEW s, s \in Seq(Range(s)), NEW x
    PROVE  /\ Append(s, x) \in Seq(Range(Append(s, x)))
           /\ s # <<>> => Tail(s) \in Seq(Range(Tail(s)))
<1>1. Append(s, x) \in Seq(Range(s) \cup {x})
  OBVIOUS
<1>2. s # <<>> => Tail(s) \in Seq(Range(s))
  OBVIOUS
<1> QED
  BY <1>1, <1>2, OverRange

\* push_message
LEMMA PushMessageKeeps ==
    ASSUME NEW x, ClientOK(x), NEW item
    PROVE  /\ Follows(x, PushMessage(x, item))
           /\ PushMessage(x, item).head = x.head
<1> DEFINE y == PushMessage(x, item)
<1>1. x.messages \in Seq(Range(x.messages)) /\ x.len \in Nat
  BY DEF ClientOK, ClientState
<1>2. /\ y.messages = Append(x.messages, item) /\ y.len = x.len + 1
      /\ y.stream = x.stream /\ y.finished = x.finished /\ y.head = x.head
  BY DEF ClientOK, ClientState, PushMessage
<1>3. Append(x.messages, item) \in Seq(Range(Append(x.messages, item)))
  BY <1>1, RangeSeq
<1>4. ClientState(y)
  <2> DEFINE m == Append(x.messages, item)
             n == x.len + 1
  <2>1. m \in Seq(Range(m)) /\ n \in Nat
    BY <1>1, <1>3
  <2>2. y = [x EXCEPT !.messages = m, !.len = n]
    BY DEF PushMessage
  <2> HIDE DEF m, n, y
  <2> QED
    BY <2>1, <2>2 DEF ClientOK, ClientState
<1>5. Len(y.messages) = Len(x.messages) + 1 /\ \A i \in 1 .. Len(x.messages) : y.messages[i] = x.messages[i]
  BY <1>1, <1>2
<1>6. LenOK(y)
  <2> SUFFICES ASSUME NEW n \in 0 .. Len(y.messages), \A i \in 1 .. n : y.messages[i] # Error
               PROVE  x.stream \in {"none", "open"} => n <= y.len
    BY <1>2 DEF LenOK
  <2> HAVE x.stream \in {"none", "open"}
  <2>1. CASE n <= Len(x.messages)
    <3>1. \A i \in 1 .. n : x.messages[i] # Error
      BY <1>1, <1>5, <2>1
    <3>2. n <= x.len
      BY <3>1, <2>1, <1>1 DEF ClientOK, LenOK
    <3> QED
      BY <3>2, <1>1, <1>2
  <2>2. CASE n = Len(x.messages) + 1
    <3>1. \A i \in 1 .. Len(x.messages) : x.messages[i] # Error
      BY <1>1, <1>5, <2>2
    <3>2. Len(x.messages) <= x.len
      BY <3>1, <1>1 DEF ClientOK, LenOK
    <3> QED
      BY <3>2, <1>1, <1>2, <2>2
  <2> QED
    BY <1>1, <1>5, <2>1, <2>2
<1>7. InService(y) => InService(x)
  BY <1>1, <1>2, <1>5 DEF InService
<1> QED
  BY <1>2, <1>4, <1>6, <1>7 DEF Follows, ClientOK

\* push_error ends the service.
LEMMA PushErrorKeeps ==
    ASSUME NEW x, ClientOK(x)
    PROVE  /\ Follows(x, PushError(x)) /\ ~InService(PushError(x))
           /\ Follows(x, Finish(x)) /\ ~InService(Finish(x))
<1> DEFINE y == PushError(x)
           z == Finish(x)
<1>1. x.len \in Nat
  BY DEF ClientOK, ClientState
<1>2. <<Error>> \in Seq(Range(<<Error>>))
  BY DEF Range
<1>3. /\ y.messages = <<Error>> /\ y.len = x.len /\ y.stream = x.stream
      /\ z.messages = <<Error>> /\ z.len = x.len /\ z.stream = x.stream
  BY DEF ClientOK, ClientState, PushError, Finish
<1>4. ClientState(y)
  BY <1>2 DEF ClientOK, ClientState, PushError
<1>5. ClientState(z)
  BY <1>2 DEF ClientOK, ClientState, PushError, Finish
<1>6. LenOK(y) /\ LenOK(z)
  BY <1>1, <1>3 DEF LenOK
<1>7. ~InService(y) /\ ~InService(z)
  BY <1>3 DEF InService
<1> QED
  BY <1>3, <1>4, <1>5, <1>6, <1>7 DEF Follows, ClientOK

\* The updates of a field that does not matter here, of a position or of a request.
LEMMA FieldsKeep ==
    ASSUME NEW x, ClientOK(x), NEW v
    PROVE  /\ Follows(x, [x EXCEPT !.asking = v])
           /\ Follows(x, [x EXCEPT !.head = Memory(v)])
           /\ Follows(x, [x EXCEPT !.head = Storage(v)])
           /\ Follows(x, [x EXCEPT !.stopped = v])
<1>1. ASSUME NEW y, y \in {[x EXCEPT !.asking = v], [x EXCEPT !.head = Memory(v)],
                           [x EXCEPT !.head = Storage(v)], [x EXCEPT !.stopped = v]}
      PROVE  Follows(x, y)
  <2>1. ClientState(y)
    BY <1>1 DEF ClientOK, ClientState, Memory, Storage
  <2>2. y.messages = x.messages /\ y.len = x.len /\ y.stream = x.stream /\ y.finished = x.finished
    BY <1>1 DEF ClientOK, ClientState, Memory, Storage
  <2> QED
    BY <2>1, <2>2, SameQueue
<1> QED
  BY <1>1

LEMMA FollowsTrans ==
    ASSUME NEW x, NEW y, NEW z, Follows(x, y), Follows(y, z)
    PROVE  Follows(x, z)
  BY DEF Follows

LEMMA FollowsSelf ==
    ASSUME NEW x, ClientOK(x)
    PROVE  Follows(x, x)
  BY DEF Follows

-----------------------------------------------------------------------------
(* Clients and workers *)

\* One client changes.
LEMMA OneClient ==
    ASSUME ClientsInv, NEW c \in Client, NEW y, Follows(cl[c], y), cl' = [cl EXCEPT ![c] = y]
    PROVE  /\ ClientsInv' /\ \A d \in Client : Follows(cl[d], cl'[d])
           /\ cl'[c] = y /\ \A d \in Client \ {c} : cl'[d] = cl[d]
<1>1. cl' = [d \in Client |-> IF d = c THEN y ELSE cl[d]]
  BY DEF ClientsInv
<1>2. \A d \in Client : cl'[d] = IF d = c THEN y ELSE cl[d]
  BY <1>1
<1>3. \A d \in Client : Follows(cl[d], cl'[d])
  BY <1>2, FollowsSelf DEF ClientsInv
<1>4. cl' = [d \in Client |-> cl'[d]]
  BY <1>1
<1>5. \A d \in Client : ClientOK(cl[d])'
  BY <1>3 DEF Follows
<1> QED
  BY <1>2, <1>3, <1>4, <1>5 DEF ClientsInv

LEMMA NoClient ==
    ASSUME ClientsInv, UNCHANGED cl
    PROVE  ClientsInv' /\ \A d \in Client : Follows(cl[d], cl'[d])
  BY FollowsSelf DEF ClientsInv

\* No place changes.
LEMMA SamePlaces ==
    ASSUME Serving, ClientsInv', \A d \in Client : Follows(cl[d], cl'[d]),
           UNCHANGED <<clients, workers>>, stopped => stopped'
    PROVE  Serving'
<1>1. WorkersInv' /\ OnceInv'
  BY DEF Serving, WorkersInv, OnceInv
<1>2. PlacedInv'
  <2> SUFFICES ASSUME NEW c \in Client
               PROVE  /\ cl'[c].stream = "none" => ~Placed(c)'
                      /\ ~stopped' /\ InService(cl'[c]) => Placed(c)'
    BY DEF PlacedInv
  <2>1. Placed(c)' <=> Placed(c)
    BY DEF Placed
  <2>2. Follows(cl[c], cl'[c])
    OBVIOUS
  <2> QED
    BY <2>1, <2>2 DEF Follows, PlacedInv, Serving
<1> QED
  BY <1>1, <1>2 DEF Serving

LEMMA ShutdownServing ==
    ASSUME Serving, UNCHANGED <<cl, clients, workers>>, stopped => stopped'
    PROVE  Serving'
  BY SamePlaces, NoClient DEF Serving

LEMMA SubscribeServing ==
    ASSUME ServeInv, NEW c \in Client, Subscribe(c)
    PROVE  Serving'
<1> USE DEF Subscribe
<1> DEFINE y == [cl[c] EXCEPT !.stream = "open"]
           n == Len(clients)
<1>1. ClientOK(cl[c]) /\ cl[c].stream = "none" /\ ClientsInv /\ clients \in Seq(Client)
  BY DEF ServeInv, Serving, ClientsInv, WorkersInv
<1>2. /\ y.messages = cl[c].messages /\ y.len = cl[c].len /\ y.stream = "open"
      /\ y.finished = cl[c].finished
  BY <1>1 DEF ClientOK, ClientState
<1>3. ClientState(y)
  BY <1>1 DEF ClientOK, ClientState
<1>4. ClientOK(y)
  BY <1>1, <1>2, <1>3 DEF ClientOK, LenOK
<1>5. cl' = [cl EXCEPT ![c] = y]
  OBVIOUS
<1> HIDE DEF y
<1>6. cl' = [d \in Client |-> IF d = c THEN y ELSE cl[d]]
  BY <1>1, <1>5 DEF ClientsInv
<1>7. ClientsInv'
  BY <1>1, <1>4, <1>6 DEF ClientsInv
<1>8. clients' = Append(clients, c) /\ clients' \in Seq(Client) /\ workers' = workers
  BY <1>1
<1>9. WorkersInv'
  BY <1>8 DEF ServeInv, Serving, WorkersInv
<1>10. Len(clients') = n + 1 /\ n \in Nat /\ clients'[n + 1] = c /\ \A i \in 1 .. n : clients'[i] = clients[i]
  BY <1>1, <1>8
<1>11. ~Placed(c)
  BY <1>1 DEF ServeInv, Serving, PlacedInv
<1>12. OnceInv'
  BY <1>8, <1>10, <1>11 DEF ServeInv, Serving, OnceInv, Placed
<1>13. PlacedInv'
  <2> SUFFICES ASSUME NEW d \in Client
               PROVE  /\ cl'[d].stream = "none" => ~Placed(d)'
                      /\ ~stopped' /\ InService(cl'[d]) => Placed(d)'
    BY DEF PlacedInv
  <2>1. CASE d = c
    <3>1. cl'[d].stream = "open"
      BY <2>1, <1>2, <1>6
    <3>2. Placed(d)'
      BY <2>1, <1>10 DEF Placed
    <3> QED
      BY <3>1, <3>2
  <2>2. CASE d # c
    <3>1. cl'[d] = cl[d]
      BY <2>2, <1>6
    <3>2. Placed(d)' <=> Placed(d)
      BY <2>2, <1>8, <1>10 DEF Placed
    <3> QED
      BY <3>1, <3>2 DEF ServeInv, Serving, PlacedInv
  <2> QED
    BY <2>1, <2>2
<1> QED
  BY <1>7, <1>9, <1>12, <1>13 DEF Serving

\* A message, a ping or an error for the client.
LEMMA CallServing ==
    ASSUME ServeInv, NEW c \in Client,
           \/ \E r \in env.asks : ReadRequest(c, r)
           \/ PingTick(c)
           \/ CallStop(c)
    PROVE  Serving'
<1>1. ClientsInv /\ ClientOK(cl[c]) /\ Serving
  BY DEF ServeInv, Serving, ClientsInv
<1>2. UNCHANGED <<clients, workers, stopped>>
  BY DEF ReadRequest, PingTick, CallStop
<1>3. \E y : Follows(cl[c], y) /\ cl' = [cl EXCEPT ![c] = y]
  <2>1. CASE cl' = [cl EXCEPT ![c] = PushMessage(@, Ping)]
    BY <1>1, <2>1, PushMessageKeeps
  <2>2. CASE cl' = [cl EXCEPT ![c] = Finish(@)]
    BY <1>1, <2>2, PushErrorKeeps
  <2>3. ASSUME NEW r, cl' = [cl EXCEPT ![c].asking = r, ![c].seen_epoch = Epoch]
        PROVE  \E y : Follows(cl[c], y) /\ cl' = [cl EXCEPT ![c] = y]
    <3> DEFINE y == [cl[c] EXCEPT !.asking = r, !.seen_epoch = Epoch]
    <3>1. cl' = [cl EXCEPT ![c] = y]
      BY <2>3, <1>1 DEF ClientsInv
    <3>2. ClientState(y)
      BY <1>1 DEF ClientOK, ClientState
    <3>3. /\ y.messages = cl[c].messages /\ y.len = cl[c].len /\ y.stream = cl[c].stream
          /\ y.finished = cl[c].finished
      BY <1>1 DEF ClientOK, ClientState
    <3> QED
      BY <3>1, <3>2, <3>3, <1>1, SameQueue
  <2>4. CASE cl' = [cl EXCEPT ![c] = [PushError(@) EXCEPT !.stopped = TRUE]]
    <3>1. Follows(cl[c], PushError(cl[c])) /\ ClientOK(PushError(cl[c]))
      BY <1>1, PushErrorKeeps DEF Follows
    <3> QED
      BY <2>4, <3>1, FieldsKeep, FollowsTrans
  <2> QED
    BY <2>1, <2>2, <2>3, <2>4 DEF ReadRequest, PingTick, CallStop
<1> QED
  BY <1>1, <1>2, <1>3, OneClient, SamePlaces

\* The client takes a message; after an error its stream is finished.
LEMMA PollServing ==
    ASSUME ServeInv, NEW c \in Client, Poll(c)
    PROVE  Serving'
<1> DEFINE x == cl[c]
           item == Head(x.messages)
           m == Tail(x.messages)
           n == IF item = Error THEN x.len ELSE x.len - 1
           s == IF item = Error THEN "finished" ELSE x.stream
           y == [x EXCEPT !.messages = m, !.len = n, !.stream = s]
<1>1. ClientsInv /\ ClientOK(x) /\ Serving
  BY DEF ServeInv, Serving, ClientsInv
<1>2. x.messages \in Seq(Range(x.messages)) /\ x.messages # <<>> /\ x.len \in Nat /\ x.stream = "open"
  BY <1>1 DEF ClientOK, ClientState, Poll
<1>3. cl' = [cl EXCEPT ![c] = y]
  BY <1>1 DEF ClientsInv, Poll
<1>4. m \in Seq(Range(m))
  BY <1>2, RangeSeq
<1>5. item = x.messages[1] /\ Len(x.messages) >= 1
  BY <1>2
<1>6. item # Error => 1 <= x.len
  <2>1. item # Error => \A i \in 1 .. 1 : x.messages[i] # Error
    BY <1>5
  <2> QED
    BY <2>1, <1>1, <1>2, <1>5 DEF ClientOK, LenOK
<1>7. n \in Nat
  BY <1>2, <1>6
<1>8. s \in {"finished", "open"} /\ (item = Error => s = "finished")
  BY <1>2
<1>9. /\ y.messages = m /\ y.len = n /\ y.stream = s /\ y.finished = x.finished
  <2> HIDE DEF m, n, s
  <2> QED
    BY <1>1 DEF ClientOK, ClientState
<1>10. ClientState(y)
  <2> HIDE DEF m, n, s
  <2> QED
    BY <1>1, <1>4, <1>7, <1>8 DEF ClientOK, ClientState
<1>11. Len(m) = Len(x.messages) - 1 /\ \A i \in 1 .. Len(m) : m[i] = x.messages[i + 1]
  BY <1>2
<1>12. LenOK(y)
  <2> SUFFICES ASSUME s = "open", NEW k \in 0 .. Len(m), \A i \in 1 .. k : m[i] # Error
               PROVE  k <= n
    BY <1>8, <1>9 DEF LenOK
  <2>1. item # Error
    BY <1>8
  <2>2. \A i \in 1 .. k + 1 : x.messages[i] # Error
    <3> SUFFICES ASSUME NEW i \in 1 .. k + 1 PROVE x.messages[i] # Error
      OBVIOUS
    <3>1. CASE i = 1
      BY <3>1, <2>1, <1>5
    <3>2. CASE i # 1
      <4>1. i - 1 \in 1 .. k /\ i - 1 \in 1 .. Len(m) /\ (i - 1) + 1 = i
        BY <3>2, <1>2, <1>11
      <4> QED
        BY <4>1, <1>11
    <3> QED
      BY <3>1, <3>2
  <2>3. k + 1 \in 0 .. Len(x.messages)
    BY <1>2, <1>11
  <2>4. k + 1 <= x.len
    BY <2>2, <2>3, <1>1, <1>2 DEF ClientOK, LenOK
  <2> QED
    BY <2>1, <2>4, <1>2
<1>13. InService(y) => InService(x)
  <2> SUFFICES ASSUME InService(y) PROVE InService(x)
    OBVIOUS
  <2>1. s = "open" /\ item # Error /\ ~x.finished /\ \A i \in 1 .. Len(m) : m[i] # Error
    BY <1>8, <1>9 DEF InService
  <2>2. \A i \in 1 .. Len(x.messages) : x.messages[i] # Error
    <3> SUFFICES ASSUME NEW i \in 1 .. Len(x.messages) PROVE x.messages[i] # Error
      OBVIOUS
    <3>1. CASE i = 1
      BY <3>1, <2>1, <1>5
    <3>2. CASE i # 1
      <4>1. i - 1 \in 1 .. Len(m) /\ (i - 1) + 1 = i
        BY <3>2, <1>2, <1>11
      <4> QED
        BY <4>1, <1>11, <2>1
    <3> QED
      BY <3>1, <3>2
  <2> QED
    BY <2>1, <2>2, <1>2 DEF InService
<1>14. Follows(x, y)
  BY <1>2, <1>8, <1>9, <1>10, <1>12, <1>13 DEF Follows, ClientOK
<1>15. UNCHANGED <<clients, workers, stopped>>
  BY DEF Poll
<1> HIDE DEF y
<1> QED
  BY <1>1, <1>3, <1>14, <1>15, OneClient, SamePlaces

\* The stream of a client is dropped.
LEMMA DropStreamServing ==
    ASSUME ServeInv, NEW c \in Client, DropStream(c)
    PROVE  Serving'
<1> DEFINE x == cl[c]
           y == [x EXCEPT !.stream = "dropped", !.finished = TRUE]
<1>1. ClientsInv /\ ClientOK(x) /\ Serving
  BY DEF ServeInv, Serving, ClientsInv
<1>2. cl' = [cl EXCEPT ![c] = y] /\ x.stream # "none" /\ UNCHANGED <<clients, workers, stopped>>
  BY <1>1 DEF ClientsInv, DropStream
<1>3. y.stream = "dropped" /\ y.finished = TRUE
  BY <1>1 DEF ClientOK, ClientState
<1>4. ClientState(y)
  BY <1>1 DEF ClientOK, ClientState
<1>5. Follows(x, y)
  BY <1>2, <1>3, <1>4 DEF Follows, ClientOK, LenOK, InService
<1> HIDE DEF y
<1> QED
  BY <1>1, <1>2, <1>5, OneClient, SamePlaces

\* A filter: the position and the generation of the client change, or it ends.
LEMMA SetFilterServing ==
    ASSUME ServeInv, NEW c \in Client, SetFilter(c)
    PROVE  Serving'
<1> DEFINE x == cl[c]
           r == x.asking
           moves == ~x.filter \/ r.level # x.level \/ r.from # NoSlot
           head == IF moves THEN Locate(r.level, r.from) ELSE x.head
           y == [x EXCEPT !.asking = NoAsk, !.filter = TRUE, !.head = head, !.level = r.level,
                          !.gen = x.gen + 1, !.from = r.from, !.epoch = x.seen_epoch]
<1>1. ClientsInv /\ ClientOK(x) /\ Serving
  BY DEF ServeInv, Serving, ClientsInv
<1>2. UNCHANGED <<clients, workers, stopped>>
  BY DEF SetFilter
<1>3. \/ cl' = [cl EXCEPT ![c] = [Finish(@) EXCEPT !.asking = NoAsk]]
      \/ cl' = [cl EXCEPT ![c].asking = NoAsk]
      \/ cl' = [cl EXCEPT ![c] = y]
  BY DEF SetFilter
<1>4. CASE cl' = [cl EXCEPT ![c] = [Finish(@) EXCEPT !.asking = NoAsk]]
  <2>1. Follows(x, Finish(x)) /\ ClientOK(Finish(x))
    BY <1>1, PushErrorKeeps DEF Follows
  <2>2. Follows(x, [Finish(x) EXCEPT !.asking = NoAsk])
    BY <2>1, FieldsKeep, FollowsTrans
  <2>3. cl' = [cl EXCEPT ![c] = [Finish(x) EXCEPT !.asking = NoAsk]]
    BY <1>4
  <2> QED
    BY <1>1, <1>2, <2>2, <2>3, OneClient, SamePlaces
<1>5. CASE cl' = [cl EXCEPT ![c].asking = NoAsk]
  <2>1. cl' = [cl EXCEPT ![c] = [x EXCEPT !.asking = NoAsk]]
    BY <1>5, <1>1 DEF ClientsInv
  <2> QED
    BY <1>1, <1>2, <2>1, FieldsKeep, OneClient, SamePlaces
<1>6. CASE cl' = [cl EXCEPT ![c] = y]
  <2>1. head \in [at : {"unknown", "memory", "storage"}, pos : {head.pos}]
    <3>1. x.head \in [at : {"unknown", "memory", "storage"}, pos : {x.head.pos}]
      BY <1>1 DEF ClientOK, ClientState
    <3>2. ASSUME NEW l, NEW f
          PROVE  Locate(l, f) \in [at : {"unknown", "memory", "storage"}, pos : {Locate(l, f).pos}]
      BY DEF Locate, Unknown, Memory, Storage
    <3> QED
      BY <3>1, <3>2
  <2> HIDE DEF head, moves, r
  <2>2. ClientState(y)
    BY <1>1, <2>1 DEF ClientOK, ClientState
  <2>3. y.messages = x.messages /\ y.len = x.len /\ y.stream = x.stream /\ y.finished = x.finished
    BY <1>1 DEF ClientOK, ClientState
  <2> QED
    BY <1>1, <1>2, <1>6, <2>2, <2>3, SameQueue, OneClient, SamePlaces
<1> QED
  BY <1>3, <1>4, <1>5, <1>6

Queued(q, c) == \E i \in 1 .. Len(q) : q[i] = c

\* One worker changes, and the queue with it.
LEMMA OneWorker ==
    ASSUME Serving, ClientsInv', \A d \in Client : Follows(cl[d], cl'[d]), stopped' = stopped,
           NEW w \in Worker, NEW z, WorkerOK(z), workers' = [workers EXCEPT ![w] = z],
           clients' \in Seq(Client),
           \A i, j \in 1 .. Len(clients') : clients'[i] = clients'[j] => i = j,
           \A v \in Worker \ {w} : ~Queued(clients', Held(workers[v])),
           ~Queued(clients', Held(z)),
           \A v \in Worker \ {w} : Held(z) # NoOne => Held(workers[v]) # Held(z),
           \A d \in Client : Queued(clients', d) \/ Held(z) = d => Placed(d),
           \A d \in Client : ~stopped /\ Placed(d) /\ InService(cl'[d]) =>
               \/ Queued(clients', d) \/ Held(z) = d
               \/ \E v \in Worker \ {w} : Held(workers[v]) = d
    PROVE  Serving'
<1>1. workers' = [v \in Worker |-> IF v = w THEN z ELSE workers[v]]
  BY DEF Serving, WorkersInv
<1>2. \A v \in Worker : workers'[v] = IF v = w THEN z ELSE workers[v]
  BY <1>1
<1>3. WorkersInv'
  <2>1. workers' = [v \in Worker |-> workers'[v]]
    BY <1>1
  <2>2. \A v \in Worker : WorkerOK(workers[v])'
    BY <1>2 DEF Serving, WorkersInv
  <2> QED
    BY <2>1, <2>2 DEF WorkersInv
<1>4. \A v \in Worker : Held(workers'[v]) = IF v = w THEN Held(z) ELSE Held(workers[v])
  BY <1>2
<1>5. OnceInv'
  <2>1. \A v \in Worker, i \in 1 .. Len(clients') : Held(workers'[v]) # clients'[i]
    BY <1>4 DEF Queued
  <2>2. \A u, v \in Worker : Held(workers'[u]) = Held(workers'[v]) /\ Held(workers'[u]) # NoOne => u = v
    BY <1>4 DEF Serving, OnceInv
  <2> QED
    BY <2>1, <2>2 DEF OnceInv
<1>6. \A d \in Client : Placed(d)' <=> \/ Queued(clients', d) \/ Held(z) = d
                                      \/ \E v \in Worker \ {w} : Held(workers[v]) = d
  BY <1>4 DEF Placed, Queued
<1>7. PlacedInv'
  <2> SUFFICES ASSUME NEW d \in Client
               PROVE  /\ cl'[d].stream = "none" => ~Placed(d)'
                      /\ ~stopped' /\ InService(cl'[d]) => Placed(d)'
    BY DEF PlacedInv
  <2>1. Follows(cl[d], cl'[d])
    OBVIOUS
  <2>2. Placed(d)' => Placed(d)
    BY <1>6 DEF Placed
  <2>3. ~stopped /\ InService(cl'[d]) /\ Placed(d) => Placed(d)'
    BY <1>6
  <2> QED
    BY <2>1, <2>2, <2>3 DEF Follows, Serving, PlacedInv
<1> QED
  BY <1>3, <1>5, <1>7 DEF Serving

\* q has each client once, and with what the workers other than w hold it is all places.
Taken(w, q) ==
    /\ q \in Seq(Client) /\ Tail(q) \in Seq(Client) /\ Head(q) \in Client
    /\ \A i, j \in 1 .. Len(Tail(q)) : Tail(q)[i] = Tail(q)[j] => i = j
    /\ ~Queued(Tail(q), Head(q)) /\ ~Queued(Tail(q), NoOne)
    /\ \A v \in Worker \ {w} : ~Queued(q, Held(workers[v]))
    /\ \A d \in Client : Placed(d) <=> \/ Queued(Tail(q), d) \/ Head(q) = d
                                     \/ \E v \in Worker \ {w} : Held(workers[v]) = d
    /\ \A d : Queued(q, d) <=> Queued(Tail(q), d) \/ Head(q) = d

\* The queue of which a worker takes the first client: what it had to put back is last.
LEMMA TakenQueue ==
    ASSUME Serving, NEW w \in Worker, workers[w].pc = "pop", NEW q, q # <<>>,
           q = IF workers[w].prev = NoOne THEN clients ELSE Append(clients, workers[w].prev)
    PROVE  Taken(w, q)
<1> DEFINE p == workers[w].prev
           n == Len(clients)
<1>1. /\ clients \in Seq(Client) /\ n \in Nat /\ p \in Client \cup {NoOne}
      /\ \A v \in Worker : WorkerOK(workers[v])
  BY DEF Serving, WorkersInv, WorkerOK
<1>2. NoOne \notin Client
  BY ConstantsAssumption DEF NoOne
<1>3. Held(workers[w]) = p
  BY DEF Held
<1>4. /\ q \in Seq(Client)
      /\ \A i \in 1 .. n : q[i] = clients[i]
      /\ p = NoOne => Len(q) = n
      /\ p # NoOne => Len(q) = n + 1 /\ q[n + 1] = p
  BY <1>1
<1>5. \A i, j \in 1 .. Len(q) : q[i] = q[j] => i = j
  <2>1. \A i \in 1 .. n : q[i] # p
    BY <1>3, <1>4 DEF Serving, OnceInv
  <2>2. \A i, j \in 1 .. n : q[i] = q[j] => i = j
    BY <1>4 DEF Serving, OnceInv
  <2> QED
    BY <1>1, <1>4, <2>1, <2>2
<1>6. \A v \in Worker \ {w} : ~Queued(q, Held(workers[v]))
  <2> SUFFICES ASSUME NEW v \in Worker \ {w}, NEW i \in 1 .. Len(q), q[i] = Held(workers[v]) PROVE FALSE
    BY DEF Queued
  <2>1. CASE i \in 1 .. n
    BY <2>1, <1>4 DEF Serving, OnceInv
  <2>2. CASE i \notin 1 .. n
    <3>1. p # NoOne /\ q[i] = p
      BY <2>2, <1>1, <1>4
    <3> QED
      BY <3>1, <1>3 DEF Serving, OnceInv
  <2> QED
    BY <2>1, <2>2
<1>7. \A d \in Client : Placed(d) <=> Queued(q, d) \/ \E v \in Worker \ {w} : Held(workers[v]) = d
  <2> SUFFICES ASSUME NEW d \in Client
               PROVE  Queued(q, d) <=> Queued(clients, d) \/ p = d
    BY <1>3 DEF Placed, Queued
  <2>1. CASE p = NoOne
    BY <2>1, <1>2, <1>4 DEF Queued
  <2>2. CASE p # NoOne
    BY <2>2, <1>1, <1>4 DEF Queued
  <2> QED
    BY <2>1, <2>2
<1>8. /\ Tail(q) \in Seq(Client) /\ Head(q) = q[1] /\ Len(q) >= 1 /\ Len(Tail(q)) = Len(q) - 1
      /\ \A i \in 1 .. Len(Tail(q)) : Tail(q)[i] = q[i + 1]
  BY <1>4
<1> HIDE DEF p, n
<1>9. Len(q) \in Nat /\ Head(q) \in Client /\ \A i \in 1 .. Len(q) : q[i] \in Client
  BY <1>4, <1>8
<1>10. \A i, j \in 1 .. Len(Tail(q)) : Tail(q)[i] = Tail(q)[j] => i = j
  <2> SUFFICES ASSUME NEW i \in 1 .. Len(Tail(q)), NEW j \in 1 .. Len(Tail(q)), Tail(q)[i] = Tail(q)[j]
               PROVE  i = j
    OBVIOUS
  <2>1. q[i + 1] = q[j + 1] /\ i + 1 \in 1 .. Len(q) /\ j + 1 \in 1 .. Len(q)
    BY <1>8, <1>9
  <2>2. i + 1 = j + 1
    BY <2>1, <1>5
  <2> QED
    BY <2>2
<1>11. \A d : Queued(q, d) <=> Queued(Tail(q), d) \/ Head(q) = d
  <2> SUFFICES ASSUME NEW d PROVE Queued(q, d) <=> Queued(Tail(q), d) \/ Head(q) = d
    OBVIOUS
  <2>1. Queued(Tail(q), d) \/ Head(q) = d => Queued(q, d)
    <3>1. ASSUME NEW i \in 1 .. Len(Tail(q)), Tail(q)[i] = d PROVE Queued(q, d)
      <4>1. i + 1 \in 1 .. Len(q) /\ q[i + 1] = d
        BY <3>1, <1>8, <1>9
      <4> QED
        BY <4>1 DEF Queued
    <3>2. Head(q) = d => Queued(q, d)
      BY <1>8, <1>9 DEF Queued
    <3> QED
      BY <3>1, <3>2 DEF Queued
  <2>2. ASSUME NEW i \in 1 .. Len(q), q[i] = d PROVE Queued(Tail(q), d) \/ Head(q) = d
    <3>1. CASE i = 1
      BY <2>2, <3>1, <1>8
    <3>2. CASE i # 1
      <4>1. i - 1 \in 1 .. Len(Tail(q)) /\ (i - 1) + 1 = i
        BY <3>2, <1>8, <1>9
      <4>2. Tail(q)[i - 1] = d
        BY <4>1, <2>2, <1>8
      <4> QED
        BY <4>1, <4>2 DEF Queued
    <3> QED
      BY <3>1, <3>2
  <2> QED
    BY <2>1, <2>2 DEF Queued
<1>12. ~Queued(Tail(q), Head(q)) /\ ~Queued(Tail(q), NoOne)
  <2>1. ASSUME NEW i \in 1 .. Len(Tail(q)), Tail(q)[i] = q[1] \/ Tail(q)[i] = NoOne PROVE FALSE
    <3>1. i + 1 \in 1 .. Len(q) /\ q[i + 1] = Tail(q)[i] /\ i + 1 # 1 /\ 1 \in 1 .. Len(q)
      BY <1>8, <1>9
    <3> QED
      BY <2>1, <3>1, <1>2, <1>5, <1>9
  <2> QED
    BY <2>1, <1>8 DEF Queued
<1> QED
  BY <1>4, <1>6, <1>7, <1>8, <1>9, <1>10, <1>11, <1>12 DEF Taken

LEMMA WorkerTakeServing ==
    ASSUME ServeInv, NEW w \in Worker, WorkerTake(w)
    PROVE  Serving'
<1> DEFINE prev == workers[w].prev
           q == IF prev = NoOne THEN clients ELSE Append(clients, prev)
           c == Head(q)
           none == [NoWork EXCEPT !.cache = workers[w].cache]
           parked == [[NoWork EXCEPT !.prev = c] EXCEPT !.cache = workers[w].cache]
           serves == [[NoWork EXCEPT !.pc = "recv", !.client = c, !.len = cl[c].len]
                         EXCEPT !.cache = workers[w].cache]
<1>1. Serving /\ ClientsInv
  BY DEF ServeInv, Serving
<1>2. workers[w].pc = "pop" /\ q # <<>> /\ clients' = Tail(q) /\ stopped' = stopped
  BY DEF WorkerTake
<1>3. NoOne \notin Client
  BY ConstantsAssumption DEF NoOne
<1>4. /\ \/ cl[c].finished /\ cl' = cl
         \/ cl' = [cl EXCEPT ![c] = Finish(@)]
      /\ workers' = [workers EXCEPT ![w] = none]
   \/ /\ cl' = cl
      /\ workers' = [workers EXCEPT ![w] = parked]
   \/ /\ cl' = cl
      /\ workers' = [workers EXCEPT ![w] = serves]
  BY DEF WorkerTake, Parked
<1>a. q = IF workers[w].prev = NoOne THEN clients ELSE Append(clients, workers[w].prev)
  OBVIOUS
<1> HIDE DEF prev, q
<1>5. /\ q \in Seq(Client) /\ Tail(q) \in Seq(Client) /\ c \in Client
      /\ \A i, j \in 1 .. Len(Tail(q)) : Tail(q)[i] = Tail(q)[j] => i = j
      /\ ~Queued(Tail(q), c) /\ ~Queued(Tail(q), NoOne)
      /\ \A v \in Worker \ {w} : ~Queued(q, Held(workers[v]))
      /\ \A d \in Client : Placed(d) <=> \/ Queued(Tail(q), d) \/ c = d
                                       \/ \E v \in Worker \ {w} : Held(workers[v]) = d
      /\ \A d : Queued(q, d) <=> Queued(Tail(q), d) \/ c = d
  <2>1. Taken(w, q)
    BY <1>a, <1>1, <1>2, TakenQueue
  <2> QED
    BY <2>1 DEF Taken
<1> HIDE DEF c
<1>6. ClientOK(cl[c])
  BY <1>1, <1>5 DEF ClientsInv
<1>7. ASSUME NEW z, WorkerOK(z), workers' = [workers EXCEPT ![w] = z],
             ClientsInv', \A d \in Client : Follows(cl[d], cl'[d]),
             Held(z) = c \/ (Held(z) = NoOne /\ ~InService(cl'[c]))
      PROVE  Serving'
  <2>1. \A v \in Worker \ {w} : ~Queued(clients', Held(workers[v])) /\ Held(workers[v]) # c
    BY <1>2, <1>5
  <2>2. ~Queued(clients', Held(z))
    BY <1>2, <1>5, <1>7
  <2>3. \A v \in Worker \ {w} : Held(z) # NoOne => Held(workers[v]) # Held(z)
    BY <1>7, <2>1
  <2>4. \A d \in Client : Queued(clients', d) \/ Held(z) = d => Placed(d)
    BY <1>2, <1>3, <1>5, <1>7
  <2>5. \A d \in Client : Placed(d) /\ InService(cl'[d]) =>
               \/ Queued(clients', d) \/ Held(z) = d
               \/ \E v \in Worker \ {w} : Held(workers[v]) = d
    BY <1>2, <1>5, <1>7
  <2>6. \A i, j \in 1 .. Len(clients') : clients'[i] = clients'[j] => i = j
    BY <1>2, <1>5
  <2>7. clients' \in Seq(Client)
    BY <1>2, <1>5
  <2> QED
    BY <1>1, <1>2, <1>7, <2>1, <2>2, <2>3, <2>4, <2>5, <2>6, <2>7, OneWorker
<1>8. CASE /\ \/ cl[c].finished /\ cl' = cl
              \/ cl' = [cl EXCEPT ![c] = Finish(@)]
           /\ workers' = [workers EXCEPT ![w] = none]
  <2> DEFINE z == none
  <2>1. WorkerOK(z) /\ Held(z) = NoOne
    BY DEF WorkerOK, Held, NoWork
  <2>2. ClientsInv' /\ (\A d \in Client : Follows(cl[d], cl'[d])) /\ ~InService(cl'[c])
    <3>1. CASE cl[c].finished /\ cl' = cl
      BY <3>1, <1>1, NoClient DEF InService
    <3>2. CASE cl' = [cl EXCEPT ![c] = Finish(@)]
      <4>1. Follows(cl[c], Finish(cl[c])) /\ ~InService(Finish(cl[c]))
        BY <1>6, PushErrorKeeps
      <4>2. cl' = [cl EXCEPT ![c] = Finish(cl[c])]
        BY <3>2
      <4>3. cl'[c] = Finish(cl[c]) /\ ClientsInv' /\ (\A d \in Client : Follows(cl[d], cl'[d]))
        BY <4>1, <4>2, <1>1, <1>5, OneClient
      <4> QED
        BY <4>1, <4>3
    <3> QED
      BY <1>8, <3>1, <3>2
  <2>3. workers' = [workers EXCEPT ![w] = z]
    BY <1>8
  <2> HIDE DEF z
  <2> QED
    BY <1>7, <2>1, <2>2, <2>3
<1>9. CASE /\ cl' = cl
           /\ workers' = [workers EXCEPT ![w] = parked]
  <2> DEFINE z == parked
  <2>1. WorkerOK(z) /\ Held(z) = c
    BY <1>5 DEF WorkerOK, Held, NoWork
  <2>2. ClientsInv' /\ (\A d \in Client : Follows(cl[d], cl'[d]))
    BY <1>9, <1>1, NoClient
  <2>3. workers' = [workers EXCEPT ![w] = z]
    BY <1>9
  <2> HIDE DEF z
  <2> QED
    BY <1>7, <2>1, <2>2, <2>3
<1>10. CASE /\ cl' = cl
            /\ workers' = [workers EXCEPT ![w] = serves]
  <2> DEFINE z == serves
  <2>1. WorkerOK(z) /\ Held(z) = c
    BY <1>5 DEF WorkerOK, Held, NoWork
  <2>2. ClientsInv' /\ (\A d \in Client : Follows(cl[d], cl'[d]))
    BY <1>10, <1>1, NoClient
  <2>3. workers' = [workers EXCEPT ![w] = z]
    BY <1>10
  <2> HIDE DEF z
  <2> QED
    BY <1>7, <2>1, <2>2, <2>3
<1> QED
  BY <1>4, <1>8, <1>9, <1>10

\* A message of the ring, the end of the ring's history, or the end of the turn.
LEMMA WorkerRecvServing ==
    ASSUME ServeInv, NEW w \in Worker, WorkerRecv(w)
    PROVE  Serving'
<1> DEFINE x == workers[w]
           c == x.client
           l == cl[c].level
           p == cl[c].head.pos
           item == rings[l][p]
           end == [NoWork EXCEPT !.cache = x.cache]
<1>1. Serving /\ ClientsInv /\ WorkerOK(x) /\ x.pc = "recv" /\ UNCHANGED <<clients, stopped>>
  BY DEF ServeInv, Serving, WorkersInv, WorkerRecv
<1>2. c \in Client /\ x.prev = NoOne /\ Held(x) = c
  BY <1>1 DEF WorkerOK, Held
<1>3. ClientOK(cl[c]) /\ NoOne \notin Client
  BY <1>1, <1>2, ConstantsAssumption DEF ClientsInv, NoOne
<1>4. ASSUME NEW z, WorkerOK(z), workers' = [workers EXCEPT ![w] = z],
             ClientsInv', \A d \in Client : Follows(cl[d], cl'[d]),
             Held(z) = c \/ (Held(z) = NoOne /\ ~InService(cl'[c]))
      PROVE  Serving'
  <2>1. \A v \in Worker \ {w} : ~Queued(clients', Held(workers[v])) /\ Held(workers[v]) # c
    BY <1>1, <1>2, <1>3 DEF Serving, OnceInv, Queued
  <2>2. clients' \in Seq(Client) /\ ~Queued(clients', NoOne) /\ ~Queued(clients', c)
    BY <1>1, <1>2, <1>3 DEF Serving, OnceInv, WorkersInv, Queued
  <2>3. \A v \in Worker \ {w} : Held(z) # NoOne => Held(workers[v]) # Held(z)
    BY <1>4, <2>1
  <2>4. \A d \in Client : Queued(clients', d) \/ Held(z) = d => Placed(d)
    BY <1>1, <1>2, <1>3, <1>4 DEF Placed, Queued
  <2>5. \A d \in Client : Placed(d) /\ InService(cl'[d]) =>
               \/ Queued(clients', d) \/ Held(z) = d
               \/ \E v \in Worker \ {w} : Held(workers[v]) = d
    BY <1>1, <1>2, <1>4 DEF Placed, Queued
  <2>6. \A i, j \in 1 .. Len(clients') : clients'[i] = clients'[j] => i = j
    BY <1>1 DEF Serving, OnceInv
  <2>7. ~Queued(clients', Held(z)) /\ \A v \in Worker \ {w} : ~Queued(clients', Held(workers[v]))
    BY <1>4, <2>1, <2>2
  <2> QED
    BY <1>1, <1>4, <2>2, <2>3, <2>4, <2>5, <2>6, <2>7, OneWorker
<1>5. ASSUME NEW s \in BOOLEAN, NEW h,
             cl' = [cl EXCEPT ![c] = [(IF s THEN PushMessage(@, item) ELSE @)
                                         EXCEPT !.head = Memory(p + 1)]],
             workers' = [workers EXCEPT ![w].count = @ + 1, ![w].len = IF s THEN @ + 1 ELSE @,
                                        ![w].cache[l] = h]
      PROVE  Serving'
  <2> DEFINE y == [(IF s THEN PushMessage(cl[c], item) ELSE cl[c]) EXCEPT !.head = Memory(p + 1)]
             z == [x EXCEPT !.count = @ + 1, !.len = IF s THEN @ + 1 ELSE @, !.cache[l] = h]
  <2>1. Follows(cl[c], y)
    <3> DEFINE u == IF s THEN PushMessage(cl[c], item) ELSE cl[c]
    <3>1. Follows(cl[c], u)
      BY <1>3, PushMessageKeeps, FollowsSelf
    <3> HIDE DEF u
    <3>2. ClientOK(u)
      BY <3>1 DEF Follows
    <3>3. Follows(u, [u EXCEPT !.head = Memory(p + 1)])
      BY <3>2, FieldsKeep
    <3>4. Follows(cl[c], [u EXCEPT !.head = Memory(p + 1)])
      BY <3>1, <3>3, FollowsTrans
    <3> QED
      BY <3>4 DEF u
  <2>2. cl' = [cl EXCEPT ![c] = y]
    BY <1>5
  <2>3. WorkerOK(z) /\ Held(z) = c
    BY <1>1, <1>2 DEF WorkerOK, Held
  <2>4. workers' = [workers EXCEPT ![w] = z]
    BY <1>5 DEF ServeInv, Serving, WorkersInv
  <2> HIDE DEF y, z
  <2>5. ClientsInv' /\ \A d \in Client : Follows(cl[d], cl'[d])
    BY <1>1, <1>2, <2>1, <2>2, OneClient
  <2> QED
    BY <1>4, <2>3, <2>4, <2>5
<1>6. ASSUME cl' = [cl EXCEPT ![c] = PushError(@)], workers' = [workers EXCEPT ![w] = end]
      PROVE  Serving'
  <2>1. WorkerOK(end) /\ Held(end) = NoOne
    BY DEF WorkerOK, Held, NoWork
  <2>2. cl' = [cl EXCEPT ![c] = PushError(cl[c])]
    BY <1>6
  <2>3. Follows(cl[c], PushError(cl[c])) /\ ~InService(PushError(cl[c]))
    BY <1>3, PushErrorKeeps
  <2>4. ClientsInv' /\ (\A d \in Client : Follows(cl[d], cl'[d])) /\ cl'[c] = PushError(cl[c])
    BY <1>1, <1>2, <2>2, <2>3, OneClient
  <2> HIDE DEF end
  <2> QED
    BY <1>4, <1>6, <2>1, <2>3, <2>4
<1>7. ASSUME UNCHANGED cl, workers' = [workers EXCEPT ![w] = [end EXCEPT !.prev = c]]
      PROVE  Serving'
  <2> DEFINE z == [end EXCEPT !.prev = c]
  <2>1. WorkerOK(z) /\ Held(z) = c
    BY <1>2 DEF WorkerOK, Held, NoWork
  <2>2. workers' = [workers EXCEPT ![w] = z]
    BY <1>7
  <2> HIDE DEF z
  <2>3. ClientsInv' /\ \A d \in Client : Follows(cl[d], cl'[d])
    BY <1>1, <1>7, NoClient
  <2> QED
    BY <1>4, <2>1, <2>2, <2>3
<1>8. \/ \E s \in BOOLEAN : \E h :
           /\ cl' = [cl EXCEPT ![c] = [(IF s THEN PushMessage(@, item) ELSE @)
                                         EXCEPT !.head = Memory(p + 1)]]
           /\ workers' = [workers EXCEPT ![w].count = @ + 1, ![w].len = IF s THEN @ + 1 ELSE @,
                                        ![w].cache[l] = h]
      \/ cl' = [cl EXCEPT ![c] = PushError(@)] /\ workers' = [workers EXCEPT ![w] = end]
      \/ UNCHANGED cl /\ workers' = [workers EXCEPT ![w] = [end EXCEPT !.prev = c]]
  BY DEF WorkerRecv
<1> QED
  BY <1>5, <1>6, <1>7, <1>8

\* At shutdown the workers let go of all clients.
LEMMA WorkerStopServing ==
    ASSUME ServeInv, NEW w \in Worker, WorkerStop(w)
    PROVE  Serving'
<1> DEFINE z == [NoWork EXCEPT !.pc = "ended"]
<1>1. Serving /\ ClientsInv
  BY DEF ServeInv, Serving
<1>2. stopped /\ clients' = <<>> /\ workers' = [workers EXCEPT ![w] = z] /\ UNCHANGED <<cl, stopped>>
  BY DEF WorkerStop
<1>3. WorkerOK(z) /\ Held(z) = NoOne
  BY DEF WorkerOK, Held, NoWork
<1>4. clients' \in Seq(Client) /\ Len(clients') = 0 /\ \A d : ~Queued(clients', d)
  BY <1>2 DEF Queued
<1>5. NoOne \notin Client
  BY ConstantsAssumption DEF NoOne
<1>6. ClientsInv' /\ \A d \in Client : Follows(cl[d], cl'[d])
  BY <1>1, <1>2, NoClient
<1>7. \A i, j \in 1 .. Len(clients') : clients'[i] = clients'[j] => i = j
  BY <1>4
<1>8. \A d \in Client : Queued(clients', d) \/ Held(z) = d => Placed(d)
  BY <1>3, <1>4, <1>5
<1> HIDE DEF z
<1> QED
  BY <1>1, <1>2, <1>3, <1>4, <1>6, <1>7, <1>8, OneWorker

\* The replay threads send records, hand a client over to memory, or end it.
LEMMA ReplayServing ==
    ASSUME ServeInv, NEW t \in Thread, ReplayCheck(t) \/ ReplayPush(t)
    PROVE  Serving'
<1> DEFINE req == threads[t].req
           c == req.client
           next == cl[c].head.pos
           rec == Head(req.msgs)
<1>1. Serving /\ ClientsInv /\ UNCHANGED <<clients, workers, stopped>>
  BY DEF ServeInv, Serving, ReplayCheck, ReplayPush
<1>2. c \in Client
  BY DEF ServeInv, Requests, ThreadsInv, TurnOK, RequestOK, ReplayCheck, ReplayPush
<1>3. ClientOK(cl[c])
  BY <1>1, <1>2 DEF ClientsInv
<1>4. \/ UNCHANGED cl
      \/ cl' = [cl EXCEPT ![c] = Finish(@)]
      \/ cl' = [cl EXCEPT ![c].head = Memory(HeadByReplayIndex(req.level, next))]
      \/ cl' = [cl EXCEPT ![c] =
                   [(IF rec.index = next /\ rec.selected THEN PushMessage(@, rec.index) ELSE @)
                       EXCEPT !.head = Storage(next + 1)]]
  BY DEF ReplayCheck, ReplayPush
<1>5. CASE UNCHANGED cl
  BY <1>1, <1>5, NoClient, SamePlaces
<1>6. CASE cl' = [cl EXCEPT ![c] = Finish(@)]
  <2>1. cl' = [cl EXCEPT ![c] = Finish(cl[c])] /\ Follows(cl[c], Finish(cl[c]))
    BY <1>3, <1>6, PushErrorKeeps
  <2> QED
    BY <1>1, <1>2, <2>1, OneClient, SamePlaces
<1>7. CASE cl' = [cl EXCEPT ![c].head = Memory(HeadByReplayIndex(req.level, next))]
  <2> DEFINE y == [cl[c] EXCEPT !.head = Memory(HeadByReplayIndex(req.level, next))]
  <2>1. cl' = [cl EXCEPT ![c] = y]
    BY <1>1, <1>2, <1>7 DEF ClientsInv
  <2>2. Follows(cl[c], y)
    BY <1>3, FieldsKeep
  <2> HIDE DEF y
  <2> QED
    BY <1>1, <1>2, <2>1, <2>2, OneClient, SamePlaces
<1>8. CASE cl' = [cl EXCEPT ![c] =
                   [(IF rec.index = next /\ rec.selected THEN PushMessage(@, rec.index) ELSE @)
                       EXCEPT !.head = Storage(next + 1)]]
  <2> DEFINE u == IF rec.index = next /\ rec.selected THEN PushMessage(cl[c], rec.index) ELSE cl[c]
             y == [u EXCEPT !.head = Storage(next + 1)]
  <2>1. cl' = [cl EXCEPT ![c] = y]
    BY <1>8
  <2>2. Follows(cl[c], u)
    BY <1>3, PushMessageKeeps, FollowsSelf
  <2> HIDE DEF u
  <2>3. ClientOK(u)
    BY <2>2 DEF Follows
  <2>4. Follows(u, y)
    BY <2>3, FieldsKeep
  <2> HIDE DEF y
  <2>5. Follows(cl[c], y)
    BY <2>2, <2>4, FollowsTrans
  <2> QED
    BY <1>1, <1>2, <2>1, <2>5, OneClient, SamePlaces
<1> QED
  BY <1>4, <1>5, <1>6, <1>7, <1>8

-----------------------------------------------------------------------------
(* Replay requests and threads *)

\* The number of requests in the hands of a thread.
Hand(x) == IF x.req # NoRequest \/ x.prev # NoRequest THEN 1 ELSE 0

LEMMA RequestIsOne ==
    ASSUME NEW r, RequestOK(r)
    PROVE  r # NoRequest /\ r.client \in Client
<1>1. NoRequest.client = NoOne
  BY DEF NoRequest, NewRequest
<1>2. NoOne \notin Client
  BY ConstantsAssumption DEF NoOne
<1>3. r.client \in Client
  BY DEF RequestOK
<1> QED
  BY <1>1, <1>2, <1>3

\* One thread changes, and the queue by what it takes or leaves.
LEMMA OneThread ==
    ASSUME Requests, stopped' = stopped, NEW t \in Thread, NEW z, TurnOK(z),
           threads' = [threads EXCEPT ![t] = z], QueueInv',
           ~stopped => rq'.len + Len(rq.list) + Hand(threads[t]) = rq.len + Len(rq'.list) + Hand(z)
    PROVE  Requests'
<1>1. threads' = [u \in Thread |-> IF u = t THEN z ELSE threads[u]]
  BY DEF Requests, ThreadsInv
<1>2. \A u \in Thread : threads'[u] = IF u = t THEN z ELSE threads[u]
  BY <1>1
<1>3. ThreadsInv'
  <2>1. threads' = [u \in Thread |-> threads'[u]]
    BY <1>1
  <2>2. \A u \in Thread : TurnOK(threads[u])'
    BY <1>2 DEF Requests, ThreadsInv
  <2> QED
    BY <2>1, <2>2 DEF ThreadsInv
<1>4. IsFiniteSet(Busy)
  <2>1. Busy \in SUBSET Thread
    BY DEF Busy
  <2> QED
    BY <2>1, FS_Subset, ConstantsAssumption
<1>5. Cardinality(Busy) \in Nat
  BY <1>4, FS_CardinalityType
<1>6. Cardinality(Busy') + Hand(threads[t]) = Cardinality(Busy) + Hand(z)
  <2>1. t \in Busy <=> Hand(threads[t]) = 1
    BY DEF Busy, Hand
  <2>2. Busy' = IF Hand(z) = 1 THEN Busy \cup {t} ELSE Busy \ {t}
    BY <1>2 DEF Busy, Hand
  <2>3. Hand(z) \in {0, 1} /\ Hand(threads[t]) \in {0, 1}
    BY DEF Hand
  <2>4. /\ Cardinality(Busy \cup {t}) = IF t \in Busy THEN Cardinality(Busy) ELSE Cardinality(Busy) + 1
        /\ Cardinality(Busy \ {t}) = IF t \in Busy THEN Cardinality(Busy) - 1 ELSE Cardinality(Busy)
    BY <1>4, FS_AddElement, FS_RemoveElement
  <2> HIDE DEF Busy, Hand
  <2> QED
    BY <1>5, <2>1, <2>2, <2>3, <2>4
<1>7. AccountInv'
  <2>1. rq.len \in Nat /\ Len(rq.list) \in Nat /\ rq'.len \in Nat /\ Len(rq'.list) \in Nat
    BY DEF Requests, QueueInv
  <2>2. Hand(z) \in {0, 1} /\ Hand(threads[t]) \in {0, 1}
    BY DEF Hand
  <2>3. Cardinality(Busy') \in Int
    <3>1. Busy' \in SUBSET Thread
      BY DEF Busy
    <3> QED
      BY <3>1, FS_Subset, FS_CardinalityType, ConstantsAssumption
  <2>4. ~stopped => rq.len = Len(rq.list) + Cardinality(Busy)
    BY DEF Requests, AccountInv
  <2>5. ASSUME ~stopped PROVE rq'.len = Len(rq'.list) + Cardinality(Busy')
    <3>1. rq'.len + Len(rq.list) + Hand(threads[t]) = rq.len + Len(rq'.list) + Hand(z)
      BY <2>5
    <3>2. rq.len = Len(rq.list) + Cardinality(Busy)
      BY <2>4, <2>5
    <3> DEFINE a == rq'.len
               b == rq.len
               c == Len(rq'.list)
               d == Len(rq.list)
               h == Hand(threads[t])
               k == Hand(z)
               n == Cardinality(Busy)
               m == Cardinality(Busy')
    <3>3. a \in Nat /\ b \in Nat /\ c \in Nat /\ d \in Nat /\ h \in Int /\ k \in Int /\ n \in Nat /\ m \in Int
      BY <1>5, <2>1, <2>2, <2>3
    <3>4. a + d + h = b + c + k /\ b = d + n /\ m + h = n + k
      BY <1>6, <3>1, <3>2
    <3> HIDE DEF a, b, c, d, h, k, n, m
    <3>5. a = c + m
      BY <3>3, <3>4
    <3> QED
      BY <3>5 DEF a, c, m
  <2> QED
    BY <2>5 DEF AccountInv
<1> QED
  BY <1>3, <1>7 DEF Requests

\* Threads and queue are left alone, or the process stops.
LEMMA SameRequests ==
    ASSUME Requests, UNCHANGED <<threads, rq>>, stopped => stopped'
    PROVE  Requests'
  BY DEF Requests, ThreadsInv, QueueInv, AccountInv, Busy

\* There is a request in the queue or in a hand when one is taken into account.
LEMMA CountedRequest ==
    ASSUME Requests, ~stopped, NEW t \in Thread, Hand(threads[t]) = 1
    PROVE  rq.len > 0
<1>1. Busy \in SUBSET Thread /\ t \in Busy
  BY DEF Busy, Hand
<1>2. IsFiniteSet(Busy)
  BY <1>1, FS_Subset, ConstantsAssumption
<1>3. Cardinality(Busy) \in Nat /\ Cardinality(Busy) # 0
  BY <1>1, <1>2, FS_CardinalityType, FS_EmptySet
<1>4. Len(rq.list) \in Nat /\ rq.len \in Nat /\ rq.len = Len(rq.list) + Cardinality(Busy)
  BY DEF Requests, QueueInv, AccountInv
<1> QED
  BY <1>3, <1>4

\* drop_req
LEMMA DropKeeps ==
    ASSUME QueueInv, rq' = DropReq(rq)
    PROVE  /\ QueueInv' /\ rq'.list = rq.list
           /\ rq.len > 0 => rq'.len = rq.len - 1
<1>1. rq.len \in Nat /\ rq.cap \in Nat
  BY ConstantsAssumption DEF QueueInv
<1>2. rq' = [rq EXCEPT !.len = IF rq.len > 0 THEN rq.len - 1 ELSE 0]
  BY DEF DropReq
<1> DEFINE n == IF rq.len > 0 THEN rq.len - 1 ELSE 0
<1>3. n \in Nat /\ n <= rq.len
  BY <1>1
<1> HIDE DEF n
<1>4. rq'.list = rq.list /\ rq'.len = n /\ rq'.cap = rq.cap
  BY <1>2 DEF QueueInv, n
<1>5. rq' \in [cap : {0, InflightMax}, len : Nat, list : Seq(Range(rq.list))]
  BY <1>2, <1>3 DEF QueueInv, n
<1>6. rq'.len <= rq'.cap
  BY <1>1, <1>3, <1>4 DEF QueueInv
<1> QED
  BY <1>4, <1>5, <1>6 DEF QueueInv, n

\* The queue of requests after an update of its list and its length.
LEMMA NewQueue ==
    ASSUME QueueInv, NEW n \in Nat, NEW list, list \in Seq(Range(list)), n <= rq.cap,
           \A k \in 1 .. Len(list) : RequestOK(list[k]),
           rq' = [rq EXCEPT !.len = n, !.list = list]
    PROVE  QueueInv' /\ rq'.len = n /\ rq'.list = list
<1>1. rq'.len = n /\ rq'.list = list /\ rq'.cap = rq.cap
  BY DEF QueueInv
<1>2. rq' \in [cap : {0, InflightMax}, len : Nat, list : Seq(Range(list))]
  BY DEF QueueInv
<1> QED
  BY <1>1, <1>2 DEF QueueInv

\* A filter may add a request, when there is a place for it.
LEMMA SetFilterRequests ==
    ASSUME ServeInv, NEW c \in Client, SetFilter(c)
    PROVE  Requests'
<1> DEFINE r == cl[c].asking
           moves == ~cl[c].filter \/ r.level # cl[c].level \/ r.from # NoSlot
           head == IF moves THEN Locate(r.level, r.from) ELSE cl[c].head
           req == NewRequest(c, cl[c].gen + 1, r.level)
<1>1. Requests /\ QueueInv /\ UNCHANGED <<threads, stopped>>
  BY DEF ServeInv, Requests, SetFilter
<1>2. \/ UNCHANGED rq
      \/ /\ ~QueueFull(rq)
         /\ rq' = [rq EXCEPT !.len = @ + 1, !.list = Append(@, req)]
  <2> HIDE DEF head
  <2>1. SetFilter(c) => \/ UNCHANGED rq
                        \/ /\ moves /\ ~(moves /\ head.at = "storage" /\ QueueFull(rq))
                           /\ rq' = IF head.at # "storage" THEN rq
                                    ELSE [rq EXCEPT !.len = @ + 1, !.list = Append(@, req)]
    BY DEF SetFilter, head
  <2> QED
    BY <2>1
<1>3. CASE UNCHANGED rq
  BY <1>1, <1>3, SameRequests
<1>4. CASE ~QueueFull(rq) /\ rq' = [rq EXCEPT !.len = @ + 1, !.list = Append(@, req)]
  <2> DEFINE n == rq.len + 1
             list == Append(rq.list, req)
  <2>1. rq' = [rq EXCEPT !.len = n, !.list = list]
    BY <1>4
  <2>2. rq.len \in Nat /\ rq.cap \in Nat /\ rq.list \in Seq(Range(rq.list))
    BY <1>1, ConstantsAssumption DEF QueueInv
  <2>3. n \in Nat /\ n <= rq.cap
    BY <1>4, <2>2 DEF QueueFull
  <2>4. list \in Seq(Range(list)) /\ Len(list) = Len(rq.list) + 1
    BY <2>2, RangeSeq
  <2>5. RequestOK(req)
    BY DEF RequestOK, NewRequest
  <2>6. \A k \in 1 .. Len(list) : RequestOK(list[k])
    BY <1>1, <2>2, <2>5 DEF QueueInv
  <2> HIDE DEF n, list
  <2>7. QueueInv' /\ rq'.len = n /\ rq'.list = list
    BY <1>1, <2>1, <2>3, <2>4, <2>6, NewQueue
  <2>8. AccountInv'
    <3>1. Busy' = Busy /\ stopped' = stopped
      BY <1>1 DEF Busy
    <3>2. Cardinality(Busy) \in Nat
      <4>1. Busy \in SUBSET Thread
        BY DEF Busy
      <4> QED
        BY <4>1, FS_Subset, FS_CardinalityType, ConstantsAssumption
    <3>3. Len(rq.list) \in Nat /\ (~stopped => rq.len = Len(rq.list) + Cardinality(Busy))
      BY <1>1, <2>2 DEF Requests, AccountInv
    <3>4. ~stopped => rq'.len = Len(rq'.list) + Cardinality(Busy)
      BY <2>2, <2>4, <2>7, <3>2, <3>3 DEF n
    <3> QED
      BY <3>1, <3>4 DEF AccountInv
  <2>9. ThreadsInv'
    BY <1>1 DEF Requests, ThreadsInv
  <2> QED
    BY <2>7, <2>8, <2>9 DEF Requests
<1> QED
  BY <1>2, <1>3, <1>4

\* The retry of a deferred request is due.
LEMMA RetryDueRequests ==
    ASSUME ServeInv, NEW k, RetryDue(k)
    PROVE  Requests'
<1> DEFINE r == [rq.list[k] EXCEPT !.deferred = FALSE]
           list == [rq.list EXCEPT ![k] = r]
           n == rq.len
<1>1. Requests /\ QueueInv /\ UNCHANGED <<threads, stopped>> /\ k \in DOMAIN rq.list
  BY DEF ServeInv, Requests, RetryDue
<1>2. /\ rq \in [cap : {0, InflightMax}, len : Nat, list : Seq(Range(rq.list))]
      /\ k \in 1 .. Len(rq.list) /\ RequestOK(rq.list[k]) /\ rq.len <= rq.cap
  BY <1>1 DEF QueueInv
<1>3. rq' = [rq EXCEPT !.len = n, !.list = list]
  <2>1. rq' = [rq EXCEPT !.list = list]
    BY <1>2 DEF RetryDue
  <2> HIDE DEF list
  <2> QED
    BY <1>2, <2>1
<1>4. RequestOK(r)
  BY <1>2 DEF RequestOK
<1> HIDE DEF r
<1>5. list \in Seq(Range(rq.list) \cup {r}) /\ Len(list) = Len(rq.list)
  BY <1>2
<1>6. list \in Seq(Range(list))
  BY <1>5, OverRange
<1>7. \A i \in 1 .. Len(list) : RequestOK(list[i])
  BY <1>1, <1>2, <1>4, <1>5 DEF QueueInv
<1>8. n \in Nat /\ n <= rq.cap
  BY <1>2
<1> HIDE DEF list, n
<1>9. QueueInv' /\ rq'.len = n /\ rq'.list = list
  BY <1>1, <1>3, <1>6, <1>7, <1>8, NewQueue
<1>10. AccountInv'
  BY <1>1, <1>5, <1>9 DEF Requests, AccountInv, Busy, n
<1>11. ThreadsInv'
  BY <1>1 DEF Requests, ThreadsInv
<1> QED
  BY <1>9, <1>10, <1>11 DEF Requests

\* A thread without a request, and one that puts its request back at its next turn.
LEMMA Turns ==
    /\ TurnOK(NoTurn) /\ Hand(NoTurn) = 0
    /\ \A r : RequestOK(r) => /\ TurnOK([NoTurn EXCEPT !.prev = r])
                              /\ Hand([NoTurn EXCEPT !.prev = r]) = 1
                              /\ TurnOK([NoTurn EXCEPT !.pc = "check", !.req = r])
                              /\ Hand([NoTurn EXCEPT !.pc = "check", !.req = r]) = 1
<1>1. TurnOK(NoTurn) /\ Hand(NoTurn) = 0
  BY DEF TurnOK, Hand, NoTurn
<1>2. ASSUME NEW r, RequestOK(r)
      PROVE  /\ TurnOK([NoTurn EXCEPT !.prev = r])
             /\ Hand([NoTurn EXCEPT !.prev = r]) = 1
             /\ TurnOK([NoTurn EXCEPT !.pc = "check", !.req = r])
             /\ Hand([NoTurn EXCEPT !.pc = "check", !.req = r]) = 1
  <2>1. r # NoRequest
    BY <1>2, RequestIsOne
  <2>2. NoTurn.req = NoRequest /\ NoTurn.prev = NoRequest
    BY DEF NoTurn
  <2>3. Hand([NoTurn EXCEPT !.prev = r]) = 1 /\ TurnOK([NoTurn EXCEPT !.prev = r])
    BY <1>2, <2>1 DEF TurnOK, Hand, NoTurn
  <2>4. /\ Hand([NoTurn EXCEPT !.pc = "check", !.req = r]) = 1
        /\ TurnOK([NoTurn EXCEPT !.pc = "check", !.req = r])
    BY <1>2, <2>1 DEF TurnOK, Hand, NoTurn
  <2> QED
    BY <2>3, <2>4
<1> QED
  BY <1>1, <1>2

LEMMA Concat ==
    ASSUME NEW S, NEW a \in Seq(S), NEW b \in Seq(S)
    PROVE  /\ a \o b \in Seq(S) /\ Len(a \o b) = Len(a) + Len(b)
           /\ \A i \in 1 .. Len(a) : (a \o b)[i] = a[i]
           /\ \A i \in Len(a) + 1 .. Len(a) + Len(b) : (a \o b)[i] = b[i - Len(a)]
  OBVIOUS

\* a is what follows the k-th of n elements of a list, b what precedes it.
Around(list, n, k, a, b) ==
    /\ Len(a) = n - k /\ \A i \in 1 .. n - k : a[i] = list[k + i]
    /\ Len(b) = k - 1 /\ \A i \in 1 .. k - 1 : b[i] = list[i]

\* q has one element less, and only elements of the list.
Shorter(S, list, n, q) ==
    /\ q \in Seq(S) /\ Len(q) = n - 1
    /\ \A i \in 1 .. n - 1 : \E j \in 1 .. n : q[i] = list[j]

LEMMA Swapped ==
    ASSUME NEW S, NEW list, NEW n \in Nat, NEW k \in 1 .. n, NEW a \in Seq(S), NEW b \in Seq(S),
           Around(list, n, k, a, b)
    PROVE  Shorter(S, list, n, a \o b)
<1> USE DEF Around
<1> DEFINE q == a \o b
<1>1. /\ q \in Seq(S) /\ Len(q) = Len(a) + Len(b)
      /\ \A i \in 1 .. Len(a) : q[i] = a[i]
      /\ \A i \in Len(a) + 1 .. Len(a) + Len(b) : q[i] = b[i - Len(a)]
  BY Concat
<1> HIDE DEF q
<1>2. Len(q) = n - 1
  BY <1>1
<1>3. ASSUME NEW i \in 1 .. n - 1 PROVE \E j \in 1 .. n : q[i] = list[j]
  <2>1. CASE i <= n - k
    <3>1. q[i] = a[i] /\ i \in 1 .. n - k
      BY <1>1, <2>1
    <3>2. k + i \in 1 .. n /\ q[i] = list[k + i]
      BY <3>1
    <3> QED
      BY <3>2
  <2>2. CASE i > n - k
    <3> DEFINE j == i - (n - k)
    <3>1. q[i] = b[j] /\ j \in 1 .. k - 1
      BY <1>1, <2>2
    <3>2. j \in 1 .. n
      BY <3>1
    <3> HIDE DEF j
    <3>3. q[i] = list[j]
      BY <3>1
    <3> QED
      BY <3>2, <3>3
  <2> QED
    BY <2>1, <2>2
<1> QED
  BY <1>1, <1>2, <1>3 DEF q, Shorter

\* A list without its k-th element, turned around at that place.
LEMMA Rotated ==
    ASSUME NEW S, NEW list \in Seq(S), NEW k \in 1 .. Len(list)
    PROVE  Shorter(S, list, Len(list), SubSeq(list, k + 1, Len(list)) \o SubSeq(list, 1, k - 1))
<1> DEFINE a == SubSeq(list, k + 1, Len(list))
           b == SubSeq(list, 1, k - 1)
           n == Len(list)
<1>1. n \in Nat /\ k \in 1 .. n
  OBVIOUS
<1>2. a \in Seq(S) /\ Len(a) = n - k /\ \A i \in 1 .. n - k : a[i] = list[k + i]
  <2>1. Len(a) = n - k /\ a = [i \in 1 .. n - k |-> list[k + i]]
    BY <1>1, SMTT(20)
  <2>2. \A i \in 1 .. n - k : list[k + i] \in S
    BY <1>1
  <2> QED
    BY <1>1, <2>1, <2>2
<1>3. b \in Seq(S) /\ Len(b) = k - 1 /\ \A i \in 1 .. k - 1 : b[i] = list[i]
  BY <1>1
<1> HIDE DEF a, b, n
<1>4. Around(list, n, k, a, b)
  BY <1>2, <1>3 DEF Around
<1>5. Shorter(S, list, n, a \o b)
  BY <1>1, <1>2, <1>3, <1>4, Swapped
<1> QED
  BY <1>5 DEF a, b, n

\* A thread puts its request back and takes the first that is due.
LEMMA ReplayPopRequests ==
    ASSUME ServeInv, NEW t \in Thread, ReplayPop(t)
    PROVE  Requests'
<1> DEFINE prev == threads[t].prev
           list == IF rq.len > 0 /\ prev # NoRequest THEN Append(rq.list, prev) ELSE rq.list
           ready == {k \in DOMAIN list : ~list[k].deferred}
           k == Min(ready)
           q == SubSeq(list, k + 1, Len(list)) \o SubSeq(list, 1, k - 1)
<1>1. Requests /\ QueueInv /\ stopped' = stopped /\ TurnOK(threads[t]) /\ threads[t].pc = "pop"
  BY DEF ServeInv, Requests, ThreadsInv, ReplayPop
<1>2. threads[t].req = NoRequest /\ (prev = NoRequest \/ RequestOK(prev))
  BY <1>1 DEF TurnOK
<1>3. /\ rq \in [cap : {0, InflightMax}, len : Nat, list : Seq(Range(rq.list))]
      /\ rq.len <= rq.cap /\ \A i \in 1 .. Len(rq.list) : RequestOK(rq.list[i])
  BY <1>1 DEF QueueInv
<1>4. /\ list \in Seq(Range(list)) /\ Len(list) \in Nat /\ Len(rq.list) \in Nat
      /\ \A i \in 1 .. Len(list) : RequestOK(list[i])
      /\ rq.len > 0 /\ prev # NoRequest => Len(list) = Len(rq.list) + 1
      /\ ~(rq.len > 0 /\ prev # NoRequest) => Len(list) = Len(rq.list)
  <2>1. CASE rq.len > 0 /\ prev # NoRequest
    <3>1. list = Append(rq.list, prev)
      BY <2>1
    <3>2. Append(rq.list, prev) \in Seq(Range(Append(rq.list, prev)))
      BY <1>3, RangeSeq
    <3>3. RequestOK(prev)
      BY <1>2, <2>1
    <3> HIDE DEF list
    <3> QED
      BY <1>3, <2>1, <3>1, <3>2, <3>3
  <2>2. CASE ~(rq.len > 0 /\ prev # NoRequest)
    <3>1. list = rq.list
      BY <2>2
    <3> HIDE DEF list
    <3> QED
      BY <1>3, <2>2, <3>1
  <2> QED
    BY <2>1, <2>2
<1>5. ~stopped => Len(list) = Len(rq.list) + Hand(threads[t])
  <2>1. CASE prev # NoRequest /\ ~stopped
    <3>1. Hand(threads[t]) = 1
      BY <2>1 DEF Hand
    <3> HIDE DEF list, prev
    <3>2. rq.len > 0
      BY <1>1, <2>1, <3>1, CountedRequest
    <3> QED
      BY <1>4, <2>1, <3>1, <3>2
  <2>2. CASE prev = NoRequest
    <3>1. Hand(threads[t]) = 0
      BY <1>2, <2>2 DEF Hand
    <3> HIDE DEF list, prev
    <3> QED
      BY <1>4, <2>2, <3>1
  <2> QED
    BY <2>1, <2>2
<1>6. \/ /\ ready # {} /\ threads' = [threads EXCEPT ![t] = [NoTurn EXCEPT !.pc = "check", !.req = list[k]]]
         /\ rq' = [rq EXCEPT !.list = q]
      \/ threads' = [threads EXCEPT ![t] = NoTurn] /\ rq' = [rq EXCEPT !.list = list]
  BY DEF ReplayPop
<1> HIDE DEF list, prev
<1>7. ASSUME NEW p, NEW z, rq' = [rq EXCEPT !.list = p], threads' = [threads EXCEPT ![t] = z],
             p \in Seq(Range(p)), \A i \in 1 .. Len(p) : RequestOK(p[i]),
             TurnOK(z), Len(p) + Hand(z) = Len(list)
      PROVE  Requests'
  <2>1. rq' = [rq EXCEPT !.len = rq.len, !.list = p]
    BY <1>3, <1>7
  <2>2. rq.len \in Nat /\ rq.len <= rq.cap
    BY <1>3
  <2>3. QueueInv' /\ rq'.len = rq.len /\ rq'.list = p
    BY <1>1, <1>7, <2>1, <2>2, NewQueue
  <2>4. Hand(z) \in Nat /\ Hand(threads[t]) \in Nat /\ Len(p) \in Nat
    BY <1>7 DEF Hand
  <2>5. ~stopped => rq'.len + Len(rq.list) + Hand(threads[t]) = rq.len + Len(rq'.list) + Hand(z)
    <3> DEFINE a == rq.len
               b == Len(rq.list)
               c == Len(p)
               d == Hand(z)
               h == Hand(threads[t])
               m == Len(list)
    <3>1. a \in Nat /\ b \in Nat /\ c \in Nat /\ d \in Nat /\ h \in Nat /\ m \in Nat
      BY <1>4, <2>2, <2>4
    <3>2. c + d = m /\ (~stopped => m = b + h)
      BY <1>5, <1>7
    <3> HIDE DEF a, b, c, d, h, m
    <3>3. ~stopped => a + b + h = a + c + d
      BY <3>1, <3>2
    <3> QED
      BY <3>3, <2>3 DEF a, b, c, d, h
  <2> QED
    BY <1>1, <1>7, <2>3, <2>5, OneThread
<1>8. CASE /\ ready # {} /\ threads' = [threads EXCEPT ![t] = [NoTurn EXCEPT !.pc = "check", !.req = list[k]]]
           /\ rq' = [rq EXCEPT !.list = q]
  <2>1. ready \subseteq 1 .. Len(list)
    BY <1>4
  <2>2. k \in 1 .. Len(list)
    <3>1. ready \in SUBSET Nat
      BY <2>1, <1>4
    <3> QED
      BY <1>8, <2>1, <3>1, MinOfNats
  <2> HIDE DEF ready, k
  <2> HIDE DEF q
  <2>3. /\ q \in Seq(Range(list)) /\ Len(q) = Len(list) - 1
        /\ \A i \in 1 .. Len(list) - 1 : \E j \in 1 .. Len(list) : q[i] = list[j]
    <3>1. Shorter(Range(list), list, Len(list), q)
      BY <1>4, <2>2, Rotated DEF q
    <3> QED
      BY <3>1 DEF Shorter
  <2>4. q \in Seq(Range(q)) /\ \A i \in 1 .. Len(q) : RequestOK(q[i])
    BY <1>4, <2>3, OverRange
  <2> DEFINE z == [NoTurn EXCEPT !.pc = "check", !.req = list[k]]
  <2>5. RequestOK(list[k])
    BY <1>4, <2>2
  <2>6. TurnOK(z) /\ Hand(z) = 1
    BY <2>5, Turns
  <2>7. threads' = [threads EXCEPT ![t] = z]
    BY <1>8
  <2> HIDE DEF z
  <2>8. Len(q) + Hand(z) = Len(list)
    BY <1>4, <2>3, <2>6
  <2> QED
    BY <1>7, <1>8, <2>4, <2>6, <2>7, <2>8
<1>9. CASE threads' = [threads EXCEPT ![t] = NoTurn] /\ rq' = [rq EXCEPT !.list = list]
  <2>1. TurnOK(NoTurn) /\ Hand(NoTurn) = 0
    BY Turns
  <2>2. Len(list) + Hand(NoTurn) = Len(list)
    BY <1>4, <2>1
  <2> QED
    BY <1>4, <1>7, <1>9, <2>1, <2>2
<1> QED
  BY <1>6, <1>8, <1>9

\* A thread whose request is done drops it.
LEMMA DropTurn ==
    ASSUME ServeInv, NEW t \in Thread, threads[t].pc \in {"check", "push", "read"},
           threads' = [threads EXCEPT ![t] = NoTurn], rq' = DropReq(rq), stopped' = stopped
    PROVE  Requests'
<1>1. Requests /\ QueueInv /\ TurnOK(threads[t])
  BY DEF ServeInv, Requests, ThreadsInv
<1>2. RequestOK(threads[t].req)
  BY <1>1 DEF TurnOK
<1>3. Hand(threads[t]) = 1
  BY <1>2, RequestIsOne DEF Hand
<1>4. QueueInv' /\ rq'.list = rq.list /\ (rq.len > 0 => rq'.len = rq.len - 1)
  BY <1>1, DropKeeps
<1>5. TurnOK(NoTurn) /\ Hand(NoTurn) = 0
  BY Turns
<1>6. ~stopped => rq.len > 0
  BY <1>1, <1>3, CountedRequest
<1>7. rq.len \in Nat /\ Len(rq.list) \in Nat
  BY <1>1 DEF QueueInv
<1>8. ~stopped => rq'.len + Len(rq.list) + 1 = rq.len + Len(rq'.list) + 0
  BY <1>4, <1>6, <1>7
<1> QED
  BY <1>1, <1>3, <1>4, <1>5, <1>8, OneThread

\* A thread keeps its request, or puts it back.
LEMMA KeepTurn ==
    ASSUME ServeInv, NEW t \in Thread, threads[t].pc \in {"check", "push", "read"}, NEW z,
           TurnOK(z), Hand(z) = 1, threads' = [threads EXCEPT ![t] = z],
           UNCHANGED <<rq, stopped>>
    PROVE  Requests'
<1>1. Requests /\ QueueInv /\ TurnOK(threads[t])
  BY DEF ServeInv, Requests, ThreadsInv
<1>2. RequestOK(threads[t].req)
  BY <1>1 DEF TurnOK
<1>3. Hand(threads[t]) = 1
  BY <1>2, RequestIsOne DEF Hand
<1>4. QueueInv'
  BY <1>1 DEF QueueInv
<1>5. ~stopped => rq'.len + Len(rq.list) + 1 = rq.len + Len(rq'.list) + 1
  <2>1. rq.len \in Nat /\ Len(rq.list) \in Nat
    BY <1>1 DEF QueueInv
  <2> QED
    BY <2>1
<1> QED
  BY <1>1, <1>3, <1>4, <1>5, OneThread

\* What a turn does to its request keeps the client of it.
LEMMA RequestKept ==
    ASSUME NEW r, RequestOK(r), NEW a, NEW b, NEW d, NEW e
    PROVE  /\ RequestOK([r EXCEPT !.deferred = a])
           /\ RequestOK([r EXCEPT !.reader = a])
           /\ RequestOK([r EXCEPT !.error = a])
           /\ RequestOK([r EXCEPT !.msgs = a, !.error = b])
           /\ RequestOK([r EXCEPT !.msgs = a, !.error = b, !.cursor = d])
           /\ RequestOK([r EXCEPT !.cursor = a, !.last = b, !.reader = d])
  BY DEF RequestOK

\* A turn that goes on with its request.
LEMMA TurnKept ==
    ASSUME NEW x, TurnOK(x), x.pc \in {"check", "push", "read"}, NEW y,
           y \in [pc : {"check", "push", "read"}, req : {y.req}, prev : {x.prev},
                  count : {y.count}, from : {y.from}, level : {y.level}],
           RequestOK(y.req)
    PROVE  TurnOK(y) /\ Hand(y) = 1
<1>1. x.prev = NoRequest
  BY DEF TurnOK
<1>2. y.req # NoRequest
  BY RequestIsOne
<1> QED
  BY <1>1, <1>2 DEF TurnOK, Hand

LEMMA ReplayCheckRequests ==
    ASSUME ServeInv, NEW t \in Thread, ReplayCheck(t)
    PROVE  Requests'
<1>1. /\ threads[t].pc = "check" /\ stopped' = stopped /\ TurnOK(threads[t])
      /\ threads = [u \in Thread |-> threads[u]]
  BY DEF ReplayCheck, ServeInv, Requests, ThreadsInv
<1>2. CASE threads' = [threads EXCEPT ![t] = NoTurn] /\ rq' = DropReq(rq)
  BY <1>1, <1>2, DropTurn
<1>3. CASE threads' = [threads EXCEPT ![t].pc = "push"] /\ UNCHANGED rq
  <2> DEFINE z == [threads[t] EXCEPT !.pc = "push"]
  <2>1. threads' = [threads EXCEPT ![t] = z]
    BY <1>1, <1>3
  <2>2. RequestOK(threads[t].req)
    BY <1>1 DEF TurnOK
  <2>3. /\ z \in [pc : {"check", "push", "read"}, req : {z.req}, prev : {threads[t].prev},
                   count : {z.count}, from : {z.from}, level : {z.level}]
        /\ z.req = threads[t].req
    BY <1>1 DEF TurnOK
  <2> HIDE DEF z
  <2>4. TurnOK(z) /\ Hand(z) = 1
    BY <1>1, <2>2, <2>3, TurnKept
  <2> QED
    BY <1>1, <1>3, <2>1, <2>4, KeepTurn
<1> QED
  BY <1>2, <1>3 DEF ReplayCheck

LEMMA ReplayPushRequests ==
    ASSUME ServeInv, NEW t \in Thread, ReplayPush(t)
    PROVE  Requests'
<1> DEFINE req == threads[t].req
           c == req.client
           next == cl[c].head.pos
           rec == Head(req.msgs)
           more == [threads[t] EXCEPT !.pc = "read", !.count = DecodePerTick,
                                      !.from = cl[c].from, !.level = cl[c].level,
                                      !.req.reader = IF req.reader = 0 THEN next ELSE req.reader]
           back == [NoTurn EXCEPT !.prev = [req EXCEPT !.deferred = TRUE]]
<1>1. /\ threads[t].pc = "push" /\ stopped' = stopped /\ TurnOK(threads[t]) /\ RequestOK(req)
      /\ threads = [u \in Thread |-> threads[u]]
  BY DEF ReplayPush, ServeInv, Requests, ThreadsInv, TurnOK
<1>2. \/ /\ threads' = [threads EXCEPT ![t].req.msgs = Tail(@), ![t].req.error = rec.index # next]
         /\ UNCHANGED rq
      \/ threads' = [threads EXCEPT ![t] = NoTurn] /\ rq' = DropReq(rq)
      \/ threads' = [threads EXCEPT ![t] = more] /\ UNCHANGED rq
      \/ threads' = [threads EXCEPT ![t] = back] /\ UNCHANGED rq
  BY DEF ReplayPush
<1>3. CASE /\ threads' = [threads EXCEPT ![t].req.msgs = Tail(@), ![t].req.error = rec.index # next]
           /\ UNCHANGED rq
  <2> DEFINE m == Tail(req.msgs)
             e == rec.index # next
             r == [req EXCEPT !.msgs = m, !.error = e]
             z == [threads[t] EXCEPT !.req = r]
  <2>1. threads' = [threads EXCEPT ![t] = z]
    BY <1>1, <1>3 DEF TurnOK
  <2>2. RequestOK(r)
    BY <1>1, RequestKept
  <2> HIDE DEF r
  <2>3. /\ z \in [pc : {"check", "push", "read"}, req : {z.req}, prev : {threads[t].prev},
                   count : {z.count}, from : {z.from}, level : {z.level}]
        /\ z.req = r
    BY <1>1 DEF TurnOK
  <2> HIDE DEF z
  <2>4. TurnOK(z) /\ Hand(z) = 1
    BY <1>1, <2>2, <2>3, TurnKept
  <2> QED
    BY <1>1, <1>3, <2>1, <2>4, KeepTurn
<1>4. CASE threads' = [threads EXCEPT ![t] = NoTurn] /\ rq' = DropReq(rq)
  BY <1>1, <1>4, DropTurn
<1>5. CASE threads' = [threads EXCEPT ![t] = more] /\ UNCHANGED rq
  <2> DEFINE r == [req EXCEPT !.reader = IF req.reader = 0 THEN next ELSE req.reader]
  <2>1. RequestOK(r)
    BY <1>1, RequestKept
  <2>2. more = [threads[t] EXCEPT !.pc = "read", !.count = DecodePerTick,
                                  !.from = cl[c].from, !.level = cl[c].level, !.req = r]
    BY <1>1 DEF TurnOK
  <2> HIDE DEF r, more
  <2>3. /\ more \in [pc : {"check", "push", "read"}, req : {more.req}, prev : {threads[t].prev},
                      count : {more.count}, from : {more.from}, level : {more.level}]
        /\ more.req = r
    BY <1>1, <2>2 DEF TurnOK
  <2>4. TurnOK(more) /\ Hand(more) = 1
    BY <1>1, <2>1, <2>3, TurnKept
  <2> QED
    BY <1>1, <1>5, <2>4, KeepTurn
<1>6. CASE threads' = [threads EXCEPT ![t] = back] /\ UNCHANGED rq
  <2>1. RequestOK([req EXCEPT !.deferred = TRUE])
    BY <1>1, RequestKept
  <2>2. TurnOK(back) /\ Hand(back) = 1
    BY <2>1, Turns
  <2> HIDE DEF back
  <2> QED
    BY <1>1, <1>6, <2>2, KeepTurn
<1> QED
  BY <1>2, <1>3, <1>4, <1>5, <1>6

LEMMA ReplayReadRequests ==
    ASSUME ServeInv, NEW t \in Thread, ReplayRead(t)
    PROVE  Requests'
<1> DEFINE req == threads[t].req
           goes(r, n) == [threads[t] EXCEPT !.req = r, !.count = n]
           back(r, b) == [NoTurn EXCEPT !.prev = [r EXCEPT !.deferred = b]]
<1>1. /\ threads[t].pc = "read" /\ UNCHANGED <<stopped, rq>> /\ TurnOK(threads[t]) /\ RequestOK(req)
      /\ threads = [u \in Thread |-> threads[u]]
  BY DEF ReplayRead, ServeInv, Requests, ThreadsInv, TurnOK
<1>2. ASSUME NEW r, RequestOK(r), NEW n,
             threads' = [threads EXCEPT ![t] = IF n > 0 /\ ~r.error
                            THEN [@ EXCEPT !.req = r, !.count = n]
                            ELSE [NoTurn EXCEPT !.prev = [r EXCEPT !.deferred = r.msgs = <<>>]]]
      PROVE  Requests'
  <2> DEFINE z == IF n > 0 /\ ~r.error THEN goes(r, n) ELSE back(r, r.msgs = <<>>)
  <2>1. threads' = [threads EXCEPT ![t] = z]
    BY <1>2
  <2>2. TurnOK(goes(r, n)) /\ Hand(goes(r, n)) = 1
    <3> DEFINE y == goes(r, n)
    <3>1. /\ y \in [pc : {"check", "push", "read"}, req : {y.req}, prev : {threads[t].prev},
                     count : {y.count}, from : {y.from}, level : {y.level}]
          /\ y.req = r
      BY <1>1 DEF TurnOK
    <3> HIDE DEF y
    <3>2. TurnOK(y) /\ Hand(y) = 1
      BY <1>1, <1>2, <3>1, TurnKept
    <3> QED
      BY <3>2 DEF y
  <2>3. TurnOK(back(r, r.msgs = <<>>)) /\ Hand(back(r, r.msgs = <<>>)) = 1
    <3>1. RequestOK([r EXCEPT !.deferred = r.msgs = <<>>])
      BY <1>2, RequestKept
    <3> QED
      BY <3>1, Turns
  <2> HIDE DEF goes, back
  <2>4. TurnOK(z) /\ Hand(z) = 1
    BY <2>2, <2>3
  <2> HIDE DEF z
  <2> QED
    BY <1>1, <2>1, <2>4, KeepTurn
<1>3. \E r, n : /\ RequestOK(r)
                /\ threads' = [threads EXCEPT ![t] = IF n > 0 /\ ~r.error
                            THEN [@ EXCEPT !.req = r, !.count = n]
                            ELSE [NoTurn EXCEPT !.prev = [r EXCEPT !.deferred = r.msgs = <<>>]]]
  <2> DEFINE scan == Scan(req.cursor, threads[t].level, threads[t].from)
             load == LoadNext(req.reader)
             r1 == [req EXCEPT !.msgs = IF scan.error THEN @ ELSE Append(@, scan.record),
                               !.error = scan.error,
                               !.cursor = IF @ < req.last /\ ~scan.error THEN @ + 1 ELSE 0]
             r2 == [req EXCEPT !.cursor = load.cursor, !.last = load.last, !.reader = load.last + 1]
             r3 == [req EXCEPT !.error = TRUE]
             Go(r, n) == threads' = [threads EXCEPT ![t] = IF n > 0 /\ ~r.error
                            THEN [@ EXCEPT !.req = r, !.count = n]
                            ELSE [NoTurn EXCEPT !.prev = [r EXCEPT !.deferred = r.msgs = <<>>]]]
  <2>1. \/ Go(r1, threads[t].count - 1) \/ Go(r2, threads[t].count) \/ Go(r3, 0) \/ Go(req, 0)
    BY DEF ReplayRead
  <2>2. RequestOK(r1)
    <3> DEFINE m == IF scan.error THEN req.msgs ELSE Append(req.msgs, scan.record)
               k == IF req.cursor < req.last /\ ~scan.error THEN req.cursor + 1 ELSE 0
    <3>1. r1 = [req EXCEPT !.msgs = m, !.error = scan.error, !.cursor = k]
      OBVIOUS
    <3> HIDE DEF m, k, scan, r1
    <3> QED
      BY <1>1, <3>1, RequestKept
  <2>3. RequestOK(r2)
    <3> HIDE DEF load
    <3> QED
      BY <1>1, RequestKept
  <2>4. RequestOK(r3) /\ RequestOK(req)
    BY <1>1, RequestKept
  <2> HIDE DEF r1, r2, r3
  <2> QED
    BY <2>1, <2>2, <2>3, <2>4
<1> QED
  BY <1>2, <1>3

\* At shutdown a thread lets go of its request and empties the queue.
LEMMA ThreadStopRequests ==
    ASSUME ServeInv, NEW t \in Thread, ThreadStop(t)
    PROVE  Requests'
<1> DEFINE z == [NoTurn EXCEPT !.pc = "ended"]
<1>1. Requests /\ stopped /\ stopped' = stopped /\ threads' = [threads EXCEPT ![t] = z]
  BY DEF ServeInv, ThreadStop
<1>2. TurnOK(z)
  BY DEF TurnOK, NoTurn
<1>3. QueueInv'
  <2>1. rq' = [cap |-> 0, len |-> 0, list |-> <<>>]
    BY DEF ThreadStop
  <2> QED
    BY <2>1 DEF QueueInv
<1> HIDE DEF z
<1> QED
  BY <1>1, <1>2, <1>3, OneThread

-----------------------------------------------------------------------------
(* The invariant is inductive *)

LEMMA InitServe == Init => ServeInv
<1> SUFFICES ASSUME Init PROVE ServeInv
  OBVIOUS
<1>1. env \in Scenarios /\ frames \in Nat /\ stopped \in BOOLEAN
  BY DEF Init
<1>2. ClientOK(NewClient) /\ NewClient.stream = "none" /\ ~InService(NewClient)
  <2>1. ClientState(NewClient)
    <3>1. <<>> \in Seq(Range(<<>>))
      OBVIOUS
    <3> QED
      BY <3>1 DEF ClientState, NewClient, Unknown
  <2>2. NewClient.messages = <<>> /\ NewClient.len = 0 /\ NewClient.stream = "none"
    BY DEF NewClient
  <2> QED
    BY <2>1, <2>2 DEF ClientOK, LenOK, InService
<1>3. \A c \in Client : cl[c] = NewClient
  BY DEF Init
<1>4. ClientsInv
  BY <1>2, <1>3 DEF Init, ClientsInv
<1>5. \A w \in Worker : WorkerOK(workers[w]) /\ Held(workers[w]) = NoOne
  <2>1. WorkerOK(NoWork) /\ Held(NoWork) = NoOne
    BY DEF WorkerOK, Held, NoWork
  <2> QED
    BY <2>1 DEF Init
<1>6. clients \in Seq(Client) /\ Len(clients) = 0
  BY DEF Init
<1>7. WorkersInv /\ OnceInv
  BY <1>5, <1>6 DEF Init, WorkersInv, OnceInv
<1>8. PlacedInv
  <2>1. NoOne \notin Client
    BY ConstantsAssumption DEF NoOne
  <2> QED
    BY <1>2, <1>3, <1>5, <1>6, <2>1 DEF PlacedInv, Placed
<1>9. \A t \in Thread : threads[t] = NoTurn
  BY DEF Init
<1>10. ThreadsInv
  BY <1>9, Turns DEF Init, ThreadsInv
<1>11. rq = [cap |-> InflightMax, len |-> 0, list |-> <<>>]
  BY DEF Init
<1>12. QueueInv
  BY <1>11, ConstantsAssumption DEF QueueInv
<1>13. AccountInv
  <2>1. Busy = {}
    BY <1>9 DEF Busy, NoTurn
  <2> QED
    BY <1>11, <2>1, FS_EmptySet DEF AccountInv
<1> QED
  BY <1>1, <1>4, <1>7, <1>8, <1>10, <1>12, <1>13 DEF ServeInv, Serving, Requests

\* Every step keeps the invariant.
LEMMA NextServe == ServeInv /\ [Next]_vars => ServeInv'
<1> SUFFICES ASSUME ServeInv, [Next]_vars PROVE ServeInv'
  OBVIOUS
<1>1. Serving /\ Requests /\ env \in Scenarios /\ frames \in Nat /\ stopped \in BOOLEAN
  BY DEF ServeInv
<1>2. env.workers \subseteq Worker /\ env.threads \subseteq Thread
  BY <1>1, ConstantsAssumption
<1>3. CASE UNCHANGED vars
  <2>1. UNCHANGED <<env, frames, stopped, cl, clients, workers, threads, rq>>
    BY <1>3 DEF vars
  <2> QED
    BY <1>1, <2>1, ShutdownServing, SameRequests DEF ServeInv
<1>4. CASE Publish \/ Flush \/ Prune \/ BeginLiveEpoch \/ Shutdown \/ BlockMetaStep
  <2>1. UNCHANGED <<env, frames, cl, clients, workers, threads, rq>>
    BY <1>4 DEF Publish, Flush, Prune, BeginLiveEpoch, Shutdown, BlockMetaStep, BlockMetaRead, BlockMetaHandle
  <2>2. stopped' \in BOOLEAN /\ (stopped => stopped')
    BY <1>1, <1>4 DEF Publish, Flush, Prune, BeginLiveEpoch, Shutdown, BlockMetaStep, BlockMetaRead, BlockMetaHandle
  <2> QED
    BY <1>1, <2>1, <2>2, ShutdownServing, SameRequests DEF ServeInv
<1>5. ASSUME NEW c \in Client,
             \/ Subscribe(c) \/ Call(c) \/ DropStream(c) \/ PingTick(c)
             \/ \E r \in env.asks : ReadRequest(c, r)
      PROVE  ServeInv'
  <2>1. env' = env /\ stopped' = stopped /\ frames' \in {frames, frames + 1}
    BY <1>5 DEF Subscribe, Call, SetFilter, Poll, CallStop, DropStream, PingTick, ReadRequest
  <2>2. Serving'
    BY <1>5, SubscribeServing, SetFilterServing, PollServing, CallServing, DropStreamServing DEF Call
  <2>3. Requests'
    <3>1. CASE SetFilter(c)
      BY <3>1, SetFilterRequests
    <3>2. CASE ~SetFilter(c)
      <4>1. UNCHANGED <<threads, rq>>
        BY <1>5, <3>2 DEF Subscribe, Call, Poll, CallStop, DropStream, PingTick, ReadRequest
      <4> QED
        BY <1>1, <2>1, <4>1, SameRequests
    <3> QED
      BY <3>1, <3>2
  <2>4. frames' \in Nat
    BY <1>1, <2>1
  <2> QED
    BY <1>1, <2>1, <2>2, <2>3, <2>4 DEF ServeInv
<1>6. ASSUME NEW w \in Worker, Serve(w) PROVE ServeInv'
  <2>1. UNCHANGED <<env, frames, stopped, threads, rq>>
    BY <1>6 DEF Serve, WorkerTake, WorkerRecv, WorkerStop
  <2>2. Serving'
    BY <1>6, WorkerTakeServing, WorkerRecvServing, WorkerStopServing DEF Serve
  <2>3. Requests'
    BY <1>1, <2>1, SameRequests
  <2> QED
    BY <1>1, <2>1, <2>2, <2>3 DEF ServeInv
<1>7. ASSUME NEW t \in Thread, Replay(t) PROVE ServeInv'
  <2>1. UNCHANGED <<env, frames, stopped, clients, workers>>
    BY <1>7 DEF Replay, ReplayPop, ReplayCheck, ReplayPush, ReplayRead, ThreadStop
  <2>2. Serving'
    <3>1. CASE ReplayCheck(t) \/ ReplayPush(t)
      BY <3>1, ReplayServing
    <3>2. CASE ReplayPop(t) \/ ReplayRead(t) \/ ThreadStop(t)
      <4>1. UNCHANGED cl
        BY <3>2 DEF ReplayPop, ReplayRead, ThreadStop
      <4> QED
        BY <1>1, <2>1, <4>1, ShutdownServing
    <3> QED
      BY <1>7, <3>1, <3>2 DEF Replay
  <2>3. Requests'
    BY <1>7, ReplayPopRequests, ReplayCheckRequests, ReplayPushRequests, ReplayReadRequests,
       ThreadStopRequests DEF Replay
  <2> QED
    BY <1>1, <2>1, <2>2, <2>3 DEF ServeInv
<1>8. ASSUME NEW k, RetryDue(k) PROVE ServeInv'
  <2>1. UNCHANGED <<env, frames, stopped, cl, clients, workers>>
    BY <1>8 DEF RetryDue
  <2>2. Serving' /\ Requests'
    BY <1>1, <1>8, <2>1, ShutdownServing, RetryDueRequests
  <2> QED
    BY <1>1, <2>1, <2>2 DEF ServeInv
<1> QED
  BY <1>2, <1>3, <1>4, <1>5, <1>6, <1>7, <1>8 DEF Next

-----------------------------------------------------------------------------
(* What the invariant says *)

LEMMA ServeTypes == ServeInv => TypeOK
<1> SUFFICES ASSUME ServeInv PROVE TypeOK
  OBVIOUS
<1>1. /\ frames \in Nat /\ stopped \in BOOLEAN /\ ClientsInv /\ WorkersInv /\ ThreadsInv /\ QueueInv
  BY DEF ServeInv, Serving, Requests
<1>2. rq.len \in 0 .. InflightMax
  <2>1. rq.len \in Nat /\ rq.cap \in {0, InflightMax} /\ rq.len <= rq.cap
    BY <1>1 DEF QueueInv
  <2> QED
    BY <2>1, ConstantsAssumption
<1>3. \A c \in Client : /\ cl[c].stream \in {"none", "open", "finished", "dropped"}
                        /\ cl[c].head.at \in {"unknown", "memory", "storage"}
                        /\ cl[c].len \in Nat
  BY <1>1 DEF ClientsInv, ClientOK, ClientState
<1>4. \A w \in Worker : workers[w].pc \in {"pop", "recv", "ended"}
  BY <1>1 DEF WorkersInv, WorkerOK
<1>5. \A t \in Thread : threads[t].pc \in {"pop", "check", "push", "read", "ended"}
  BY <1>1 DEF ThreadsInv, TurnOK
<1>6. Range(clients) \subseteq Client
  BY <1>1 DEF WorkersInv, Range
<1> QED
  BY <1>1, <1>2, <1>3, <1>4, <1>5, <1>6 DEF TypeOK

\* A thread has a request in one hand at most.
LEMMA ServeAccounts == ServeInv => RequestsAccounted
<1> SUFFICES ASSUME ServeInv, ~stopped PROVE RequestsAccounted
  BY DEF RequestsAccounted
<1> DEFINE A == {t \in Thread : threads[t].req # NoRequest}
           B == {t \in Thread : threads[t].prev # NoRequest}
<1>1. ThreadsInv /\ QueueInv /\ rq.len = Len(rq.list) + Cardinality(Busy)
  BY DEF ServeInv, Requests, AccountInv
<1>2. A \cap B = {}
  BY <1>1 DEF ThreadsInv, TurnOK
<1>3. Busy = A \cup B
  BY DEF Busy
<1>4. IsFiniteSet(A) /\ IsFiniteSet(B)
  <2>1. A \subseteq Thread /\ B \subseteq Thread
    OBVIOUS
  <2> HIDE DEF A, B
  <2> QED
    BY <2>1, FS_Subset, ConstantsAssumption
<1>5. Cardinality(Busy) = Cardinality(A) + Cardinality(B)
  <2> HIDE DEF A, B
  <2>1. Cardinality(Busy) = Cardinality(A) + Cardinality(B) - Cardinality(A \cap B)
    BY <1>3, <1>4, FS_Union
  <2>2. Cardinality(A \cap B) = 0
    BY <1>2, FS_EmptySet
  <2>3. Cardinality(A) \in Nat /\ Cardinality(B) \in Nat
    BY <1>4, FS_CardinalityType
  <2> QED
    BY <2>1, <2>2, <2>3
<1>6. Len(rq.list) \in Nat
  BY <1>1 DEF QueueInv
<1>7. Cardinality(A) \in Nat /\ Cardinality(B) \in Nat
  BY <1>4, FS_CardinalityType
<1> DEFINE l == Len(rq.list)
           a == Cardinality(A)
           b == Cardinality(B)
<1>8. rq.len = l + a + b
  <2>1. rq.len = l + (a + b) /\ l \in Nat /\ a \in Nat /\ b \in Nat
    BY <1>1, <1>5, <1>6, <1>7
  <2> HIDE DEF l, a, b
  <2> QED
    BY <2>1
<1> QED
  BY <1>8 DEF RequestsAccounted

\* The size of a set of which the elements are equal.
LEMMA AtMostOne ==
    ASSUME NEW S, \A x, y \in S : x = y
    PROVE  Cardinality(S) = IF S = {} THEN 0 ELSE 1
<1>1. CASE S = {}
  BY <1>1, FS_EmptySet
<1>2. CASE S # {}
  <2>1. PICK x \in S : S = {x}
    BY <1>2
  <2> QED
    BY <2>1, <1>2, FS_Singleton
<1> QED
  BY <1>1, <1>2

LEMMA ServeOnce == ServeInv => ServedOnce
<1> SUFFICES ASSUME ServeInv, ~stopped, NEW c \in Client
             PROVE  LET places == Cardinality({k \in DOMAIN clients : clients[k] = c})
                                  + Cardinality({w \in Worker : workers[w].prev = c})
                                  + Cardinality({w \in Worker : workers[w].pc = "recv" /\ workers[w].client = c})
                    IN  places <= 1 /\ (Alive(c) => places = 1)
  BY DEF ServedOnce
<1> DEFINE Q == {k \in DOMAIN clients : clients[k] = c}
           P == {w \in Worker : workers[w].prev = c}
           R == {w \in Worker : workers[w].pc = "recv" /\ workers[w].client = c}
<1>1. ClientsInv /\ WorkersInv /\ OnceInv /\ PlacedInv
  BY DEF ServeInv, Serving
<1>2. c # NoOne
  BY ConstantsAssumption DEF NoOne
<1>3. \A k \in Q : k \in 1 .. Len(clients) /\ clients[k] = c
  BY <1>1 DEF WorkersInv
<1>4. \A w \in P : w \in Worker /\ workers[w].pc # "recv" /\ Held(workers[w]) = c
  BY <1>1, <1>2 DEF WorkersInv, WorkerOK, Held
<1>5. \A w \in R : w \in Worker /\ workers[w].pc = "recv" /\ Held(workers[w]) = c
  BY DEF Held
<1>6. Placed(c) => Q # {} \/ P # {} \/ R # {}
  <2>1. ASSUME NEW i \in 1 .. Len(clients), clients[i] = c PROVE i \in Q
    BY <1>1, <2>1 DEF WorkersInv
  <2>2. ASSUME NEW w \in Worker, Held(workers[w]) = c PROVE w \in P \/ w \in R
    BY <2>2 DEF Held
  <2> QED
    BY <2>1, <2>2 DEF Placed
<1>7. Alive(c) => InService(cl[c])
  <2>1. Len(cl[c].messages) \in Nat /\ DOMAIN cl[c].messages = 1 .. Len(cl[c].messages)
    BY <1>1 DEF ClientsInv, ClientOK, ClientState
  <2> QED
    BY <2>1 DEF Alive, InService, Range
<1>8. Alive(c) => Q # {} \/ P # {} \/ R # {}
  BY <1>1, <1>6, <1>7 DEF PlacedInv
<1> HIDE DEF Q, P, R
<1>9. \A x, y \in Q : x = y
  BY <1>1, <1>3 DEF OnceInv
<1>10. (\A x, y \in P : x = y) /\ (\A x, y \in R : x = y)
  BY <1>1, <1>2, <1>4, <1>5 DEF OnceInv
<1>11. (Q = {} \/ P = {}) /\ (Q = {} \/ R = {}) /\ (P = {} \/ R = {})
  <2>1. Q # {} => P = {} /\ R = {}
    BY <1>1, <1>3, <1>4, <1>5 DEF OnceInv
  <2>2. P # {} => R = {}
    BY <1>1, <1>2, <1>4, <1>5 DEF OnceInv
  <2> QED
    BY <2>1, <2>2
<1> DEFINE q == Cardinality(Q)
           p == Cardinality(P)
           r == Cardinality(R)
<1>12. /\ q = IF Q = {} THEN 0 ELSE 1
       /\ p = IF P = {} THEN 0 ELSE 1
       /\ r = IF R = {} THEN 0 ELSE 1
  BY <1>9, <1>10, AtMostOne
<1>13. q + p + r <= 1 /\ (Alive(c) => q + p + r = 1)
  <2> HIDE DEF q, p, r
  <2> QED
    BY <1>8, <1>11, <1>12
<1> QED
  BY <1>13 DEF Q, P, R

-----------------------------------------------------------------------------
(* The theorems *)

\* Every client to be served is in the queue of the workers or in the hands of one, and
\* every replay request in the replay queue or in the hands of a thread, with the place
\* it takes, in every reachable state of the server.
THEOREM ServeInvariant == Spec => []ServeInv
<1>1. Init => ServeInv
  BY InitServe
<1>2. ServeInv /\ [Next]_vars => ServeInv'
  BY NextServe
<1> QED
  BY <1>1, <1>2, PTL DEF Spec

\* Clients and replay requests are each in exactly one place (grpc/server.rs, the workers
\* and the subscribe queue; storage/mod.rs, the replay queue and its threads): a client
\* that is alive is never forgotten and never served by two workers at a time, and no
\* place of the replay queue leaks, for every number of clients, workers and threads.
THEOREM ServiceIsAccounted == Spec => []ServiceInv
<1>1. ServeInv => ServiceInv
  BY ServeTypes, ServeAccounts, ServeOnce DEF ServiceInv
<1> QED
  BY <1>1, ServeInvariant, PTL
=============================================================================
