------------------------ MODULE QuicTransportProofs ------------------------
(***************************************************************************)
(* For every number of streams, backlog and length of the subscription:    *)
(* the send loop keeps its streams apart, respects max_backlog and never   *)
(* runs out of branches (SendLoopInv); the client gives the messages in    *)
(* order and exactly once (InOrder); and a client that sleeps misses       *)
(* nothing it could give (NoLostWakeup).                                   *)
(*                                                                         *)
(* The inductive invariant follows a message from the send loop to the     *)
(* caller: its body is its number, it is in one place at a time, and the   *)
(* ids on one stream grow.  That is why a reader that gave a message out   *)
(* of turn needs no waker: what is behind it is later still.               *)
(***************************************************************************)
EXTENDS QuicTransport, RingLemmas, SequenceTheorems

\* Frames: the body of a message is its number in the subscription, from 1.
Frame ==
    {f \in [kind : {"message", "close", "fin"}, id : Int,
            body : Nat \cup {"none", "Lagged", "Closed"}] :
        IF f.kind = "message" THEN f.id \in Nat /\ f.body = f.id + 1 ELSE f.id = -1}
MessageFrames == {f \in Frame : f.kind = "message"}
Task == [stream : Streams, id : Nat, frame : Frame, state : {"writing", "written", "failed"}]
Loop == [next_message : Nat, msg_id : Nat, msg_ids : SUBSET Nat,
         streams : Seq(Streams), set : SUBSET Task]

\* The send loop l of a connection with n streams and max_backlog b: each stream
\* is free or owned by one write, msg_ids are the ids being written and none of
\* them is more than b ids behind.
FreeStreams(l) ==
    /\ \A i, j \in 1 .. Len(l.streams) : l.streams[i] = l.streams[j] => i = j
    /\ \A t, u \in l.set : t.stream = u.stream => t = u
    /\ \A t \in l.set : \A i \in 1 .. Len(l.streams) : t.stream # l.streams[i]

Ids(l, b) ==
    /\ \A t \in l.set : t.frame.kind = "message" =>
         t.frame.id = t.id /\ t.id \in l.msg_ids /\ t.id < l.msg_id /\ l.msg_id - t.id <= b
    /\ \A x \in l.msg_ids : \E t \in l.set : t.frame.kind = "message" /\ t.id = x
    /\ \A t \in l.set : t.frame.kind # "message" => t.id = l.msg_id /\ l.next_message = 0
    /\ \A t, u \in l.set :
         t.frame.kind = "message" /\ u.frame.kind = "message" /\ t.id = u.id => t = u

Counted(l, n) ==
    IsFiniteSet(l.set) /\ Len(l.streams) + Cardinality(l.set) = n /\ FreeStreams(l)

LoopOK(l, b, n) == Counted(l, n) /\ Ids(l, b)

\* Write t was added to loop l on its first free stream.
AddsWrite(l, k, t) ==
    /\ l.streams # <<>> /\ t.stream = l.streams[1]
    /\ k.streams = Tail(l.streams) /\ k.set = l.set \cup {t}

\* Messages the subscription gave to send loop l.
Given(l) == l.msg_id + (IF l.next_message = 0 THEN 0 ELSE 1)

\* The messages that are still to be written to a stream.
Writes(l) == {t \in l.set : t.state = "writing" /\ t.frame.kind = "message"}

\* The frames of each stream on their way and not read yet, oldest first.
Lines == [s \in Streams |-> arrived[s] \o sent[s]]

\* Lines L, writes T and kept messages M hold ids from lo, the next to give, to
\* hi, the next to send; each is in one place, and on one stream they grow.
Mail(L, T, M, lo, hi) ==
    /\ lo <= hi
    /\ \A s \in Streams : \A i \in 1 .. Len(L[s]) : L[s][i].kind = "message" =>
         /\ lo <= L[s][i].id /\ L[s][i].id < hi
         /\ \A j \in 1 .. Len(L[s]) :
              i < j /\ L[s][j].kind = "message" => L[s][i].id < L[s][j].id
         /\ \A z \in Streams \ {s} : \A j \in 1 .. Len(L[z]) : L[z][j].id # L[s][i].id
         /\ \A t \in T : L[s][i].id # t.id /\ (t.stream = s => L[s][i].id < t.id)
         /\ \A f \in M : L[s][i].id # f.id
    /\ \A t \in T : lo <= t.id /\ t.id < hi /\ \A f \in M : f.id # t.id
    /\ \A t, u \in T : t.id = u.id \/ t.stream = u.stream => t = u
    /\ \A f \in M : lo <= f.id /\ f.id < hi

\* What is still to come on stream s is behind the message whose turn it is.
Passed(L, T, lo, hi, s) ==
    /\ lo < hi
    /\ \A i \in 1 .. Len(L[s]) : L[s][i].kind = "message" => lo < L[s][i].id
    /\ \A t \in T : t.stream = s => lo < t.id

\* The shapes of the state; what the client gave is numbered from 1.
ShapeInv ==
    /\ env \in Scenarios
    /\ sent \in [Streams -> Seq(Frame)] /\ arrived \in [Streams -> Seq(Frame)]
    /\ loop \in Loop
    /\ messages \subseteq MessageFrames
    /\ msg_id \in Nat /\ out \in Seq(Nat)
    /\ Len(out) = msg_id /\ \A i \in 1 .. Len(out) : out[i] = i
    /\ poll \in [index : Nat, polled : Nat, wakers : SUBSET Streams, woken : BOOLEAN]
    /\ conn \in {"open", "lost"}
    /\ pc \in {"request", "accept", "poll", "readers", "pending", "ended"}

InLoop == srv \in {"loop", "closing", "break"}

\* Where the handler is, and how far it is in the subscription.
ServerInv ==
    /\ srv \in {"request", "open", "loop", "closing", "break", "done", "panicked"}
    /\ rx \in [given : Nat, state : {"live", "failed", "ended"}]
    /\ rx.given <= env.messages
    /\ conns \in {0, 1} /\ (conns = 0 <=> srv = "done")
    /\ response = "ok" \/ pc \in {"accept", "poll", "readers", "pending"} \/ srv = "open" \/ InLoop
         => env.streams \in Streams
    /\ rx.given = Given(loop)
    /\ loop.next_message \in {0, rx.given}
    /\ ~InLoop => loop.set = {}
    /\ srv \in {"request", "open"} => loop.msg_ids = {} /\ loop.next_message = 0
    /\ srv = "closing" => rx.state = "failed"
    /\ rx.state # "live" => loop.next_message = 0
    /\ rx.state = "live" => \A t \in loop.set : t.frame.kind = "message"
    /\ InLoop => LoopOK(loop, env.backlog, env.streams)

\* The send loop waits with a message only for a write that is under way.
BranchInv ==
    env.backlog > 0 =>
        srv # "panicked" /\ (srv = "loop" => loop.next_message = 0 \/ loop.set # {})

MailInv == Mail(Lines, Writes(loop), messages, msg_id, loop.msg_id)

\* How many readers ago reader s of n was polled, when reader i is the next.
Ago(s, i, n) == IF s < i THEN i - s ELSE i - s + n

\* Reader s has a waker, or the task is woken, or nothing on the stream has its turn.
Attended(s) ==
    s \in poll.wakers \/ poll.woken \/ Passed(Lines, Writes(loop), msg_id, loop.msg_id, s)

\* A reader with a waker has nothing to read; one polled in this round is attended.
PollInv ==
    /\ \A s \in poll.wakers : arrived[s] = <<>>
    /\ env.streams \in Streams => poll.index \in Reader
    /\ pc = "readers" => poll.polled < env.streams
    /\ pc = "readers" => \A s \in Reader : Ago(s, poll.index, env.streams) <= poll.polled => Attended(s)
    /\ pc = "pending" => \A s \in Reader : Attended(s)

QuicInv == ShapeInv /\ ServerInv /\ BranchInv /\ MailInv /\ PollInv

-----------------------------------------------------------------------------
(* The send loop.                                                          *)

\* The number of streams a scenario may ask for, and the limits.
LEMMA Bounds ==
    /\ MaxRecvStreams \in Nat \ {0} /\ MaxMessages \in Nat
    /\ Streams \subseteq Nat
    /\ \A x \in Scenarios :
         /\ x.streams \in Nat /\ x.backlog \in Nat
         /\ x.messages \in Nat /\ x.messages <= MaxMessages
         /\ x.ending \in {"none", "Lagged", "Closed"}
  BY BoundsAssumption, ScenarioAssumption DEF Streams

\* The frames the server writes are frames.
LEMMA Frames ==
    /\ \A i \in Nat : MessageFrame(i, i + 1) \in Frame /\ MessageFrame(i, i + 1).kind = "message"
                      /\ MessageFrame(i, i + 1).id = i
    /\ \A e \in {"none", "Lagged", "Closed"} :
         CloseFrame(e) \in Frame /\ CloseFrame(e).kind = "close"
    /\ Fin \in Frame /\ Fin.kind = "fin"
    /\ \A f \in Frame : /\ f.kind \in {"message", "close", "fin"} /\ f.id \in Int
                        /\ f.kind = "message" => f.id \in Nat /\ f.body = f.id + 1
                        /\ f.kind # "message" => f.id = -1
  BY DEF MessageFrame, CloseFrame, Fin, Frame

\* A message frame is known by its id.
LEMMA SameId ==
    ASSUME NEW f \in MessageFrames, NEW g \in MessageFrames, f.id = g.id
    PROVE  f = g
<1>1. f.kind = g.kind /\ f.body = g.body
  BY DEF MessageFrames, Frame
<1>2. /\ f \in [kind : {"message", "close", "fin"}, id : Int,
                body : Nat \cup {"none", "Lagged", "Closed"}]
      /\ g \in [kind : {"message", "close", "fin"}, id : Int,
                body : Nat \cup {"none", "Lagged", "Closed"}]
  BY DEF MessageFrames, Frame
<1> QED
  BY <1>1, <1>2

\* Spawn takes the first free stream for a new write.
LEMMA SpawnFields ==
    ASSUME NEW l \in Loop, NEW frame \in Frame, l.streams # <<>>
    PROVE  \E t \in Task :
             /\ t.stream = l.streams[1] /\ t.id = l.msg_id /\ t.frame = frame
             /\ t.state = "writing"
             /\ Spawn(l, frame) \in Loop
             /\ Spawn(l, frame).next_message = l.next_message
             /\ Spawn(l, frame).msg_id = l.msg_id
             /\ Spawn(l, frame).msg_ids = l.msg_ids
             /\ Spawn(l, frame).streams = Tail(l.streams)
             /\ Spawn(l, frame).set = l.set \cup {t}
<1> DEFINE t == [stream |-> Head(l.streams), id |-> l.msg_id, frame |-> frame, state |-> "writing"]
<1>1. l.streams \in Seq(Streams) /\ l.set \subseteq Task /\ l.msg_id \in Nat
      /\ l.next_message \in Nat /\ l.msg_ids \subseteq Nat
  BY DEF Loop
<1>2. Head(l.streams) = l.streams[1] /\ Head(l.streams) \in Streams
      /\ Tail(l.streams) \in Seq(Streams)
  BY <1>1
<1>3. t \in Task /\ t.stream = Head(l.streams) /\ t.id = l.msg_id /\ t.frame = frame
      /\ t.state = "writing"
  BY <1>1, <1>2 DEF Task
<1>4. Spawn(l, frame) = [l EXCEPT !.streams = Tail(l.streams), !.set = l.set \cup {t}]
  BY DEF Spawn
<1> HIDE DEF t
<1>5. l.set \cup {t} \subseteq Task
  BY <1>1, <1>3
<1>6. Spawn(l, frame) \in Loop
  BY <1>1, <1>2, <1>4, <1>5 DEF Loop
<1>7. /\ Spawn(l, frame).next_message = l.next_message
      /\ Spawn(l, frame).msg_id = l.msg_id
      /\ Spawn(l, frame).msg_ids = l.msg_ids
      /\ Spawn(l, frame).streams = Tail(l.streams)
      /\ Spawn(l, frame).set = l.set \cup {t}
  BY <1>4 DEF Loop
<1> QED
  BY <1>2, <1>3, <1>6, <1>7

\* Joined frees the stream and the id of a write.
LEMMA JoinedFields ==
    ASSUME NEW l \in Loop, NEW t \in l.set
    PROVE  /\ Joined(l, t) \in Loop
           /\ Joined(l, t).next_message = l.next_message
           /\ Joined(l, t).msg_id = l.msg_id
           /\ Joined(l, t).msg_ids = l.msg_ids \ {t.id}
           /\ Joined(l, t).streams = Append(l.streams, t.stream)
           /\ Joined(l, t).set = l.set \ {t}
<1>1. l.streams \in Seq(Streams) /\ l.set \subseteq Task /\ l.msg_id \in Nat
      /\ l.next_message \in Nat /\ l.msg_ids \subseteq Nat
  BY DEF Loop
<1>2. t.stream \in Streams
  BY <1>1 DEF Task
<1>3. Append(l.streams, t.stream) \in Seq(Streams)
  BY <1>1, <1>2
<1> QED
  BY <1>1, <1>3 DEF Joined, Loop

\* TrySend leaves the loop alone or spawns the message it holds.
LEMMA TrySendFields ==
    ASSUME NEW l \in Loop, l.next_message \in {0, l.msg_id + 1}
    PROVE  \/ /\ TrySend(l) = l
              /\ l.next_message = 0 \/ ~WithinBacklog(l) \/ l.streams = <<>>
           \/ \E t \in Task :
                /\ l.next_message = l.msg_id + 1 /\ WithinBacklog(l) /\ l.streams # <<>>
                /\ t.stream = l.streams[1] /\ t.id = l.msg_id
                /\ t.frame \in Frame /\ t.frame.kind = "message" /\ t.frame.id = l.msg_id
                /\ t.state = "writing"
                /\ TrySend(l) \in Loop
                /\ TrySend(l).next_message = 0
                /\ TrySend(l).msg_id = l.msg_id + 1
                /\ TrySend(l).msg_ids = l.msg_ids \cup {l.msg_id}
                /\ TrySend(l).streams = Tail(l.streams)
                /\ TrySend(l).set = l.set \cup {t}
<1>1. CASE ~(l.next_message # 0 /\ WithinBacklog(l) /\ l.streams # <<>>)
  BY <1>1 DEF TrySend
<1>2. CASE l.next_message # 0 /\ WithinBacklog(l) /\ l.streams # <<>>
  <2> DEFINE frame == MessageFrame(l.msg_id, l.next_message)
             sp == Spawn(l, frame)
  <2>1. l.msg_id \in Nat /\ l.next_message = l.msg_id + 1
    BY <1>2 DEF Loop
  <2>2. frame \in Frame /\ frame.kind = "message" /\ frame.id = l.msg_id
    BY <2>1, Frames
  <2> HIDE DEF frame
  <2>3. PICK t \in Task :
             /\ t.stream = l.streams[1] /\ t.id = l.msg_id /\ t.frame = frame
             /\ t.state = "writing"
             /\ sp \in Loop
             /\ sp.next_message = l.next_message
             /\ sp.msg_id = l.msg_id
             /\ sp.msg_ids = l.msg_ids
             /\ sp.streams = Tail(l.streams)
             /\ sp.set = l.set \cup {t}
    BY <1>2, <2>2, SpawnFields
  <2>4. TrySend(l) = [sp EXCEPT !.next_message = 0, !.msg_ids = @ \cup {l.msg_id},
                                !.msg_id = l.msg_id + 1]
    BY <1>2 DEF TrySend, frame
  <2> HIDE DEF sp
  <2>5. sp.msg_ids \cup {l.msg_id} \in SUBSET Nat /\ l.msg_id + 1 \in Nat
    BY <2>1, <2>3 DEF Loop
  <2>6. TrySend(l) \in Loop
    <3>1. ASSUME NEW ids \in SUBSET Nat, NEW n \in Nat
          PROVE  [sp EXCEPT !.next_message = 0, !.msg_ids = ids, !.msg_id = n] \in Loop
      BY <2>3 DEF Loop
    <3> QED
      BY <2>4, <2>5, <3>1
  <2>7. /\ TrySend(l).next_message = 0
        /\ TrySend(l).msg_id = l.msg_id + 1
        /\ TrySend(l).msg_ids = sp.msg_ids \cup {l.msg_id}
        /\ TrySend(l).streams = sp.streams
        /\ TrySend(l).set = sp.set
    BY <2>3, <2>4 DEF Loop
  <2> QED
    BY <1>2, <2>1, <2>2, <2>3, <2>6, <2>7
<1> QED
  BY <1>1, <1>2

\* A write on the first free stream keeps the streams apart and counted.
LEMMA AddWrite ==
    ASSUME NEW l \in Loop, NEW k \in Loop, NEW t \in Task, NEW n \in Nat,
           AddsWrite(l, k, t), Counted(l, n)
    PROVE  Counted(k, n)
<1> USE DEF AddsWrite, Counted
<1>1. l.streams \in Seq(Streams) /\ k.streams \in Seq(Streams)
  BY DEF Loop
<1>2. /\ Len(l.streams) \in Nat \ {0} /\ Len(k.streams) = Len(l.streams) - 1
      /\ \A i \in 1 .. Len(k.streams) : k.streams[i] = l.streams[i + 1]
  BY <1>1
<1>3. t \notin l.set
  BY <1>2 DEF FreeStreams
<1>4. /\ IsFiniteSet(k.set) /\ Cardinality(k.set) = Cardinality(l.set) + 1
      /\ Cardinality(l.set) \in Nat
  BY <1>3, FS_AddElement, FS_CardinalityType
<1>5. ASSUME NEW i \in 1 .. Len(k.streams), NEW j \in 1 .. Len(k.streams),
             k.streams[i] = k.streams[j]
      PROVE  i = j
  <2>1. /\ i + 1 \in 1 .. Len(l.streams) /\ j + 1 \in 1 .. Len(l.streams)
        /\ l.streams[i + 1] = l.streams[j + 1]
    BY <1>2, <1>5
  <2>2. i + 1 = j + 1
    BY <2>1 DEF FreeStreams
  <2> QED
    BY <2>2
<1>6. \A u, v \in k.set : u.stream = v.stream => u = v
  <2> SUFFICES ASSUME NEW u \in k.set, NEW v \in k.set, u.stream = v.stream PROVE u = v
    OBVIOUS
  <2>1. ASSUME NEW w \in l.set PROVE w.stream # t.stream
    BY <1>2 DEF FreeStreams
  <2> QED
    BY <2>1 DEF FreeStreams
<1>7. \A u \in k.set : \A i \in 1 .. Len(k.streams) : u.stream # k.streams[i]
  <2> SUFFICES ASSUME NEW u \in k.set, NEW i \in 1 .. Len(k.streams) PROVE u.stream # k.streams[i]
    OBVIOUS
  <2>1. k.streams[i] = l.streams[i + 1] /\ i + 1 \in 1 .. Len(l.streams) /\ i + 1 # 1
        /\ 1 \in 1 .. Len(l.streams)
    BY <1>2
  <2>2. CASE u \in l.set
    BY <2>1, <2>2 DEF FreeStreams
  <2>3. CASE u = t
    BY <2>1, <2>3 DEF FreeStreams
  <2> QED
    BY <2>2, <2>3
<1>8. FreeStreams(k)
  BY <1>5, <1>6, <1>7 DEF FreeStreams
<1> QED
  BY <1>2, <1>4, <1>8

\* A write that ended gives its stream and its id back.
LEMMA JoinedOK ==
    ASSUME NEW l \in Loop, NEW t \in l.set, NEW b \in Nat, NEW n \in Nat, LoopOK(l, b, n)
    PROVE  LoopOK(Joined(l, t), b, n)
<1> DEFINE m == Joined(l, t)
<1>1. /\ m \in Loop
      /\ m.next_message = l.next_message
      /\ m.msg_id = l.msg_id
      /\ m.msg_ids = l.msg_ids \ {t.id}
      /\ m.streams = Append(l.streams, t.stream)
      /\ m.set = l.set \ {t}
  BY JoinedFields, Zenon
<1> HIDE DEF m
<1>2. l.streams \in Seq(Streams) /\ t.stream \in Streams /\ l.set \subseteq Task
  BY DEF Loop, Task
<1>3. /\ Len(l.streams) \in Nat /\ Len(m.streams) = Len(l.streams) + 1
      /\ m.streams[Len(l.streams) + 1] = t.stream
      /\ \A i \in 1 .. Len(l.streams) : m.streams[i] = l.streams[i]
  BY <1>1, <1>2
<1>4. IsFiniteSet(m.set) /\ Cardinality(m.set) = Cardinality(l.set) - 1
      /\ Cardinality(l.set) \in Nat
  BY <1>1, FS_RemoveElement, FS_CardinalityType DEF LoopOK, Counted
<1>f. FreeStreams(l) /\ Ids(l, b) /\ Len(l.streams) + Cardinality(l.set) = n
  BY DEF LoopOK, Counted
<1>5. FreeStreams(m)
  <2>1. ASSUME NEW i \in 1 .. Len(m.streams), NEW j \in 1 .. Len(m.streams),
               m.streams[i] = m.streams[j]
        PROVE  i = j
    <3>1. CASE i \in 1 .. Len(l.streams) /\ j \in 1 .. Len(l.streams)
      BY <1>f, <1>3, <2>1, <3>1 DEF FreeStreams
    <3>2. CASE i = Len(l.streams) + 1 \/ j = Len(l.streams) + 1
      <4>1. \A k \in 1 .. Len(l.streams) : m.streams[k] # t.stream
        BY <1>f, <1>3 DEF FreeStreams
      <4>2. \A k \in Nat : k = Len(l.streams) + 1 => m.streams[k] = t.stream
        BY <1>3
      <4> QED
        BY <1>3, <2>1, <3>2, <4>1, <4>2
    <3> QED
      BY <1>3, <3>1, <3>2
  <2>2. ASSUME NEW u \in m.set, NEW i \in 1 .. Len(m.streams) PROVE u.stream # m.streams[i]
    BY <1>f, <1>1, <1>3 DEF FreeStreams
  <2>3. \A u, v \in m.set : u.stream = v.stream => u = v
    BY <1>f, <1>1 DEF FreeStreams
  <2> QED
    BY <2>1, <2>2, <2>3 DEF FreeStreams
<1>6. Ids(m, b)
  <2>1. ASSUME NEW u \in m.set, u.frame.kind = "message"
        PROVE  u.frame.id = u.id /\ u.id \in m.msg_ids /\ u.id < m.msg_id /\ m.msg_id - u.id <= b
    <3>1. u \in l.set /\ u # t /\ u.id \in Nat /\ l.msg_id \in Nat /\ t.id \in Nat
      BY <1>1, <1>2 DEF Task, Loop
    <3>2. u.id # t.id
      BY <1>f, <2>1, <3>1 DEF Ids
    <3> QED
      BY <1>f, <1>1, <2>1, <3>1, <3>2 DEF Ids
  <2>2. ASSUME NEW x \in m.msg_ids PROVE \E u \in m.set : u.frame.kind = "message" /\ u.id = x
    BY <1>f, <1>1 DEF Ids
  <2>3. \A u \in m.set : u.frame.kind # "message" => u.id = m.msg_id /\ m.next_message = 0
    BY <1>f, <1>1 DEF Ids
  <2>4. \A u, v \in m.set :
         u.frame.kind = "message" /\ v.frame.kind = "message" /\ u.id = v.id => u = v
    BY <1>f, <1>1 DEF Ids
  <2> QED
    BY <2>1, <2>2, <2>3, <2>4 DEF Ids
<1>7. Len(m.streams) + Cardinality(m.set) = n
  BY <1>3, <1>4, <1>f
<1> QED
  BY <1>4, <1>5, <1>6, <1>7 DEF LoopOK, Counted, m

\* The close frame is written on a free stream, once nothing is left to send.
LEMMA SpawnCloseOK ==
    ASSUME NEW l \in Loop, NEW b \in Nat, NEW n \in Nat, NEW frame \in Frame,
           LoopOK(l, b, n), l.streams # <<>>, l.next_message = 0, frame.kind # "message"
    PROVE  LoopOK(Spawn(l, frame), b, n)
<1> DEFINE m == Spawn(l, frame)
<1>1. PICK t \in Task :
             /\ t.stream = l.streams[1] /\ t.id = l.msg_id /\ t.frame = frame
             /\ t.state = "writing"
             /\ m \in Loop
             /\ m.next_message = l.next_message
             /\ m.msg_id = l.msg_id
             /\ m.msg_ids = l.msg_ids
             /\ m.streams = Tail(l.streams)
             /\ m.set = l.set \cup {t}
  BY SpawnFields
<1> HIDE DEF m
<1>2. Counted(m, n)
  BY <1>1, AddWrite DEF AddsWrite, LoopOK
<1>3. Ids(m, b)
  BY <1>1 DEF LoopOK, Ids
<1> QED
  BY <1>2, <1>3 DEF LoopOK, m

\* What is behind the first id of msg_ids.
LEMMA BacklogOfIds ==
    ASSUME NEW l \in Loop, WithinBacklog(l), NEW x \in l.msg_ids, env.backlog \in Nat
    PROVE  l.msg_id - x < env.backlog
<1>1. l.msg_ids \in SUBSET Nat /\ l.msg_id \in Nat /\ l.msg_ids # {} /\ x \in Nat
  BY DEF Loop
<1>2. Min(l.msg_ids) \in l.msg_ids /\ Min(l.msg_ids) <= x
  BY <1>1, MinOfNats, Zenon
<1>3. Min(l.msg_ids) \in Nat
  BY <1>1, <1>2
<1>4. l.msg_id - Min(l.msg_ids) < env.backlog
  BY <1>1 DEF WithinBacklog, FirstId
<1> QED
  BY <1>1, <1>2, <1>3, <1>4

\* A message is sent only within the backlog; one that is not waits for a write.
LEMMA TrySendOK ==
    ASSUME NEW l \in Loop, l.next_message \in {0, l.msg_id + 1}, NEW n \in Nat \ {0},
           env.backlog \in Nat, LoopOK(l, env.backlog, n)
    PROVE  /\ LoopOK(TrySend(l), env.backlog, n)
           /\ env.backlog > 0 => TrySend(l).next_message = 0 \/ TrySend(l).set # {}
<1> DEFINE m == TrySend(l)
           b == env.backlog
<1>1. CASE m = l /\ (l.next_message = 0 \/ ~WithinBacklog(l) \/ l.streams = <<>>)
  <2>1. ASSUME b > 0, l.next_message # 0, l.set = {} PROVE FALSE
    <3>1. l.msg_ids = {}
      BY <2>1 DEF LoopOK, Ids
    <3>2. WithinBacklog(l)
      BY <2>1, <3>1 DEF WithinBacklog, FirstId, Loop
    <3>3. l.streams # <<>>
      BY <2>1, FS_EmptySet DEF LoopOK, Counted
    <3> QED
      BY <1>1, <2>1, <3>2, <3>3
  <2> QED
    BY <1>1, <2>1
<1>2. ASSUME NEW t \in Task,
             /\ l.next_message = l.msg_id + 1 /\ WithinBacklog(l) /\ l.streams # <<>>
             /\ t.stream = l.streams[1] /\ t.id = l.msg_id
             /\ t.frame \in Frame /\ t.frame.kind = "message" /\ t.frame.id = l.msg_id
             /\ t.state = "writing"
             /\ m \in Loop
             /\ m.next_message = 0
             /\ m.msg_id = l.msg_id + 1
             /\ m.msg_ids = l.msg_ids \cup {l.msg_id}
             /\ m.streams = Tail(l.streams)
             /\ m.set = l.set \cup {t}
      PROVE  LoopOK(m, b, n) /\ m.next_message = 0
  <2> HIDE DEF m
  <2>1. Counted(m, n)
    BY <1>2, AddWrite DEF AddsWrite, LoopOK
  <2>2. l.msg_id \in Nat /\ l.msg_ids \in SUBSET Nat /\ l.set \subseteq Task /\ b \in Nat /\ Ids(l, b)
    BY DEF Loop, LoopOK
  <2>3. b > 0
    <3>1. CASE l.msg_ids = {}
      BY <1>2, <2>2, <3>1 DEF WithinBacklog, FirstId
    <3>2. CASE l.msg_ids # {}
      <4>1. PICK x \in l.msg_ids : TRUE
        BY <3>2
      <4>2. l.msg_id - x < b /\ x < l.msg_id /\ x \in Nat
        BY <1>2, <2>2, <4>1, BacklogOfIds DEF Ids
      <4> QED
        BY <2>2, <4>2
    <3> QED
      BY <3>1, <3>2
  <2>4. ASSUME NEW u \in m.set, u.frame.kind = "message"
        PROVE  u.frame.id = u.id /\ u.id \in m.msg_ids /\ u.id < m.msg_id /\ m.msg_id - u.id <= b
    <3>1. CASE u = t
      BY <1>2, <2>2, <2>3, <3>1
    <3>2. CASE u \in l.set
      <4>1. u.frame.id = u.id /\ u.id \in l.msg_ids /\ u.id < l.msg_id /\ u.id \in Nat
        BY <2>2, <2>4, <3>2 DEF Ids
      <4>2. l.msg_id - u.id < b
        BY <1>2, <2>2, <4>1, BacklogOfIds
      <4> QED
        BY <1>2, <2>2, <4>1, <4>2
    <3> QED
      BY <1>2, <3>1, <3>2
  <2>5. \A x \in m.msg_ids : \E u \in m.set : u.frame.kind = "message" /\ u.id = x
    BY <1>2, <2>2 DEF Ids
  <2>6. \A u \in l.set : u.frame.kind = "message" /\ u.id # t.id
    BY <1>2, <2>2 DEF Ids
  <2>7. Ids(m, b)
    BY <1>2, <2>2, <2>4, <2>5, <2>6 DEF Ids
  <2> QED
    BY <1>2, <2>1, <2>7 DEF LoopOK
<1> QED
  BY <1>1, <1>2, TrySendFields

-----------------------------------------------------------------------------
(* Messages on their way.                                                  *)

\* What is written comes last on the line, what arrives does not move on it, and
\* what is read is its first.
LEMMA ConcatAppend ==
    ASSUME NEW S, NEW a \in Seq(S), NEW b \in Seq(S), NEW e \in S
    PROVE  a \o Append(b, e) = Append(a \o b, e)
<1>1. Append(b, e) \in Seq(S) /\ a \o b \in Seq(S)
  OBVIOUS
<1>2. a \o Append(b, e) \in Seq(S) /\ Append(a \o b, e) \in Seq(S)
  BY <1>1
<1>3. Len(a \o Append(b, e)) = Len(Append(a \o b, e))
  BY <1>1
<1>4. ASSUME NEW i \in 1 .. Len(a \o Append(b, e))
      PROVE  (a \o Append(b, e))[i] = Append(a \o b, e)[i]
  BY <1>1
<1> QED
  BY <1>2, <1>3, <1>4, SeqEqual

\* The first element of the second half may be counted to the first half.
LEMMA ConcatShift ==
    ASSUME NEW S, NEW a \in Seq(S), NEW b \in Seq(S), b # <<>>
    PROVE  Append(a, Head(b)) \o Tail(b) = a \o b
<1>1. /\ Head(b) \in S /\ Head(b) = b[1] /\ Tail(b) \in Seq(S) /\ Append(a, Head(b)) \in Seq(S)
      /\ Len(b) \in Nat \ {0} /\ Len(Tail(b)) = Len(b) - 1 /\ Len(a) \in Nat
      /\ \A i \in 1 .. Len(Tail(b)) : Tail(b)[i] = b[i + 1]
  OBVIOUS
<1>2. Append(a, Head(b)) \o Tail(b) \in Seq(S) /\ a \o b \in Seq(S)
  BY <1>1
<1>3. Len(Append(a, Head(b)) \o Tail(b)) = Len(a) + Len(b) /\ Len(a \o b) = Len(a) + Len(b)
  BY <1>1
<1>4. ASSUME NEW i \in 1 .. Len(a) + Len(b)
      PROVE  (Append(a, Head(b)) \o Tail(b))[i] = (a \o b)[i]
  <2>1. CASE i <= Len(a)
    BY <1>1, <2>1
  <2>2. CASE i = Len(a) + 1
    BY <1>1, <2>2
  <2>3. CASE i > Len(a) + 1
    BY <1>1, <2>3
  <2> QED
    BY <1>1, <2>1, <2>2, <2>3
<1> QED
  BY <1>2, <1>3, <1>4, SeqEqual

\* Taking the first frame of what has arrived takes the first frame of the line.
LEMMA ConcatTail ==
    ASSUME NEW S, NEW a \in Seq(S), NEW b \in Seq(S), a # <<>>
    PROVE  /\ Tail(a) \o b = Tail(a \o b) /\ (a \o b)[1] = Head(a) /\ a \o b # <<>>
           /\ a \o b \in Seq(S) /\ Len(a) \in Nat \ {0}
<1>1. /\ Tail(a) \in Seq(S) /\ a \o b \in Seq(S) /\ Len(a) \in Nat \ {0} /\ Len(b) \in Nat
      /\ Len(Tail(a)) = Len(a) - 1 /\ Len(a \o b) = Len(a) + Len(b)
      /\ \A i \in 1 .. Len(Tail(a)) : Tail(a)[i] = a[i + 1]
      /\ (a \o b)[1] = Head(a)
  OBVIOUS
<1>2. a \o b # <<>>
  BY <1>1
<1>3. Tail(a) \o b \in Seq(S) /\ Tail(a \o b) \in Seq(S)
  BY <1>1, <1>2
<1>4. Len(Tail(a) \o b) = Len(a) + Len(b) - 1 /\ Len(Tail(a \o b)) = Len(a) + Len(b) - 1
  BY <1>1, <1>2
<1>5. ASSUME NEW i \in 1 .. Len(a) + Len(b) - 1
      PROVE  (Tail(a) \o b)[i] = Tail(a \o b)[i]
  <2>1. Tail(a \o b)[i] = (a \o b)[i + 1]
    BY <1>1, <1>2
  <2>2. CASE i <= Len(a) - 1
    BY <1>1, <2>1, <2>2
  <2>3. CASE i > Len(a) - 1
    BY <1>1, <2>1, <2>3
  <2> QED
    BY <1>1, <2>2, <2>3
<1> QED
  BY <1>1, <1>2, <1>3, <1>4, <1>5, SeqEqual

\* Lines K are what is left of lines L after the first frames were read and the
\* last ones were lost.
Behind(K, L) ==
    \A s \in Streams : \E k \in Nat :
        Len(K[s]) + k <= Len(L[s]) /\ \A i \in 1 .. Len(K[s]) : K[s][i] = L[s][i + k]

\* Lines K are lines L and at most one more frame on each, which is no message.
Closing(K, L) ==
    \A s \in Streams :
        /\ Len(K[s]) = Len(L[s]) \/ Len(K[s]) = Len(L[s]) + 1
        /\ \A i \in 1 .. Len(L[s]) : K[s][i] = L[s][i]
        /\ \A i \in 1 .. Len(K[s]) : i > Len(L[s]) => K[s][i].kind # "message"

\* Frames of lines, and the ids of what is on its way, are typed.
LEMMA MailTypes ==
    ASSUME NEW L \in [Streams -> Seq(Frame)]
    PROVE  \A s \in Streams :
             /\ L[s] \in Seq(Frame) /\ Len(L[s]) \in Nat
             /\ \A i \in 1 .. Len(L[s]) :
                  /\ L[s][i] \in Frame /\ L[s][i].id \in Int
                  /\ L[s][i].kind = "message" => L[s][i].id \in Nat
                  /\ L[s][i].kind # "message" => L[s][i].id = -1
<1> SUFFICES ASSUME NEW s \in Streams
             PROVE  /\ L[s] \in Seq(Frame) /\ Len(L[s]) \in Nat
                    /\ \A i \in 1 .. Len(L[s]) :
                         /\ L[s][i] \in Frame /\ L[s][i].id \in Int
                         /\ L[s][i].kind = "message" => L[s][i].id \in Nat
                         /\ L[s][i].kind # "message" => L[s][i].id = -1
  OBVIOUS
<1>1. L[s] \in Seq(Frame) /\ Len(L[s]) \in Nat
  OBVIOUS
<1>2. ASSUME NEW i \in 1 .. Len(L[s]) PROVE L[s][i] \in Frame
  BY <1>1
<1> QED
  BY <1>1, <1>2, Frames

\* Reading and losing frames, and ending writes, keeps the mail in order.
LEMMA MailShrinks ==
    ASSUME NEW L \in [Streams -> Seq(Frame)], NEW K \in [Streams -> Seq(Frame)],
           NEW T, NEW U \in SUBSET T, NEW M, NEW N \in SUBSET M, NEW lo \in Nat, NEW hi \in Nat,
           Mail(L, T, M, lo, hi), Behind(K, L)
    PROVE  Mail(K, U, N, lo, hi)
<1>1. ASSUME NEW s \in Streams, NEW i \in 1 .. Len(K[s]), K[s][i].kind = "message"
      PROVE  /\ lo <= K[s][i].id /\ K[s][i].id < hi
             /\ \A j \in 1 .. Len(K[s]) :
                  i < j /\ K[s][j].kind = "message" => K[s][i].id < K[s][j].id
             /\ \A z \in Streams \ {s} : \A j \in 1 .. Len(K[z]) : K[z][j].id # K[s][i].id
             /\ \A t \in U : K[s][i].id # t.id /\ (t.stream = s => K[s][i].id < t.id)
             /\ \A f \in N : K[s][i].id # f.id
  <2>1. PICK k \in Nat :
          Len(K[s]) + k <= Len(L[s]) /\ \A j \in 1 .. Len(K[s]) : K[s][j] = L[s][j + k]
    BY DEF Behind
  <2>2. Len(K[s]) \in Nat /\ Len(L[s]) \in Nat
    BY MailTypes
  <2>3. \A j \in 1 .. Len(K[s]) : j + k \in 1 .. Len(L[s])
    BY <2>1, <2>2
  <2>4. i + k \in 1 .. Len(L[s]) /\ K[s][i] = L[s][i + k] /\ L[s][i + k].kind = "message"
    BY <1>1, <2>1, <2>3
  <2>5. /\ lo <= L[s][i + k].id /\ L[s][i + k].id < hi
        /\ \A j \in 1 .. Len(L[s]) :
             i + k < j /\ L[s][j].kind = "message" => L[s][i + k].id < L[s][j].id
        /\ \A z \in Streams \ {s} : \A j \in 1 .. Len(L[z]) : L[z][j].id # L[s][i + k].id
        /\ \A t \in T : L[s][i + k].id # t.id /\ (t.stream = s => L[s][i + k].id < t.id)
        /\ \A f \in M : L[s][i + k].id # f.id
    BY <2>4 DEF Mail
  <2>6. ASSUME NEW j \in 1 .. Len(K[s]), i < j, K[s][j].kind = "message"
        PROVE  K[s][i].id < K[s][j].id
    <3>1. j + k \in 1 .. Len(L[s]) /\ i + k < j + k /\ K[s][j] = L[s][j + k]
      BY <2>1, <2>3, <2>6
    <3> QED
      BY <2>4, <2>5, <2>6, <3>1
  <2>7. ASSUME NEW z \in Streams \ {s}, NEW j \in 1 .. Len(K[z])
        PROVE  K[z][j].id # K[s][i].id
    <3>1. PICK m \in Nat :
            Len(K[z]) + m <= Len(L[z]) /\ \A q \in 1 .. Len(K[z]) : K[z][q] = L[z][q + m]
      BY DEF Behind
    <3>2. j + m \in 1 .. Len(L[z]) /\ K[z][j] = L[z][j + m]
      BY <3>1, MailTypes
    <3> QED
      BY <2>4, <2>5, <3>2
  <2> QED
    BY <2>4, <2>5, <2>6, <2>7
<1>2. /\ lo <= hi
      /\ \A t \in U : lo <= t.id /\ t.id < hi /\ \A f \in N : f.id # t.id
      /\ \A t, u \in U : t.id = u.id \/ t.stream = u.stream => t = u
      /\ \A f \in N : lo <= f.id /\ f.id < hi
  BY DEF Mail
<1> QED
  BY <1>1, <1>2 DEF Mail

\* The end of the streams is no message.
LEMMA MailCloses ==
    ASSUME NEW L \in [Streams -> Seq(Frame)], NEW K \in [Streams -> Seq(Frame)],
           NEW T, NEW U \in SUBSET T, NEW M, NEW lo \in Nat, NEW hi \in Nat,
           Mail(L, T, M, lo, hi), Closing(K, L)
    PROVE  Mail(K, U, M, lo, hi)
<1>1. ASSUME NEW s \in Streams, NEW i \in 1 .. Len(K[s]), K[s][i].kind = "message"
      PROVE  i \in 1 .. Len(L[s]) /\ K[s][i] = L[s][i]
  BY <1>1, MailTypes DEF Closing
<1>2. ASSUME NEW s \in Streams, NEW i \in 1 .. Len(K[s]), K[s][i].kind = "message"
      PROVE  /\ lo <= K[s][i].id /\ K[s][i].id < hi
             /\ \A j \in 1 .. Len(K[s]) :
                  i < j /\ K[s][j].kind = "message" => K[s][i].id < K[s][j].id
             /\ \A z \in Streams \ {s} : \A j \in 1 .. Len(K[z]) : K[z][j].id # K[s][i].id
             /\ \A t \in U : K[s][i].id # t.id /\ (t.stream = s => K[s][i].id < t.id)
             /\ \A f \in M : K[s][i].id # f.id
  <2>1. i \in 1 .. Len(L[s]) /\ K[s][i] = L[s][i]
    BY <1>1, <1>2
  <2>2. /\ lo <= L[s][i].id /\ L[s][i].id < hi
        /\ \A j \in 1 .. Len(L[s]) :
             i < j /\ L[s][j].kind = "message" => L[s][i].id < L[s][j].id
        /\ \A z \in Streams \ {s} : \A j \in 1 .. Len(L[z]) : L[z][j].id # L[s][i].id
        /\ \A t \in T : L[s][i].id # t.id /\ (t.stream = s => L[s][i].id < t.id)
        /\ \A f \in M : L[s][i].id # f.id
    BY <1>2, <2>1 DEF Mail
  <2>3. \A j \in 1 .. Len(K[s]) :
          i < j /\ K[s][j].kind = "message" => K[s][i].id < K[s][j].id
    BY <1>1, <2>1, <2>2
  <2>4. ASSUME NEW z \in Streams \ {s}, NEW j \in 1 .. Len(K[z]) PROVE K[z][j].id # K[s][i].id
    <3>1. CASE K[z][j].kind = "message"
      BY <1>1, <2>1, <2>2, <3>1
    <3>2. CASE K[z][j].kind # "message"
      <4>1. K[z][j].id = -1 /\ K[s][i].id \in Nat
        BY <1>2, <3>2, MailTypes
      <4> QED
        BY <4>1
    <3> QED
      BY <3>1, <3>2
  <2> QED
    BY <2>1, <2>2, <2>3, <2>4
<1>3. /\ lo <= hi
      /\ \A t \in U : lo <= t.id /\ t.id < hi /\ \A f \in M : f.id # t.id
      /\ \A t, u \in U : t.id = u.id \/ t.stream = u.stream => t = u
      /\ \A f \in M : lo <= f.id /\ f.id < hi
  BY DEF Mail
<1> QED
  BY <1>2, <1>3 DEF Mail

\* A write puts its message behind the earlier ones of its stream.
LEMMA MailWrite ==
    ASSUME NEW L \in [Streams -> Seq(Frame)], NEW K \in [Streams -> Seq(Frame)],
           NEW T \in SUBSET Task, NEW t \in T, NEW M \in SUBSET MessageFrames,
           NEW lo \in Nat, NEW hi \in Nat,
           t.frame.id = t.id, t.frame.kind = "message",
           K = [L EXCEPT ![t.stream] = Append(L[t.stream], t.frame)],
           Mail(L, T, M, lo, hi)
    PROVE  Mail(K, T \ {t}, M, lo, hi)
<1> DEFINE n == Len(L[t.stream])
<1>1. t.stream \in Streams /\ t.id \in Nat /\ t.frame \in Frame
  BY DEF Task
<1>2. L[t.stream] \in Seq(Frame) /\ n \in Nat
  BY <1>1
<1>3. \A s \in Streams : s # t.stream => K[s] = L[s]
  OBVIOUS
<1>4. /\ Len(K[t.stream]) = n + 1
      /\ \A i \in 1 .. n : K[t.stream][i] = L[t.stream][i]
      /\ \A i \in Nat : i = n + 1 => K[t.stream][i] = t.frame
  BY <1>1, <1>2
<1> HIDE DEF n
<1>5. ASSUME NEW s \in Streams, NEW i \in 1 .. Len(K[s])
      PROVE  \/ i \in 1 .. Len(L[s]) /\ K[s][i] = L[s][i]
             \/ s = t.stream /\ i = n + 1 /\ K[s][i] = t.frame
  BY <1>2, <1>3, <1>4 DEF n
<1>6. ASSUME NEW s \in Streams, NEW i \in 1 .. Len(L[s]), L[s][i].kind = "message"
      PROVE  /\ lo <= L[s][i].id /\ L[s][i].id < hi
             /\ \A j \in 1 .. Len(L[s]) :
                  i < j /\ L[s][j].kind = "message" => L[s][i].id < L[s][j].id
             /\ \A z \in Streams \ {s} : \A j \in 1 .. Len(L[z]) : L[z][j].id # L[s][i].id
             /\ \A u \in T : L[s][i].id # u.id /\ (u.stream = s => L[s][i].id < u.id)
             /\ \A f \in M : L[s][i].id # f.id
  BY <1>6 DEF Mail
<1>7. /\ lo <= hi
      /\ \A u \in T : lo <= u.id /\ u.id < hi /\ \A f \in M : f.id # u.id
      /\ \A u, v \in T : u.id = v.id \/ u.stream = v.stream => u = v
      /\ \A f \in M : lo <= f.id /\ f.id < hi
  BY DEF Mail
<1>8. ASSUME NEW s \in Streams, NEW i \in 1 .. Len(K[s]), K[s][i].kind = "message"
      PROVE  /\ lo <= K[s][i].id /\ K[s][i].id < hi
             /\ \A j \in 1 .. Len(K[s]) :
                  i < j /\ K[s][j].kind = "message" => K[s][i].id < K[s][j].id
             /\ \A z \in Streams \ {s} : \A j \in 1 .. Len(K[z]) : K[z][j].id # K[s][i].id
             /\ \A u \in T \ {t} : K[s][i].id # u.id /\ (u.stream = s => K[s][i].id < u.id)
             /\ \A f \in M : K[s][i].id # f.id
  <2>1. CASE i \in 1 .. Len(L[s]) /\ K[s][i] = L[s][i]
    <3>1. ASSUME NEW j \in 1 .. Len(K[s]), i < j, K[s][j].kind = "message"
          PROVE  K[s][i].id < K[s][j].id
      BY <1>5, <1>6, <1>8, <2>1, <3>1
    <3>2. ASSUME NEW z \in Streams \ {s}, NEW j \in 1 .. Len(K[z]) PROVE K[z][j].id # K[s][i].id
      BY <1>5, <1>6, <1>8, <2>1
    <3> QED
      BY <1>6, <1>8, <2>1, <3>1, <3>2
  <2>2. CASE s = t.stream /\ i = n + 1 /\ K[s][i] = t.frame
    <3>1. K[s][i].id = t.id
      BY <2>2
    <3>2. ASSUME NEW j \in 1 .. Len(K[s]) PROVE ~(i < j)
      BY <1>2, <1>4, <2>2
    <3>3. ASSUME NEW z \in Streams \ {s}, NEW j \in 1 .. Len(K[z]) PROVE K[z][j].id # t.id
      <4>1. j \in 1 .. Len(L[z]) /\ K[z][j] = L[z][j]
        BY <1>3, <2>2
      <4>2. CASE L[z][j].kind = "message"
        BY <1>6, <4>1, <4>2
      <4>3. CASE L[z][j].kind # "message"
        <5>1. L[z][j].id = -1
          BY <4>1, <4>3, MailTypes
        <5> QED
          BY <1>1, <4>1, <5>1
      <4> QED
        BY <4>2, <4>3
    <3>4. ASSUME NEW u \in T \ {t} PROVE u.id # t.id /\ u.stream # s
      BY <1>7, <2>2
    <3> QED
      BY <1>7, <3>1, <3>2, <3>3, <3>4
  <2> QED
    BY <1>5, <2>1, <2>2
<1> QED
  BY <1>7, <1>8 DEF Mail

\* A new write gets the next id and a stream of its own.
LEMMA MailSpawn ==
    ASSUME NEW L \in [Streams -> Seq(Frame)],
           NEW T \in SUBSET Task, NEW u \in Task, NEW M \in SUBSET MessageFrames,
           NEW lo \in Nat, NEW hi \in Nat,
           u.id = hi, \A t \in T : t.stream # u.stream,
           Mail(L, T, M, lo, hi)
    PROVE  Mail(L, T \cup {u}, M, lo, hi + 1)
<1>1. \A t \in T : t.id \in Nat
  BY DEF Task
<1>2. \A f \in M : f.id \in Nat
  BY DEF MessageFrames, Frame
<1>3. ASSUME NEW s \in Streams, NEW i \in 1 .. Len(L[s]), L[s][i].kind = "message"
      PROVE  /\ lo <= L[s][i].id /\ L[s][i].id < hi + 1
             /\ \A j \in 1 .. Len(L[s]) :
                  i < j /\ L[s][j].kind = "message" => L[s][i].id < L[s][j].id
             /\ \A z \in Streams \ {s} : \A j \in 1 .. Len(L[z]) : L[z][j].id # L[s][i].id
             /\ \A t \in T \cup {u} : L[s][i].id # t.id /\ (t.stream = s => L[s][i].id < t.id)
             /\ \A f \in M : L[s][i].id # f.id
  <2>1. /\ lo <= L[s][i].id /\ L[s][i].id < hi
        /\ \A j \in 1 .. Len(L[s]) :
             i < j /\ L[s][j].kind = "message" => L[s][i].id < L[s][j].id
        /\ \A z \in Streams \ {s} : \A j \in 1 .. Len(L[z]) : L[z][j].id # L[s][i].id
        /\ \A t \in T : L[s][i].id # t.id /\ (t.stream = s => L[s][i].id < t.id)
        /\ \A f \in M : L[s][i].id # f.id
    BY <1>3 DEF Mail
  <2>2. L[s][i].id \in Nat
    BY <1>3, MailTypes
  <2> QED
    BY <2>1, <2>2
<1>4. /\ lo <= hi
      /\ \A t \in T : lo <= t.id /\ t.id < hi /\ \A f \in M : f.id # t.id
      /\ \A t, v \in T : t.id = v.id \/ t.stream = v.stream => t = v
      /\ \A f \in M : lo <= f.id /\ f.id < hi
  BY DEF Mail
<1>5. \A t \in T \cup {u} : lo <= t.id /\ t.id < hi + 1 /\ \A f \in M : f.id # t.id
  BY <1>1, <1>2, <1>4
<1>6. \A t, v \in T \cup {u} : t.id = v.id \/ t.stream = v.stream => t = v
  BY <1>1, <1>4
<1>7. lo <= hi + 1 /\ \A f \in M : lo <= f.id /\ f.id < hi + 1
  BY <1>2, <1>4
<1> QED
  BY <1>3, <1>5, <1>6, <1>7 DEF Mail

\* Nothing but the message that is given has its turn.
LEMMA MailRaise ==
    ASSUME NEW L \in [Streams -> Seq(Frame)],
           NEW T \in SUBSET Task, NEW M \in SUBSET MessageFrames,
           NEW lo \in Nat, NEW hi \in Nat, lo < hi,
           \A s \in Streams : \A i \in 1 .. Len(L[s]) : L[s][i].id # lo,
           \A t \in T : t.id # lo, \A f \in M : f.id # lo,
           Mail(L, T, M, lo, hi)
    PROVE  Mail(L, T, M, lo + 1, hi)
<1>1. \A t \in T : t.id \in Nat
  BY DEF Task
<1>2. \A f \in M : f.id \in Nat
  BY DEF MessageFrames, Frame
<1>3. ASSUME NEW s \in Streams, NEW i \in 1 .. Len(L[s]), L[s][i].kind = "message"
      PROVE  /\ lo + 1 <= L[s][i].id /\ L[s][i].id < hi
             /\ \A j \in 1 .. Len(L[s]) :
                  i < j /\ L[s][j].kind = "message" => L[s][i].id < L[s][j].id
             /\ \A z \in Streams \ {s} : \A j \in 1 .. Len(L[z]) : L[z][j].id # L[s][i].id
             /\ \A t \in T : L[s][i].id # t.id /\ (t.stream = s => L[s][i].id < t.id)
             /\ \A f \in M : L[s][i].id # f.id
  <2>1. /\ lo <= L[s][i].id /\ L[s][i].id < hi
        /\ \A j \in 1 .. Len(L[s]) :
             i < j /\ L[s][j].kind = "message" => L[s][i].id < L[s][j].id
        /\ \A z \in Streams \ {s} : \A j \in 1 .. Len(L[z]) : L[z][j].id # L[s][i].id
        /\ \A t \in T : L[s][i].id # t.id /\ (t.stream = s => L[s][i].id < t.id)
        /\ \A f \in M : L[s][i].id # f.id
    BY <1>3 DEF Mail
  <2>2. L[s][i].id \in Nat /\ L[s][i].id # lo
    BY <1>3, MailTypes
  <2> QED
    BY <2>1, <2>2
<1>4. /\ \A t \in T : lo + 1 <= t.id /\ t.id < hi /\ \A f \in M : f.id # t.id
      /\ \A t, v \in T : t.id = v.id \/ t.stream = v.stream => t = v
      /\ \A f \in M : lo + 1 <= f.id /\ f.id < hi
  BY <1>1, <1>2 DEF Mail
<1> QED
  BY <1>3, <1>4 DEF Mail

\* A message read before its turn is kept.
LEMMA MailKeep ==
    ASSUME NEW L \in [Streams -> Seq(Frame)], NEW T \in SUBSET Task,
           NEW M, NEW f, NEW lo \in Nat, NEW hi \in Nat, lo <= f.id, f.id < hi,
           \A s \in Streams : \A i \in 1 .. Len(L[s]) :
               L[s][i].kind = "message" => L[s][i].id # f.id,
           \A t \in T : t.id # f.id,
           Mail(L, T, M, lo, hi)
    PROVE  Mail(L, T, M \cup {f}, lo, hi)
<1>1. ASSUME NEW s \in Streams, NEW i \in 1 .. Len(L[s]), L[s][i].kind = "message"
      PROVE  /\ lo <= L[s][i].id /\ L[s][i].id < hi
             /\ \A j \in 1 .. Len(L[s]) :
                  i < j /\ L[s][j].kind = "message" => L[s][i].id < L[s][j].id
             /\ \A z \in Streams \ {s} : \A j \in 1 .. Len(L[z]) : L[z][j].id # L[s][i].id
             /\ \A t \in T : L[s][i].id # t.id /\ (t.stream = s => L[s][i].id < t.id)
             /\ \A g \in M \cup {f} : L[s][i].id # g.id
  BY <1>1 DEF Mail
<1>2. /\ lo <= hi
      /\ \A t \in T : lo <= t.id /\ t.id < hi /\ \A g \in M \cup {f} : g.id # t.id
      /\ \A t, v \in T : t.id = v.id \/ t.stream = v.stream => t = v
      /\ \A g \in M \cup {f} : lo <= g.id /\ g.id < hi
  BY DEF Mail
<1> QED
  BY <1>1, <1>2 DEF Mail

\* Lines K are lines L once the first frame of stream s was read.
Reads(K, L, s) == L[s] # <<>> /\ K = [L EXCEPT ![s] = Tail(L[s])]

\* Reading a stream leaves the rest of its line, and the message read was in no
\* other place and ahead of all that is to come on its stream.
LEMMA ReadLine ==
    ASSUME NEW L \in [Streams -> Seq(Frame)], NEW K \in [Streams -> Seq(Frame)],
           NEW s \in Streams, Reads(K, L, s)
    PROVE  /\ Behind(K, L)
           /\ \A T, M, lo, hi : Mail(L, T, M, lo, hi) /\ L[s][1].kind = "message" =>
                /\ \A z \in Streams : \A i \in 1 .. Len(K[z]) : K[z][i].id # L[s][1].id
                /\ \A t \in T : t.id # L[s][1].id /\ (t.stream = s => L[s][1].id < t.id)
                /\ \A f \in M : f.id # L[s][1].id
                /\ lo <= L[s][1].id /\ L[s][1].id < hi
                /\ \A i \in 1 .. Len(K[s]) : K[s][i].kind = "message" => L[s][1].id < K[s][i].id
<1>1. /\ Len(L[s]) \in Nat \ {0} /\ Len(K[s]) = Len(L[s]) - 1 /\ Len(K[s]) \in Nat
      /\ \A i \in 1 .. Len(K[s]) : K[s][i] = L[s][i + 1]
      /\ 1 \in 1 .. Len(L[s])
  BY MailTypes DEF Reads
<1>2. \A z \in Streams : z # s => K[z] = L[z]
  BY DEF Reads
<1>3. Behind(K, L)
  <2> SUFFICES ASSUME NEW z \in Streams
               PROVE  \E k \in Nat : /\ Len(K[z]) + k <= Len(L[z])
                                     /\ \A i \in 1 .. Len(K[z]) : K[z][i] = L[z][i + k]
    BY DEF Behind
  <2>1. CASE z = s
    <3>1. Len(K[z]) + 1 <= Len(L[z]) /\ \A i \in 1 .. Len(K[z]) : K[z][i] = L[z][i + 1]
      BY <1>1, <2>1
    <3> QED
      BY <3>1
  <2>2. CASE z # s
    <3>1. Len(K[z]) + 0 <= Len(L[z]) /\ \A i \in 1 .. Len(K[z]) : K[z][i] = L[z][i + 0]
      BY <1>2, <2>2, MailTypes
    <3> QED
      BY <3>1
  <2> QED
    BY <2>1, <2>2
<1>4. ASSUME NEW T, NEW M, NEW lo, NEW hi, Mail(L, T, M, lo, hi), L[s][1].kind = "message"
      PROVE  /\ \A z \in Streams : \A i \in 1 .. Len(K[z]) : K[z][i].id # L[s][1].id
             /\ \A t \in T : t.id # L[s][1].id /\ (t.stream = s => L[s][1].id < t.id)
             /\ \A f \in M : f.id # L[s][1].id
             /\ lo <= L[s][1].id /\ L[s][1].id < hi
             /\ \A i \in 1 .. Len(K[s]) : K[s][i].kind = "message" => L[s][1].id < K[s][i].id
  <2>1. /\ lo <= L[s][1].id /\ L[s][1].id < hi
        /\ \A j \in 1 .. Len(L[s]) :
             1 < j /\ L[s][j].kind = "message" => L[s][1].id < L[s][j].id
        /\ \A z \in Streams \ {s} : \A j \in 1 .. Len(L[z]) : L[z][j].id # L[s][1].id
        /\ \A t \in T : L[s][1].id # t.id /\ (t.stream = s => L[s][1].id < t.id)
        /\ \A f \in M : L[s][1].id # f.id
    BY <1>1, <1>4 DEF Mail
  <2>2. L[s][1].id \in Nat
    BY <1>1, <1>4, MailTypes
  <2>3. ASSUME NEW i \in 1 .. Len(K[s])
        PROVE  /\ i + 1 \in 1 .. Len(L[s]) /\ 1 < i + 1 /\ K[s][i] = L[s][i + 1]
    BY <1>1
  <2>4. \A i \in 1 .. Len(K[s]) : K[s][i].kind = "message" => L[s][1].id < K[s][i].id
    BY <2>1, <2>3
  <2>5. ASSUME NEW i \in 1 .. Len(K[s]) PROVE K[s][i].id # L[s][1].id
    <3>1. K[s][i].kind # "message" => K[s][i].id = -1
      BY MailTypes
    <3>2. K[s][i].kind = "message" => K[s][i].id # L[s][1].id
      BY <2>2, <2>4, MailTypes
    <3> QED
      BY <2>2, <3>1, <3>2
  <2>6. ASSUME NEW z \in Streams, NEW i \in 1 .. Len(K[z]) PROVE K[z][i].id # L[s][1].id
    BY <1>2, <2>1, <2>5
  <2> QED
    BY <2>1, <2>4, <2>6
<1> QED
  BY <1>3, <1>4

\* What is passed stays passed when frames are read or lost and writes end,
LEMMA PassedShrinks ==
    ASSUME NEW L \in [Streams -> Seq(Frame)], NEW K \in [Streams -> Seq(Frame)],
           NEW T, NEW U \in SUBSET T, NEW lo, NEW hi, NEW s \in Streams,
           Behind(K, L), Passed(L, T, lo, hi, s)
    PROVE  Passed(K, U, lo, hi, s)
<1>1. PICK k \in Nat :
        Len(K[s]) + k <= Len(L[s]) /\ \A j \in 1 .. Len(K[s]) : K[s][j] = L[s][j + k]
  BY DEF Behind
<1>2. \A j \in 1 .. Len(K[s]) : j + k \in 1 .. Len(L[s])
  BY <1>1, MailTypes
<1> QED
  BY <1>1, <1>2 DEF Passed

\* when a stream is closed,
LEMMA PassedCloses ==
    ASSUME NEW L \in [Streams -> Seq(Frame)], NEW K \in [Streams -> Seq(Frame)],
           NEW T, NEW U \in SUBSET T, NEW lo, NEW hi, NEW s \in Streams,
           Closing(K, L), Passed(L, T, lo, hi, s)
    PROVE  Passed(K, U, lo, hi, s)
<1>1. ASSUME NEW i \in 1 .. Len(K[s]), K[s][i].kind = "message"
      PROVE  i \in 1 .. Len(L[s]) /\ K[s][i] = L[s][i]
  BY <1>1, MailTypes DEF Closing
<1> QED
  BY <1>1 DEF Passed

\* when a message is written,
LEMMA PassedWrite ==
    ASSUME NEW L \in [Streams -> Seq(Frame)], NEW K \in [Streams -> Seq(Frame)],
           NEW T \in SUBSET Task, NEW t \in T, NEW lo, NEW hi, NEW s \in Streams,
           t.frame.id = t.id,
           K = [L EXCEPT ![t.stream] = Append(L[t.stream], t.frame)],
           Passed(L, T, lo, hi, s)
    PROVE  Passed(K, T \ {t}, lo, hi, s)
<1>1. t.stream \in Streams /\ t.frame \in Frame /\ L[s] \in Seq(Frame) /\ Len(L[s]) \in Nat
  BY DEF Task
<1>2. ASSUME NEW i \in 1 .. Len(K[s])
      PROVE  \/ i \in 1 .. Len(L[s]) /\ K[s][i] = L[s][i]
             \/ s = t.stream /\ K[s][i] = t.frame
  <2>1. CASE s # t.stream
    BY <2>1
  <2>2. CASE s = t.stream
    <3>1. K[s] = Append(L[s], t.frame)
      BY <1>1, <2>2
    <3> QED
      BY <1>1, <2>2, <3>1
  <2> QED
    BY <2>1, <2>2
<1> QED
  BY <1>2 DEF Passed

\* and when a message is sent: its id is later still.
LEMMA PassedSpawn ==
    ASSUME NEW L, NEW T, NEW u \in Task, NEW lo \in Nat, NEW hi \in Nat, NEW s,
           u.id = hi, Passed(L, T, lo, hi, s)
    PROVE  Passed(L, T \cup {u}, lo, hi + 1, s)
  BY DEF Passed

\* Ended and closing writes carry no message that is still to be written.
LEMMA WritesJoined ==
    ASSUME NEW l \in Loop, NEW t \in l.set, t.state = "written"
    PROVE  Writes(Joined(l, t)) = Writes(l)
  BY JoinedFields DEF Writes

\* The task that writes the close frame writes no message.
LEMMA WritesSpawnClose ==
    ASSUME NEW l \in Loop, NEW frame \in Frame, l.streams # <<>>, frame.kind # "message"
    PROVE  Writes(Spawn(l, frame)) = Writes(l)
  BY SpawnFields DEF Writes

\* The mail, and what is passed of it, survives a change of the send loop.
Keeps(L, l, k, M, lo) ==
    /\ Mail(L, Writes(l), M, lo, l.msg_id) => Mail(L, Writes(k), M, lo, k.msg_id)
    /\ \A s \in Streams : Passed(L, Writes(l), lo, l.msg_id, s) => Passed(L, Writes(k), lo, k.msg_id, s)

\* So it does when a message is sent,
LEMMA KeepsTrySend ==
    ASSUME NEW l \in Loop, l.next_message \in {0, l.msg_id + 1}, NEW b, NEW n, LoopOK(l, b, n),
           NEW L \in [Streams -> Seq(Frame)], NEW M \in SUBSET MessageFrames, NEW lo \in Nat
    PROVE  Keeps(L, l, TrySend(l), M, lo)
<1> DEFINE k == TrySend(l)
<1>1. CASE k = l
  BY <1>1 DEF Keeps
<1>2. ASSUME NEW t \in Task,
             /\ l.streams # <<>>
             /\ t.stream = l.streams[1] /\ t.id = l.msg_id
             /\ t.frame.kind = "message" /\ t.state = "writing"
             /\ k.msg_id = l.msg_id + 1
             /\ k.set = l.set \cup {t}
      PROVE  Keeps(L, l, k, M, lo)
  <2> HIDE DEF k
  <2>1. l.msg_id \in Nat /\ l.streams \in Seq(Streams) /\ l.set \subseteq Task
    BY DEF Loop
  <2>2. Writes(l) \in SUBSET Task /\ Writes(k) = Writes(l) \cup {t}
    BY <1>2, <2>1 DEF Writes
  <2>3. 1 \in 1 .. Len(l.streams)
    BY <1>2, <2>1
  <2>4. \A u \in Writes(l) : u.stream # t.stream
    BY <1>2, <2>3 DEF Writes, LoopOK, Counted, FreeStreams
  <2>5. Mail(L, Writes(l), M, lo, l.msg_id) => Mail(L, Writes(k), M, lo, k.msg_id)
    <3>1. ASSUME Mail(L, Writes(l), M, lo, l.msg_id)
          PROVE  Mail(L, Writes(l) \cup {t}, M, lo, l.msg_id + 1)
      BY <1>2, <2>1, <2>2, <2>4, <3>1, MailSpawn
    <3> QED
      BY <1>2, <2>2, <3>1
  <2>6. \A s \in Streams :
          Passed(L, Writes(l), lo, l.msg_id, s) => Passed(L, Writes(k), lo, k.msg_id, s)
    BY <1>2, <2>1, <2>2, PassedSpawn
  <2> QED
    BY <2>5, <2>6 DEF Keeps
<1> QED
  BY <1>1, <1>2, TrySendFields

\* and when the handler drops its writes.
LEMMA KeepsFewer ==
    ASSUME NEW l, NEW k, Writes(k) \subseteq Writes(l), k.msg_id = l.msg_id, l.msg_id \in Nat,
           NEW L \in [Streams -> Seq(Frame)], NEW M, NEW lo \in Nat
    PROVE  Keeps(L, l, k, M, lo)
<1>1. Behind(L, L)
  <2> SUFFICES ASSUME NEW s \in Streams
               PROVE  \E j \in Nat : /\ Len(L[s]) + j <= Len(L[s])
                                     /\ \A i \in 1 .. Len(L[s]) : L[s][i] = L[s][i + j]
    BY DEF Behind
  <2>1. Len(L[s]) + 0 <= Len(L[s]) /\ \A i \in 1 .. Len(L[s]) : L[s][i] = L[s][i + 0]
    BY MailTypes
  <2> QED
    BY <2>1
<1>2. Mail(L, Writes(l), M, lo, l.msg_id) => Mail(L, Writes(k), M, lo, k.msg_id)
  BY <1>1, MailShrinks
<1>3. ASSUME NEW s \in Streams, Passed(L, Writes(l), lo, l.msg_id, s)
      PROVE  Passed(L, Writes(k), lo, k.msg_id, s)
  BY <1>1, <1>3, PassedShrinks
<1> QED
  BY <1>2, <1>3 DEF Keeps

-----------------------------------------------------------------------------
(* The steps.                                                              *)

\* What has arrived on a stream and what is under way on it is a sequence of frames.
LEMMA LinesType ==
    ASSUME ShapeInv PROVE Lines \in [Streams -> Seq(Frame)]
<1>1. ASSUME NEW s \in Streams PROVE arrived[s] \o sent[s] \in Seq(Frame)
  <2>1. arrived[s] \in Seq(Frame) /\ sent[s] \in Seq(Frame)
    BY DEF ShapeInv
  <2> QED
    BY <2>1
<1> QED
  BY <1>1 DEF Lines

\* A client that polls has a reader per stream it asked for.
LEMMA ReadersAreStreams ==
    ASSUME ServerInv, pc \in {"poll", "readers", "pending"}
    PROVE  Reader \subseteq Streams /\ env.streams \in Nat \ {0}
  BY Bounds DEF ServerInv, Reader, Streams

\* A step of the send loop leaves the client's view alone.
LEMMA ServerSide ==
    ASSUME QuicInv, UNCHANGED <<env, client, network>>, loop' \in Loop,
           Keeps(Lines, loop, loop', messages, msg_id)
    PROVE  ShapeInv' /\ MailInv' /\ PollInv'
<1>1. ShapeInv'
  BY DEF QuicInv, ShapeInv, client, network, MessageFrames, Frame
<1>2. Lines' = Lines /\ messages' = messages /\ msg_id' = msg_id
  BY DEF Lines, client, network
<1>3. MailInv'
  BY <1>2 DEF QuicInv, MailInv, Keeps
<1>4. ASSUME NEW s \in Streams, Attended(s) PROVE Attended(s)'
  BY <1>2, <1>4 DEF Attended, Keeps, client
<1>5. PollInv'
  <2>1. poll' = poll /\ arrived' = arrived /\ pc' = pc /\ env' = env
    BY DEF client, network
  <2>3. Reader' = Reader
    BY <2>1 DEF Reader
  <2>4. pc \in {"readers", "pending"} => Reader \subseteq Streams
    BY ReadersAreStreams DEF QuicInv
  <2> QED
    BY <1>4, <2>1, <2>3, <2>4 DEF QuicInv, PollInv, Ago
<1> QED
  BY <1>1, <1>3, <1>5

\* A request that is not refused asks for streams the server may open.
LEMMA RefusalNone ==
    ASSUME env \in Scenarios
    PROVE  (Refusal = "none" => env.streams \in Streams) /\ Refusal # "ok"
<1>1. env.streams \in Nat /\ MaxRecvStreams \in Nat
      /\ env.channel \in {"ready", "NotInitialized", "SlotNotAvailable"}
  BY BoundsAssumption, ScenarioAssumption
<1> QED
  BY <1>1 DEF Refusal, Streams

\* The handler returns.
LEMMA Leaving ==
    ASSUME QuicInv, Leave, UNCHANGED <<env, rx, client, network>>,
           response' = response \/ response' # "ok"
    PROVE  QuicInv'
<1>1. loop \in Loop /\ loop' = [loop EXCEPT !.set = {}]
  BY DEF Leave, QuicInv, ShapeInv
<1>2. /\ loop' \in Loop /\ loop'.set = {} /\ loop'.msg_id = loop.msg_id
      /\ loop'.next_message = loop.next_message
  BY <1>1 DEF Loop
<1>3. Writes(loop') \subseteq Writes(loop)
  BY <1>2 DEF Writes
<1>4. Keeps(Lines, loop, loop', messages, msg_id)
  <2>1. Lines \in [Streams -> Seq(Frame)] /\ loop.msg_id \in Nat /\ msg_id \in Nat
    BY <1>1, LinesType DEF QuicInv, ShapeInv, Loop
  <2> QED
    BY <1>2, <1>3, <2>1, KeepsFewer
<1>5. ShapeInv' /\ MailInv' /\ PollInv'
  BY <1>2, <1>4, ServerSide
<1>6. pc' = pc /\ env' = env /\ rx' = rx /\ srv' = "done" /\ conns' = 0
  BY DEF client, Leave
<1>7. Given(loop') = Given(loop)
  BY <1>2 DEF Given
<1>8. ServerInv'
  BY <1>2, <1>6, <1>7 DEF QuicInv, ServerInv, InLoop, Streams
<1>9. BranchInv'
  BY <1>6 DEF BranchInv
<1> QED
  BY <1>5, <1>8, <1>9 DEF QuicInv

\* A request is accepted, or answered with a refusal and left.
LEMMA HandleRequestStep ==
    ASSUME QuicInv, HandleRequest PROVE QuicInv'
<1>1. env \in Scenarios
  BY DEF QuicInv, ShapeInv
<1>2. CASE Refusal = "none"
  <2>1. /\ srv' = "open" /\ response' = "ok" /\ loop' = loop /\ conns' = conns /\ env' = env
        /\ rx' = rx /\ srv = "request" /\ pc' = pc
        /\ UNCHANGED <<env, client, network>>
    BY <1>2 DEF HandleRequest, client
  <2>2. Keeps(Lines, loop, loop', messages, msg_id)
    BY <2>1 DEF Keeps
  <2>3. ShapeInv' /\ MailInv' /\ PollInv'
    BY <2>1, <2>2, ServerSide DEF QuicInv, ShapeInv
  <2>4. ServerInv'
    BY <1>1, <1>2, <2>1, RefusalNone DEF QuicInv, ServerInv, InLoop, Streams
  <2> QED
    BY <2>1, <2>3, <2>4 DEF QuicInv, BranchInv
<1>3. CASE Refusal # "none"
  <2>1. Leave /\ response' # "ok" /\ UNCHANGED <<env, rx, client, network>>
    BY <1>1, <1>3, RefusalNone DEF HandleRequest
  <2> QED
    BY <2>1, Leaving
<1> QED
  BY <1>2, <1>3

\* A request that cannot be read ends the connection.
LEMMA RequestFailsStep ==
    ASSUME QuicInv, RequestFails PROVE QuicInv'
  BY Leaving DEF RequestFails

\* Streams are opened once; nothing is written on them yet.
LEMMA OpenStreamsStep ==
    ASSUME QuicInv, OpenStreams PROVE QuicInv'
<1>1. /\ srv = "open" /\ srv' = "loop" /\ UNCHANGED <<env, client, network>>
      /\ response' = response /\ rx' = rx /\ conns' = conns /\ env' = env /\ pc' = pc
      /\ loop' = [loop EXCEPT !.streams = [i \in Reader |-> i]]
  BY DEF OpenStreams, client
<1>2. /\ loop \in Loop /\ env.streams \in Streams /\ loop.set = {} /\ loop.msg_ids = {}
      /\ loop.next_message = 0
  BY <1>1 DEF QuicInv, ShapeInv, ServerInv, InLoop
<1>3. env.streams \in Nat \ {0} /\ \A i \in Reader : i \in Streams
  BY <1>2, Bounds DEF Streams, Reader
<1> DEFINE q == [i \in Reader |-> i]
<1>4. q \in Seq(Streams) /\ Len(q) = env.streams /\ \A i \in 1 .. env.streams : q[i] = i
  BY <1>3 DEF Reader
<1>5. /\ loop' \in Loop /\ loop'.set = {} /\ loop'.msg_ids = {} /\ loop'.next_message = 0
      /\ loop'.msg_id = loop.msg_id /\ loop'.streams = q
  <2> HIDE DEF q
  <2>1. loop' = [loop EXCEPT !.streams = q]
    BY <1>1 DEF q
  <2> QED
    BY <1>2, <1>4, <2>1 DEF Loop
<1> HIDE DEF q
<1>6. Keeps(Lines, loop, loop', messages, msg_id)
  <2>1. Writes(loop') = Writes(loop)
    BY <1>2, <1>5 DEF Writes
  <2> QED
    BY <1>5, <2>1 DEF Keeps
<1>7. ShapeInv' /\ MailInv' /\ PollInv'
  BY <1>1, <1>5, <1>6, ServerSide
<1>8. LoopOK(loop', env.backlog, env.streams)
  <2>1. IsFiniteSet({}) /\ Cardinality({}) = 0
    BY FS_EmptySet
  <2>2. Counted(loop', env.streams)
    BY <1>3, <1>4, <1>5, <2>1 DEF Counted, FreeStreams
  <2>3. Ids(loop', env.backlog)
    BY <1>5 DEF Ids
  <2> QED
    BY <2>2, <2>3 DEF LoopOK
<1>9. Given(loop') = Given(loop)
  BY <1>2, <1>5 DEF Given
<1>10. ServerInv'
  BY <1>1, <1>2, <1>5, <1>8, <1>9 DEF QuicInv, ServerInv, InLoop, Streams
<1> QED
  BY <1>1, <1>5, <1>7, <1>10 DEF QuicInv, BranchInv

\* A message of the subscription.
LEMMA RxMessageStep ==
    ASSUME QuicInv, RxMessage PROVE QuicInv'
<1> DEFINE l == [loop EXCEPT !.next_message = rx.given + 1]
<1>1. /\ srv = "loop" /\ srv' = "loop" /\ UNCHANGED <<env, client, network>>
      /\ response' = response /\ conns' = conns /\ env' = env /\ pc' = pc
      /\ rx' = [rx EXCEPT !.given = rx.given + 1] /\ rx.given < env.messages
      /\ rx.state = "live" /\ loop' = TrySend(l) /\ loop.next_message = 0
  BY DEF RxMessage, client
<1>2. loop \in Loop /\ env \in Scenarios
  BY DEF QuicInv, ShapeInv
<1>3. /\ rx \in [given : Nat, state : {"live", "failed", "ended"}] /\ rx.given = loop.msg_id
      /\ \A t \in loop.set : t.frame.kind = "message"
      /\ env.streams \in Streams /\ LoopOK(loop, env.backlog, env.streams)
      /\ loop.msg_id \in Nat
  BY <1>1, <1>2 DEF QuicInv, ServerInv, InLoop, Given, Loop
<1>4. rx'.given = rx.given + 1 /\ rx'.state = "live"
      /\ rx' \in [given : Nat, state : {"live", "failed", "ended"}]
  BY <1>1, <1>3
<1>5. /\ l \in Loop /\ l.next_message = loop.msg_id + 1 /\ l.msg_id = loop.msg_id
      /\ l.msg_ids = loop.msg_ids /\ l.streams = loop.streams /\ l.set = loop.set
  BY <1>2, <1>3 DEF Loop
<1> HIDE DEF l
<1>6. env.streams \in Nat \ {0} /\ env.backlog \in Nat /\ env.messages \in Nat
  BY <1>2, <1>3, Bounds DEF Streams
<1>7. LoopOK(l, env.backlog, env.streams)
  BY <1>3, <1>5 DEF LoopOK, Counted, FreeStreams, Ids
<1>8. /\ LoopOK(loop', env.backlog, env.streams)
      /\ env.backlog > 0 => loop'.next_message = 0 \/ loop'.set # {}
  BY <1>1, <1>5, <1>6, <1>7, TrySendOK
<1>9. Keeps(Lines, loop, loop', messages, msg_id)
  <2>1. Keeps(Lines, l, TrySend(l), messages, msg_id)
    BY <1>5, <1>7, LinesType, KeepsTrySend DEF QuicInv, ShapeInv
  <2>2. Writes(l) = Writes(loop)
    BY <1>5 DEF Writes
  <2> QED
    BY <1>1, <1>5, <2>1, <2>2 DEF Keeps
<1>10. /\ loop' \in Loop /\ Given(loop') = loop.msg_id + 1
       /\ loop'.next_message \in {0, loop.msg_id + 1}
       /\ \A t \in loop'.set : t.frame.kind = "message"
  BY <1>1, <1>3, <1>5, TrySendFields DEF Given
<1>11. ShapeInv' /\ MailInv' /\ PollInv'
  BY <1>1, <1>9, <1>10, ServerSide
<1>12. ServerInv'
  BY <1>1, <1>3, <1>4, <1>6, <1>8, <1>10 DEF QuicInv, ServerInv, InLoop, Streams
<1>13. BranchInv'
  BY <1>1, <1>8 DEF BranchInv
<1> QED
  BY <1>11, <1>12, <1>13 DEF QuicInv

\* The subscription fails, and later ends.
LEMMA RxEndsStep ==
    ASSUME QuicInv, RxError \/ RxNone PROVE QuicInv'
<1>1. /\ UNCHANGED <<env, client, network>>
      /\ response' = response /\ conns' = conns /\ env' = env /\ pc' = pc /\ loop' = loop
      /\ srv = "loop" /\ srv' \in {"closing", "break"} /\ loop.next_message = 0
      /\ rx'.given = rx.given /\ rx'.state \in {"failed", "ended"}
      /\ srv' = "closing" => rx'.state = "failed"
      /\ rx' \in [given : Nat, state : {"live", "failed", "ended"}]
  <2>1. rx \in [given : Nat, state : {"live", "failed", "ended"}]
    BY DEF QuicInv, ServerInv
  <2>2. CASE RxError
    BY <2>1, <2>2 DEF RxError, client
  <2>3. CASE RxNone
    BY <2>1, <2>3 DEF RxNone, client
  <2> QED
    BY <2>2, <2>3
<1>2. ShapeInv' /\ MailInv' /\ PollInv'
  BY <1>1, ServerSide DEF Keeps, QuicInv, ShapeInv
<1>3. ServerInv'
  BY <1>1 DEF QuicInv, ServerInv, InLoop, Streams
<1> QED
  BY <1>1, <1>2, <1>3 DEF QuicInv, BranchInv

\* The close frame is written on a free stream, or on the first that gets free.
LEMMA SpawnClose ==
    ASSUME QuicInv, NEW l \in Loop, srv = "closing", srv' = "loop",
           UNCHANGED <<env, rx, response, conns, client, network>>,
           loop' = Spawn(l, CloseFrame(env.ending)), l.streams # <<>>,
           l.next_message = loop.next_message, l.msg_id = loop.msg_id, Writes(l) = Writes(loop),
           LoopOK(l, env.backlog, env.streams)
    PROVE  QuicInv'
<1> DEFINE frame == CloseFrame(env.ending)
<1>1. /\ env' = env /\ rx' = rx /\ pc' = pc /\ env \in Scenarios /\ UNCHANGED <<env, client, network>>
      /\ rx.state = "failed" /\ loop.next_message = 0 /\ env.streams \in Streams
      /\ response' = response /\ conns' = conns
  BY DEF client, QuicInv, ShapeInv, ServerInv, InLoop
<1>2. frame \in Frame /\ frame.kind # "message"
  BY <1>1, Bounds, Frames
<1>3. env.backlog \in Nat /\ env.streams \in Nat
  BY <1>1, Bounds
<1>4. LoopOK(loop', env.backlog, env.streams) /\ Writes(loop') = Writes(l)
  BY <1>1, <1>2, <1>3, SpawnCloseOK, WritesSpawnClose
<1>5. loop' \in Loop /\ loop'.msg_id = loop.msg_id /\ loop'.next_message = 0
  BY <1>1, <1>2, SpawnFields
<1>6. ShapeInv' /\ MailInv' /\ PollInv'
  <2>1. Keeps(Lines, loop, loop', messages, msg_id)
    BY <1>4, <1>5 DEF Keeps
  <2> QED
    BY <1>1, <1>5, <2>1, ServerSide
<1>7. Given(loop') = Given(loop)
  BY <1>1, <1>5 DEF Given
<1>8. ServerInv'
  BY <1>1, <1>4, <1>5, <1>7 DEF QuicInv, ServerInv, InLoop, Streams
<1> QED
  BY <1>5, <1>6, <1>8 DEF QuicInv, BranchInv

\* The close frame takes a free stream, or that of a write that ends.
LEMMA SendCloseStep ==
    ASSUME QuicInv, SendClose PROVE QuicInv'
<1>1. /\ srv = "closing" /\ UNCHANGED <<env, rx, response, client, network>>
      /\ UNCHANGED <<env, rx, client, network>> /\ response' = response
      /\ loop \in Loop /\ env \in Scenarios /\ LoopOK(loop, env.backlog, env.streams)
  BY DEF SendClose, QuicInv, ShapeInv, ServerInv, InLoop
<1>2. CASE /\ loop.streams # <<>>
           /\ srv' = "loop"
           /\ loop' = Spawn(loop, CloseFrame(env.ending))
           /\ UNCHANGED conns
  BY <1>1, <1>2, SpawnClose
<1>3. ASSUME NEW t \in loop.set, t.state = "written", srv' = "loop", loop.streams = <<>>,
             loop' = Spawn(Joined(loop, t), CloseFrame(env.ending)), UNCHANGED conns
      PROVE  QuicInv'
  <2> DEFINE l == Joined(loop, t)
  <2>1. /\ l \in Loop /\ l.next_message = loop.next_message /\ l.msg_id = loop.msg_id
        /\ l.streams = Append(loop.streams, t.stream)
    BY <1>1, JoinedFields
  <2>2. Writes(l) = Writes(loop)
    BY <1>1, <1>3, WritesJoined
  <2>3. LoopOK(l, env.backlog, env.streams)
    BY <1>1, JoinedOK, Bounds
  <2>4. l.streams # <<>>
    <3>1. t.stream \in Streams /\ loop.streams \in Seq(Streams)
      BY <1>1 DEF Loop, Task
    <3> QED
      BY <2>1, <3>1
  <2> QED
    BY <1>1, <1>3, <2>1, <2>2, <2>3, <2>4, SpawnClose
<1>4. CASE Leave
  BY <1>1, <1>4, Leaving
<1> QED
  BY <1>2, <1>3, <1>4 DEF SendClose

\* A write ended.
LEMMA JoinNextStep ==
    ASSUME QuicInv, JoinNext PROVE QuicInv'
<1>1. /\ srv = "loop" /\ UNCHANGED <<env, rx, client, network>> /\ response' = response
      /\ UNCHANGED <<env, client, network>> /\ env' = env /\ rx' = rx /\ pc' = pc
      /\ loop \in Loop /\ env \in Scenarios /\ LoopOK(loop, env.backlog, env.streams)
      /\ env.streams \in Streams /\ rx.given = Given(loop) /\ loop.next_message \in {0, rx.given}
  BY DEF JoinNext, QuicInv, ShapeInv, ServerInv, InLoop, client
<1>2. ASSUME NEW t \in loop.set, t.state = "written", loop' = TrySend(Joined(loop, t)),
             UNCHANGED <<srv, conns>>
      PROVE  QuicInv'
  <2> DEFINE l == Joined(loop, t)
  <2>1. /\ l \in Loop /\ l.next_message = loop.next_message /\ l.msg_id = loop.msg_id
        /\ l.set = loop.set \ {t}
    BY <1>1, JoinedFields
  <2>2. Writes(l) = Writes(loop)
    BY <1>1, <1>2, WritesJoined
  <2>3. env.streams \in Nat \ {0} /\ env.backlog \in Nat
    BY <1>1, Bounds DEF Streams
  <2>4. LoopOK(l, env.backlog, env.streams)
    BY <1>1, <2>3, JoinedOK
  <2>5. loop' = TrySend(l)
    BY <1>2
  <2> HIDE DEF l
  <2>6. l.msg_id \in Nat /\ l.next_message \in {0, l.msg_id + 1} /\ Given(l) = rx.given
    BY <1>1, <2>1 DEF Given, Loop
  <2>7. /\ LoopOK(loop', env.backlog, env.streams)
        /\ env.backlog > 0 => loop'.next_message = 0 \/ loop'.set # {}
    BY <2>1, <2>3, <2>4, <2>5, <2>6, TrySendOK
  <2>8. Keeps(Lines, loop, loop', messages, msg_id)
    <3>1. Keeps(Lines, l, TrySend(l), messages, msg_id)
      BY <2>1, <2>4, <2>6, LinesType, KeepsTrySend DEF QuicInv, ShapeInv
    <3> QED
      BY <2>1, <2>2, <2>5, <3>1 DEF Keeps
  <2>9. /\ loop' \in Loop /\ Given(loop') = rx.given
        /\ loop'.next_message \in {0, l.next_message}
        /\ (\A u \in l.set : u.frame.kind = "message") => \A u \in loop'.set : u.frame.kind = "message"
    <3>1. CASE loop' = l
      BY <2>1, <2>6, <3>1
    <3>2. ASSUME NEW u \in Task, loop' \in Loop, l.next_message = l.msg_id + 1,
                 u.frame.kind = "message", loop'.next_message = 0,
                 loop'.msg_id = l.msg_id + 1, loop'.set = l.set \cup {u}
          PROVE  /\ loop' \in Loop /\ Given(loop') = rx.given
                 /\ loop'.next_message \in {0, l.next_message}
                 /\ (\A v \in l.set : v.frame.kind = "message") =>
                      \A v \in loop'.set : v.frame.kind = "message"
      BY <2>6, <3>2 DEF Given
    <3> QED
      BY <2>1, <2>5, <2>6, <3>1, <3>2, TrySendFields
  <2>10. ShapeInv' /\ MailInv' /\ PollInv'
    BY <1>1, <2>8, <2>9, ServerSide
  <2>11. ServerInv'
    BY <1>1, <1>2, <2>1, <2>7, <2>9 DEF QuicInv, ServerInv, InLoop, Streams
  <2>12. BranchInv'
    BY <1>1, <1>2, <2>7 DEF BranchInv
  <2> QED
    BY <2>10, <2>11, <2>12 DEF QuicInv
<1>3. CASE Leave
  BY <1>1, <1>3, Leaving
<1> QED
  BY <1>2, <1>3 DEF JoinNext

\* Only a max_backlog of zero leaves select! without a branch.
LEMMA SelectPanicsStep ==
    ASSUME QuicInv, SelectPanics PROVE QuicInv'
<1>1. /\ srv = "loop" /\ srv' = "panicked" /\ loop.set = {} /\ loop' = loop /\ rx' = rx
      /\ UNCHANGED <<env, client, network>> /\ response' = response /\ conns' = conns
      /\ env' = env /\ pc' = pc /\ loop.next_message # 0
  BY DEF SelectPanics, client
<1>2. ShapeInv' /\ MailInv' /\ PollInv'
  BY <1>1, ServerSide DEF Keeps, QuicInv, ShapeInv
<1>3. ServerInv'
  BY <1>1 DEF QuicInv, ServerInv, InLoop, Streams
<1>4. BranchInv'
  BY <1>1 DEF QuicInv, BranchInv
<1> QED
  BY <1>2, <1>3, <1>4 DEF QuicInv

\* Readers stay attended while the client is not polling.
LEMMA PollKeeps ==
    ASSUME QuicInv, UNCHANGED <<env, pc>>, poll'.index = poll.index, poll'.polled = poll.polled,
           \A s \in poll'.wakers : arrived'[s] = <<>>,
           \A s \in Streams : Attended(s) => Attended(s)'
    PROVE  PollInv'
<1>1. env' = env /\ pc' = pc
  OBVIOUS
<1>3. Reader' = Reader
  BY <1>1 DEF Reader
<1>4. pc \in {"readers", "pending"} => Reader \subseteq Streams
  BY ReadersAreStreams DEF QuicInv
<1> QED
  BY <1>1, <1>3, <1>4 DEF QuicInv, PollInv, Ago

\* A write that comes to its end keeps its stream and its id until it is joined.
LEMMA WriteLoop ==
    ASSUME QuicInv, NEW t \in loop.set, Write(t)
    PROVE  /\ t \in Task /\ InLoop
           /\ loop' \in Loop /\ loop'.msg_id = loop.msg_id /\ loop'.next_message = loop.next_message
           /\ Writes(loop') = Writes(loop) \ {t}
           /\ LoopOK(loop', env.backlog, env.streams)
           /\ (\A u \in loop.set : u.frame.kind = "message") =>
                \A u \in loop'.set : u.frame.kind = "message"
           /\ loop'.set # {}
           /\ t.frame.kind = "message" => t.frame.id = t.id /\ t \in Writes(loop)
<1> DEFINE w == [t EXCEPT !.state = IF conn = "open" THEN "written" ELSE "failed"]
<1>1. loop \in Loop /\ InLoop /\ LoopOK(loop, env.backlog, env.streams) /\ t.state = "writing"
      /\ env.backlog \in Nat /\ env.streams \in Nat
  BY Bounds DEF QuicInv, ShapeInv, ServerInv, Write
<1>2. loop.set \in SUBSET Task /\ t \in Task
  BY <1>1 DEF Loop
<1>3. /\ w \in Task /\ w.stream = t.stream /\ w.id = t.id /\ w.frame = t.frame
      /\ w.state # "writing"
  BY <1>2 DEF Task
<1> HIDE DEF w
<1>4. loop' = [loop EXCEPT !.set = (loop.set \ {t}) \cup {w}]
  BY DEF Write, w
<1>5. (loop.set \ {t}) \cup {w} \in SUBSET Task
  BY <1>2, <1>3
<1>6. /\ loop' \in Loop /\ loop'.msg_id = loop.msg_id /\ loop'.next_message = loop.next_message
      /\ loop'.msg_ids = loop.msg_ids /\ loop'.streams = loop.streams
      /\ loop'.set = (loop.set \ {t}) \cup {w}
  BY <1>1, <1>4, <1>5 DEF Loop
<1>7. Counted(loop', env.streams)
  <2>1. w \notin loop.set \ {t}
    BY <1>1, <1>3 DEF LoopOK, Counted, FreeStreams
  <2>2. IsFiniteSet(loop.set \ {t}) /\ Cardinality(loop.set \ {t}) = Cardinality(loop.set) - 1
    BY <1>1, FS_RemoveElement DEF LoopOK, Counted
  <2>3. /\ IsFiniteSet(loop'.set) /\ Cardinality(loop'.set) = (Cardinality(loop.set) - 1) + 1
        /\ Cardinality(loop.set) \in Nat
    BY <1>1, <1>6, <2>1, <2>2, FS_AddElement, FS_CardinalityType DEF LoopOK, Counted
  <2>4. FreeStreams(loop')
    BY <1>1, <1>3, <1>6 DEF LoopOK, Counted, FreeStreams
  <2> QED
    BY <1>1, <1>6, <2>3, <2>4 DEF LoopOK, Counted
<1>8. Ids(loop', env.backlog)
  BY <1>1, <1>3, <1>6 DEF LoopOK, Ids
<1>9. Writes(loop') = Writes(loop) \ {t}
  BY <1>3, <1>6 DEF Writes
<1> QED
  BY <1>1, <1>2, <1>3, <1>6, <1>7, <1>8, <1>9 DEF LoopOK, Ids, Writes

\* A frame that is written, or reported as lost.
LEMMA WriteStep ==
    ASSUME QuicInv, NEW t \in loop.set, Write(t) PROVE QuicInv'
<1>1. /\ t \in Task /\ InLoop
      /\ loop' \in Loop /\ loop'.msg_id = loop.msg_id /\ loop'.next_message = loop.next_message
      /\ Writes(loop') = Writes(loop) \ {t}
      /\ LoopOK(loop', env.backlog, env.streams)
      /\ (\A u \in loop.set : u.frame.kind = "message") =>
           \A u \in loop'.set : u.frame.kind = "message"
      /\ loop'.set # {}
      /\ t.frame.kind = "message" => t.frame.id = t.id /\ t \in Writes(loop)
  BY WriteLoop
<1>2. /\ env' = env /\ pc' = pc /\ rx' = rx /\ srv' = srv /\ response' = response /\ conns' = conns
      /\ UNCHANGED <<env, client>> /\ UNCHANGED <<env, pc>> /\ poll' = poll /\ messages' = messages
      /\ msg_id' = msg_id /\ arrived' = arrived /\ conn' = conn /\ faults' = faults
  BY DEF Write, client
<1>3. ServerInv'
  <2>1. Given(loop') = Given(loop)
    BY <1>1 DEF Given
  <2> QED
    BY <1>1, <1>2, <2>1 DEF QuicInv, ServerInv, InLoop, Streams
<1>4. BranchInv'
  BY <1>1, <1>2 DEF QuicInv, BranchInv
<1>5. /\ Lines \in [Streams -> Seq(Frame)] /\ loop.msg_id \in Nat /\ msg_id \in Nat
      /\ sent \in [Streams -> Seq(Frame)] /\ arrived \in [Streams -> Seq(Frame)]
      /\ messages \subseteq MessageFrames /\ Writes(loop) \subseteq Task
      /\ Mail(Lines, Writes(loop), messages, msg_id, loop.msg_id)
      /\ Writes(loop') \subseteq Writes(loop)
  BY <1>1, LinesType DEF QuicInv, ShapeInv, Loop, Writes, MailInv
<1>6. CASE conn # "open"
  <2>1. UNCHANGED <<env, client, network>>
    BY <1>2, <1>6 DEF Write, network
  <2>2. Keeps(Lines, loop, loop', messages, msg_id)
    BY <1>1, <1>5, KeepsFewer
  <2> QED
    BY <1>1, <1>3, <1>4, <2>1, <2>2, ServerSide DEF QuicInv
<1>7. CASE conn = "open"
  <2> DEFINE s == t.stream
             f == t.frame
  <2>1. s \in Streams /\ f \in Frame /\ sent' = [sent EXCEPT ![s] = Append(sent[s], f)]
    BY <1>1, <1>7 DEF Write, Task
  <2> HIDE DEF s, f
  <2>2. sent' \in [Streams -> Seq(Frame)]
    BY <1>5, <2>1
  <2>3. ShapeInv'
    BY <1>1, <1>2, <2>2 DEF QuicInv, ShapeInv, client, MessageFrames, Frame
  <2>4. Lines' = [Lines EXCEPT ![s] = Append(Lines[s], f)]
    <3>1. \A z \in Streams : Lines'[z] = arrived[z] \o sent'[z] /\ Lines[z] = arrived[z] \o sent[z]
      BY <1>2 DEF Lines
    <3>2. arrived[s] \in Seq(Frame) /\ sent[s] \in Seq(Frame) /\ sent'[s] = Append(sent[s], f)
      BY <1>5, <2>1
    <3>3. arrived[s] \o Append(sent[s], f) = Append(arrived[s] \o sent[s], f)
      <4>1. \A a, b \in Seq(Frame) : \A e \in Frame : a \o Append(b, e) = Append(a \o b, e)
        BY ConcatAppend
      <4> QED
        BY <2>1, <3>2, <4>1
    <3>4. \A z \in Streams : z # s => sent'[z] = sent[z]
      BY <1>5, <2>1
    <3>5. DOMAIN Lines' = Streams /\ DOMAIN Lines = Streams
      BY DEF Lines
    <3>6. Lines' \in [Streams -> Seq(Frame)]
      BY <2>3, LinesType DEF ShapeInv, Lines
    <3> QED
      BY <1>5, <2>1, <3>1, <3>2, <3>3, <3>4, <3>6
  <2>5. Lines' \in [Streams -> Seq(Frame)]
    <3>1. Append(Lines[s], f) \in Seq(Frame)
      BY <1>5, <2>1
    <3> QED
      BY <1>5, <2>1, <2>4, <3>1
  <2>6. /\ Mail(Lines', Writes(loop'), messages, msg_id, loop.msg_id)
        /\ \A z \in Streams : Passed(Lines, Writes(loop), msg_id, loop.msg_id, z)
                               => Passed(Lines', Writes(loop'), msg_id, loop.msg_id, z)
    <3>1. CASE f.kind = "message"
      <4>1. t \in Writes(loop) /\ t.frame.id = t.id /\ t.frame.kind = "message"
        BY <1>1, <3>1 DEF f
      <4>2. Lines' = [Lines EXCEPT ![t.stream] = Append(Lines[t.stream], t.frame)]
        BY <2>4 DEF s, f
      <4>3. Mail(Lines', Writes(loop) \ {t}, messages, msg_id, loop.msg_id)
        BY <1>5, <2>5, <4>1, <4>2, MailWrite
      <4>4. \A z \in Streams : Passed(Lines, Writes(loop), msg_id, loop.msg_id, z)
                               => Passed(Lines', Writes(loop) \ {t}, msg_id, loop.msg_id, z)
        BY <1>5, <2>5, <4>1, <4>2, PassedWrite
      <4> QED
        BY <1>1, <4>3, <4>4
    <3>2. CASE f.kind # "message"
      <4>1. Closing(Lines', Lines)
        <5> SUFFICES ASSUME NEW z \in Streams
                     PROVE  /\ Len(Lines'[z]) = Len(Lines[z]) \/ Len(Lines'[z]) = Len(Lines[z]) + 1
                            /\ \A i \in 1 .. Len(Lines[z]) : Lines'[z][i] = Lines[z][i]
                            /\ \A i \in 1 .. Len(Lines'[z]) :
                                 i > Len(Lines[z]) => Lines'[z][i].kind # "message"
          BY DEF Closing
        <5>1. Lines[z] \in Seq(Frame) /\ Len(Lines[z]) \in Nat
          BY <1>5
        <5>2. CASE z = s
          <6>1. Lines'[z] = Append(Lines[z], f)
            BY <1>5, <2>1, <2>4, <5>2
          <6> QED
            BY <2>1, <3>2, <5>1, <6>1
        <5>3. CASE z # s
          BY <1>5, <2>4, <5>1, <5>3
        <5> QED
          BY <5>2, <5>3
      <4>2. Mail(Lines', Writes(loop'), messages, msg_id, loop.msg_id)
        BY <1>5, <2>5, <4>1, MailCloses
      <4>3. \A z \in Streams : Passed(Lines, Writes(loop), msg_id, loop.msg_id, z)
                               => Passed(Lines', Writes(loop'), msg_id, loop.msg_id, z)
        BY <1>5, <2>5, <4>1, PassedCloses
      <4> QED
        BY <4>2, <4>3
    <3> QED
      BY <3>1, <3>2
  <2>7. MailInv'
    BY <1>1, <1>2, <2>6 DEF MailInv
  <2>8. \A z \in Streams : Attended(z) => Attended(z)'
    BY <1>1, <1>2, <2>6 DEF Attended
  <2>9. PollInv'
    BY <1>2, <2>8, PollKeeps DEF QuicInv, PollInv
  <2> QED
    BY <1>3, <1>4, <2>3, <2>7, <2>9 DEF QuicInv
<1> QED
  BY <1>6, <1>7

\* The streams are finished and the handler returns.
LEMMA FinishStreamsStep ==
    ASSUME QuicInv, FinishStreams PROVE QuicInv'
<1>1. /\ srv = "break" /\ srv' = "done" /\ conns' = 0 /\ loop' = [loop EXCEPT !.set = {}]
      /\ env' = env /\ pc' = pc /\ rx' = rx /\ response' = response /\ UNCHANGED <<env, pc>>
      /\ poll' = poll /\ messages' = messages /\ msg_id' = msg_id /\ out' = out
      /\ arrived' = arrived /\ conn' = conn
      /\ sent' = [s \in Streams |->
                   IF s \in Reader /\ conn = "open" THEN Append(sent[s], Fin) ELSE sent[s]]
  BY DEF FinishStreams, Leave, client
<1>2. /\ Lines \in [Streams -> Seq(Frame)] /\ loop \in Loop /\ msg_id \in Nat
      /\ sent \in [Streams -> Seq(Frame)] /\ arrived \in [Streams -> Seq(Frame)]
      /\ Mail(Lines, Writes(loop), messages, msg_id, loop.msg_id)
  BY LinesType DEF QuicInv, ShapeInv, MailInv
<1>3. /\ loop' \in Loop /\ loop'.set = {} /\ loop'.msg_id = loop.msg_id /\ loop.msg_id \in Nat
      /\ loop'.next_message = loop.next_message /\ Writes(loop') \subseteq Writes(loop)
  BY <1>1, <1>2 DEF Loop, Writes
<1>4. Fin \in Frame /\ Fin.kind # "message"
  BY Frames
<1>5. ASSUME NEW s \in Streams
      PROVE  /\ sent'[s] \in Seq(Frame)
             /\ Lines'[s] = Lines[s] \/ Lines'[s] = Append(Lines[s], Fin)
  <2>1. \A a, b \in Seq(Frame) : \A e \in Frame : a \o Append(b, e) = Append(a \o b, e)
    BY ConcatAppend
  <2>2. sent[s] \in Seq(Frame) /\ arrived[s] \in Seq(Frame)
    BY <1>2
  <2>3. sent'[s] = sent[s] \/ sent'[s] = Append(sent[s], Fin)
    BY <1>1
  <2>4. Lines'[s] = arrived[s] \o sent'[s] /\ Lines[s] = arrived[s] \o sent[s]
    BY <1>1 DEF Lines
  <2>5. arrived[s] \o Append(sent[s], Fin) = Append(arrived[s] \o sent[s], Fin)
    BY <1>4, <2>1, <2>2
  <2>6. Append(sent[s], Fin) \in Seq(Frame)
    BY <1>4, <2>2
  <2>7. sent'[s] \in Seq(Frame)
    BY <2>2, <2>3, <2>6
  <2> QED
    BY <2>3, <2>4, <2>5, <2>7
<1>6. sent' \in [Streams -> Seq(Frame)]
  BY <1>1, <1>5
<1>7. ShapeInv'
  BY <1>1, <1>3, <1>6 DEF QuicInv, ShapeInv, MessageFrames, Frame
<1>8. Lines' \in [Streams -> Seq(Frame)]
  <2>1. ASSUME NEW s \in Streams PROVE Lines'[s] \in Seq(Frame)
    <3>1. Lines[s] \in Seq(Frame)
      BY <1>2
    <3>2. Append(Lines[s], Fin) \in Seq(Frame)
      BY <1>4, <3>1
    <3> QED
      BY <1>5, <3>1, <3>2
  <2> QED
    BY <2>1 DEF Lines
<1>9. Closing(Lines', Lines)
  <2> SUFFICES ASSUME NEW z \in Streams
               PROVE  /\ Len(Lines'[z]) = Len(Lines[z]) \/ Len(Lines'[z]) = Len(Lines[z]) + 1
                      /\ \A i \in 1 .. Len(Lines[z]) : Lines'[z][i] = Lines[z][i]
                      /\ \A i \in 1 .. Len(Lines'[z]) :
                           i > Len(Lines[z]) => Lines'[z][i].kind # "message"
    BY DEF Closing
  <2>1. Lines[z] \in Seq(Frame) /\ Len(Lines[z]) \in Nat
    BY <1>2
  <2>2. CASE Lines'[z] = Append(Lines[z], Fin)
    BY <1>4, <2>1, <2>2
  <2>3. CASE Lines'[z] = Lines[z]
    BY <2>1, <2>3
  <2> QED
    BY <1>5, <2>2, <2>3
<1>10. Mail(Lines', Writes(loop'), messages, msg_id, loop.msg_id)
  BY <1>2, <1>3, <1>8, <1>9, MailCloses
<1>11. \A z \in Streams : Passed(Lines, Writes(loop), msg_id, loop.msg_id, z)
                          => Passed(Lines', Writes(loop'), msg_id, loop.msg_id, z)
  BY <1>2, <1>3, <1>8, <1>9, PassedCloses
<1>12. MailInv'
  BY <1>1, <1>3, <1>10 DEF MailInv
<1>13. \A z \in Streams : Attended(z) => Attended(z)'
  BY <1>1, <1>3, <1>11 DEF Attended
<1>14. PollInv'
  BY <1>1, <1>13, PollKeeps DEF QuicInv, PollInv
<1>15. ServerInv'
  <2>1. Given(loop') = Given(loop)
    BY <1>3 DEF Given
  <2> QED
    BY <1>1, <1>3, <2>1 DEF QuicInv, ServerInv, InLoop, Streams
<1> QED
  BY <1>1, <1>7, <1>12, <1>14, <1>15 DEF QuicInv, BranchInv

\* A frame that arrives stays where it was on its line and wakes its reader.
LEMMA ArriveStep ==
    ASSUME QuicInv, NEW s \in Streams, Arrive(s) PROVE QuicInv'
<1>1. /\ sent[s] # <<>> /\ sent' = [sent EXCEPT ![s] = Tail(sent[s])]
      /\ arrived' = [arrived EXCEPT ![s] = Append(arrived[s], Head(sent[s]))]
      /\ poll' = Wake(poll, s) /\ loop' = loop
      /\ env' = env /\ pc' = pc /\ rx' = rx /\ srv' = srv /\ conns' = conns /\ response' = response
      /\ UNCHANGED <<env, pc>> /\ messages' = messages /\ msg_id' = msg_id /\ out' = out /\ conn' = conn
  BY DEF Arrive, server
<1>2. /\ sent \in [Streams -> Seq(Frame)] /\ arrived \in [Streams -> Seq(Frame)]
      /\ poll \in [index : Nat, polled : Nat, wakers : SUBSET Streams, woken : BOOLEAN]
  BY DEF QuicInv, ShapeInv
<1>3. /\ sent[s] \in Seq(Frame) /\ arrived[s] \in Seq(Frame)
      /\ Tail(sent[s]) \in Seq(Frame) /\ Append(arrived[s], Head(sent[s])) \in Seq(Frame)
  BY <1>1, <1>2
<1>4. sent' \in [Streams -> Seq(Frame)] /\ arrived' \in [Streams -> Seq(Frame)]
  BY <1>1, <1>2, <1>3
<1>5. /\ poll' \in [index : Nat, polled : Nat, wakers : SUBSET Streams, woken : BOOLEAN]
      /\ poll'.index = poll.index /\ poll'.polled = poll.polled
      /\ poll'.wakers = poll.wakers \ {s}
      /\ poll.woken => poll'.woken
      /\ s \in poll.wakers => poll'.woken
  BY <1>1, <1>2 DEF Wake
<1>6. ShapeInv'
  BY <1>1, <1>4, <1>5 DEF QuicInv, ShapeInv, MessageFrames, Frame
<1>7. Lines' = Lines
  <2>1. \A a, b \in Seq(Frame) : b # <<>> => Append(a, Head(b)) \o Tail(b) = a \o b
    BY ConcatShift
  <2>2. arrived'[s] \o sent'[s] = arrived[s] \o sent[s]
    BY <1>1, <1>2, <1>3, <2>1
  <2>3. ASSUME NEW z \in Streams PROVE arrived'[z] \o sent'[z] = arrived[z] \o sent[z]
    BY <1>1, <1>2, <2>2
  <2> QED
    BY <2>3 DEF Lines
<1>8. MailInv'
  BY <1>1, <1>7 DEF QuicInv, MailInv
<1>9. \A z \in Streams : Attended(z) => Attended(z)'
  BY <1>1, <1>5, <1>7 DEF Attended
<1>10. ASSUME NEW z \in poll'.wakers PROVE arrived'[z] = <<>>
  BY <1>1, <1>2, <1>5 DEF QuicInv, PollInv
<1>11. PollInv'
  BY <1>1, <1>5, <1>9, <1>10, PollKeeps
<1>12. ServerInv' /\ BranchInv'
  BY <1>1 DEF QuicInv, ServerInv, BranchInv, InLoop, Streams
<1> QED
  BY <1>6, <1>8, <1>11, <1>12 DEF QuicInv

\* A connection that ends loses what is on its way and wakes every reader.
LEMMA LoseStep ==
    ASSUME QuicInv, Lose PROVE QuicInv'
<1>1. /\ conn' = "lost" /\ sent' = [s \in Streams |-> <<>>] /\ loop' = loop
      /\ poll' = IF poll.wakers = {} THEN poll ELSE [poll EXCEPT !.wakers = {}, !.woken = TRUE]
      /\ env' = env /\ pc' = pc /\ rx' = rx /\ srv' = srv /\ conns' = conns /\ response' = response
      /\ UNCHANGED <<env, pc>> /\ messages' = messages /\ msg_id' = msg_id /\ out' = out
      /\ arrived' = arrived
  BY DEF Lose, server
<1>2. /\ sent \in [Streams -> Seq(Frame)] /\ arrived \in [Streams -> Seq(Frame)]
      /\ poll \in [index : Nat, polled : Nat, wakers : SUBSET Streams, woken : BOOLEAN]
      /\ Lines \in [Streams -> Seq(Frame)] /\ msg_id \in Nat /\ loop.msg_id \in Nat
      /\ Mail(Lines, Writes(loop), messages, msg_id, loop.msg_id)
  BY LinesType DEF QuicInv, ShapeInv, MailInv, Loop
<1>3. sent' \in [Streams -> Seq(Frame)]
  BY <1>1
<1>4. /\ poll' \in [index : Nat, polled : Nat, wakers : SUBSET Streams, woken : BOOLEAN]
      /\ poll'.index = poll.index /\ poll'.polled = poll.polled
      /\ poll'.wakers = {}
      /\ poll.woken => poll'.woken
      /\ poll.wakers # {} => poll'.woken
  BY <1>1, <1>2
<1>5. ShapeInv'
  BY <1>1, <1>3, <1>4 DEF QuicInv, ShapeInv, MessageFrames, Frame
<1>6. ASSUME NEW s \in Streams
      PROVE  Lines'[s] = arrived[s] /\ Lines[s] = arrived[s] \o sent[s]
             /\ arrived[s] \in Seq(Frame) /\ sent[s] \in Seq(Frame)
  BY <1>1, <1>2 DEF Lines
<1>7. Lines' \in [Streams -> Seq(Frame)]
  BY <1>6 DEF Lines
<1>8. Behind(Lines', Lines)
  <2> SUFFICES ASSUME NEW z \in Streams
               PROVE  \E k \in Nat : /\ Len(Lines'[z]) + k <= Len(Lines[z])
                                     /\ \A i \in 1 .. Len(Lines'[z]) : Lines'[z][i] = Lines[z][i + k]
    BY DEF Behind
  <2>1. Len(arrived[z]) + 0 <= Len(arrived[z] \o sent[z])
        /\ \A i \in 1 .. Len(arrived[z]) : arrived[z][i] = (arrived[z] \o sent[z])[i + 0]
    <3>1. \A a, b \in Seq(Frame) :
            Len(a) + 0 <= Len(a \o b) /\ \A i \in 1 .. Len(a) : a[i] = (a \o b)[i + 0]
      OBVIOUS
    <3> QED
      BY <1>6, <3>1
  <2> QED
    BY <1>6, <2>1
<1>9. Mail(Lines', Writes(loop), messages, msg_id, loop.msg_id)
  BY <1>2, <1>7, <1>8, MailShrinks
<1>10. \A z \in Streams : Passed(Lines, Writes(loop), msg_id, loop.msg_id, z)
                          => Passed(Lines', Writes(loop), msg_id, loop.msg_id, z)
  BY <1>2, <1>7, <1>8, PassedShrinks
<1>11. MailInv'
  BY <1>1, <1>9 DEF MailInv
<1>12. \A z \in Streams : Attended(z) => Attended(z)'
  BY <1>1, <1>4, <1>10 DEF Attended
<1>13. PollInv'
  BY <1>1, <1>4, <1>12, PollKeeps
<1>14. ServerInv' /\ BranchInv'
  BY <1>1 DEF QuicInv, ServerInv, BranchInv, InLoop, Streams
<1> QED
  BY <1>5, <1>11, <1>13, <1>14 DEF QuicInv

\* The readers are polled in turn.
LEMMA NextReader ==
    ASSUME NEW n \in Nat \ {0}, NEW i \in 1 .. n
    PROVE  (i % n) + 1 = IF i = n THEN 1 ELSE i + 1
<1>0. i \in Nat
  OBVIOUS
<1>1. i = (n * (i \div n)) + (i % n) /\ i % n \in 0 .. n - 1 /\ i \div n \in Nat
  BY <1>0, DivMod, Zenon
<1>2. n * 0 = 0 /\ n * 1 = n
  OBVIOUS
<1>3. CASE i = n
  <2>1. i \div n < 1 => FALSE
    BY <1>1, <1>2, <1>3
  <2>2. 1 < i \div n => FALSE
    BY <1>1, <1>2, <1>3, MultipleGap
  <2>3. i \div n = 1
    BY <1>1, <2>1, <2>2
  <2> QED
    BY <1>1, <1>2, <1>3, <2>3
<1>4. CASE i < n
  <2>1. 0 < i \div n => FALSE
    BY <1>1, <1>2, <1>4, MultipleGap
  <2>2. i \div n = 0
    BY <1>1, <2>1
  <2> QED
    BY <1>1, <1>2, <1>4, <2>2
<1> QED
  BY <1>3, <1>4

\* When the turn goes on, every other reader was polled one turn longer ago.
LEMMA AgoTurn ==
    ASSUME NEW n \in Nat \ {0}, NEW i \in 1 .. n, NEW s \in 1 .. n
    PROVE  /\ (i % n) + 1 \in 1 .. n
           /\ Ago(s, (i % n) + 1, n) = IF s = i THEN 1 ELSE Ago(s, i, n) + 1
           /\ Ago(s, i, n) \in 1 .. n
           /\ s # i => Ago(s, i, n) < n
<1> DEFINE k == (i % n) + 1
<1>1. k = IF i = n THEN 1 ELSE i + 1
  BY NextReader
<1> HIDE DEF k
<1>2. /\ k \in 1 .. n
      /\ Ago(s, k, n) = IF s = i THEN 1 ELSE Ago(s, i, n) + 1
      /\ Ago(s, i, n) \in 1 .. n
      /\ s # i => Ago(s, i, n) < n
  BY <1>1 DEF Ago
<1> QED
  BY <1>2 DEF k

\* A step of the client leaves the server alone.
LEMMA ClientSide ==
    ASSUME QuicInv, UNCHANGED <<env, response, server>>,
           pc' \in {"accept", "poll", "readers", "pending"} => env.streams \in Streams
    PROVE  ServerInv' /\ BranchInv' /\ env' = env /\ loop' = loop
  BY DEF QuicInv, ServerInv, BranchInv, InLoop, Streams, server

\* Subscribing: the answer, then the streams.
LEMMA SubscribeStep ==
    ASSUME QuicInv, ParseResponse \/ AcceptUni PROVE QuicInv'
<1>1. /\ UNCHANGED <<env, response, server, network>> /\ UNCHANGED <<env, response, server>>
      /\ poll' = poll /\ messages' = messages /\ msg_id' = msg_id /\ out' = out
      /\ sent' = sent /\ arrived' = arrived /\ conn' = conn
  BY DEF ParseResponse, AcceptUni, network
<1>2. pc' \in {"accept", "poll", "ended"}
  BY DEF ParseResponse, AcceptUni, Ends
<1>3. pc' \in {"accept", "poll"} => env.streams \in Streams
  BY DEF ParseResponse, AcceptUni, Ends, QuicInv, ServerInv
<1>4. ServerInv' /\ BranchInv' /\ env' = env /\ loop' = loop
  BY <1>1, <1>2, <1>3, ClientSide
<1>5. ShapeInv'
  BY <1>1, <1>2, <1>4 DEF QuicInv, ShapeInv, MessageFrames, Frame
<1>6. MailInv'
  BY <1>1, <1>4 DEF QuicInv, MailInv, Lines
<1>7. PollInv'
  BY <1>1, <1>2, <1>4 DEF QuicInv, PollInv, Reader
<1> QED
  BY <1>4, <1>5, <1>6, <1>7 DEF QuicInv

\* The caller gets the message whose turn it is.
LEMMA GiveShape ==
    ASSUME ShapeInv, NEW f \in MessageFrames, f.id = msg_id, Give(f)
    PROVE  /\ out' \in Seq(Nat) /\ msg_id' \in Nat /\ msg_id' = msg_id + 1 /\ Len(out') = msg_id'
           /\ \A i \in 1 .. Len(out') : out'[i] = i
<1>1. out \in Seq(Nat) /\ msg_id \in Nat /\ Len(out) = msg_id
      /\ \A i \in 1 .. Len(out) : out[i] = i
  BY DEF ShapeInv
<1>2. f.body = msg_id + 1 /\ f.body \in Nat
  <2>1. f \in Frame /\ f.kind = "message"
    BY DEF MessageFrames
  <2> QED
    BY <1>1, <2>1 DEF Frame
<1>3. out' = Append(out, f.body) /\ msg_id' = msg_id + 1
  BY DEF Give
<1> QED
  BY <1>1, <1>2, <1>3

\* A message that came out of turn is given when its turn comes.
LEMMA TakeBufferedStep ==
    ASSUME QuicInv, TakeBuffered PROVE QuicInv'
<1>1. PICK f \in messages : /\ f.id = msg_id /\ Give(f) /\ messages' = messages \ {f}
  BY DEF TakeBuffered, InTurn
<1>2. /\ UNCHANGED <<env, response, server>> /\ sent' = sent /\ arrived' = arrived /\ conn' = conn
      /\ pc = "poll" /\ pc' = "poll" /\ poll' = [poll EXCEPT !.woken = FALSE]
  BY DEF TakeBuffered, network
<1>3. env.streams \in Streams /\ f \in MessageFrames /\ messages \subseteq MessageFrames
      /\ poll \in [index : Nat, polled : Nat, wakers : SUBSET Streams, woken : BOOLEAN]
  BY <1>2 DEF QuicInv, ServerInv, ShapeInv
<1>4. ServerInv' /\ BranchInv' /\ env' = env /\ loop' = loop
  BY <1>2, <1>3, ClientSide
<1>5. /\ out' \in Seq(Nat) /\ msg_id' \in Nat /\ msg_id' = msg_id + 1 /\ Len(out') = msg_id'
      /\ \A i \in 1 .. Len(out') : out'[i] = i
  BY <1>1, <1>3, GiveShape DEF QuicInv
<1>6. /\ poll' \in [index : Nat, polled : Nat, wakers : SUBSET Streams, woken : BOOLEAN]
      /\ poll'.index = poll.index /\ poll'.polled = poll.polled /\ poll'.wakers = poll.wakers
  BY <1>2, <1>3
<1>7. ShapeInv'
  BY <1>1, <1>2, <1>3, <1>4, <1>5, <1>6 DEF QuicInv, ShapeInv, MessageFrames, Frame
<1>8. MailInv'
  <2>1. /\ Lines \in [Streams -> Seq(Frame)] /\ Lines' = Lines /\ msg_id \in Nat /\ loop.msg_id \in Nat
        /\ Writes(loop) \in SUBSET Task /\ messages \ {f} \in SUBSET MessageFrames
        /\ Mail(Lines, Writes(loop), messages, msg_id, loop.msg_id)
    BY <1>2, <1>3, LinesType DEF QuicInv, ShapeInv, Lines, Loop, Writes, MailInv
  <2>2. Mail(Lines, Writes(loop), messages \ {f}, msg_id, loop.msg_id)
    BY <2>1 DEF Mail
  <2>3. ASSUME NEW g \in messages \ {f} PROVE g.id # msg_id
    BY <1>1, <1>3, SameId
  <2>4. msg_id < loop.msg_id /\ \A t \in Writes(loop) : t.id # msg_id
    BY <1>1, <2>1 DEF Mail
  <2>5. ASSUME NEW s \in Streams, NEW i \in 1 .. Len(Lines[s]) PROVE Lines[s][i].id # msg_id
    <3>1. CASE Lines[s][i].kind = "message"
      BY <1>1, <2>1, <3>1 DEF Mail
    <3>2. CASE Lines[s][i].kind # "message"
      <4>1. Lines[s][i].id = -1
        BY <2>1, <3>2, MailTypes
      <4> QED
        BY <2>1, <4>1
    <3> QED
      BY <3>1, <3>2
  <2>6. Mail(Lines, Writes(loop), messages \ {f}, msg_id + 1, loop.msg_id)
    BY <2>1, <2>2, <2>3, <2>4, <2>5, MailRaise
  <2> QED
    BY <1>1, <1>4, <1>5, <2>1, <2>6 DEF MailInv
<1>9. PollInv'
  BY <1>2, <1>4, <1>6 DEF QuicInv, PollInv, Reader
<1> QED
  BY <1>4, <1>7, <1>8, <1>9 DEF QuicInv

\* A round of the readers starts.
LEMMA StartReadersStep ==
    ASSUME QuicInv, StartReaders PROVE QuicInv'
<1>1. /\ UNCHANGED <<env, response, server>> /\ sent' = sent /\ arrived' = arrived /\ conn' = conn
      /\ pc = "poll" /\ pc' = "readers" /\ poll' = [poll EXCEPT !.polled = 0, !.woken = FALSE]
      /\ messages' = messages /\ msg_id' = msg_id /\ out' = out
  BY DEF StartReaders, network
<1>2. env.streams \in Streams /\ env.streams \in Nat \ {0}
      /\ poll \in [index : Nat, polled : Nat, wakers : SUBSET Streams, woken : BOOLEAN]
      /\ poll.index \in Reader
  BY <1>1, ReadersAreStreams DEF QuicInv, ServerInv, ShapeInv, PollInv
<1>3. ServerInv' /\ BranchInv' /\ env' = env /\ loop' = loop
  BY <1>1, <1>2, ClientSide
<1>4. /\ poll' \in [index : Nat, polled : Nat, wakers : SUBSET Streams, woken : BOOLEAN]
      /\ poll'.index = poll.index /\ poll'.polled = 0 /\ poll'.wakers = poll.wakers
  BY <1>1, <1>2
<1>5. ShapeInv'
  BY <1>1, <1>3, <1>4 DEF QuicInv, ShapeInv, MessageFrames, Frame
<1>6. MailInv'
  BY <1>1, <1>3 DEF QuicInv, MailInv, Lines
<1>7. ASSUME NEW s \in Reader PROVE ~(Ago(s, poll.index, env.streams) <= 0)
  <2>1. Ago(s, poll.index, env.streams) \in 1 .. env.streams
    BY <1>2, AgoTurn DEF Reader
  <2> QED
    BY <2>1
<1>8. PollInv'
  BY <1>1, <1>2, <1>3, <1>4, <1>7 DEF QuicInv, PollInv, Reader
<1> QED
  BY <1>3, <1>5, <1>6, <1>8 DEF QuicInv

\* The task runs again.
LEMMA WokenStep ==
    ASSUME QuicInv, Woken PROVE QuicInv'
<1>1. /\ UNCHANGED <<env, response, server>> /\ sent' = sent /\ arrived' = arrived /\ conn' = conn
      /\ pc = "pending" /\ pc' = "poll" /\ poll' = poll
      /\ messages' = messages /\ msg_id' = msg_id /\ out' = out
  BY DEF Woken, network
<1>2. env.streams \in Streams
  BY <1>1 DEF QuicInv, ServerInv
<1>3. ServerInv' /\ BranchInv' /\ env' = env /\ loop' = loop
  BY <1>1, <1>2, ClientSide
<1>4. ShapeInv'
  BY <1>1, <1>3 DEF QuicInv, ShapeInv, MessageFrames, Frame
<1>5. MailInv'
  BY <1>1, <1>3 DEF QuicInv, MailInv, Lines
<1>6. PollInv'
  BY <1>1, <1>3 DEF QuicInv, PollInv, Reader
<1> QED
  BY <1>3, <1>4, <1>5, <1>6 DEF QuicInv

\* The next reader's turn; after the last one the task sleeps.
LEMMA PolledTurn ==
    ASSUME QuicInv, pc = "readers", NEW W \in SUBSET Streams, Polled(W), env' = env,
           NEW CONSTANT i, i = poll.index
    PROVE  /\ poll' \in [index : Nat, polled : Nat, wakers : SUBSET Streams, woken : BOOLEAN]
           /\ poll'.wakers = W /\ poll'.woken = poll.woken
           /\ pc' \in {"readers", "pending"}
           /\ (\A s \in W : arrived'[s] = <<>>) /\ Attended(i)'
              /\ (\A s \in Streams : Attended(s) => Attended(s)') => PollInv'
<1>0. PICK n : n = env.streams
  OBVIOUS
<1>1. /\ poll \in [index : Nat, polled : Nat, wakers : SUBSET Streams, woken : BOOLEAN]
      /\ n \in Nat \ {0} /\ i \in 1 .. n /\ Reader \subseteq Streams
      /\ poll.polled < n /\ poll.polled \in Nat
  BY <1>0, ReadersAreStreams DEF QuicInv, ShapeInv, ServerInv, PollInv, Reader
<1>2. PICK k \in 1 .. n : k = (i % n) + 1
  <2>1. \A s \in 1 .. n : (i % n) + 1 \in 1 .. n
    BY <1>1, AgoTurn, Zenon
  <2> QED
    BY <1>1, <2>1
<1>3. /\ poll' = [poll EXCEPT !.index = k, !.polled = poll.polled + 1, !.wakers = W]
      /\ pc' = IF poll.polled + 1 = n THEN "pending" ELSE "readers"
  BY <1>0, <1>2 DEF Polled, AllPolled
<1>4. ASSUME NEW s \in 1 .. n
      PROVE  /\ Ago(s, k, n) = IF s = i THEN 1 ELSE Ago(s, i, n) + 1
             /\ Ago(s, i, n) \in 1 .. n
             /\ s # i => Ago(s, i, n) < n
  BY <1>1, <1>2, AgoTurn, Zenon
<1>5. Reader' = Reader /\ Reader = 1 .. n /\ env'.streams = n /\ env.streams = n
  BY <1>0 DEF Reader
<1>6. /\ poll' \in [index : Nat, polled : Nat, wakers : SUBSET Streams, woken : BOOLEAN]
      /\ poll'.wakers = W /\ poll'.woken = poll.woken /\ poll'.index = k
      /\ poll'.polled = poll.polled + 1
  <2>1. k \in Nat /\ poll.polled + 1 \in Nat
    BY <1>1, <1>2
  <2>2. \A m \in Nat :
           /\ [poll EXCEPT !.index = k, !.polled = m, !.wakers = W] \in
                [index : Nat, polled : Nat, wakers : SUBSET Streams, woken : BOOLEAN]
           /\ [poll EXCEPT !.index = k, !.polled = m, !.wakers = W].wakers = W
           /\ [poll EXCEPT !.index = k, !.polled = m, !.wakers = W].woken = poll.woken
           /\ [poll EXCEPT !.index = k, !.polled = m, !.wakers = W].index = k
           /\ [poll EXCEPT !.index = k, !.polled = m, !.wakers = W].polled = m
    BY <1>1, <2>1
  <2> QED
    BY <1>3, <2>1, <2>2
<1>7. ASSUME \A s \in W : arrived'[s] = <<>>, Attended(i)',
             \A s \in Streams : Attended(s) => Attended(s)'
      PROVE  PollInv'
  <2>1. ASSUME NEW s \in Reader, Ago(s, k, n) <= poll.polled + 1 PROVE Attended(s)'
    <3>1. CASE s = i
      BY <1>7, <3>1
    <3>2. CASE s # i
      <4>1. Ago(s, i, n) <= poll.polled
        BY <1>1, <1>4, <1>5, <2>1, <3>2
      <4>2. Attended(s)
        BY <1>5, <4>1 DEF QuicInv, PollInv
      <4> QED
        BY <1>1, <1>7, <4>2
    <3> QED
      BY <3>1, <3>2
  <2>2. ASSUME NEW s \in Reader, poll.polled + 1 = n PROVE Attended(s)'
    <3>0. s \in 1 .. n
      BY <1>5
    <3>1. CASE s = i
      BY <1>7, <3>1
    <3>2. CASE s # i
      <4>1. Ago(s, i, n) < n /\ Ago(s, i, n) \in 1 .. n
        BY <1>4, <3>0, <3>2
      <4>2. Ago(s, i, n) <= poll.polled
        BY <1>1, <2>2, <4>1
      <4>3. Attended(s)
        BY <1>5, <4>2 DEF QuicInv, PollInv
      <4> QED
        BY <1>1, <1>7, <4>3
    <3> QED
      BY <3>1, <3>2
  <2>3. pc' = "readers" => poll.polled + 1 < n
    BY <1>1, <1>3
  <2> QED
    BY <1>2, <1>3, <1>5, <1>6, <1>7, <2>1, <2>2, <2>3 DEF PollInv
<1> QED
  BY <1>3, <1>6, <1>7

\* A reader has a frame.
LEMMA PollReaderFrameStep ==
    ASSUME QuicInv, PollReaderFrame PROVE QuicInv'
<1>0. PICK s : s = poll.index
  OBVIOUS
<1> DEFINE f == Head(arrived[s])
           rest == [poll EXCEPT !.index = (poll.index % env.streams) + 1]
<1>1. /\ UNCHANGED <<env, response, server>> /\ sent' = sent /\ conn' = conn
      /\ pc = "readers" /\ arrived[s] # <<>>
      /\ arrived' = [arrived EXCEPT ![s] = Tail(arrived[s])]
  BY <1>0 DEF PollReaderFrame
<1>2. /\ poll \in [index : Nat, polled : Nat, wakers : SUBSET Streams, woken : BOOLEAN]
      /\ env.streams \in Nat \ {0} /\ s \in 1 .. env.streams /\ s \in Streams
      /\ env.streams \in Streams
  BY <1>0, <1>1, ReadersAreStreams DEF QuicInv, ShapeInv, ServerInv, PollInv, Reader
<1>3. /\ sent \in [Streams -> Seq(Frame)] /\ arrived \in [Streams -> Seq(Frame)]
      /\ Lines \in [Streams -> Seq(Frame)] /\ msg_id \in Nat /\ loop.msg_id \in Nat
      /\ Writes(loop) \in SUBSET Task /\ messages \in SUBSET MessageFrames
      /\ Mail(Lines, Writes(loop), messages, msg_id, loop.msg_id)
  BY LinesType DEF QuicInv, ShapeInv, Loop, Writes, MailInv
<1>4. s \notin poll.wakers
  BY <1>1 DEF QuicInv, PollInv
<1>5. /\ rest \in [index : Nat, polled : Nat, wakers : SUBSET Streams, woken : BOOLEAN]
      /\ rest.wakers = poll.wakers /\ rest.index \in 1 .. env.streams
  <2>1. (s % env.streams) + 1 \in 1 .. env.streams
    BY <1>2, AgoTurn
  <2>2. \A k \in 1 .. env.streams :
          /\ [poll EXCEPT !.index = k] \in
               [index : Nat, polled : Nat, wakers : SUBSET Streams, woken : BOOLEAN]
          /\ [poll EXCEPT !.index = k].wakers = poll.wakers /\ [poll EXCEPT !.index = k].index = k
    BY <1>2
  <2> QED
    BY <1>0, <2>1, <2>2
<1> HIDE DEF rest
<1>6. /\ arrived[s] \in Seq(Frame) /\ sent[s] \in Seq(Frame) /\ Tail(arrived[s]) \in Seq(Frame)
      /\ f \in Frame
  BY <1>1, <1>2, <1>3
<1>7. arrived' \in [Streams -> Seq(Frame)]
  BY <1>1, <1>3, <1>6
<1>8. Lines[s] # <<>> /\ Lines[s][1] = f /\ Lines' = [Lines EXCEPT ![s] = Tail(Lines[s])]
  <2>1. \A a, b \in Seq(Frame) : a # <<>> =>
          Tail(a) \o b = Tail(a \o b) /\ (a \o b)[1] = Head(a) /\ a \o b # <<>>
    BY ConcatTail
  <2>2. \A z \in Streams : Lines[z] = arrived[z] \o sent[z] /\ Lines'[z] = arrived'[z] \o sent[z]
    BY <1>1 DEF Lines
  <2>3. Lines'[s] = Tail(Lines[s]) /\ Lines[s] # <<>> /\ Lines[s][1] = f
    <3>1. arrived'[s] = Tail(arrived[s])
      BY <1>1, <1>2, <1>3
    <3>2. /\ Tail(arrived[s]) \o sent[s] = Tail(arrived[s] \o sent[s])
          /\ (arrived[s] \o sent[s])[1] = f /\ arrived[s] \o sent[s] # <<>>
      BY <1>1, <1>6, <2>1
    <3> QED
      BY <1>2, <2>2, <3>1, <3>2
  <2>4. \A z \in Streams : z # s => Lines'[z] = Lines[z]
    BY <1>1, <1>3, <2>2
  <2>5. Lines' = [z \in Streams |-> Lines'[z]] /\ Lines = [z \in Streams |-> Lines[z]]
    BY DEF Lines
  <2> HIDE DEF f
  <2> QED
    BY <1>2, <2>3, <2>4, <2>5
<1>9. Lines' \in [Streams -> Seq(Frame)]
  <2>1. Tail(Lines[s]) \in Seq(Frame)
    BY <1>2, <1>3, <1>8
  <2> QED
    BY <1>2, <1>3, <1>8, <2>1
<1>10. /\ Behind(Lines', Lines)
       /\ f.kind = "message" =>
            /\ \A z \in Streams : \A i \in 1 .. Len(Lines'[z]) : Lines'[z][i].id # f.id
            /\ \A t \in Writes(loop) : t.id # f.id /\ (t.stream = s => f.id < t.id)
            /\ \A g \in messages : g.id # f.id
            /\ msg_id <= f.id /\ f.id < loop.msg_id
            /\ \A i \in 1 .. Len(Lines'[s]) : Lines'[s][i].kind = "message" => f.id < Lines'[s][i].id
  <2>1. /\ Behind(Lines', Lines)
        /\ \A T, M, lo, hi : Mail(Lines, T, M, lo, hi) /\ Lines[s][1].kind = "message" =>
             /\ \A z \in Streams : \A i \in 1 .. Len(Lines'[z]) : Lines'[z][i].id # Lines[s][1].id
             /\ \A t \in T : t.id # Lines[s][1].id /\ (t.stream = s => Lines[s][1].id < t.id)
             /\ \A g \in M : g.id # Lines[s][1].id
             /\ lo <= Lines[s][1].id /\ Lines[s][1].id < hi
             /\ \A i \in 1 .. Len(Lines'[s]) :
                  Lines'[s][i].kind = "message" => Lines[s][1].id < Lines'[s][i].id
    <3>1. Reads(Lines', Lines, s)
      BY <1>8 DEF Reads
    <3> QED
      BY <1>2, <1>3, <1>9, <3>1, ReadLine, Zenon
  <2> HIDE DEF f
  <2> QED
    BY <1>3, <1>8, <2>1
<1>11. Mail(Lines', Writes(loop), messages, msg_id, loop.msg_id)
  BY <1>3, <1>9, <1>10, MailShrinks
<1>12. \A z \in Streams : Passed(Lines, Writes(loop), msg_id, loop.msg_id, z)
                          => Passed(Lines', Writes(loop), msg_id, loop.msg_id, z)
  BY <1>3, <1>9, <1>10, PassedShrinks
<1>13. \A z \in poll.wakers : arrived'[z] = <<>>
  BY <1>1, <1>2, <1>3, <1>4 DEF QuicInv, PollInv
<1>e. env' = env /\ loop' = loop
  BY <1>1 DEF server
<1>14. CASE /\ f.kind = "message" /\ IsNext(f)
            /\ Give(f) /\ pc' = "poll" /\ poll' = rest
            /\ UNCHANGED <<result, messages>>
  <2>1. f.id = msg_id /\ f \in MessageFrames /\ messages' = messages
    BY <1>6, <1>14 DEF IsNext, MessageFrames
  <2>2. /\ out' \in Seq(Nat) /\ msg_id' \in Nat /\ msg_id' = msg_id + 1 /\ Len(out') = msg_id'
        /\ \A i \in 1 .. Len(out') : out'[i] = i
    BY <1>14, <2>1, GiveShape DEF QuicInv
  <2>3. Mail(Lines', Writes(loop), messages, msg_id + 1, loop.msg_id)
    BY <1>3, <1>9, <1>10, <1>11, <1>14, <2>1, MailRaise
  <2>4. MailInv'
    BY <1>e, <2>1, <2>2, <2>3 DEF MailInv
  <2>5. ServerInv' /\ BranchInv'
    BY <1>1, <1>2, ClientSide
  <2>6. ShapeInv'
    BY <1>1, <1>e, <1>3, <1>5, <1>7, <1>14, <2>1, <2>2 DEF QuicInv, ShapeInv, MessageFrames, Frame
  <2>7. PollInv'
    BY <1>e, <1>5, <1>13, <1>14 DEF PollInv, Reader
  <2> QED
    BY <2>4, <2>5, <2>6, <2>7 DEF QuicInv
<1>15. CASE /\ f.kind = "message" /\ ~IsNext(f)
            /\ messages' = messages \cup {f}
            /\ Polled(poll.wakers)
            /\ UNCHANGED <<msg_id, out>>
  <2>1. f.id # msg_id /\ f \in MessageFrames /\ messages' \in SUBSET MessageFrames
        /\ msg_id' = msg_id /\ out' = out /\ f.id \in Nat
    BY <1>3, <1>6, <1>15 DEF IsNext, MessageFrames, Frame
  <2>2. Mail(Lines', Writes(loop), messages \cup {f}, msg_id, loop.msg_id)
    BY <1>3, <1>9, <1>10, <1>11, <1>15, MailKeep
  <2>3. MailInv'
    BY <1>e, <1>15, <2>1, <2>2 DEF MailInv
  <2>4. ServerInv' /\ BranchInv'
    BY <1>1, <1>2, ClientSide
  <2>5. /\ poll' \in [index : Nat, polled : Nat, wakers : SUBSET Streams, woken : BOOLEAN]
        /\ poll'.wakers = poll.wakers /\ poll'.woken = poll.woken
        /\ pc' \in {"readers", "pending"}
        /\ (\A z \in poll.wakers : arrived'[z] = <<>>) /\ Attended(s)'
              /\ (\A z \in Streams : Attended(z) => Attended(z)') => PollInv'
    <3>1. poll.wakers \in SUBSET Streams
      BY <1>2
    <3> QED
      BY <1>0, <1>1, <1>e, <1>15, <3>1, PolledTurn
  <2>6. ShapeInv'
    BY <1>1, <1>e, <1>7, <2>1, <2>5 DEF QuicInv, ShapeInv, MessageFrames, Frame
  <2>7. Passed(Lines', Writes(loop), msg_id, loop.msg_id, s)
    <3>1. msg_id < f.id
      BY <1>3, <1>10, <1>15, <2>1
    <3>2. \A i \in 1 .. Len(Lines'[s]) : Lines'[s][i].kind = "message" => Lines'[s][i].id \in Nat
      BY <1>2, <1>9, MailTypes
    <3>3. \A t \in Writes(loop) : t.id \in Nat
      BY <1>3 DEF Task
    <3> HIDE DEF f
    <3>4. msg_id < loop.msg_id
      BY <1>3, <1>10, <1>15, <2>1, <3>1
    <3>5. \A i \in 1 .. Len(Lines'[s]) : Lines'[s][i].kind = "message" => msg_id < Lines'[s][i].id
      BY <1>3, <1>10, <1>15, <2>1, <3>1, <3>2
    <3>6. \A t \in Writes(loop) : t.stream = s => msg_id < t.id
      BY <1>3, <1>10, <1>15, <2>1, <3>1, <3>3
    <3> QED
      BY <3>4, <3>5, <3>6 DEF Passed
  <2>8. Attended(s)'
    BY <1>e, <2>1, <2>7 DEF Attended
  <2>9. \A z \in Streams : Attended(z) => Attended(z)'
    BY <1>e, <1>12, <2>1, <2>5 DEF Attended
  <2> QED
    BY <1>13, <2>3, <2>4, <2>5, <2>6, <2>8, <2>9 DEF QuicInv
<1>16. CASE /\ pc' = "ended" /\ poll' = rest /\ UNCHANGED <<messages, msg_id, out>>
  <2>1. MailInv'
    BY <1>e, <1>11, <1>16 DEF MailInv
  <2>2. ServerInv' /\ BranchInv'
    BY <1>1, <1>2, ClientSide
  <2>3. ShapeInv'
    BY <1>1, <1>e, <1>5, <1>7, <1>16 DEF QuicInv, ShapeInv, MessageFrames, Frame
  <2>4. PollInv'
    BY <1>e, <1>5, <1>13, <1>16 DEF PollInv, Reader
  <2> QED
    BY <2>1, <2>2, <2>3, <2>4 DEF QuicInv
<1> QED
  BY <1>0, <1>14, <1>15, <1>16 DEF PollReaderFrame, Ends, rest

\* A reader has nothing: it gets a waker, or the client learns that the connection is gone.
LEMMA PollReaderEmptyStep ==
    ASSUME QuicInv, PollReaderEmpty PROVE QuicInv'
<1>0. PICK s : s = poll.index
  OBVIOUS
<1>1. /\ UNCHANGED <<env, response, server>> /\ sent' = sent /\ arrived' = arrived /\ conn' = conn
      /\ pc = "readers" /\ arrived[s] = <<>>
      /\ messages' = messages /\ msg_id' = msg_id /\ out' = out
  BY <1>0 DEF PollReaderEmpty, network
<1>2. /\ poll \in [index : Nat, polled : Nat, wakers : SUBSET Streams, woken : BOOLEAN]
      /\ s \in Streams /\ env.streams \in Streams
  BY <1>0, <1>1, ReadersAreStreams DEF QuicInv, ShapeInv, ServerInv, PollInv
<1>3. ServerInv' /\ BranchInv' /\ env' = env /\ loop' = loop
  BY <1>1, <1>2, ClientSide
<1>4. MailInv'
  BY <1>1, <1>3 DEF QuicInv, MailInv, Lines
<1>5. CASE Polled(poll.wakers \cup {poll.index})
  <2> DEFINE W == poll.wakers \cup {s}
  <2>1. W \in SUBSET Streams
    BY <1>2
  <2>2. /\ poll' \in [index : Nat, polled : Nat, wakers : SUBSET Streams, woken : BOOLEAN]
        /\ poll'.wakers = W /\ poll'.woken = poll.woken
        /\ pc' \in {"readers", "pending"}
        /\ (\A z \in W : arrived'[z] = <<>>) /\ Attended(s)'
              /\ (\A z \in Streams : Attended(z) => Attended(z)') => PollInv'
    BY <1>0, <1>1, <1>3, <1>5, <2>1, PolledTurn
  <2>3. ShapeInv'
    BY <1>1, <1>3, <2>2 DEF QuicInv, ShapeInv, MessageFrames, Frame
  <2>4. \A z \in W : arrived'[z] = <<>>
    BY <1>1 DEF QuicInv, PollInv
  <2>5. Attended(s)'
    BY <2>2 DEF Attended
  <2>6. Lines' = Lines
    BY <1>1 DEF Lines
  <2>7. \A z \in Streams : Attended(z) => Attended(z)'
    BY <1>1, <1>3, <2>2, <2>6 DEF Attended
  <2> QED
    BY <1>3, <1>4, <2>2, <2>3, <2>4, <2>5, <2>7 DEF QuicInv
<1>6. CASE pc' = "ended" /\ poll' = poll
  <2>1. ShapeInv'
    BY <1>1, <1>3, <1>6 DEF QuicInv, ShapeInv, MessageFrames, Frame
  <2>2. PollInv'
    BY <1>1, <1>3, <1>6 DEF QuicInv, PollInv, Reader
  <2> QED
    BY <1>3, <1>4, <2>1, <2>2 DEF QuicInv
<1> QED
  BY <1>5, <1>6 DEF PollReaderEmpty, Ends

-----------------------------------------------------------------------------
(* The theorems.                                                           *)

\* A connection starts with nothing on its way.
LEMMA QuicInit ==
    ASSUME Init PROVE QuicInv
<1>1. /\ loop \in Loop /\ loop.set = {} /\ loop.msg_id = 0 /\ loop.next_message = 0
      /\ loop.msg_ids = {}
  BY DEF Init, Loop
<1>2. /\ sent \in [Streams -> Seq(Frame)] /\ arrived \in [Streams -> Seq(Frame)]
      /\ \A s \in Streams : sent[s] = <<>> /\ arrived[s] = <<>>
  BY DEF Init
<1>3. /\ poll \in [index : Nat, polled : Nat, wakers : SUBSET Streams, woken : BOOLEAN]
      /\ poll.index = 1 /\ poll.wakers = {}
  BY DEF Init
<1>4. ShapeInv
  <2>1. out \in Seq(Nat) /\ Len(out) = 0
    BY DEF Init
  <2> QED
    BY <1>1, <1>2, <1>3, <2>1 DEF Init, ShapeInv
<1>5. ServerInv
  BY <1>1, Bounds DEF Init, ServerInv, InLoop, Given
<1>6. \A s \in Streams : Len(Lines[s]) = 0
  BY <1>2 DEF Lines
<1>7. MailInv
  <2>1. Writes(loop) = {} /\ messages = {} /\ msg_id = 0
    BY <1>1 DEF Writes, Init
  <2> QED
    BY <1>1, <1>6, <2>1 DEF MailInv, Mail
<1>8. PollInv
  BY <1>2, <1>3, Bounds DEF Init, PollInv, Reader, Streams
<1> QED
  BY <1>4, <1>5, <1>7, <1>8 DEF Init, QuicInv, BranchInv

\* Every step of the server, the client and the network keeps the invariant.
LEMMA QuicStep ==
    ASSUME QuicInv, [Next]_vars PROVE QuicInv'
<1>1. CASE ServerStep
  BY <1>1, HandleRequestStep, RequestFailsStep, OpenStreamsStep, RxMessageStep, RxEndsStep,
     SendCloseStep, JoinNextStep, SelectPanicsStep, FinishStreamsStep DEF ServerStep
<1>2. CASE ClientStep
  BY <1>2, SubscribeStep, TakeBufferedStep, StartReadersStep, PollReaderFrameStep,
     PollReaderEmptyStep, WokenStep DEF ClientStep
<1>3. CASE \E t \in loop.set : Write(t)
  BY <1>3, WriteStep
<1>4. CASE \E s \in Streams : Arrive(s)
  BY <1>4, ArriveStep
<1>5. CASE ConnectionLost \/ ConnectionDropped
  BY <1>5, LoseStep DEF ConnectionLost, ConnectionDropped
<1>6. CASE UNCHANGED vars
  <2>1. /\ UNCHANGED <<env, client, network>> /\ loop' = loop /\ srv' = srv /\ rx' = rx
        /\ conns' = conns /\ response' = response /\ env' = env /\ pc' = pc
    BY <1>6 DEF vars, server, client
  <2>2. ShapeInv' /\ MailInv' /\ PollInv'
    BY <2>1, ServerSide DEF Keeps, QuicInv, ShapeInv
  <2> QED
    BY <2>1, <2>2 DEF QuicInv, ServerInv, BranchInv, InLoop, Streams
<1> QED
  BY <1>1, <1>2, <1>3, <1>4, <1>5, <1>6 DEF Next

\* QuicInv is an invariant of the connection.
THEOREM QuicInvariant == Spec => []QuicInv
  BY QuicInit, QuicStep, PTL DEF Spec

\* A send loop in order satisfies what the run checks of it.
LEMMA LoopImplies ==
    ASSUME QuicInv PROVE SendLoopInv
<1>1. BacklogRespected
  <2> SUFFICES ASSUME srv = "loop"
               PROVE  /\ loop.msg_ids = {t.id : t \in {u \in loop.set : u.frame.kind = "message"}}
                      /\ loop.msg_ids # {} => loop.msg_id - Min(loop.msg_ids) <= env.backlog
    BY DEF BacklogRespected
  <2>1. Ids(loop, env.backlog) /\ loop \in Loop
    BY DEF QuicInv, ShapeInv, ServerInv, InLoop, LoopOK
  <2>2. loop.msg_ids = {t.id : t \in {u \in loop.set : u.frame.kind = "message"}}
    BY <2>1 DEF Ids
  <2>3. ASSUME loop.msg_ids # {} PROVE loop.msg_id - Min(loop.msg_ids) <= env.backlog
    <3>1. Min(loop.msg_ids) \in loop.msg_ids
      BY <2>1, <2>3, MinOfNats DEF Loop
    <3> QED
      BY <2>1, <3>1 DEF Ids
  <2> QED
    BY <2>2, <2>3
<1>2. SelectHasBranch
  BY DEF QuicInv, BranchInv, SelectHasBranch
<1>3. msg_id \in 0 .. MaxMessages /\ rx \in [given : 0 .. env.messages, state : {"live", "failed", "ended"}]
  <2>1. /\ msg_id \in Nat /\ loop.msg_id \in Nat /\ loop.next_message \in Nat
        /\ env.messages \in Nat /\ env.messages <= MaxMessages /\ MaxMessages \in Nat
    BY Bounds DEF QuicInv, ShapeInv, Loop
  <2>2. /\ rx \in [given : Nat, state : {"live", "failed", "ended"}]
        /\ rx.given <= env.messages /\ rx.given = Given(loop) /\ msg_id <= loop.msg_id
    BY DEF QuicInv, ServerInv, MailInv, Mail
  <2>3. rx.given \in 0 .. env.messages /\ loop.msg_id <= rx.given
    BY <2>1, <2>2 DEF Given
  <2>4. rx \in [given : 0 .. env.messages, state : {"live", "failed", "ended"}]
    BY <2>2, <2>3
  <2> QED
    BY <2>1, <2>2, <2>3, <2>4
<1>4. ASSUME NEW s \in Streams, NEW f \in ToSet(sent[s]) \cup ToSet(arrived[s])
      PROVE  f.kind \in {"message", "close", "fin"}
  <2>1. sent[s] \in Seq(Frame) /\ arrived[s] \in Seq(Frame)
    BY DEF QuicInv, ShapeInv
  <2>2. f \in Frame
    BY <2>1 DEF ToSet
  <2> QED
    BY <2>2, Frames
<1>5. ASSUME InLoop
      PROVE  /\ Cardinality({t.stream : t \in loop.set}) = Cardinality(loop.set)
             /\ ToSet(loop.streams) \cap {t.stream : t \in loop.set} = {}
             /\ Len(loop.streams) + Cardinality(loop.set) = env.streams
  <2>1. Counted(loop, env.streams) /\ loop.streams \in Seq(Streams)
    BY <1>5 DEF QuicInv, ServerInv, ShapeInv, Loop, LoopOK
  <2> DEFINE T == {t.stream : t \in loop.set}
             g == [t \in loop.set |-> t.stream]
  <2>2. ExistsBijection(loop.set, T)
    <3>1. g \in Bijection(loop.set, T)
      BY <2>1 DEF Counted, FreeStreams, Bijection, Injection, Surjection, IsInjective
    <3> QED
      BY <3>1 DEF ExistsBijection
  <2>3. Cardinality(T) = Cardinality(loop.set)
    BY <2>1, <2>2, FS_Bijection DEF Counted
  <2>4. ToSet(loop.streams) \cap T = {}
    BY <2>1 DEF Counted, FreeStreams, ToSet
  <2> QED
    BY <2>1, <2>3, <2>4 DEF Counted
<1>6. TypeOK
  BY <1>3, <1>4, <1>5 DEF TypeOK, QuicInv, ShapeInv, ServerInv, InLoop
<1> QED
  BY <1>1, <1>2, <1>6 DEF SendLoopInv

\* The send loop of every connection keeps its streams apart, knows the ids being
\* written, never has them more than max_backlog apart and always has a branch to
\* select, unless the client asked for a backlog of zero.
THEOREM SendLoopIsSound == Spec => []SendLoopInv
  BY QuicInvariant, LoopImplies, PTL

\* Whatever the number of streams and however they overtake each other, the client
\* gives its caller the messages of the subscription in their order, none missing
\* and none twice.
THEOREM ClientGivesInOrder == Spec => []InOrder
<1>1. QuicInv => InOrder
  BY DEF QuicInv, ShapeInv, InOrder
<1> QED
  BY <1>1, QuicInvariant, PTL

\* A client that sleeps unwoken has no message it could give in any of its readers:
\* the reader that gave one out of turn needs no waker.
THEOREM SleeperMissesNothing == Spec => []NoLostWakeup
<1>1. ASSUME QuicInv PROVE NoLostWakeup
  <2> SUFFICES ASSUME pc = "pending", ~poll.woken, NEW s \in Reader, arrived[s] # <<>>
               PROVE  s \notin poll.wakers /\ ~IsNext(Head(arrived[s]))
    BY DEF NoLostWakeup
  <2>1. s \in Streams /\ Attended(s)
    BY <1>1, ReadersAreStreams DEF QuicInv, PollInv
  <2>2. s \notin poll.wakers
    BY <1>1, <2>1 DEF QuicInv, PollInv
  <2>3. Passed(Lines, Writes(loop), msg_id, loop.msg_id, s)
    BY <2>1, <2>2 DEF Attended
  <2>4. arrived[s] \in Seq(Frame) /\ sent[s] \in Seq(Frame) /\ msg_id \in Nat
        /\ Lines \in [Streams -> Seq(Frame)]
    BY <1>1, <2>1, LinesType DEF QuicInv, ShapeInv
  <2>5. Lines[s][1] = Head(arrived[s]) /\ 1 \in 1 .. Len(Lines[s])
    <3>1. \A a, b \in Seq(Frame) : a # <<>> => (a \o b)[1] = Head(a) /\ 1 \in 1 .. Len(a \o b)
      OBVIOUS
    <3>2. Lines[s] = arrived[s] \o sent[s]
      BY <2>1 DEF Lines
    <3> QED
      BY <2>4, <3>1, <3>2
  <2>6. CASE Lines[s][1].kind = "message"
    <3>1. msg_id < Lines[s][1].id /\ Lines[s][1].id \in Nat
      BY <2>1, <2>3, <2>4, <2>5, <2>6, MailTypes DEF Passed
    <3> QED
      BY <2>2, <2>4, <2>5, <3>1 DEF IsNext
  <2>7. CASE Lines[s][1].kind # "message"
    <3>1. Lines[s][1].id = -1
      BY <2>1, <2>4, <2>5, <2>7, MailTypes
    <3> QED
      BY <2>2, <2>4, <2>5, <3>1 DEF IsNext
  <2> QED
    BY <2>6, <2>7
<1> QED
  BY <1>1, QuicInvariant, PTL
=============================================================================
