------------------------------- MODULE PubSub -------------------------------
(***************************************************************************)
(* The pubsub server of richat: the subscriptions tracker                  *)
(* (richat/src/pubsub/tracker.rs, one thread), the websocket tasks of the  *)
(* clients (server.rs), their bounded queues and the store that keeps the  *)
(* notifications alive (notification.rs).                                  *)
(*                                                                         *)
(* The rings are logs the sender appends to in the order it publishes; a   *)
(* ring holds the last RingSize messages.  A tick of the tracker is split  *)
(* where other tasks can interfere: each request taken, each ring read and *)
(* each notification delivered.                                            *)
(***************************************************************************)
EXTENDS PubSubFilter, FiniteSetsExt

CONSTANTS
    Client,            \* websocket connections
    Scenarios,         \* records [script, clients, asks, frames, fail, peers]: what the
                       \* sender publishes, in order, as records [c, m]; the clients
                       \* that connect and the requests they may send; and the bounds
                       \* on the frames they send, on whether a socket fails and on what
                       \* becomes of the peers
    Before,            \* messages each ring got before the tracker started
    RingSize,          \* messages a ring holds
    RequestsMax,       \* clients_requests_channel_size
    RequestsPerTick,   \* subscriptions_max_clients_request_per_tick
    MessagesPerTick,   \* subscriptions_max_messages_per_commitment_per_tick
    QueueMax,          \* notifications_messages_max_count, per client
    StoreMax, StoreBytes,     \* limits of RpcNotifications
    SignaturesMax, SlotsMax   \* limits of CachedSignatures

ASSUME ConstantsAssumption ==
    /\ RingSize \in Nat \ {0} /\ RequestsMax \in Nat \ {0}
    /\ RequestsPerTick \in Nat \ {0} /\ MessagesPerTick \in Nat \ {0}
    /\ QueueMax \in Nat \ {0} /\ StoreMax \in Nat /\ StoreBytes \in Nat

VARIABLES
    script,      \* what the sender has still to publish
    env,         \* the scenario
    rings,       \* published so far, per commitment
    heads,       \* head_processed, head_confirmed, head_finalized
    tick,        \* control point of the tracker and locals of its tick
    tr,          \* Subscriptions, the client queues and RpcNotifications
    seen,        \* CachedSignatures, slots_stats and slot_finalized
    requests,    \* clients_tx to clients_rx
    ws,          \* websocket task of each client
    frames,      \* frames sent by clients
    due,         \* history: per subscription, what its clients have to be told
    joined,      \* history: where in it each client joined
    written      \* history: notifications written to each socket

vars == <<script, env, rings, heads, tick, tr, seen, requests, ws, frames, due, joined, written>>

Without(f, keys) == [k \in DOMAIN f \ keys |-> f[k]]
With(f, k, v) == [x \in DOMAIN f \cup {k} |-> IF x = k THEN v ELSE f[x]]
Get(f, k, default) == IF k \in DOMAIN f THEN f[k] ELSE default
Empty == [x \in {} |-> 0]

(***************************************************************************)
(* RpcNotifications and ClientSender                                       *)
(***************************************************************************)
LaggedNote == [id |-> -1]
BytesOf(items) == FoldLeft(LAMBDA n, x : n + x.size, 0, items)

\* RpcNotifications::push: the oldest go until the new one fits.
Stored(t, size) ==
    LET Fits(k) == /\ BytesOf(SubSeq(t.items, k, Len(t.items))) + size < StoreBytes
                   /\ Len(t.items) - k + 1 < StoreMax
        from == Min({k \in 1 .. Len(t.items) : Fits(k)} \cup {Len(t.items) + 1})
    IN  [t EXCEPT !.items = Append(SubSeq(@, from, Len(@)), [serial |-> t.serial, size |-> size]),
                  !.serial = @ + 1]

\* Mutant: the bound of the queue is not looked at.
RoomAlways(t, c) == TRUE

\* Mutant: no place is kept for the last word to a slow client.
RoomExact(t, c) == Len(t.queue[c]) < QueueMax + 1

\* The queue has one more place than QueueMax, for LaggedNote.
Room(t, c) == Len(t.queue[c]) < QueueMax

\* ClientSender::send
Send(t, c, note) ==
    IF Room(t, c)
    THEN [t EXCEPT !.queue[c] = IF ws[c].alive THEN Append(@, note) ELSE @]
    ELSE [t EXCEPT !.queue[c] = IF Len(@) <= QueueMax THEN Append(@, LaggedNote) ELSE @]

(***************************************************************************)
(* Subscriptions                                                           *)
(***************************************************************************)

\* Mutant: a dropped subscription stays in the index.
DropKeepsIndex(t, ids) ==
    [t EXCEPT !.subscriptions = Without(@, ids),
              !.by_config = Without(@, {t.subscriptions[id].config : id \in ids})]

\* drop_subscription, for each of ids
Drop(t, ids) ==
    [t EXCEPT !.subscriptions = Without(@, ids),
              !.by_config = Without(@, {t.subscriptions[id].config : id \in ids}),
              !.index = [c \in Commitment |->
                           @[c] \ {Entry(id, t.subscriptions[id].config) : id \in ids}]]

\* remove_client_subscription, for each of ids: what no client is left on is dropped.
Leave(t, c, ids) ==
    LET left == [t EXCEPT !.subscriptions =
                   [id \in DOMAIN @ |-> IF id \in ids THEN [@[id] EXCEPT !.clients = @ \ {c}]
                                        ELSE @[id]]]
    IN  Drop(left, {id \in ids : left.subscriptions[id].clients = {}})

\* Subscriptions::remove_client
RemoveClient(t, c) ==
    IF c \in DOMAIN t.clients
    THEN Leave([t EXCEPT !.clients = Without(@, {c})], c, t.clients[c]) ELSE t

\* Subscriptions::remove_subscription
RemoveSubscription(t, id) ==
    LET gone == Drop(t, {id})
    IN  [gone EXCEPT !.clients = [c \in DOMAIN @ |-> @[c] \ {id}]]

Note(t, id, told) == [id |-> id, final |-> told.final, told |-> told, serial |-> t.serial]

\* Sends to every client of cs; the ones that lag are removed.
SendAll(t, cs, note) ==
    LET sent == FoldSet(LAMBDA c, acc : Send(acc, c, note), t, cs)
    IN  [to |-> sent, lagged |-> {c \in cs : ~Room(t, c)}]

\* Mutant: a final notification leaves its subscription in place.
DeliverNeverFinal(t, id, told) ==
    IF id \notin DOMAIN t.subscriptions THEN t
    ELSE LET r == SendAll(Stored(t, told.size), t.subscriptions[id].clients, Note(t, id, told))
         IN  FoldSet(LAMBDA c, acc : RemoveClient(acc, c), r.to, r.lagged)

\* Subscriptions::deliver
Deliver(t, id, told) ==
    IF id \notin DOMAIN t.subscriptions THEN t
    ELSE LET r == SendAll(Stored(t, told.size), t.subscriptions[id].clients, Note(t, id, told))
             rest == IF told.final THEN RemoveSubscription(r.to, id) ELSE r.to
         IN  FoldSet(LAMBDA c, acc : RemoveClient(acc, c), rest, r.lagged)

\* CachedSignatures::get
Cached(config) ==
    IF config.method # "signature" \/ config.sig \notin DOMAIN seen.signatures THEN <<>>
    ELSE LET e == seen.signatures[config.sig]
         IN  IF \/ config.commitment = Processed
                \/ config.commitment = Confirmed /\ seen.confirmed >= e.slot
                \/ config.commitment = Finalized /\ seen.finalized >= e.slot
             THEN <<[final |-> TRUE, slot |-> e.slot, size |-> 1,
                     value |-> <<"failed", e.failed>>]>>
             ELSE <<>>

\* Subscriptions::subscribe; the id it returns is SubscriptionId.
SubscriptionId(t, c, config) ==
    IF c \in DOMAIN t.clients /\ config \in DOMAIN t.by_config
    THEN t.by_config[config] ELSE t.next

Subscribe(t, c, config) ==
    LET id == SubscriptionId(t, c, config)
        fresh == [t EXCEPT !.next = @ + 1]
        cached == Cached(config)
    IN  IF c \notin DOMAIN t.clients THEN fresh
        ELSE IF config \in DOMAIN t.by_config
        THEN [t EXCEPT !.clients[c] = @ \cup {id}, !.subscriptions[id].clients = @ \cup {c}]
        ELSE IF cached # <<>>
        THEN LET r == SendAll(Stored(fresh, 1), {c}, Note(fresh, id, cached[1]))
             IN  IF r.lagged = {} THEN r.to ELSE RemoveClient(r.to, c)
        ELSE [fresh EXCEPT
                !.clients[c] = @ \cup {id},
                !.by_config = With(@, config, id),
                !.index[CommitmentOf(config)] = @ \cup {Entry(id, config)},
                !.subscriptions = With(@, id, [config |-> config, clients |-> {c}])]

(***************************************************************************)
(* CachedSignatures and SlotTransactionStatsItem                           *)
(***************************************************************************)
NewStats == [slot |-> 0, meta |-> FALSE, transactions |-> 0, entries |-> 0, success |-> 0,
             failed |-> 0, received |-> 0, max |-> 0]

\* Mutant: the processed status is not waited for.
CompleteEarly(i) ==
    /\ i.meta /\ i.transactions = i.success + i.failed

\* try_create
Complete(i) ==
    /\ i.slot # 0 /\ i.meta
    /\ i.transactions = i.success + i.failed /\ i.entries = i.received

SlotStats(i) == [entries |-> i.entries, success |-> i.success, failed |-> i.failed, max |-> i.max]

\* add_created_at, add_tx, add_entry, add_meta
Count(i, m) ==
    CASE m.kind = "slot" -> [i EXCEPT !.slot = m.slot]
      [] m.kind = "tx" -> IF m.failed = "yes" THEN [i EXCEPT !.failed = @ + 1]
                          ELSE [i EXCEPT !.success = @ + 1]
      [] m.kind = "entry" -> [i EXCEPT !.received = @ + 1, !.max = Max({@, m.count})]
      [] m.kind = "meta" -> [i EXCEPT !.meta = TRUE, !.transactions = m.transactions,
                                      !.entries = m.entries]

\* CachedSignatures::add_signature: whole slots go, the oldest first, until a limit
\* is respected again; dead_slot removes one slot.
Forget(s, slots) ==
    [s EXCEPT !.slots = Without(@, slots),
              !.signatures = Without(@, UNION {s.slots[x] : x \in slots})]

MustEvict(s) == Cardinality(DOMAIN s.signatures) >= SignaturesMax
                \/ Cardinality(DOMAIN s.slots) >= SlotsMax

AddSignature(s, m) ==
    LET After(n) == Forget(s, {x \in DOMAIN s.slots :
                                 Cardinality({y \in DOMAIN s.slots : y < x}) < n})
        n == Min({k \in 0 .. Cardinality(DOMAIN s.slots) :
                     ~MustEvict(After(k)) \/ k = Cardinality(DOMAIN s.slots)})
    IN  IF ~m.decodes THEN s
        ELSE [After(n) EXCEPT
                !.signatures = With(@, m.sig, [slot |-> m.slot, failed |-> m.failed]),
                !.slots = With(@, m.slot, Get(@, m.slot, {}) \cup {m.sig})]

Counted(m) == m.kind \in {"tx", "entry", "meta"} \/ (m.kind = "slot" /\ m.status = Processed)

\* What the tracker notes of a message of the processed ring; extra collects the
\* slots whose statistics became complete.
Observe(s, m) ==
    LET cached == IF m.kind = "tx" THEN AddSignature(s, m)
                  ELSE IF m.kind # "slot" THEN s
                  ELSE IF m.status = "dead" THEN Forget(s, {m.slot} \cap DOMAIN s.slots)
                  ELSE IF m.status = Confirmed THEN [s EXCEPT !.confirmed = m.slot]
                  ELSE IF m.status = Finalized
                  THEN [s EXCEPT !.finalized = m.slot,
                                 !.stats = Without(@, {x \in DOMAIN @ : x <= m.slot})]
                  ELSE s
        item == Count(Get(s.stats, m.slot, NewStats), m)
    IN  IF ~Counted(m) THEN cached
        ELSE [cached EXCEPT
                !.stats = With(@, m.slot, item),
                !.extra = IF Complete(item)
                          THEN Append(@, [kind |-> "slot", slot |-> item.slot,
                                          status |-> Processed, stats |-> SlotStats(item)])
                          ELSE @]

(***************************************************************************)
(* The loop of subscriptions_worker                                        *)
(***************************************************************************)
Idle == [pc |-> "requests", taken |-> 0, jobs |-> <<>>, notes |-> <<>>]

\* The sender publishes the next message.
Publish ==
    /\ script # <<>>
    /\ rings' = [rings EXCEPT ![Head(script).c] = Append(@, Head(script).m)]
    /\ script' = Tail(script)
    /\ UNCHANGED <<heads, tick, tr, seen, requests, ws, frames, due, joined, written>>

\* A client has left a subscription, or the tracker has removed the client.
Left(t) ==
    [c \in Client |->
       IF c \notin DOMAIN t.clients THEN Empty
       ELSE [id \in DOMAIN joined[c] |->
               IF id \in DOMAIN t.subscriptions /\ c \notin t.subscriptions[id].clients
               THEN -1 ELSE joined[c][id]]]

\* Subscriptions::update
TakeRequest ==
    /\ tick.pc = "requests" /\ tick.taken < RequestsPerTick /\ requests # <<>>
    /\ tick' = [tick EXCEPT !.taken = @ + 1]
    /\ requests' = Tail(requests)
    /\ LET r == Head(requests)
           c == r.client
       IN  \/ /\ r.kind = "register"
              /\ tr' = [RemoveClient(tr, c) EXCEPT !.clients = With(@, c, {})]
              /\ UNCHANGED <<ws, due, joined>>
           \/ /\ r.kind = "subscribe"
              /\ LET id == SubscriptionId(tr, c, r.config)
                     told == IF r.config \in DOMAIN tr.by_config THEN <<>> ELSE Cached(r.config)
                 IN  /\ tr' = Subscribe(tr, c, r.config)
                     /\ ws' = [ws EXCEPT ![c].reply = <<id>>]
                     /\ IF c \notin DOMAIN tr.clients THEN UNCHANGED <<due, joined>>
                        ELSE /\ due' = IF id \in DOMAIN due THEN due ELSE With(due, id, told)
                             /\ joined' = [Left(tr') EXCEPT ![c] =
                                  IF c \notin DOMAIN tr'.clients \/ id \in DOMAIN @ THEN @
                                  ELSE With(@, id, Len(due'[id]) - Len(told))]
           \/ /\ r.kind = "unsubscribe"
              /\ LET known == c \in DOMAIN tr.clients /\ r.id \in tr.clients[c]
                 IN  /\ tr' = IF known
                              THEN Leave([tr EXCEPT !.clients[c] = @ \ {r.id}], c, {r.id}) ELSE tr
                     /\ ws' = [ws EXCEPT ![c].reply = <<IF known THEN r.id ELSE -1>>]
                     /\ joined' = IF known THEN [joined EXCEPT ![c][r.id] = -1] ELSE joined
              /\ UNCHANGED due
           \/ /\ r.kind = "remove"
              /\ tr' = RemoveClient(tr, c)
              /\ joined' = [joined EXCEPT ![c] = Empty]
              /\ UNCHANGED <<ws, due>>
    /\ UNCHANGED <<script, rings, heads, seen, frames, written>>

Kept(c, m) == c = Processed \/ m.kind # "slot"

\* ReceiverSync::try_recv fails: the position is not held any more, or never was.
LagsBehind(c) ==
    /\ heads[c] <= Len(rings[c])
    /\ heads[c] < 1 \/ heads[c] <= Len(rings[c]) - RingSize

\* The last position a tick reads of a ring.
LastRead(c) ==
    LET kept(p) == {q \in heads[c] .. p : Kept(c, rings[c][q])}
    IN  Min({p \in heads[c] .. Len(rings[c]) : Cardinality(kept(p)) = MessagesPerTick}
            \cup {Len(rings[c])})

Job(id, m, st) == [id |-> id, m |-> m, stats |-> st]

\* collect_jobs
JobsOf(c, m) ==
    LET ids == SetToSortSeq(Candidates(tr.index[c], m), <)
    IN  [i \in DOMAIN ids |-> Job(ids[i], m, NoStats)]

\* collect_slots_updates_jobs
ExtraJobs(extra) ==
    LET ids == SetToSortSeq({e[3] : e \in {x \in tr.index[Processed] : x[1] = "slotsUpdates"}}, <)
    IN  FlattenSeq([k \in DOMAIN extra |->
            [i \in DOMAIN ids |-> Job(ids[i], extra[k], extra[k].stats)]])

\* The part of the loop that filters, on the pool of workers, in order.
Filtered(jobs) ==
    FlattenSeq([i \in DOMAIN jobs |->
        LET told == FilterJob(tr.subscriptions[jobs[i].id].config, jobs[i].m, jobs[i].stats,
                              seen.finalized)
        IN  [k \in DOMAIN told |-> [id |-> jobs[i].id, told |-> told[k]]]])

\* History: what the messages oblige each subscription of the commitment to tell,
\* found without the index; a signature is told once.
Obliged(c, msgs, s) ==
    [id \in DOMAIN due |->
       IF \/ id \notin DOMAIN tr.subscriptions
          \/ CommitmentOf(tr.subscriptions[id].config) # c THEN due[id]
       ELSE LET config == tr.subscriptions[id].config
                Of(ms, st(_)) == FlattenSeq([i \in DOMAIN ms |->
                                   FilterJob(config, ms[i], st(ms[i]), s.finalized)])
                all == Of(msgs, LAMBDA m : NoStats)
                       \o (IF config.method = "slotsUpdates"
                           THEN Of(s.extra, LAMBDA m : m.stats) ELSE <<>>)
            IN  due[id] \o (IF config.method = "signature"
                            THEN SubSeq(all, 1, Min({1, Len(all)})) ELSE all)]

Phases == <<"requests", Processed, Confirmed, Finalized>>

\* One ring of a tick; the first also ends the taking of requests, the last also
\* filters.
ReadRing(i) ==
    LET c == Phases[i + 1]
        from == IF heads[c] <= Len(rings[c]) THEN heads[c] ELSE Len(rings[c]) + 1
        upto == IF heads[c] <= Len(rings[c]) THEN LastRead(c) ELSE Len(rings[c])
        msgs == SelectSeq(SubSeq(rings[c], from, upto), LAMBDA m : Kept(c, m))
        s == IF c = Processed THEN FoldLeft(Observe, [seen EXCEPT !.extra = <<>>], msgs) ELSE seen
        jobs == tick.jobs \o FlattenSeq([k \in DOMAIN msgs |-> JobsOf(c, msgs[k])])
        notes == Filtered(jobs \o ExtraJobs(s.extra))
    IN  /\ tick.pc = Phases[i]
        /\ i = 1 => (tick.taken = RequestsPerTick \/ requests = <<>>)
        /\ ~LagsBehind(c)
        /\ heads' = [heads EXCEPT ![c] = @ + (upto - from + 1)]
        /\ seen' = s
        /\ due' = Obliged(c, msgs, [s EXCEPT !.extra = IF c = Processed THEN @ ELSE <<>>])
        /\ tick' = IF c # Finalized THEN [tick EXCEPT !.pc = c, !.jobs = jobs]
                   ELSE IF notes = <<>> THEN Idle
                   ELSE [Idle EXCEPT !.pc = "deliver", !.notes = notes]
        /\ UNCHANGED <<script, rings, tr, requests, ws, frames, joined, written>>

DeliverNext ==
    LET n == Head(tick.notes)
    IN  /\ tick.pc = "deliver"
        /\ tr' = Deliver(tr, n.id, n.told)
        /\ joined' = Left(tr')
        /\ tick' = IF Len(tick.notes) = 1 THEN Idle ELSE [tick EXCEPT !.notes = Tail(@)]
        /\ UNCHANGED <<script, rings, heads, seen, requests, ws, frames, due, written>>

\* try_recv returns an error, which ends subscriptions_worker: its ends of all
\* channels are dropped.
TrackerFails ==
    /\ \E i \in 1 .. 3 : tick.pc = Phases[i] /\ LagsBehind(Phases[i + 1])
    /\ tick' = [Idle EXCEPT !.pc = "failed"]
    /\ tr' = [tr EXCEPT !.clients = Empty, !.subscriptions = Empty, !.by_config = Empty,
                        !.index = [c \in Commitment |-> {}], !.items = <<>>]
    /\ requests' = <<>>
    /\ joined' = [c \in Client |-> Empty]
    /\ UNCHANGED <<script, rings, heads, seen, ws, frames, due, written>>

(***************************************************************************)
(* handle_client and serve_client                                          *)
(***************************************************************************)
Offline == [pc |-> "off", alive |-> FALSE, out |-> [kind |-> "none"], reply |-> <<>>,
            subs |-> {}, reason |-> "", reads |-> FALSE, peer |-> "answers"]

\* A connection is upgraded; its task registers before it does anything else.
Connect(c) ==
    /\ c \in env.clients /\ ws[c].pc = "off"
    /\ ws' = [ws EXCEPT ![c].pc = "sending", ![c].alive = TRUE, ![c].reads = TRUE,
                        ![c].out = [kind |-> "register", client |-> c]]
    /\ UNCHANGED <<script, rings, heads, tick, tr, seen, requests, frames, due, joined, written>>

\* The other end of the socket: it "answers", is "silent" (it reads and sends nothing
\* any more) or "stalled" (it does not read any more, and its buffers are full).
Peer == {"answers", "silent", "stalled"}

PeerTurns(c) ==
    /\ ws[c].pc \notin {"off", "gone"}
    /\ \E p \in env.peers \ {ws[c].peer} : ws' = [ws EXCEPT ![c].peer = p]
    /\ UNCHANGED <<script, rings, heads, tick, tr, seen, requests, frames, due, joined, written>>

\* Both tasks of a client are over, or one of them failed, which ends try_join: the
\* queue is dropped and Remove is sent.
Closing(c, reason) ==
    [ws EXCEPT ![c].pc = "sending", ![c].alive = FALSE, ![c].reads = FALSE, ![c].reply = <<>>,
               ![c].reason = reason, ![c].out = [kind |-> "remove", client |-> c]]

\* ws_tx.write_frame(..).await, of a notification, an answer or, with a reason, of the
\* close frame that is the last act of the write task.
Writing(c, reason) == [ws EXCEPT ![c].pc = "writing", ![c].reply = <<>>, ![c].reason = reason]

\* The frame is written.  After a close frame the write task returns and its queue is
\* dropped, while try_join goes on waiting for the read task.
Wrote(c) ==
    /\ ws[c].pc = "writing" /\ ws[c].peer # "stalled"
    /\ IF ws[c].reason = ""
       THEN ws' = [ws EXCEPT ![c].pc = "idle"] /\ UNCHANGED tr
       ELSE /\ ws' = IF ws[c].reads THEN [ws EXCEPT ![c].pc = "ended", ![c].alive = FALSE]
                     ELSE Closing(c, ws[c].reason)
            /\ tr' = [tr EXCEPT !.queue[c] = <<>>]
    /\ UNCHANGED <<script, rings, heads, tick, seen, requests, frames, due, joined, written>>

\* Mutant: the read task does not look at whether the write task took the frame.
ReaderGoesOn(c) == ws[c].pc = "ended" /\ ws[c].peer # "silent" /\ UNCHANGED vars

\* The read task, in read_frame all the while, gets another frame, such as the answer to
\* the close frame: it finds the write task gone and returns.
ReaderEnds(c) ==
    /\ ws[c].pc = "ended" /\ ws[c].peer # "silent"
    /\ ws' = Closing(c, ws[c].reason)
    /\ UNCHANGED <<script, rings, heads, tick, tr, seen, requests, frames, due, joined, written>>

\* clients_tx.send waits for room, or fails without a tracker: a request that fails takes
\* the read task along, which waits for the answer.
SendRequest(c) ==
    LET kind == ws[c].out.kind
        next == IF kind = "register" THEN "idle" ELSE IF kind = "remove" THEN "gone" ELSE "waiting"
    IN  /\ ws[c].pc = "sending"
        /\ \/ /\ tick.pc # "failed" /\ Len(requests) < RequestsMax
              /\ requests' = Append(requests, ws[c].out)
              /\ ws' = [ws EXCEPT ![c].pc = next]
           \/ /\ tick.pc = "failed"
              /\ ws' = IF next = "waiting" THEN [Writing(c, "shutdown") EXCEPT ![c].reads = FALSE]
                       ELSE [ws EXCEPT ![c].pc = "gone", ![c].alive = FALSE]
              /\ UNCHANGED requests
        /\ UNCHANGED <<script, rings, heads, tick, tr, seen, frames, due, joined, written>>

Unsubscribes == {"accountUnsubscribe", "blockUnsubscribe", "transactionUnsubscribe"}

\* A text frame.  An error and a version are answered at once, anything else goes to
\* the tracker; the task then serves nothing but the answer.
ReadFrame(c, r) ==
    LET config == Parse(r)
        Ask(req) == ws' = [ws EXCEPT ![c].pc = "sending", ![c].out = req]
    IN  /\ ws[c].pc = "idle" /\ ws[c].peer # "silent" /\ frames < env.frames
        /\ frames' = frames + 1
        /\ \/ /\ IsError(config) \/ config.method = "getVersion"
              /\ ws' = Writing(c, "")
           \/ /\ config.method \in Unsubscribes
              /\ \E id \in ws[c].subs \cup {tr.next} :
                    Ask([kind |-> "unsubscribe", client |-> c, id |-> id])
           \/ /\ ~IsError(config) /\ config.method \notin Unsubscribes \cup {"getVersion"}
              /\ Ask([kind |-> "subscribe", client |-> c, config |-> config])
        /\ UNCHANGED <<script, rings, heads, tick, tr, seen, requests, due, joined, written>>

\* Mutant: a queued notification is taken while an answer is awaited.
ServesAnyTime(c) ==
    ws[c].pc = "idle" \/ (ws[c].pc = "waiting" /\ tr.queue[c] # <<>>
                           /\ Head(tr.queue[c]).id \notin ws[c].subs)

ServesNotifications(c) == ws[c].pc = "idle"

\* Mutant: the tracker's end of the answer channel outlives the tracker.
AnswerNeverLost(c) == FALSE

\* rx.await fails: the request went with the tracker.
AnswerLost(c) == ws[c].reply = <<>> /\ tick.pc = "failed"

\* The answer to Subscribe or Unsubscribe.
ReadReply(c) ==
    /\ ws[c].pc = "waiting"
    /\ \/ /\ ws[c].reply # <<>>
          /\ ws' = [Writing(c, "") EXCEPT ![c].subs =
                               IF ws[c].out.kind = "subscribe"
                               THEN @ \cup {ws[c].reply[1]} ELSE @ \ {ws[c].reply[1]}]
       \/ /\ AnswerLost(c)
          /\ ws' = Closing(c, "shutdown")
    /\ UNCHANGED <<script, rings, heads, tick, tr, seen, requests, frames, due, joined, written>>

\* The sender of the queue exists: the client is registered or about to be.
SenderHeld(c) ==
    \/ c \in DOMAIN tr.clients
    \/ \E i \in DOMAIN requests : requests[i].kind = "register" /\ requests[i].client = c

\* Mutant: the task keeps a sender of its own queue.
QueueNeverClosed(c) == FALSE

QueueClosed(c) == tr.queue[c] = <<>> /\ ~SenderHeld(c)

\* notifications.recv()
Notified(c) ==
    /\ ServesNotifications(c)
    /\ \/ /\ tr.queue[c] # <<>>
          /\ LET n == Head(tr.queue[c])
             IN  \/ /\ n = LaggedNote
                    /\ ws' = Writing(c, "lagged: len")
                    /\ UNCHANGED written
                 \/ /\ n # LaggedNote /\ n.id \in ws[c].subs
                    /\ \E x \in Range(tr.items) : x.serial = n.serial
                    /\ written' = [written EXCEPT ![c] = Append(@, n)]
                    /\ ws' = [Writing(c, "") EXCEPT ![c].subs = IF n.final THEN @ \ {n.id} ELSE @]
                 \/ /\ n # LaggedNote /\ n.id \in ws[c].subs
                    /\ ~\E x \in Range(tr.items) : x.serial = n.serial
                    /\ ws' = Writing(c, "lagged: memory")
                    /\ UNCHANGED written
                 \/ /\ n # LaggedNote /\ n.id \notin ws[c].subs
                    /\ UNCHANGED <<ws, written>>
          /\ tr' = [tr EXCEPT !.queue[c] = Tail(@)]
       \/ /\ QueueClosed(c)
          /\ ws' = Writing(c, "shutdown")
          /\ UNCHANGED <<tr, written>>
    /\ UNCHANGED <<script, rings, heads, tick, seen, requests, frames, due, joined>>

\* A close frame, a failing socket or the shutdown of the server.  A task that waits for
\* the tracker looks at none of them.
Disconnect(c) ==
    /\ ws[c].pc \in {"idle", "writing", "ended"} /\ env.fail
    /\ ws' = Closing(c, "peer")
    /\ tr' = [tr EXCEPT !.queue[c] = <<>>]
    /\ UNCHANGED <<script, rings, heads, tick, seen, requests, frames, due, joined, written>>

Init ==
    \E s \in Scenarios :
        /\ script = s.script /\ env = s
        /\ rings = [c \in Commitment |-> [i \in 1 .. Before[c] |->
                                            [kind |-> "slot", slot |-> 1, status |-> "completed"]]]
        /\ heads = [c \in Commitment |-> Before[Processed]]
        /\ tick = Idle
        /\ tr = [next |-> 0, by_config |-> Empty, subscriptions |-> Empty, clients |-> Empty,
                 index |-> [c \in Commitment |-> {}], queue |-> [c \in Client |-> <<>>],
                 items |-> <<>>, serial |-> 0]
        /\ seen = [signatures |-> Empty, slots |-> Empty, confirmed |-> 0, finalized |-> 0,
                   stats |-> Empty, extra |-> <<>>]
        /\ requests = <<>> /\ ws = [c \in Client |-> Offline] /\ frames = 0
        /\ due = Empty /\ joined = [c \in Client |-> Empty]
        /\ written = [c \in Client |-> <<>>]

Tracker == TakeRequest \/ (\E i \in 1 .. 3 : ReadRing(i)) \/ DeliverNext \/ TrackerFails

Task(c) == SendRequest(c) \/ ReadReply(c) \/ Notified(c) \/ Wrote(c)

Next ==
    /\ \/ Publish
       \/ Tracker
       \/ \E c \in Client : \/ Connect(c) \/ Task(c)
                         \/ ReaderEnds(c) \/ PeerTurns(c) \/ Disconnect(c)
       \/ \E c \in Client, r \in env.asks : ReadFrame(c, r)
    /\ UNCHANGED env

Spec == Init /\ [][Next]_vars

\* The tracker thread loops without waiting, and tokio polls a task that is ready; a
\* peer that goes on answering answers a close frame in the end.  The sender, other
\* frames, what becomes of the peers and failures are not fair.  A step of the tracker
\* is a step that changes tick, and it can take one until it has failed: the first
\* conjunct is WF_vars(Tracker).
Fairness ==
    /\ <>[](tick.pc # "failed") => []<><<TRUE>>_tick
    /\ \A c \in Client : /\ WF_vars(Task(c) /\ UNCHANGED env)
                         /\ WF_vars(ws[c].peer = "answers" /\ ReaderEnds(c) /\ UNCHANGED env)
FairSpec == Spec /\ Fairness
(***************************************************************************)
(* Properties                                                              *)
(***************************************************************************)
\* Every variable has its type, and no queue holds more than its capacity.
TypeOK ==
    /\ DOMAIN tr.clients \subseteq Client /\ tr.next \in Nat
    /\ \A c \in Client : Len(tr.queue[c]) <= QueueMax + 1
    /\ Len(requests) <= RequestsMax
    /\ tick.pc \in Range(Phases) \cup {"deliver", "failed"}
    /\ \A c \in Client : ws[c].peer \in Peer
    /\ \A c \in Client : ws[c].pc \in {"off", "sending", "idle", "waiting", "writing", "ended", "gone"}

\* The maps of the tracker agree, so that none of its "subscriptions storage
\* inconsistent" and "subscriptions index inconsistent" panics can occur: whatever the
\* order of shared and final subscriptions, slow clients, requests of clients that
\* were removed already, and Remove.
StorageConsistent ==
    LET ids == DOMAIN tr.subscriptions
    IN  /\ \A id \in ids :
              /\ tr.subscriptions[id].clients # {}
              /\ \A c \in tr.subscriptions[id].clients :
                    c \in DOMAIN tr.clients /\ id \in tr.clients[c]
              /\ Get(tr.by_config, tr.subscriptions[id].config, -1) = id
        /\ \A c \in DOMAIN tr.clients : \A id \in tr.clients[c] :
              id \in ids /\ c \in tr.subscriptions[id].clients
        /\ Range(tr.by_config) = ids
        /\ \A l \in Commitment : {e[3] : e \in tr.index[l]}
              = {id \in ids : CommitmentOf(tr.subscriptions[id].config) = l}

\* test_index_matches_full_scan (tracker.rs:1726), for every state the tracker can
\* get into: a message reaches through the index exactly the subscriptions that a scan
\* of all of them finds.
IndexMatchesFullScan ==
    \A p \in UNION {Range(s.script) : s \in Scenarios} : p.c = Processed \/ p.m.kind # "slot" =>
        {id \in Candidates(tr.index[p.c], p.m) : Matches(tr.subscriptions[id].config, p.m)}
        = {id \in DOMAIN tr.subscriptions :
              /\ CommitmentOf(tr.subscriptions[id].config) = p.c
              /\ Matches(tr.subscriptions[id].config, p.m)}

\* What client c was told, or will be told from its queue, of subscription id.
ToldOf(c, id) ==
    LET mine == SelectSeq(written[c] \o tr.queue[c], LAMBDA n : n.id = id)
    IN  [i \in DOMAIN mine |-> mine[i].told]

\* A client that the tracker still serves gets of each of its subscriptions every
\* notification since it joined, once and in order, whatever else it asks for in
\* between: what does not fit in its queue or is gone from the store ends the
\* connection, and is never skipped.
NoSilentGap ==
    tick.pc = "requests" =>
        \A c \in DOMAIN tr.clients : ws[c].alive =>
            \A id \in DOMAIN joined[c] : joined[c][id] # -1 =>
                ToldOf(c, id) = SubSeq(due[id], joined[c][id] + 1, Len(due[id]))

\* A signature subscription is answered once, whether the transaction passes before,
\* while or after the subscription is made (test_signature_subscribe_cached,
\* tracker.rs:1547), at the level at which the tracker learns of it.
SignatureAnswered(level) ==
    tick.pc = "requests" =>
        \A c \in DOMAIN tr.clients : ws[c].alive =>
            \A id \in tr.clients[c] :
                LET config == tr.subscriptions[id].config
                IN  (config.method = "signature" /\ config.commitment = level) =>
                        ~\E p \in 1 .. heads[level] - 1 : Matches(config, rings[level][p])

\* signatureSubscribe at processed: what the tracker has read of the ring, or kept of it in
\* its cache, has answered it.
ProcessedSignatureAnswered == SignatureAnswered(Processed)

\* The same at confirmed: not so, its ring is read from the tail of another ring
\* (tracker.rs:557).
ConfirmedSignatureAnswered == SignatureAnswered(Confirmed)

IsFrozen(n) == n.value[1] = "frozen"

\* Of a slot of which each event arrives once, as it does for the one bank of a slot behind
\* the deduplication of the sender, one frozen update is due to whoever follows the slot
\* from its first status on: after its last event, with the final statistics, in whatever
\* order and in whatever ticks its transactions, entries, meta and status are read and
\* whenever an older slot is finalized.
FrozenOnceWithAllCounted ==
    \A id \in DOMAIN due :
        LET all == rings[Processed] \o [k \in DOMAIN script |-> script[k].m]
            Of(slot, kind) == SelectSeq(all, LAMBDA m : m.kind = kind /\ m.slot = slot)
            Final(slot) ==
                [entries |-> Len(Of(slot, "entry")),
                 success |-> Len(SelectSeq(Of(slot, "tx"), LAMBDA m : m.failed = "no")),
                 failed |-> Len(SelectSeq(Of(slot, "tx"), LAMBDA m : m.failed = "yes")),
                 max |-> Max({0} \cup {m.count : m \in Range(Of(slot, "entry"))})]
            Frozen(slot) == SelectSeq(due[id], LAMBDA n : IsFrozen(n) /\ n.slot = slot)
        IN  /\ \A i \in DOMAIN due[id] : IsFrozen(due[id][i]) =>
                  LET slot == due[id][i].slot
                  IN  due[id][i].value[2] = Final(slot) /\ Len(Frozen(slot)) = 1
            /\ \A i \in DOMAIN due[id] :
                  (/\ id \in DOMAIN tr.subscriptions
                   /\ due[id][i].value = <<"firstShredReceived">>
                   /\ script = <<>> /\ heads[Processed] > Len(rings[Processed]))
                  => Frozen(due[id][i].slot) # <<>>

\* A client that is dropped because it is slow is told so: the place kept in its queue
\* for that is free when it is needed, and "shutdown" is told only when the tracker is
\* gone.
ToldWhyDropped == \A c \in Client : ws[c].reason = "shutdown" => tick.pc = "failed"

\* The tracker has dropped the client, or lost it with everything else.
Dropped(c) == ws[c].alive /\ ~SenderHeld(c) /\ ws[c].pc # "sending"

\* A client that was dropped, or told so, is told and its queue is released, unless its
\* peer does not read; and its connection ends, as far as the peer answers.  No more than
\* that: write_frame and read_frame have no timeout, so that a peer that stalls or keeps
\* silent for ever keeps the connection, whatever the tracker does.
DroppedClientsEnd ==
    \A c \in Client :
        /\ Dropped(c) ~> (~ws[c].alive \/ ws[c].peer = "stalled")
        /\ (Dropped(c) \/ ws[c].pc = "ended") ~> (ws[c].pc = "gone" \/ ws[c].peer # "answers")

\* Every request is answered or its task ends, also with full queues and whatever the
\* peers of this and other clients do: what they do not read holds up nobody else.
RequestsAnswered == \A c \in Client : (ws[c].pc = "waiting") ~> (ws[c].pc # "waiting")

\* The tracker fails only when a message it had not read was evicted: a reader starts
\* behind the tail of its own ring (channel_tests.rs:350, get_current_tail(level) + 1).
FailsOnlyIfEvicted ==
    tick.pc = "failed" => \E c \in Commitment : Len(rings[c]) > RingSize

\* The structures of the tracker agree with one another, and with what the clients asked for.
TrackerInv == TypeOK /\ StorageConsistent /\ IndexMatchesFullScan

\* A client is told everything it is due, in order, or why not.
ClientIsTold == NoSilentGap /\ ToldWhyDropped

\* No client waits for ever for an answer, nor, if its peer answers, for its connection to
\* end.
NobodyWaits == DroppedClientsEnd /\ RequestsAnswered
=============================================================================
