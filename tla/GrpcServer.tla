----------------------------- MODULE GrpcServer -----------------------------
(***************************************************************************)
(* The gRPC server of richat (richat/src/grpc/server.rs) with the replay   *)
(* threads of the storage (storage/mod.rs), their segment reader           *)
(* (storage/reader.rs) and the unary methods (grpc/block_meta.rs).         *)
(*                                                                         *)
(* A client is served by the tasks of its call, by the workers, which pass *)
(* it from one to the other through a queue, and by the replay threads,    *)
(* which take its replay requests.  They meet in SubscribeClientState,     *)
(* under its mutex.  A tick of a worker and a turn of a replay thread are  *)
(* split wherever the sender can run in between.                           *)
(*                                                                         *)
(* The rings and the journal are seen through what SharedChannel and       *)
(* StoragePipeline promise: a record of the journal is a record            *)
(* [level, m, payload], its index the place in the sequence, and a ring is *)
(* the sequence of the indices of its level, of which it holds the last.   *)
(***************************************************************************)
EXTENDS BlockMeta, FiniteSetsExt

CONSTANTS
    Client, Worker, Thread,
    Scenarios,        \* records [levels, written, blocks, disk, script, clients, workers,
                      \* threads, asks, frames, drops, stops, epochs, unary]: the levels
                      \* the storage keeps (none without a storage), the records on
                      \* disk and their format, what is published as records
                      \* [level, m], the clients and their requests, and bounds
    RingSize,         \* messages a ring holds
    StorageMaxSlots,  \* storage.max_slots
    LenMax,           \* messages_len_max of a client
    ReplayLenMax,     \* messages_replay_len_max of a client
    PerTick,          \* messages_max_per_tick
    DecodePerTick,    \* replay_decode_per_tick
    InflightMax,      \* replay_inflight_max
    CacheMax          \* messages_cached_max, a power of two

ASSUME ConstantsAssumption ==
    /\ RingSize \in Nat \ {0} /\ StorageMaxSlots \in Nat \ {0}
    /\ LenMax \in Nat /\ ReplayLenMax \in Nat \ {0} /\ PerTick \in Nat \ {0}
    /\ DecodePerTick \in Nat \ {0} /\ InflightMax \in Nat /\ CacheMax \in Nat \ {0}
    /\ IsFiniteSet(Worker) /\ IsFiniteSet(Thread) /\ "none" \notin Client
    /\ \A x \in Scenarios :
          /\ x.clients \subseteq Client /\ x.workers \subseteq Worker /\ x.threads \subseteq Thread
          /\ \A r \in x.asks : r.type \in {"ping", "filter"}

VARIABLES
    env,         \* the scenario
    script,      \* what the sender has still to publish
    journal, rings,
    store,       \* the catalog [chunks, flushed], Sender.replay and Storage.levels
    floors,      \* where the journal continued after each gap, first the start
    cl,          \* SubscribeClientState and the message queue of each client
    clients,     \* subscribe_clients
    workers, threads,
    rq,          \* ReplayQueue
    bm,          \* the block meta thread and its State
    frames,      \* requests sent by clients
    stopped,     \* the shutdown token
    since,       \* history: what each client subscribed to
    told         \* history: what was sent to it since

vars == <<env, script, journal, rings, store, floors, cl, clients, workers, threads, rq, bm,
          frames, stopped, since, told>>
log == <<script, journal, rings, store, floors>>

Processed == "processed"
Confirmed == "confirmed"
Finalized == "finalized"
Level == {Processed, Confirmed, Finalized}
NoSlot == -1        \* from_slot: None
NoOne == "none"
NoAsk == [type |-> "none"]
Epoch == Len(floors) - 1

(***************************************************************************)
(* The sender, its rings and its storage                                   *)
(***************************************************************************)
Evicted(l) == Max({0, Len(rings[l]) - RingSize})
SlotAt(l, p) == journal[rings[l][p]].m.slot

\* SharedChannel.slots: the slots of which the ring holds every message.
MemorySlots(l) ==
    LET lost == Max({0} \cup {SlotAt(l, p) : p \in 1 .. Evicted(l)})
        held == {p \in Evicted(l) + 1 .. Len(rings[l]) : rings[l][p] >= floors[Epoch + 1]}
    IN  {SlotAt(l, p) : p \in {q \in held : SlotAt(l, q) > lost}}
HeadOf(l, s) == Min({p \in DOMAIN rings[l] : SlotAt(l, p) = s /\ rings[l][p] >= floors[Epoch + 1]})

\* The first index from which on the ring has every message of the journal.
RingFloor(l) == Max({floors[Epoch + 1], floors[1]} \cup {rings[l][p] + 1 : p \in 1 .. Evicted(l)})

\* Mutant: a replay only goes to memory at a message the ring holds.
HeadByReplayIndexHeld(l, i) ==
    LET held == {p \in Evicted(l) + 1 .. Len(rings[l]) : rings[l][p] >= i}
    IN  IF i < RingFloor(l) \/ held = {} THEN 0 ELSE Min(held)

\* SharedChannel::get_head_by_replay_index; 0 stands for None.
HeadByReplayIndex(l, i) ==
    IF i < RingFloor(l) THEN 0
    ELSE Min({p \in Evicted(l) + 1 .. Len(rings[l]) : rings[l][p] >= i} \cup {Len(rings[l]) + 1})

\* Sender::push of one record: journal, replay map, retention, ring.
Publish ==
    LET r == Head(script)
        i == Len(journal) + 1
        same == {k \in floors[Epoch + 1] .. Len(journal) :
                   journal[k].m = r.m /\ journal[k].level = Processed}
        opened == IF store.levels # {} /\ r.level = Processed /\ r.m.slot \notin DOMAIN store.replay
                  THEN Put(store.replay, r.m.slot, i) ELSE store.replay
        retained == IF Cardinality(DOMAIN opened) > StorageMaxSlots
                    THEN Keep(opened, DOMAIN opened \ {Min(DOMAIN opened)}) ELSE opened
    IN  /\ script # <<>> /\ ~stopped
        /\ journal' = Append(journal, [level |-> r.level, m |-> r.m,
                                       payload |-> IF r.level = Processed \/ same = {}
                                                   THEN i ELSE Max(same)])
        /\ rings' = [rings EXCEPT ![r.level] = Append(@, i)]
        /\ store' = [store EXCEPT !.replay = retained]
        /\ script' = Tail(script)
        /\ UNCHANGED <<env, floors, cl, clients, workers, threads, rq, bm, frames, stopped, since,
                       told>>

\* The segment writer makes a chunk of what it has got.
Flush ==
    /\ store.levels # {} /\ store.flushed < Len(journal)
    /\ store' = [store EXCEPT
          !.chunks = Append(@, [first |-> store.flushed + 1, last |-> Len(journal),
                                levels |-> store.levels, blocks |-> TRUE]),
          !.flushed = Len(journal)]
    /\ UNCHANGED <<env, script, journal, rings, floors, cl, clients, workers, threads, rq, bm,
                   frames, stopped, since, told>>

\* Retention: the first chunk goes when no retained slot starts in it.
Prune ==
    /\ store.chunks # <<>>
    /\ \A s \in DOMAIN store.replay : store.replay[s] > store.chunks[1].last
    /\ store.replay # <<>>
    /\ store' = [store EXCEPT !.chunks = Tail(@)]
    /\ UNCHANGED <<env, script, journal, rings, floors, cl, clients, workers, threads, rq, bm,
                   frames, stopped, since, told>>

\* Sender::begin_live_epoch
BeginLiveEpoch ==
    /\ Epoch < env.epochs
    /\ floors' = Append(floors, Len(journal) + 1)
    /\ store' = [store EXCEPT !.replay = <<>>]
    /\ UNCHANGED <<env, script, journal, rings, cl, clients, workers, threads, rq, bm, frames,
                   stopped, since, told>>

(***************************************************************************)
(* SubscribeClient                                                         *)
(***************************************************************************)
Ping == 0
Error == -1
Unknown == [at |-> "unknown", pos |-> 0]
Memory(p) == [at |-> "memory", pos |-> p]
Storage(i) == [at |-> "storage", pos |-> i]

NewClient == [finished |-> FALSE, filter |-> FALSE, level |-> Processed, gen |-> 0, epoch |-> 0,
              from |-> NoSlot, head |-> Unknown, messages |-> <<>>, len |-> 0, stream |-> "none",
              asking |-> NoAsk, seen_epoch |-> 0, stopped |-> FALSE]

\* push_message; only the length of updates is counted here.
PushMessage(c, item) == [c EXCEPT !.messages = Append(@, item), !.len = @ + 1]

\* push_error: what was queued goes, its length stays counted.
PushError(c) == [c EXCEPT !.messages = <<Error>>]
Finish(c) == [PushError(c) EXCEPT !.finished = TRUE]

\* The mutex of the state is free.
Unlocked(c) ==
    /\ cl[c].asking = NoAsk
    /\ \A w \in Worker : ~(workers[w].pc = "recv" /\ workers[w].client = c)
    /\ \A t \in Thread : ~(threads[t].pc = "push" /\ threads[t].req.client = c)

(***************************************************************************)
(* ReplayQueue                                                             *)
(***************************************************************************)
NewRequest(c, gen, level) ==
    [client |-> c, gen |-> gen, level |-> level, deferred |-> FALSE, msgs |-> <<>>, error |-> FALSE,
     reader |-> 0, cursor |-> 0, last |-> 0]
NoRequest == NewRequest(NoOne, 0, Processed)

\* Mutant: a request that is dropped keeps its place.
DropReqKeeps(q) == q

\* ReplayQueue::drop_req
DropReq(q) == [q EXCEPT !.len = IF @ > 0 THEN @ - 1 ELSE 0]

\* Mutant: one request more than the queue may have.
QueueFullLate(q) == q.len > q.cap

\* push_new refuses the request.
QueueFull(q) == q.len >= q.cap

(***************************************************************************)
(* The tasks of a call                                                     *)
(***************************************************************************)

\* subscribe2: the client is created and handed to the workers.
Subscribe(c) ==
    /\ cl[c].stream = "none" /\ c \in env.clients
    /\ cl' = [cl EXCEPT ![c].stream = "open"]
    /\ clients' = Append(clients, c)
    /\ UNCHANGED <<env, log, workers, threads, rq, bm, frames, stopped, since, told>>

\* A message of the client: a ping is answered; otherwise its filter is checked and
\* the recovery epoch read, with the state locked.
ReadRequest(c, r) ==
    /\ cl[c].stream # "none" /\ ~cl[c].finished /\ Unlocked(c) /\ frames < env.frames
    /\ frames' = frames + 1
    /\ \/ /\ r.type = "ping"
          /\ cl' = [cl EXCEPT ![c] = PushMessage(@, Ping)]
       \/ /\ r.type = "filter" /\ ~r.ok
          /\ cl' = [cl EXCEPT ![c] = Finish(@)]
       \/ /\ r.type = "filter" /\ r.ok
          /\ cl' = [cl EXCEPT ![c].asking = r, ![c].seen_epoch = Epoch]
    /\ UNCHANGED <<env, log, clients, workers, threads, rq, bm, stopped, since, told>>

\* Mutant: the oldest slot of the map is not compared with the one asked for.
LocateAny(l, from) ==
    LET slots == {s \in MemorySlots(l) : s >= from}
    IN  IF slots # {} THEN Memory(Min({HeadOf(l, s) : s \in slots}))
        ELSE Memory(Len(rings[l]) + 1)

\* Messages::get_current_tail_with_replay; Unknown stands for an error.
Locate(l, from) ==
    LET slots == MemorySlots(l)
        newest == IF store.replay # <<>> THEN Max(DOMAIN store.replay)
                  ELSE IF slots # {} THEN Max(slots) ELSE from
        onDisk == {s \in DOMAIN store.replay : s >= from}
        index == Min({store.replay[s] : s \in onDisk})
    IN  IF from = NoSlot THEN Memory(Len(rings[l]) + 1)
        ELSE IF slots # {} /\ from >= Min(slots) /\ \E s \in slots : s >= from
        THEN Memory(Min({HeadOf(l, s) : s \in {x \in slots : x >= from}}))
        ELSE IF from > newest THEN Memory(Len(rings[l]) + 1)
        ELSE IF store.replay = <<>> \/ from < Min(DOMAIN store.replay) \/ onDisk = {} THEN Unknown
        ELSE IF \/ l \notin store.levels
                \/ \E k \in DOMAIN store.chunks : store.chunks[k].last >= index
                                                  /\ l \notin store.chunks[k].levels
        THEN Unknown
        ELSE Storage(index)

\* Messages::supports_block_replay: a chunk without commitments has no blocks.
SupportsBlockReplay(head) ==
    head.at # "storage" \/ \A k \in DOMAIN store.chunks :
        store.chunks[k].last >= head.pos => store.chunks[k].blocks

\* History: the first journal index that a subscription may have to tell; what is on
\* disk at the start belongs to the first epoch.
StartOf(r) == IF r.from = NoSlot THEN Len(journal) + 1
              ELSE IF Epoch = 0 THEN 1 ELSE floors[Epoch + 1]

\* The rest of the request: the place to start from, a replay request if that is on
\* disk, and the new state.  Any failure ends the client.
SetFilter(c) ==
    LET r == cl[c].asking
        moves == ~cl[c].filter \/ r.level # cl[c].level \/ r.from # NoSlot
        head == IF moves THEN Locate(r.level, r.from) ELSE cl[c].head
        gen == cl[c].gen + 1
        refused == \/ moves /\ head = Unknown
                   \/ r.from # NoSlot /\ cl[c].seen_epoch # Epoch
                   \/ r.blocks /\ ~SupportsBlockReplay(head)
                   \/ moves /\ head.at = "storage" /\ QueueFull(rq)
    IN  /\ cl[c].asking # NoAsk
        /\ \/ /\ refused
              /\ cl' = [cl EXCEPT ![c] = [Finish(@) EXCEPT !.asking = NoAsk]]
              /\ UNCHANGED <<rq, since, told>>
           \/ /\ ~refused /\ ~moves
              /\ cl' = [cl EXCEPT ![c].asking = NoAsk]
              /\ UNCHANGED <<rq, since, told>>
           \/ /\ ~refused /\ moves
              /\ cl' = [cl EXCEPT ![c] =
                    [@ EXCEPT !.asking = NoAsk, !.filter = TRUE, !.head = head, !.level = r.level,
                              !.gen = gen, !.from = r.from, !.epoch = cl[c].seen_epoch]]
              /\ rq' = IF head.at # "storage" THEN rq
                       ELSE [rq EXCEPT !.len = @ + 1,
                                       !.list = Append(@, NewRequest(c, gen, r.level))]
              /\ since' = [since EXCEPT ![c] =
                              [level |-> r.level, from |-> r.from, start |-> StartOf(r)]]
              /\ told' = [told EXCEPT ![c] = <<>>]
        /\ UNCHANGED <<env, log, clients, workers, threads, bm, frames, stopped>>

\* The timer of the call sends a ping.
PingTick(c) ==
    /\ cl[c].stream # "none" /\ ~cl[c].finished /\ Unlocked(c) /\ frames < env.frames
    /\ [type |-> "ping"] \in env.asks
    /\ frames' = frames + 1
    /\ cl' = [cl EXCEPT ![c] = PushMessage(@, Ping)]
    /\ UNCHANGED <<env, log, clients, workers, threads, rq, bm, stopped, since, told>>

\* ReceiverStream::poll_next
Poll(c) ==
    /\ cl[c].stream = "open" /\ cl[c].messages # <<>>
    /\ LET item == Head(cl[c].messages)
       IN  cl' = [cl EXCEPT ![c].messages = Tail(@),
                            ![c].len = IF item = Error THEN @ ELSE @ - 1,
                            ![c].stream = IF item = Error THEN "finished" ELSE @]
    /\ UNCHANGED <<env, log, clients, workers, threads, rq, bm, frames, stopped, since, told>>

\* The stream has ended, or the client goes: Drop for ReceiverStream.
DropStream(c) ==
    /\ cl[c].stream = "finished" \/ (cl[c].stream = "open" /\ env.drops)
    /\ Unlocked(c)
    /\ cl' = [cl EXCEPT ![c].stream = "dropped", ![c].finished = TRUE]
    /\ UNCHANGED <<env, log, clients, workers, threads, rq, bm, frames, stopped, since, told>>

(***************************************************************************)
(* worker_messages                                                         *)
(***************************************************************************)
NewCache == [head |-> 0, pos |-> [i \in 0 .. CacheMax - 1 |-> 0]]
NoWork == [pc |-> "pop", client |-> NoOne, prev |-> NoOne, count |-> 0, len |-> 0,
           cache |-> [l \in Level |-> NewCache]]

\* Mutant: a replay goes on in memory whatever happened upstream.
InterruptedNever(c) == FALSE

\* The history a client was promised has a gap.
Interrupted(c) == cl[c].from # NoSlot /\ cl[c].epoch # Epoch

\* Mutant: a client that cannot be served now is let go.
ParkedNobody(c) == NoOne

\* prev_client of a worker that cannot serve its client now.
Parked(c) == c

\* pop_client, then the checks with the state locked.
WorkerTake(w) ==
    LET prev == workers[w].prev
        queue == IF prev = NoOne THEN clients ELSE Append(clients, prev)
        c == Head(queue)
        Go(work) == workers' = [workers EXCEPT ![w] = [work EXCEPT !.cache = workers[w].cache]]
    IN  /\ workers[w].pc = "pop" /\ queue # <<>>
        /\ Unlocked(c)
        /\ clients' = Tail(queue)
        /\ \/ /\ cl[c].finished
              /\ Go(NoWork) /\ UNCHANGED cl
           \/ /\ ~cl[c].finished /\ Interrupted(c)
              /\ cl' = [cl EXCEPT ![c] = Finish(@)]
              /\ Go(NoWork)
           \/ /\ ~cl[c].finished /\ ~Interrupted(c)
              /\ ~cl[c].filter \/ cl[c].head.at # "memory"
              /\ Go([NoWork EXCEPT !.prev = Parked(c)]) /\ UNCHANGED cl
           \/ /\ ~cl[c].finished /\ ~Interrupted(c)
              /\ cl[c].filter /\ cl[c].head.at = "memory"
              /\ Go([NoWork EXCEPT !.pc = "recv", !.client = c, !.len = cl[c].len])
              /\ UNCHANGED cl
        /\ UNCHANGED <<env, log, threads, rq, bm, frames, stopped, since, told>>

\* MessagesCache::try_recv: a message may outlive its ring in the cache of a worker.
Slide(cache, p) == [cache EXCEPT !.head = Max({@, p})]
InRange(cache, p) == p >= cache.head - (CacheMax - 1)
CacheHit(cache, p) == InRange(cache, p) /\ cache.pos[p % CacheMax] = p
CacheSave(cache, p) ==
    IF InRange(cache, p) THEN [cache EXCEPT !.pos[p % CacheMax] = p] ELSE cache

\* One turn of the loop over the messages, or its end.
WorkerRecv(w) ==
    LET c == workers[w].client
        l == cl[c].level
        p == cl[c].head.pos
        cache == Slide(workers[w].cache[l], p)
        hit == CacheHit(cache, p)
        more == workers[w].len <= LenMax /\ workers[w].count < PerTick
        end == [NoWork EXCEPT !.cache = workers[w].cache]
    IN  /\ workers[w].pc = "recv"
        /\ \/ /\ more /\ (hit \/ (p <= Len(rings[l]) /\ p > Evicted(l)))
              /\ LET sent == SlotAt(l, p) >= cl[c].from
                 IN  /\ cl' = [cl EXCEPT ![c] =
                           [(IF sent THEN PushMessage(@, rings[l][p]) ELSE @)
                               EXCEPT !.head = Memory(p + 1)]]
                     /\ told' = [told EXCEPT ![c] = IF sent THEN Append(@, rings[l][p]) ELSE @]
                     /\ workers' = [workers EXCEPT
                           ![w].count = @ + 1, ![w].len = IF sent THEN @ + 1 ELSE @,
                           ![w].cache[l] = IF hit THEN cache ELSE CacheSave(cache, p)]
           \/ /\ more /\ ~hit /\ p <= Evicted(l)
              /\ cl' = [cl EXCEPT ![c] = PushError(@)]
              /\ workers' = [workers EXCEPT ![w] = end]
              /\ UNCHANGED told
           \/ /\ ~more \/ (~hit /\ p > Len(rings[l]))
              /\ workers' = [workers EXCEPT ![w] = [end EXCEPT !.prev = c]]
              /\ UNCHANGED <<cl, told>>
        /\ UNCHANGED <<env, log, clients, threads, rq, bm, frames, stopped, since>>

(***************************************************************************)
(* spawn_replay: a replay thread                                           *)
(***************************************************************************)
NoTurn == [pc |-> "pop", req |-> NoRequest, prev |-> NoRequest, count |-> 0, from |-> NoSlot,
           level |-> Processed]

\* ReplayQueue::pop_next: the previous request goes to the end, the first one that is
\* not deferred is taken, and those before it go behind the others.
ReplayPop(t) ==
    LET prev == threads[t].prev
        list == IF rq.len > 0 /\ prev # NoRequest THEN Append(rq.list, prev) ELSE rq.list
        ready == {k \in DOMAIN list : ~list[k].deferred}
        k == Min(ready)
    IN  /\ threads[t].pc = "pop" /\ (prev # NoRequest \/ ready # {})
        /\ \/ /\ ready # {}
              /\ threads' = [threads EXCEPT ![t] = [NoTurn EXCEPT !.pc = "check", !.req = list[k]]]
              /\ rq' = [rq EXCEPT !.list = SubSeq(list, k + 1, Len(list)) \o SubSeq(list, 1, k - 1)]
           \/ /\ ready = {}
              /\ threads' = [threads EXCEPT ![t] = NoTurn]
              /\ rq' = [rq EXCEPT !.list = list]
        /\ UNCHANGED <<env, log, cl, clients, workers, bm, frames, stopped, since, told>>

\* retry_at has passed.
RetryDue(k) ==
    /\ k \in DOMAIN rq.list /\ rq.list[k].deferred
    /\ rq' = [rq EXCEPT !.list[k].deferred = FALSE]
    /\ UNCHANGED <<env, log, cl, clients, workers, threads, bm, frames, stopped, since, told>>

\* The client has gone, or has subscribed anew.
Stale(req) ==
    \/ cl[req.client].finished \/ cl[req.client].gen # req.gen
    \/ cl[req.client].head.at # "storage"

\* The checks of a turn, which locks the client.
ReplayCheck(t) ==
    LET req == threads[t].req
        c == req.client
        lost == req.error \/ cl[c].epoch # Epoch
    IN  /\ threads[t].pc = "check" /\ Unlocked(c)
        /\ \/ /\ Stale(req) \/ lost
              /\ threads' = [threads EXCEPT ![t] = NoTurn]
              /\ rq' = DropReq(rq)
              /\ cl' = IF Stale(req) THEN cl ELSE [cl EXCEPT ![c] = Finish(@)]
           \/ /\ ~Stale(req) /\ ~lost
              /\ threads' = [threads EXCEPT ![t].pc = "push"]
              /\ UNCHANGED <<rq, cl>>
        /\ UNCHANGED <<env, log, clients, workers, bm, frames, stopped, since, told>>

\* One record is sent, or the turn goes on: to memory, or to reading.
ReplayPush(t) ==
    LET req == threads[t].req
        c == req.client
        next == cl[c].head.pos
        room == cl[c].len < ReplayLenMax
        memory == HeadByReplayIndex(req.level, next)
        rec == Head(req.msgs)
    IN  /\ threads[t].pc = "push"
        /\ \/ /\ room /\ req.msgs # <<>> /\ ~req.error
              /\ threads' = [threads EXCEPT ![t].req.msgs = Tail(@),
                                            ![t].req.error = rec.index # next]
              /\ LET sent == rec.index = next /\ rec.selected
                 IN  /\ cl' = IF rec.index # next THEN cl
                              ELSE [cl EXCEPT ![c] =
                                      [(IF sent THEN PushMessage(@, rec.index) ELSE @)
                                          EXCEPT !.head = Storage(next + 1)]]
                     /\ told' = [told EXCEPT ![c] = IF sent THEN Append(@, rec.index) ELSE @]
              /\ UNCHANGED rq
           \/ /\ ~room \/ req.msgs = <<>> \/ req.error
              /\ \/ /\ ~req.error /\ memory # 0
                    /\ cl' = [cl EXCEPT ![c].head = Memory(memory)]
                    /\ rq' = DropReq(rq)
                    /\ threads' = [threads EXCEPT ![t] = NoTurn]
                 \/ /\ req.error \/ memory = 0
                    /\ threads' = [threads EXCEPT ![t] =
                          IF room /\ req.msgs = <<>> /\ ~req.error
                          THEN [@ EXCEPT !.pc = "read", !.count = DecodePerTick,
                                         !.from = cl[c].from, !.level = cl[c].level,
                                         !.req.reader = IF req.reader = 0 THEN next
                                                         ELSE req.reader]
                          ELSE [NoTurn EXCEPT !.prev = [req EXCEPT !.deferred = TRUE]]]
                    /\ UNCHANGED <<cl, rq>>
              /\ UNCHANGED told
        /\ UNCHANGED <<env, log, clients, workers, bm, frames, stopped, since>>

InCatalog(i) == \E k \in DOMAIN store.chunks : i \in store.chunks[k].first .. store.chunks[k].last

\* SegmentReader::load_next
LoadNext(i) ==
    LET chunks == {k \in DOMAIN store.chunks : store.chunks[k].last >= i}
        chunk == store.chunks[Min(chunks)]
    IN  IF chunks = {} THEN [found |-> "none"]
        ELSE IF chunk.first > i THEN [found |-> "pruned"]
        ELSE [found |-> "chunk", last |-> chunk.last, cursor |-> i]

\* DecompressedChunk::next_selected: a record of another level or of an older slot is
\* passed over without its payload; a payload that was pruned is an error.
Scan(i, level, from) ==
    LET r == journal[i]
        selected == r.level = level /\ r.m.slot >= from
    IN  [error |-> selected /\ r.payload # i /\ ~InCatalog(r.payload),
         record |-> [index |-> i, selected |-> selected]]

\* A record, the next chunk, or the end of the turn.
ReplayRead(t) ==
    LET req == threads[t].req
        scan == Scan(req.cursor, threads[t].level, threads[t].from)
        load == LoadNext(req.reader)
        Continue(r, n) ==
            threads' = [threads EXCEPT ![t] = IF n > 0 /\ ~r.error
                            THEN [@ EXCEPT !.req = r, !.count = n]
                            ELSE [NoTurn EXCEPT !.prev = [r EXCEPT !.deferred = r.msgs = <<>>]]]
    IN  /\ threads[t].pc = "read"
        /\ \/ /\ req.cursor # 0
              /\ Continue([req EXCEPT
                    !.msgs = IF scan.error THEN @ ELSE Append(@, scan.record), !.error = scan.error,
                    !.cursor = IF @ < req.last /\ ~scan.error THEN @ + 1 ELSE 0],
                    threads[t].count - 1)
           \/ /\ req.cursor = 0 /\ load.found = "chunk"
              /\ Continue([req EXCEPT !.cursor = load.cursor, !.last = load.last,
                                      !.reader = load.last + 1], threads[t].count)
           \/ /\ req.cursor = 0 /\ load.found = "pruned"
              /\ Continue([req EXCEPT !.error = TRUE], 0)
           \/ /\ req.cursor = 0 /\ load.found = "none"
              /\ Continue(req, 0)
        /\ UNCHANGED <<env, log, cl, clients, workers, rq, bm, frames, stopped, since, told>>

(***************************************************************************)
(* worker_block_meta, which follows the processed ring, and the task that  *)
(* owns the State and takes messages before requests                       *)
(***************************************************************************)
BlockMetaRead ==
    LET p == bm.head
        m == journal[rings[Processed][p]].m
    IN  /\ bm.pc = "run" /\ p <= Len(rings[Processed])
        /\ \/ /\ p <= Evicted(Processed)
              /\ bm' = [bm EXCEPT !.pc = "failed"]
           \/ /\ p > Evicted(Processed)
              /\ bm' = [bm EXCEPT !.head = @ + 1,
                    !.inbox = IF m.kind \in {"slot", "meta", "update_parent"}
                              THEN Append(@, m) ELSE @]
        /\ UNCHANGED <<env, log, cl, clients, workers, threads, rq, frames, stopped, since, told>>

BlockMetaHandle ==
    /\ bm.inbox # <<>>
    /\ bm' = [bm EXCEPT !.inbox = Tail(@), !.state = HandleMessage(@, Head(bm.inbox)),
                        !.handled = Append(@, Head(bm.inbox))]
    /\ UNCHANGED <<env, log, cl, clients, workers, threads, rq, frames, stopped, since, told>>

(***************************************************************************)
(* Shutdown                                                                *)
(***************************************************************************)
Shutdown ==
    /\ env.stops /\ ~stopped
    /\ stopped' = TRUE
    /\ UNCHANGED <<env, log, cl, clients, workers, threads, rq, bm, frames, since, told>>

\* A worker lets go of all clients.
WorkerStop(w) ==
    /\ stopped /\ workers[w].pc = "pop"
    /\ workers' = [workers EXCEPT ![w] = [NoWork EXCEPT !.pc = "ended"]]
    /\ clients' = <<>>
    /\ UNCHANGED <<env, log, cl, threads, rq, bm, frames, stopped, since, told>>

\* A replay thread lets go of its request and empties the queue.
ThreadStop(t) ==
    /\ stopped /\ threads[t].pc \in {"pop", "check"}
    /\ threads' = [threads EXCEPT ![t] = [NoTurn EXCEPT !.pc = "ended"]]
    /\ rq' = [cap |-> 0, len |-> 0, list |-> <<>>]
    /\ UNCHANGED <<env, log, cl, clients, workers, bm, frames, stopped, since, told>>

\* The task of a call tells the client.
CallStop(c) ==
    /\ stopped /\ cl[c].stream = "open" /\ ~cl[c].finished /\ ~cl[c].stopped
    /\ cl' = [cl EXCEPT ![c] = [PushError(@) EXCEPT !.stopped = TRUE]]
    /\ UNCHANGED <<env, log, clients, workers, threads, rq, bm, frames, stopped, since, told>>

(***************************************************************************)
(* Specification                                                           *)
(***************************************************************************)
SlotsOnDisk(records) ==
    [s \in {records[i].m.slot : i \in DOMAIN records} |->
        Min({i \in DOMAIN records : records[i].m.slot = s})]

Init ==
    /\ env \in Scenarios
    /\ script = env.script /\ journal = env.disk
    /\ rings = [l \in Level |-> <<>>]
    /\ store = [chunks |-> IF env.disk = <<>> THEN <<>>
                           ELSE <<[first |-> 1, last |-> Len(env.disk), levels |-> env.written,
                                   blocks |-> env.blocks]>>,
                flushed |-> Len(env.disk), replay |-> SlotsOnDisk(env.disk), levels |-> env.levels]
    /\ floors = <<Len(env.disk) + 1>>
    /\ cl = [c \in Client |-> NewClient] /\ clients = <<>>
    /\ workers = [w \in Worker |-> NoWork] /\ threads = [t \in Thread |-> NoTurn]
    /\ rq = [cap |-> InflightMax, len |-> 0, list |-> <<>>]
    /\ bm = [pc |-> IF env.unary THEN "run" ELSE "off", head |-> 1, inbox |-> <<>>,
             state |-> NoBlocks, handled |-> <<>>]
    /\ frames = 0 /\ stopped = FALSE
    /\ since = [c \in Client |-> [level |-> Processed, from |-> NoSlot, start |-> 1]]
    /\ told = [c \in Client |-> <<>>]

Serve(w) == WorkerTake(w) \/ WorkerRecv(w) \/ WorkerStop(w)
Replay(t) == ReplayPop(t) \/ ReplayCheck(t) \/ ReplayPush(t) \/ ReplayRead(t) \/ ThreadStop(t)
Call(c) == SetFilter(c) \/ Poll(c) \/ CallStop(c)
BlockMetaStep == BlockMetaRead \/ BlockMetaHandle

Next ==
    \/ Publish \/ Flush \/ Prune \/ BeginLiveEpoch \/ Shutdown \/ BlockMetaStep
    \/ \E c \in Client : Subscribe(c) \/ Call(c) \/ DropStream(c) \/ PingTick(c)
    \/ \E c \in Client, r \in env.asks : ReadRequest(c, r)
    \/ \E w \in env.workers : Serve(w)
    \/ \E t \in env.threads : Replay(t)
    \/ \E k \in 1 .. InflightMax : RetryDue(k)

Spec == Init /\ [][Next]_vars

\* Threads run, time passes, the storage writes what it gets, and a client that keeps
\* its stream open reads it; clients, the sender, gaps and the shutdown are not fair.
Fairness ==
    /\ WF_vars(Flush)
    /\ \A w \in Worker : WF_vars(w \in env.workers /\ Serve(w))
    /\ \A t \in Thread : WF_vars(t \in env.threads /\ Replay(t))
    /\ WF_vars(\E k \in 1 .. InflightMax : RetryDue(k))
    /\ \A c \in Client : WF_vars(Call(c))
FairSpec == Spec /\ Fairness

(***************************************************************************)
(* Properties                                                              *)
(***************************************************************************)
\* Every variable has its type, and the requests in flight never exceed their maximum.
TypeOK ==
    /\ frames \in Nat /\ stopped \in BOOLEAN /\ rq.len \in 0 .. InflightMax
    /\ \A c \in Client : /\ cl[c].stream \in {"none", "open", "finished", "dropped"}
                          /\ cl[c].head.at \in {"unknown", "memory", "storage"}
                          /\ cl[c].len \in Nat
    /\ \A w \in Worker : workers[w].pc \in {"pop", "recv", "ended"}
    /\ \A t \in Thread : threads[t].pc \in {"pop", "check", "push", "read", "ended"}
    /\ Range(clients) \subseteq Client

\* The client still gets messages: no error was put in its queue.
Alive(c) == cl[c].stream = "open" /\ cl[c].filter /\ ~cl[c].finished
            /\ Error \notin Range(cl[c].messages)

Expected(c) ==
    SetToSortSeq({i \in since[c].start .. Len(journal) :
                     journal[i].level = since[c].level /\ journal[i].m.slot >= since[c].from}, <)

\* A client that has not been given an error gets every record of its level from the
\* slot it asked for on, once and in order: from disk, over the hand-over to memory,
\* through the caches of the workers, while chunks are pruned, rings evict and other
\* requests of its own are still in the replay threads.  Once it has caught up with its
\* ring it has got all of them.
ReplayComplete ==
    \A c \in Client : Alive(c) =>
        /\ IsPrefix(told[c], Expected(c))
        /\ (cl[c].head.at = "memory" /\ cl[c].head.pos > Len(rings[cl[c].level])) =>
              told[c] = Expected(c)

\* The places of the replay queue are those of the requests that are queued or in the
\* hands of a thread, so that none leaks and the bound holds (storage/mod.rs:521).
RequestsAccounted ==
    ~stopped => rq.len = Len(rq.list)
                         + Cardinality({t \in Thread : threads[t].req # NoRequest})
                         + Cardinality({t \in Thread : threads[t].prev # NoRequest})

\* A client that is alive is with exactly one worker or in the queue, once: it is not
\* forgotten, and two workers never send it messages at a time.
ServedOnce ==
    ~stopped => \A c \in Client :
        LET places == Cardinality({k \in DOMAIN clients : clients[k] = c})
                      + Cardinality({w \in Worker : workers[w].prev = c})
                      + Cardinality({w \in Worker : workers[w].pc = "recv" /\ workers[w].client = c})
        IN  places <= 1 /\ (Alive(c) => places = 1)

\* A disk replay ends: its client gets to memory or is told why not, also when other
\* replays are deferred, chunks are still to be written or the client is slow.
ReplayEnds ==
    \A c \in Client : (Alive(c) /\ cl[c].head.at = "storage")
                          ~> (~Alive(c) \/ cl[c].head.at = "memory")

\* A client that was promised a history with a gap is ended, wherever it is in it.
GapEndsReplay ==
    \A c \in Client :
        LET broken == cl[c].from # NoSlot /\ cl[c].epoch # Epoch
        IN  (Alive(c) /\ broken) ~> (~Alive(c) \/ ~broken)

\* What the block meta task has handled of a slot, in order, and which of that are metas of
\* banks that were not cleared before the k-th message.
HandledOf(slot) == SelectSeq(bm.handled, LAMBDA m : m.slot = slot)
StatusesOf(h, status) == {i \in DOMAIN h : h[i].kind = "slot" /\ h[i].status = status}
MetasOf(h) == {i \in DOMAIN h : h[i].kind = "meta"}
ClearedIn(h, bank) == \E i \in DOMAIN h : h[i].kind = "update_parent" /\ h[i].bank = bank
CandidatesAt(h, k) == {i \in MetasOf(h) : i < k /\ ~ClearedIn(SubSeq(h, 1, k - 1), h[i].bank)}

\* The status that decides on the block of a slot: the confirmed one, or else the finalized.
Deciding(h) == IF StatusesOf(h, Confirmed) # {} THEN StatusesOf(h, Confirmed)
               ELSE StatusesOf(h, Finalized)

\* The unary methods answer, of the slot their level has got to, with the block of the bank
\* that the deciding status names, however late the meta of that bank comes; with the latest
\* candidate, if the status names none and no other one comes after it; with the latest
\* candidate that is left, while there is no status; and in any case with a block of that
\* slot once it has one, unless it waits for the meta of the named bank.  In whatever order
\* the metas of two banks, the clearing of one and the statuses arrive (block_meta.rs).
BlockIsSelected ==
    \A level \in Level :
        LET slot == bm.state[level]
            b == GetBlock(bm.state, level)
            h == HandledOf(slot)
            left == CandidatesAt(h, Len(h) + 1)
            d == Min(Deciding(h))
            IsBlock(i) == b.slot = slot /\ b.bank = h[i].bank /\ b.hash = h[i].hash
        IN  slot >= bm.state.finalized =>
              /\ (left # {} /\ (Deciding(h) # {} => h[d].bank = NoBank)) =>
                    \E i \in MetasOf(h) : IsBlock(i)
              /\ Deciding(h) = {} =>
                    IF left = {} THEN b = NoBlock ELSE IsBlock(Max(left))
              /\ Deciding(h) # {} /\ h[d].bank # NoBank =>
                    \A i \in MetasOf(h) : h[i].bank = h[d].bank => IsBlock(i)
              /\ (/\ Deciding(h) # {} /\ h[d].bank = NoBank /\ CandidatesAt(h, d) # {}
                  /\ \A i \in MetasOf(h) : i < d) => IsBlock(Max(CandidatesAt(h, d)))

\* "gRPC getLatestBlockhash / isBlockhashValid follow the confirmed candidate" (CHANGELOG.md:63),
\* which after a status that names no bank is the latest candidate (README.md:191): the
\* answer stays with it.  Not so: the next meta of the slot takes its place.
FollowsConfirmedCandidate ==
    \A level \in {Confirmed, Finalized} :
        LET h == HandledOf(bm.state[level])
            d == Min(Deciding(h))
        IN  (Deciding(h) # {} /\ h[d].bank = NoBank /\ CandidatesAt(h, d) # {}) =>
                GetBlock(bm.state, level).bank = h[Max(CandidatesAt(h, d))].bank

\* The hash of a block is known until the finalized height has passed its last valid one
\* ("keep blockhashes that are still valid"), and isBlockhashValid answers by its age at
\* every commitment that has a block; that of a cleared candidate is forgotten, unless the
\* slot had its status before.
RecentHashKnown ==
    \A slot \in {bm.handled[i].slot : i \in DOMAIN bm.handled} :
        LET h == HandledOf(slot)
            Answer(m, level) ==
                IF bm.state[level] \notin DOMAIN bm.state.blocks THEN "none"
                ELSE IF GetBlock(bm.state, level).height < m.height + MaxAge THEN "valid"
                ELSE "expired"
        IN  \A i \in MetasOf(h) :
              /\ (/\ ~ClearedIn(h, h[i].bank)
                  /\ h[i].height + MaxAge >= GetBlock(bm.state, Finalized).height)
                    => /\ h[i].hash \in DOMAIN bm.state.hashes
                       /\ \A level \in Level :
                             IsBlockhashValid(bm.state, h[i].hash, level) = Answer(h[i], level)
              /\ (\E k \in DOMAIN h : /\ h[k].kind = "update_parent" /\ h[k].bank = h[i].bank
                                      /\ Deciding(SubSeq(h, 1, k)) = {})
                    => h[i].hash \notin DOMAIN bm.state.hashes

\* Clients and replay requests are each in exactly one place, whoever takes them.
ServiceInv == TypeOK /\ RequestsAccounted /\ ServedOnce

\* A replay comes to its end, and so does one whose history got a gap.
ReplaysEnd == ReplayEnds /\ GapEndsReplay

\* The unary methods answer with the selected candidate, and know the hashes that are still
\* valid and no cleared ones.
UnaryAnswers == BlockIsSelected /\ RecentHashKnown
=============================================================================
