----------------------------- MODULE FilterServer -----------------------------
(***************************************************************************)
(* The way of an update through the server: a notification is encoded by   *)
(* the plugin, parsed by the server, rewritten by the dedup, assembled     *)
(* into its block, filtered for each client and encoded once for clients   *)
(* that want the same shape (grpc/server.rs: MessagesCache, EncodedCache,  *)
(* SharedEncoder; filter/src/encode_cache.rs).                             *)
(*                                                                         *)
(* One worker and one commitment level.  The ring keeps every message of a *)
(* scenario, so a client may start anywhere in it; lagging, replay and     *)
(* queues are the subject of SharedChannel and GrpcServer.  Positions of   *)
(* the ring start above CacheMax, as the tail of the code's ring does.     *)
(***************************************************************************)
EXTENDS PluginEncoding

CONSTANTS Clients,     \* who may subscribe
          Scenarios,   \* a sequence of scenarios (see Prepare)
          CacheMax,    \* messages_cached_max, a power of two
          EncodedMax,  \* encoded_cache_bytes_max
          MaxBodies    \* EncodeCache::MAX_BODIES

VARIABLES
    env,        \* the scenario and what follows from it (see Prepare), which never change
    published,  \* how many of its messages are in the ring
    clients,    \* per client: the request of its filter, its next position
    cache,      \* MessagesCache: head, and the position held at each index
    enc,        \* EncodedCache: tail, bytes, and the EncodeCache of each index
    last        \* what the last read of a client gave

vars == <<env, published, clients, cache, enc, last>>

-----------------------------------------------------------------------------
(* The channel: encode, parse, dedup, block *)

Created == <<1>>

\* Parts of a slot that are in the ring, in order.
SlotOf(m) ==
    CASE m.kind = "Account"     -> AccountValue(m).slot
      [] m.kind = "Transaction" -> TxView(m).slot
      [] m.kind = "Entry"       -> EntryView(m).slot
      [] m.kind = "BlockMeta"   -> m.v.slot
Parts(ring, kind, slot) == SelectSeq(ring, LAMBDA m : m.kind = kind /\ SlotOf(m) = slot)

Block(ring, slot, parser) ==
    CreateBlock(Parts(ring, "Account", slot), Parts(ring, "Transaction", slot),
                Parts(ring, "Entry", slot), Parts(ring, "BlockMeta", slot)[1], Created, parser)

\* The dedup gives an account its transaction's index, or a counter, as write version.
Deduped(parsed, n) ==
    IF n.kind = "Account" /\ parsed # Refused THEN <<UpdateWriteVersion(parsed[1], n.version)>>
    ELSE parsed

\* What a notification adds to the ring.
Receive(ring, n, parser, encoder) ==
    IF n.kind = "Block" THEN Block(ring, n.v.slot, parser)
    ELSE Deduped(Parse(PluginEncode(n, encoder, Created), parser), n)
Ring(s) ==
    FoldLeft(LAMBDA ring, n : ring \o Receive(ring, n, s.parser, s.encoder), <<>>, s.script)

\* Of a notification that only a downstream of the plugin reads, the server reads nothing.
Unread == {"DeshredTransaction", "ContactInfo", "ContactInfoRemoved", "DeshredUpdateParent"}
ReadOf(script) == SelectSeq(script, LAMBDA n : n.kind \notin Unread)

\* The ring without wires: the notifications, with the versions that the dedup gives.
Known(ring, n) ==
    CASE n.kind = "Account" ->
            Decoded("Account", "Prost",
                    [ProstOf("Account", n.v) EXCEPT !.account[1].write_version = n.version],
                    Created)
      [] n.kind = "Block" -> Block(ring, n.v.slot, "Prost")
      [] n.kind = "BlockFooter" ->
            Decoded("BlockFooter", "Prost",
                    CreateBlockFooter(n.v.slot, n.v.bank_id, n.v.block_footer), Created)
      [] OTHER -> Decoded(n.kind, "Prost", ProstOf(n.kind, n.v), Created)
Reference(s) == FoldLeft(LAMBDA ring, n : ring \o Known(ring, n), <<>>, ReadOf(s.script))

-----------------------------------------------------------------------------
(* What a scenario gives.  Messages, filters and encodings are functions   *)
(* of the notifications and requests of a scenario, which has a parser, an *)
(* encoder, a commitment level, limits, a script of notifications, the     *)
(* requests that clients may send, the clients and how often each asks.    *)

Accepted(s, r) == Convertible(r) /\ CheckFilter(s.limits, ToConfig(r))

\* BodyKey: everything besides the message and the names.
\* Mutant: slices, certificates and the parts of a block are not in the key.
BodyKeyType(u) == [type |-> u.type]
BodyKey(u) == [u EXCEPT !.names = <<>>, !.m = <<>>]
Encodings(u) ==
    [key |-> BodyKey(u), names |-> EncodeFilters(u.names), whole |-> EncodeUpdate(u),
     body |-> EncodeBody(u)]

\* What a client makes of the bytes it gets, and what it is to read.
ClientReads(bytes) ==
    LET outer == Fields(bytes, Whole(bytes))
        update == Oneofs(outer)[1]
    IN  [names |-> [i \in DOMAIN Tagged(outer, 1) |->
                       Slice(bytes, RangeOf(Tagged(outer, 1)[i]))],
         type |-> KindOf(update),
         v |-> ProstDecode(KindOf(update), bytes, RangeOf(update)),
         created |-> CreatedIn(bytes, outer)]
Cells(slices, data) ==
    LET wanted == {i \in DOMAIN data :
                      \E r \in ToSet(slices) : i \in r.start + 1 .. r.end /\ r.end <= Len(data)}
    IN  IF slices = <<>> THEN data ELSE [k \in 1 .. Cardinality(wanted) |->
                                            data[SetToSortSeq(wanted, <)[k]]]
ToReadValue(u) ==
    LET whole == ProstValue([u EXCEPT !.slices = <<>>])
    IN  CASE u.type = "Account" -> [whole EXCEPT !.account[1].data = Cells(u.slices, @)]
          [] u.type = "Block"   ->
                [whole EXCEPT !.accounts = [i \in DOMAIN @ |->
                                 [@[i] EXCEPT !.data = Cells(u.slices, @)]]]
          [] OTHER -> ProstValue(u)
ToRead(u) ==
    [names |-> u.names, type |-> u.type, v |-> ToReadValue(u), created |-> u.m.created]

\* What the rest of the server reads of a message, whatever the parser.
View(m) ==
    CASE m.kind = "Slot"        -> SlotValue(m)
      [] m.kind = "Account"     -> AccountValue(m)
      [] m.kind = "Transaction" -> <<TxView(m), TxInfo(m)>>
      [] m.kind = "Entry"       -> EntryView(m)
      [] OTHER                  -> m.v
Viewed(ms) == IF ms = Refused THEN Refused ELSE <<View(ms[1])>>

\* A message as it is written to a segment, or sent to a richat downstream, and read again.
Restored(m, parser) == Parse(EncodeUpdate(FullUpdate(m)), parser)

\* What JSON-RPC notifications are made of: of a message, and of the validator's values, in
\* which an absent list is an empty one.
RpcOf(m) ==
    CASE m.kind = "Transaction" -> AsTransaction(m)
      [] m.kind = "Block"       -> AsConfirmedBlock(m)
      [] OTHER                  -> Refused
Present(v) ==
    [transaction |-> v.transaction,
     meta |-> [v.meta EXCEPT !.inner_instructions = <<OrEmpty(@)>>,
                             !.log_messages = <<OrEmpty(@)>>,
                             !.pre_token_balances = <<OrEmpty(@)>>,
                             !.post_token_balances = <<OrEmpty(@)>>,
                             !.rewards = <<OrEmpty(@)>>]]
NotifiedIn(script, kind, slot) ==
    SelectSeq(script, LAMBDA n : n.kind = kind /\ n.v.slot = slot)
BlockOf(script, slot) ==
    LET meta == NotifiedIn(script, "BlockMeta", slot)[1].v
    IN  [previous_blockhash |-> meta.parent_blockhash, blockhash |-> meta.blockhash,
         parent_slot |-> meta.parent_slot,
         transactions |-> Each(NotifiedIn(script, "Transaction", slot),
                               LAMBDA n : Present(n.v.transaction)),
         rewards |-> meta.rewards.rewards, num_partitions |-> meta.rewards.num_partitions,
         block_time |-> meta.block_time, block_height |-> meta.block_height]
ToRpc(script, n) ==
    CASE n.kind = "Transaction" -> <<Present(n.v.transaction)>>
      [] n.kind = "Block"       -> <<BlockOf(script, n.v.slot)>>
      [] OTHER                  -> Refused

Filters(s) ==
    Table([k \in {k \in DOMAIN s.asks : Accepted(s, s.asks[k])} |-> NewFilter(ToConfig(s.asks[k]))])

\* Per filter and message, Op of each of the filter's updates of the message.
UpdatesBy(filters, level, messages, Op(_)) ==
    Table([k \in DOMAIN filters |->
        Each(messages, LAMBDA m : Each(GetUpdates(filters[k], m, level), LAMBDA u : Op(u)))])
Singles(ring) == {i \in DOMAIN ring : ring[i].kind # "Block"}
SameFilter(again, filter) == Convertible(again) /\ NewFilter(ToConfig(again)) = filter

\* What either encoder makes of the notifications of a script, on one thread.
Wires(script) ==
    FoldLeft(LAMBDA acc, n :
                [buffer |-> BufferAfterLength(n, acc.buffer),
                 wires |-> Append(acc.wires, [raw |-> EncodeRaw(n, Created, acc.buffer),
                                              prost |-> EncodeProst(n, Created)])],
             [buffer |-> <<>>, wires |-> <<>>], script).wires

PrepareFrom(s, ring, reference, filters, singles) ==
    [scenario |-> s, length |-> Len(ring), accepted |-> DOMAIN filters,
     encoded |-> UpdatesBy(filters, s.level, ring, LAMBDA u : Encodings(u)),
     read |-> UpdatesBy(filters, s.level, ring, LAMBDA u : ClientReads(EncodeUpdate(u))),
     toRead |-> UpdatesBy(filters, s.level, reference, LAMBDA u : ToRead(u)),
     restored |-> Table([i \in singles |->
                            Table([p \in Parser |-> Viewed(Restored(ring[i], p))])]),
     toRestore |-> Table([i \in singles |-> View(reference[i])]),
     rpc |-> Each(ring, LAMBDA m : RpcOf(m)),
     toRpc |-> Each(ReadOf(s.script), LAMBDA n : ToRpc(s.script, n)),
     wires |-> Wires(SelectSeq(s.script, LAMBDA n : n.kind # "Block")),
     resent |-> {k \in DOMAIN filters :
                    SameFilter(ToRequest(ToConfig(s.asks[k])), filters[k])}]
PrepareRing(s, ring) == PrepareFrom(s, ring, Reference(s), Filters(s), Singles(ring))
Prepare(s) == PrepareRing(s, Ring(s))

-----------------------------------------------------------------------------
(* A client sets its filter *)

S == env.scenario

NoPos == 0
Nobody == [client |-> <<>>, ask |-> 0, pos |-> NoPos, out |-> <<>>]
NewClient == [ask |-> 0, head |-> NoPos, frames |-> 0, open |-> TRUE]

First == CacheMax + 1
End == First + published
Message(pos) == pos - CacheMax
Idx(pos) == pos % CacheMax
Mask == CacheMax - 1

EmptyItem == [bodies |-> <<>>, bytes |-> 0]
NewEncoded == [tail |-> 0, bytes |-> 0, items |-> [i \in 0 .. Mask |-> EmptyItem]]
NewCache == [head |-> 0, pos |-> [i \in 0 .. Mask |-> NoPos]]

Init ==
    /\ \E i \in DOMAIN Scenarios : env = Prepare(Scenarios[i])
    /\ published = 0
    /\ clients = [c \in Clients |-> NewClient]
    /\ cache = NewCache
    /\ enc = NewEncoded
    /\ last = Nobody

Publish ==
    /\ published < env.length
    /\ published' = published + 1
    /\ last' = Nobody
    /\ UNCHANGED <<env, clients, cache, enc>>

\* A request within the limits replaces the filter; the position is any of the ring's, for
\* a request with a slot to start from.  Another request ends the subscription.
Ask(c) ==
    /\ c \in S.clients /\ clients[c].open /\ clients[c].frames < S.frames
    /\ \E k \in DOMAIN S.asks :
          \/ /\ k \in env.accepted
             /\ \E head \in First .. End :
                   clients' = [clients EXCEPT ![c] = [@ EXCEPT !.ask = k, !.head = head,
                                                               !.frames = @ + 1]]
          \/ /\ k \notin env.accepted
             /\ clients' = [clients EXCEPT ![c] = [NewClient EXCEPT !.open = FALSE]]
    /\ last' = Nobody
    /\ UNCHANGED <<env, published, cache, enc>>

-----------------------------------------------------------------------------
(* EncodeCache: the bodies of one message, by shape *)

Find(item, u) == {i \in DOMAIN item.bodies : item.bodies[i].key = u.key}

\* Mutant: shapes are remembered without bound.
MarkSeenAlways(item, u) ==
    IF Find(item, u) # {} THEN item
    ELSE [item EXCEPT !.bodies = Append(@, [key |-> u.key, body |-> <<>>])]
MarkSeen(item, u) ==
    IF Find(item, u) # {} \/ Len(item.bodies) >= MaxBodies THEN item
    ELSE [item EXCEPT !.bodies = Append(@, [key |-> u.key, body |-> <<>>])]

\* insert, of a shape that mark_seen found: nothing is cached for it yet.
Insert(item, u, body) ==
    [item EXCEPT !.bodies = [i \in DOMAIN @ |-> IF i \in Find(item, u)
                                                THEN [@[i] EXCEPT !.body = <<body>>]
                                                ELSE @[i]],
                 !.bytes = @ + Len(body)]

-----------------------------------------------------------------------------
(* EncodedCache and SharedEncoder *)

\* Mutant: the bytes of a dropped message stay in the total.
ClearKeepsBytes(e, idx) == [e EXCEPT !.items[idx] = EmptyItem]
Clear(e, idx) ==
    [e EXCEPT !.bytes = @ - e.items[idx].bytes, !.items[idx] = EmptyItem]

\* Mutant: the limit is never reached.
FullNever(e) == FALSE
Full(e) == e.bytes >= EncodedMax

\* evict: bodies before pos are dropped, oldest first, until there is room.
EvictFrom(e, pos) == [e EXCEPT !.tail = Max({@, pos - Mask})]
Evict(e, pos) ==
    LET start == EvictFrom(e, pos)
        drop[k \in start.tail .. Max({pos, start.tail})] ==
            IF k = start.tail THEN start ELSE [Clear(drop[k - 1], Idx(k - 1)) EXCEPT !.tail = k]
        enough == {k \in DOMAIN drop : ~Full(drop[k])}
    IN  drop[IF enough = {} THEN Max(DOMAIN drop) ELSE Min(enough)]

Alone(u) == [filters |-> <<>>, body |-> u.whole]
Shared(u, body) == [filters |-> u.names, body |-> body]

\* SharedEncoder::encode: the cache after it, and what the client gets.
EncodeShared(e, pos, u) ==
    LET idx == Idx(pos)
        item == e.items[idx]
        found == Find(item, u)
        cached == {i \in found : item.bodies[i].body # <<>>}
        seen == [e EXCEPT !.items[idx] = MarkSeen(item, u)]
        room == Evict(e, pos)
    IN  IF pos < e.tail THEN [enc |-> e, out |-> Alone(u)]
        ELSE IF cached # {} THEN
            [enc |-> e, out |-> Shared(u, item.bodies[Min(cached)].body[1])]
        ELSE IF found = {} THEN [enc |-> seen, out |-> Alone(u)]
        ELSE IF Full(room) THEN [enc |-> room, out |-> Alone(u)]
        ELSE [enc |-> [room EXCEPT !.items[idx] = Insert(@, u, u.body),
                                   !.bytes = @ + Len(u.body)],
              out |-> Shared(u, u.body)]

\* The updates of a message, one after the other.
EncodeAll(e, pos, us) ==
    FoldLeft(LAMBDA acc, u : LET r == EncodeShared(acc.enc, pos, u)
                             IN  [enc |-> r.enc, out |-> Append(acc.out, r.out)],
             [enc |-> e, out |-> <<>>], us)

-----------------------------------------------------------------------------
(* MessagesCache::try_recv and the client loop of worker_messages *)

Moved(pos) == [cache EXCEPT !.head = Max({@, pos})]
InRange(c, pos) == pos >= c.head - Mask
UpdatesOf(c, pos) == env.encoded[clients[c].ask][Message(pos)]

Recv(c) ==
    LET pos == clients[c].head
        moved == Moved(pos)
        idx == Idx(pos)
        hit == cache.pos[idx] = pos
        us == UpdatesOf(c, pos)
        fresh == IF hit THEN enc ELSE Clear(enc, idx)
        encoded == EncodeAll(fresh, pos, us)
    IN  /\ clients[c].ask # 0 /\ pos < End
        /\ clients' = [clients EXCEPT ![c].head = pos + 1]
        /\ IF InRange(moved, pos)
           THEN /\ cache' = [moved EXCEPT !.pos[idx] = pos]
                /\ enc' = encoded.enc
                /\ last' = [client |-> <<c>>, ask |-> clients[c].ask, pos |-> pos,
                            out |-> encoded.out]
           ELSE /\ last' = [client |-> <<c>>, ask |-> clients[c].ask, pos |-> pos,
                            out |-> [i \in DOMAIN us |-> Alone(us[i])]]
                /\ cache' = moved
                /\ UNCHANGED enc
        /\ UNCHANGED <<env, published>>

\* Nothing to read yet: the head of the cache moves all the same.
Poll(c) ==
    /\ clients[c].ask # 0 /\ clients[c].head = End
    /\ cache.head < End
    /\ cache' = Moved(End)
    /\ last' = Nobody
    /\ UNCHANGED <<env, published, clients, enc>>

Next ==
    \/ Publish
    \/ \E c \in Clients : Ask(c) \/ Recv(c) \/ Poll(c)

Spec == Init /\ [][Next]_vars

-----------------------------------------------------------------------------
(* Properties *)

\* Every variable has its type.
TypeOK ==
    /\ published \in 0 .. Len(S.script)
    /\ \A c \in Clients : clients[c].ask # 0 => clients[c].head \in First .. End
    /\ cache.head \in 0 .. End
    /\ \A i \in 0 .. Mask : cache.pos[i] = NoPos \/ Idx(cache.pos[i]) = i
    /\ enc.bytes \in Nat /\ enc.tail \in 0 .. End
    /\ \A i \in 0 .. Mask : Len(enc.items[i].bodies) <= MaxBodies

\* filters ++ body is the same bytes as FilteredUpdate::encode_to_vec (encode_cache.rs),
\* whoever encoded the body, and whatever was evicted or reused in between.
SharedSameBytes ==
    last.client # <<>> =>
        LET us == env.encoded[last.ask][Message(last.pos)]
        IN  /\ Len(last.out) = Len(us)
            /\ \A i \in DOMAIN us : last.out[i].filters \o last.out[i].body = us[i].whole

\* A client reads exactly what the notification says that its filter asks for: no parser,
\* rewritten write version, hand-computed length, data slice or assembled block on the way
\* changes a value, a name or the set of updates.
DeliveredFaithful ==
    last.client # <<>> =>
        env.read[last.ask][Message(last.pos)]
            = env.toRead[last.ask][Message(last.pos)]

\* A message written to a segment, or sent to a richat downstream, reads as the notification
\* it came from: the wire of a Limited account, rewritten in place, included.
RestoredAs(parser) ==
    \A i \in DOMAIN env.restored :
        i <= published => env.restored[i][parser] = <<env.toRestore[i]>>

\* What the parser of the server is given back from a segment is the notification that was
\* stored (Storage::read, richat/src/storage).
RestoredEqual == RestoredAs(S.parser)

\* Whatever parser a downstream has, it reads the notification: not so for an account without
\* a write version, whose rewritten wire is unreadable.
ReadDownstream == \A parser \in Parser : RestoredAs(parser)

\* The counters of the encoded cache are the sizes of what it holds, and what it holds under
\* an index was made of the message at that index.
CacheAccounted ==
    /\ enc.bytes = MapThenSumSet(LAMBDA i : enc.items[i].bytes, 0 .. Mask)
    /\ \A i \in 0 .. Mask :
          LET held == SelectSeq(enc.items[i].bodies, LAMBDA b : b.body # <<>>)
              made == UNION {ToSet(env.encoded[k][Message(cache.pos[i])]) :
                                 k \in env.accepted}
          IN  /\ enc.items[i].bytes
                   = MapThenSumSet(LAMBDA k : Len(held[k].body[1]), DOMAIN held)
              /\ \A k \in DOMAIN held :
                    \E u \in made : u.key = held[k].key /\ u.body = held[k].body[1]

\* The encoded cache exceeds its limit by one body at most.
CacheBounded ==
    LET bodies == {b \in UNION {ToSet(enc.items[i].bodies) : i \in 0 .. Mask} : b.body # <<>>}
    IN  bodies # {} => enc.bytes - Max({Len(b.body[1]) : b \in bodies}) < EncodedMax

\* The two encoders of the plugin write the same bytes for a notification, so the lengths
\* that Raw computes by hand are right and an error is never written of another transaction
\* that the thread encoded before (looked at once: the wires of a scenario stay).
EncodersAgree ==
    published = 0 =>
        \A i \in DOMAIN env.wires : env.wires[i].raw = env.wires[i].prost

\* A JSON-RPC client reads the transaction, or the block, that the validator gave to the
\* plugin, except that lists that were absent are empty (convert_to.rs, convert_from.rs).
RpcReadsTheNotified ==
    \A i \in DOMAIN env.rpc : i <= published => env.rpc[i] = env.toRpc[i]

\* No client gets a part of a block that the limits of the server do not allow.
BlocksWithinLimits ==
    last.client # <<>> =>
        \A read \in ToSet(env.read[last.ask][Message(last.pos)]) :
            read.type = "Block" =>
               /\ read.v.transactions # <<>> => S.limits.blocks.transactions
               /\ read.v.accounts # <<>> => S.limits.blocks.accounts
               /\ read.v.entries # <<>> => S.limits.blocks.entries

\* A configured filter that is sent as a request to another richat gives the same filter.
FilterSurvivesRequest ==
    \A c \in Clients : clients[c].ask # 0 => clients[c].ask \in env.resent

\* The encoded cache knows what it holds and keeps its limit.
CacheInv == TypeOK /\ CacheAccounted /\ CacheBounded

\* Everyone who reads a notification reads what the validator gave to the plugin: a client,
\* the server after a restart, and a JSON-RPC client.
ReadAsNotified == DeliveredFaithful /\ RestoredEqual /\ RpcReadsTheNotified
=============================================================================
