# A TLA+ model of richat

richat distributes the Solana Geyser stream. A plugin inside the validator
(`plugin-agave`) encodes every notification into a ring buffer and serves it over
QUIC or gRPC. The server (`richat`) subscribes to one or more such sources,
deduplicates them, orders them into *processed*, *confirmed* and *finalized*
streams, keeps each stream in a ring in memory and, optionally, in a journal on
disk, and serves gRPC and websocket clients from them. This directory follows a
notification all the way: its encoding in the plugin, the plugin's ring, the QUIC
connection, the recovery of sources, the sender, the server's rings, the journal,
and the two servers with their filters and caches.

## Inventory

| component | source | state | operations | what makes it correct |
|---|---|---|---|---|
| commitment ring | `richat/src/channel.rs` (`SharedChannel`, `SenderShared`, `ReceiverAsync`, `ReceiverSync`) | head, tail, items behind one mutex each, map of slots, wakers, replay floor | push, evict by count and by bytes, publish, wake, begin a live epoch, subscribe, read, park | readers get a contiguous run or learn that they lagged; a slot offered for replay is complete; the hand-over from disk is exact; the limits hold |
| sender | `richat/src/channel.rs` (`Sender`, `SlotInfo`, `BankInfo`, `DedupInfo`, `Messages::to_sender`) | unfinalized slots with their candidate banks, dedup state, replay map, journal index | push, begin a live epoch, restart | nothing twice, nothing missing in a commitment, whole blocks, one candidate, a journal that continues after a crash |
| storage pipeline | `richat/src/storage/{mod,segments,metadata}.rs` | queues between sender, collector, compressors and writer; segment files; metadata in RocksDB | collect, flush, compress, reorder, rotate, append, commit, trim, recover | durable commands are a prefix in the order sent, cut between events; retained slots stay readable |
| plugin channel | `plugin-agave/src/channel.rs` | one mutex with head, tail, slots and wakers; items behind one mutex each | push with missed-status repair, evict, subscribe, receive, close | as for the ring, without lost wakeups; ancestors get their status; close ends every receiver |
| source recovery | `richat/src/source.rs`, `GlobalReplayFromSlot`, the source loop of `bin/richat.rs` | requested slot, epoch, set of sources that refused, the stream of each source, a pending reload | dial, subscribe, receive, fail, retry, fall back to live, reload | history is given up only when every source refused the same request; a gap is announced; a reload takes effect |
| disk replay | `richat/src/storage/{mod,reader}.rs`, `richat/src/grpc/server.rs` | queue of replay requests, a reader per request, generation per client | start, step, hand over, retry, cancel | only the newest request of a client sends; no gap at the hand-over; every replay ends |
| gRPC server | `richat/src/grpc` | clients with bounded queues, workers, message cache, block meta | subscribe, ping, collect, send, drop a slow client, unary calls | a client gets from its first index on everything once and in order or an error; unary answers name the selected block |
| pubsub server | `richat/src/pubsub` | subscriptions and their index, signatures seen, slot statistics, notification store, a queue per client | request, tick, match, deliver, drop | the index answers what a scan of all subscriptions would; a client gets all it is due or is told why not |
| filter | `filter/src` | offsets into a buffer, the filter of a client, bodies encoded before | parse, read, match, slice, encode, check limits | either parser reads the same; clients that share bytes get the bytes they would get alone |
| plugin callbacks and encoders | `plugin-agave/src/plugin.rs`, `plugin-agave/src/protobuf` | none beyond the channel | encode a notification, push it | both encoders write what prost reads as the notification |
| conversions | `proto/src/convert_{to,from}.rs` | none | validator value to message and back | what comes back is what went in |
| QUIC transport and client | `shared/src/transports/quic.rs`, `client/src/quic.rs` | streams with their writers, a backlog, a reorder map | request, open, send, read, reorder, close | messages in order whatever the streams do; the end is told; nobody waits for ever |
| gRPC transport and client, command line, metrics, configuration | `shared`, `client`, `cli`, `metrics`, the `config.rs` files | per connection or none | forward, connect, print, count | - |

The components meet at a few places. The plugin's receivers feed transports, which
the sources of the server read. Sources call `Sender::push` from one thread. The
sender writes the rings, each of which any number of readers polls without taking
the writer's lock: the workers of the gRPC server, the tracker of the pubsub server.
The sender sends commands to the storage over a queue and never waits for them to be
durable. A replaying client reads the journal in a replay thread and is moved to the
ring at a position that `get_head_by_replay_index` finds.

The hard behaviours are: steps of readers between the steps of a push; wakers
registered while a message is published; slots whose messages interleave, come
late, or lose their first messages to eviction; two sources with different
progress; statuses before, between and after the data they promote; a process that
dies anywhere in the pipeline and gets the same messages again; compressors that
finish out of order; retention that runs while old slots get late messages; a client
that subscribes again while an older request of it is being replayed; queues and
stores at their limit; sources that must agree to give up history while they fail,
are excluded and are replaced; lengths computed by hand; bytes shared between
clients; messages that overtake each other on streams of one connection.
`PROJECT.json` lists them as hazards, at their lines.

## Modules

| module | role |
|---|---|
| `BroadcastLog` | abstract: one log, readers that get contiguous runs of it until they are stopped |
| `SharedChannel` | a commitment ring; implements `BroadcastLog` |
| `RingLemmas` | induction, recursion and positions of a ring, for the proofs |
| `SharedChannelProofs` | theorems about `SharedChannel` |
| `PluginChannel`, `PluginChannelProofs` | the plugin's ring; implements `BroadcastLog` |
| `Journal` | how a sequence of storage commands determines rows, indexes and cut points |
| `DurableLog` | abstract: commands become durable in order, whole events at a time |
| `StoragePipeline`, `StoragePipelineProofs` | the threads, files and metadata of the storage; implements `DurableLog` |
| `Sender`, `SenderProofs` | the sender on top of a `DurableLog`-like journal, with restarts |
| `SourceRecovery`, `SourceRecoveryProofs` | the sources, their common cursor, live fallback and reload |
| `BlockMeta`, `GrpcServer`, `GrpcServerProofs` | the unary cache; the gRPC server with replay threads |
| `PubSubFilter`, `PubSub` | what a websocket client may ask for; the tracker and the client tasks |
| `Protobuf`, `Conversions`, `Message` | the wire; the conversions; the two parsers and what is read through them |
| `FilterConfig`, `Filter` | requests, limits; filters and their encoding |
| `PluginEncoding` | the two encoders of the plugin |
| `FilterServer` | composes the seven modules above into the way of an update to its clients |
| `QuicTransport`, `QuicTransportProofs` | one QUIC connection, server and client |
| `MC...` | instances for TLC |

### SharedChannel

The variables are the fields of `SharedChannel` and `SenderShared`, the control
point and locals of a push in progress, and a control point, cursor and loaded tail
per reader. `log`, `epoch_start`, `rcv_start` and `rcv_got` are history. A push holds
the slots mutex throughout, but readers do not take it, so it is split where a
reader can look: `PushItem`, `EvictByBytes` for each turn of the byte loop,
`Publish`, `WakeReceivers`. A poll is `PollTail`, then `ReadItem` (again after a
message the filter disables) or `Park`. `MemoryCursor` and `HeadByReplayIndex` are
the two cursor computations, the second with its binary search. `JournalOtherRing`
stands for the records of the other two rings, which take indexes from the same
counter. Positions are 64-bit counters that a process never exhausts and are
naturals here. The reordering that relaxed atomics permit is not modelled: a reader
that sees an older tail merely polls again.

### PluginChannel

The same split for the plugin, whose receivers look once without the state mutex
(`Peek`) and again with it before they park (`Recheck`). `PushBegin` computes the
missed statuses of known ancestors, which are pushed oldest first; `PushMsg`,
`EvictByBytes` and `RemoveSlots` are `push_msg`; `PushEnd` takes the wakers and `Wake`
wakes them after the mutex was released. `CloseItem` and `CloseWake` are `close`.

### Sender

The sender is one thread, so `Push` is one action for the whole of `Sender::push`:
early returns (`Ignored`), dedup (`Passed`, `DedupAfter`), the loop over what passed
(`PushOne`: candidate banks, block construction, promotion), journaling, and the
clean-up of finalized, surplus and expired slots. `Crash` keeps a prefix of the
journal that `DurableLog` permits and applies `Messages::to_sender` to it. The
sources then send again what they were asked for. `Reconnect` is a source that fails
and subscribes again; `BeginLiveEpoch` follows a refusal by all sources. `stream` is
everything published since the start or the last epoch: eviction from the rings is
left to `SharedChannel`. Messages carry slot, bank, kind, key, signature and write
version; content is abstracted to `Event`, and the id by which a restart recognises
a message (`get_id`) to the event and its write version.

### StoragePipeline

One action per step of a thread between two effects that a crash can separate: the
sender publishes an event (with its trims), the collector takes a command, flushes at
a limit or on a receive timeout, a compressor takes and finishes a chunk, the writer
opens, creates a segment file, commits it, appends a chunk, commits it, commits a
trim, deletes a file. Files are the sequences of record indexes written to them. A
metadata commit is one RocksDB batch and atomic; after a crash a chunk that was not
synced may be there in part. The rows of the catalog are sets, as RocksDB orders them
by key: a chunk row is named by its first index, so the last row is the one with the
highest indexes, which is where a restart resumes. The slots an event pushes out of the
window are trimmed oldest first (`OldestFirst`).

`Sender`, `PluginChannel` and the modules below take a set of *setups* or *scenarios*
and choose one in `Init`: the configuration of the process, what is sent to it, and
the bounds on faults. Distinct configurations are then explored by one run.

### SourceRecovery

One poll of a source up to its next await is a step: dial, subscribe with the common
cursor or live, get the answer, forward a message, lose the connection, wait before a
retry, end. `replay` is `GlobalReplayFromSlot` with its epoch; a refusal is counted for
the cursor and epoch it was asked with. `PrepareReload` and `ApplyReload` are the two
halves of the reaction to SIGHUP, between which sources go on. Upstreams drop and
regain history at will (`Floors`), which is how a refusal becomes obsolete. A message
`n` stands for all messages of slot `n` and for the finalized status of the slot
`Finality` below; `Finality` gives the cursor something to advance by. Slot 0 is `None`.

### GrpcServer and BlockMeta

A worker pops a client, reads the ring through its message cache, and pushes the client
back; a replay thread pops a request, checks whether it is still the newest of its
client, reads a bounded number of records from chunks, sends them, and requeues or
hands over. Each is split wherever the sender, the storage or the client can run in
between. A call is the read loop of the request stream, the ping, the response stream
and its drop. The rings and the journal are what `SharedChannel` and `StoragePipeline`
promise: the position of a record in `journal` is its index, a ring is the last
`RingSize` indexes of its level, and `Flush` makes a prefix durable, as `DurableLog`
allows. `BlockMeta` is the state of the unary methods as pure operators; a thread of its
own reads the processed ring and a task applies what it read. `since` and `told` record what
a client asked for and got, `bm.handled` what the task has applied.

### PubSubFilter and PubSub

`PubSubFilter` parses a request into its config, or an error, and says which messages a
config selects. `PubSub` is the tracker thread, whose tick takes requests, then reads
each ring, then delivers; it is split at each request, each message read and each
notification delivered, because the tasks of clients run meanwhile. A client is a
pair of tasks, one that reads frames and one that forwards requests, gets answers, drains
a bounded queue and writes; the notifications themselves live in a bounded store and a
queue holds weak references to them, so a reference may be dead when it is read.

`ws[c].pc` is the write task: `sending` waits for room in the channel of requests,
`waiting` for the answer, `writing` for `write_frame`, `idle` is its `select!`. After a close
frame it is over (`ended`), but `try_join!` goes on until the read task returns too, which is
in `read_frame`: only then is `Remove` sent (`Closing`). The peer (`ws[c].peer`) answers, is
silent, or stalls, and turns from one to another as its scenario lets it (`PeerTurns`):
`Wrote` needs a peer that does not stall, `ReaderEnds` one that is not silent. An error of
either task ends both at once.

### Protobuf, Conversions, Message

A buffer is a sequence of cells. A varint digit holds `Base` values, 4 in the instances
instead of 128, so that the lengths that occur already need one, two and three digits; a field key is one
cell; public keys have one cell and signatures two. Message types are tables of fields
(`N`, `O`, `B`, ... for the presence rules of prost), and encoding, length and decoding are
defined once over such tables. `Conversions` has both directions of every conversion.
`Message` has the limited parser, which keeps offsets, and the full one; the accessors
read through either.

### FilterConfig, Filter, PluginEncoding, FilterServer

`FilterConfig` turns a request into a config and back and applies the limits. `Filter`
builds a filter, computes the updates of a message with the names that matched, and
encodes an update from slices of the original buffer where the code does. `PluginEncoding`
has the tables of the hand-written encoders, whose lengths are computed apart from
what they write. The error of a transaction is written from a buffer of the thread that the
computation of its length fills (`BufferAfterLength`); `Wires` encodes the notifications of a
scenario one after another on one thread, with that buffer between them. `FilterServer` sends a notification through encoder, parser, rewrite of
the write version, block assembly, filter, and `EncodedCache`, for up to three clients at
different positions. It has one worker and one commitment level.

### QuicTransport

One connection: the server's checks of the request (one that cannot be decoded ends the
connection without an answer, `Undecodable`), the streams it opens, the send loop
with its set of writes and its backlog, the close frame; the client's request, its
readers in turn and its reorder map. QUIC keeps the order within a stream; `Arrive` picks
any stream. A connection can be lost at any point.

## Runs

All runs have `CHECK_DEADLOCK FALSE`: the bounds of a behaviour (`MaxPushes`,
`MaxRecords`, `MaxCrashes`, `MaxEpochs`, the bounds in setups, a finite set or
sequence of messages) let the model stop where the program would go on. No run uses
symmetry.

| run | instance | shows |
|---|---|---|
| `ring` | capacity 2, 4 bytes, sizes 1 and 2, slots 1-3 in any order, 5 pushes, 1 epoch | `MemoryReplayComplete`, `HandOffExact`, `BoundedAndAccounted`, `TypeOK` |
| `readers` | capacity 2, one asynchronous and one polling reader, 5 pushes | `DeliveredInOrder`, `ImplementsBroadcastLog` |
| `plugin` | four setups: statuses of a chain of 3 slots, data of 2, both (6 bytes, up to 5 pushes); two receivers, capacity 2, 3 pushes, close | `SlotMapInv`, `ParkedHasReadAll`, `ImplementsBroadcastLog`, `ClosedReceiversEnd` |
| `sender` | four setups: two sources with the same transactions and accounts; two candidate banks; three slots with room for two and a reconnect; three slots through a window of two with 2 crashes and an epoch | `JournalInv`, `EventsOnce`, `BlockIsWhole`, `PromotionInv`, `DiskReplayComplete` |
| `storage` | 2 slots, window 1, segments of 2, 2 compressors, 3 records, 1 crash, 1 epoch | `FilesInv`, `ImplementsDurableLog`, `EverythingDurable` |
| `source` | six setups: 2 sources, 2 upstreams, slots up to 4, 1 fault, 2 changes of history, 2 edits of the file | `HistoryInv`, `EveryoneRefused`, `SomeoneReceives`, `ReloadTakesEffect` |
| `grpc` | nine scenarios: rings of 2, window of 2 slots, queues of 1 and 2, 2 clients, 2 workers, 2 replay threads, 1 gap; 187 scripts of the unary methods: metas of 1 or 2 banks, a clearing, a confirmed and a finalized status of bank 1, 2 or none, in every order the sender lets through, and two over two slots | `ServiceInv`, `ReplayComplete`, `UnaryAnswers`, `ReplaysEnd` |
| `pubsub` | twenty scenarios: rings of 4, queue of 1, store of 3, 2 signatures, 2 slots, 2 clients with up to 2 frames in all; ten of them are orders of the events of a slot, three have peers that stall or are silent | `TrackerInv`, `ClientIsTold`, `ProcessedSignatureAnswered`, `FrozenOnceWithAllCounted`, `NobodyWaits` |
| `filter` | notifications of every kind, both encoders and parsers, 3 clients, cache of 2 messages, 30 cells, 2 bodies | `CacheInv`, `SharedSameBytes`, `ReadAsNotified`, `EncodersAgree`, `FilterSurvivesRequest` |
| `transport` | up to 3 streams, 4 messages, backlog 0, 1, 2 and none, every refusal, 1 fault | `SendLoopInv`, `InOrder`, `NoLostWakeup`, `ClientIsServed` |
| `lost_wakeup` | as `readers`, 4 pushes | violated: `WakersReleasedByNextMessage` |
| `block_limits` | entries forbidden, accounts allowed | violated: `BlocksWithinLimits` |

Several properties are conjunctions of named parts, each with a comment of its own:

| property | parts |
|---|---|
| `SlotMapInv` | `TypeOK`, `KnownHeadsAreHeld`, `AncestorsGetStatus` |
| `JournalInv`, `EventsOnce`, `PromotionInv` | `TypeOK`, `IndexesIncrease`, `MapIsOnDisk`; `NoEventTwice`, `StoredOnce`; `ConfirmedComplete`, `FinalizedWasConfirmed` |
| `FilesInv` | `TypeOK`, `ChunksReadable`, `RowsReadable`, `NoThreadFails` |
| `HistoryInv` | `TypeOK`, `NoSilentGap`, `AfterGapOnlyLive` |
| `ServiceInv`, `UnaryAnswers`, `ReplaysEnd` | `TypeOK`, `RequestsAccounted`, `ServedOnce`; `BlockIsSelected`, `RecentHashKnown`; `ReplayEnds`, `GapEndsReplay` |
| `TrackerInv`, `ClientIsTold`, `NobodyWaits` | `TypeOK`, `StorageConsistent`, `IndexMatchesFullScan`; `NoSilentGap`, `ToldWhyDropped`; `DroppedClientsEnd`, `RequestsAnswered` |
| `CacheInv`, `ReadAsNotified` | `TypeOK`, `CacheAccounted`, `CacheBounded`; `DeliveredFaithful`, `RestoredEqual`, `RpcReadsTheNotified` |
| `SendLoopInv`, `ClientIsServed` | `TypeOK`, `BacklogRespected`, `SelectHasBranch`; `MessagesReachTheClient`, `EndIsTold` |

Why the bounds are enough to be interesting: in `ring`, `readers` and the receivers of
`plugin` more is pushed than fits, so items are overwritten, in `ring` and `readers` over
more than two laps; in the other setups of `plugin` it is the byte limit that evicts,
several messages of one push if need be; three slots are the fewest with a slot below,
at and above a request, and a grandparent. In `sender` a slot leaves the window, may
come back by a late message, and a crash may undo its trim; the second crash happens in
a process that already continues an older journal. In `storage` three records span two
segments, events of one and of two records occur, and every step of rotation, append,
commit, trim and deletion has a crash before and after it. In `source` an upstream may
refuse by its answer and by the end of the stream, regain what it dropped while the
other still refuses, and be removed from the file as the last that has not refused. In
`grpc` four records through a ring of two make a live client lag and a replaying one
miss the hand-over once; the queue of one makes the sender of a client stop; a client
asks again while a thread holds its request. In `pubsub` a queue of one fills with the
second notification, a store of three evicts one that is still queued, and the
tracker can fall behind by a ring; the signature cache answers, but what it evicts is never
asked for (a third signature comes only in a scenario without signature subscriptions).
Behind a peer that stalls the queue fills during an answer, a notification and the close
frame. Of the two transactions, meta, entry and processed status of a slot each subset is
what was read first in one of ten orders, half of them with an older slot finalized in
between, and the cap of two messages lets a tick end anywhere. In the scripts of the unary
methods a status comes before all metas, between them and after them, names the bank that
is cleared or one whose meta is still to come, and disagrees with the other status. In
`filter` cells fill bodies that cross one digit of length, a bound of 30 cells evicts, and
clients start before, at and behind the cached window. In `transport` two streams and a
backlog of one make the loop wait, and three streams let two messages overtake a third.
Each property is violated by at least one mutant of the code listed in `PROJECT.json`,
so the instance does reach the case it is about.

### Fairness

`PluginChannel!Fairness`: a push that has the mutex finishes, `close` goes on once it
is called, a woken task is polled (tokio), and a poll that finds the mutex free
goes on. Nothing makes the validator push or unload the plugin. The number of
pushes is bounded, so weak fairness suffices for a poll that competes for the
mutex; with unbounded pushes one would need a fair mutex.
`StoragePipeline!FairSpec`: the collector, compressor and writer threads run while
they have work, and the collector's receive times out (`recv_timeout`). The sender
and crashes are not fair.
`SourceRecovery!Fairness`: a source whose dial, answer, message or timer is ready is
polled, and the network gives some outcome to a dial. A reload has strong fairness: the select is
biased towards sources, but it polls the reload whenever no source is ready, which in
the waits between messages happens again and again. Faults, edits and the growth of
the cluster are not fair.
`GrpcServer!Fairness`: the collector flushes, workers and replay threads loop, a retry
is due when its timer ends, and a client that keeps its call open reads. Nothing makes a
client ask, leave or come back.
`PubSub!Fairness`: the tracker loops until it fails, and tokio polls the task of a
client that is ready. A frame is written as long as the peer does not stall, and the
read task of a connection whose write task is over gets another frame, such as the answer to
the close frame, as long as the peer `answers`. Nothing is assumed of a peer that stalls or
is silent: neither `write_frame` nor `read_frame` has a timeout, and such a peer keeps the connection of
a client that was dropped for as long as it likes, with its queue if it stalls.
`DroppedClientsEnd` says what holds in spite of that. Nothing makes a client send or the
sender publish.
`QuicTransport!Fairness`: the tasks of server and client are polled when ready, quinn
delivers what was written on an open connection, and a connection whose handle was
dropped closes. Losing a connection is not fair.

### What the violated runs show

* `lost_wakeup`: `recv_ref` of richat loads the tail, finds nothing, then registers its
  waker. A push that publishes and drains the wakers in between wakes nobody; the
  receiver sleeps over the message until the next push. The plugin looks again
  under the mutex, and `ParkedHasReadAll` holds there.
* `block_limits`: `ConfigLimitsBlocks::check_filter` tests the entries of a block against
  `include_accounts` (filter config.rs:472); `include_entries` is read nowhere. A server
  that forbids entries and allows accounts hands out entries.

Further disagreements met while modelling are kept as instances outside the regular
runs; each cfg gives a short counterexample of the property it names
(`SenderDeviations.cfg` and `PubSubDeviations.cfg` with the setup and the property of the
row):

| module | cfg | property | behaviour |
|---|---|---|---|
| `MCPluginChannel` | `PluginChannelLateMessage.cfg` | `KnownSlotsAreComplete` | a status of a slot whose messages were evicted enters the slot again, with the status as its head; a subscription from that slot is accepted and starts there. richat's ring has `incomplete_through` against this, and `MemoryReplayComplete` is proved there |
| `MCSharedChannel` | `SharedChannelEmpty.cfg` | `LaggedOnlyIfEvicted` | a subscription to an empty ring starts at position `max_messages`, which no message gets; the first message makes the receiver lag (channel.rs:656) |
| `MCPluginChannel` | `PluginChannelEmpty.cfg` | `NewReceiverStartsFromLatest` | the same in the plugin; the receiver waits until the ring has gone round (plugin-agave channel.rs:278), while a test says "a new receiver starts from the latest message" (:529) |
| `MCSender` | `SenderDeviations.cfg`, `MCBankless` | `FinalizedWasConfirmed` | a confirmed status without bank before any data selects nothing, and finalized later promotes data confirmed never carried (channel.rs:1511; CHANGELOG.md:62) |
| `MCSender` | `SenderDeviations.cfg`, `MCRestartMemory` | `MemoryReplayComplete` | after a restart the sender skips the events the journal already has, and the ring advertises the slot from the first new one; a request from that slot is answered from memory and misses the skipped events, which are on disk |
| `MCSender` | `SenderDeviations.cfg`, `MCRestartPhantom` | `StoredOnce` | account updates without transaction are numbered by arrival, and the number is part of the id; in another order they are journaled again (channel.rs:793; channel_tests.rs:829) |
| `MCSender` | `SenderDeviations.cfg`, `MCRestartConfirmed` | `StoredConfirmedComplete` | an event that the first process missed, replayed before the stored confirmed status, is never promoted (channel.rs:896; README.md:209) |
| `MCSender` | `SenderDeviations.cfg`, `MCRestartTrimmed` | `RestartSucceeds` | a late finalized status behind the window and a crash before its trim leave a journal that `to_sender` refuses (channel.rs:412) |
| `MCSender` | `SenderDeviations.cfg`, `MCOrphan` | `OrphanReplayed` | a crash keeps a record of a slot that fell out of the window and not the trim behind it; the restart finds no entry of the slot, and a replay from an older slot starts behind the record (channel.rs:1072, storage/mod.rs:355) |
| `MCSender` | `SenderDeviations.cfg`, `MCWaiting` | `DedupBounded` | a push that only parks an account returns before the bound is applied (channel.rs:860; channel_bounds_tests.rs:293) |
| `MCSender` | `SenderDeviations.cfg`, `MCWaiting` | `NoEventTwice` | the bound of the dedup map drops a slot that is still live (channel.rs:1056) |
| `MCPubSub` | `PubSubDeviations.cfg`, `NoneYet` | `FailsOnlyIfEvicted` | the tracker starts at a tail without adding one (tracker.rs:556), while grpc/server.rs:278 and channel_tests.rs:350 start at the tail plus one; on an empty ring it fails although nothing it had to read was evicted |
| `MCPubSub` | `PubSubDeviations.cfg` | `ConfirmedSignatureAnswered` | the confirmed and finalized rings are read from the tail of the processed ring (tracker.rs:557), so messages between the two positions are skipped or read too early and a signature among them is not answered |
| `MCPubSub` | `PubSubDeviations.cfg`, `MCRepeats` | `FrozenOnceWithAllCounted` | slot statistics are keyed by slot alone (tracker.rs:679): events that come again, from a source without deduplication or of a second bank of the slot, are added to the same counts, and the frozen update is sent again or never |
| `MCGrpcServer` | `GrpcUnaryNoBank.cfg` | `FollowsConfirmedCandidate` | a confirmed status that names no bank selects the latest candidate and does not remember it, so the block meta of another bank takes its place in the unary answers (block_meta.rs:50), while the sender keeps the candidate it confirmed (channel.rs:1511); CHANGELOG.md:63 says they "follow the confirmed candidate". Likewise a finalized status that names another bank is not followed after it (block_meta.rs:200), though the sender finalizes that bank; and if the later bank is cleared the answer stays with its block |
| `MCFilterServer` | `FilterDownstream.cfg` | `ReadDownstream` | an account without `write_version` on the wire has no place for it; `update_write_version` of the limited parser then makes a buffer that a downstream parser cannot read (filter message.rs:879) |
| `MCFilterServer` | `FilterDeadError.cfg` | `RestoredEqual` | the range of `dead_error` stays relative to its part where the other ranges are shifted to the whole buffer (filter message.rs) |
| `MCQuicTransport` | `QuicFewMessages.cfg` | `SubscribeReturns` | the client accepts a stream when its first frame arrives; with fewer messages than streams `subscribe` does not return before more are sent |

Smaller things that no property states:

* the entry bitmap of the dedup grows to `next_power_of_two(index)`, which is `index` itself
  for a power of two (channel.rs:826);
* with data slices, an encoded account loses `is_startup = true` (filter
  protobuf/encode.rs:142, `if !is_startup`);
* the check of `any` in the limits of transactions does not count `signature`;
* a conversion back from the wire turns some absent lists into empty ones;
* `MessagesCache` computes `head - mask`, which underflows if `messages_cached_max` exceeds
  the messages of the ring;
* `EncodedCache` says that no bodies are kept below its tail; after a jump there can be, and
  they are never read;
* a close frame on one QUIC stream can overtake messages on the others, which are then
  not delivered;
* `max_backlog = 0` leaves the `select!` of the send loop without a branch, and it panics;
* a status of a slot without block meta makes an entry with slot 0 and an empty hash, with
  which the unary methods answer until a meta comes; a status that names a bank whose meta
  has not come leaves the candidate that is there in the answers until it does;
* sources that fall back to live do not start at the same slot; the difference is covered
  by deduplication of what the earlier one has.

## Proofs

Seven modules prove the invariants below for every value of the constants: every
capacity, limit, set of slots, messages, readers, streams or sources, every bound and
every configuration. Each has an inductive invariant, one lemma per action that says
the action preserves it, and short theorems that take the property from it. Every
inductive invariant was first checked by TLC on the instance of its run. A further
module, `RingLemmas`, holds what they share.

| theorem | states |
|---|---|
| `TypeCorrect`, `MemoryReplayIsComplete`, `RingIsBoundedAndAccounted`, `HandOffIsExact`, `DeliveryIsInOrder` | invariants of `SharedChannel` |
| `RingImplementsBroadcastLog` | `SharedChannel` implements `BroadcastLog` |
| `SlotMapIsSound`, `NoLostWakeup` | `SlotMapInv` and `ParkedHasReadAll` of `PluginChannel` |
| `PluginRingImplementsBroadcastLog` | `PluginChannel` implements `BroadcastLog` |
| `FilesAndCatalogAgree` | `FilesInv` of `StoragePipeline` |
| `StorageImplementsDurableLog` | `StoragePipeline` implements `DurableLog`, crashes included |
| `SenderInvariant`, `JournalInvariant`, `DiskReplay` | the inductive invariant, `JournalInv` and `DiskReplayComplete` of `Sender` |
| `ConfirmedPromotion`, `Promotion` | until a restart, `ConfirmedComplete` of `Sender`, and `PromotionInv` where the statuses agree |
| `HistoryIsKept`, `GapNeedsEveryone` | `HistoryInv` and the action property `EveryoneRefused` of `SourceRecovery` |
| `ServiceIsAccounted` | `ServiceInv` of `GrpcServer` |
| `SendLoopIsSound`, `ClientGivesInOrder`, `SleeperMissesNothing` | `SendLoopInv`, `InOrder` and `NoLostWakeup` of `QuicTransport` |

### RingLemmas

`Induction` states induction over the naturals with a *set* of naturals, which the
provers can instantiate where an operator parameter is out of reach; the same form gives
least and greatest elements, and `Recursion`, by which a function defined by its
predecessor (a prefix sum) exists and satisfies its equation. `ModDistinct`, `ModLap` and
`LapGap` are the arithmetic of positions less than, exactly, or more than a lap apart.

### The commitment ring

From `ConstantsAssumption` (the capacity is positive, slots and sizes are natural
numbers). `MemoryReplayComplete` is not inductive: it does not speak of a push in
progress or of slots that are not advertised. `RingInv` adds to `TypeOK`:

* `CountersInv`: head, tail and log agree, and a push in progress knows its slot;
* `BufferInv`: the items with data are exactly the records from head to tail, each at
  its position modulo the capacity, so that an overwritten item is the oldest one;
* `EvictedInv`: an evicted record has a slot at or below `incomplete_through` or, in a
  push, `removed_max_slot`;
* `AdvertisedInv`: an advertised slot is above `incomplete_through` and starts at its
  first record of the epoch;
* `AbsentInv`: a slot above `incomplete_through` that is not advertised has no record in
  the epoch, except the one of the push in progress.

Beside it `IndexInv` says that storage indexes grow along the log and that those of
evicted records are below `replay_floor`, and `AccountInv` that the byte account is the
difference of the prefix sums of the log at tail and head, and below the limit outside
of a push.

A request for slot `s` that memory answers has an advertised slot at or below `s`, which
is above `incomplete_through`; so no record of `s` or later was evicted (`EvictedInv`),
and each such record has an advertised slot (`AbsentInv`) whose head is before it
(`AdvertisedInv`). `BoundedAndAccounted` follows from `AccountInv`. For `HandOffExact` the binary search is followed turn by turn: what is
left of its range always contains the answer and shrinks, and the indexes are sorted
(`IndexInv`). The refinement maps each step of a push or a poll to a step of the
abstract log or a stutter; a receiver that reads an item after eviction stops there
because positions a lap apart differ. `DeliveryInv` adds what a reader got so far.

### The plugin's ring

From `ConstantsAssumption`; the two parts that are not about types are that there are
finitely many slots and that a parent precedes its slot, which the validator guarantees.
`PlugInv` has the counterparts of the above (`CountersInv`, `BufferInv`, `PositionInv`,
`AccountInv`), and

* `HeadsInv`: a slot of the map starts at a message of its own in the ring, or its head
  was evicted by this push and the slot is among those about to be removed;
* `ParentsInv`: a parent reported since the head of its slot is recorded;
* `StatusInv`: a known parent does not lack a status that a child got, in the middle of a
  push too;
* `BatchInv`: the batch of a push climbs from the oldest known ancestor, and each parent
  in it already has the status or is preceded by its repair.

`BatchInv` is what makes missed statuses come out in order. `ParkedHasReadAll` needs
`WakersInv`: a parked receiver is registered, or a push or `close` that
took its waker has still to wake it.

### The storage

From `StorageAssumption` (finitely many slots; positive window, segment size and number of
compressors). `StorageInv` follows a command from the sender to the disk: `JournalOK` and
`SenderOK` (indexes are consecutive over pushes, and what the sender knows of each slot is
in the log), `CollectorOK`, `PipeAt` (the items between collector and writer are
consecutive cuts of the log, each in exactly one place, however the compressors finish),
`CatalogOK` (segment, chunk and slot rows describe the durable prefix; chunks neither
overlap nor leave a hole above the floor), `DiskOK` (a file holds the records its chunk rows
name, at the place they name, possibly followed by the rest of an unfinished append).
The existence of the cuts is the witness most steps have to give: a crash forgets them,
a restart begins a new pipe at the durable prefix.

The refinement needs one thing more, that the rows of the catalog are the rows the
journal determines for the durable prefix, although trims delete whole segments with
the rows that point to them. `EntryInv` says why this is right: entries of one slot are
separated by a trim between them (`Separated`), the sender knows the standing one
(`Known`), a trim spares every entry that stands (`TrimsSpare`), and only later slots
follow a finalized status (`FinalLast`). So a row that a trim deletes belongs to the slot
it removes or to an entry that was removed before.

### The sender

From `ConstantsAssumption` (finitely many slots and banks, sources that send well-formed
messages, positive bounds). `SenderInv` has the types (`SlotsInv`, `ReplayInv`, `DedupInv`,
`StreamInv`, `ScalarsInv`) and what ties the memory of the process to the journal:

* `IndexInv`: indexes grow along the journal and are below the next one, so that the record
  with `index = slot_head` is the first of its slot and no other;
* `EnteredInv`: between two records that enter the same slot there is a trim of it;
* `MapIsOnDisk`: a slot of the replay map has an entry that stands, where its head is, and
  no other slot has one; it is what `read_slots` would return now;
* `WindowInv`: the state of a slot, which remembers the head, was made before the next index,
  and its replay entry stands unless the slot fell out of the window. A slot that did is
  trimmed again by the push that brings it back, so an old head never survives one;
* `RetainedInv`: until the first crash, each record is retained, trimmed or below the floor;
* `NoStorageInv`: without a storage nothing is journaled and no slot is retained.

A push is followed through its loop: `StOK` and `Grown` say of a turn that the fields stay
well formed, that what it appends are records of the slot with consecutive indexes, and
that only the record with the index of the head is an entry; `PushAllOK` takes this over the
turns by `Induction`. The clean-up appends the trims of the expired slots in order
(`InOrderOK`, by induction over the number of slots). `PushedEntered` then says how the entries
of each slot change: those of an expired slot end, the slot of the push keeps its own or
gets the first record, the others stay. A restart works on a prefix, of which all this
holds as well, and takes the map from it, so `MapIsOnDisk` holds by construction there;
`RetainedInv` does not survive it, and `OrphanReplayed` shows why. For `DiskReplayComplete`, a
retained record has its entry at or before it; there is only one (`EnteredInv`), the map has
its index as head (`MapIsOnDisk`), and the replay starts at the least head at or above the
slot. `JournalInv` is part of `SenderInv`.

`ConfirmedPromotion` and `Promotion` are about the streams, from `SenderInv` and
`PromotionIInv`, which is about the time before the first restart: what a restart has read
from the journal is not published again, so that afterwards the confirmed stream of this
process is only a part (`StoredConfirmedComplete` has the counterexample). `Gathered` says of
an open slot where the data of its candidates is:

* `CandidatesKept`: a candidate that is not confirmed and was not cleared keeps everything
  that the processed stream carries of it, or a newer update of the account, up to its block;
* `ChosenOut`: from the confirmed status on, the confirmed stream has what the processed one
  has of the confirmed bank, and what the bank keeps;
* `OneCandidate`: the confirmed stream has data of no other bank, and none before the status;
* `BlocksOut` and `ClearedClosed`: a bank counts as complete only behind its block in the
  processed stream, and a status that names no bank never selects a cleared one;
* `NotFinal` and `Named`: the finalized stream has no data of the slot yet, and where the
  statuses agree the confirmed bank is the one they name.

`SlotDone` ties this to the bounds: a slot that the streams know is open, or at or below
`slot_finalized` or `slot_dropped`, where `push` ignores it; else a slot whose state was
dropped could be confirmed a second time from nothing. `PushOneGives` says what one turn of
the loop adds to each stream, `KeepHighestHolds` and `BankStep` that a bank loses nothing by
a message, `GatheredTurn` has a lemma for each kind of message, `PushedGives` takes it over
the turns, and `GatheredOther` leaves the other slots alone. `StatusesAgree`, a hypothesis of
`Promotion` about what the sources send, is needed: `select_bank` takes the bank that a
status names, so a finalized status that names another bank than the confirmed one did, or
follows one that named none, finalizes that other bank (`MCBankless` has the counterexample).

### The sources

From `SourceRecoveryAssumption` (finitely many names; positive window, first slot and
channel size; files and setups that name sources). `HistoryInv` is about what was forwarded;
`RecoveryInv` adds what makes a gap impossible: `CountInv` (a counted refusal is the last
answer its source gave to the cursor of this epoch, and the source is configured),
`CursorInv` (the cursor is at most one above what is finalized, and above the gap),
`ReloadInv` (there is a source, and will be one after a prepared reload), and for each source `Good`: its channel holds consecutive slots (`Channel`); all
before its position was forwarded or finalized (`Flows`, `Ahead`), unless it follows a
gap all sources agreed to (`AfterGap`). `EveryoneRefused`, that the cursor is given up only in
a step in which every configured source has refused it, follows from `CountInv`.

### The transport

From `BoundsAssumption` and `ScenarioAssumption` (shapes and widths of what a client may
request). `QuicInv` is `ShapeInv`; `ServerInv` and `BranchInv` (each stream of the send loop is free
or owned by exactly one write, and the ids in flight are within the backlog); `MailInv`
(the ids under way lie between the client's next and the server's next, each in one
place only: a write, a stream, or the reorder map; on a stream ids grow); `PollInv` (a
reader that was polled in this round and has no waker has only later messages to come
than the one whose turn it is, or the task is woken). `InOrder` follows from `MailInv`, `NoLostWakeup` from `PollInv`.

### The gRPC server

From `ConstantsAssumption` (finite sets of workers and threads, sizes that are naturals,
scenarios made of these sets). `ServiceInv` is not inductive: when a worker puts a client
back, or leaves it because its stream is gone, that this is right rests on what the client's
queue holds. `ServeInv` has

* `ClientsInv`: with the types, the counted length of a queue is at least what is queued in
  front of an error (`LenOK`), so that a subtraction by the stream never goes below zero;
* `WorkersInv` and `OnceInv`: no client is twice in the queue, in two hands, or in both; the
  hand of a worker is the client it serves or the one it has still to put back (`Held`);
* `PlacedInv`: a client that has not called has no place, and one that is in service (open,
  not finished, no error queued) has one;
* `ThreadsInv`, `QueueInv`, `AccountInv`: a replay thread has a request in one hand at most,
  and the length of the replay queue counts the list and the threads that are busy.

Most steps change a client so that it `Follows` its earlier state: it stays as well-formed
and called as it was and does not come back into service, so its place need not change. The
exceptions have lemmas of their own: a call, which puts the client in the queue, and the
turns of a worker.

### Model-checked only

* liveness and everything under fairness;
* `EventsOnce` and `BlockIsWhole` of `Sender`, which hold for setups with deduplication, within
  the bound of the dedup map and without renumbered accounts only (`SenderDeviations.cfg` has counterexamples),
  so they are no theorems over all constants; `PromotionInv` after a restart, or with statuses
  that disagree, is none either;
* the invariants of `PubSub`;
* `ReplayComplete` and `UnaryAnswers` of `GrpcServer`;
* the invariants of `FilterServer`: `Protobuf` decodes by recursive operators, so no module
  above it can hold theorems, and what its encoders write for every input would need
  induction over data.

## Not modelled, and why

* the gRPC transport and client, the accept loop of QUIC, TLS: socket I/O around the
  modelled receivers, seen by `SourceRecovery` as outcomes;
* the JSON of websocket notifications and the handshake: formatting; what a
  notification tells is kept;
* command line tools, metrics, reading of configuration files, the plugin's loading and
  startup gate: no state that anything modelled reads;
* the unary calls `SubscribeReplayInfo` and `GetVersion`, which read one value;
* compression and the cache of file handles in the segment reader;
* the growth of the entry bitmap in the dedup (channel.rs:824) and the overlap of
  write versions of accounts without signature with those of transactions beyond
  1000 (channel.rs:799): `Sender` has no entry indexes, and `PhantomSpace` is larger
  than the number of such accounts in every instance;
* memory ordering weaker than sequential consistency, clock-driven limits other than
  timeouts and retries, I/O errors of the disk.

## Plan

1. Proofs for the sender: `BlockIsWhole` and `EventsOnce` for setups with one source of
   each bank and within the bound of the dedup map.
2. Proofs for the gRPC server: `ReplayComplete`.
3. Proofs for pubsub: `TrackerInv`.
