--------------------------- MODULE SharedChannel ---------------------------
(***************************************************************************)
(* One commitment ring of richat/src/channel.rs: the buffer shared between *)
(* its single writer (SenderShared) and any number of readers              *)
(* (ReceiverAsync, ReceiverSync).                                          *)
(*                                                                         *)
(* The writer holds the slots mutex for a whole push, but the readers      *)
(* never take it: they load the tail and lock one buffer item.  A push is  *)
(* therefore split into the steps a reader can see between:                *)
(*    PushItem ; EvictByBytes* ; Publish ; WakeReceivers                   *)
(* A poll of a reader is split the same way: PollTail, then one ReadItem   *)
(* per item, or Park.                                                      *)
(*                                                                         *)
(* Positions are u64 and never wrap in a run of the program; they are      *)
(* naturals here.  log is a history variable: record i of the log is the   *)
(* i-th message ever pushed and has ring position MaxMessages + i.         *)
(***************************************************************************)
EXTENDS Integers, Sequences, FiniteSets, FiniteSetsExt

CONSTANTS
    MaxMessages,   \* capacity of the ring, max_messages
    BytesMax,      \* max_bytes
    Slot,          \* slot numbers the messages carry
    Message,       \* message payloads
    Size,          \* payload size in bytes, ParsedMessage::size
    Receiver,      \* readers
    AsyncReceiver, \* the readers that park on a waker (ReceiverAsync)
    Disabled,      \* the payloads each reader's filter switches off
    Journaled,     \* TRUE when the storage journals the records of this ring
    U64Max,        \* replay_index of a record that is not journaled
    MaxPushes,     \* bound: messages pushed in a behaviour
    MaxEpochs      \* bound: live epochs begun in a behaviour

NoData == "none"   \* an item whose data was taken: Option::None
NoSlot == -1       \* Option<Slot>::None
NoHead == 0        \* a slot that the slots map does not hold

ASSUME ConstantsAssumption ==
    /\ MaxMessages \in Nat \ {0}
    /\ BytesMax \in Nat
    /\ Slot \subseteq Nat
    /\ NoData \notin Message
    /\ Size \in [Message -> Nat]
    /\ AsyncReceiver \subseteq Receiver
    /\ Disabled \in [Receiver -> SUBSET Message]
    /\ Journaled \in BOOLEAN
    /\ U64Max \in Nat
    /\ MaxPushes \in Nat
    /\ MaxEpochs \in Nat

VARIABLES
    (* SharedChannel: the atomics, the buffer, the slots map, the wakers *)
    head, tail, replay_floor, recovery_epoch, buffer, slots, wakers,
    (* SenderShared: the writer's own copies *)
    snd_head, snd_tail, bytes_total, incomplete_through,
    (* where the writer is in a push, and the locals of that push *)
    snd_pc, snd_slot, removed_max_slot,
    (* Sender.index: the next journal index, shared with the other rings *)
    index,
    (* readers: control state, cursor, the tail a poll loaded *)
    rcv_pc, rcv_head, rcv_tail,
    (* history: everything pushed, Len(log) when the live epoch began,
       where each reader started and what it was handed *)
    log, epoch_start, rcv_start, rcv_got

shared == <<head, tail, replay_floor, recovery_epoch, buffer, slots>>
sender == <<snd_head, snd_tail, bytes_total, incomplete_through>>
local  == <<snd_pc, snd_slot, removed_max_slot>>
rcv    == <<rcv_pc, rcv_head, rcv_tail, rcv_start, rcv_got>>
vars   == <<shared, wakers, sender, local, index, rcv, log, epoch_start>>

Item == [replay_index : Nat, pos : Nat, slot : Nat, data : Message \cup {NoData}]
Record == [slot : Slot, data : Message, replay_index : Nat]

\* SharedChannel::get_idx, pos & mask with a power-of-two capacity
GetIdx(pos) == pos % MaxMessages

Larger(a, b) == IF a >= b THEN a ELSE b

(***************************************************************************)
(* SharedChannel::new and SenderShared::new                                *)
(***************************************************************************)
Init ==
    /\ head = MaxMessages + 1
    /\ tail = MaxMessages
    /\ replay_floor = 0
    /\ recovery_epoch = 0
    /\ buffer = [i \in 0 .. MaxMessages - 1 |->
                   [replay_index |-> U64Max, pos |-> i, slot |-> 0, data |-> NoData]]
    /\ slots = [s \in Slot |-> NoHead]
    /\ wakers = {}
    /\ snd_head = MaxMessages + 1
    /\ snd_tail = MaxMessages
    /\ bytes_total = 0
    /\ incomplete_through = NoSlot
    /\ snd_pc = "idle"
    /\ snd_slot = NoSlot
    /\ removed_max_slot = NoSlot
    /\ index = 0
    /\ rcv_pc = [r \in Receiver |-> "new"]
    /\ rcv_head = [r \in Receiver |-> 0]
    /\ rcv_tail = [r \in Receiver |-> 0]
    /\ rcv_start = [r \in Receiver |-> 0]
    /\ rcv_got = [r \in Receiver |-> <<>>]
    /\ log = <<>>
    /\ epoch_start = 0

(***************************************************************************)
(* The writer                                                              *)
(***************************************************************************)

\* Mutant: push_stored takes the index of the record before.
NextReplayIndexStale == IF Journaled THEN index - 1 ELSE U64Max

\* The replay index push_stored gives the next record of this ring.
NextReplayIndex == IF Journaled THEN index ELSE U64Max

\* Mutant: the floor stays on the record that was evicted.
FloorAtEvicted(item) ==
    IF item.replay_index # U64Max THEN item.replay_index ELSE replay_floor

\* replay_floor after the data of an item was taken.
FloorAfter(item) ==
    IF item.replay_index # U64Max THEN item.replay_index + 1 ELSE replay_floor

\* SenderShared::push_stored, then push up to the overwrite of the item: the
\* slots mutex is taken, the tail bumped and the item of the oldest message,
\* if the ring is full, replaced.
PushItem(s, m) ==
    LET i == GetIdx(snd_tail + 1)
        old == buffer[i]
        evicts == old.data # NoData
    IN  /\ snd_pc = "idle"
        /\ Len(log) < MaxPushes
        /\ index < U64Max
        /\ index' = IF Journaled THEN index + 1 ELSE index
        /\ snd_tail' = snd_tail + 1
        /\ bytes_total' = bytes_total + Size[m] - (IF evicts THEN Size[old.data] ELSE 0)
        /\ snd_head' = IF evicts THEN snd_head + 1 ELSE snd_head
        /\ removed_max_slot' = IF evicts THEN old.slot ELSE NoSlot
        /\ replay_floor' = IF evicts THEN FloorAfter(old) ELSE replay_floor
        /\ buffer' = [buffer EXCEPT ![i] =
                        [replay_index |-> NextReplayIndex, pos |-> snd_tail + 1,
                         slot |-> s, data |-> m]]
        /\ snd_slot' = s
        /\ snd_pc' = "evict"
        /\ log' = Append(log, [slot |-> s, data |-> m, replay_index |-> NextReplayIndex])
        /\ UNCHANGED <<head, tail, recovery_epoch, slots, wakers, incomplete_through,
                       rcv, epoch_start>>

\* Mutant: a ring that is exactly full of bytes is left alone.
OverBytesStrict == bytes_total > BytesMax /\ snd_head < snd_tail

\* The condition of the loop that drops messages by extra bytes.
OverBytes == bytes_total >= BytesMax /\ snd_head < snd_tail

\* One turn of the loop that drops messages by extra bytes.
EvictByBytes ==
    LET i == GetIdx(snd_head)
        old == buffer[i]
    IN  /\ snd_pc = "evict"
        /\ OverBytes
        /\ snd_head' = snd_head + 1
        /\ bytes_total' = bytes_total - Size[old.data]
        /\ buffer' = [buffer EXCEPT ![i].data = NoData]
        /\ replay_floor' = FloorAfter(old)
        /\ removed_max_slot' = Larger(removed_max_slot, old.slot)
        /\ UNCHANGED <<head, tail, recovery_epoch, slots, wakers, snd_tail,
                       incomplete_through, snd_pc, snd_slot, index, rcv, log,
                       epoch_start>>

\* Mutant: a late message advertises a slot that was partly evicted.
SlotsReadvertised ==
    [slots EXCEPT ![snd_slot] = IF @ = NoHead THEN snd_tail ELSE @]

\* The slots map once the slot of the message has been entered, unless part of
\* it was already evicted.
SlotsWithCurrent ==
    [slots EXCEPT ![snd_slot] =
        IF snd_slot > incomplete_through /\ @ = NoHead THEN snd_tail ELSE @]

\* The end of push: publish head and tail, enter the slot, forget the slots
\* that lost a message; the slots mutex is released.
Publish ==
    LET upto == Larger(incomplete_through, removed_max_slot)
    IN  /\ snd_pc = "evict"
        /\ ~OverBytes
        /\ head' = snd_head
        /\ tail' = snd_tail
        /\ incomplete_through' = upto
        /\ slots' = [s \in Slot |-> IF removed_max_slot # NoSlot /\ s <= upto
                                   THEN NoHead ELSE SlotsWithCurrent[s]]
        /\ snd_pc' = "wake"
        /\ snd_slot' = NoSlot
        /\ removed_max_slot' = NoSlot
        /\ UNCHANGED <<replay_floor, recovery_epoch, buffer, wakers, snd_head,
                       snd_tail, bytes_total, index, rcv, log, epoch_start>>

\* The end of Sender::push: every parked receiver is woken.
WakeReceivers ==
    /\ snd_pc = "wake"
    /\ wakers' = {}
    /\ rcv_pc' = [r \in Receiver |-> IF r \in wakers THEN "ready" ELSE rcv_pc[r]]
    /\ snd_pc' = "idle"
    /\ UNCHANGED <<shared, sender, snd_slot, removed_max_slot, index, rcv_head,
                   rcv_tail, rcv_start, rcv_got, log, epoch_start>>

\* A record of another commitment ring takes the next journal index.
JournalOtherRing ==
    /\ snd_pc = "idle"
    /\ Journaled
    /\ index < U64Max
    /\ index' = index + 1
    /\ UNCHANGED <<shared, wakers, sender, local, rcv, log, epoch_start>>

\* Sender::begin_live_epoch, the part that concerns one ring.
BeginLiveEpoch ==
    /\ snd_pc = "idle"
    /\ recovery_epoch < MaxEpochs
    /\ slots' = [s \in Slot |-> NoHead]
    /\ replay_floor' = index
    /\ recovery_epoch' = recovery_epoch + 1
    /\ epoch_start' = Len(log)
    /\ UNCHANGED <<head, tail, buffer, wakers, sender, local, index, rcv, log>>

(***************************************************************************)
(* The readers                                                             *)
(***************************************************************************)

\* The slots mutex is free: no push is between PushItem and Publish.
SlotsUnlocked == snd_pc # "evict"

StartAt(r, pos) ==
    /\ rcv_pc' = [rcv_pc EXCEPT ![r] = "ready"]
    /\ rcv_head' = [rcv_head EXCEPT ![r] = pos]
    /\ rcv_start' = [rcv_start EXCEPT ![r] = pos]
    /\ UNCHANGED <<shared, wakers, sender, local, index, rcv_tail, rcv_got, log,
                   epoch_start>>

\* Subscribe::subscribe without replay_from_slot starts at the tail: the newest
\* message, or a position that never exists when nothing was pushed yet.
SubscribeLive(r) ==
    /\ rcv_pc[r] = "new"
    /\ StartAt(r, tail)

\* Subscribe::subscribe with replay_from_slot, a slot the map holds.
SubscribeFrom(r, s) ==
    /\ rcv_pc[r] = "new"
    /\ SlotsUnlocked
    /\ slots[s] # NoHead
    /\ StartAt(r, slots[s])

\* recv_ref / try_recv load the tail ...
PollTail(r) ==
    /\ rcv_pc[r] = "ready"
    /\ rcv_tail' = [rcv_tail EXCEPT ![r] = tail]
    /\ rcv_pc' = [rcv_pc EXCEPT ![r] = "polling"]
    /\ UNCHANGED <<shared, wakers, sender, local, index, rcv_head, rcv_start,
                   rcv_got, log, epoch_start>>

\* Mutant: the position of the item is not compared with the cursor.
LaggedIfTaken(item, pos) == item.data = NoData

\* The item at a cursor was overwritten or evicted: RecvError::Lagged.
Lagged(item, pos) == item.pos # pos \/ item.data = NoData

\* ... read the item at the cursor (again after a message the filter disables) ...
ReadItem(r) ==
    LET item == buffer[GetIdx(rcv_head[r])]
        lagged == Lagged(item, rcv_head[r])
        skipped == item.data \in Disabled[r]
    IN  /\ rcv_pc[r] = "polling"
        /\ rcv_head[r] <= rcv_tail[r]
        /\ rcv_pc' = [rcv_pc EXCEPT ![r] =
                        IF lagged THEN "lagged"
                        ELSE IF skipped THEN "polling" ELSE "ready"]
        /\ rcv_head' = [rcv_head EXCEPT ![r] = IF lagged THEN @ ELSE @ + 1]
        /\ rcv_got' = [rcv_got EXCEPT ![r] =
                         IF lagged \/ skipped THEN @ ELSE Append(@, item.data)]
        /\ UNCHANGED <<shared, wakers, sender, local, index, rcv_tail, rcv_start, log,
                       epoch_start>>

\* ... or, with nothing to read, register the waker (ReceiverAsync) or return None.
Park(r) ==
    /\ rcv_pc[r] = "polling"
    /\ rcv_head[r] > rcv_tail[r]
    /\ wakers' = IF r \in AsyncReceiver THEN wakers \cup {r} ELSE wakers
    /\ rcv_pc' = [rcv_pc EXCEPT ![r] = IF r \in AsyncReceiver THEN "parked" ELSE "ready"]
    /\ UNCHANGED <<shared, sender, local, index, rcv_head, rcv_tail, rcv_start,
                   rcv_got, log, epoch_start>>

(***************************************************************************)
(* Choosing a cursor, under the slots mutex                                *)
(***************************************************************************)

Advertised == {s \in Slot : slots[s] # NoHead}

\* Messages::get_current_tail_with_replay, the answers that stay in memory:
\* the oldest head of the slots from s on, or past the tail for a future
\* slot; NoHead when memory cannot serve s.
MemoryCursor(s) ==
    LET from == {t \in Advertised : t >= s}
    IN  IF Advertised = {} THEN NoHead
        ELSE IF from = {} THEN tail + 1
        ELSE IF \E t \in Advertised : t <= s THEN Min({slots[t] : t \in from})
        ELSE NoHead

\* SharedChannel::get_head_by_replay_index: where a disk replay that has sent
\* every record before journal index i continues in memory; NoHead for None.
HeadByReplayIndex(i) ==
    LET turn(b) ==
            LET mid == b[1] + ((b[2] - b[1]) \div 2)
            IN  IF b[1] >= b[2] THEN b
                ELSE IF buffer[GetIdx(mid)].replay_index < i THEN <<mid + 1, b[2]>>
                ELSE <<b[1], mid>>
        \* low and high after n turns of the search
        bounds[n \in 0 .. tail + 1 - head] ==
            IF n = 0 THEN <<head, tail + 1>> ELSE turn(bounds[n - 1])
    IN  IF i < replay_floor THEN NoHead ELSE bounds[tail + 1 - head][1]

Writer ==
    \/ \E s \in Slot, m \in Message : PushItem(s, m)
    \/ EvictByBytes
    \/ Publish
    \/ WakeReceivers
    \/ JournalOtherRing
    \/ BeginLiveEpoch

Reader(r) ==
    \/ SubscribeLive(r)
    \/ \E s \in Slot : SubscribeFrom(r, s)
    \/ PollTail(r)
    \/ ReadItem(r)
    \/ Park(r)

Next == Writer \/ \E r \in Receiver : Reader(r)

Spec == Init /\ [][Next]_vars

(***************************************************************************)
(* Properties                                                              *)
(***************************************************************************)

TypeOK ==
    /\ head \in Nat /\ tail \in Nat
    /\ replay_floor \in Nat /\ recovery_epoch \in Nat
    /\ buffer \in [0 .. MaxMessages - 1 -> Item]
    /\ slots \in [Slot -> Nat]
    /\ wakers \subseteq AsyncReceiver
    /\ snd_head \in Nat /\ snd_tail \in Nat
    /\ bytes_total \in Int
    /\ incomplete_through \in Slot \cup {NoSlot}
    /\ snd_pc \in {"idle", "evict", "wake"}
    /\ snd_slot \in Slot \cup {NoSlot}
    /\ removed_max_slot \in Slot \cup {NoSlot}
    /\ index \in Nat
    /\ rcv_pc \in [Receiver -> {"new", "ready", "polling", "parked", "lagged"}]
    /\ rcv_head \in [Receiver -> Nat]
    /\ rcv_tail \in [Receiver -> Nat]
    /\ rcv_start \in [Receiver -> Nat]
    /\ rcv_got \in [Receiver -> Seq(Message)]
    /\ log \in Seq(Record)
    /\ epoch_start \in Nat

\* The record at a ring position.
At(pos) == log[pos - MaxMessages]

\* Everything pushed is at the positions MaxMessages + 1 .. snd_tail.
Positions == MaxMessages + 1 .. snd_tail

\* The positions pushed since the last begin_live_epoch.
LivePositions == MaxMessages + epoch_start + 1 .. snd_tail

\* A from_slot request that memory answers misses nothing: every record of the
\* requested slot or a later one, pushed in this live epoch, is at or behind
\* the cursor the client gets and has not been evicted, whatever the order in
\* which slots interleaved, were evicted, or got late messages
\* (get_current_tail_with_replay on the slots map that push maintains).
MemoryReplayComplete ==
    SlotsUnlocked =>
        \A s \in Slot : MemoryCursor(s) # NoHead =>
            \A p \in LivePositions :
                At(p).slot >= s => p >= MemoryCursor(s) /\ p >= head

\* A disk replay is handed over to memory without a gap and without a repeat:
\* from the position get_head_by_replay_index returns, the ring holds exactly
\* the records whose journal index is at least the requested one.
HandOffExact ==
    SlotsUnlocked /\ Journaled =>
        \A i \in 0 .. index :
            LET p == HeadByReplayIndex(i)
            IN  p # NoHead =>
                    /\ p >= head /\ p <= tail + 1
                    /\ \A q \in Positions : (q >= p) <=> (At(q).replay_index >= i)

\* The payloads of records first .. n that are not hidden, in order, for every n.
Handed(records, first, hidden) ==
    LET upto[n \in 0 .. Len(records)] ==
            IF n < first THEN <<>>
            ELSE IF records[n].data \in hidden THEN upto[n - 1]
            ELSE Append(upto[n - 1], records[n].data)
    IN  upto

\* Whatever the writer overwrites or evicts between two steps of a reader, the
\* reader is handed a contiguous run of the pushed messages, in order and
\* without repeats, from the position it subscribed at (less what its filter
\* disables): it either gets the next message or learns that it lagged.
DeliveredInOrder ==
    \A r \in Receiver : rcv_pc[r] # "new" =>
        rcv_got[r] = Handed(log, Larger(1, rcv_start[r] - MaxMessages), Disabled[r])
                           [Larger(0, rcv_head[r] - 1 - MaxMessages)]

\* The ring is a BroadcastLog for its readers, whichever step of the writer runs
\* between two of theirs.
BL == INSTANCE BroadcastLog WITH
        Readers <- Receiver,
        Entries <- Message,
        Hidden <- Disabled,
        log <- [i \in 1 .. Len(log) |-> log[i].data],
        phase <- [r \in Receiver |->
                    IF rcv_pc[r] = "new" THEN "new"
                    ELSE IF rcv_pc[r] = "lagged" THEN "stopped" ELSE "reading"],
        cursor <- [r \in Receiver |->
                     IF rcv_pc[r] = "new" THEN 0 ELSE rcv_head[r] - MaxMessages],
        got <- rcv_got
ImplementsBroadcastLog == BL!Spec

\* The bytes of the first n records of a log, for every n.
PrefixBytes(records) ==
    LET sum[n \in 0 .. Len(records)] ==
            IF n = 0 THEN 0 ELSE sum[n - 1] + Size[records[n].data]
    IN  sum

\* The ring respects both of its limits at every published state, and its byte
\* account is exactly the size of the messages it still holds: no message is
\* counted twice or forgotten by the two ways a message leaves the ring.
BoundedAndAccounted ==
    LET held == {p \in Positions : p >= snd_head}
    IN  /\ Cardinality(held) <= MaxMessages
        /\ bytes_total = PrefixBytes(log)[snd_tail - MaxMessages]
                           - PrefixBytes(log)[snd_head - 1 - MaxMessages]
        /\ snd_pc # "evict" => bytes_total < BytesMax \/ head = tail \/ log = <<>>

\* A receiver is told it lagged only after a message it had not read was
\* evicted (plugin-agave/src/channel.rs:568, "max_messages evicted unread messages").
LaggedOnlyIfEvicted ==
    \A r \in Receiver : rcv_pc[r] = "lagged" => rcv_head[r] < snd_head /\ log # <<>>

\* A receiver whose waker is registered is released by the next message: when
\* no push is running, a parked receiver has read everything published
\* (channel_bounds_tests.rs:214).
WakersReleasedByNextMessage ==
    snd_pc = "idle" => \A r \in wakers : rcv_head[r] > tail
=============================================================================
