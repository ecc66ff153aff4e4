------------------------ MODULE SharedChannelProofs ------------------------
(***************************************************************************)
(* For every capacity, byte limit, set of slots, set of messages and       *)
(* number of readers: the ring is type correct, bounded and accounted      *)
(* (BoundedAndAccounted), a memory replay is complete                      *)
(* (MemoryReplayComplete), the hand-off from a disk replay is exact        *)
(* (HandOffExact), and the ring with its readers implements the broadcast  *)
(* log, so that delivery is in order (DeliveredInOrder).                   *)
(*                                                                         *)
(* MemoryReplayComplete is not inductive: it says nothing about the slots  *)
(* that are not advertised, nor about a push in progress.  RingInv adds    *)
(* the three facts it rests on: the items of the buffer are exactly the    *)
(* records between the writer's head and tail, every evicted record has a  *)
(* slot at or below incomplete_through, and a slot above                   *)
(* incomplete_through that is not advertised has no record in this epoch.  *)
(***************************************************************************)
EXTENDS SharedChannel, RingLemmas

\* How the writer's counters relate to the log, and what the locals of a push are.
CountersInv ==
    /\ snd_tail = MaxMessages + Len(log)
    /\ snd_head >= MaxMessages + 1
    /\ snd_head <= snd_tail + 1
    /\ snd_tail - snd_head < MaxMessages
    /\ tail >= MaxMessages /\ tail <= snd_tail
    /\ epoch_start <= Len(log)
    /\ snd_pc = "evict" =>
         snd_slot \in Slot /\ snd_head <= snd_tail /\ At(snd_tail).slot = snd_slot
    /\ snd_pc # "evict" =>
         removed_max_slot = NoSlot /\ head = snd_head /\ tail = snd_tail

\* The items that hold data are the records from the writer's head to its tail.
BufferInv ==
    /\ \A i \in 0 .. MaxMessages - 1 : buffer[i].data # NoData =>
         /\ buffer[i].pos \in snd_head .. snd_tail
         /\ GetIdx(buffer[i].pos) = i
         /\ buffer[i].slot = At(buffer[i].pos).slot
         /\ buffer[i].data = At(buffer[i].pos).data
         /\ buffer[i].replay_index = At(buffer[i].pos).replay_index
    /\ \A p \in snd_head .. snd_tail :
         buffer[GetIdx(p)].data # NoData /\ buffer[GetIdx(p)].pos = p

\* Evicted records belong to slots the writer knows to be incomplete.
EvictedInv ==
    \A p \in Positions : p < snd_head =>
        At(p).slot <= incomplete_through \/ At(p).slot <= removed_max_slot

\* An advertised slot starts at its first record of the epoch.
AdvertisedInv ==
    \A s \in Slot : slots[s] # NoHead =>
        /\ s > incomplete_through
        /\ slots[s] \in Positions
        /\ \A p \in LivePositions : At(p).slot = s => p >= slots[s]

\* A slot that could be advertised and is not has no published record.
AbsentInv ==
    \A s \in Slot : slots[s] = NoHead /\ s > incomplete_through =>
        \A p \in LivePositions : At(p).slot = s => snd_pc = "evict" /\ p = snd_tail

\* Journal indexes grow along the log, stay below the next one, and those of
\* evicted records stay below replay_floor.
IndexInv ==
    Journaled =>
        /\ \A p \in Positions : At(p).replay_index < index /\ At(p).replay_index < U64Max
        /\ \A p, q \in Positions : p < q => At(p).replay_index < At(q).replay_index
        /\ \A p \in Positions : p < snd_head => At(p).replay_index < replay_floor

\* The byte account, and the limit it is kept under outside of a push.
AccountInv ==
    /\ bytes_total = PrefixBytes(log)[snd_tail - MaxMessages]
                       - PrefixBytes(log)[snd_head - 1 - MaxMessages]
    /\ snd_pc # "evict" => bytes_total < BytesMax \/ head = tail \/ log = <<>>

RingInv ==
    TypeOK /\ CountersInv /\ BufferInv /\ EvictedInv /\ AdvertisedInv /\ AbsentInv

-----------------------------------------------------------------------------
(* Ring positions and slots *)

\* Slots are numbers, and so are the slots of records.
LEMMA SlotIsNat == \A s \in Slot : s \in Nat /\ s \in Int
  BY ConstantsAssumption

\* SharedChannel::get_idx stays inside the buffer, separates the positions of
\* one lap and identifies positions a lap apart.
LEMMA GetIdxFacts ==
    /\ \A p \in Nat : GetIdx(p) \in 0 .. MaxMessages - 1
    /\ \A p, q \in Nat : p < q /\ q < p + MaxMessages => GetIdx(p) # GetIdx(q)
    /\ \A p \in Nat : p >= MaxMessages => GetIdx(p - MaxMessages) = GetIdx(p)
<1> USE ConstantsAssumption
<1>1. \A p \in Nat : GetIdx(p) \in 0 .. MaxMessages - 1
  BY DivMod, Zenon DEF GetIdx
<1>2. \A p, q \in Nat : p < q /\ q < p + MaxMessages => GetIdx(p) # GetIdx(q)
  BY ModDistinct, Zenon DEF GetIdx
<1>3. \A p \in Nat : p >= MaxMessages => GetIdx(p - MaxMessages) = GetIdx(p)
  BY ModLap, Zenon DEF GetIdx
<1> QED
  BY <1>1, <1>2, <1>3

-----------------------------------------------------------------------------
(* RingInv is an inductive invariant *)

\* A fresh ring satisfies the invariant.
LEMMA InitRingInv == Init => RingInv
<1> SUFFICES ASSUME Init PROVE RingInv
  OBVIOUS
<1> USE ConstantsAssumption
<1>1. TypeOK
  BY DEF Init, TypeOK, Item, NoSlot, NoHead
<1>2. CountersInv
  BY DEF Init, CountersInv
<1>3. BufferInv
  BY DEF Init, BufferInv
<1>4. EvictedInv /\ AdvertisedInv /\ AbsentInv
  BY DEF Init, EvictedInv, AdvertisedInv, AbsentInv, Positions, LivePositions
<1> QED
  BY <1>1, <1>2, <1>3, <1>4 DEF RingInv

\* A step that leaves the ring, the writer and the log alone keeps all but types.
LEMMA FrameRingInv ==
    ASSUME RingInv, TypeOK', UNCHANGED <<head, tail, buffer, slots>>,
           UNCHANGED sender, UNCHANGED local, UNCHANGED <<log, epoch_start>>
    PROVE  RingInv'
  BY DEF RingInv, CountersInv, BufferInv, EvictedInv, AdvertisedInv, AbsentInv,
         Positions, LivePositions, At, sender, local

\* The steps of a reader.
LEMMA ReaderRingInv ==
    ASSUME RingInv, NEW r \in Receiver, Reader(r)
    PROVE  RingInv'
<1> USE ConstantsAssumption DEF shared, sender, local, rcv
<1> TypeOK
  BY DEF RingInv
<1>1. CASE SubscribeLive(r)
  <2>1. TypeOK'
    BY <1>1 DEF TypeOK, SubscribeLive, StartAt
  <2> QED
    BY <1>1, <2>1, FrameRingInv DEF SubscribeLive, StartAt
<1>2. CASE \E s \in Slot : SubscribeFrom(r, s)
  <2>1. PICK s \in Slot : SubscribeFrom(r, s)
    BY <1>2
  <2>2. slots[s] \in Nat /\ StartAt(r, slots[s])
    BY <2>1 DEF TypeOK, SubscribeFrom
  <2>3. TypeOK'
    BY <2>2 DEF TypeOK, StartAt
  <2> QED
    BY <2>2, <2>3, FrameRingInv DEF StartAt
<1>3. CASE PollTail(r)
  <2>1. TypeOK'
    BY <1>3 DEF TypeOK, PollTail
  <2> QED
    BY <1>3, <2>1, FrameRingInv DEF PollTail
<1>4. CASE ReadItem(r)
  <2> DEFINE item == buffer[GetIdx(rcv_head[r])]
  <2>1. item.data \in Message \cup {NoData}
    BY GetIdxFacts DEF TypeOK, Item
  <2>2. rcv_got' \in [Receiver -> Seq(Message)]
    BY <1>4, <2>1 DEF TypeOK, ReadItem, Lagged
  <2>3. TypeOK'
    BY <1>4, <2>2 DEF TypeOK, ReadItem, Lagged
  <2> QED
    BY <1>4, <2>3, FrameRingInv DEF ReadItem, Lagged
<1>5. CASE Park(r)
  <2>1. TypeOK'
    BY <1>5 DEF TypeOK, Park
  <2> QED
    BY <1>5, <2>1, FrameRingInv DEF Park
<1> QED
  BY <1>1, <1>2, <1>3, <1>4, <1>5 DEF Reader

\* The item the next push overwrites.
Overwritten == buffer[GetIdx(snd_tail + 1)]

\* What a push finds at the item it overwrites: the oldest record of a full
\* ring, or nothing and then the ring has room.
LEMMA OverwrittenItem ==
    ASSUME RingInv
    PROVE  /\ Overwritten \in Item
           /\ Overwritten.data # NoData =>
                /\ Overwritten.pos = snd_head /\ snd_head + MaxMessages = snd_tail + 1
                /\ Overwritten.slot = At(snd_head).slot /\ Overwritten.data \in Message
                /\ Overwritten.data = At(snd_head).data
                /\ Overwritten.replay_index = At(snd_head).replay_index
                /\ snd_head \in Positions
           /\ Overwritten.data = NoData => snd_tail + 1 - snd_head < MaxMessages
<1> DEFINE i == GetIdx(snd_tail + 1)
           old == buffer[i]
<1> USE ConstantsAssumption
<1>1. /\ snd_tail \in Nat /\ snd_head \in Nat /\ log \in Seq(Record)
      /\ buffer \in [0 .. MaxMessages - 1 -> Item]
  BY DEF RingInv, TypeOK
<1>2. i \in 0 .. MaxMessages - 1 /\ old \in Item
  BY <1>1, GetIdxFacts
<1>3. /\ snd_head >= MaxMessages + 1 /\ snd_head <= snd_tail + 1
      /\ snd_tail - snd_head < MaxMessages
  BY DEF RingInv, CountersInv
<1>4. ASSUME old.data # NoData
      PROVE  /\ old.pos = snd_head /\ snd_head + MaxMessages = snd_tail + 1
             /\ old.slot = At(snd_head).slot /\ old.data \in Message
             /\ old.data = At(snd_head).data
             /\ old.replay_index = At(snd_head).replay_index
             /\ snd_head \in Positions
  <2>1. /\ old.pos \in snd_head .. snd_tail /\ GetIdx(old.pos) = i
        /\ old.slot = At(old.pos).slot /\ old.data = At(old.pos).data
        /\ old.replay_index = At(old.pos).replay_index
    BY <1>2, <1>4 DEF RingInv, BufferInv
  <2>2. old.pos \in Nat /\ old.data \in Message
    BY <1>2, <1>4 DEF Item
  <2>3. ~(snd_tail + 1 < old.pos + MaxMessages)
    <3>1. snd_tail + 1 \in Nat /\ old.pos < snd_tail + 1
      BY <1>1, <2>1, <2>2
    <3>2. GetIdx(old.pos) = GetIdx(snd_tail + 1)
      BY <2>1
    <3> HIDE DEF old
    <3> QED
      BY <2>2, <3>1, <3>2, GetIdxFacts
  <2>4. /\ old.pos = snd_head /\ snd_head + MaxMessages = snd_tail + 1
        /\ snd_head \in MaxMessages + 1 .. snd_tail
    <3>1. old.pos >= snd_head /\ old.pos <= snd_tail
      BY <2>1
    <3> HIDE DEF old
    <3> QED
      BY <1>1, <1>3, <2>2, <2>3, <3>1
  <2> QED
    BY <2>1, <2>2, <2>4, Zenon DEF Positions
<1>5. ASSUME old.data = NoData
      PROVE  snd_tail + 1 - snd_head < MaxMessages
  <2> SUFFICES ASSUME snd_tail + 1 - snd_head >= MaxMessages PROVE FALSE
    BY <1>1
  <2> DEFINE p == snd_tail + 1 - MaxMessages
  <2>1. p \in snd_head .. snd_tail
    BY <1>1, <1>3
  <2>2. GetIdx(p) = i
    BY <1>1, <1>3, GetIdxFacts
  <2>3. buffer[GetIdx(p)].data # NoData
    BY <2>1 DEF RingInv, BufferInv
  <2> QED
    BY <1>5, <2>2, <2>3
<1>6. Overwritten = old
  BY DEF Overwritten
<1> HIDE DEF old
<1> QED
  BY <1>2, <1>4, <1>5, <1>6

\* The writer's counters are numbers, and the records of the log are records.
LEMMA RingFacts ==
    ASSUME RingInv
    PROVE  /\ snd_tail \in Nat /\ snd_head \in Nat /\ Len(log) \in Nat
           /\ MaxMessages \in Nat /\ MaxMessages > 0
           /\ snd_tail = MaxMessages + Len(log)
           /\ snd_head >= MaxMessages + 1 /\ snd_head <= snd_tail + 1
           /\ snd_tail - snd_head < MaxMessages
           /\ \A p \in Positions : p \in Nat /\ p - MaxMessages \in 1 .. Len(log)
           /\ \A p \in Positions : At(p) \in Record /\ At(p).replay_index \in Nat
<1>1. /\ snd_tail \in Nat /\ snd_head \in Nat /\ Len(log) \in Nat
      /\ MaxMessages \in Nat /\ MaxMessages > 0
      /\ snd_tail = MaxMessages + Len(log)
      /\ snd_head >= MaxMessages + 1 /\ snd_head <= snd_tail + 1
      /\ snd_tail - snd_head < MaxMessages
  BY ConstantsAssumption DEF RingInv, TypeOK, CountersInv
<1>2. \A p \in Positions : p \in Nat /\ p - MaxMessages \in 1 .. Len(log)
  BY <1>1 DEF Positions
<1>3. \A p \in Positions : At(p) \in Record
  BY <1>2 DEF RingInv, TypeOK, At
<1>4. \A p \in Positions : At(p).replay_index \in Nat
  BY <1>3 DEF Record
<1> QED
  BY <1>1, <1>2, <1>3, <1>4

\* What a push does to the log: one more record, at the next position.
LEMMA PushedRecord ==
    ASSUME RingInv, NEW s \in Slot, NEW m \in Message, PushItem(s, m)
    PROVE  /\ NextReplayIndex \in Nat
           /\ Positions' = Positions \cup {snd_tail + 1}
           /\ log'[(snd_tail + 1) - MaxMessages] =
                [slot |-> s, data |-> m, replay_index |-> NextReplayIndex]
           /\ \A p \in Positions : log'[p - MaxMessages] = At(p)
<1> DEFINE rec == [slot |-> s, data |-> m, replay_index |-> NextReplayIndex]
<1>1. NextReplayIndex \in Nat
  BY ConstantsAssumption DEF NextReplayIndex, RingInv, TypeOK
<1>2. /\ log' = Append(log, rec) /\ snd_tail' = snd_tail + 1 /\ rec \in Record
      /\ log \in Seq(Record)
  BY <1>1 DEF PushItem, Record, RingInv, TypeOK
<1> HIDE DEF rec
<1>3. log'[Len(log) + 1] = rec /\ \A k \in 1 .. Len(log) : log'[k] = log[k]
  BY <1>2
<1>4. /\ snd_tail \in Int /\ MaxMessages + 1 \in Int /\ MaxMessages + 1 <= snd_tail + 1
      /\ (snd_tail + 1) - MaxMessages = Len(log) + 1
  BY RingFacts
<1>5. Positions' = Positions \cup {snd_tail + 1}
  BY <1>2, <1>4, IntervalGrows DEF Positions
<1>6. \A p \in Positions : log'[p - MaxMessages] = At(p)
  BY <1>3, RingFacts DEF At
<1> QED
  BY <1>1, <1>3, <1>4, <1>5, <1>6 DEF rec

\* PushItem keeps the invariant.
LEMMA PushItemRingInv ==
    ASSUME RingInv, NEW s \in Slot, NEW m \in Message, PushItem(s, m)
    PROVE  RingInv'
<1> DEFINE i == GetIdx(snd_tail + 1)
           old == buffer[i]
           evicts == old.data # NoData
           rec == [slot |-> s, data |-> m, replay_index |-> NextReplayIndex]
           NewAt(p) == log'[p - MaxMessages]
           new == [replay_index |-> NextReplayIndex, pos |-> snd_tail + 1,
                   slot |-> s, data |-> m]
<1> USE ConstantsAssumption
<1>1. TypeOK /\ CountersInv /\ BufferInv /\ EvictedInv /\ AdvertisedInv /\ AbsentInv
  BY DEF RingInv
<1>2. /\ i \in 0 .. MaxMessages - 1 /\ old \in Item
      /\ evicts => /\ old.pos = snd_head /\ snd_head + MaxMessages = snd_tail + 1
                   /\ old.slot = At(snd_head).slot /\ old.data \in Message
                   /\ snd_head \in Positions
      /\ ~evicts => snd_tail + 1 - snd_head < MaxMessages
  <2>1. snd_tail + 1 \in Nat
    BY <1>1 DEF TypeOK
  <2>2. i \in 0 .. MaxMessages - 1
    BY <2>1, GetIdxFacts, Zenon
  <2> QED
    BY <2>2, OverwrittenItem DEF Overwritten
<1>3. /\ snd_pc = "idle" /\ snd_pc' = "evict" /\ snd_slot' = s
      /\ snd_tail' = snd_tail + 1
      /\ snd_head' = IF evicts THEN snd_head + 1 ELSE snd_head
      /\ bytes_total' = bytes_total + Size[m] - (IF evicts THEN Size[old.data] ELSE 0)
      /\ removed_max_slot' = IF evicts THEN old.slot ELSE NoSlot
      /\ replay_floor' = IF evicts THEN FloorAfter(old) ELSE replay_floor
      /\ buffer' = [buffer EXCEPT ![i] = new]
      /\ log' = Append(log, rec)
      /\ index' = IF Journaled THEN index + 1 ELSE index
      /\ UNCHANGED <<head, tail, recovery_epoch, slots, wakers, incomplete_through,
                     rcv, epoch_start>>
  BY DEF PushItem
<1>4. NextReplayIndex \in Nat /\ rec \in Record /\ new \in Item
  BY <1>1 DEF NextReplayIndex, TypeOK, Record, Item
<1>5. /\ log' \in Seq(Record) /\ Len(log') = Len(log) + 1 /\ log'[Len(log) + 1] = rec
      /\ \A k \in 1 .. Len(log) : log'[k] = log[k]
  BY <1>1, <1>3, <1>4 DEF TypeOK
<1>6. /\ snd_tail \in Nat /\ snd_head \in Nat /\ snd_tail = MaxMessages + Len(log)
      /\ Len(log) \in Nat /\ snd_head >= MaxMessages + 1 /\ snd_head <= snd_tail + 1
      /\ epoch_start \in Nat /\ epoch_start <= Len(log) /\ removed_max_slot = NoSlot
      /\ snd_tail - snd_head < MaxMessages
  BY <1>1, <1>3 DEF TypeOK, CountersInv
<1> HIDE DEF i, old, rec, new, evicts
<1>61. /\ snd_head' \in Nat /\ snd_head' >= MaxMessages + 1 /\ snd_head' <= snd_tail + 1
       /\ snd_tail + 1 - snd_head' < MaxMessages
       /\ snd_head' = snd_head \/ (evicts /\ snd_head' = snd_head + 1)
       /\ evicts => snd_head' = snd_head + 1
       /\ snd_tail' = snd_tail + 1 /\ snd_tail' \in Nat /\ snd_head <= snd_head'
  <2>1. CASE evicts
    BY <1>2, <1>3, <1>6, <2>1
  <2>2. CASE ~evicts
    BY <1>2, <1>3, <1>6, <2>2
  <2> QED
    BY <2>1, <2>2
<1>62. epoch_start' = epoch_start /\ incomplete_through' = incomplete_through /\ slots' = slots
  BY <1>3
<1>63. /\ MaxMessages \in Int /\ snd_tail \in Int /\ epoch_start \in Int
       /\ MaxMessages + 1 <= snd_tail + 1
       /\ (MaxMessages + epoch_start) + 1 <= snd_tail + 1
       /\ MaxMessages + 1 \in Int /\ MaxMessages + epoch_start + 1 \in Int
  BY <1>6
<1>7. /\ NewAt(snd_tail + 1) = rec
      /\ \A p \in Positions : NewAt(p) = At(p)
      /\ \A p \in Positions : At(p) \in Record
      /\ Positions' = Positions \cup {snd_tail + 1}
      /\ LivePositions' = LivePositions \cup {snd_tail + 1}
      /\ LivePositions \subseteq Positions
  <2>1. /\ Positions' = Positions \cup {snd_tail + 1}
        /\ LivePositions' = LivePositions \cup {snd_tail + 1}
        /\ LivePositions \subseteq Positions
    <3>1. MaxMessages \in Nat /\ snd_tail + 1 >= MaxMessages + epoch_start + 1
      BY <1>6
    <3>2. Positions' = MaxMessages + 1 .. (snd_tail + 1)
      BY <1>61 DEF Positions
    <3>3. Positions' = Positions \cup {snd_tail + 1}
      BY <1>63, <3>2, IntervalGrows, Zenon DEF Positions
    <3>5. LivePositions' = MaxMessages + epoch_start + 1 .. (snd_tail + 1)
      BY <1>61, <1>62 DEF LivePositions
    <3>6. LivePositions' = LivePositions \cup {snd_tail + 1}
      BY <1>63, <3>5, IntervalGrows, Zenon DEF LivePositions
    <3>4. LivePositions \subseteq Positions
      BY <1>6, <3>1 DEF Positions, LivePositions
    <3> QED
      BY <3>3, <3>4, <3>6
  <2>2. NewAt(snd_tail + 1) = rec
    <3>1. (snd_tail + 1) - MaxMessages = Len(log) + 1
      BY <1>6
    <3> QED
      BY <1>5, <3>1
  <2>3. ASSUME NEW p \in Positions PROVE NewAt(p) = At(p) /\ At(p) \in Record
    <3>1. p - MaxMessages \in 1 .. Len(log)
      BY <1>6 DEF Positions
    <3> QED
      BY <1>1, <1>5, <3>1 DEF At, TypeOK
  <2> QED
    BY <2>1, <2>2, <2>3
<1>8. evicts => old.slot \in Slot
  BY <1>2, <1>7 DEF Record, evicts
<1>9. TypeOK'
  <2>1. bytes_total' \in Int
    BY <1>1, <1>2, <1>3 DEF TypeOK
  <2>2. removed_max_slot' \in Slot \cup {NoSlot}
    BY <1>3, <1>8
  <2>3. replay_floor' \in Nat
    <3>1. replay_floor \in Nat /\ old.replay_index \in Nat
      BY <1>1, <1>2 DEF TypeOK, Item
    <3>2. FloorAfter(old) \in Nat
      BY <3>1 DEF FloorAfter
    <3> QED
      BY <1>3, <3>1, <3>2
  <2>4. buffer' \in [0 .. MaxMessages - 1 -> Item]
    BY <1>1, <1>2, <1>3, <1>4 DEF TypeOK
  <2>5. snd_tail' \in Nat /\ snd_head' \in Nat /\ index' \in Nat
    BY <1>1, <1>3 DEF TypeOK
  <2> QED
    BY <1>1, <1>3, <1>5, <2>1, <2>2, <2>3, <2>4, <2>5 DEF TypeOK, rcv
<1>10. CountersInv'
  <2>1. /\ snd_tail' - snd_head' < MaxMessages
        /\ snd_head' <= snd_tail' /\ snd_head' >= MaxMessages + 1
    BY <1>6, <1>61
  <2>2. At(snd_tail)' = rec
    BY <1>3, <1>7 DEF At
  <2>3. tail' >= MaxMessages /\ tail' <= snd_tail'
    BY <1>1, <1>3, <1>6 DEF TypeOK, CountersInv
  <2> QED
    BY <1>3, <1>5, <1>6, <2>1, <2>2, <2>3 DEF CountersInv, rec
<1>11. BufferInv'
  <2>1. ASSUME NEW j \in 0 .. MaxMessages - 1, buffer'[j].data # NoData
        PROVE  /\ buffer'[j].pos \in snd_head' .. snd_tail'
               /\ GetIdx(buffer'[j].pos) = j
               /\ buffer'[j].slot = NewAt(buffer'[j].pos).slot
               /\ buffer'[j].data = NewAt(buffer'[j].pos).data
               /\ buffer'[j].replay_index = NewAt(buffer'[j].pos).replay_index
    <3>1. CASE j = i
      <4>1. buffer'[j] = new
        BY <1>1, <1>2, <1>3, <3>1 DEF TypeOK
      <4>2. GetIdx(buffer'[j].pos) = j
        BY <4>1, <3>1 DEF new, i
      <4>3. snd_tail + 1 \in snd_head' .. snd_tail'
        BY <1>6, <1>61
      <4> QED
        BY <1>7, <4>1, <4>2, <4>3 DEF new, rec
    <3>2. CASE j # i
      <4>1. buffer'[j] = buffer[j]
        BY <1>1, <1>2, <1>3, <3>2 DEF TypeOK
      <4>2. /\ buffer[j].pos \in snd_head .. snd_tail /\ GetIdx(buffer[j].pos) = j
            /\ buffer[j].slot = At(buffer[j].pos).slot
            /\ buffer[j].data = At(buffer[j].pos).data
            /\ buffer[j].replay_index = At(buffer[j].pos).replay_index
        BY <1>1, <2>1, <4>1 DEF BufferInv
      <4>3. buffer[j].pos \in Positions
        BY <1>6, <4>2 DEF Positions
      <4>4. evicts => buffer[j].pos # snd_head
        <5> SUFFICES ASSUME evicts, buffer[j].pos = snd_head PROVE FALSE
          OBVIOUS
        <5>1. GetIdx(old.pos) = i
          BY <1>1, <1>2 DEF BufferInv, old, evicts
        <5> QED
          BY <1>2, <3>2, <4>2, <5>1
      <4>5. buffer[j].pos \in snd_head' .. snd_tail'
        <5> DEFINE q == buffer[j].pos
        <5>1. q \in snd_head .. snd_tail /\ (evicts => q # snd_head)
          BY <4>2, <4>4
        <5> HIDE DEF q
        <5>2. snd_head \in Int /\ snd_tail \in Int /\ snd_head' \in Int /\ snd_tail' \in Int
          BY <1>6, <1>61
        <5>3. snd_head' = snd_head \/ (q # snd_head /\ snd_head' = snd_head + 1)
          BY <1>61, <5>1, Zenon
        <5>4. snd_tail' = snd_tail + 1
          BY <1>61
        <5>5. q \in Int /\ q >= snd_head /\ q <= snd_tail
          BY <5>1, <5>2
        <5>6. q \in snd_head' .. snd_tail'
          BY <5>2, <5>3, <5>4, <5>5
        <5> QED
          BY <5>6 DEF q
      <4> QED
        BY <1>7, <4>1, <4>2, <4>3, <4>5
    <3> QED
      BY <3>1, <3>2
  <2>2. ASSUME NEW p \in snd_head' .. snd_tail'
        PROVE  buffer'[GetIdx(p)].data # NoData /\ buffer'[GetIdx(p)].pos = p
    <3>1. p \in Nat /\ GetIdx(p) \in 0 .. MaxMessages - 1
      <4>1. p \in Nat
        BY <1>6, <1>61
      <4> QED
        BY <4>1, GetIdxFacts, Zenon
    <3>2. CASE p = snd_tail + 1
      <4>1. buffer'[GetIdx(p)] = new
        BY <1>1, <1>2, <1>3, <3>2 DEF TypeOK, i
      <4> QED
        BY <3>2, <4>1 DEF new
    <3>3. CASE p # snd_tail + 1
      <4>1. p \in snd_head .. snd_tail /\ p < snd_tail + 1 /\ snd_tail + 1 < p + MaxMessages
        <5> HIDE ConstantsAssumption
        <5>1. /\ snd_head \in Int /\ snd_tail \in Int /\ MaxMessages \in Int
              /\ snd_head' \in Int /\ snd_head <= snd_head'
              /\ snd_tail + 1 - snd_head' < MaxMessages /\ snd_tail' = snd_tail + 1
          BY <1>6, <1>61, <1>63
        <5>2. p \in Int /\ p >= snd_head' /\ p <= snd_tail + 1
          BY <5>1
        <5>3. p >= snd_head /\ p <= snd_tail
          BY <3>3, <5>1, <5>2
        <5>4. snd_tail + 1 < p + MaxMessages
          BY <5>1, <5>2, LapGap, Zenon
        <5> QED
          BY <5>1, <5>2, <5>3, <5>4
      <4>2. GetIdx(p) # i
        BY <1>6, <3>1, <4>1, GetIdxFacts DEF i
      <4>3. buffer'[GetIdx(p)] = buffer[GetIdx(p)]
        BY <1>1, <1>2, <1>3, <3>1, <4>2 DEF TypeOK
      <4> QED
        BY <1>1, <4>1, <4>3 DEF BufferInv
    <3> QED
      BY <3>2, <3>3
  <2> QED
    BY <2>1, <2>2 DEF BufferInv, GetIdx, At
<1>12. EvictedInv'
  <2> SUFFICES ASSUME NEW p \in Positions', p < snd_head'
               PROVE  \/ NewAt(p).slot <= incomplete_through'
                      \/ NewAt(p).slot <= removed_max_slot'
    BY DEF EvictedInv, At
  <2>1. p \in Positions
    BY <1>6, <1>61 DEF Positions
  <2>2. NewAt(p) = At(p) /\ At(p).slot \in Nat
    BY <1>7, <2>1 DEF Record
  <2>3. CASE p < snd_head
    <3>1. At(p).slot <= incomplete_through \/ At(p).slot <= removed_max_slot
      BY <1>1, <2>1, <2>3 DEF EvictedInv
    <3>2. ~(At(p).slot <= removed_max_slot)
      BY <1>6, <2>2 DEF NoSlot
    <3> QED
      BY <1>3, <2>2, <3>1, <3>2
  <2>4. CASE ~(p < snd_head)
    <3>1. evicts /\ p = snd_head
      BY <1>6, <1>61, <2>1, <2>4 DEF Positions
    <3> QED
      BY <1>2, <1>3, <2>2, <3>1
  <2> QED
    BY <2>3, <2>4
<1>13. AdvertisedInv'
  <2> SUFFICES ASSUME NEW t \in Slot, slots[t] # NoHead
               PROVE  /\ t > incomplete_through
                      /\ slots[t] \in Positions'
                      /\ \A p \in LivePositions' : NewAt(p).slot = t => p >= slots[t]
    BY <1>3 DEF AdvertisedInv, At
  <2>0. /\ t > incomplete_through /\ slots[t] \in Positions /\ slots[t] \in Nat
        /\ \A p \in LivePositions : At(p).slot = t => p >= slots[t]
    BY <1>1 DEF AdvertisedInv, TypeOK
  <2>1. /\ t > incomplete_through /\ slots[t] <= snd_tail /\ slots[t] \in Nat
        /\ \A p \in LivePositions : At(p).slot = t => p >= slots[t]
    BY <1>6, <2>0 DEF Positions
  <2>2. ASSUME NEW p \in LivePositions', NewAt(p).slot = t PROVE p >= slots[t]
    <3>1. CASE p = snd_tail + 1
      BY <1>6, <2>1, <3>1
    <3>2. CASE p \in LivePositions
      <4>1. NewAt(p) = At(p)
        BY <1>7, <3>2
      <4> QED
        BY <2>1, <2>2, <3>2, <4>1, Zenon
    <3> QED
      BY <1>7, <3>1, <3>2, Zenon
  <2> QED
    BY <1>7, <2>0, <2>2
<1>14. AbsentInv'
  <2> SUFFICES ASSUME NEW t \in Slot, slots[t] = NoHead, t > incomplete_through,
                      NEW p \in LivePositions', NewAt(p).slot = t
               PROVE  p = snd_tail + 1
    BY <1>3 DEF AbsentInv, At
  <2> SUFFICES ASSUME p \in LivePositions PROVE FALSE
    BY <1>7
  <2> QED
    BY <1>1, <1>3, <1>7 DEF AbsentInv
<1> QED
  BY <1>9, <1>10, <1>11, <1>12, <1>13, <1>14 DEF RingInv

\* EvictByBytes keeps the invariant.
LEMMA EvictByBytesRingInv ==
    ASSUME RingInv, EvictByBytes
    PROVE  RingInv'
<1> DEFINE i == GetIdx(snd_head)
           old == buffer[i]
<1>1. TypeOK /\ CountersInv /\ BufferInv /\ EvictedInv /\ AdvertisedInv /\ AbsentInv
  BY DEF RingInv
<1>2. MaxMessages \in Nat /\ MaxMessages > 0 /\ Slot \subseteq Nat
  BY ConstantsAssumption
<1>3. /\ snd_pc = "evict" /\ snd_head < snd_tail
      /\ snd_head' = snd_head + 1
      /\ bytes_total' = bytes_total - Size[old.data]
      /\ buffer' = [buffer EXCEPT ![i].data = NoData]
      /\ replay_floor' = FloorAfter(old)
      /\ removed_max_slot' = Larger(removed_max_slot, old.slot)
      /\ UNCHANGED <<head, tail, recovery_epoch, slots, wakers, snd_tail,
                     incomplete_through, snd_pc, snd_slot, index, rcv, log,
                     epoch_start>>
  BY DEF EvictByBytes, OverBytes
<1>4. /\ snd_tail \in Nat /\ snd_head \in Nat /\ snd_tail = MaxMessages + Len(log)
      /\ snd_head >= MaxMessages + 1 /\ snd_head <= snd_tail
      /\ snd_tail - snd_head < MaxMessages
      /\ snd_slot \in Slot /\ At(snd_tail).slot = snd_slot
      /\ Len(log) \in Nat
  BY <1>1, <1>3 DEF TypeOK, CountersInv
<1>5. i \in 0 .. MaxMessages - 1
  BY <1>4, GetIdxFacts
<1>6. /\ old \in Item /\ old.data # NoData /\ old.pos = snd_head
      /\ old.slot = At(snd_head).slot
  <2>1. snd_head \in snd_head .. snd_tail
    BY <1>4
  <2> QED
    BY <1>1, <1>5, <2>1 DEF TypeOK, BufferInv
<1>7. /\ snd_head \in Positions /\ snd_head - MaxMessages \in 1 .. Len(log)
      /\ \A p \in Positions : At(p) \in Record
  <2>1. \A p \in Positions : p - MaxMessages \in 1 .. Len(log)
    BY <1>2, <1>4 DEF Positions
  <2>2. snd_head \in Positions
    BY <1>2, <1>4 DEF Positions
  <2> QED
    BY <1>1, <2>1, <2>2 DEF At, TypeOK
<1>8. old.slot \in Slot /\ old.data \in Message /\ old.replay_index \in Nat
  BY <1>6, <1>7 DEF Record, Item
<1> HIDE DEF i, old
<1>9. /\ removed_max_slot' \in Slot \cup {NoSlot}
      /\ removed_max_slot' >= removed_max_slot /\ removed_max_slot' >= old.slot
      /\ removed_max_slot' \in Int /\ removed_max_slot \in Int
  <2>1. removed_max_slot \in Slot \cup {NoSlot} /\ removed_max_slot \in Int
    BY <1>1, <1>2 DEF TypeOK, NoSlot
  <2>2. old.slot \in Int
    BY <1>8, SlotIsNat, Zenon
  <2>3. removed_max_slot' = IF removed_max_slot >= old.slot THEN removed_max_slot ELSE old.slot
    BY <1>3 DEF Larger
  <2>4. CASE removed_max_slot >= old.slot
    BY <2>1, <2>2, <2>3, <2>4
  <2>5. CASE ~(removed_max_slot >= old.slot)
    BY <1>8, <2>1, <2>2, <2>3, <2>5
  <2> QED
    BY <2>4, <2>5
<1>10. TypeOK'
  <2>1. bytes_total' \in Int
    <3>1. Size[old.data] \in Nat
      BY <1>8, ConstantsAssumption
    <3> QED
      BY <1>1, <1>3, <3>1 DEF TypeOK
  <2>2. replay_floor' \in Nat
    BY <1>1, <1>3, <1>8 DEF TypeOK, FloorAfter
  <2>3. buffer' \in [0 .. MaxMessages - 1 -> Item]
    BY <1>1, <1>3, <1>5 DEF TypeOK, Item
  <2>4. snd_head' \in Nat
    BY <1>3, <1>4
  <2> QED
    BY <1>1, <1>3, <1>9, <2>1, <2>2, <2>3, <2>4 DEF TypeOK, rcv
<1>11. CountersInv'
  <2>1. /\ snd_head' >= MaxMessages + 1 /\ snd_head' <= snd_tail
        /\ snd_tail - snd_head' < MaxMessages
    BY <1>2, <1>3, <1>4
  <2> QED
    BY <1>1, <1>3, <1>4, <2>1 DEF CountersInv, At
<1>12. BufferInv'
  <2>1. ASSUME NEW j \in 0 .. MaxMessages - 1, buffer'[j].data # NoData
        PROVE  /\ buffer'[j].pos \in snd_head' .. snd_tail'
               /\ GetIdx(buffer'[j].pos) = j
               /\ buffer'[j].slot = At(buffer'[j].pos).slot
               /\ buffer'[j].data = At(buffer'[j].pos).data
               /\ buffer'[j].replay_index = At(buffer'[j].pos).replay_index
    <3>1. j # i
      BY <1>1, <1>3, <1>5, <2>1 DEF TypeOK, Item
    <3>2. buffer'[j] = buffer[j]
      BY <1>1, <1>3, <1>5, <3>1 DEF TypeOK
    <3>3. /\ buffer[j].pos \in snd_head .. snd_tail /\ GetIdx(buffer[j].pos) = j
          /\ buffer[j].slot = At(buffer[j].pos).slot
          /\ buffer[j].data = At(buffer[j].pos).data
          /\ buffer[j].replay_index = At(buffer[j].pos).replay_index
      BY <1>1, <2>1, <3>2 DEF BufferInv
    <3>4. buffer[j].pos # snd_head
      BY <3>1, <3>3 DEF i
    <3>5. buffer[j].pos \in snd_head' .. snd_tail'
      BY <1>3, <1>4, <3>3, <3>4
    <3> QED
      BY <3>2, <3>3, <3>5
  <2>2. ASSUME NEW p \in snd_head' .. snd_tail'
        PROVE  buffer'[GetIdx(p)].data # NoData /\ buffer'[GetIdx(p)].pos = p
    <3>1. /\ p \in Nat /\ p \in snd_head .. snd_tail
          /\ snd_head < p /\ p < snd_head + MaxMessages
      BY <1>2, <1>3, <1>4
    <3>2. GetIdx(p) # i /\ GetIdx(p) \in 0 .. MaxMessages - 1
      BY <1>4, <3>1, GetIdxFacts DEF i
    <3>3. buffer'[GetIdx(p)] = buffer[GetIdx(p)]
      BY <1>1, <1>3, <1>5, <3>2 DEF TypeOK
    <3> QED
      BY <1>1, <3>1, <3>3 DEF BufferInv
  <2> QED
    BY <1>3, <2>1, <2>2 DEF BufferInv, GetIdx, At
<1>13. EvictedInv'
  <2> SUFFICES ASSUME NEW p \in Positions, p < snd_head + 1
               PROVE  At(p).slot <= incomplete_through \/ At(p).slot <= removed_max_slot'
    BY <1>3 DEF EvictedInv, Positions, At
  <2>1. At(p).slot \in Nat
    BY <1>2, <1>7 DEF Record
  <2>2. CASE p < snd_head
    BY <1>1, <1>9, <2>1, <2>2 DEF EvictedInv
  <2>3. CASE p = snd_head
    BY <1>6, <1>9, <2>3
  <2> QED
    BY <1>2, <1>4, <2>2, <2>3 DEF Positions
<1>14. AdvertisedInv' /\ AbsentInv'
  BY <1>1, <1>3 DEF AdvertisedInv, AbsentInv, Positions, LivePositions, At
<1> QED
  BY <1>10, <1>11, <1>12, <1>13, <1>14 DEF RingInv

\* Publish keeps the invariant: a slot that lost a message is no longer
\* advertised, and the slot of the message is advertised from its first record.
LEMMA PublishRingInv ==
    ASSUME RingInv, Publish
    PROVE  RingInv'
<1> DEFINE upto == Larger(incomplete_through, removed_max_slot)
<1>1. TypeOK /\ CountersInv /\ BufferInv /\ EvictedInv /\ AdvertisedInv /\ AbsentInv
  BY DEF RingInv
<1>2. MaxMessages \in Nat /\ MaxMessages > 0 /\ Slot \subseteq Nat
  BY ConstantsAssumption
<1>3. /\ snd_pc = "evict" /\ snd_pc' = "wake"
      /\ head' = snd_head /\ tail' = snd_tail
      /\ incomplete_through' = upto
      /\ slots' = [t \in Slot |-> IF removed_max_slot # NoSlot /\ t <= upto
                                 THEN NoHead ELSE SlotsWithCurrent[t]]
      /\ snd_slot' = NoSlot /\ removed_max_slot' = NoSlot
      /\ UNCHANGED <<replay_floor, recovery_epoch, buffer, wakers, snd_head,
                     snd_tail, bytes_total, index, rcv, log, epoch_start>>
  BY DEF Publish
<1>4. /\ snd_tail \in Nat /\ snd_head \in Nat /\ snd_tail = MaxMessages + Len(log)
      /\ snd_head >= MaxMessages + 1 /\ snd_head <= snd_tail
      /\ snd_slot \in Slot /\ At(snd_tail).slot = snd_slot
      /\ epoch_start \in Nat /\ Len(log) \in Nat
  BY <1>1, <1>3 DEF TypeOK, CountersInv
<1>5. /\ upto \in Slot \cup {NoSlot} /\ upto \in Int
      /\ incomplete_through \in Int /\ removed_max_slot \in Int
      /\ upto >= incomplete_through /\ upto >= removed_max_slot
  BY <1>1, <1>2 DEF TypeOK, Larger, NoSlot
<1>6. /\ \A p \in Positions : At(p) \in Record
      /\ LivePositions \subseteq Positions
  <2>1. \A p \in Positions : p - MaxMessages \in 1 .. Len(log)
    BY <1>2, <1>4 DEF Positions
  <2>2. LivePositions \subseteq Positions
    BY <1>2, <1>4 DEF Positions, LivePositions
  <2> QED
    BY <1>1, <2>1, <2>2 DEF At, TypeOK
<1> HIDE DEF upto
<1>7. \A t \in Slot :
        SlotsWithCurrent[t] = IF t = snd_slot /\ t > incomplete_through /\ slots[t] = NoHead
                              THEN snd_tail ELSE slots[t]
  BY <1>1, <1>4 DEF SlotsWithCurrent, TypeOK
<1>15. slots' = [t \in Slot |-> IF t <= upto THEN NoHead ELSE SlotsWithCurrent[t]]
  <2>1. CASE removed_max_slot # NoSlot
    BY <1>3, <2>1
  <2>2. CASE removed_max_slot = NoSlot
    <3>1. upto = incomplete_through
      BY <1>1, <1>2, <2>2 DEF upto, Larger, NoSlot, TypeOK
    <3>2. \A t \in Slot : t <= upto => SlotsWithCurrent[t] = NoHead
      BY <1>1, <1>2, <1>5, <1>7, <3>1 DEF AdvertisedInv
    <3> QED
      BY <1>3, <2>2, <3>2
  <2> QED
    BY <2>1, <2>2
<1>8. TypeOK'
  <2>1. slots' \in [Slot -> Nat]
    BY <1>1, <1>4, <1>7, <1>15 DEF TypeOK, NoHead
  <2> QED
    BY <1>1, <1>3, <1>4, <1>5, <2>1 DEF TypeOK, rcv
<1>9. CountersInv'
  BY <1>1, <1>2, <1>3, <1>4 DEF CountersInv
<1>10. BufferInv'
  BY <1>1, <1>3 DEF BufferInv, GetIdx, At
<1>11. EvictedInv'
  <2> SUFFICES ASSUME NEW p \in Positions, p < snd_head
               PROVE  At(p).slot <= upto
    BY <1>3 DEF EvictedInv, Positions, At
  <2>1. At(p).slot \in Nat
    BY <1>2, <1>6 DEF Record
  <2>2. At(p).slot <= incomplete_through \/ At(p).slot <= removed_max_slot
    BY <1>1 DEF EvictedInv
  <2> QED
    BY <1>5, <2>1, <2>2
<1>12. AdvertisedInv'
  <2> SUFFICES ASSUME NEW t \in Slot, slots'[t] # NoHead
               PROVE  /\ t > upto /\ slots'[t] \in Positions
                      /\ \A p \in LivePositions : At(p).slot = t => p >= slots'[t]
    BY <1>3 DEF AdvertisedInv, Positions, LivePositions, At
  <2>1. t \in Nat /\ t > upto /\ t > incomplete_through /\ slots'[t] = SlotsWithCurrent[t]
    BY <1>2, <1>5, <1>15
  <2>2. CASE slots[t] = NoHead
    <3>1. t = snd_slot /\ slots'[t] = snd_tail
      BY <1>7, <2>1, <2>2
    <3>2. \A p \in LivePositions : At(p).slot = t => p = snd_tail
      BY <1>1, <2>1, <2>2 DEF AbsentInv
    <3>3. snd_tail \in Positions
      BY <1>2, <1>4 DEF Positions
    <3> QED
      BY <1>4, <2>1, <3>1, <3>2, <3>3
  <2>3. CASE slots[t] # NoHead
    <3>1. slots'[t] = slots[t]
      BY <1>7, <2>1, <2>3
    <3> QED
      BY <1>1, <2>1, <2>3, <3>1 DEF AdvertisedInv
  <2> QED
    BY <2>2, <2>3
<1>13. AbsentInv'
  <2> SUFFICES ASSUME NEW t \in Slot, slots'[t] = NoHead, t > upto,
                      NEW p \in LivePositions, At(p).slot = t
               PROVE  FALSE
    BY <1>3 DEF AbsentInv, LivePositions, At
  <2>1. t \in Nat /\ t > incomplete_through /\ slots'[t] = SlotsWithCurrent[t]
    BY <1>2, <1>5, <1>15
  <2>2. slots[t] = NoHead /\ t # snd_slot
    BY <1>2, <1>4, <1>7, <2>1 DEF NoHead
  <2>3. p = snd_tail
    BY <1>1, <2>1, <2>2 DEF AbsentInv
  <2> QED
    BY <1>4, <2>2, <2>3
<1> QED
  BY <1>8, <1>9, <1>10, <1>11, <1>12, <1>13 DEF RingInv

\* The writer's other steps.
LEMMA WriterRingInv ==
    ASSUME RingInv, WakeReceivers \/ JournalOtherRing \/ BeginLiveEpoch
    PROVE  RingInv'
<1> USE DEF shared, sender, local, rcv
<1>1. TypeOK /\ CountersInv
  BY DEF RingInv
<1>2. CASE WakeReceivers
  <2>1. /\ UNCHANGED <<head, tail, buffer, slots>> /\ UNCHANGED sender
        /\ UNCHANGED <<snd_slot, removed_max_slot, log, epoch_start>>
        /\ snd_pc = "wake" /\ snd_pc' = "idle"
    BY <1>2 DEF WakeReceivers
  <2>2. TypeOK'
    BY <1>1, <1>2 DEF WakeReceivers, TypeOK
  <2> QED
    BY <2>1, <2>2 DEF RingInv, CountersInv, BufferInv, EvictedInv, AdvertisedInv,
                      AbsentInv, Positions, LivePositions, At
<1>3. CASE JournalOtherRing
  <2>1. TypeOK'
    BY <1>1, <1>3 DEF JournalOtherRing, TypeOK
  <2> QED
    BY <1>3, <2>1, FrameRingInv DEF JournalOtherRing
<1>4. CASE BeginLiveEpoch
  <2>1. /\ UNCHANGED <<head, tail, buffer, log>> /\ UNCHANGED sender /\ UNCHANGED local
        /\ slots' = [s \in Slot |-> NoHead] /\ epoch_start' = Len(log)
        /\ snd_pc = "idle"
    BY <1>4 DEF BeginLiveEpoch
  <2>2. TypeOK'
    BY <1>1, <1>4 DEF BeginLiveEpoch, TypeOK, NoHead
  <2>3. Len(log) \in Nat /\ MaxMessages \in Nat /\ snd_tail = MaxMessages + Len(log)
    BY <1>1, ConstantsAssumption DEF TypeOK, CountersInv
  <2>4. CountersInv' /\ BufferInv' /\ EvictedInv'
    BY <2>1, <2>3 DEF RingInv, CountersInv, BufferInv, EvictedInv, Positions, At
  <2>5. LivePositions' = {}
    BY <2>1, <2>3 DEF LivePositions
  <2>6. AdvertisedInv'
    BY <2>1 DEF AdvertisedInv
  <2>7. AbsentInv'
    BY <2>5 DEF AbsentInv
  <2> QED
    BY <2>2, <2>4, <2>6, <2>7 DEF RingInv
<1> QED
  BY <1>2, <1>3, <1>4

\* Every step of the ring, its writer and its readers keeps the invariant.
LEMMA NextRingInv == RingInv /\ [Next]_vars => RingInv'
<1> SUFFICES ASSUME RingInv, [Next]_vars PROVE RingInv'
  OBVIOUS
<1>1. CASE \E s \in Slot, m \in Message : PushItem(s, m)
  BY <1>1, PushItemRingInv
<1>2. CASE EvictByBytes
  BY <1>2, EvictByBytesRingInv
<1>3. CASE Publish
  BY <1>3, PublishRingInv
<1>4. CASE WakeReceivers \/ JournalOtherRing \/ BeginLiveEpoch
  BY <1>4, WriterRingInv
<1>5. CASE \E r \in Receiver : Reader(r)
  BY <1>5, ReaderRingInv
<1>6. CASE UNCHANGED vars
  <2>1. TypeOK'
    BY <1>6 DEF RingInv, TypeOK, vars, shared, sender, local, rcv
  <2> QED
    BY <1>6, <2>1, FrameRingInv DEF vars, shared, sender, local, rcv
<1> QED
  BY <1>1, <1>2, <1>3, <1>4, <1>5, <1>6 DEF Next, Writer

\* The invariant holds in every reachable state.
LEMMA RingInvariant == Spec => []RingInv
<1>1. Init => RingInv
  BY InitRingInv
<1>2. RingInv /\ [Next]_vars => RingInv'
  BY NextRingInv
<1> QED
  BY <1>1, <1>2, PTL DEF Spec

\* Type correctness of the ring: the slot recorded as incomplete is always a
\* slot some message carried, a cursor is always a position, and the byte
\* account never reads the size of an item without data.
THEOREM TypeCorrect == Spec => []TypeOK
<1>1. RingInv => TypeOK
  BY DEF RingInv
<1> QED
  BY <1>1, RingInvariant, PTL

-----------------------------------------------------------------------------
(* Memory replay *)

\* What the invariant says about the cursor of a from_slot request.
LEMMA CursorComplete == RingInv => MemoryReplayComplete
<1> SUFFICES ASSUME RingInv, SlotsUnlocked, NEW s \in Slot, MemoryCursor(s) # NoHead,
                    NEW p \in LivePositions, At(p).slot >= s
             PROVE  p >= MemoryCursor(s) /\ p >= head
  BY DEF MemoryReplayComplete
<1> DEFINE from == {t \in Advertised : t >= s}
           u == At(p).slot
<1>1. TypeOK /\ CountersInv /\ EvictedInv /\ AdvertisedInv /\ AbsentInv
  BY DEF RingInv
<1>2. MaxMessages \in Nat /\ Slot \subseteq Nat
  BY ConstantsAssumption
<1>3. /\ head = snd_head /\ tail = snd_tail /\ removed_max_slot = NoSlot
      /\ snd_tail = MaxMessages + Len(log) /\ snd_tail \in Nat /\ snd_head \in Nat
      /\ Len(log) \in Nat /\ epoch_start \in Nat /\ incomplete_through \in Int
  BY <1>1, <1>2 DEF SlotsUnlocked, CountersInv, TypeOK, NoSlot
<1>4. p \in Nat /\ p \in Positions /\ p - MaxMessages \in 1 .. Len(log) /\ p <= snd_tail
  BY <1>2, <1>3 DEF LivePositions, Positions
<1>5. u \in Slot /\ u \in Nat
  <2>1. log[p - MaxMessages] \in Record
    BY <1>1, <1>4 DEF TypeOK
  <2>2. u \in Slot
    BY <2>1 DEF At, Record
  <2> QED
    BY <2>2, SlotIsNat, Zenon
<1>6. PICK f \in Advertised : TRUE
  BY DEF MemoryCursor
<1>7. \A t \in Advertised : t \in Slot /\ t > incomplete_through
  BY <1>1 DEF Advertised, AdvertisedInv
<1> HIDE DEF u
<1>8. u > incomplete_through
  <2>1. CASE from = {}
    <3>1. f \in Slot /\ f \in Int /\ s \in Int /\ f > incomplete_through
      BY <1>6, <1>7, SlotIsNat
    <3>2. f < s
      BY <1>6, <2>1, <3>1
    <3> QED
      BY <1>3, <1>5, <3>1, <3>2 DEF u
  <2>2. CASE from # {}
    <3>1. PICK t \in Advertised : t <= s
      BY <2>2 DEF MemoryCursor
    <3>2. t \in Int /\ s \in Int /\ t > incomplete_through
      BY <1>7, <3>1, SlotIsNat
    <3> QED
      BY <1>3, <1>5, <3>1, <3>2 DEF u
  <2> QED
    BY <2>1, <2>2
<1>9. p >= head
  <2>1. p < snd_head => u <= incomplete_through \/ u <= removed_max_slot
    BY <1>1, <1>4 DEF EvictedInv, u
  <2> QED
    BY <1>3, <1>4, <1>5, <1>8, <2>1 DEF NoSlot
<1>10. u \in from /\ p >= slots[u]
  <2>1. slots[u] # NoHead
    BY <1>1, <1>5, <1>8 DEF AbsentInv, SlotsUnlocked, u
  <2> QED
    BY <1>1, <1>5, <2>1 DEF AdvertisedInv, Advertised, u
<1>11. MemoryCursor(s) <= slots[u] /\ MemoryCursor(s) \in Nat /\ slots[u] \in Nat
  <2> DEFINE heads == {slots[t] : t \in from}
  <2>1. heads \in SUBSET Nat /\ slots[u] \in heads
    BY <1>1, <1>10 DEF TypeOK, Advertised
  <2>2. MemoryCursor(s) = Min(heads)
    BY <1>6, <1>10 DEF MemoryCursor
  <2> HIDE DEF heads
  <2>3. Min(heads) \in heads /\ \A x \in heads : Min(heads) <= x
    BY <2>1, MinOfNats
  <2> QED
    BY <2>1, <2>2, <2>3
<1> QED
  BY <1>4, <1>9, <1>10, <1>11

\* For every ring and every interleaving of pushes, evictions by count and by
\* bytes, late messages and live epochs: a from_slot request that memory
\* answers misses no record of the requested slots.
THEOREM MemoryReplayIsComplete == Spec => []MemoryReplayComplete
  BY RingInvariant, CursorComplete, PTL

-----------------------------------------------------------------------------
(* The limits of the ring and its byte account *)

\* PrefixBytes is the sum it says it is.
LEMMA PrefixBytesDef ==
    ASSUME NEW records \in Seq(Record)
    PROVE  /\ PrefixBytes(records)[0] = 0
           /\ \A n \in 1 .. Len(records) :
                PrefixBytes(records)[n] = PrefixBytes(records)[n - 1] + Size[records[n].data]
           /\ \A n \in 0 .. Len(records) : PrefixBytes(records)[n] \in Nat
<1> DEFINE N == Len(records)
           step == [n \in 1 .. N |-> [v \in Nat |-> v + Size[records[n].data]]]
           Sums(f) == f = [n \in 0 .. N |-> IF n = 0 THEN 0 ELSE f[n - 1] + Size[records[n].data]]
           total == CHOOSE f : Sums(f)
<1>1. N \in Nat /\ \A n \in 1 .. N : Size[records[n].data] \in Nat
  <2>1. N \in Nat /\ \A n \in 1 .. N : records[n] \in Record
    OBVIOUS
  <2>2. \A rec \in Record : Size[rec.data] \in Nat
    BY ConstantsAssumption DEF Record
  <2> QED
    BY <2>1, <2>2
<1>2. step \in [1 .. N -> [Nat -> Nat]]
  BY <1>1
<1>3. PICK f : Recurs(f, N, Nat, 0, step)
  <2>1. 0 \in Nat
    OBVIOUS
  <2> HIDE DEF step, N
  <2> QED
    BY <1>1, <1>2, <2>1, Recursion, Zenon
<1>4. \E g : Sums(g)
  <2>1. /\ f \in [0 .. N -> Nat] /\ f[0] = 0
        /\ \A n \in 1 .. N : f[n] = step[n][f[n - 1]]
    BY <1>3 DEF Recurs
  <2>2. ASSUME NEW n \in 0 .. N
        PROVE  f[n] = IF n = 0 THEN 0 ELSE f[n - 1] + Size[records[n].data]
    <3>1. CASE n = 0
      BY <2>1, <3>1
    <3>2. CASE n # 0
      <4>1. n \in 1 .. N /\ n - 1 \in 0 .. N
        BY <1>1, <3>2
      <4>2. f[n - 1] \in Nat
        BY <2>1, <4>1
      <4> QED
        BY <2>1, <3>2, <4>1, <4>2
    <3> QED
      BY <3>1, <3>2
  <2> HIDE DEF N, step
  <2>3. Sums(f)
    BY <2>1, <2>2
  <2> QED
    BY <2>3
<1>5. Sums(total)
  <2> HIDE DEF Sums
  <2> QED
    BY <1>4
<1>6. PrefixBytes(records) = total
  BY DEF PrefixBytes
<1> HIDE DEF total
<1>7. total[0] = 0 /\ \A n \in 1 .. N : total[n] = total[n - 1] + Size[records[n].data]
  BY <1>1, <1>5
<1>8. \A n \in 0 .. N : total[n] \in Nat
  <2> DEFINE S == {n \in Nat : n <= N => total[n] \in Nat}
  <2>1. 0 \in S
    BY <1>7
  <2>2. ASSUME NEW n \in Nat, n \in S PROVE n + 1 \in S
    <3>1. CASE n + 1 <= N
      <4>1. n + 1 \in 1 .. N /\ (n + 1) - 1 = n /\ n <= N
        BY <1>1, <3>1
      <4> QED
        BY <1>1, <1>7, <2>2, <4>1
    <3> QED
      BY <3>1
  <2> HIDE DEF S
  <2>3. \A n \in Nat : n \in S
    BY <2>1, <2>2, Induction
  <2> QED
    BY <1>1, <2>3 DEF S
<1> QED
  BY <1>6, <1>7, <1>8

\* A new record leaves the sums before it alone.
LEMMA PrefixBytesAppend ==
    ASSUME NEW records \in Seq(Record), NEW rec \in Record
    PROVE  /\ \A n \in 0 .. Len(records) :
                PrefixBytes(Append(records, rec))[n] = PrefixBytes(records)[n]
           /\ PrefixBytes(Append(records, rec))[Len(records) + 1] =
                PrefixBytes(records)[Len(records)] + Size[rec.data]
<1> DEFINE longer == Append(records, rec)
           N == Len(records)
           S == {n \in Nat : n <= N => PrefixBytes(longer)[n] = PrefixBytes(records)[n]}
<1>1. /\ longer \in Seq(Record) /\ N \in Nat /\ Len(longer) = N + 1 /\ longer[N + 1] = rec
      /\ \A n \in 1 .. N : longer[n] = records[n]
  OBVIOUS
<1> HIDE DEF longer, N
<1>2. /\ PrefixBytes(longer)[0] = 0
      /\ \A n \in 1 .. N + 1 :
           PrefixBytes(longer)[n] = PrefixBytes(longer)[n - 1] + Size[longer[n].data]
  BY <1>1, PrefixBytesDef
<1>3. /\ PrefixBytes(records)[0] = 0
      /\ \A n \in 1 .. N :
           PrefixBytes(records)[n] = PrefixBytes(records)[n - 1] + Size[records[n].data]
  BY PrefixBytesDef DEF N
<1>4. 0 \in S
  BY <1>2, <1>3
<1>5. ASSUME NEW n \in Nat, n \in S PROVE n + 1 \in S
  <2> SUFFICES ASSUME n + 1 <= N
               PROVE  PrefixBytes(longer)[n + 1] = PrefixBytes(records)[n + 1]
    OBVIOUS
  <2>1. n + 1 \in 1 .. N /\ n + 1 \in 1 .. N + 1 /\ (n + 1) - 1 = n /\ n <= N
    BY <1>1
  <2>2. PrefixBytes(longer)[n] = PrefixBytes(records)[n]
    BY <1>5, <2>1
  <2> QED
    BY <1>1, <1>2, <1>3, <2>1, <2>2
<1> HIDE DEF S
<1>6. \A n \in Nat : n \in S
  BY <1>4, <1>5, Induction
<1>7. \A n \in 0 .. N : PrefixBytes(longer)[n] = PrefixBytes(records)[n]
  BY <1>1, <1>6 DEF S
<1>8. PrefixBytes(longer)[N + 1] = PrefixBytes(records)[N] + Size[rec.data]
  <2>1. N + 1 \in 1 .. N + 1 /\ (N + 1) - 1 = N /\ N \in 0 .. N
    BY <1>1
  <2> QED
    BY <1>1, <1>2, <1>7, <2>1
<1> QED
  BY <1>7, <1>8 DEF longer, N

\* The account is kept by every step: a push adds the new message and takes the
\* overwritten one, a turn of the eviction loop takes the oldest one.
LEMMA NextAccountInv == RingInv /\ AccountInv /\ [Next]_vars => AccountInv'
<1> SUFFICES ASSUME RingInv, AccountInv, [Next]_vars PROVE AccountInv'
  OBVIOUS
<1> DEFINE Sum(n) == PrefixBytes(log)[n]
           Held == Sum(snd_tail - MaxMessages) - Sum(snd_head - 1 - MaxMessages)
<1>1. /\ snd_tail \in Nat /\ snd_head \in Nat /\ Len(log) \in Nat
      /\ MaxMessages \in Nat /\ MaxMessages > 0 /\ log \in Seq(Record)
      /\ snd_tail = MaxMessages + Len(log)
      /\ snd_head >= MaxMessages + 1 /\ snd_head <= snd_tail + 1
  BY RingFacts DEF RingInv, TypeOK
<1>2. /\ Sum(0) = 0 /\ \A n \in 0 .. Len(log) : Sum(n) \in Nat
      /\ \A n \in 1 .. Len(log) : Sum(n) = Sum(n - 1) + Size[log[n].data]
  BY <1>1, PrefixBytesDef
<1>3. bytes_total = Held
  BY DEF AccountInv
<1>4. /\ snd_tail - MaxMessages = Len(log) /\ Sum(Len(log)) \in Nat
      /\ (snd_head - 1) - MaxMessages \in 0 .. Len(log)
      /\ Sum(snd_head - 1 - MaxMessages) \in Nat
  BY <1>1, <1>2
<1>5. snd_head \in Positions =>
        /\ snd_head - MaxMessages \in 1 .. Len(log)
        /\ Sum(snd_head - MaxMessages) =
             Sum(snd_head - 1 - MaxMessages) + Size[At(snd_head).data]
  <2> SUFFICES ASSUME snd_head \in Positions
               PROVE  /\ snd_head - MaxMessages \in 1 .. Len(log)
                      /\ Sum(snd_head - MaxMessages) =
                           Sum(snd_head - 1 - MaxMessages) + Size[At(snd_head).data]
    OBVIOUS
  <2>1. /\ snd_head - MaxMessages \in 1 .. Len(log)
        /\ (snd_head - MaxMessages) - 1 = snd_head - 1 - MaxMessages
    BY <1>1 DEF Positions
  <2> QED
    BY <1>2, <2>1 DEF At
<1> HIDE DEF Sum, Held
<1>6. ASSUME NEW s \in Slot, NEW m \in Message, PushItem(s, m) PROVE AccountInv'
  <2> DEFINE rec == [slot |-> s, data |-> m, replay_index |-> NextReplayIndex]
             NewSum(n) == PrefixBytes(log')[n]
             evicts == Overwritten.data # NoData
  <2>1. /\ log' = Append(log, rec) /\ snd_tail' = snd_tail + 1 /\ snd_pc' = "evict"
        /\ snd_head' = IF evicts THEN snd_head + 1 ELSE snd_head
        /\ bytes_total' = bytes_total + Size[m]
                            - (IF evicts THEN Size[Overwritten.data] ELSE 0)
    BY <1>6 DEF PushItem, Overwritten
  <2>2. rec \in Record
    BY <1>6, PushedRecord DEF Record
  <2>3. /\ \A n \in 0 .. Len(log) : NewSum(n) = Sum(n)
        /\ NewSum(Len(log) + 1) = Sum(Len(log)) + Size[m]
    <3>1. rec.data = m
      OBVIOUS
    <3> HIDE DEF rec
    <3> QED
      BY <1>1, <2>1, <2>2, <3>1, PrefixBytesAppend DEF Sum
  <2>4. Size[m] \in Nat
    BY ConstantsAssumption
  <2> HIDE DEF rec
  <2>5. snd_tail' - MaxMessages = Len(log) + 1
    BY <1>1, <2>1
  <2>6. CASE evicts
    <3>1. /\ snd_head \in Positions /\ Overwritten.data = At(snd_head).data
          /\ Overwritten.data \in Message
      BY <2>6, OverwrittenItem
    <3>2. Size[At(snd_head).data] \in Nat
      BY <3>1, ConstantsAssumption
    <3>3. snd_head' = snd_head + 1 /\ (snd_head' - 1) - MaxMessages = snd_head - MaxMessages
      BY <1>1, <2>1, <2>6
    <3>4. NewSum(snd_head' - 1 - MaxMessages)
            = Sum(snd_head - 1 - MaxMessages) + Size[At(snd_head).data]
      BY <1>1, <1>5, <2>3, <3>1, <3>3
    <3>5. bytes_total' = bytes_total + Size[m] - Size[At(snd_head).data]
      BY <2>1, <2>6, <3>1
    <3> HIDE DEF NewSum
    <3>6. bytes_total' = NewSum(snd_tail' - MaxMessages) - NewSum(snd_head' - 1 - MaxMessages)
      BY <1>3, <1>4, <2>3, <2>4, <2>5, <3>2, <3>4, <3>5 DEF Held
    <3> QED
      BY <2>1, <3>6 DEF AccountInv, NewSum
  <2>7. CASE ~evicts
    <3>1. snd_head' = snd_head /\ bytes_total' = bytes_total + Size[m]
      BY <1>3, <1>4, <2>1, <2>4, <2>7 DEF Held
    <3>2. NewSum(snd_head' - 1 - MaxMessages) = Sum(snd_head - 1 - MaxMessages)
      BY <1>4, <2>3, <3>1
    <3> HIDE DEF NewSum
    <3>3. bytes_total' = NewSum(snd_tail' - MaxMessages) - NewSum(snd_head' - 1 - MaxMessages)
      BY <1>3, <1>4, <2>3, <2>4, <2>5, <3>1, <3>2 DEF Held
    <3> QED
      BY <2>1, <3>3 DEF AccountInv, NewSum
  <2> QED
    BY <2>6, <2>7
<1>7. CASE EvictByBytes
  <2> DEFINE old == buffer[GetIdx(snd_head)]
  <2>1. /\ snd_head' = snd_head + 1 /\ snd_head < snd_tail /\ snd_pc' = "evict"
        /\ bytes_total' = bytes_total - Size[old.data]
        /\ UNCHANGED <<snd_tail, log>>
    BY <1>7 DEF EvictByBytes, OverBytes
  <2>2. snd_head \in snd_head .. snd_tail /\ snd_head \in Positions
    BY <1>1, <2>1 DEF Positions
  <2>3. /\ old.data = At(snd_head).data
    <3>1. GetIdx(snd_head) \in 0 .. MaxMessages - 1
      BY <1>1, GetIdxFacts
    <3> QED
      BY <2>2, <3>1 DEF RingInv, BufferInv
  <2>4. Size[At(snd_head).data] \in Nat
    BY <2>2, RingFacts, ConstantsAssumption DEF Record
  <2>5. (snd_head' - 1) - MaxMessages = snd_head - MaxMessages
    BY <1>1, <2>1
  <2>6. bytes_total' = Sum(snd_tail - MaxMessages) - Sum(snd_head' - 1 - MaxMessages)
    BY <1>3, <1>4, <1>5, <2>1, <2>2, <2>3, <2>4, <2>5 DEF Held
  <2> QED
    BY <2>1, <2>6 DEF AccountInv, Sum
<1>8. CASE Publish
  <2>1. /\ UNCHANGED <<bytes_total, snd_head, snd_tail, log>> /\ snd_pc = "evict"
        /\ ~OverBytes /\ head' = snd_head /\ tail' = snd_tail
    BY <1>8 DEF Publish
  <2>2. snd_head <= snd_tail /\ bytes_total \in Int
    BY <2>1 DEF RingInv, CountersInv, TypeOK
  <2>3. bytes_total < BytesMax \/ snd_head = snd_tail
    BY <1>1, <2>1, <2>2, ConstantsAssumption DEF OverBytes
  <2> QED
    BY <2>1, <2>3 DEF AccountInv
<1>9. CASE WakeReceivers
  BY <1>9 DEF WakeReceivers, AccountInv, shared, sender
<1>10. CASE JournalOtherRing \/ BeginLiveEpoch \/ UNCHANGED vars
  BY <1>10 DEF JournalOtherRing, BeginLiveEpoch, vars, AccountInv, shared, sender, local
<1>11. CASE \E r \in Receiver : Reader(r)
  <2>1. UNCHANGED <<bytes_total, snd_head, snd_tail, log, snd_pc, head, tail>>
    BY <1>11 DEF Reader, SubscribeLive, SubscribeFrom, StartAt, PollTail, ReadItem, Park,
                 shared, sender, local
  <2> QED
    BY <2>1 DEF AccountInv
<1> QED
  BY <1>6, <1>7, <1>8, <1>9, <1>10, <1>11 DEF Next, Writer

\* The account of an empty ring is empty, and every step keeps it.
LEMMA AccountInvariant == Spec => []AccountInv
<1>1. Init => AccountInv
  <2> SUFFICES ASSUME Init PROVE AccountInv
    OBVIOUS
  <2>1. log = <<>> /\ log \in Seq(Record) /\ bytes_total = 0
    BY DEF Init
  <2>2. PrefixBytes(log)[0] = 0
    BY <2>1, PrefixBytesDef
  <2>3. snd_tail - MaxMessages = 0 /\ snd_head - 1 - MaxMessages = 0
    BY ConstantsAssumption DEF Init
  <2> QED
    BY <2>1, <2>2, <2>3 DEF AccountInv
<1>2. RingInv /\ AccountInv /\ [Next]_vars => AccountInv'
  BY NextAccountInv
<1> QED
  BY <1>1, <1>2, RingInvariant, PTL DEF Spec

\* For every capacity, byte limit and sequence of messages: the ring never holds
\* more messages than its capacity, bytes_total is the size of what it holds, and
\* outside of a push it is below the byte limit unless a single message exceeds it.
THEOREM RingIsBoundedAndAccounted == Spec => []BoundedAndAccounted
<1>1. ASSUME RingInv, AccountInv PROVE BoundedAndAccounted
  <2> DEFINE held == {p \in Positions : p >= snd_head}
  <2>1. held = snd_head .. snd_tail
    BY <1>1, RingFacts DEF Positions
  <2>2. snd_head \in Int /\ snd_tail \in Int
    BY <1>1, RingFacts
  <2>3. Cardinality(snd_head .. snd_tail) =
          IF snd_head > snd_tail THEN 0 ELSE snd_tail - snd_head + 1
    BY <2>2, FS_Interval
  <2>4. Cardinality(held) <= MaxMessages
    <3>1. /\ snd_tail - snd_head < MaxMessages /\ MaxMessages \in Nat
          /\ snd_tail \in Nat /\ snd_head \in Nat
      BY <1>1, RingFacts
    <3>2. Cardinality(held) = IF snd_head > snd_tail THEN 0 ELSE snd_tail - snd_head + 1
      BY <2>1, <2>3
    <3> HIDE DEF held
    <3> QED
      BY <3>1, <3>2
  <2> QED
    BY <1>1, <2>4 DEF BoundedAndAccounted, AccountInv
<1> QED
  BY <1>1, RingInvariant, AccountInvariant, PTL

-----------------------------------------------------------------------------
(* Handing a disk replay over to memory *)

\* Every step keeps the journal indexes in order and the evicted ones below the floor.
LEMMA NextIndexInv == RingInv /\ IndexInv /\ [Next]_vars => IndexInv'
<1> SUFFICES ASSUME RingInv, IndexInv, [Next]_vars, Journaled
             PROVE  /\ \A p \in Positions' : /\ At(p)'.replay_index < index'
                                             /\ At(p)'.replay_index < U64Max
                    /\ \A p, q \in Positions' : p < q =>
                         At(p)'.replay_index < At(q)'.replay_index
                    /\ \A p \in Positions' : p < snd_head' =>
                         At(p)'.replay_index < replay_floor'
  BY DEF IndexInv
<1> DEFINE R(p) == At(p).replay_index
<1>1. /\ \A p \in Positions : R(p) < index /\ R(p) < U64Max
      /\ \A p, q \in Positions : p < q => R(p) < R(q)
      /\ \A p \in Positions : p < snd_head => R(p) < replay_floor
  BY DEF IndexInv
<1>2. /\ snd_tail \in Nat /\ snd_head \in Nat /\ MaxMessages \in Nat
      /\ snd_head <= snd_tail + 1 /\ snd_head >= MaxMessages + 1
      /\ index \in Nat /\ U64Max \in Nat /\ replay_floor \in Nat
      /\ \A p \in Positions : p \in Nat /\ R(p) \in Nat
  BY RingFacts, ConstantsAssumption DEF RingInv, TypeOK
<1>3. \A p \in Positions : p <= snd_tail
  BY <1>2 DEF Positions
<1>4. ASSUME NEW s \in Slot, NEW m \in Message, PushItem(s, m)
      PROVE  /\ \A p \in Positions' : /\ At(p)'.replay_index < index'
                                      /\ At(p)'.replay_index < U64Max
             /\ \A p, q \in Positions' : p < q =>
                  At(p)'.replay_index < At(q)'.replay_index
             /\ \A p \in Positions' : p < snd_head' =>
                  At(p)'.replay_index < replay_floor'
  <2> DEFINE evicts == Overwritten.data # NoData
             N(p) == log'[p - MaxMessages].replay_index
  <2>1. /\ index < U64Max /\ index' = index + 1
        /\ snd_head' = IF evicts THEN snd_head + 1 ELSE snd_head
        /\ replay_floor' = IF evicts THEN FloorAfter(Overwritten) ELSE replay_floor
    BY <1>4 DEF PushItem, Overwritten
  <2>2. /\ Positions' = Positions \cup {snd_tail + 1}
        /\ N(snd_tail + 1) = index /\ \A p \in Positions : N(p) = R(p)
    <3>1. NextReplayIndex = index
      BY DEF NextReplayIndex
    <3>2. log'[(snd_tail + 1) - MaxMessages] =
            [slot |-> s, data |-> m, replay_index |-> NextReplayIndex]
      BY <1>4, PushedRecord
    <3>3. /\ Positions' = Positions \cup {snd_tail + 1}
          /\ \A p \in Positions : log'[p - MaxMessages] = At(p)
      BY <1>4, PushedRecord
    <3> QED
      BY <3>1, <3>2, <3>3
  <2>3. /\ evicts => /\ snd_head \in Positions
                     /\ Overwritten.replay_index = R(snd_head)
    BY OverwrittenItem
  <2> HIDE DEF N, R, evicts
  <2>4. \A p \in Positions' : N(p) < index' /\ N(p) < U64Max
    BY <1>1, <1>2, <2>1, <2>2
  <2>5. ASSUME NEW p \in Positions', NEW q \in Positions', p < q PROVE N(p) < N(q)
    <3>1. p \in Positions
      BY <1>2, <1>3, <2>2, <2>5
    <3>2. CASE q \in Positions
      BY <1>1, <2>2, <2>5, <3>1, <3>2
    <3>3. CASE q = snd_tail + 1
      BY <1>1, <2>2, <3>1, <3>3
    <3> QED
      BY <2>2, <3>2, <3>3
  <2>6. ASSUME NEW p \in Positions', p < snd_head' PROVE N(p) < replay_floor'
    <3>1. CASE evicts
      <4>1. snd_head' = snd_head + 1 /\ replay_floor' = R(snd_head) + 1
        BY <1>1, <1>2, <2>1, <2>3, <3>1 DEF FloorAfter
      <4>2. snd_head \in Positions /\ snd_head <= snd_tail
        BY <1>3, <2>3, <3>1
      <4>3. p \in Positions
        BY <1>2, <2>2, <2>6, <4>1, <4>2
      <4>4. p < snd_head \/ p = snd_head
        BY <1>2, <2>6, <4>1, <4>3
      <4>5. R(p) < R(snd_head) \/ R(p) = R(snd_head)
        BY <1>1, <4>2, <4>3, <4>4
      <4> QED
        BY <1>2, <2>2, <4>1, <4>2, <4>3, <4>5
    <3>2. CASE ~evicts
      <4>1. snd_head' = snd_head /\ replay_floor' = replay_floor
        BY <2>1, <3>2
      <4>2. p \in Positions
        BY <1>2, <2>2, <2>6, <4>1
      <4> QED
        BY <1>1, <2>2, <2>6, <4>1, <4>2
    <3> QED
      BY <3>1, <3>2
  <2> QED
    BY <2>4, <2>5, <2>6 DEF At, N
<1>5. CASE EvictByBytes
  <2> DEFINE old == buffer[GetIdx(snd_head)]
  <2>1. /\ snd_head' = snd_head + 1 /\ snd_head < snd_tail
        /\ replay_floor' = FloorAfter(old)
        /\ UNCHANGED <<snd_tail, log, index>>
    BY <1>5 DEF EvictByBytes, OverBytes
  <2>2. snd_head \in snd_head .. snd_tail /\ snd_head \in Positions
    BY <1>2, <2>1 DEF Positions
  <2>3. old.replay_index = R(snd_head)
    <3>1. GetIdx(snd_head) \in 0 .. MaxMessages - 1
      BY <1>2, GetIdxFacts
    <3> QED
      BY <2>2, <3>1 DEF RingInv, BufferInv
  <2> HIDE DEF R, old
  <2>4. replay_floor' = R(snd_head) + 1
    BY <1>1, <1>2, <2>1, <2>2, <2>3 DEF FloorAfter
  <2>5. ASSUME NEW p \in Positions, p < snd_head' PROVE R(p) < replay_floor'
    <3>1. p < snd_head \/ p = snd_head
      BY <1>2, <2>1, <2>5
    <3>2. R(p) < R(snd_head) \/ R(p) = R(snd_head)
      BY <1>1, <2>2, <3>1
    <3> QED
      BY <1>2, <2>2, <2>4, <3>2
  <2> QED
    BY <1>1, <2>1, <2>5 DEF Positions, At, R
<1>6. CASE JournalOtherRing
  <2>1. index' = index + 1 /\ UNCHANGED <<snd_head, snd_tail, log, replay_floor>>
    BY <1>6 DEF JournalOtherRing, shared, sender
  <2> QED
    BY <1>1, <1>2, <2>1 DEF Positions, At
<1>7. CASE BeginLiveEpoch
  <2>1. replay_floor' = index /\ UNCHANGED <<snd_head, snd_tail, log, index>>
    BY <1>7 DEF BeginLiveEpoch, sender
  <2> QED
    BY <1>1, <2>1 DEF Positions, At
<1>8. CASE UNCHANGED <<snd_head, snd_tail, log, index, replay_floor>>
  BY <1>1, <1>8 DEF Positions, At
<1>9. CASE Publish \/ WakeReceivers \/ UNCHANGED vars
  <2>1. UNCHANGED <<snd_head, snd_tail, log, index, replay_floor>>
    BY <1>9 DEF Publish, WakeReceivers, vars, shared, sender
  <2> QED
    BY <1>8, <2>1
<1>10. CASE \E r \in Receiver : Reader(r)
  <2>1. UNCHANGED <<snd_head, snd_tail, log, index, replay_floor>>
    BY <1>10 DEF Reader, SubscribeLive, SubscribeFrom, StartAt, PollTail, ReadItem, Park,
                 shared, sender
  <2> QED
    BY <1>8, <2>1
<1> QED
  BY <1>4, <1>5, <1>6, <1>7, <1>9, <1>10 DEF Next, Writer

\* The journal indexes of the ring are in order in every reachable state.
LEMMA IndexInvariant == Spec => []IndexInv
<1>1. Init => IndexInv
  BY ConstantsAssumption DEF Init, IndexInv, Positions
<1>2. RingInv /\ IndexInv /\ [Next]_vars => IndexInv'
  BY NextIndexInv
<1> QED
  BY <1>1, <1>2, RingInvariant, PTL DEF Spec

\* The middle of a non-empty range is inside it.
LEMMA Middle ==
    ASSUME NEW low \in Nat, NEW high \in Nat, low < high
    PROVE  LET mid == low + ((high - low) \div 2)
           IN  mid \in Nat /\ low <= mid /\ mid < high
  OBVIOUS

\* The binary search of get_head_by_replay_index on a ring in journal order: when
\* its loop ends, the records before the bound are before index i, and the
\* records from the bound on are not.
LEMMA SearchResult ==
    ASSUME RingInv, IndexInv, Journaled, SlotsUnlocked, NEW i \in Nat, ~(i < replay_floor)
    PROVE  LET p == HeadByReplayIndex(i)
           IN  /\ p \in Nat /\ p >= head /\ p <= tail + 1
               /\ \A q \in head .. tail : (q >= p) <=> (At(q).replay_index >= i)
<1> DEFINE N == tail + 1 - head
           mid(b) == b[1] + ((b[2] - b[1]) \div 2)
           turn(b) == IF b[1] >= b[2] THEN b
                      ELSE IF buffer[GetIdx(mid(b))].replay_index < i THEN <<mid(b) + 1, b[2]>>
                      ELSE <<b[1], mid(b)>>
           V == Nat \X Nat
           step == [n \in 1 .. N |-> [b \in V |-> turn(b)]]
           Turns(f) == f = [n \in 0 .. N |-> IF n = 0 THEN <<head, tail + 1>> ELSE turn(f[n - 1])]
           bounds == CHOOSE f : Turns(f)
<1>1. /\ head \in Nat /\ tail \in Nat /\ N \in Nat /\ head <= tail + 1
      /\ head = snd_head /\ tail = snd_tail
      /\ \A q \in head .. tail : q \in Positions /\ At(q).replay_index \in Nat
  <2>1. head = snd_head /\ tail = snd_tail
    BY DEF RingInv, CountersInv, SlotsUnlocked
  <2>2. \A q \in head .. tail : q \in Positions
    BY <2>1, RingFacts DEF Positions
  <2> QED
    BY <2>1, <2>2, RingFacts
<1>2. \A q \in head .. tail : buffer[GetIdx(q)].replay_index = At(q).replay_index
  <2>1. \A q \in head .. tail : GetIdx(q) \in 0 .. MaxMessages - 1
    BY <1>1, GetIdxFacts
  <2> QED
    BY <1>1, <2>1 DEF RingInv, BufferInv
<1>3. \A b \in V : b[1] < b[2] => mid(b) \in Nat /\ b[1] <= mid(b) /\ mid(b) < b[2]
  BY Middle
<1> HIDE DEF mid, N
<1>4. \A b \in V : turn(b) \in V
  <2> SUFFICES ASSUME NEW b \in V PROVE turn(b) \in V
    OBVIOUS
  <2>1. b[1] \in Nat /\ b[2] \in Nat
    OBVIOUS
  <2> QED
    BY <1>3, <2>1
<1> HIDE DEF turn, V
<1>5. step \in [1 .. N -> [V -> V]]
  BY <1>4
<1>6. <<head, tail + 1>> \in V
  BY <1>1 DEF V
<1>7. PICK f : Recurs(f, N, V, <<head, tail + 1>>, step)
  <2>1. N \in Nat
    BY <1>1
  <2> HIDE DEF step
  <2> QED
    BY <1>5, <1>6, <2>1, Recursion, Zenon
<1>8. Turns(f)
  <2>1. /\ f \in [0 .. N -> V] /\ f[0] = <<head, tail + 1>>
        /\ \A n \in 1 .. N : f[n] = step[n][f[n - 1]]
    BY <1>7 DEF Recurs
  <2>2. ASSUME NEW n \in 0 .. N
        PROVE  f[n] = IF n = 0 THEN <<head, tail + 1>> ELSE turn(f[n - 1])
    <3>1. CASE n # 0
      <4>1. n \in 1 .. N /\ n - 1 \in 0 .. N
        BY <1>1, <3>1
      <4>2. f[n - 1] \in V
        BY <2>1, <4>1
      <4> QED
        BY <2>1, <3>1, <4>1, <4>2
    <3> QED
      BY <2>1, <3>1
  <2> HIDE DEF step
  <2> QED
    BY <2>1, <2>2
<1>9. Turns(bounds)
  <2> HIDE DEF Turns
  <2> QED
    BY <1>8
<1>10. HeadByReplayIndex(i) = bounds[N][1]
  BY DEF HeadByReplayIndex, turn, mid, N
<1> HIDE DEF bounds, step
<1>11. bounds[0] = <<head, tail + 1>> /\ \A n \in 1 .. N : bounds[n] = turn(bounds[n - 1])
  <2>1. \A n \in 0 .. N :
          bounds[n] = IF n = 0 THEN <<head, tail + 1>> ELSE turn(bounds[n - 1])
    BY <1>9, Zenon
  <2>2. 0 \in 0 .. N /\ \A n \in 1 .. N : n \in 0 .. N /\ n # 0
    BY <1>1
  <2> QED
    BY <2>1, <2>2, Zenon
<1> DEFINE R(q) == At(q).replay_index
           Good(b, n) == /\ b \in V
                         /\ head <= b[1] /\ b[1] <= b[2] /\ b[2] <= tail + 1
                         /\ b[2] - b[1] <= N - n
                         /\ \A q \in head .. tail : q < b[1] => R(q) < i
                         /\ \A q \in head .. tail : q >= b[2] => R(q) >= i
           S == {n \in Nat : n <= N => Good(bounds[n], n)}
<1>12. \A p, q \in head .. tail : p < q => R(p) < R(q)
  BY <1>1 DEF IndexInv
<1>13. \A q \in head .. tail : R(q) \in Nat
  BY <1>1
<1> HIDE DEF R
<1>14. 0 \in S
  <2> DEFINE b == <<head, tail + 1>>
  <2>1. b[1] = head /\ b[2] = tail + 1 /\ b \in V
    BY <1>6
  <2> HIDE DEF b
  <2>2. b[2] - b[1] <= N - 0
    BY <1>1, <2>1 DEF N
  <2>3. Good(b, 0)
    BY <1>1, <2>1, <2>2
  <2> QED
    BY <1>11, <2>3 DEF b
<1>15. ASSUME NEW n \in Nat, n \in S PROVE n + 1 \in S
  <2> SUFFICES ASSUME n + 1 <= N PROVE Good(bounds[n + 1], n + 1)
    OBVIOUS
  <2> DEFINE b == bounds[n]
             c == bounds[n + 1]
  <2>1. n <= N /\ n + 1 \in 1 .. N /\ (n + 1) - 1 = n /\ N \in Nat
    BY <1>1
  <2>2. Good(b, n) /\ c = turn(b)
    BY <1>11, <1>15, <2>1
  <2> HIDE DEF b, c
  <2>3. b[1] \in Nat /\ b[2] \in Nat
    BY <2>2 DEF V
  <2>4. CASE b[1] >= b[2]
    <3>1. c = b /\ b[1] = b[2]
      BY <2>2, <2>3, <2>4 DEF turn
    <3>2. b[2] - b[1] <= N - (n + 1)
      BY <2>1, <2>3, <3>1
    <3>3. Good(c, n + 1)
      BY <2>2, <3>1, <3>2
    <3> QED
      BY <3>3 DEF c
  <2>5. CASE b[1] < b[2]
    <3>1. mid(b) \in Nat /\ b[1] <= mid(b) /\ mid(b) < b[2]
      BY <1>3, <2>2, <2>5
    <3>2. mid(b) \in head .. tail
      BY <1>1, <2>2, <2>3, <3>1
    <3>3. /\ R(mid(b)) \in Nat /\ i \in Nat
          /\ c = IF R(mid(b)) < i THEN <<mid(b) + 1, b[2]>> ELSE <<b[1], mid(b)>>
      <4>1. buffer[GetIdx(mid(b))].replay_index = R(mid(b))
        BY <1>2, <3>2 DEF R
      <4> QED
        BY <1>13, <2>2, <2>3, <2>5, <3>2, <4>1 DEF turn
    <3>4. CASE R(mid(b)) < i
      <4>1. c[1] = mid(b) + 1 /\ c[2] = b[2] /\ c \in V
        BY <2>3, <3>1, <3>3, <3>4 DEF V
      <4>2. ASSUME NEW q \in head .. tail, q < c[1] PROVE R(q) < i
        <5>1. q \in Int /\ (q < mid(b) \/ q = mid(b))
          BY <1>1, <3>1, <4>1, <4>2
        <5>2. R(q) < R(mid(b)) \/ R(q) = R(mid(b))
          BY <1>12, <3>2, <5>1
        <5> QED
          BY <1>13, <3>3, <3>4, <5>2
      <4>3. c[2] - c[1] <= N - (n + 1)
        BY <2>1, <2>2, <2>3, <3>1, <4>1
      <4>4. head <= c[1] /\ c[1] <= c[2] /\ c[2] <= tail + 1
        BY <1>1, <2>2, <2>3, <3>1, <4>1
      <4>5. Good(c, n + 1)
        BY <2>2, <4>1, <4>2, <4>3, <4>4
      <4> QED
        BY <4>5 DEF c
    <3>5. CASE ~(R(mid(b)) < i)
      <4>1. c[1] = b[1] /\ c[2] = mid(b) /\ c \in V
        BY <2>3, <3>1, <3>3, <3>5 DEF V
      <4>2. ASSUME NEW q \in head .. tail, q >= c[2] PROVE R(q) >= i
        <5>1. q \in Int /\ (q > mid(b) \/ q = mid(b))
          BY <1>1, <3>1, <4>1, <4>2
        <5>2. R(mid(b)) < R(q) \/ R(q) = R(mid(b))
          BY <1>12, <3>2, <5>1
        <5> QED
          BY <1>13, <3>3, <3>5, <5>2
      <4>3. c[2] - c[1] <= N - (n + 1)
        BY <2>1, <2>2, <2>3, <3>1, <4>1
      <4>4. head <= c[1] /\ c[1] <= c[2] /\ c[2] <= tail + 1
        BY <1>1, <2>2, <2>3, <3>1, <4>1
      <4>5. Good(c, n + 1)
        BY <2>2, <4>1, <4>2, <4>3, <4>4
      <4> QED
        BY <4>5 DEF c
    <3> QED
      BY <3>4, <3>5
  <2> QED
    BY <2>3, <2>4, <2>5
<1>16. Good(bounds[N], N)
  <2>1. N \in Nat /\ N <= N
    BY <1>1
  <2> HIDE DEF Good
  <2>2. \A n \in Nat : n \in S
    <3> HIDE DEF S
    <3> QED
      BY <1>14, <1>15, Induction
  <2> QED
    BY <2>1, <2>2
<1> DEFINE b == bounds[N]
<1>17. b[1] \in Nat /\ b[2] \in Nat /\ b[1] = b[2]
  <2>1. b \in V /\ b[1] <= b[2] /\ b[2] - b[1] <= N - N
    BY <1>16
  <2> HIDE DEF b
  <2>2. b[1] \in Nat /\ b[2] \in Nat
    BY <2>1 DEF V
  <2> QED
    BY <1>1, <2>1, <2>2
<1>18. \A q \in head .. tail : (q >= b[1]) <=> (R(q) >= i)
  <2> SUFFICES ASSUME NEW q \in head .. tail PROVE (q >= b[1]) <=> (R(q) >= i)
    OBVIOUS
  <2>1. (q < b[1] => R(q) < i) /\ (q >= b[1] => R(q) >= i)
    BY <1>16, <1>17
  <2>2. q \in Int /\ R(q) \in Nat
    BY <1>1, <1>13
  <2> QED
    BY <1>17, <2>1, <2>2
<1> QED
  BY <1>10, <1>16, <1>17, <1>18 DEF R

\* For every ring and every interleaving: where get_head_by_replay_index answers,
\* memory continues with exactly the records the disk replay has not sent, with
\* no gap and no repeat.
THEOREM HandOffIsExact == Spec => []HandOffExact
<1>1. ASSUME RingInv, IndexInv PROVE HandOffExact
  <2> SUFFICES ASSUME SlotsUnlocked, Journaled, NEW i \in 0 .. index,
                      HeadByReplayIndex(i) # NoHead
               PROVE  /\ HeadByReplayIndex(i) >= head /\ HeadByReplayIndex(i) <= tail + 1
                      /\ \A q \in Positions : (q >= HeadByReplayIndex(i))
                                                <=> (At(q).replay_index >= i)
    BY DEF HandOffExact
  <2> DEFINE p == HeadByReplayIndex(i)
             R(q) == At(q).replay_index
  <2>1. index \in Nat /\ replay_floor \in Nat /\ head \in Nat /\ tail \in Nat
    BY <1>1 DEF RingInv, TypeOK
  <2>2. i \in Nat /\ ~(i < replay_floor)
    <3>1. ~(i < replay_floor)
      BY Zenon DEF HeadByReplayIndex
    <3> QED
      BY <2>1, <3>1
  <2>3. /\ p \in Nat /\ p >= head /\ p <= tail + 1
        /\ \A q \in head .. tail : (q >= p) <=> (R(q) >= i)
    BY <1>1, <2>2, SearchResult
  <2>4. head = snd_head /\ tail = snd_tail
    BY <1>1 DEF RingInv, CountersInv, SlotsUnlocked
  <2>5. \A q \in Positions : q < head => R(q) < replay_floor
    BY <1>1, <2>4 DEF IndexInv
  <2>6. \A q \in Positions : q \in Nat /\ q <= tail /\ R(q) \in Nat
    BY <1>1, <2>4, RingFacts DEF Positions
  <2> HIDE DEF p, R
  <2>7. ASSUME NEW q \in Positions PROVE (q >= p) <=> (R(q) >= i)
    <3>1. CASE q < head
      BY <2>1, <2>2, <2>3, <2>5, <2>6, <3>1
    <3>2. CASE q >= head
      <4>1. q \in head .. tail
        BY <2>1, <2>6, <3>2
      <4> QED
        BY <2>3, <4>1
    <3> QED
      BY <2>1, <2>6, <3>1, <3>2
  <2> QED
    BY <2>3, <2>7 DEF p, R
<1> QED
  BY <1>1, RingInvariant, IndexInvariant, PTL

-----------------------------------------------------------------------------
(* The ring implements BroadcastLog *)

\* A receiver whose waker is registered is parked.
WakersInv == \A r \in wakers : rcv_pc[r] = "parked"

\* A waker is registered when its receiver parks, and taken when it is woken.
LEMMA WakersInvariant == Spec => []WakersInv
<1>1. Init => WakersInv
  BY DEF Init, WakersInv
<1>2. ASSUME TypeOK, WakersInv, [Next]_vars PROVE WakersInv'
  <2> USE DEF TypeOK, WakersInv
  <2>1. CASE WakeReceivers
    BY <2>1 DEF WakeReceivers
  <2>2. CASE EvictByBytes \/ Publish \/ JournalOtherRing \/ BeginLiveEpoch \/ UNCHANGED vars
             \/ \E s \in Slot, m \in Message : PushItem(s, m)
    <3>1. UNCHANGED <<wakers, rcv_pc>>
      BY <2>2 DEF EvictByBytes, Publish, JournalOtherRing, BeginLiveEpoch, vars, rcv, PushItem
    <3> QED
      BY <1>2, <3>1
  <2>3. ASSUME NEW r \in Receiver, Reader(r) PROVE WakersInv'
    <3>1. CASE SubscribeLive(r) \/ PollTail(r) \/ \E s \in Slot : SubscribeFrom(r, s)
      <4>1. wakers' = wakers /\ rcv_pc[r] # "parked" /\ \E v : rcv_pc' = [rcv_pc EXCEPT ![r] = v]
        BY <3>1 DEF SubscribeLive, SubscribeFrom, StartAt, PollTail
      <4> QED
        BY <1>2, <4>1
    <3>2. CASE ReadItem(r)
      <4>1. wakers' = wakers /\ rcv_pc[r] # "parked" /\ \E v : rcv_pc' = [rcv_pc EXCEPT ![r] = v]
        BY <3>2, Zenon DEF ReadItem
      <4> QED
        BY <1>2, <4>1
    <3>3. CASE Park(r)
      BY <1>2, <3>3 DEF Park
    <3> QED
      BY <2>3, <3>1, <3>2, <3>3 DEF Reader
  <2> QED
    BY <1>2, <2>1, <2>2, <2>3 DEF Next, Writer
<1> QED
  BY <1>1, <1>2, TypeCorrect, PTL DEF Spec

\* A fresh ring is a fresh broadcast log.
LEMMA InitRefines == Init => BL!Init
  BY DEF Init, BL!Init

\* What a reader that is not told to have lagged reads: the record at its cursor.
LEMMA ReadItemReadsLog ==
    ASSUME RingInv, NEW r \in Receiver, ~Lagged(buffer[GetIdx(rcv_head[r])], rcv_head[r])
    PROVE  /\ rcv_head[r] \in Nat
           /\ rcv_head[r] - MaxMessages \in 1 .. Len(log)
           /\ buffer[GetIdx(rcv_head[r])].data = log[rcv_head[r] - MaxMessages].data
<1> DEFINE c == rcv_head[r]
           item == buffer[GetIdx(c)]
<1>1. c \in Nat
  BY DEF RingInv, TypeOK
<1>2. GetIdx(c) \in 0 .. MaxMessages - 1
  BY <1>1, GetIdxFacts
<1>3. item.pos = c /\ item.data # NoData
  BY DEF Lagged
<1>4. item.pos \in snd_head .. snd_tail /\ item.data = At(item.pos).data
  BY <1>2, <1>3 DEF RingInv, BufferInv
<1>5. c \in Positions
  BY <1>3, <1>4, RingFacts DEF Positions
<1> QED
  BY <1>1, <1>3, <1>4, <1>5, RingFacts DEF At

\* Every step of the ring is a step of the broadcast log or leaves it alone.
LEMMA NextRefines == RingInv /\ WakersInv /\ [Next]_vars => [BL!Next]_(BL!vars)
<1> SUFFICES ASSUME RingInv, WakersInv, [Next]_vars PROVE [BL!Next]_(BL!vars)
  OBVIOUS
<1> DEFINE Data(l) == [i \in 1 .. Len(l) |-> l[i].data]
           Phase(pc) == [r \in Receiver |->
                           IF pc[r] = "new" THEN "new"
                           ELSE IF pc[r] = "lagged" THEN "stopped" ELSE "reading"]
           Cursor(pc, hd) == [r \in Receiver |->
                                IF pc[r] = "new" THEN 0 ELSE hd[r] - MaxMessages]
<1>1. TypeOK
  BY DEF RingInv
<1>2. /\ MaxMessages \in Nat /\ snd_tail \in Nat /\ Len(log) \in Nat
      /\ snd_tail = MaxMessages + Len(log)
      /\ tail \in Nat /\ tail >= MaxMessages /\ tail <= snd_tail
      /\ log \in Seq(Record)
      /\ rcv_pc \in [Receiver -> {"new", "ready", "polling", "parked", "lagged"}]
      /\ rcv_head \in [Receiver -> Nat] /\ rcv_got \in [Receiver -> Seq(Message)]
  BY RingFacts DEF RingInv, TypeOK, CountersInv
<1>3. Len(Data(log)) = Len(log) /\ \A i \in 1 .. Len(log) : Data(log)[i] = log[i].data
  BY <1>2
<1>4. ASSUME NEW s \in Slot, NEW m \in Message, PushItem(s, m) PROVE BL!Publish
  <2> DEFINE rec == [slot |-> s, data |-> m, replay_index |-> NextReplayIndex]
  <2>1. log' = Append(log, rec) /\ rec.data = m /\ UNCHANGED <<rcv_pc, rcv_head, rcv_got>>
    BY <1>4 DEF PushItem, rcv
  <2>2. rec \in Record
    BY <1>4, PushedRecord DEF Record
  <2> HIDE DEF rec
  <2>3. Data(log') = Append(Data(log), m)
    <3>1. /\ Len(log') = Len(log) + 1 /\ log'[Len(log) + 1] = rec
          /\ \A i \in 1 .. Len(log) : log'[i] = log[i]
      BY <1>2, <2>1, <2>2
    <3>2. Data(log) \in Seq(Message)
      <4>1. \A i \in 1 .. Len(log) : log[i].data \in Message
        <5>1. \A i \in 1 .. Len(log) : log[i] \in Record
          BY <1>2
        <5> QED
          BY <5>1 DEF Record
      <4> QED
        BY <1>2, <4>1
    <3>3. /\ Len(Append(Data(log), m)) = Len(log) + 1
          /\ Append(Data(log), m)[Len(log) + 1] = m
          /\ \A i \in 1 .. Len(log) : Append(Data(log), m)[i] = log[i].data
          /\ Append(Data(log), m) \in Seq(Message)
      BY <1>2, <1>3, <3>2
    <3>4. Data(log') = [i \in 1 .. Len(log) + 1 |-> Append(Data(log), m)[i]]
      BY <1>2, <2>1, <3>1, <3>3
    <3> DEFINE t == Append(Data(log), m)
    <3>5. t \in Seq(Message) /\ Len(t) = Len(log) + 1
      BY <3>3
    <3>6. Data(log') = [i \in 1 .. Len(log) + 1 |-> t[i]]
      BY <3>4
    <3> HIDE DEF t
    <3>7. Data(log') = t
      BY <3>5, <3>6
    <3> QED
      BY <3>7 DEF t
  <2> QED
    BY <2>1, <2>3 DEF BL!Publish
<1>5. ASSUME NEW r \in Receiver, NEW pos \in Nat, rcv_pc[r] = "new", StartAt(r, pos),
             pos - MaxMessages \in 0 .. Len(log)
      PROVE  BL!Subscribe(r)
  <2>1. /\ rcv_pc' = [rcv_pc EXCEPT ![r] = "ready"]
        /\ rcv_head' = [rcv_head EXCEPT ![r] = pos]
        /\ UNCHANGED <<log, rcv_got>>
    BY <1>5 DEF StartAt
  <2>2. Phase(rcv_pc') = [Phase(rcv_pc) EXCEPT ![r] = "reading"]
    BY <1>2, <2>1
  <2>3. Cursor(rcv_pc', rcv_head') = [Cursor(rcv_pc, rcv_head) EXCEPT ![r] = pos - MaxMessages]
    BY <1>2, <2>1
  <2>4. Phase(rcv_pc)[r] = "new" /\ pos - MaxMessages \in 0 .. Len(Data(log))
    BY <1>3, <1>5
  <2> QED
    BY <2>1, <2>2, <2>3, <2>4 DEF BL!Subscribe
<1>6. ASSUME NEW r \in Receiver, ReadItem(r) PROVE BL!Receive(r) \/ BL!Stop(r)
  <2> DEFINE item == buffer[GetIdx(rcv_head[r])]
             lagged == Lagged(item, rcv_head[r])
             skipped == item.data \in Disabled[r]
             c == rcv_head[r] - MaxMessages
  <2>1. /\ rcv_pc[r] = "polling"
        /\ rcv_pc' = [rcv_pc EXCEPT ![r] =
                        IF lagged THEN "lagged"
                        ELSE IF skipped THEN "polling" ELSE "ready"]
        /\ rcv_head' = [rcv_head EXCEPT ![r] = IF lagged THEN @ ELSE @ + 1]
        /\ rcv_got' = [rcv_got EXCEPT ![r] =
                         IF lagged \/ skipped THEN @ ELSE Append(@, item.data)]
        /\ log' = log
    BY <1>6 DEF ReadItem
  <2>2. /\ Phase(rcv_pc)[r] = "reading" /\ Cursor(rcv_pc, rcv_head)[r] = c
    BY <1>2, <2>1
  <2>3. CASE lagged
    <3>1. Phase(rcv_pc') = [Phase(rcv_pc) EXCEPT ![r] = "stopped"]
      BY <1>2, <2>1, <2>3
    <3>2. Cursor(rcv_pc', rcv_head') = [Cursor(rcv_pc, rcv_head) EXCEPT ![r] = c]
      BY <1>2, <2>1, <2>3
    <3>3. rcv_got' = rcv_got
      BY <1>2, <2>1, <2>3
    <3> QED
      BY <2>1, <2>2, <3>1, <3>2, <3>3 DEF BL!Stop
  <2>4. CASE ~lagged
    <3>1. c \in 1 .. Len(log) /\ item.data = log[c].data
      BY <2>4, ReadItemReadsLog
    <3>2. Data(log)[c] = item.data /\ c \in 1 .. Len(Data(log))
      BY <1>3, <3>1
    <3>6. \A x \in Receiver : /\ rcv_pc'[x] = "new" <=> rcv_pc[x] = "new"
                              /\ rcv_pc'[x] = "lagged" <=> rcv_pc[x] = "lagged"
      <4> HIDE DEF lagged, skipped
      <4>1. \/ rcv_pc' = [rcv_pc EXCEPT ![r] = "polling"]
            \/ rcv_pc' = [rcv_pc EXCEPT ![r] = "ready"]
        BY <2>1, <2>4
      <4> QED
        BY <1>2, <2>1, <4>1
    <3>3. Phase(rcv_pc') = Phase(rcv_pc)
      BY <3>6
    <3>4. Cursor(rcv_pc', rcv_head') = [Cursor(rcv_pc, rcv_head) EXCEPT ![r] = c + 1]
      <4> HIDE DEF lagged, skipped
      <4>1. rcv_head' = [rcv_head EXCEPT ![r] = @ + 1]
        BY <2>1, <2>4
      <4>2. (rcv_head[r] + 1) - MaxMessages = c + 1
        BY <1>2
      <4> QED
        BY <1>2, <2>1, <3>6, <4>1, <4>2
    <3>5. rcv_got' = [rcv_got EXCEPT ![r] =
                        IF Data(log)[c] \in Disabled[r] THEN @ ELSE Append(@, Data(log)[c])]
      BY <1>2, <2>1, <2>4, <3>2
    <3> QED
      BY <2>1, <2>2, <3>2, <3>3, <3>4, <3>5 DEF BL!Receive
  <2> QED
    BY <2>3, <2>4
<1>7. ASSUME UNCHANGED <<log, rcv_got, rcv_head>>,
             \A r \in Receiver : /\ rcv_pc'[r] = "new" <=> rcv_pc[r] = "new"
                                 /\ rcv_pc'[r] = "lagged" <=> rcv_pc[r] = "lagged"
      PROVE  UNCHANGED BL!vars
  <2>1. Phase(rcv_pc') = Phase(rcv_pc) /\ Cursor(rcv_pc', rcv_head') = Cursor(rcv_pc, rcv_head)
    BY <1>7
  <2>2. Data(log') = Data(log) /\ rcv_got' = rcv_got
    BY <1>7
  <2> QED
    BY <2>1, <2>2 DEF BL!vars
<1>8. CASE WakeReceivers
  <2>1. /\ UNCHANGED <<log, rcv_got, rcv_head>>
        /\ rcv_pc' = [r \in Receiver |-> IF r \in wakers THEN "ready" ELSE rcv_pc[r]]
    BY <1>8 DEF WakeReceivers
  <2>2. \A r \in wakers : rcv_pc[r] = "parked"
    BY DEF WakersInv
  <2> QED
    BY <1>7, <2>1, <2>2
<1>9. CASE EvictByBytes \/ Publish \/ JournalOtherRing \/ BeginLiveEpoch \/ UNCHANGED vars
  <2>1. UNCHANGED <<log, rcv_got, rcv_head, rcv_pc>>
    BY <1>9 DEF EvictByBytes, Publish, JournalOtherRing, BeginLiveEpoch, vars, rcv
  <2> QED
    BY <1>7, <2>1
<1>10. ASSUME NEW r \in Receiver, Reader(r) PROVE [BL!Next]_(BL!vars)
  <2>1. CASE SubscribeLive(r)
    <3>1. BL!Subscribe(r)
      <4>1. tail - MaxMessages \in 0 .. Len(log)
        BY <1>2
      <4> QED
        BY <1>2, <1>5, <2>1, <4>1 DEF SubscribeLive
    <3> QED
      BY <3>1 DEF BL!Next
  <2>2. CASE \E s \in Slot : SubscribeFrom(r, s)
    <3>1. PICK s \in Slot : SubscribeFrom(r, s)
      BY <2>2
    <3>2. slots[s] \in Positions
      BY <3>1 DEF SubscribeFrom, RingInv, AdvertisedInv
    <3>3. slots[s] \in Nat /\ slots[s] - MaxMessages \in 0 .. Len(log)
      BY <1>2, <3>2 DEF Positions
    <3>4. BL!Subscribe(r)
      BY <1>5, <3>1, <3>3 DEF SubscribeFrom
    <3> QED
      BY <3>4 DEF BL!Next
  <2>3. CASE PollTail(r)
    <3>1. UNCHANGED <<log, rcv_got, rcv_head>> /\ rcv_pc[r] = "ready"
          /\ rcv_pc' = [rcv_pc EXCEPT ![r] = "polling"]
      BY <2>3 DEF PollTail
    <3> QED
      BY <1>2, <1>7, <3>1
  <2>4. CASE ReadItem(r)
    BY <1>6, <2>4 DEF BL!Next
  <2>5. CASE Park(r)
    <3>1. UNCHANGED <<log, rcv_got, rcv_head>> /\ rcv_pc[r] = "polling"
          /\ rcv_pc' = [rcv_pc EXCEPT ![r] = IF r \in AsyncReceiver THEN "parked" ELSE "ready"]
      BY <2>5 DEF Park
    <3> QED
      BY <1>2, <1>7, <3>1
  <2> QED
    BY <1>10, <2>1, <2>2, <2>3, <2>4, <2>5 DEF Reader
<1>11. CASE \E s \in Slot, m \in Message : PushItem(s, m)
  BY <1>4, <1>11 DEF BL!Next
<1> QED
  BY <1>8, <1>9, <1>10, <1>11 DEF Next, Writer

\* For every ring, every byte limit and every interleaving of the writer's steps
\* with the readers': the ring is a broadcast log. A reader is handed the records
\* one after the other from where it subscribed, and what it reads is never the
\* record of another position.
THEOREM RingImplementsBroadcastLog == Spec => ImplementsBroadcastLog
<1>1. Init => BL!Init
  BY InitRefines
<1>2. RingInv /\ WakersInv /\ [Next]_vars => [BL!Next]_(BL!vars)
  BY NextRefines
<1> QED
  BY <1>1, <1>2, RingInvariant, WakersInvariant, PTL DEF Spec, ImplementsBroadcastLog, BL!Spec

-----------------------------------------------------------------------------
(* What the readers are handed *)

\* Handed is the sequence it says it is.
LEMMA HandedDef ==
    ASSUME NEW records \in Seq(Record), NEW first \in Nat \ {0}, NEW hidden
    PROVE  \A n \in 0 .. Len(records) :
             /\ Handed(records, first, hidden)[n] \in Seq(Message)
             /\ Handed(records, first, hidden)[n] =
                  IF n < first THEN <<>>
                  ELSE IF records[n].data \in hidden THEN Handed(records, first, hidden)[n - 1]
                  ELSE Append(Handed(records, first, hidden)[n - 1], records[n].data)
<1> DEFINE N == Len(records)
           V == Seq(Message)
           more(n, v) == IF n < first THEN <<>>
                         ELSE IF records[n].data \in hidden THEN v
                         ELSE Append(v, records[n].data)
           step == [n \in 1 .. N |-> [v \in V |-> more(n, v)]]
           Runs(f) == f = [n \in 0 .. N |->
                             IF n < first THEN <<>>
                             ELSE IF records[n].data \in hidden THEN f[n - 1]
                             ELSE Append(f[n - 1], records[n].data)]
           total == CHOOSE f : Runs(f)
<1>1. N \in Nat /\ \A n \in 1 .. N : records[n].data \in Message
  <2>1. N \in Nat /\ \A n \in 1 .. N : records[n] \in Record
    OBVIOUS
  <2> QED
    BY <2>1 DEF Record
<1>2. \A n \in 1 .. N : \A v \in V : more(n, v) \in V
  BY <1>1
<1> HIDE DEF V, more
<1>3. step \in [1 .. N -> [V -> V]]
  BY <1>2
<1>4. PICK f : Recurs(f, N, V, <<>>, step)
  <2>1. <<>> \in V
    BY DEF V
  <2> HIDE DEF step, N
  <2> QED
    BY <1>1, <1>3, <2>1, Recursion, Zenon
<1>5. /\ f \in [0 .. N -> V] /\ f[0] = <<>>
      /\ \A n \in 1 .. N : f[n] = step[n][f[n - 1]]
  BY <1>4 DEF Recurs
<1>6. ASSUME NEW n \in 0 .. N
      PROVE  f[n] = IF n < first THEN <<>>
                    ELSE IF records[n].data \in hidden THEN f[n - 1]
                    ELSE Append(f[n - 1], records[n].data)
  <2>1. CASE n = 0
    BY <1>5, <2>1
  <2>2. CASE n # 0
    <3>1. n \in 1 .. N /\ n - 1 \in 0 .. N
      BY <1>1, <2>2
    <3>2. f[n - 1] \in V
      BY <1>5, <3>1
    <3>3. f[n] = more(n, f[n - 1])
      BY <1>5, <3>1, <3>2
    <3> QED
      BY <3>3 DEF more
  <2> QED
    BY <2>1, <2>2
<1>7. Runs(f)
  <2> HIDE DEF step, N
  <2> QED
    BY <1>5, <1>6
<1>8. Runs(total)
  <2> HIDE DEF Runs
  <2> QED
    BY <1>7
<1>9. Handed(records, first, hidden) = total
  BY DEF Handed
<1> HIDE DEF total
<1>10. \A n \in 0 .. N : total[n] =
         IF n < first THEN <<>>
         ELSE IF records[n].data \in hidden THEN total[n - 1]
         ELSE Append(total[n - 1], records[n].data)
  <2> HIDE DEF N
  <2> QED
    BY <1>8, Zenon
<1> DEFINE S == {n \in Nat : n <= N => total[n] \in V}
<1>11. 0 \in S
  <2>1. 0 \in 0 .. N /\ 0 < first
    BY <1>1
  <2>2. total[0] = <<>>
    BY <1>10, <2>1
  <2>3. <<>> \in V
    BY DEF V
  <2> QED
    BY <2>2, <2>3
<1>12. ASSUME NEW n \in Nat, n \in S PROVE n + 1 \in S
  <2> SUFFICES ASSUME n + 1 <= N PROVE total[n + 1] \in V
    OBVIOUS
  <2>1. n + 1 \in 1 .. N /\ n + 1 \in 0 .. N /\ (n + 1) - 1 = n /\ n <= N
    BY <1>1
  <2>2. total[n] \in V
    BY <1>12, <2>1
  <2>3. total[n + 1] = more(n + 1, total[n])
    BY <1>10, <2>1 DEF more
  <2> QED
    BY <1>2, <2>1, <2>2, <2>3
<1> HIDE DEF S
<1>13. \A n \in Nat : n \in S
  BY <1>11, <1>12, Induction
<1>14. \A n \in 0 .. N : total[n] \in V
  BY <1>1, <1>13 DEF S
<1> QED
  BY <1>9, <1>10, <1>14 DEF V

\* Nothing is handed before the first record.
LEMMA HandedNothing ==
    ASSUME NEW records \in Seq(Record), NEW first \in Nat \ {0}, NEW hidden,
           NEW n \in 0 .. Len(records), n < first
    PROVE  Handed(records, first, hidden)[n] = <<>>
  BY HandedDef

\* A new record leaves what was handed before it alone.
LEMMA HandedAppend ==
    ASSUME NEW records \in Seq(Record), NEW rec \in Record,
           NEW first \in Nat \ {0}, NEW hidden
    PROVE  \A n \in 0 .. Len(records) :
             Handed(Append(records, rec), first, hidden)[n] = Handed(records, first, hidden)[n]
<1> DEFINE longer == Append(records, rec)
           N == Len(records)
           H(l, n) == Handed(l, first, hidden)[n]
           S == {n \in Nat : n <= N => H(longer, n) = H(records, n)}
<1>1. /\ longer \in Seq(Record) /\ N \in Nat /\ Len(longer) = N + 1
      /\ \A n \in 1 .. N : longer[n] = records[n]
  OBVIOUS
<1> HIDE DEF longer
<1>2. \A n \in 0 .. N : H(longer, n) = IF n < first THEN <<>>
                                       ELSE IF longer[n].data \in hidden THEN H(longer, n - 1)
                                       ELSE Append(H(longer, n - 1), longer[n].data)
  <2>1. \A n \in 0 .. N : n \in 0 .. Len(longer)
    BY <1>1
  <2> QED
    BY <1>1, <2>1, HandedDef
<1>3. \A n \in 0 .. N : H(records, n) = IF n < first THEN <<>>
                                        ELSE IF records[n].data \in hidden THEN H(records, n - 1)
                                        ELSE Append(H(records, n - 1), records[n].data)
  BY HandedDef
<1> HIDE DEF H, N
<1>4. 0 \in S
  <2>1. 0 \in 0 .. N /\ 0 < first
    BY <1>1
  <2> QED
    BY <1>2, <1>3, <2>1
<1>5. ASSUME NEW n \in Nat, n \in S PROVE n + 1 \in S
  <2> SUFFICES ASSUME n + 1 <= N PROVE H(longer, n + 1) = H(records, n + 1)
    OBVIOUS
  <2>1. n + 1 \in 1 .. N /\ n + 1 \in 0 .. N /\ (n + 1) - 1 = n /\ n <= N
    BY <1>1
  <2>2. H(longer, n) = H(records, n) /\ longer[n + 1] = records[n + 1]
    BY <1>1, <1>5, <2>1
  <2>3. H(longer, n + 1) = IF n + 1 < first THEN <<>>
                           ELSE IF longer[n + 1].data \in hidden THEN H(longer, n)
                           ELSE Append(H(longer, n), longer[n + 1].data)
    BY <1>2, <2>1
  <2>4. H(records, n + 1) = IF n + 1 < first THEN <<>>
                            ELSE IF records[n + 1].data \in hidden THEN H(records, n)
                            ELSE Append(H(records, n), records[n + 1].data)
    BY <1>3, <2>1
  <2> QED
    BY <2>2, <2>3, <2>4
<1> HIDE DEF S
<1>6. \A n \in Nat : n \in S
  BY <1>4, <1>5, Induction
<1> QED
  BY <1>1, <1>6 DEF S, H, longer, N

\* Where a reader can be in the log, and what it holds.
DeliveryInv ==
    \A r \in Receiver :
        /\ rcv_pc[r] = "new" => rcv_got[r] = <<>>
        /\ rcv_pc[r] # "new" =>
             /\ rcv_start[r] >= MaxMessages /\ rcv_start[r] <= rcv_head[r]
             /\ rcv_head[r] <= snd_tail + 1

\* Subscribing puts the reader at a record, or before the first one, and a reader
\* moves forward only past records that exist.
LEMMA NextDeliveryInv ==
    ASSUME RingInv, WakersInv, DeliveryInv, DeliveredInOrder, [Next]_vars
    PROVE  DeliveryInv' /\ DeliveredInOrder'
<1> DEFINE H(l, x, n) == Handed(l, Larger(1, x - MaxMessages), Disabled[n])
           Told(l, pc, start, hd, got, r) ==
               /\ pc[r] = "new" => got[r] = <<>>
               /\ pc[r] # "new" =>
                    /\ start[r] >= MaxMessages /\ start[r] <= hd[r]
                    /\ hd[r] <= MaxMessages + Len(l) + 1
                    /\ got[r] = H(l, start[r], r)[Larger(0, hd[r] - 1 - MaxMessages)]
<1>1. /\ MaxMessages \in Nat /\ MaxMessages > 0 /\ snd_tail \in Nat /\ Len(log) \in Nat
      /\ snd_tail = MaxMessages + Len(log)
      /\ tail \in Nat /\ tail >= MaxMessages /\ tail <= snd_tail
      /\ log \in Seq(Record)
      /\ rcv_pc \in [Receiver -> {"new", "ready", "polling", "parked", "lagged"}]
      /\ rcv_head \in [Receiver -> Nat] /\ rcv_start \in [Receiver -> Nat]
      /\ rcv_got \in [Receiver -> Seq(Message)]
  BY RingFacts DEF RingInv, TypeOK, CountersInv
<1>2. \A r \in Receiver : Told(log, rcv_pc, rcv_start, rcv_head, rcv_got, r)
  BY <1>1 DEF DeliveryInv, DeliveredInOrder
<1>3. ASSUME snd_tail' = MaxMessages + Len(log'),
             \A r \in Receiver : Told(log', rcv_pc', rcv_start', rcv_head', rcv_got', r)
      PROVE  DeliveryInv' /\ DeliveredInOrder'
  BY <1>3 DEF DeliveryInv, DeliveredInOrder
<1>4. \A x \in Nat : Larger(1, x - MaxMessages) \in Nat \ {0}
  BY <1>1 DEF Larger
<1>5. ASSUME NEW s \in Slot, NEW m \in Message, PushItem(s, m)
      PROVE  DeliveryInv' /\ DeliveredInOrder'
  <2> DEFINE rec == [slot |-> s, data |-> m, replay_index |-> NextReplayIndex]
  <2>1. /\ log' = Append(log, rec) /\ snd_tail' = snd_tail + 1
        /\ UNCHANGED <<rcv_pc, rcv_start, rcv_head, rcv_got>>
    BY <1>5 DEF PushItem, rcv
  <2>2. rec \in Record
    BY <1>5, PushedRecord DEF Record
  <2> HIDE DEF rec
  <2>3. Len(log') = Len(log) + 1 /\ snd_tail' = MaxMessages + Len(log')
    BY <1>1, <2>1, <2>2
  <2>4. ASSUME NEW r \in Receiver
        PROVE  Told(log', rcv_pc', rcv_start', rcv_head', rcv_got', r)
    <3> DEFINE n == Larger(0, rcv_head[r] - 1 - MaxMessages)
               first == Larger(1, rcv_start[r] - MaxMessages)
    <3>1. CASE rcv_pc[r] # "new"
      <4>1. /\ rcv_start[r] \in Nat /\ rcv_head[r] \in Nat
            /\ rcv_start[r] >= MaxMessages /\ rcv_start[r] <= rcv_head[r]
            /\ rcv_head[r] <= MaxMessages + Len(log) + 1
            /\ rcv_got[r] = Handed(log, first, Disabled[r])[n]
        BY <1>1, <1>2, <3>1
      <4>2. n \in 0 .. Len(log) /\ first \in Nat \ {0}
        BY <1>1, <1>4, <4>1 DEF Larger
      <4> HIDE DEF n, first
      <4>3. Handed(log', first, Disabled[r])[n] = Handed(log, first, Disabled[r])[n]
        BY <1>1, <2>1, <2>2, <4>2, HandedAppend
      <4>4. rcv_head[r] <= MaxMessages + Len(log') + 1
        BY <1>1, <2>3, <4>1
      <4> QED
        BY <2>1, <3>1, <4>1, <4>3, <4>4 DEF n, first
    <3>2. CASE rcv_pc[r] = "new"
      BY <1>2, <2>1, <3>2
    <3> QED
      BY <3>1, <3>2
  <2> HIDE DEF Told
  <2> QED
    BY <1>3, <2>3, <2>4
<1>6. ASSUME UNCHANGED <<log, snd_tail, rcv_start, rcv_head, rcv_got>>,
             \A r \in Receiver : rcv_pc'[r] = "new" <=> rcv_pc[r] = "new"
      PROVE  DeliveryInv' /\ DeliveredInOrder'
  <2>1. \A r \in Receiver : Told(log', rcv_pc', rcv_start', rcv_head', rcv_got', r)
    BY <1>2, <1>6
  <2> HIDE DEF Told
  <2> QED
    BY <1>1, <1>3, <1>6, <2>1
<1>7. ASSUME NEW r \in Receiver, NEW pos \in Nat, rcv_pc[r] = "new", StartAt(r, pos),
             pos - MaxMessages \in 0 .. Len(log)
      PROVE  DeliveryInv' /\ DeliveredInOrder'
  <2>1. /\ rcv_pc' = [rcv_pc EXCEPT ![r] = "ready"]
        /\ rcv_head' = [rcv_head EXCEPT ![r] = pos]
        /\ rcv_start' = [rcv_start EXCEPT ![r] = pos]
        /\ UNCHANGED <<log, snd_tail, rcv_got>>
    BY <1>7 DEF StartAt, sender
  <2>2. /\ rcv_pc'[r] = "ready" /\ rcv_head'[r] = pos /\ rcv_start'[r] = pos
        /\ rcv_got'[r] = <<>>
    BY <1>1, <1>2, <1>7, <2>1
  <2> DEFINE n == Larger(0, pos - 1 - MaxMessages)
             first == Larger(1, pos - MaxMessages)
  <2>3. n \in 0 .. Len(log) /\ n < first /\ first \in Nat \ {0}
    BY <1>1, <1>7 DEF Larger
  <2> HIDE DEF n, first
  <2>4. Handed(log, first, Disabled[r])[n] = <<>>
    <3> DEFINE hidden == Disabled[r]
    <3> HIDE DEF hidden
    <3>1. Handed(log, first, hidden)[n] = <<>>
      BY <1>1, <2>3, HandedNothing, Zenon
    <3> QED
      BY <3>1 DEF hidden
  <2>5. pos >= MaxMessages /\ pos <= MaxMessages + Len(log) + 1
    BY <1>1, <1>7
  <2>6. Told(log', rcv_pc', rcv_start', rcv_head', rcv_got', r)
    BY <2>1, <2>2, <2>4, <2>5 DEF n, first
  <2>7. ASSUME NEW x \in Receiver, x # r
        PROVE  Told(log', rcv_pc', rcv_start', rcv_head', rcv_got', x)
    <3>1. /\ rcv_pc'[x] = rcv_pc[x] /\ rcv_head'[x] = rcv_head[x]
          /\ rcv_start'[x] = rcv_start[x] /\ rcv_got'[x] = rcv_got[x] /\ log' = log
      BY <1>1, <2>1, <2>7
    <3> QED
      BY <1>2, <3>1
  <2> HIDE DEF Told
  <2> QED
    BY <1>1, <1>3, <2>1, <2>6, <2>7
<1>8. ASSUME NEW r \in Receiver, ReadItem(r)
      PROVE  DeliveryInv' /\ DeliveredInOrder'
  <2> DEFINE item == buffer[GetIdx(rcv_head[r])]
             lagged == Lagged(item, rcv_head[r])
             skipped == item.data \in Disabled[r]
             c == rcv_head[r] - MaxMessages
             first == Larger(1, rcv_start[r] - MaxMessages)
             Hand(n) == Handed(log, first, Disabled[r])[n]
  <2>1. /\ rcv_pc[r] = "polling"
        /\ rcv_pc' = [rcv_pc EXCEPT ![r] =
                        IF lagged THEN "lagged"
                        ELSE IF skipped THEN "polling" ELSE "ready"]
        /\ rcv_head' = [rcv_head EXCEPT ![r] = IF lagged THEN @ ELSE @ + 1]
        /\ rcv_got' = [rcv_got EXCEPT ![r] =
                         IF lagged \/ skipped THEN @ ELSE Append(@, item.data)]
        /\ UNCHANGED <<log, snd_tail, rcv_start>>
    BY <1>8 DEF ReadItem, sender
  <2>2. /\ rcv_start[r] \in Nat /\ rcv_head[r] \in Nat
        /\ rcv_start[r] >= MaxMessages /\ rcv_start[r] <= rcv_head[r]
        /\ rcv_head[r] <= MaxMessages + Len(log) + 1
        /\ rcv_got[r] = Hand(Larger(0, rcv_head[r] - 1 - MaxMessages))
    BY <1>1, <1>2, <2>1
  <2>3. CASE lagged
    <3>1. UNCHANGED <<log, snd_tail, rcv_start, rcv_head, rcv_got>>
      BY <1>1, <2>1, <2>3
    <3>2. rcv_pc' = [rcv_pc EXCEPT ![r] = "lagged"]
      BY <2>1, <2>3
    <3>3. \A x \in Receiver : rcv_pc'[x] = "new" <=> rcv_pc[x] = "new"
      BY <1>1, <2>1, <3>2
    <3> QED
      BY <1>6, <3>1, <3>3
  <2>4. CASE ~lagged
    <3>1. c \in 1 .. Len(log) /\ item.data = log[c].data
      BY <2>4, ReadItemReadsLog
    <3> HIDE DEF item, lagged, skipped
    <3>2. /\ rcv_pc'[r] # "new" /\ rcv_start'[r] = rcv_start[r]
          /\ rcv_head'[r] = rcv_head[r] + 1
          /\ rcv_got'[r] = IF skipped THEN rcv_got[r] ELSE Append(rcv_got[r], item.data)
      <4>1. rcv_pc'[r] = "polling" \/ rcv_pc'[r] = "ready"
        BY <1>1, <2>1, <2>4
      <4> QED
        BY <1>1, <2>1, <2>4, <4>1
    <3>3. /\ c \in 0 .. Len(log) /\ first \in Nat \ {0} /\ ~(c < first) /\ c - 1 \in Nat
          /\ Larger(0, rcv_head[r] - 1 - MaxMessages) = c - 1
          /\ Larger(0, (rcv_head[r] + 1) - 1 - MaxMessages) = c
      <4>1. /\ c \in Nat /\ c >= 1 /\ c <= Len(log) /\ rcv_head[r] = c + MaxMessages
            /\ rcv_start[r] - MaxMessages \in Nat /\ rcv_start[r] - MaxMessages <= c
        <5>1. /\ rcv_start[r] \in Nat /\ rcv_head[r] \in Nat /\ MaxMessages \in Nat
              /\ rcv_start[r] >= MaxMessages /\ rcv_start[r] <= rcv_head[r]
          BY <1>1, <2>2
        <5>2. c \in 1 .. Len(log) /\ Len(log) \in Nat
          BY <1>1, <3>1
        <5> QED
          BY <5>1, <5>2
      <4>2. first \in Nat \ {0} /\ ~(c < first)
        BY <4>1 DEF Larger
      <4> HIDE DEF c, first
      <4>3. rcv_head[r] - 1 - MaxMessages = c - 1 /\ (rcv_head[r] + 1) - 1 - MaxMessages = c
        BY <1>1, <4>1
      <4> QED
        BY <1>1, <4>1, <4>2, <4>3 DEF Larger
    <3>4. Hand(c) = IF log[c].data \in Disabled[r] THEN Hand(c - 1)
                    ELSE Append(Hand(c - 1), log[c].data)
      <4> HIDE DEF first, c
      <4> QED
        BY <1>1, <3>3, HandedDef
    <3>5. rcv_got'[r] = Hand(c)
      BY <2>2, <3>1, <3>2, <3>3, <3>4 DEF skipped
    <3>6. (rcv_head[r] + 1) <= MaxMessages + Len(log) + 1 /\ rcv_start[r] <= rcv_head[r] + 1
      BY <1>1, <2>2, <3>1
    <3>7. Told(log', rcv_pc', rcv_start', rcv_head', rcv_got', r)
      <4> HIDE DEF c
      <4> QED
        BY <2>1, <2>2, <3>2, <3>3, <3>5, <3>6
    <3>8. ASSUME NEW x \in Receiver, x # r
          PROVE  Told(log', rcv_pc', rcv_start', rcv_head', rcv_got', x)
      <4>1. /\ rcv_pc'[x] = rcv_pc[x] /\ rcv_head'[x] = rcv_head[x]
            /\ rcv_start'[x] = rcv_start[x] /\ rcv_got'[x] = rcv_got[x] /\ log' = log
        BY <1>1, <2>1, <3>8
      <4> QED
        BY <1>2, <4>1
    <3> HIDE DEF Told
    <3> QED
      BY <1>1, <1>3, <2>1, <3>7, <3>8
  <2> QED
    BY <2>3, <2>4
<1>9. CASE WakeReceivers
  <2>1. /\ UNCHANGED <<log, snd_tail, rcv_start, rcv_head, rcv_got>>
        /\ rcv_pc' = [r \in Receiver |-> IF r \in wakers THEN "ready" ELSE rcv_pc[r]]
    BY <1>9 DEF WakeReceivers, sender
  <2> QED
    BY <1>6, <2>1 DEF WakersInv
<1>10. CASE EvictByBytes \/ Publish \/ JournalOtherRing \/ BeginLiveEpoch \/ UNCHANGED vars
  <2>1. UNCHANGED <<log, snd_tail, rcv_start, rcv_head, rcv_got, rcv_pc>>
    BY <1>10 DEF EvictByBytes, Publish, JournalOtherRing, BeginLiveEpoch, vars, rcv, sender
  <2> QED
    BY <1>6, <2>1
<1>11. ASSUME NEW r \in Receiver, Reader(r) PROVE DeliveryInv' /\ DeliveredInOrder'
  <2>1. CASE SubscribeLive(r)
    <3>1. tail - MaxMessages \in 0 .. Len(log)
      BY <1>1
    <3> QED
      BY <1>1, <1>7, <2>1, <3>1 DEF SubscribeLive
  <2>2. CASE \E s \in Slot : SubscribeFrom(r, s)
    <3>1. PICK s \in Slot : SubscribeFrom(r, s)
      BY <2>2
    <3>2. slots[s] \in Positions
      BY <3>1 DEF SubscribeFrom, RingInv, AdvertisedInv
    <3>3. slots[s] \in Nat /\ slots[s] - MaxMessages \in 0 .. Len(log)
      BY <1>1, <3>2 DEF Positions
    <3> QED
      BY <1>7, <3>1, <3>3 DEF SubscribeFrom
  <2>3. CASE PollTail(r)
    <3>1. /\ UNCHANGED <<log, snd_tail, rcv_start, rcv_head, rcv_got>> /\ rcv_pc[r] = "ready"
          /\ rcv_pc' = [rcv_pc EXCEPT ![r] = "polling"]
      BY <2>3 DEF PollTail, sender
    <3> QED
      BY <1>1, <1>6, <3>1
  <2>4. CASE ReadItem(r)
    BY <1>8, <2>4
  <2>5. CASE Park(r)
    <3>1. /\ UNCHANGED <<log, snd_tail, rcv_start, rcv_head, rcv_got>> /\ rcv_pc[r] = "polling"
          /\ rcv_pc' = [rcv_pc EXCEPT ![r] = IF r \in AsyncReceiver THEN "parked" ELSE "ready"]
      BY <2>5 DEF Park, sender
    <3> QED
      BY <1>1, <1>6, <3>1
  <2> QED
    BY <1>11, <2>1, <2>2, <2>3, <2>4, <2>5 DEF Reader
<1> QED
  BY <1>5, <1>9, <1>10, <1>11 DEF Next, Writer

\* For every ring and every interleaving of its writer with its readers: a reader
\* is handed a contiguous run of the log from where it subscribed, in order and
\* without repeats, less the messages its filter disables.
THEOREM DeliveryIsInOrder == Spec => []DeliveredInOrder
<1>1. Init => DeliveryInv /\ DeliveredInOrder
  BY DEF Init, DeliveryInv, DeliveredInOrder
<1>2. RingInv /\ WakersInv /\ DeliveryInv /\ DeliveredInOrder /\ [Next]_vars
        => DeliveryInv' /\ DeliveredInOrder'
  BY NextDeliveryInv
<1> QED
  BY <1>1, <1>2, RingInvariant, WakersInvariant, PTL DEF Spec
=============================================================================
