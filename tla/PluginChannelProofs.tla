------------------------ MODULE PluginChannelProofs ------------------------
(***************************************************************************)
(* For every capacity, byte limit, set of slots and number of receivers:   *)
(* the slot map of the plugin's ring is well typed, offers only messages   *)
(* the ring holds and repairs the statuses of ancestors (SlotMapInv); no   *)
(* wakeup is lost (ParkedHasReadAll); the ring is a broadcast log for its  *)
(* receivers (ImplementsBroadcastLog).                                     *)
(*                                                                         *)
(* SlotMapInv speaks of the states in which the mutex is free.  PlugInv    *)
(* says what holds in the middle of a push: what the items of the buffer   *)
(* hold, that a slot whose head was evicted is about to be removed, that   *)
(* recorded parents are those of the log, and that every status that waits *)
(* in the batch finds its parent repaired or preceded by its repair.       *)
(***************************************************************************)
EXTENDS PluginChannel, RingLemmas

\* How the counters relate to the log.
CountersInv ==
    /\ setup \in Setups
    /\ tail = MaxMessages + Len(log)
    /\ head >= MaxMessages + 1
    /\ head <= tail + 1
    /\ tail - head < MaxMessages
    /\ lock = "evict" => head <= tail
    /\ lock # "evict" => removed_max_slot = NoSlot
    /\ lock = "free" => pending = <<>>

\* The items that hold data are the messages from head to tail.
BufferInv ==
    /\ \A i \in 0 .. MaxMessages - 1 :
         /\ buffer[i].slot \in Slot \cup {0}
         /\ buffer[i].data # NoData =>
              /\ buffer[i].pos \in head .. tail
              /\ GetIdx(buffer[i].pos) = i
              /\ buffer[i].data = At(buffer[i].pos)
              /\ At(buffer[i].pos).slot \in {NoSlot, buffer[i].slot}
    /\ \A p \in head .. tail :
         buffer[GetIdx(p)].data # NoData /\ buffer[GetIdx(p)].pos = p

\* An item is never older than a message that was written to it.
PositionInv ==
    \A p \in MaxMessages + 1 .. tail : buffer[GetIdx(p)].pos >= p

\* The byte account, with the prefix sums of the sizes as its witness.
AccountInv ==
    \E sum \in [0 .. Len(log) -> Nat] :
        /\ \A n \in 1 .. Len(log) : sum[n] = sum[n - 1] + Size(log[n])
        /\ \A a, b \in 0 .. Len(log) : a <= b => sum[a] <= sum[b]
        /\ bytes_total = sum[tail - MaxMessages] - sum[head - 1 - MaxMessages]

\* A known slot starts at one of its own messages, and when that one is evicted
\* the slot is about to be removed.
HeadsInv ==
    \A s \in Slot : Known(s) =>
        /\ slots[s].head \in MaxMessages + 1 .. tail
        /\ At(slots[s].head).slot = s
        /\ slots[s].head >= head \/ s <= removed_max_slot

\* Recorded parents are the validator's, and a parent reported since the head of
\* the slot is recorded.
ParentsInv ==
    /\ \A s \in Slot : Known(s) => slots[s].parent_slot \in {ParentOf[s], NoSlot}
    /\ \A j \in 1 .. Len(log) :
         (/\ Known(log[j].slot) /\ log[j].parent # NoSlot
          /\ j + MaxMessages >= slots[log[j].slot].head)
         => slots[log[j].slot].parent_slot = log[j].parent

\* The known parent q of slot s does not lack the status st.
Repaired(s, st) ==
    \A q \in Slot : Known(s) /\ slots[s].parent_slot = q /\ Known(q) => ~LacksStatus(q, st)

\* The batch climbs from the oldest ancestor with one status, and each parent is
\* repaired already or by the message before.
BatchInv ==
    /\ Len(pending) > 1 => \A k \in 1 .. Len(pending) : pending[k].kind = "slot"
    /\ \A k, l \in 1 .. Len(pending) :
         k < l => pending[k].slot < pending[l].slot /\ pending[k].status = pending[l].status
    /\ \A k \in 1 .. Len(pending) : pending[k].kind = "slot" =>
         \/ Repaired(pending[k].slot, pending[k].status)
         \/ k > 1 /\ pending[k - 1].slot = slots[pending[k].slot].parent_slot

\* AncestorsGetStatus, in the middle of a push too.
StatusInv ==
    \A i \in 1 .. Len(log), j \in 1 .. Len(log), p \in Slot :
        (/\ j < i /\ log[i].kind = "slot" /\ log[j].slot = log[i].slot /\ log[j].parent = p
         /\ Known(log[i].slot) /\ slots[log[i].slot].parent_slot = p
         /\ j + MaxMessages >= slots[log[i].slot].head
         /\ Known(p) /\ slots[p].head < MaxMessages + i)
        => ~LacksStatus(p, log[i].status)

PlugInv ==
    /\ TypeOK /\ CountersInv /\ BufferInv /\ PositionInv /\ AccountInv
    /\ HeadsInv /\ ParentsInv /\ BatchInv /\ StatusInv

\* Exactly the parked receivers have a waker, in the state or taken by a push, and
\* outside of a push one whose waker is in the state has read everything.
WakersInv ==
    /\ wakers \cap to_wake = {}
    /\ \A r \in Receiver :
         /\ rcv_pc[r] # "new" => next[r] >= MaxMessages
         /\ rcv_pc[r] = "parked" <=> r \in wakers \cup to_wake
         /\ r \in wakers /\ lock = "free" => next[r] > tail \/ next[r] = MaxMessages

-----------------------------------------------------------------------------
(* Slots, messages and ring positions *)

\* Slots are numbers, and NoSlot is not one of them.
LEMMA SlotFacts ==
    /\ NoSlot \notin Slot /\ NoSlot \in Int
    /\ \A s \in Slot : s \in Nat /\ s \in Int /\ s > NoSlot
  BY ConstantsAssumption DEF NoSlot

\* The fields of a message.
LEMMA MessageFacts ==
    ASSUME NEW m \in Message
    PROVE  /\ m.slot \in Slot \cup {NoSlot} /\ m.parent \in Slot \cup {NoSlot}
           /\ m.parent # NoSlot => m.slot \in Slot /\ m.parent = ParentOf[m.slot]
           /\ m.kind = "slot" => m.slot \in Slot /\ m.status \in Status
           /\ m.kind # "slot" => m.status = NoStatus
           /\ Size(m) \in Nat /\ m # NoData
  BY SlotFacts DEF Message, Size, NoData

\* What the configuration gives.
LEMMA SetupFacts ==
    ASSUME setup \in Setups
    PROVE  MaxMessages \in Nat /\ MaxMessages > 0
  BY ConstantsAssumption DEF MaxMessages

\* Shared::get_idx stays inside the buffer, separates the positions of one lap and
\* identifies positions a lap apart.
LEMMA GetIdxFacts ==
    ASSUME setup \in Setups
    PROVE  /\ \A p \in Nat : GetIdx(p) \in 0 .. MaxMessages - 1
           /\ \A p, q \in Nat : p < q /\ q < p + MaxMessages => GetIdx(p) # GetIdx(q)
           /\ \A p \in Nat : p >= MaxMessages => GetIdx(p - MaxMessages) = GetIdx(p)
<1>0. MaxMessages \in Nat \ {0}
  BY SetupFacts
<1>1. \A p \in Nat : GetIdx(p) \in 0 .. MaxMessages - 1
  BY <1>0, DivMod, Zenon DEF GetIdx
<1>2. \A p, q \in Nat : p < q /\ q < p + MaxMessages => GetIdx(p) # GetIdx(q)
  BY <1>0, ModDistinct, Zenon DEF GetIdx
<1>3. \A p \in Nat : p >= MaxMessages => GetIdx(p - MaxMessages) = GetIdx(p)
  BY <1>0, ModLap, Zenon DEF GetIdx
<1> QED
  BY <1>1, <1>2, <1>3

\* The entry of a known slot is a proper entry, which starts behind position 0.
LEMMA KnownFacts ==
    ASSUME TypeOK, NEW s, Known(s)
    PROVE  /\ s \in Slot /\ slots[s] \in Entry /\ slots[s] # NoEntry
           /\ slots[s] \in [head : Nat, parent_slot : Slot \cup {NoSlot},
                            confirmed : BOOLEAN, finalized : BOOLEAN]
  BY DEF TypeOK, Known, Entry

\* What push_msg records of a message in the entry of its slot.
LEMMA EntryAfterFacts ==
    ASSUME TypeOK, NEW m \in Message, m.slot \in Slot
    PROVE  /\ EntryAfter(m) \in [head : Nat, parent_slot : Slot \cup {NoSlot},
                                 confirmed : BOOLEAN, finalized : BOOLEAN]
           /\ Known(m.slot) => EntryAfter(m).head = slots[m.slot].head
           /\ ~Known(m.slot) => EntryAfter(m).head = tail + 1
           /\ m.parent # NoSlot => EntryAfter(m).parent_slot = m.parent
           /\ m.parent = NoSlot /\ Known(m.slot) =>
                EntryAfter(m).parent_slot = slots[m.slot].parent_slot
           /\ m.parent = NoSlot /\ ~Known(m.slot) => EntryAfter(m).parent_slot = NoSlot
           /\ EntryAfter(m).confirmed =
                ((Known(m.slot) /\ slots[m.slot].confirmed) \/ m.status = "Confirmed")
           /\ EntryAfter(m).finalized =
                ((Known(m.slot) /\ slots[m.slot].finalized) \/ m.status = "Rooted")
<1> DEFINE E == [head : Nat, parent_slot : Slot \cup {NoSlot},
                 confirmed : BOOLEAN, finalized : BOOLEAN]
<1>0. m.parent \in Slot \cup {NoSlot} /\ tail + 1 \in Nat
  BY MessageFacts DEF TypeOK
<1>1. CASE Known(m.slot)
  <2>1. slots[m.slot] \in E
    BY <1>1, KnownFacts
  <2>2. EntryAfter(m) = [slots[m.slot] EXCEPT
                           !.parent_slot = IF m.parent # NoSlot THEN m.parent ELSE @,
                           !.confirmed = @ \/ m.status = "Confirmed",
                           !.finalized = @ \/ m.status = "Rooted"]
    BY <1>1 DEF EntryAfter
  <2> QED
    BY <1>0, <1>1, <2>1, <2>2
<1>2. CASE ~Known(m.slot)
  <2> DEFINE fresh == [head |-> tail + 1, parent_slot |-> NoSlot,
                       confirmed |-> FALSE, finalized |-> FALSE]
  <2>1. /\ fresh \in E /\ fresh.head = tail + 1 /\ fresh.parent_slot = NoSlot
        /\ ~fresh.confirmed /\ ~fresh.finalized
    BY <1>0
  <2>2. EntryAfter(m) = [fresh EXCEPT
                           !.parent_slot = IF m.parent # NoSlot THEN m.parent ELSE @,
                           !.confirmed = @ \/ m.status = "Confirmed",
                           !.finalized = @ \/ m.status = "Rooted"]
    BY <1>2 DEF EntryAfter
  <2> HIDE DEF fresh
  <2> QED
    BY <1>0, <1>2, <2>1, <2>2
<1> QED
  BY <1>1, <1>2

-----------------------------------------------------------------------------
(* PlugInv is an inductive invariant: start and frame *)

\* A fresh ring satisfies the invariant.
LEMMA InitPlugInv == Init => PlugInv
<1> SUFFICES ASSUME Init PROVE PlugInv
  OBVIOUS
<1>0. MaxMessages \in Nat /\ MaxMessages > 0 /\ setup \in Setups
  BY SetupFacts DEF Init
<1>1. TypeOK
  BY <1>0 DEF Init, TypeOK, Entry, NoSlot, Open
<1>2. CountersInv
  BY <1>0 DEF Init, CountersInv
<1>3. BufferInv /\ PositionInv
  BY <1>0 DEF Init, BufferInv, PositionInv
<1>4. AccountInv
  <2> DEFINE zero == [n \in 0 .. 0 |-> 0]
  <2>1. /\ Len(log) = 0 /\ bytes_total = 0 /\ tail - MaxMessages = 0
        /\ head - 1 - MaxMessages = 0
    BY <1>0 DEF Init
  <2>2. /\ zero \in [0 .. 0 -> Nat] /\ bytes_total = zero[0] - zero[0]
        /\ \A n \in 1 .. 0 : zero[n] = zero[n - 1] + Size(log[n])
        /\ \A a, b \in 0 .. 0 : a <= b => zero[a] <= zero[b]
    BY <2>1
  <2> HIDE DEF zero
  <2> QED
    BY <2>1, <2>2, Zenon DEF AccountInv
<1>5. HeadsInv /\ ParentsInv /\ BatchInv /\ StatusInv
  BY DEF Init, HeadsInv, ParentsInv, BatchInv, StatusInv, Known
<1> QED
  BY <1>1, <1>2, <1>3, <1>4, <1>5 DEF PlugInv

\* A step that leaves the state, the push and what the items hold alone keeps all
\* but types.
LEMMA FramePlugInv ==
    ASSUME PlugInv, TypeOK', UNCHANGED <<setup, state, push, log>>,
           \A i \in 0 .. MaxMessages - 1 :
               /\ buffer'[i].pos = buffer[i].pos
               /\ buffer'[i].slot = buffer[i].slot
               /\ buffer'[i].data = buffer[i].data
    PROVE  PlugInv'
<1>0. /\ MaxMessages \in Nat /\ MaxMessages > 0 /\ setup \in Setups
      /\ MaxMessages' = MaxMessages
      /\ \A p \in Nat : GetIdx(p) \in 0 .. MaxMessages - 1
      /\ head \in Nat /\ tail \in Nat
  BY SetupFacts, GetIdxFacts DEF PlugInv, CountersInv, MaxMessages, TypeOK
<1>1. CountersInv'
  BY DEF PlugInv, CountersInv, state, push, MaxMessages
<1>2. BufferInv'
  <2>1. \A i \in 0 .. MaxMessages - 1 :
          /\ buffer'[i].slot \in Slot \cup {0}
          /\ buffer'[i].data # NoData =>
              /\ buffer'[i].pos \in head .. tail
              /\ GetIdx(buffer'[i].pos) = i
              /\ buffer'[i].data = At(buffer'[i].pos)
              /\ At(buffer'[i].pos).slot \in {NoSlot, buffer'[i].slot}
    BY DEF PlugInv, BufferInv
  <2>2. ASSUME NEW p \in head .. tail
        PROVE  buffer'[GetIdx(p)].data # NoData /\ buffer'[GetIdx(p)].pos = p
    BY <1>0 DEF PlugInv, BufferInv
  <2> QED
    BY <2>1, <2>2 DEF BufferInv, state, At, GetIdx, MaxMessages
<1>3. PositionInv'
  <2>1. ASSUME NEW p \in MaxMessages + 1 .. tail PROVE buffer'[GetIdx(p)].pos >= p
    BY <1>0 DEF PlugInv, PositionInv
  <2> QED
    BY <2>1 DEF PositionInv, state, GetIdx, MaxMessages
<1>4. AccountInv'
  BY DEF PlugInv, AccountInv, state, MaxMessages, Size
<1>5. HeadsInv' /\ ParentsInv'
  BY DEF PlugInv, HeadsInv, ParentsInv, state, push, MaxMessages, At, Known
<1>6. BatchInv'
  BY DEF PlugInv, BatchInv, Repaired, state, push, Known, LacksStatus
<1>7. StatusInv'
  BY DEF PlugInv, StatusInv, state, MaxMessages, Known, LacksStatus
<1> QED
  BY <1>1, <1>2, <1>3, <1>4, <1>5, <1>6, <1>7 DEF PlugInv

-----------------------------------------------------------------------------
(* The steps of receivers and of close *)

\* A receiver takes an item as a message or as a lag.
LEMMA TakeItemTypes ==
    ASSUME TypeOK, setup \in Setups, NEW r \in Receiver,
           NEW i \in 0 .. MaxMessages - 1, TakeItem(r, buffer[i])
    PROVE  /\ rcv_pc' \in [Receiver -> {"new", "ready", "recheck", "parked", "lagged", "closed"}]
           /\ next' \in [Receiver -> Nat]
           /\ rcv_got' \in [Receiver -> Seq(Message)]
<1> DEFINE item == buffer[i]
<1>1. item.data \in Message \cup {NoData} /\ next[r] + 1 \in Nat /\ rcv_got[r] \in Seq(Message)
  <2>1. item \in [pos : Nat, slot : Nat, data : Message \cup {NoData}, closed : BOOLEAN]
    BY DEF TypeOK
  <2>2. next[r] \in Nat /\ rcv_got[r] \in Seq(Message)
    BY DEF TypeOK
  <2> QED
    BY <2>1, <2>2
<1>2. item.data # NoData => item.data \in Message /\ Append(rcv_got[r], item.data) \in Seq(Message)
  BY <1>1
<1>3. next' \in [Receiver -> Nat]
  BY <1>1 DEF TypeOK, TakeItem
<1>4. rcv_pc' \in [Receiver -> {"new", "ready", "recheck", "parked", "lagged", "closed"}]
  BY DEF TypeOK, TakeItem
<1>5. rcv_got' \in [Receiver -> Seq(Message)]
  <2> HIDE DEF item
  <2>1. /\ rcv_got \in [Receiver -> Seq(Message)]
        /\ rcv_got' = IF item.data = NoData THEN rcv_got
                  ELSE [rcv_got EXCEPT ![r] =
                          IF item.data.kind \in Disabled[r] THEN @ ELSE Append(@, item.data)]
    BY DEF TypeOK, TakeItem, item
  <2> QED
    BY <1>1, <1>2, <2>1
<1> QED
  BY <1>3, <1>4, <1>5

\* The steps of a receiver.
LEMMA ReaderPlugInv ==
    ASSUME PlugInv, UNCHANGED setup, NEW r \in Receiver, Reader(r)
    PROVE  PlugInv'
<1>0. TypeOK /\ setup \in Setups /\ MaxMessages' = MaxMessages /\ tail \in Nat
  BY DEF PlugInv, CountersInv, MaxMessages, TypeOK
<1>1. CASE SubscribeLive(r)
  <2>1. TypeOK'
    BY <1>0, <1>1 DEF TypeOK, SubscribeLive, state, push
  <2> QED
    BY <1>1, <2>1, FramePlugInv DEF SubscribeLive
<1>2. CASE \E s \in Slot : SubscribeFrom(r, s)
  <2>1. PICK s \in Slot : SubscribeFrom(r, s)
    BY <1>2
  <2>2. slots[s].head \in Nat
    BY <1>0, <2>1, KnownFacts DEF SubscribeFrom
  <2>3. TypeOK'
    BY <1>0, <2>1, <2>2 DEF TypeOK, SubscribeFrom, state, push
  <2> QED
    BY <2>1, <2>3, FramePlugInv DEF SubscribeFrom
<1>3. CASE Peek(r)
  <2>1. GetIdx(next[r]) \in 0 .. MaxMessages - 1
    BY <1>0, GetIdxFacts DEF TypeOK
  <2>2. /\ rcv_pc' \in [Receiver -> {"new", "ready", "recheck", "parked", "lagged", "closed"}]
        /\ next' \in [Receiver -> Nat]
        /\ rcv_got' \in [Receiver -> Seq(Message)]
    <3> DEFINE item == buffer[GetIdx(next[r])]
    <3>1. CASE item.closed \/ Moved(item, next[r])
      BY <1>0, <1>3, <3>1 DEF Peek, TypeOK
    <3>2. CASE ~(item.closed \/ Moved(item, next[r]))
      <4>1. TakeItem(r, item)
        BY <1>3, <3>2 DEF Peek
      <4> QED
        BY <1>0, <2>1, <4>1, TakeItemTypes
    <3> QED
      BY <3>1, <3>2
  <2>3. TypeOK'
    BY <1>0, <1>3, <2>2 DEF TypeOK, Peek, state, push
  <2> QED
    BY <1>3, <2>3, FramePlugInv DEF Peek
<1>4. CASE Recheck(r)
  <2>1. GetIdx(next[r]) \in 0 .. MaxMessages - 1
    BY <1>0, GetIdxFacts DEF TypeOK
  <2>2. /\ rcv_pc' \in [Receiver -> {"new", "ready", "recheck", "parked", "lagged", "closed"}]
        /\ next' \in [Receiver -> Nat]
        /\ rcv_got' \in [Receiver -> Seq(Message)]
    <3> DEFINE item == buffer[GetIdx(next[r])]
    <3>1. CASE item.closed \/ Moved(item, next[r])
      BY <1>0, <1>4, <3>1 DEF Recheck, TypeOK
    <3>2. CASE ~(item.closed \/ Moved(item, next[r]))
      <4>1. TakeItem(r, item)
        BY <1>4, <3>2 DEF Recheck
      <4> QED
        BY <1>0, <2>1, <4>1, TakeItemTypes
    <3> QED
      BY <3>1, <3>2
  <2>3. wakers' \subseteq Receiver
    BY <1>0, <1>4 DEF TypeOK, Recheck
  <2>4. TypeOK'
    BY <1>0, <1>4, <2>2, <2>3 DEF TypeOK, Recheck, state, push
  <2> QED
    BY <1>4, <2>4, FramePlugInv DEF Recheck
<1> QED
  BY <1>1, <1>2, <1>3, <1>4 DEF Reader

\* The steps of close, the release of the mutex and the wakes that follow it.
LEMMA WakePlugInv ==
    ASSUME PlugInv, UNCHANGED setup,
           PushEnd \/ CloseItem \/ CloseWake \/ \E r \in Receiver : Wake(r)
    PROVE  PlugInv'
<1>0. /\ TypeOK /\ setup \in Setups /\ MaxMessages' = MaxMessages
      /\ MaxMessages \in Nat /\ MaxMessages > 0
  BY SetupFacts DEF PlugInv, CountersInv, MaxMessages, TypeOK
<1>1. CASE PushEnd
  <2>1. TypeOK'
    BY <1>0, <1>1 DEF TypeOK, PushEnd, state, rcv
  <2>2. CountersInv'
    BY <1>1 DEF PlugInv, CountersInv, PushEnd, state, MaxMessages
  <2>3. BufferInv' /\ PositionInv' /\ AccountInv' /\ HeadsInv' /\ ParentsInv'
    BY <1>1 DEF PlugInv, PushEnd, state, MaxMessages, BufferInv, PositionInv, AccountInv,
                HeadsInv, ParentsInv, At, GetIdx, Known, Size
  <2>4. BatchInv' /\ StatusInv'
    BY <1>1 DEF PlugInv, PushEnd, state, MaxMessages, BatchInv, StatusInv, Repaired, Known,
                LacksStatus
  <2> QED
    BY <2>1, <2>2, <2>3, <2>4 DEF PlugInv
<1>2. CASE CloseItem
  <2> DEFINE i == IF closing = Open THEN 0 ELSE closing
  <2>1. i \in 0 .. MaxMessages - 1 /\ i + 1 \in Open .. MaxMessages + 1
    BY <1>0, <1>2 DEF CloseItem, TypeOK, Open
  <2>2. buffer' = [buffer EXCEPT ![i].closed = TRUE] /\ closing' = i + 1
    BY <1>2 DEF CloseItem
  <2> HIDE DEF i
  <2>3. \A j \in 0 .. MaxMessages - 1 :
          /\ buffer'[j].pos = buffer[j].pos
          /\ buffer'[j].slot = buffer[j].slot
          /\ buffer'[j].data = buffer[j].data
    BY <1>0, <2>1, <2>2 DEF TypeOK
  <2>4. buffer' \in [0 .. MaxMessages - 1 ->
                     [pos : Nat, slot : Nat, data : Message \cup {NoData}, closed : BOOLEAN]]
    BY <1>0, <2>1, <2>2 DEF TypeOK
  <2>5. TypeOK'
    BY <1>0, <1>2, <2>1, <2>2, <2>4 DEF TypeOK, CloseItem, state, push, rcv
  <2> QED
    BY <1>2, <2>3, <2>5, FramePlugInv DEF CloseItem
<1>3. CASE CloseWake
  <2>1. TypeOK'
    BY <1>0, <1>3 DEF TypeOK, CloseWake, state, push, Open
  <2> QED
    BY <1>3, <2>1, FramePlugInv DEF CloseWake
<1>4. ASSUME NEW r \in Receiver, Wake(r) PROVE PlugInv'
  <2>1. TypeOK'
    BY <1>0, <1>4 DEF TypeOK, Wake, state, push
  <2> QED
    BY <1>4, <2>1, FramePlugInv DEF Wake
<1> QED
  BY <1>1, <1>2, <1>3, <1>4

-----------------------------------------------------------------------------
(* The batch of a push *)

\* A batch is not empty, ends with the message of the push and climbs to it, each
\* message being the repair of the parent of the one after it.
Chain(q, m) ==
    /\ q \in Seq(Message) /\ Len(q) >= 1
    /\ \A k \in 1 .. Len(q) : q[k].kind = "slot" /\ q[k].status = m.status
    /\ \A k, l \in 1 .. Len(q) : k < l => q[k].slot < q[l].slot
    /\ \A k \in 2 .. Len(q) : q[k - 1].slot = slots[q[k].slot].parent_slot

\* One turn of the loop keeps the chain, and climbs to a smaller slot or is done.
LEMMA TurnKeepsChain ==
    ASSUME TypeOK, ParentsInv, NEW m \in Message, NEW q, Chain(q, m)
    PROVE  /\ Chain(WithMissedParent(q), m)
           /\ \/ WithMissedParent(q) = q
              \/ WithMissedParent(q)[1].slot < q[1].slot
<1> DEFINE x == Head(q)
           p == KnownParent(x.slot)
           y == SlotMsg(p, slots[p].parent_slot, x.status)
<1>1. /\ x = q[1] /\ x \in Message /\ x.kind = "slot" /\ x.status = m.status /\ Len(q) \in Nat
      /\ q \in Seq(Message) /\ Len(q) >= 1
  BY DEF Chain
<1>2. CASE p # NoSlot /\ LacksStatus(p, x.status)
  <2>1. Known(x.slot) /\ Known(slots[x.slot].parent_slot) /\ p = slots[x.slot].parent_slot
    BY <1>2 DEF KnownParent
  <2>2. /\ x.slot \in Slot /\ p \in Slot /\ p < x.slot
        /\ slots[p].parent_slot \in Slot \cup {NoSlot}
        /\ slots[p].parent_slot \in {ParentOf[p], NoSlot}
    <3>1. x.slot \in Slot /\ p \in Slot /\ Known(p)
      BY <2>1, KnownFacts
    <3>2. /\ slots[p].parent_slot \in {ParentOf[p], NoSlot}
          /\ p \in {ParentOf[x.slot], NoSlot}
      BY <2>1, <3>1 DEF ParentsInv
    <3>3. p = ParentOf[x.slot] /\ p # NoSlot
      BY <1>2, <3>2
    <3>4. slots[p].parent_slot \in Slot \cup {NoSlot}
      BY <3>1, KnownFacts
    <3> QED
      BY <3>1, <3>2, <3>3, <3>4, ConstantsAssumption
  <2>3. /\ y \in Message /\ y.kind = "slot" /\ y.slot = p /\ y.status = m.status
    <3>1. x.status \in Status
      BY <1>1, MessageFacts
    <3> QED
      BY <1>1, <2>2, <3>1 DEF SlotMsg, Message
  <2>4. WithMissedParent(q) = <<y>> \o q
    BY <1>2 DEF WithMissedParent
  <2> DEFINE w == <<y>> \o q
  <2> HIDE DEF x, p, y
  <2>5. /\ w \in Seq(Message) /\ Len(w) = Len(q) + 1 /\ w[1] = y
        /\ \A k \in 1 .. Len(q) : w[k + 1] = q[k]
    BY <1>1, <2>3
  <2>6. \A k \in 2 .. Len(w) : k - 1 \in 1 .. Len(q) /\ w[k] = q[k - 1]
    <3>1. \A k \in 2 .. Len(w) : k - 1 \in 1 .. Len(q) /\ (k - 1) + 1 = k
      BY <1>1, <2>5
    <3> QED
      BY <2>5, <3>1
  <2> HIDE DEF w
  <2>7. \A k \in 1 .. Len(w) : k = 1 \/ k \in 2 .. Len(w)
    BY <1>1, <2>5
  <2>8. \A k \in 1 .. Len(w) : w[k].kind = "slot" /\ w[k].status = m.status
    BY <2>3, <2>5, <2>6, <2>7 DEF Chain
  <2>9. \A k \in 1 .. Len(q) : q[k].slot \in Int /\ q[k].slot >= x.slot /\ x.slot \in Int
    <3>1. \A k \in 1 .. Len(q) : q[k] \in Message /\ q[k].kind = "slot"
      BY <1>1 DEF Chain
    <3>2. \A k \in 1 .. Len(q) : q[k].slot \in Int
      BY <3>1, MessageFacts, SlotFacts
    <3>3. \A k \in 1 .. Len(q) : k = 1 \/ (1 < k /\ 1 \in 1 .. Len(q))
      BY <1>1
    <3>4. \A k \in 1 .. Len(q) : k = 1 \/ q[1].slot < q[k].slot
      BY <3>3 DEF Chain
    <3>5. 1 \in 1 .. Len(q)
      BY <1>1
    <3> QED
      BY <1>1, <3>2, <3>4, <3>5
  <2>10. p \in Int
    BY <2>2, SlotFacts
  <2>11. ASSUME NEW k \in 1 .. Len(w), NEW l \in 1 .. Len(w), k < l
         PROVE  w[k].slot < w[l].slot
    <3>1. l \in 2 .. Len(w)
      BY <1>1, <2>5, <2>11
    <3>2. CASE k = 1
      <4>1. w[l].slot \in Int /\ w[l].slot >= x.slot /\ x.slot \in Int
        BY <2>6, <2>9, <3>1
      <4>2. w[k].slot = p /\ p < x.slot
        BY <2>2, <2>3, <2>5, <3>2
      <4> QED
        BY <2>10, <4>1, <4>2
    <3>3. CASE k # 1
      <4>1. k \in 2 .. Len(w) /\ k - 1 < l - 1
        BY <1>1, <2>5, <2>11, <3>3
      <4> QED
        BY <2>6, <3>1, <4>1 DEF Chain
    <3> QED
      BY <3>2, <3>3
  <2>12. ASSUME NEW k \in 2 .. Len(w) PROVE w[k - 1].slot = slots[w[k].slot].parent_slot
    <3>1. CASE k = 2
      <4>1. k - 1 = 1
        BY <3>1
      <4> QED
        BY <1>1, <2>1, <2>3, <2>5, <2>6, <4>1
    <3>2. CASE k # 2
      <4>1. k - 1 \in 2 .. Len(w) /\ k - 1 \in 2 .. Len(q)
        BY <1>1, <2>5, <3>2
      <4>2. w[k] = q[k - 1] /\ w[k - 1] = q[(k - 1) - 1]
        BY <2>6, <4>1
      <4> QED
        BY <4>1, <4>2 DEF Chain
    <3> QED
      BY <3>1, <3>2
  <2>13. Len(w) >= 1
    BY <1>1, <2>5
  <2>14. Chain(w, m)
    BY <2>5, <2>8, <2>11, <2>12, <2>13 DEF Chain
  <2> QED
    BY <1>1, <2>2, <2>3, <2>4, <2>5, <2>14 DEF w
<1>3. CASE ~(p # NoSlot /\ LacksStatus(p, x.status))
  BY <1>3 DEF WithMissedParent
<1> QED
  BY <1>2, <1>3

\* The loop of push ends with a batch to which it has nothing to add.
LEMMA MissedStatusesFacts ==
    ASSUME TypeOK, ParentsInv, NEW m \in Message, m.kind = "slot"
    PROVE  /\ Chain(MissedStatuses(m), m)
           /\ WithMissedParent(MissedStatuses(m)) = MissedStatuses(m)
<1> DEFINE N == m.slot
           Chains == {q \in Seq(Message) : Chain(q, m)}
           step == [n \in 1 .. N |-> [q \in Chains |-> WithMissedParent(q)]]
           Turns(f) == f = [n \in 0 .. N |-> IF n = 0 THEN <<m>> ELSE WithMissedParent(f[n - 1])]
           turn == CHOOSE f : Turns(f)
<1>1. N \in Nat /\ N \in Slot /\ N \in Int
  BY MessageFacts, SlotFacts
<1>2. <<m>> \in Chains
  BY DEF Chain
<1>3. \A q \in Chains : WithMissedParent(q) \in Chains
  <2>1. \A q : Chain(q, m) => q \in Seq(Message)
    BY DEF Chain
  <2> QED
    BY <2>1, TurnKeepsChain, Zenon
<1>4. step \in [1 .. N -> [Chains -> Chains]]
  BY <1>3, Zenon
<1>5. PICK f : Recurs(f, N, Chains, <<m>>, step)
  <2> HIDE DEF step, N, Chains
  <2> QED
    BY <1>1, <1>2, <1>4, Recursion, Zenon
<1>6. f \in [0 .. N -> Chains] /\ f[0] = <<m>> /\ \A n \in 1 .. N : f[n] = step[n][f[n - 1]]
  BY <1>5 DEF Recurs
<1> HIDE DEF Chains
<1>7. \A n \in 1 .. N : n - 1 \in 0 .. N /\ f[n] = WithMissedParent(f[n - 1])
  <2>1. \A n \in 1 .. N : n - 1 \in 0 .. N
    BY <1>1
  <2>2. \A n \in 1 .. N : f[n - 1] \in Chains
    BY <1>6, <2>1
  <2> QED
    BY <1>6, <2>1, <2>2
<1>8. Turns(f)
  <2> HIDE DEF step, N
  <2>1. \A n \in 0 .. N : n = 0 \/ n \in 1 .. N
    BY <1>1
  <2>2. \A n \in 0 .. N : f[n] = IF n = 0 THEN <<m>> ELSE WithMissedParent(f[n - 1])
    BY <1>6, <1>7, <2>1
  <2> QED
    BY <1>6, <2>2
<1>9. Turns(turn)
  <2> HIDE DEF Turns
  <2> QED
    BY <1>8
<1>10. MissedStatuses(m) = turn[N]
  BY DEF MissedStatuses
<1> HIDE DEF turn, step
<1>11. turn[0] = <<m>> /\ \A n \in 1 .. N : turn[n] = WithMissedParent(turn[n - 1])
  BY <1>1, <1>9
<1> DEFINE Done(q) == WithMissedParent(q) = q
           S == {n \in Nat : n <= N => /\ Chain(turn[n], m)
                                       /\ Done(turn[n]) \/ turn[n][1].slot <= N - n}
<1> HIDE DEF Done
<1>12. 0 \in S
  <2>1. Chain(<<m>>, m) /\ <<m>>[1] = m
    BY <1>2 DEF Chains
  <2> QED
    BY <1>1, <1>11, <2>1
<1>13. ASSUME NEW n \in Nat, n \in S PROVE n + 1 \in S
  <2> SUFFICES ASSUME n + 1 <= N
               PROVE  /\ Chain(turn[n + 1], m)
                      /\ Done(turn[n + 1]) \/ turn[n + 1][1].slot <= N - (n + 1)
    OBVIOUS
  <2> DEFINE q == turn[n]
             w == turn[n + 1]
  <2>1. Chain(q, m) /\ (Done(q) \/ q[1].slot <= N - n)
    BY <1>1, <1>13
  <2>2. w = WithMissedParent(q)
    <3>1. n + 1 \in 1 .. N /\ (n + 1) - 1 = n
      BY <1>1
    <3> QED
      BY <1>11, <3>1
  <2>3. Chain(w, m) /\ (w = q \/ w[1].slot < q[1].slot)
    BY <2>1, <2>2, TurnKeepsChain
  <2>4. CASE w = q
    BY <2>2, <2>3, <2>4 DEF Done
  <2>5. CASE w # q /\ w[1].slot < q[1].slot
    <3>1. q[1].slot <= N - n
      BY <2>1, <2>2, <2>5 DEF Done
    <3>2. q[1].slot \in Int /\ w[1].slot \in Int
      <4>1. /\ q[1] \in Message /\ w[1] \in Message
            /\ q[1].kind = "slot" /\ w[1].kind = "slot"
        BY <2>1, <2>3 DEF Chain
      <4> QED
        BY <4>1, MessageFacts, SlotFacts
    <3>3. w[1].slot <= N - (n + 1)
      <4> HIDE DEF q, w, N
      <4> QED
        BY <1>1, <2>5, <3>1, <3>2
    <3> QED
      BY <2>3, <3>3
  <2> QED
    BY <2>3, <2>4, <2>5
<1> HIDE DEF S
<1>14. N \in S
  BY <1>1, <1>12, <1>13, Induction
<1>15. Chain(turn[N], m) /\ (Done(turn[N]) \/ turn[N][1].slot <= 0)
  BY <1>1, <1>14 DEF S
<1>16. CASE turn[N][1].slot <= 0
  <2>1. Done(turn[N]) \/ WithMissedParent(turn[N])[1].slot < turn[N][1].slot
    BY <1>15, TurnKeepsChain DEF Done
  <2>2. Chain(WithMissedParent(turn[N]), m)
    BY <1>15, TurnKeepsChain
  <2>3. /\ WithMissedParent(turn[N])[1].slot \in Nat
        /\ turn[N][1].slot \in Nat
    <3>1. /\ WithMissedParent(turn[N])[1] \in Message /\ turn[N][1] \in Message
          /\ WithMissedParent(turn[N])[1].kind = "slot" /\ turn[N][1].kind = "slot"
      BY <1>15, <2>2 DEF Chain
    <3> QED
      BY <3>1, MessageFacts, SlotFacts
  <2> QED
    BY <1>10, <1>15, <1>16, <2>1, <2>3 DEF Done
<1> QED
  BY <1>10, <1>15, <1>16 DEF Done

\* push takes the mutex with a batch that leaves no known ancestor out.
LEMMA PushBeginPlugInv ==
    ASSUME PlugInv, UNCHANGED setup, NEW m \in Message, PushBegin(m)
    PROVE  PlugInv'
<1>0. TypeOK /\ ParentsInv
  BY DEF PlugInv
<1>1. /\ lock = "free" /\ lock' = "push"
      /\ UNCHANGED <<setup, state, wakers, buffer, removed_max_slot, to_wake, closing, rcv, log>>
  BY DEF PushBegin
<1>2. /\ pending' \in Seq(Message)
      /\ Len(pending') > 1 => \A k \in 1 .. Len(pending') : pending'[k].kind = "slot"
      /\ \A k, l \in 1 .. Len(pending') : k < l =>
           pending'[k].slot < pending'[l].slot /\ pending'[k].status = pending'[l].status
      /\ \A k \in 1 .. Len(pending') : pending'[k].kind = "slot" =>
           \/ Repaired(pending'[k].slot, pending'[k].status)
           \/ k > 1 /\ pending'[k - 1].slot = slots[pending'[k].slot].parent_slot
  <2>1. CASE m.kind # "slot"
    BY <2>1 DEF PushBegin
  <2>2. CASE m.kind = "slot"
    <3> DEFINE q == MissedStatuses(m)
    <3>1. pending' = q
      BY <2>2 DEF PushBegin
    <3>2. Chain(q, m) /\ WithMissedParent(q) = q
      BY <1>0, <2>2, MissedStatusesFacts
    <3> HIDE DEF q
    <3>3. q \in Seq(Message) /\ Len(q) \in Nat /\ Len(q) >= 1 /\ q # <<>>
      BY <3>2 DEF Chain
    <3>4. Repaired(q[1].slot, q[1].status)
      <4> SUFFICES ASSUME NEW p \in Slot, Known(q[1].slot), slots[q[1].slot].parent_slot = p,
                          Known(p), LacksStatus(p, q[1].status)
                   PROVE  FALSE
        BY DEF Repaired
      <4>1. Head(q) = q[1]
        BY <3>3
      <4>2. KnownParent(q[1].slot) = p /\ p # NoSlot
        BY SlotFacts DEF KnownParent
      <4>3. WithMissedParent(q) = <<SlotMsg(p, slots[p].parent_slot, q[1].status)>> \o q
        BY <4>1, <4>2 DEF WithMissedParent
      <4>4. Len(WithMissedParent(q)) = Len(q) + 1
        <5>1. q \in Seq(Message) /\ \A x : Len(<<x>> \o q) = 1 + Len(q)
          BY <3>3
        <5> QED
          BY <3>3, <4>3, <5>1
      <4> QED
        BY <3>2, <3>3, <4>4
    <3>5. \A k \in 1 .. Len(q) : k = 1 \/ k \in 2 .. Len(q)
      BY <3>3
    <3>6. \A k \in 2 .. Len(q) : k > 1 /\ q[k - 1].slot = slots[q[k].slot].parent_slot
      BY <3>2 DEF Chain
    <3> QED
      BY <3>1, <3>2, <3>3, <3>4, <3>5, <3>6 DEF Chain
  <2> QED
    BY <2>1, <2>2
<1>3. TypeOK'
  BY <1>0, <1>1, <1>2 DEF TypeOK, state, rcv, MaxMessages
<1>4. CountersInv'
  BY <1>1 DEF PlugInv, CountersInv, state, MaxMessages
<1>5. BufferInv' /\ PositionInv' /\ AccountInv' /\ HeadsInv' /\ ParentsInv'
  BY <1>1 DEF PlugInv, state, MaxMessages, BufferInv, PositionInv, AccountInv,
              HeadsInv, ParentsInv, At, GetIdx, Known, Size
<1>6. BatchInv'
  <2>1. slots' = slots
    BY <1>1 DEF state
  <2>2. \A s, st : Repaired(s, st)' <=> Repaired(s, st)
    BY <2>1 DEF Repaired, Known, LacksStatus
  <2> QED
    BY <1>2, <2>1, <2>2 DEF BatchInv
<1>7. StatusInv'
  BY <1>1 DEF PlugInv, StatusInv, state, MaxMessages, Known, LacksStatus
<1> QED
  BY <1>3, <1>4, <1>5, <1>6, <1>7 DEF PlugInv

-----------------------------------------------------------------------------
(* push_msg, up to the overwrite of the item *)

\* The message at hand, the log it extends and the position it takes.
LEMMA PushMsgFacts ==
    ASSUME PlugInv, UNCHANGED setup, PushMsg
    PROVE  /\ Head(pending) = pending[1] /\ pending[1] \in Message
           /\ Len(pending) \in Nat /\ Len(pending) >= 1
           /\ pending' \in Seq(Message) /\ Len(pending') = Len(pending) - 1
           /\ \A k \in 1 .. Len(pending') :
                k + 1 \in 1 .. Len(pending) /\ pending'[k] = pending[k + 1]
           /\ log \in Seq(Message) /\ Len(log) \in Nat /\ log' = Append(log, pending[1])
           /\ log' \in Seq(Message) /\ Len(log') = Len(log) + 1
           /\ \A n \in 1 .. Len(log) : log'[n] = log[n] /\ log[n] \in Message
           /\ log'[Len(log) + 1] = pending[1]
           /\ tail = MaxMessages + Len(log) /\ tail' = tail + 1
           /\ tail \in Nat /\ head \in Nat /\ head' \in Nat
           /\ MaxMessages \in Nat /\ MaxMessages > 0 /\ MaxMessages' = MaxMessages
           /\ setup \in Setups
           /\ GetIdx(tail + 1) \in 0 .. MaxMessages - 1
           /\ \A p \in MaxMessages + 1 .. tail : log'[p - MaxMessages] = At(p)
           /\ \A p \in Nat : p = tail + 1 => log'[p - MaxMessages] = pending[1]
<1>0. /\ TypeOK /\ setup \in Setups /\ MaxMessages \in Nat /\ MaxMessages > 0
      /\ MaxMessages' = MaxMessages
      /\ pending \in Seq(Message) /\ pending # <<>> /\ log \in Seq(Message)
      /\ tail \in Nat /\ head \in Nat /\ tail = MaxMessages + Len(log)
  BY SetupFacts DEF PlugInv, TypeOK, CountersInv, PushMsg, MaxMessages
<1>1. /\ Head(pending) = pending[1] /\ pending[1] \in Message
      /\ Len(pending) \in Nat /\ Len(pending) >= 1
  BY <1>0
<1>2. pending' = Tail(pending) /\ tail' = tail + 1 /\ log' = Append(log, pending[1])
      /\ head' \in {head, head + 1}
  BY <1>1 DEF PushMsg
<1>3. /\ pending' \in Seq(Message) /\ Len(pending') = Len(pending) - 1
      /\ \A k \in 1 .. Len(pending') :
                k + 1 \in 1 .. Len(pending) /\ pending'[k] = pending[k + 1]
  BY <1>0, <1>1, <1>2
<1>4. /\ Len(log) \in Nat
      /\ log' \in Seq(Message) /\ Len(log') = Len(log) + 1
      /\ \A n \in 1 .. Len(log) : log'[n] = log[n] /\ log[n] \in Message
      /\ log'[Len(log) + 1] = pending[1]
  BY <1>0, <1>1, <1>2
<1>5. GetIdx(tail + 1) \in 0 .. MaxMessages - 1
  <2>1. tail + 1 \in Nat
    BY <1>0
  <2> QED
    BY <1>0, <2>1, GetIdxFacts
<1>6. \A p \in MaxMessages + 1 .. tail : log'[p - MaxMessages] = At(p)
  <2>1. \A p \in MaxMessages + 1 .. tail : p - MaxMessages \in 1 .. Len(log)
    BY <1>0, <1>4
  <2> QED
    BY <1>4, <2>1 DEF At
<1>7. \A p \in Nat : p = tail + 1 => log'[p - MaxMessages] = pending[1]
  <2>1. \A p \in Nat : p = tail + 1 => p - MaxMessages = Len(log) + 1
    BY <1>0, <1>4
  <2> QED
    BY <1>4, <2>1
<1> QED
  BY <1>0, <1>1, <1>2, <1>3, <1>4, <1>5, <1>6, <1>7

\* The item the message takes held the oldest message, or none and the ring has room.
LEMMA OverwrittenIsOldest ==
    ASSUME PlugInv, UNCHANGED setup, PushMsg
    PROVE  LET old == buffer[GetIdx(tail + 1)]
           IN  /\ old.data # NoData => old.pos = head /\ head = tail + 1 - MaxMessages
               /\ old.data = NoData => tail + 1 - head < MaxMessages
<1> DEFINE i == GetIdx(tail + 1)
           old == buffer[i]
<1>0. /\ tail \in Nat /\ head \in Nat /\ MaxMessages \in Nat /\ MaxMessages > 0
      /\ setup \in Setups /\ i \in 0 .. MaxMessages - 1
      /\ head >= MaxMessages + 1 /\ head <= tail + 1 /\ tail - head < MaxMessages
  BY PushMsgFacts DEF PlugInv, CountersInv
<1>1. \A p, q \in Nat : p < q /\ q < p + MaxMessages => GetIdx(p) # GetIdx(q)
  BY <1>0, GetIdxFacts
<1>2. ASSUME old.data # NoData PROVE old.pos = head /\ head = tail + 1 - MaxMessages
  <2>1. old.pos \in head .. tail /\ GetIdx(old.pos) = i
    BY <1>0, <1>2 DEF PlugInv, BufferInv
  <2>2. old.pos \in Nat /\ old.pos < tail + 1 /\ tail + 1 \in Nat
    BY <1>0, <2>1
  <2>3. ~(tail + 1 < old.pos + MaxMessages)
    BY <1>1, <2>1, <2>2 DEF i
  <2> HIDE DEF old, i
  <2> QED
    BY <1>0, <2>1, <2>2, <2>3
<1>3. ASSUME old.data = NoData PROVE tail + 1 - head < MaxMessages
  <2> SUFFICES ASSUME head = tail + 1 - MaxMessages PROVE FALSE
    BY <1>0
  <2>1. head \in head .. tail /\ tail + 1 \in Nat /\ tail + 1 >= MaxMessages
    BY <1>0
  <2>2. GetIdx(head) = i
    BY <1>0, <2>1, GetIdxFacts DEF i
  <2>3. buffer[GetIdx(head)].data # NoData
    BY <2>1 DEF PlugInv, BufferInv
  <2> QED
    BY <1>3, <2>2, <2>3
<1> QED
  BY <1>2, <1>3

\* The latest known slot is a slot, or the default slot 0.
LEMMA LastSlotIsSlot == LastSlot \in Slot \cup {0}
<1> DEFINE known == {s \in Slot : Known(s)}
<1>1. CASE known = {}
  BY <1>1 DEF LastSlot
<1>2. CASE known # {}
  <2>1. known \in SUBSET Nat /\ IsFiniteSet(known)
    BY ConstantsAssumption, FS_Subset
  <2>2. \E s \in known : \A t \in known : t <= s
    BY <1>2, <2>1, GreatestNat
  <2>3. LastSlot = CHOOSE s \in known : \A t \in known : t <= s
    BY <1>2 DEF LastSlot
  <2>4. LastSlot \in known
    BY <2>2, <2>3
  <2> QED
    BY <2>4
<1> QED
  BY <1>1, <1>2

\* The new item and the entry of its slot.
LEMMA PushMsgUpdates ==
    ASSUME PlugInv, UNCHANGED setup, PushMsg
    PROVE  LET m == pending[1]
               i == GetIdx(tail + 1)
           IN  /\ buffer' \in [0 .. MaxMessages - 1 ->
                     [pos : Nat, slot : Nat, data : Message \cup {NoData}, closed : BOOLEAN]]
               /\ buffer'[i].pos = tail + 1 /\ buffer'[i].data = m
               /\ buffer'[i].slot \in Slot \cup {0} /\ m.slot \in {NoSlot, buffer'[i].slot}
               /\ \A j \in 0 .. MaxMessages - 1 : j # i => buffer'[j] = buffer[j]
               /\ m.slot = NoSlot => slots' = slots
               /\ m.slot # NoSlot =>
                    m.slot \in Slot /\ slots' = [slots EXCEPT ![m.slot] = EntryAfter(m)]
<1> DEFINE m == pending[1]
           i == GetIdx(tail + 1)
           place == IF m.slot = NoSlot THEN LastSlot ELSE m.slot
           item == [buffer[i] EXCEPT !.pos = tail + 1, !.data = m, !.slot = place]
           Item == [pos : Nat, slot : Nat, data : Message \cup {NoData}, closed : BOOLEAN]
<1>0. /\ m \in Message /\ Head(pending) = m /\ i \in 0 .. MaxMessages - 1 /\ TypeOK
      /\ tail + 1 \in Nat
  BY PushMsgFacts DEF PlugInv
<1>1. m.slot \in Slot \cup {NoSlot}
  BY <1>0, MessageFacts
<1>2. place \in Slot \cup {0} /\ m.slot \in {NoSlot, place}
  BY <1>1, LastSlotIsSlot
<1>3. place \in Nat
  BY <1>2, SlotFacts
<1>4. buffer \in [0 .. MaxMessages - 1 -> Item]
  BY <1>0 DEF TypeOK
<1>5. buffer' = [buffer EXCEPT ![i] = item]
  BY <1>0 DEF PushMsg
<1>6. /\ m.slot = NoSlot => slots' = slots
      /\ m.slot # NoSlot => slots' = [slots EXCEPT ![m.slot] = EntryAfter(m)]
  BY <1>0 DEF PushMsg
<1> HIDE DEF m, i, place
<1>7. item \in Item /\ item.pos = tail + 1 /\ item.data = m /\ item.slot = place
  BY <1>0, <1>3, <1>4
<1> HIDE DEF item, Item
<1>8. /\ buffer' \in [0 .. MaxMessages - 1 -> Item] /\ buffer'[i] = item
      /\ \A j \in 0 .. MaxMessages - 1 : j # i => buffer'[j] = buffer[j]
  BY <1>0, <1>4, <1>5, <1>7
<1> QED
  BY <1>1, <1>2, <1>6, <1>7, <1>8 DEF m, i, Item

\* Counters and items after a message was written.
LEMMA PushMsgBufferInv ==
    ASSUME PlugInv, UNCHANGED setup, PushMsg
    PROVE  CountersInv' /\ BufferInv' /\ PositionInv'
<1> DEFINE m == pending[1]
           i == GetIdx(tail + 1)
           old == buffer[i]
           evicts == old.data # NoData
<1>0. /\ tail \in Nat /\ head \in Nat /\ MaxMessages \in Nat /\ MaxMessages > 0
      /\ tail = MaxMessages + Len(log) /\ Len(log) \in Nat
      /\ head >= MaxMessages + 1 /\ head <= tail + 1 /\ tail - head < MaxMessages
      /\ setup \in Setups /\ TypeOK /\ i \in 0 .. MaxMessages - 1
      /\ tail' = tail + 1 /\ MaxMessages' = MaxMessages /\ Len(log') = Len(log) + 1
      /\ m \in Message /\ head' \in Nat
  BY PushMsgFacts DEF PlugInv, CountersInv
<1>1. /\ head' = IF evicts THEN head + 1 ELSE head
      /\ lock' = "evict"
  BY DEF PushMsg
<1>2. /\ evicts => old.pos = head /\ head = tail + 1 - MaxMessages
      /\ ~evicts => tail + 1 - head < MaxMessages
  BY OverwrittenIsOldest
<1> HIDE DEF evicts, old, m, i
<1>3. /\ head' <= tail + 1 /\ head' >= MaxMessages + 1 /\ tail + 1 - head' < MaxMessages
      /\ head' >= head
  BY <1>0, <1>1, <1>2
<1>4. CountersInv'
  BY <1>0, <1>1, <1>3 DEF CountersInv
<1>5. /\ buffer'[i].pos = tail + 1 /\ buffer'[i].data = m /\ m # NoData
      /\ buffer'[i].slot \in Slot \cup {0} /\ m.slot \in {NoSlot, buffer'[i].slot}
      /\ \A j \in 0 .. MaxMessages - 1 : j # i => buffer'[j] = buffer[j]
  BY <1>0, PushMsgUpdates, MessageFacts DEF i, m
<1>6. /\ \A p \in MaxMessages + 1 .. tail : log'[p - MaxMessages] = At(p)
      /\ \A p \in Nat : p = tail + 1 => log'[p - MaxMessages] = m
  BY PushMsgFacts DEF m
<1>7. BufferInv'
  <2>1. ASSUME NEW j \in 0 .. MaxMessages - 1
        PROVE  /\ buffer'[j].slot \in Slot \cup {0}
               /\ buffer'[j].data # NoData =>
                    /\ buffer'[j].pos \in head' .. tail'
                    /\ GetIdx(buffer'[j].pos) = j
                    /\ buffer'[j].data = log'[buffer'[j].pos - MaxMessages]
                    /\ log'[buffer'[j].pos - MaxMessages].slot \in {NoSlot, buffer'[j].slot}
    <3>1. CASE j = i
      <4>1. tail + 1 \in head' .. tail'
        BY <1>0, <1>3
      <4>2. GetIdx(buffer'[j].pos) = j
        BY <1>5, <3>1 DEF i
      <4>3. log'[buffer'[j].pos - MaxMessages] = m
        <5>1. buffer'[j].pos = tail + 1 /\ buffer'[j].pos \in Nat
          BY <1>0, <1>5, <3>1
        <5> QED
          BY <1>6, <5>1
      <4> QED
        BY <1>5, <3>1, <4>1, <4>2, <4>3
    <3>2. CASE j # i
      <4>1. buffer'[j] = buffer[j] /\ buffer[j].slot \in Slot \cup {0}
        BY <1>5, <3>2 DEF PlugInv, BufferInv
      <4>2. ASSUME buffer[j].data # NoData
            PROVE  /\ buffer[j].pos \in head' .. tail'
                   /\ GetIdx(buffer[j].pos) = j
                   /\ buffer[j].data = log'[buffer[j].pos - MaxMessages]
                   /\ log'[buffer[j].pos - MaxMessages].slot \in {NoSlot, buffer[j].slot}
        <5>1. /\ buffer[j].pos \in head .. tail /\ GetIdx(buffer[j].pos) = j
              /\ buffer[j].data = At(buffer[j].pos)
              /\ At(buffer[j].pos).slot \in {NoSlot, buffer[j].slot}
          BY <4>2 DEF PlugInv, BufferInv
        <5>2. evicts => buffer[j].pos # head
          <6>1. evicts => GetIdx(head) = i
            BY <1>0, <1>2 DEF PlugInv, BufferInv, evicts, old
          <6> QED
            BY <3>2, <5>1, <6>1
        <5>3. buffer[j].pos \in head' .. tail' /\ buffer[j].pos \in MaxMessages + 1 .. tail
          <6> DEFINE p == buffer[j].pos
          <6>1. p \in head .. tail /\ (evicts => p # head)
            BY <5>1, <5>2
          <6> HIDE DEF p
          <6>2. p \in head' .. tail' /\ p \in MaxMessages + 1 .. tail
            BY <1>0, <1>1, <6>1
          <6> QED
            BY <6>2 DEF p
        <5> QED
          BY <1>6, <5>1, <5>3
      <4> QED
        BY <4>1, <4>2
    <3> QED
      BY <3>1, <3>2
  <2>2. ASSUME NEW p \in head' .. tail'
        PROVE  buffer'[GetIdx(p)].data # NoData /\ buffer'[GetIdx(p)].pos = p
    <3>1. CASE p = tail + 1
      BY <1>5, <3>1 DEF i
    <3>2. CASE p # tail + 1
      <4>1. p \in head .. tail /\ p \in Nat /\ tail + 1 \in Nat
        BY <1>0, <1>3, <3>2
      <4>2. GetIdx(p) \in 0 .. MaxMessages - 1
        BY <1>0, <4>1, GetIdxFacts
      <4>3. GetIdx(p) # i
        <5>1. p < tail + 1 /\ tail + 1 < p + MaxMessages
          BY <1>0, <1>3, <3>2, <4>1
        <5> QED
          BY <1>0, <4>1, <5>1, GetIdxFacts DEF i
      <4>4. buffer[GetIdx(p)].data # NoData /\ buffer[GetIdx(p)].pos = p
        BY <4>1 DEF PlugInv, BufferInv
      <4> QED
        BY <1>5, <4>2, <4>3, <4>4
    <3> QED
      BY <3>1, <3>2
  <2> QED
    BY <1>0, <2>1, <2>2 DEF BufferInv, At, GetIdx
<1>8. PositionInv'
  <2>1. ASSUME NEW p \in MaxMessages + 1 .. tail + 1
        PROVE  buffer'[GetIdx(p)].pos >= p
    <3>1. CASE GetIdx(p) = i
      BY <1>0, <1>5, <3>1
    <3>2. CASE GetIdx(p) # i
      <4>1. p \in MaxMessages + 1 .. tail /\ p \in Nat
        BY <1>0, <3>2 DEF i
      <4>2. GetIdx(p) \in 0 .. MaxMessages - 1
        BY <1>0, <4>1, GetIdxFacts
      <4>3. buffer[GetIdx(p)].pos >= p
        BY <4>1 DEF PlugInv, PositionInv
      <4> QED
        BY <1>5, <3>2, <4>2, <4>3
    <3> QED
      BY <3>1, <3>2
  <2> QED
    BY <1>0, <2>1 DEF PositionInv, GetIdx
<1> QED
  BY <1>4, <1>7, <1>8

\* The byte account after a message was written.
LEMMA PushMsgAccountInv ==
    ASSUME PlugInv, UNCHANGED setup, PushMsg
    PROVE  AccountInv' /\ bytes_total' \in Nat
<1> DEFINE m == pending[1]
           N == Len(log)
           old == buffer[GetIdx(tail + 1)]
           evicts == old.data # NoData
<1>0. /\ tail \in Nat /\ head \in Nat /\ MaxMessages \in Nat /\ MaxMessages > 0
      /\ tail = MaxMessages + N /\ N \in Nat /\ tail' = tail + 1 /\ MaxMessages' = MaxMessages
      /\ head >= MaxMessages + 1 /\ head <= tail + 1
      /\ Len(log') = N + 1 /\ m \in Message /\ Size(m) \in Nat
      /\ Head(pending) = m /\ log'[N + 1] = m
      /\ GetIdx(tail + 1) \in 0 .. MaxMessages - 1
      /\ \A n \in 1 .. N : log'[n] = log[n]
  BY PushMsgFacts, MessageFacts DEF PlugInv, CountersInv
<1>n. /\ tail \in Nat /\ head \in Nat /\ MaxMessages \in Nat /\ N \in Nat
      /\ tail = MaxMessages + N /\ head >= MaxMessages + 1 /\ head <= tail + 1
      /\ Size(m) \in Nat
  BY <1>0
<1>1. PICK sum \in [0 .. N -> Nat] :
        /\ \A n \in 1 .. N : sum[n] = sum[n - 1] + Size(log[n])
        /\ \A a, b \in 0 .. N : a <= b => sum[a] <= sum[b]
        /\ bytes_total = sum[tail - MaxMessages] - sum[head - 1 - MaxMessages]
  BY DEF PlugInv, AccountInv
<1>2. /\ bytes_total' = bytes_total + Size(m) - (IF evicts THEN Size(old.data) ELSE 0)
      /\ head' = IF evicts THEN head + 1 ELSE head
  BY <1>0 DEF PushMsg
<1>3. evicts => head \in MaxMessages + 1 .. tail /\ old.data = log[head - MaxMessages]
  BY <1>0, OverwrittenIsOldest DEF PlugInv, BufferInv, At
<1> HIDE DEF evicts, old, m, N
<1> DEFINE more == [n \in 0 .. N + 1 |-> IF n = N + 1 THEN sum[N] + Size(m) ELSE sum[n]]
<1>4. \A n \in 0 .. N : sum[n] \in Nat /\ more[n] = sum[n]
  <2>1. \A n \in 0 .. N : n \in 0 .. N + 1 /\ n # N + 1
    BY <1>n
  <2> QED
    BY <1>1, <2>1
<1>5. more \in [0 .. N + 1 -> Nat] /\ more[N + 1] = sum[N] + Size(m) /\ N \in 0 .. N
  BY <1>0, <1>4
<1>6. \A n \in 0 .. N + 1 : n \in 0 .. N \/ n = N + 1
  BY <1>0
<1> HIDE DEF more
<1>7. ASSUME NEW n \in 1 .. N + 1 PROVE more[n] = more[n - 1] + Size(log'[n])
  <2>1. CASE n = N + 1
    <3>1. n - 1 = N
      BY <1>0, <2>1
    <3> QED
      BY <1>0, <1>4, <1>5, <2>1, <3>1
  <2>2. CASE n # N + 1
    <3>1. n \in 1 .. N /\ n \in 0 .. N /\ n - 1 \in 0 .. N
      BY <1>0, <2>2
    <3> QED
      BY <1>0, <1>1, <1>4, <3>1
  <2> QED
    BY <2>1, <2>2
<1>8. ASSUME NEW a \in 0 .. N + 1, NEW b \in 0 .. N + 1, a <= b PROVE more[a] <= more[b]
  <2>1. CASE b = N + 1 /\ a = N + 1
    BY <1>0, <1>5, <2>1
  <2>2. CASE b = N + 1 /\ a # N + 1
    <3>1. a \in 0 .. N /\ a <= N
      BY <1>0, <2>2
    <3>2. sum[a] <= sum[N] /\ more[a] = sum[a] /\ sum[a] \in Nat /\ sum[N] \in Nat
      BY <1>1, <1>4, <1>5, <3>1
    <3>3. more[b] = sum[N] + Size(m)
      BY <1>5, <2>2
    <3> QED
      BY <1>0, <3>2, <3>3
  <2>3. CASE b # N + 1
    <3>1. a \in 0 .. N /\ b \in 0 .. N
      BY <1>0, <1>8, <2>3
    <3> QED
      BY <1>1, <1>4, <1>8, <3>1
  <2> QED
    BY <2>1, <2>2, <2>3
<1>9. /\ bytes_total' = more[N + 1] - more[head' - 1 - MaxMessages]
      /\ head' - 1 - MaxMessages \in 0 .. N + 1 /\ tail' - MaxMessages = N + 1
  <2>1. /\ tail - MaxMessages = N /\ tail' - MaxMessages = N + 1
        /\ head - 1 - MaxMessages \in 0 .. N
    <3>1. tail' = tail + 1
      BY <1>0
    <3> QED
      BY <1>n, <3>1
  <2>2. CASE evicts
    <3> DEFINE h == head - MaxMessages
    <3>1. h \in 1 .. N /\ h - 1 = head - 1 - MaxMessages /\ h = head' - 1 - MaxMessages
      <4>1. head \in MaxMessages + 1 .. tail /\ head' = head + 1
        BY <1>2, <1>3, <2>2
      <4> QED
        BY <1>n, <4>1
    <3>2. sum[h] = sum[h - 1] + Size(old.data)
      BY <1>1, <1>3, <2>2, <3>1
    <3>3. h \in 0 .. N /\ h \in 0 .. N + 1 /\ h - 1 \in 0 .. N
      BY <1>0, <3>1
    <3>4. Size(old.data) \in Nat
      BY DEF Size
    <3>5. bytes_total = sum[N] - sum[h - 1]
      BY <1>1, <2>1, <3>1
    <3>6. /\ sum[N] \in Nat /\ sum[h - 1] \in Nat /\ sum[h] \in Nat /\ more[h] = sum[h]
      BY <1>4, <1>5, <3>3
    <3>7. bytes_total' = bytes_total + Size(m) - Size(old.data)
      BY <1>2, <2>2
    <3> HIDE DEF h
    <3>8. bytes_total' = (sum[N] + Size(m)) - sum[h]
      BY <1>n, <3>2, <3>4, <3>5, <3>6, <3>7
    <3> QED
      BY <1>5, <2>1, <3>1, <3>3, <3>6, <3>8
  <2>3. CASE ~evicts
    <3>1. head' = head /\ bytes_total' = bytes_total + Size(m) - 0
      BY <1>2, <2>3
    <3>2. /\ bytes_total = sum[N] - sum[head - 1 - MaxMessages]
          /\ sum[N] \in Nat /\ sum[head - 1 - MaxMessages] \in Nat
          /\ more[head - 1 - MaxMessages] = sum[head - 1 - MaxMessages]
      BY <1>1, <1>4, <1>5, <2>1
    <3>3. head - 1 - MaxMessages \in 0 .. N + 1
      BY <1>0, <2>1
    <3>4. bytes_total' = (sum[N] + Size(m)) - sum[head - 1 - MaxMessages]
      BY <1>n, <3>1, <3>2
    <3> QED
      BY <1>5, <2>1, <3>1, <3>2, <3>3, <3>4
  <2> QED
    BY <2>2, <2>3
<1>10. bytes_total' \in Nat
  <2>1. /\ N + 1 \in 0 .. N + 1 /\ head' - 1 - MaxMessages <= N + 1
    BY <1>0, <1>9
  <2>2. /\ more[head' - 1 - MaxMessages] <= more[N + 1]
        /\ more[head' - 1 - MaxMessages] \in Nat /\ more[N + 1] \in Nat
    BY <1>5, <1>8, <1>9, <2>1
  <2> QED
    BY <1>9, <2>2
<1>11. AccountInv'
  <2>1. Len(log') = N + 1 /\ MaxMessages' = MaxMessages
    BY <1>0
  <2>2. \E f \in [0 .. Len(log') -> Nat] :
        /\ \A n \in 1 .. Len(log') : f[n] = f[n - 1] + Size(log'[n])
        /\ \A a, b \in 0 .. Len(log') : a <= b => f[a] <= f[b]
        /\ bytes_total' = f[tail' - MaxMessages'] - f[head' - 1 - MaxMessages']
    BY <1>5, <1>7, <1>8, <1>9, <2>1
  <2> QED
    BY <2>2 DEF AccountInv, Size
<1> QED
  BY <1>10, <1>11

\* The state stays well typed.
LEMMA PushMsgTypeOK ==
    ASSUME PlugInv, UNCHANGED setup, PushMsg
    PROVE  TypeOK'
<1> DEFINE m == pending[1]
<1>0. /\ TypeOK /\ m \in Message /\ MaxMessages' = MaxMessages /\ head' \in Nat
      /\ tail' = tail + 1 /\ tail \in Nat /\ pending' \in Seq(Message) /\ log' \in Seq(Message)
      /\ GetIdx(tail + 1) \in 0 .. MaxMessages - 1
  BY PushMsgFacts DEF PlugInv
<1>1. /\ buffer' \in [0 .. MaxMessages - 1 ->
                     [pos : Nat, slot : Nat, data : Message \cup {NoData}, closed : BOOLEAN]]
      /\ m.slot = NoSlot => slots' = slots
      /\ m.slot # NoSlot => m.slot \in Slot /\ slots' = [slots EXCEPT ![m.slot] = EntryAfter(m)]
  BY PushMsgUpdates
<1>2. slots' \in [Slot -> Entry]
  <2>1. CASE m.slot = NoSlot
    BY <1>0, <1>1, <2>1 DEF TypeOK
  <2>2. CASE m.slot # NoSlot
    <3>1. EntryAfter(m) \in Entry
      BY <1>0, <1>1, <2>2, EntryAfterFacts DEF Entry
    <3> QED
      BY <1>0, <1>1, <2>2, <3>1 DEF TypeOK
  <2> QED
    BY <2>1, <2>2
<1>3. removed_max_slot' \in Slot \cup {0, NoSlot}
  <2>1. buffer[GetIdx(tail + 1)].slot \in Slot \cup {0}
    BY <1>0 DEF PlugInv, BufferInv
  <2> QED
    BY <2>1 DEF PushMsg
<1>4. bytes_total' \in Nat
  BY PushMsgAccountInv
<1>5. /\ lock' = "evict"
      /\ UNCHANGED <<wakers, to_wake, closing, rcv>>
  BY DEF PushMsg
<1> HIDE DEF m
<1> QED
  BY <1>0, <1>1, <1>2, <1>3, <1>4, <1>5 DEF TypeOK, rcv

\* What a message changes in the slot map.
LEMMA PushMsgSlots ==
    ASSUME PlugInv, UNCHANGED setup, PushMsg
    PROVE  LET m == pending[1]
           IN  /\ \A s \in Slot : s # m.slot => slots'[s] = slots[s]
               /\ m.slot \in Slot =>
                    /\ slots'[m.slot] = EntryAfter(m) /\ EntryAfter(m) # NoEntry
                    /\ Known(m.slot) => EntryAfter(m).head = slots[m.slot].head
                    /\ ~Known(m.slot) => EntryAfter(m).head = tail + 1
                    /\ EntryAfter(m).head \in Nat
<1> DEFINE m == pending[1]
<1>0. /\ TypeOK /\ m \in Message /\ tail \in Nat /\ m.slot \in Slot \cup {NoSlot}
      /\ slots \in [Slot -> Entry] /\ MaxMessages \in Nat /\ NoSlot \notin Slot
  BY PushMsgFacts, MessageFacts, SlotFacts DEF PlugInv, TypeOK
<1>1. /\ m.slot = NoSlot => slots' = slots
      /\ m.slot # NoSlot => m.slot \in Slot /\ slots' = [slots EXCEPT ![m.slot] = EntryAfter(m)]
  BY PushMsgUpdates
<1> HIDE DEF m
<1>2. \A s \in Slot : s # m.slot => slots'[s] = slots[s]
  BY <1>0, <1>1
<1>3. ASSUME m.slot \in Slot
      PROVE  /\ slots'[m.slot] = EntryAfter(m) /\ EntryAfter(m) # NoEntry
             /\ Known(m.slot) => EntryAfter(m).head = slots[m.slot].head
             /\ ~Known(m.slot) => EntryAfter(m).head = tail + 1
             /\ EntryAfter(m).head \in Nat
  <2>1. slots'[m.slot] = EntryAfter(m)
    BY <1>0, <1>1, <1>3
  <2>2. /\ Known(m.slot) => EntryAfter(m).head = slots[m.slot].head
        /\ ~Known(m.slot) => EntryAfter(m).head = tail + 1
    BY <1>0, <1>3, EntryAfterFacts
  <2>3. Known(m.slot) => slots[m.slot].head \in MaxMessages + 1 .. tail
    BY <1>3 DEF PlugInv, HeadsInv
  <2>4. EntryAfter(m).head \in Nat /\ EntryAfter(m).head > 0
    BY <1>0, <2>2, <2>3
  <2>5. EntryAfter(m) # NoEntry
    BY <2>4 DEF NoEntry
  <2> QED
    BY <2>1, <2>2, <2>4, <2>5
<1> QED
  BY <1>2, <1>3 DEF m

\* The heads of the known slots after a message was written.
LEMMA PushMsgHeadsInv ==
    ASSUME PlugInv, UNCHANGED setup, PushMsg
    PROVE  HeadsInv'
<1> DEFINE m == pending[1]
           old == buffer[GetIdx(tail + 1)]
           evicts == old.data # NoData
<1>0. /\ tail \in Nat /\ head \in Nat /\ MaxMessages \in Nat /\ MaxMessages > 0
      /\ tail' = tail + 1 /\ MaxMessages' = MaxMessages /\ m \in Message /\ head' \in Nat
      /\ head >= MaxMessages + 1 /\ head <= tail + 1 /\ removed_max_slot = NoSlot
      /\ tail >= MaxMessages
  BY PushMsgFacts DEF PlugInv, CountersInv, PushMsg
<1>1. /\ head' = IF evicts THEN head + 1 ELSE head
      /\ removed_max_slot' = IF evicts THEN old.slot ELSE NoSlot
  BY DEF PushMsg
<1>2. /\ evicts => old.pos = head /\ head = tail + 1 - MaxMessages
      /\ ~evicts => tail + 1 - head < MaxMessages
  BY OverwrittenIsOldest
<1>3. evicts => At(head).slot \in {NoSlot, old.slot} /\ old.slot \in Slot \cup {0}
  BY <1>2, PushMsgFacts DEF PlugInv, BufferInv
<1>4. /\ \A p \in MaxMessages + 1 .. tail : log'[p - MaxMessages] = At(p)
      /\ \A p \in Nat : p = tail + 1 => log'[p - MaxMessages] = m
  BY PushMsgFacts
<1>5. /\ \A s \in Slot : s # m.slot => slots'[s] = slots[s]
      /\ m.slot \in Slot =>
           /\ slots'[m.slot] = EntryAfter(m)
           /\ Known(m.slot) => EntryAfter(m).head = slots[m.slot].head
           /\ ~Known(m.slot) => EntryAfter(m).head = tail + 1
  BY PushMsgSlots
<1> HIDE DEF m, old, evicts
<1>6. ASSUME NEW s \in Slot, Known(s)
      PROVE  /\ slots[s].head \in MaxMessages + 1 .. tail'
             /\ log'[slots[s].head - MaxMessages].slot = s
             /\ slots[s].head >= head' \/ s <= removed_max_slot'
  <2>1. /\ slots[s].head \in MaxMessages + 1 .. tail /\ At(slots[s].head).slot = s
        /\ slots[s].head >= head \/ s <= removed_max_slot
    BY <1>6 DEF PlugInv, HeadsInv
  <2>2. s \in Nat /\ ~(s <= NoSlot) /\ s # NoSlot
    BY SlotFacts DEF NoSlot
  <2>3. slots[s].head >= head
    BY <1>0, <2>1, <2>2
  <2>4. slots[s].head \in MaxMessages + 1 .. tail'
    BY <1>0, <2>1
  <2>5. log'[slots[s].head - MaxMessages].slot = s
    BY <1>4, <2>1
  <2>6. slots[s].head >= head' \/ s <= removed_max_slot'
    <3>1. CASE ~evicts
      BY <1>1, <2>3, <3>1
    <3>2. CASE evicts /\ slots[s].head # head
      <4>1. slots[s].head \in Int /\ head' = head + 1
        BY <1>0, <1>1, <2>1, <3>2
      <4> QED
        BY <1>0, <2>3, <3>2, <4>1
    <3>3. CASE evicts /\ slots[s].head = head
      <4>1. old.slot = s
        BY <1>3, <2>1, <2>2, <3>3
      <4> QED
        BY <1>1, <2>2, <3>3, <4>1
    <3> QED
      BY <3>1, <3>2, <3>3
  <2> QED
    BY <2>4, <2>5, <2>6
<1>7. ASSUME NEW s \in Slot, slots'[s] # NoEntry
      PROVE  /\ slots'[s].head \in MaxMessages + 1 .. tail'
             /\ log'[slots'[s].head - MaxMessages].slot = s
             /\ slots'[s].head >= head' \/ s <= removed_max_slot'
  <2>1. CASE s # m.slot
    <3>1. slots'[s] = slots[s] /\ Known(s)
      BY <1>5, <1>7, <2>1 DEF Known
    <3> QED
      BY <1>6, <3>1
  <2>2. CASE s = m.slot /\ Known(s)
    <3>1. slots'[s].head = slots[s].head
      BY <1>5, <2>2
    <3> QED
      BY <1>6, <2>2, <3>1
  <2>3. CASE s = m.slot /\ ~Known(s)
    <3>1. slots'[s].head = tail + 1 /\ slots'[s].head \in Nat
      BY <1>0, <1>5, <2>3
    <3>2. tail + 1 \in MaxMessages + 1 .. tail' /\ tail + 1 >= head'
      BY <1>0, <1>1, <1>2
    <3>3. log'[slots'[s].head - MaxMessages] = m
      BY <1>4, <3>1
    <3> QED
      BY <2>3, <3>1, <3>2, <3>3
  <2> QED
    BY <2>1, <2>2, <2>3
<1> QED
  BY <1>0, <1>7 DEF HeadsInv, Known, At

\* The recorded parents after a message was written.
LEMMA PushMsgParentsInv ==
    ASSUME PlugInv, UNCHANGED setup, PushMsg
    PROVE  ParentsInv'
<1> DEFINE m == pending[1]
<1>0. /\ tail \in Nat /\ MaxMessages \in Nat /\ tail = MaxMessages + Len(log)
      /\ MaxMessages' = MaxMessages /\ m \in Message /\ Len(log) \in Nat
      /\ Len(log') = Len(log) + 1 /\ log'[Len(log) + 1] = m /\ TypeOK /\ ParentsInv
      /\ \A n \in 1 .. Len(log) : log'[n] = log[n] /\ log[n] \in Message
  BY PushMsgFacts DEF PlugInv
<1>1. /\ \A s \in Slot : s # m.slot => slots'[s] = slots[s]
      /\ m.slot \in Slot =>
           /\ slots'[m.slot] = EntryAfter(m)
           /\ Known(m.slot) => EntryAfter(m).head = slots[m.slot].head
           /\ ~Known(m.slot) => EntryAfter(m).head = tail + 1
  BY PushMsgSlots
<1>2. m.slot \in Slot =>
        /\ m.parent # NoSlot => EntryAfter(m).parent_slot = m.parent
        /\ m.parent = NoSlot /\ Known(m.slot) =>
             EntryAfter(m).parent_slot = slots[m.slot].parent_slot
        /\ m.parent = NoSlot /\ ~Known(m.slot) => EntryAfter(m).parent_slot = NoSlot
  BY <1>0, EntryAfterFacts
<1>3. m.parent # NoSlot => m.slot \in Slot /\ m.parent = ParentOf[m.slot]
  BY <1>0, MessageFacts
<1> HIDE DEF m
<1>4. ASSUME NEW s \in Slot, slots'[s] # NoEntry
      PROVE  slots'[s].parent_slot \in {ParentOf[s], NoSlot}
  <2>1. CASE s # m.slot
    BY <1>0, <1>1, <1>4, <2>1 DEF ParentsInv, Known
  <2>2. CASE s = m.slot
    BY <1>0, <1>1, <1>2, <1>3, <2>2 DEF ParentsInv
  <2> QED
    BY <2>1, <2>2
<1>5. ASSUME NEW j \in 1 .. Len(log) + 1, log'[j].slot \in Slot,
             slots'[log'[j].slot] # NoEntry,
             log'[j].parent # NoSlot, j + MaxMessages >= slots'[log'[j].slot].head
      PROVE  slots'[log'[j].slot].parent_slot = log'[j].parent
  <2>1. CASE j = Len(log) + 1
    BY <1>0, <1>1, <1>2, <1>5, <2>1
  <2>2. CASE j # Len(log) + 1
    <3> DEFINE x == log[j]
    <3>1. j \in 1 .. Len(log) /\ log'[j] = x /\ x \in Message
      BY <1>0, <2>2
    <3>2. x.slot \in Slot /\ x.parent = ParentOf[x.slot] /\ x.parent # NoSlot
      BY <1>5, <3>1, MessageFacts
    <3>3. Known(x.slot) /\ j + MaxMessages >= slots[x.slot].head =>
            slots[x.slot].parent_slot = x.parent
      BY <1>0, <3>1, <3>2 DEF ParentsInv
    <3> HIDE DEF x
    <3>4. CASE x.slot # m.slot
      BY <1>1, <1>5, <3>1, <3>2, <3>3, <3>4 DEF Known
    <3>5. CASE x.slot = m.slot
      <4>1. Known(x.slot)
        <5> SUFFICES ASSUME ~Known(x.slot) PROVE FALSE
          OBVIOUS
        <5>1. slots'[x.slot].head = tail + 1
          BY <1>1, <3>2, <3>5
        <5>2. j + MaxMessages >= tail + 1 /\ j <= Len(log) /\ j \in Int
          BY <1>0, <1>5, <3>1, <5>1
        <5> QED
          BY <1>0, <5>2
      <4>2. slots[x.slot].parent_slot = x.parent
        BY <1>1, <1>5, <3>1, <3>2, <3>3, <3>5, <4>1
      <4> QED
        BY <1>1, <1>2, <1>3, <3>1, <3>2, <3>5, <4>1, <4>2
    <3> QED
      BY <3>4, <3>5
  <2> QED
    BY <2>1, <2>2
<1> QED
  BY <1>0, <1>4, <1>5 DEF ParentsInv, Known

\* The rest of the batch after its first message was written: the repair of a
\* parent is pushed right before the message that needs it.
LEMMA PushMsgBatchInv ==
    ASSUME PlugInv, UNCHANGED setup, PushMsg
    PROVE  BatchInv'
<1> DEFINE m == pending[1]
           Lacks(q, st) == \/ st = "Confirmed" /\ ~slots'[q].confirmed
                           \/ st = "Rooted" /\ ~slots'[q].finalized
<1>0. /\ m \in Message /\ Len(pending) \in Nat /\ Len(pending) >= 1
      /\ Len(pending') = Len(pending) - 1 /\ TypeOK /\ BatchInv /\ pending \in Seq(Message)
      /\ \A k \in 1 .. Len(pending') :
           k + 1 \in 1 .. Len(pending) /\ pending'[k] = pending[k + 1]
  BY PushMsgFacts DEF PlugInv, TypeOK
<1>1. /\ \A s \in Slot : s # m.slot => slots'[s] = slots[s]
      /\ m.slot \in Slot => slots'[m.slot] = EntryAfter(m)
  BY PushMsgSlots
<1>2. m.slot \in Slot =>
        /\ EntryAfter(m).confirmed =
             ((Known(m.slot) /\ slots[m.slot].confirmed) \/ m.status = "Confirmed")
        /\ EntryAfter(m).finalized =
             ((Known(m.slot) /\ slots[m.slot].finalized) \/ m.status = "Rooted")
  BY <1>0, EntryAfterFacts
<1>3. ASSUME NEW k \in 1 .. Len(pending')
      PROVE  /\ pending'[k].slot \in Int /\ m.slot < pending'[k].slot
             /\ pending'[k].status = m.status /\ pending'[k].kind = "slot"
             /\ pending'[k].slot \in Slot /\ pending'[k].slot # m.slot
  <2>1. /\ k + 1 \in 1 .. Len(pending) /\ 1 < k + 1 /\ 1 \in 1 .. Len(pending)
        /\ pending'[k] = pending[k + 1] /\ Len(pending) > 1
    BY <1>0
  <2>2. /\ pending[1].slot < pending[k + 1].slot /\ pending[1].status = pending[k + 1].status
        /\ pending[1].kind = "slot" /\ pending[k + 1].kind = "slot"
    BY <1>0, <2>1 DEF BatchInv
  <2>3. pending[k + 1] \in Message
    BY <1>0, <2>1
  <2>4. /\ pending[k + 1].slot \in Slot /\ pending[k + 1].slot \in Int
        /\ pending[1].slot \in Slot /\ pending[1].slot \in Int
    BY <1>0, <2>2, <2>3, MessageFacts, SlotFacts
  <2> QED
    BY <2>1, <2>2, <2>4
<1> HIDE DEF m
<1>4. ASSUME NEW k \in 1 .. Len(pending'), NEW l \in 1 .. Len(pending'), k < l
      PROVE  pending'[k].slot < pending'[l].slot /\ pending'[k].status = pending'[l].status
  <2>1. k + 1 < l + 1 /\ k + 1 \in 1 .. Len(pending) /\ l + 1 \in 1 .. Len(pending)
    BY <1>0, <1>4
  <2> QED
    BY <1>0, <2>1 DEF BatchInv
<1>5. ASSUME NEW k \in 1 .. Len(pending'),
             ~(k > 1 /\ pending'[k - 1].slot = slots'[pending'[k].slot].parent_slot),
             NEW q \in Slot, slots'[pending'[k].slot] # NoEntry,
             slots'[pending'[k].slot].parent_slot = q, slots'[q] # NoEntry
      PROVE  ~Lacks(q, pending'[k].status)
  <2> DEFINE x == pending'[k]
  <2>1. x.slot \in Slot /\ x.slot # m.slot /\ x.status = m.status /\ x.kind = "slot"
    BY <1>3
  <2>2. slots'[x.slot] = slots[x.slot] /\ Known(x.slot) /\ slots[x.slot].parent_slot = q
    BY <1>1, <1>5, <2>1 DEF Known
  <2>3. x = pending[k + 1] /\ k + 1 \in 1 .. Len(pending) /\ (k + 1) - 1 = k
    BY <1>0
  <2>4. CASE q = m.slot
    BY <1>1, <1>2, <2>1, <2>4
  <2>5. CASE q # m.slot
    <3>1. slots'[q] = slots[q] /\ Known(q)
      BY <1>1, <1>5, <2>5 DEF Known
    <3>2. pending[k].slot # q
      <4>1. CASE k = 1
        BY <2>5, <4>1 DEF m
      <4>2. CASE k # 1
        <5>1. k > 1 /\ k - 1 \in 1 .. Len(pending') /\ (k - 1) + 1 = k
          BY <1>0, <4>2
        <5>2. pending'[k - 1] = pending[k]
          BY <1>0, <5>1
        <5> QED
          BY <1>5, <2>2, <5>1, <5>2
      <4> QED
        BY <4>1, <4>2
    <3>3. Repaired(x.slot, x.status)
      BY <1>0, <2>1, <2>2, <2>3, <3>2 DEF BatchInv
    <3>4. ~LacksStatus(q, x.status)
      BY <2>2, <3>1, <3>3 DEF Repaired
    <3> QED
      BY <3>1, <3>4 DEF LacksStatus
  <2> QED
    BY <2>4, <2>5
<1>6. ASSUME NEW k \in 1 .. Len(pending')
      PROVE  \/ k > 1 /\ pending'[k - 1].slot = slots'[pending'[k].slot].parent_slot
             \/ \A q \in Slot : Known(pending[k].slot)' /\ slots'[pending'[k].slot].parent_slot = q
                                  /\ Known(q)' => ~LacksStatus(q, pending[k].status)'
  BY <1>5 DEF Known, LacksStatus
<1> HIDE DEF Lacks
<1> QED
  BY <1>0, <1>3, <1>4, <1>6 DEF BatchInv, Repaired

\* No ancestor misses a status after a message was written: a new status finds the
\* parent repaired, and an old one keeps what it gave.
LEMMA PushMsgStatusInv ==
    ASSUME PlugInv, UNCHANGED setup, PushMsg
    PROVE  StatusInv'
<1> DEFINE m == pending[1]
           N == Len(log)
           Lacks(q, st) == \/ st = "Confirmed" /\ ~slots'[q].confirmed
                           \/ st = "Rooted" /\ ~slots'[q].finalized
<1>0. /\ tail \in Nat /\ MaxMessages \in Nat /\ tail = MaxMessages + N
      /\ MaxMessages' = MaxMessages /\ m \in Message /\ N \in Nat
      /\ Len(log') = N + 1 /\ log'[N + 1] = m /\ TypeOK
      /\ ParentsInv /\ BatchInv /\ StatusInv
      /\ \A n \in 1 .. N : log'[n] = log[n] /\ log[n] \in Message
      /\ 1 \in 1 .. Len(pending)
  BY PushMsgFacts DEF PlugInv
<1>1. /\ \A s \in Slot : s # m.slot => slots'[s] = slots[s]
      /\ m.slot \in Slot =>
           /\ slots'[m.slot] = EntryAfter(m)
           /\ Known(m.slot) => EntryAfter(m).head = slots[m.slot].head
           /\ ~Known(m.slot) => EntryAfter(m).head = tail + 1
  BY PushMsgSlots
<1>2. m.slot \in Slot =>
        /\ EntryAfter(m).confirmed =
             ((Known(m.slot) /\ slots[m.slot].confirmed) \/ m.status = "Confirmed")
        /\ EntryAfter(m).finalized =
             ((Known(m.slot) /\ slots[m.slot].finalized) \/ m.status = "Rooted")
  BY <1>0, EntryAfterFacts
<1>3. m.kind = "slot" => Repaired(m.slot, m.status)
  <2>1. ~(1 > 1)
    OBVIOUS
  <2> QED
    BY <1>0, <2>1 DEF BatchInv
<1> HIDE DEF m
<1>4. ASSUME NEW i \in 1 .. N + 1, NEW j \in 1 .. N + 1, NEW p \in Slot,
             j < i, log'[i].kind = "slot", log'[j].slot = log'[i].slot, log'[j].parent = p,
             log'[i].slot \in Slot, slots'[log'[i].slot] # NoEntry,
             slots'[log'[i].slot].parent_slot = p,
             j + MaxMessages >= slots'[log'[i].slot].head,
             slots'[p] # NoEntry, slots'[p].head < MaxMessages + i
      PROVE  ~Lacks(p, log'[i].status)
  <2> DEFINE s == log'[i].slot
             st == log'[i].status
  <2>1. j \in 1 .. N /\ log'[j] = log[j] /\ log[j] \in Message /\ j \in Int /\ j <= N
    BY <1>0, <1>4
  <2>2. s \in Slot /\ log[j].slot = s /\ log[j].parent = p
    BY <1>4, <2>1
  <2>3. p = ParentOf[s] /\ p < s /\ p # s
    <3>1. p # NoSlot /\ p = ParentOf[s]
      BY <2>1, <2>2, MessageFacts, SlotFacts
    <3>2. p < s
      BY <2>2, <3>1, ConstantsAssumption
    <3> QED
      BY <2>2, <3>1, <3>2, SlotFacts
  <2>4. Known(s)
    <3> SUFFICES ASSUME ~Known(s) PROVE FALSE
      OBVIOUS
    <3>1. s = m.slot
      BY <1>1, <1>4, <2>2 DEF Known
    <3>2. slots'[s].head = tail + 1
      BY <1>1, <2>2, <3>1
    <3>3. j + MaxMessages >= tail + 1
      BY <1>4, <3>2
    <3> QED
      BY <1>0, <2>1, <3>3
  <2>5. slots'[s].head = slots[s].head
    BY <1>1, <2>2, <2>4
  <2>6. slots[s].parent_slot = p /\ j + MaxMessages >= slots[s].head
    <3>1. j + MaxMessages >= slots[s].head
      BY <1>4, <2>5
    <3>2. log[j].parent # NoSlot
      BY <2>2, SlotFacts
    <3> QED
      BY <1>0, <2>1, <2>2, <2>4, <3>1, <3>2 DEF ParentsInv
  <2>7. CASE i = N + 1
    <3>1. s = m.slot /\ st = m.status /\ m.kind = "slot"
      BY <1>0, <1>4, <2>7
    <3>2. slots'[p] = slots[p] /\ Known(p)
      BY <1>1, <1>4, <2>3, <3>1 DEF Known
    <3>3. ~LacksStatus(p, st)
      BY <1>3, <2>4, <2>6, <3>1, <3>2 DEF Repaired
    <3> QED
      BY <3>2, <3>3 DEF LacksStatus
  <2>8. CASE i # N + 1
    <3>1. i \in 1 .. N /\ log'[i] = log[i] /\ i \in Int /\ i <= N
      BY <1>0, <2>8
    <3>2. Known(p) /\ slots'[p].head = slots[p].head
      <4>1. CASE p # m.slot
        BY <1>1, <1>4, <4>1 DEF Known
      <4>2. CASE p = m.slot
        <5>1. Known(p)
          <6> SUFFICES ASSUME ~Known(p) PROVE FALSE
            OBVIOUS
          <6>1. tail + 1 < MaxMessages + i
            BY <1>1, <1>4, <4>2
          <6> QED
            BY <1>0, <3>1, <6>1
        <5> QED
          BY <1>1, <4>2, <5>1
      <4> QED
        BY <4>1, <4>2
    <3>3. slots[p].head < MaxMessages + i
      BY <1>4, <3>2
    <3>4. ~LacksStatus(p, st)
      <4>1. /\ log[i].kind = "slot" /\ log[j].slot = log[i].slot
            /\ log[i].slot = s /\ log[i].status = st
        BY <1>4, <2>1, <3>1
      <4> HIDE DEF s, st
      <4> QED
        BY <1>0, <1>4, <2>1, <2>2, <2>4, <2>6, <3>1, <3>2, <3>3, <4>1 DEF StatusInv
    <3>5. CASE p # m.slot
      BY <1>1, <3>4, <3>5 DEF LacksStatus
    <3>6. CASE p = m.slot
      BY <1>1, <1>2, <3>2, <3>4, <3>6 DEF LacksStatus
    <3> QED
      BY <3>5, <3>6
  <2> QED
    BY <2>7, <2>8
<1>5. ASSUME NEW i \in 1 .. N + 1, NEW j \in 1 .. N + 1, NEW p \in Slot
      PROVE (/\ j < i /\ log'[i].kind = "slot" /\ log'[j].slot = log'[i].slot
             /\ log'[j].parent = p
             /\ log'[i].slot \in Slot /\ slots'[log'[i].slot] # NoEntry
             /\ slots'[log'[i].slot].parent_slot = p
             /\ j + MaxMessages >= slots'[log'[i].slot].head
             /\ slots'[p] # NoEntry /\ slots'[p].head < MaxMessages + i)
            => ~Lacks(p, log'[i].status)
  BY <1>4
<1> HIDE DEF N
<1> QED
  BY <1>0, <1>5 DEF StatusInv, Known, LacksStatus

\* push_msg keeps the invariant up to the overwrite of the item ...
LEMMA PushMsgPlugInv ==
    ASSUME PlugInv, UNCHANGED setup, PushMsg
    PROVE  PlugInv'
  BY PushMsgTypeOK, PushMsgBufferInv, PushMsgAccountInv, PushMsgHeadsInv,
     PushMsgParentsInv, PushMsgBatchInv, PushMsgStatusInv DEF PlugInv

\* ... through the loop that drops extra messages by max bytes ...
LEMMA EvictByBytesPlugInv ==
    ASSUME PlugInv, UNCHANGED setup, EvictByBytes
    PROVE  PlugInv'
<1> DEFINE i == GetIdx(head)
           old == buffer[i]
           N == Len(log)
<1>0. /\ tail \in Nat /\ head \in Nat /\ MaxMessages \in Nat /\ MaxMessages > 0
      /\ tail = MaxMessages + N /\ N \in Nat /\ setup \in Setups
      /\ head >= MaxMessages + 1 /\ head < tail /\ tail - head < MaxMessages
      /\ MaxMessages' = MaxMessages /\ head \in head .. tail /\ TypeOK
      /\ lock = "evict" /\ log \in Seq(Message)
  <2>1. setup \in Setups /\ TypeOK /\ CountersInv
    BY DEF PlugInv, CountersInv
  <2>2. tail \in Nat /\ head \in Nat /\ N \in Nat /\ log \in Seq(Message)
    BY <2>1 DEF TypeOK
  <2>3. MaxMessages \in Nat /\ MaxMessages > 0 /\ MaxMessages' = MaxMessages
    BY <2>1, SetupFacts DEF MaxMessages
  <2>4. /\ tail = MaxMessages + N /\ head >= MaxMessages + 1 /\ head < tail
        /\ tail - head < MaxMessages /\ lock = "evict"
    BY <2>1 DEF CountersInv, EvictByBytes, OverBytes
  <2> QED
    BY <2>1, <2>2, <2>3, <2>4
<1>1. /\ head' = head + 1 /\ bytes_total' = bytes_total - Size(old.data)
      /\ buffer' = [buffer EXCEPT ![i].data = NoData]
      /\ removed_max_slot' = IF old.slot > removed_max_slot THEN old.slot ELSE removed_max_slot
      /\ UNCHANGED <<tail, slots, wakers, lock, pending, to_wake, closing, rcv, log>>
  BY DEF EvictByBytes
<1>2. i \in 0 .. MaxMessages - 1
  BY <1>0, GetIdxFacts
<1>3. /\ old.data # NoData /\ old.pos = head /\ old.data = At(head)
      /\ At(head).slot \in {NoSlot, old.slot} /\ old.slot \in Slot \cup {0}
  BY <1>0, <1>2 DEF PlugInv, BufferInv
<1> HIDE DEF i
<1>4. /\ \A j \in 0 .. MaxMessages - 1 :
           buffer'[j].pos = buffer[j].pos /\ buffer'[j].slot = buffer[j].slot
      /\ \A j \in 0 .. MaxMessages - 1 : j # i => buffer'[j] = buffer[j]
      /\ buffer'[i].data = NoData
      /\ buffer' \in [0 .. MaxMessages - 1 ->
                     [pos : Nat, slot : Nat, data : Message \cup {NoData}, closed : BOOLEAN]]
  BY <1>0, <1>1, <1>2 DEF TypeOK
<1> HIDE DEF old, N
<1>5. CountersInv'
  BY <1>0, <1>1 DEF CountersInv, N
<1>6. BufferInv'
  <2>1. ASSUME NEW j \in 0 .. MaxMessages - 1
        PROVE  /\ buffer'[j].slot \in Slot \cup {0}
               /\ buffer'[j].data # NoData =>
                    /\ buffer'[j].pos \in head + 1 .. tail
                    /\ GetIdx(buffer'[j].pos) = j
                    /\ buffer'[j].data = At(buffer'[j].pos)
                    /\ At(buffer'[j].pos).slot \in {NoSlot, buffer'[j].slot}
    <3>1. buffer[j].slot \in Slot \cup {0} /\ buffer'[j].slot = buffer[j].slot
      BY <1>4 DEF PlugInv, BufferInv
    <3>2. CASE j = i
      BY <1>4, <3>1, <3>2
    <3>3. CASE j # i
      <4>1. buffer'[j] = buffer[j]
        BY <1>4, <3>3
      <4>2. ASSUME buffer[j].data # NoData
            PROVE  /\ buffer[j].pos \in head + 1 .. tail
                   /\ GetIdx(buffer[j].pos) = j
                   /\ buffer[j].data = At(buffer[j].pos)
                   /\ At(buffer[j].pos).slot \in {NoSlot, buffer[j].slot}
        <5>1. /\ buffer[j].pos \in head .. tail /\ GetIdx(buffer[j].pos) = j
              /\ buffer[j].data = At(buffer[j].pos)
              /\ At(buffer[j].pos).slot \in {NoSlot, buffer[j].slot}
          BY <4>2 DEF PlugInv, BufferInv
        <5>2. buffer[j].pos # head
          BY <3>3, <5>1 DEF i
        <5> QED
          BY <1>0, <5>1, <5>2
      <4> QED
        BY <3>1, <4>1, <4>2
    <3> QED
      BY <3>2, <3>3
  <2>2. ASSUME NEW p \in head + 1 .. tail
        PROVE  buffer'[GetIdx(p)].data # NoData /\ buffer'[GetIdx(p)].pos = p
    <3>1. p \in head .. tail /\ p \in Nat /\ head < p /\ p < head + MaxMessages
      BY <1>0
    <3>2. GetIdx(p) \in 0 .. MaxMessages - 1 /\ GetIdx(p) # i
      BY <1>0, <3>1, GetIdxFacts DEF i
    <3>3. buffer[GetIdx(p)].data # NoData /\ buffer[GetIdx(p)].pos = p
      BY <3>1 DEF PlugInv, BufferInv
    <3> QED
      BY <1>4, <3>2, <3>3
  <2> QED
    BY <1>0, <1>1, <2>1, <2>2 DEF BufferInv, At, GetIdx
<1>7. PositionInv'
  <2>1. ASSUME NEW p \in MaxMessages + 1 .. tail PROVE buffer'[GetIdx(p)].pos >= p
    <3>1. GetIdx(p) \in 0 .. MaxMessages - 1
      BY <1>0, GetIdxFacts
    <3> QED
      BY <1>4, <3>1 DEF PlugInv, PositionInv
  <2> QED
    BY <1>0, <1>1, <2>1 DEF PositionInv, GetIdx
<1>8. AccountInv' /\ bytes_total' \in Nat
  <2>1. PICK sum \in [0 .. N -> Nat] :
          /\ \A n \in 1 .. N : sum[n] = sum[n - 1] + Size(log[n])
          /\ \A a, b \in 0 .. N : a <= b => sum[a] <= sum[b]
          /\ bytes_total = sum[tail - MaxMessages] - sum[head - 1 - MaxMessages]
    BY DEF PlugInv, AccountInv, N
  <2> DEFINE h == head - MaxMessages
  <2>2. /\ h \in 1 .. N /\ h \in 0 .. N /\ h - 1 \in 0 .. N /\ N \in 0 .. N /\ h <= N
        /\ h - 1 = head - 1 - MaxMessages /\ tail - MaxMessages = N
        /\ (head + 1) - 1 - MaxMessages = h
    BY <1>0
  <2>3. sum[h] = sum[h - 1] + Size(old.data) /\ Size(old.data) \in Nat
    BY <1>3, <2>1, <2>2 DEF At, Size
  <2>4. bytes_total = sum[N] - sum[h - 1]
    BY <2>1, <2>2
  <2> HIDE DEF h
  <2>5. sum[N] \in Nat /\ sum[h] \in Nat /\ sum[h - 1] \in Nat /\ sum[h] <= sum[N]
    BY <2>1, <2>2
  <2>6. bytes_total' = sum[N] - sum[h]
    BY <1>1, <2>3, <2>4, <2>5
  <2>7. bytes_total' = sum[tail' - MaxMessages] - sum[head' - 1 - MaxMessages]
    BY <1>1, <2>2, <2>6
  <2>8. AccountInv'
    <3>1. \E f \in [0 .. Len(log) -> Nat] :
            /\ \A n \in 1 .. Len(log) : f[n] = f[n - 1] + Size(log[n])
            /\ \A a, b \in 0 .. Len(log) : a <= b => f[a] <= f[b]
            /\ bytes_total' = f[tail' - MaxMessages] - f[head' - 1 - MaxMessages]
      BY <2>1, <2>7 DEF N
    <3> QED
      BY <1>0, <1>1, <3>1 DEF AccountInv, Size
  <2> QED
    BY <2>5, <2>6, <2>8
<1>9. HeadsInv'
  <2>1. removed_max_slot \in Int /\ old.slot \in Int /\ old.slot # NoSlot
    BY <1>0, <1>3, SlotFacts DEF TypeOK, NoSlot
  <2>2. /\ removed_max_slot' \in Int
        /\ removed_max_slot' >= removed_max_slot /\ removed_max_slot' >= old.slot
    BY <1>1, <2>1
  <2>3. ASSUME NEW s \in Slot, Known(s)
        PROVE  slots[s].head >= head + 1 \/ s <= removed_max_slot'
    <3>1. /\ slots[s].head \in MaxMessages + 1 .. tail /\ At(slots[s].head).slot = s
          /\ slots[s].head >= head \/ s <= removed_max_slot
      BY <2>3 DEF PlugInv, HeadsInv
    <3>2. s \in Int /\ s # NoSlot
      BY SlotFacts
    <3>3. CASE s <= removed_max_slot
      BY <2>1, <2>2, <3>2, <3>3
    <3>4. CASE slots[s].head > head
      BY <1>0, <3>1, <3>4
    <3>5. CASE slots[s].head = head
      <4>1. old.slot = s
        BY <1>3, <3>1, <3>2, <3>5
      <4> QED
        BY <2>2, <4>1
    <3> QED
      BY <1>0, <3>1, <3>3, <3>4, <3>5
  <2> QED
    BY <1>0, <1>1, <2>3 DEF PlugInv, HeadsInv, Known, At
<1>a. MaxMessages' = MaxMessages /\ UNCHANGED <<slots, log, pending>>
  BY <1>0, <1>1
<1>10. ParentsInv' /\ BatchInv' /\ StatusInv'
  <2>1. ParentsInv'
    BY <1>a DEF PlugInv, ParentsInv, Known
  <2>2. BatchInv'
    BY <1>a DEF PlugInv, BatchInv, Repaired, Known, LacksStatus
  <2>3. StatusInv'
    BY <1>a DEF PlugInv, StatusInv, Known, LacksStatus
  <2> QED
    BY <2>1, <2>2, <2>3
<1>11. TypeOK'
  <2>1. removed_max_slot' \in Slot \cup {0, NoSlot}
    BY <1>0, <1>1, <1>3 DEF TypeOK
  <2>2. /\ head' \in Nat /\ MaxMessages' = MaxMessages /\ TypeOK
        /\ UNCHANGED <<tail, slots, wakers, lock, pending, to_wake, closing, rcv, log>>
    BY <1>0, <1>1
  <2>3. /\ bytes_total' \in Nat
        /\ buffer' \in [0 .. MaxMessages' - 1 ->
                     [pos : Nat, slot : Nat, data : Message \cup {NoData}, closed : BOOLEAN]]
    BY <1>4, <1>8, <2>2
  <2> QED
    BY <2>1, <2>2, <2>3 DEF TypeOK, rcv
<1> QED
  BY <1>5, <1>6, <1>7, <1>8, <1>9, <1>10, <1>11 DEF PlugInv

\* ... and when it removes the slots that are not complete any more.
LEMMA RemoveSlotsPlugInv ==
    ASSUME PlugInv, UNCHANGED setup, RemoveSlots
    PROVE  PlugInv'
<1>0. /\ TypeOK /\ MaxMessages' = MaxMessages
  BY DEF PlugInv, MaxMessages
<1>1. /\ slots' = [s \in Slot |-> IF s <= removed_max_slot THEN NoEntry ELSE slots[s]]
      /\ removed_max_slot' = NoSlot /\ lock' = "push"
      /\ UNCHANGED <<head, tail, bytes_total, wakers, buffer, pending, to_wake, closing, rcv, log>>
  BY DEF RemoveSlots, CompleteSlots
<1>2. \A s \in Slot : slots'[s] # NoEntry => slots'[s] = slots[s] /\ ~(s <= removed_max_slot)
  BY <1>1
<1>3. TypeOK'
  <2>1. slots' \in [Slot -> Entry]
    BY <1>0, <1>1 DEF TypeOK, Entry
  <2> QED
    BY <1>0, <1>1, <2>1 DEF TypeOK, rcv
<1>4. CountersInv'
  BY <1>0, <1>1 DEF PlugInv, CountersInv
<1>5. BufferInv' /\ PositionInv' /\ AccountInv'
  BY <1>0, <1>1 DEF PlugInv, BufferInv, PositionInv, AccountInv, At, GetIdx, Size
<1>6. HeadsInv'
  BY <1>0, <1>1, <1>2 DEF PlugInv, HeadsInv, At, Known
<1>7. ParentsInv'
  BY <1>0, <1>1, <1>2 DEF PlugInv, ParentsInv, Known
<1>8. BatchInv'
  BY <1>0, <1>1, <1>2 DEF PlugInv, BatchInv, Repaired, Known, LacksStatus
<1>9. StatusInv'
  BY <1>0, <1>1, <1>2 DEF PlugInv, StatusInv, Known, LacksStatus
<1> QED
  BY <1>3, <1>4, <1>5, <1>6, <1>7, <1>8, <1>9 DEF PlugInv

\* Every step keeps PlugInv.
LEMMA NextPlugInv == PlugInv /\ [Next]_vars => PlugInv'
<1> SUFFICES ASSUME PlugInv, [Next]_vars PROVE PlugInv'
  OBVIOUS
<1>1. CASE UNCHANGED vars
  <2>1. UNCHANGED <<setup, head, tail, slots, bytes_total, wakers, buffer, lock, pending,
                    removed_max_slot, to_wake, closing, rcv_pc, next, rcv_got, log>>
    BY <1>1 DEF vars, steps, state, push, rcv
  <2>2. TypeOK'
    BY <2>1 DEF PlugInv, TypeOK, MaxMessages
  <2> QED
    BY <2>1, <2>2, FramePlugInv DEF state, push
<1>2. CASE Next
  <2>1. UNCHANGED setup
    BY <1>2 DEF Next
  <2>2. CASE \E m \in Offered : PushBegin(m)
    BY <2>1, <2>2, PushBeginPlugInv DEF Offered
  <2>3. CASE PushMsg
    BY <2>1, <2>3, PushMsgPlugInv
  <2>4. CASE EvictByBytes
    BY <2>1, <2>4, EvictByBytesPlugInv
  <2>5. CASE RemoveSlots
    BY <2>1, <2>5, RemoveSlotsPlugInv
  <2>6. CASE PushEnd \/ CloseItem \/ CloseWake \/ \E r \in Receiver : Wake(r)
    BY <2>1, <2>6, WakePlugInv
  <2>7. CASE \E r \in Receiver : Reader(r)
    BY <2>1, <2>7, ReaderPlugInv
  <2> QED
    BY <1>2, <2>2, <2>3, <2>4, <2>5, <2>6, <2>7 DEF Next, Sender
<1> QED
  BY <1>1, <1>2

\* PlugInv holds in every reachable state.
LEMMA PlugInvariant == Spec => []PlugInv
  BY InitPlugInv, NextPlugInv, PTL DEF Spec

-----------------------------------------------------------------------------
(* Theorems *)

\* The slot map of the plugin's ring is sound, for every capacity, byte limit and
\* set of slots: a slot offered for replay starts at a message the ring still
\* holds, and the repair of push leaves no known ancestor without a status.
THEOREM SlotMapIsSound == Spec => []SlotMapInv
<1>1. ASSUME PlugInv PROVE SlotMapInv
  <2>0. /\ TypeOK /\ CountersInv /\ BufferInv /\ HeadsInv /\ StatusInv /\ ParentsInv
        /\ MaxMessages \in Nat /\ head \in Nat /\ tail \in Nat
    BY <1>1, SetupFacts DEF PlugInv, CountersInv, TypeOK
  <2>1. KnownHeadsAreHeld
    <3> SUFFICES ASSUME lock = "free", NEW s \in Slot, Known(s)
                 PROVE  /\ slots[s].head \in head .. tail
                        /\ At(slots[s].head).slot = s
                        /\ buffer[GetIdx(slots[s].head)].data = At(slots[s].head)
      BY DEF KnownHeadsAreHeld
    <3>1. /\ slots[s].head \in MaxMessages + 1 .. tail /\ At(slots[s].head).slot = s
          /\ slots[s].head >= head \/ s <= removed_max_slot
      BY <2>0 DEF HeadsInv
    <3>2. ~(s <= removed_max_slot)
      BY <2>0, SlotFacts DEF CountersInv, NoSlot
    <3>3. slots[s].head \in head .. tail /\ slots[s].head \in Nat
      BY <2>0, <3>1, <3>2
    <3>4. GetIdx(slots[s].head) \in 0 .. MaxMessages - 1
      BY <2>0, <3>3, GetIdxFacts DEF CountersInv
    <3> QED
      BY <2>0, <3>1, <3>3, <3>4 DEF BufferInv
  <2>2. AncestorsGetStatus
    <3> SUFFICES ASSUME NEW i \in 1 .. Len(log), log[i].kind = "slot",
                        Known(log[i].slot), slots[log[i].slot].parent_slot # NoSlot,
                        Known(slots[log[i].slot].parent_slot),
                        NEW j \in 1 .. i - 1, log[j].slot = log[i].slot,
                        log[j].parent = slots[log[i].slot].parent_slot,
                        j + MaxMessages >= slots[log[i].slot].head,
                        slots[slots[log[i].slot].parent_slot].head < MaxMessages + i
                 PROVE  ~LacksStatus(slots[log[i].slot].parent_slot, log[i].status)
      BY SlotFacts DEF AncestorsGetStatus
    <3>1. slots[log[i].slot].parent_slot \in Slot
      BY DEF Known
    <3>2. j \in 1 .. Len(log) /\ j < i
      BY <2>0 DEF TypeOK
    <3> QED
      BY <2>0, <3>1, <3>2 DEF StatusInv
  <2> QED
    BY <2>0, <2>1, <2>2 DEF SlotMapInv
<1> QED
  BY <1>1, PlugInvariant, PTL

\* A receiver parks under the mutex only when the item at its cursor was not
\* written yet.
LEMMA ParksAtTheEnd ==
    ASSUME PlugInv, NEW c \in Nat, c >= MaxMessages, buffer[GetIdx(c)].pos < c
    PROVE  c > tail \/ c = MaxMessages
<1>0. /\ TypeOK /\ setup \in Setups /\ tail \in Nat /\ MaxMessages \in Nat
      /\ GetIdx(c) \in 0 .. MaxMessages - 1
  BY SetupFacts, GetIdxFacts DEF PlugInv, CountersInv, TypeOK
<1> SUFFICES ASSUME c \in MaxMessages + 1 .. tail PROVE FALSE
  BY <1>0
<1>1. buffer[GetIdx(c)].pos >= c
  BY DEF PlugInv, PositionInv
<1>2. buffer[GetIdx(c)].pos \in Nat
  <2>1. buffer[GetIdx(c)] \in [pos : Nat, slot : Nat, data : Message \cup {NoData}, closed : BOOLEAN]
    BY <1>0 DEF TypeOK
  <2> QED
    BY <2>1
<1> QED
  BY <1>1, <1>2

\* WakersInv is inductive relative to PlugInv.
LEMMA NextWakersInv == PlugInv /\ WakersInv /\ [Next]_vars => WakersInv'
<1> SUFFICES ASSUME PlugInv, WakersInv, [Next]_vars PROVE WakersInv'
  OBVIOUS
<1>0. /\ TypeOK /\ setup \in Setups /\ tail \in Nat /\ MaxMessages \in Nat
      /\ rcv_pc \in [Receiver -> {"new", "ready", "recheck", "parked", "lagged", "closed"}]
      /\ next \in [Receiver -> Nat] /\ tail >= MaxMessages
      /\ wakers \subseteq Receiver /\ to_wake \subseteq Receiver
  BY SetupFacts DEF PlugInv, CountersInv, TypeOK
<1>1. MaxMessages' = MaxMessages
  BY DEF Next, vars, MaxMessages
<1>2. CASE UNCHANGED vars \/ CloseItem \/ EvictByBytes \/ RemoveSlots \/ PushMsg
           \/ \E m \in Offered : PushBegin(m)
  <2>1. /\ UNCHANGED <<wakers, to_wake, rcv_pc, next>>
        /\ lock' = "free" => lock = "free" /\ tail' = tail
    BY <1>2 DEF vars, steps, CloseItem, EvictByBytes, RemoveSlots, PushMsg, PushBegin, rcv,
                push, state
  <2> QED
    BY <1>0, <1>1, <2>1 DEF WakersInv
<1>3. CASE PushEnd
  BY <1>0, <1>1, <1>3 DEF WakersInv, PushEnd, rcv
<1>4. CASE CloseWake
  BY <1>0, <1>1, <1>4 DEF WakersInv, CloseWake
<1>5. ASSUME NEW r \in Receiver, Wake(r) PROVE WakersInv'
  BY <1>0, <1>1, <1>5 DEF WakersInv, Wake, push, state
<1>6. ASSUME NEW r \in Receiver, NEW pos \in Nat, pos >= MaxMessages, rcv_pc[r] = "new",
             rcv_pc' = [rcv_pc EXCEPT ![r] = "ready"], next' = [next EXCEPT ![r] = pos],
             UNCHANGED <<wakers, to_wake, lock, tail>>
      PROVE  WakersInv'
  BY <1>0, <1>1, <1>6 DEF WakersInv
<1>7. ASSUME NEW r \in Receiver, SubscribeLive(r) PROVE WakersInv'
  BY <1>0, <1>6, <1>7 DEF SubscribeLive, state, push
<1>8. ASSUME NEW r \in Receiver, NEW s \in Slot, SubscribeFrom(r, s) PROVE WakersInv'
  <2>1. slots[s].head \in MaxMessages + 1 .. tail
    BY <1>8 DEF SubscribeFrom, PlugInv, HeadsInv
  <2>2. slots[s].head \in Nat /\ slots[s].head >= MaxMessages
    BY <1>0, <2>1
  <2> QED
    BY <1>6, <1>8, <2>2 DEF SubscribeFrom, state, push
<1>9. ASSUME NEW r \in Receiver, rcv_pc[r] \in {"ready", "recheck"},
             NEW w \in {"ready", "recheck", "lagged", "closed"},
             rcv_pc' = [rcv_pc EXCEPT ![r] = w],
             next' = next \/ next' = [next EXCEPT ![r] = @ + 1],
             UNCHANGED <<wakers, to_wake, lock, tail>>
      PROVE  WakersInv'
  <2>1. r \notin wakers \cup to_wake
    BY <1>9 DEF WakersInv
  <2>2. \A x \in Receiver : /\ next'[x] >= next[x] /\ (x # r => next'[x] = next[x])
                            /\ next[x] \in Nat /\ next'[x] \in Nat
    BY <1>0, <1>9
  <2>3. \A x \in Receiver : /\ rcv_pc'[x] # "new" => next'[x] >= MaxMessages
    BY <1>0, <1>9, <2>2 DEF WakersInv
  <2> QED
    BY <1>0, <1>1, <1>9, <2>1, <2>2, <2>3 DEF WakersInv
<1>10. ASSUME NEW r \in Receiver, Peek(r) PROVE WakersInv'
  <2> DEFINE item == buffer[GetIdx(next[r])]
  <2>1. UNCHANGED <<wakers, to_wake, lock, tail>> /\ rcv_pc[r] = "ready"
    BY <1>10 DEF Peek, state, push
  <2>2. CASE item.closed \/ Moved(item, next[r])
    <3>1. /\ rcv_pc' = [rcv_pc EXCEPT ![r] = IF item.closed THEN "closed" ELSE "recheck"]
          /\ next' = next
      BY <1>10, <2>2 DEF Peek
    <3> QED
      BY <1>9, <2>1, <3>1
  <2>3. CASE ~(item.closed \/ Moved(item, next[r]))
    <3>1. TakeItem(r, item)
      BY <1>10, <2>3 DEF Peek
    <3> QED
      BY <1>9, <2>1, <3>1 DEF TakeItem
  <2> QED
    BY <2>2, <2>3
<1>11. ASSUME NEW r \in Receiver, Recheck(r) PROVE WakersInv'
  <2> DEFINE item == buffer[GetIdx(next[r])]
             parks == ~item.closed /\ item.pos < next[r]
  <2>1. /\ UNCHANGED <<to_wake, lock, tail>> /\ rcv_pc[r] = "recheck" /\ lock = "free"
        /\ wakers' = IF parks THEN wakers \cup {r} ELSE wakers
    BY <1>11 DEF Recheck, state, push
  <2>2. next[r] \in Nat /\ next[r] >= MaxMessages /\ r \notin wakers \cup to_wake
    BY <1>0, <2>1 DEF WakersInv
  <2>3. item.pos \in Nat
    <3>1. GetIdx(next[r]) \in 0 .. MaxMessages - 1
      BY <1>0, <2>2, GetIdxFacts
    <3>2. item \in [pos : Nat, slot : Nat, data : Message \cup {NoData}, closed : BOOLEAN]
      BY <1>0, <3>1 DEF TypeOK
    <3> QED
      BY <3>2
  <2>4. CASE parks
    <3>1. rcv_pc' = [rcv_pc EXCEPT ![r] = "parked"] /\ next' = next
      <4>1. Moved(item, next[r]) /\ ~item.closed /\ parks
        BY <2>2, <2>3, <2>4 DEF Moved
      <4> QED
        BY <1>11, <4>1 DEF Recheck
    <3>2. next[r] > tail \/ next[r] = MaxMessages
      BY <2>2, <2>4, ParksAtTheEnd
    <3> HIDE DEF parks, item
    <3> QED
      BY <1>0, <1>1, <2>1, <2>2, <2>4, <3>1, <3>2 DEF WakersInv
  <2>5. CASE ~parks /\ (item.closed \/ Moved(item, next[r]))
    <3>1. rcv_pc' = [rcv_pc EXCEPT ![r] = IF item.closed THEN "closed" ELSE "lagged"]
          /\ next' = next
      BY <1>11, <2>5 DEF Recheck
    <3> QED
      BY <1>9, <2>1, <2>5, <3>1
  <2>6. CASE ~parks /\ ~(item.closed \/ Moved(item, next[r]))
    <3>1. TakeItem(r, item)
      BY <1>11, <2>6 DEF Recheck
    <3> QED
      BY <1>9, <2>1, <2>6, <3>1 DEF TakeItem
  <2> QED
    BY <2>4, <2>5, <2>6
<1> QED
  BY <1>2, <1>3, <1>4, <1>5, <1>7, <1>8, <1>10, <1>11 DEF Next, Sender, Reader

\* The wakers are sound in every reachable state.
LEMMA WakersInvariant == Spec => []WakersInv
<1>1. Init => WakersInv
  BY DEF Init, WakersInv
<1> QED
  BY <1>1, PlugInvariant, NextWakersInv, PTL DEF Spec

\* No wakeup is lost, for every number of receivers and every schedule of pushes,
\* polls, wakes and close: who is parked while no push runs and no wake is on its
\* way has read every message.
THEOREM NoLostWakeup == Spec => []ParkedHasReadAll
<1>1. ASSUME WakersInv PROVE ParkedHasReadAll
  BY <1>1 DEF WakersInv, ParkedHasReadAll
<1> QED
  BY <1>1, WakersInvariant, PTL

-----------------------------------------------------------------------------
(* The ring implements the broadcast log *)

\* A receiver that takes data takes the message at its cursor.
LEMMA TakenIsLogged ==
    ASSUME PlugInv, NEW c \in Nat, ~Moved(buffer[GetIdx(c)], c), buffer[GetIdx(c)].data # NoData
    PROVE  /\ c - MaxMessages \in 1 .. Len(log)
           /\ buffer[GetIdx(c)].data = log[c - MaxMessages]
           /\ log[c - MaxMessages] \in Message
<1>0. /\ setup \in Setups /\ tail \in Nat /\ head \in Nat /\ MaxMessages \in Nat
      /\ tail = MaxMessages + Len(log) /\ head >= MaxMessages + 1
      /\ GetIdx(c) \in 0 .. MaxMessages - 1 /\ log \in Seq(Message) /\ Len(log) \in Nat
  BY SetupFacts, GetIdxFacts DEF PlugInv, CountersInv, TypeOK
<1>1. buffer[GetIdx(c)].pos = c
  BY DEF Moved
<1>2. c \in head .. tail /\ buffer[GetIdx(c)].data = At(c)
  BY <1>0, <1>1 DEF PlugInv, BufferInv
<1>3. c - MaxMessages \in 1 .. Len(log)
  BY <1>0, <1>2
<1> QED
  BY <1>0, <1>2, <1>3 DEF At

\* Every step of the ring is a step of the broadcast log or leaves it alone.
LEMMA NextRefines == PlugInv /\ WakersInv /\ [Next]_vars => [BL!Next]_(BL!vars)
<1> SUFFICES ASSUME PlugInv, WakersInv, [Next]_vars PROVE [BL!Next]_(BL!vars)
  OBVIOUS
<1> DEFINE Phase(pc) == [r \in Receiver |->
                           IF pc[r] = "new" THEN "new"
                           ELSE IF pc[r] \in {"lagged", "closed"} THEN "stopped"
                           ELSE "reading"]
           Cursor(pc, nx) == [r \in Receiver |->
                                IF pc[r] = "new" THEN 0 ELSE nx[r] - MaxMessages]
           Hides == [r \in Receiver |-> {m \in Message : m.kind \in Disabled[r]}]
<1>0. /\ TypeOK /\ setup \in Setups /\ tail \in Nat /\ MaxMessages \in Nat
      /\ tail = MaxMessages + Len(log) /\ Len(log) \in Nat /\ log \in Seq(Message)
      /\ rcv_pc \in [Receiver -> {"new", "ready", "recheck", "parked", "lagged", "closed"}]
      /\ next \in [Receiver -> Nat] /\ rcv_got \in [Receiver -> Seq(Message)]
  BY SetupFacts DEF PlugInv, CountersInv, TypeOK
<1>1. MaxMessages' = MaxMessages
  BY DEF Next, vars, MaxMessages
<1>2. ASSUME UNCHANGED <<log, rcv_got, next>>,
             \A r \in Receiver : /\ rcv_pc'[r] = "new" <=> rcv_pc[r] = "new"
                                 /\ rcv_pc'[r] \in {"lagged", "closed"} <=>
                                      rcv_pc[r] \in {"lagged", "closed"}
      PROVE  UNCHANGED BL!vars
  <2>1. Phase(rcv_pc') = Phase(rcv_pc) /\ Cursor(rcv_pc', next') = Cursor(rcv_pc, next)
    BY <1>2
  <2> QED
    BY <1>1, <1>2, <2>1 DEF BL!vars
<1>3. CASE PushMsg
  <2>1. pending[1] \in Message /\ log' = Append(log, pending[1]) /\ UNCHANGED <<rcv_pc, next, rcv_got>>
    <3>1. UNCHANGED setup
      BY <1>3 DEF Next, vars
    <3> QED
      BY <1>3, <3>1, PushMsgFacts DEF PushMsg, rcv
  <2>2. BL!Publish
    BY <1>1, <2>1 DEF BL!Publish
  <2> QED
    BY <2>2 DEF BL!Next
<1>4. CASE UNCHANGED vars \/ (\E m \in Offered : PushBegin(m)) \/ EvictByBytes \/ RemoveSlots
           \/ PushEnd \/ CloseItem
  <2>1. UNCHANGED <<log, rcv_got, next, rcv_pc>>
    BY <1>4 DEF vars, steps, rcv, PushBegin, EvictByBytes, RemoveSlots, PushEnd, CloseItem
  <2> QED
    BY <1>2, <2>1
<1>5. CASE CloseWake
  <2>1. /\ UNCHANGED <<log, rcv_got, next>>
        /\ rcv_pc' = [r \in Receiver |-> IF r \in wakers THEN "ready" ELSE rcv_pc[r]]
    BY <1>5 DEF CloseWake
  <2>2. \A r \in Receiver : r \in wakers => rcv_pc[r] = "parked"
    BY DEF WakersInv
  <2> QED
    BY <1>2, <2>1, <2>2
<1>6. ASSUME NEW r \in Receiver, Wake(r) PROVE UNCHANGED BL!vars
  <2>1. /\ UNCHANGED <<log, rcv_got, next>>
        /\ rcv_pc' = [rcv_pc EXCEPT ![r] = IF @ = "parked" THEN "ready" ELSE @]
    BY <1>6 DEF Wake
  <2> QED
    BY <1>0, <1>2, <2>1
<1>7. ASSUME NEW r \in Receiver, NEW pos \in Nat, pos - MaxMessages \in 0 .. Len(log),
             rcv_pc[r] = "new", rcv_pc' = [rcv_pc EXCEPT ![r] = "ready"],
             next' = [next EXCEPT ![r] = pos], UNCHANGED <<log, rcv_got>>
      PROVE  BL!Subscribe(r)
  <2>1. Phase(rcv_pc') = [Phase(rcv_pc) EXCEPT ![r] = "reading"] /\ Phase(rcv_pc)[r] = "new"
    BY <1>0, <1>7
  <2>2. Cursor(rcv_pc', next') = [Cursor(rcv_pc, next) EXCEPT ![r] = pos - MaxMessages]
    BY <1>0, <1>7
  <2>3. \E c \in 0 .. Len(log) : Cursor(rcv_pc', next') = [Cursor(rcv_pc, next) EXCEPT ![r] = c]
    <3> HIDE DEF Cursor
    <3> QED
      BY <1>7, <2>2
  <2>4. UNCHANGED <<log, rcv_got>>
    BY <1>7
  <2> QED
    BY <1>1, <2>1, <2>3, <2>4 DEF BL!Subscribe
<1>8. ASSUME NEW r \in Receiver, rcv_pc[r] \in {"ready", "recheck"},
             NEW w \in {"lagged", "closed"}, rcv_pc' = [rcv_pc EXCEPT ![r] = w],
             next' = next \/ next' = [next EXCEPT ![r] = @ + 1], UNCHANGED <<log, rcv_got>>
      PROVE  BL!Stop(r)
  <2> DEFINE c == next[r] - MaxMessages
  <2>1. /\ Phase(rcv_pc') = [Phase(rcv_pc) EXCEPT ![r] = "stopped"]
        /\ Phase(rcv_pc)[r] = "reading" /\ Cursor(rcv_pc, next)[r] = c
    BY <1>0, <1>8
  <2>2. \/ Cursor(rcv_pc', next') = [Cursor(rcv_pc, next) EXCEPT ![r] = c]
        \/ Cursor(rcv_pc', next') = [Cursor(rcv_pc, next) EXCEPT ![r] = c + 1]
    <3>1. CASE next' = next
      BY <1>0, <1>8, <3>1
    <3>2. CASE next' = [next EXCEPT ![r] = @ + 1]
      <4>1. (next[r] + 1) - MaxMessages = c + 1
        BY <1>0
      <4> QED
        BY <1>0, <1>8, <3>2, <4>1
    <3> QED
      BY <1>8, <3>1, <3>2
  <2> QED
    BY <1>1, <1>8, <2>1, <2>2 DEF BL!Stop
<1>9. ASSUME NEW r \in Receiver, rcv_pc[r] \in {"ready", "recheck"},
             ~Moved(buffer[GetIdx(next[r])], next[r]), TakeItem(r, buffer[GetIdx(next[r])]),
             UNCHANGED log
      PROVE  BL!Receive(r) \/ BL!Stop(r)
  <2> DEFINE item == buffer[GetIdx(next[r])]
             c == next[r] - MaxMessages
  <2>1. CASE item.data = NoData
    BY <1>8, <1>9, <2>1 DEF TakeItem
  <2>2. CASE item.data # NoData
    <3>0. next[r] \in Nat
      BY <1>0
    <3>1. c \in 1 .. Len(log) /\ item.data = log[c] /\ log[c] \in Message
      BY <1>9, <2>2, <3>0, TakenIsLogged
    <3>2. log[c] \in Hides[r] <=> log[c].kind \in Disabled[r]
      BY <3>1
    <3>3. /\ next' = [next EXCEPT ![r] = @ + 1] /\ rcv_pc' = [rcv_pc EXCEPT ![r] = "ready"]
          /\ rcv_got' = [rcv_got EXCEPT ![r] =
                           IF item.data.kind \in Disabled[r] THEN @ ELSE Append(@, item.data)]
      BY <1>9, <2>2 DEF TakeItem
    <3> HIDE DEF item
    <3>4. rcv_got' = [rcv_got EXCEPT ![r] =
                        IF log[c] \in Hides[r] THEN @ ELSE Append(@, log[c])]
      BY <3>1, <3>2, <3>3
    <3>5. Phase(rcv_pc') = Phase(rcv_pc) /\ Phase(rcv_pc)[r] = "reading"
          /\ Cursor(rcv_pc, next)[r] = c
      BY <1>0, <1>9, <3>3
    <3>6. Cursor(rcv_pc', next') = [Cursor(rcv_pc, next) EXCEPT ![r] = c + 1]
      <4>1. (next[r] + 1) - MaxMessages = c + 1
        BY <1>0
      <4> QED
        BY <1>0, <1>9, <3>3, <4>1
    <3>7. BL!Receive(r)
      BY <1>1, <1>9, <3>1, <3>4, <3>5, <3>6 DEF BL!Receive
    <3> QED
      BY <3>7
  <2> QED
    BY <2>1, <2>2
<1>10. ASSUME NEW r \in Receiver, Reader(r) PROVE [BL!Next]_(BL!vars)
  <2> DEFINE item == buffer[GetIdx(next[r])]
             parks == ~item.closed /\ item.pos < next[r]
  <2>1. CASE SubscribeLive(r)
    <3>1. tail - MaxMessages \in 0 .. Len(log)
      BY <1>0
    <3>2. BL!Subscribe(r)
      BY <1>0, <1>7, <2>1, <3>1 DEF SubscribeLive
    <3> QED
      BY <3>2 DEF BL!Next
  <2>2. CASE \E s \in Slot : SubscribeFrom(r, s)
    <3>1. PICK s \in Slot : SubscribeFrom(r, s)
      BY <2>2
    <3>2. slots[s].head \in MaxMessages + 1 .. tail
      BY <3>1 DEF SubscribeFrom, PlugInv, HeadsInv
    <3>3. slots[s].head \in Nat /\ slots[s].head - MaxMessages \in 0 .. Len(log)
      BY <1>0, <3>2
    <3>4. BL!Subscribe(r)
      BY <1>7, <3>1, <3>3 DEF SubscribeFrom
    <3> QED
      BY <3>4 DEF BL!Next
  <2>3. CASE Peek(r) /\ (item.closed \/ Moved(item, next[r]))
    <3>1. /\ rcv_pc[r] = "ready" /\ UNCHANGED <<log, next, rcv_got>>
          /\ rcv_pc' = [rcv_pc EXCEPT ![r] = IF item.closed THEN "closed" ELSE "recheck"]
      BY <2>3 DEF Peek
    <3>2. CASE item.closed
      <4>1. BL!Stop(r)
        BY <1>8, <3>1, <3>2
      <4> QED
        BY <4>1 DEF BL!Next
    <3>3. CASE ~item.closed
      BY <1>0, <1>2, <3>1, <3>3
    <3> QED
      BY <3>2, <3>3
  <2>4. CASE Recheck(r) /\ (item.closed \/ Moved(item, next[r]))
    <3>1. /\ rcv_pc[r] = "recheck" /\ UNCHANGED <<log, next, rcv_got>>
          /\ rcv_pc' = [rcv_pc EXCEPT ![r] =
                          IF item.closed THEN "closed" ELSE IF parks THEN "parked" ELSE "lagged"]
      BY <2>4 DEF Recheck
    <3>2. CASE item.closed \/ ~parks
      <4>1. BL!Stop(r)
        BY <1>8, <3>1, <3>2
      <4> QED
        BY <4>1 DEF BL!Next
    <3>3. CASE ~item.closed /\ parks
      BY <1>0, <1>2, <3>1, <3>3
    <3> QED
      BY <3>2, <3>3
  <2>5. CASE (Peek(r) \/ Recheck(r)) /\ ~(item.closed \/ Moved(item, next[r]))
    <3>1. rcv_pc[r] \in {"ready", "recheck"} /\ log' = log /\ TakeItem(r, item)
      BY <2>5 DEF Peek, Recheck
    <3>2. BL!Receive(r) \/ BL!Stop(r)
      BY <1>9, <2>5, <3>1
    <3> QED
      BY <3>2 DEF BL!Next
  <2> QED
    BY <1>10, <2>1, <2>2, <2>3, <2>4, <2>5 DEF Reader
<1> QED
  BY <1>3, <1>4, <1>5, <1>6, <1>10 DEF Next, Sender

\* The plugin's ring is a broadcast log for its receivers, for every capacity and
\* number of receivers: whatever push, eviction and close do between two of its
\* steps, a receiver gets the next message or is stopped.
THEOREM PluginRingImplementsBroadcastLog == Spec => ImplementsBroadcastLog
<1>1. Init => BL!Init
  BY DEF Init, BL!Init
<1> QED
  BY <1>1, PlugInvariant, WakersInvariant, NextRefines, PTL
     DEF Spec, ImplementsBroadcastLog, BL!Spec
=============================================================================
