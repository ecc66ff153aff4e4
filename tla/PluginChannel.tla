--------------------------- MODULE PluginChannel ---------------------------
(***************************************************************************)
(* The ring of the geyser plugin, plugin-agave/src/channel.rs.             *)
(*                                                                         *)
(* push holds the state mutex from the first to the last message of one    *)
(* call, so two callbacks of the validator never interleave in it; but a   *)
(* receiver first looks at its item without that mutex, and close flags    *)
(* the items without it.  A push is split at the points they can see:      *)
(*    PushBegin ; (PushMsg ; EvictByBytes* ; RemoveSlots)+ ; PushEnd       *)
(* and its wakers are woken after the mutex is released (Wake).  A poll of *)
(* a receiver is Peek, and Recheck under the mutex when the item is not    *)
(* there.                                                                  *)
(*                                                                         *)
(* log is a history variable: the i-th message pushed has ring position    *)
(* MaxMessages + i.                                                        *)
(***************************************************************************)
EXTENDS Integers, Sequences, FiniteSets

CONSTANTS
    Slot,          \* slot numbers
    ParentOf,      \* the parent the validator reports for a slot, or NoSlot
    Receiver,      \* receivers
    Disabled,      \* the kinds each receiver's filter switches off
    Setups         \* configurations, what the validator does and the bounds

NoSlot == -1
NoData == [kind |-> "none"]   \* an item whose data was taken
NoStatus == "none"
NoEntry == [head |-> 0]
Open == -1         \* close was not called yet

Status == {"Processed", "Confirmed", "Rooted"}

ASSUME ConstantsAssumption ==
    /\ Slot \subseteq Nat /\ IsFiniteSet(Slot)                          \* u64
    /\ ParentOf \in [Slot -> Slot \cup {NoSlot}]
    /\ \A s \in Slot : ParentOf[s] = NoSlot \/ ParentOf[s] < s   \* the validator's
    /\ Disabled \in [Receiver -> SUBSET {"account", "contact"}]
    /\ \A x \in Setups :
          /\ x.max_messages \in Nat \ {0} /\ x.max_bytes \in Nat /\ x.pushes \in Nat
          /\ x.slots \subseteq Slot /\ x.receivers \subseteq Receiver
          /\ x.kinds \subseteq {"slot", "account", "contact"}
          /\ x.statuses \subseteq Status /\ x.closes \in BOOLEAN

VARIABLES
    setup,                                    \* the configuration
    head, tail, slots, bytes_total, wakers,   \* State
    buffer,                                   \* Shared::buffer
    lock, pending, removed_max_slot,          \* the push that holds the mutex
    to_wake,                                  \* wakers taken, not yet woken
    closing,                                  \* items close has flagged, or Open
    rcv_pc, next, rcv_got,                    \* receivers
    log

state == <<head, tail, slots, bytes_total>>
push  == <<lock, pending, removed_max_slot>>
rcv   == <<rcv_pc, next, rcv_got>>
steps == <<state, wakers, buffer, push, to_wake, closing, rcv, log>>
vars  == <<setup, steps>>

MaxMessages == setup.max_messages   \* capacity of the ring
BytesMax == setup.max_bytes
MaxPushes == setup.pushes           \* bound: messages pushed in a behaviour

\* A status message with and without a parent; data of a slot; a message that
\* belongs to no slot (get_slot is None for contact info).
SlotMsg(s, p, st) == [kind |-> "slot", slot |-> s, parent |-> p, status |-> st]
Message ==
    {m \in [kind : {"slot"}, slot : Slot, parent : Slot \cup {NoSlot}, status : Status]
         : m.parent \in {ParentOf[m.slot], NoSlot}}
    \cup [kind : {"account"}, slot : Slot, parent : {NoSlot}, status : {NoStatus}]
    \cup [kind : {"contact"}, slot : {NoSlot}, parent : {NoSlot}, status : {NoStatus}]

\* The encoded length: only its effect on max_bytes matters.
Size(m) == IF m.kind = "account" THEN 2 ELSE 1

GetIdx(pos) == pos % MaxMessages

Init ==
    /\ setup \in Setups
    /\ head = MaxMessages + 1
    /\ tail = MaxMessages
    /\ slots = [s \in Slot |-> NoEntry]
    /\ bytes_total = 0
    /\ wakers = {}
    /\ buffer = [i \in 0 .. MaxMessages - 1 |->
                   [pos |-> i, slot |-> 0, data |-> NoData, closed |-> FALSE]]
    /\ lock = "free"
    /\ pending = <<>>
    /\ removed_max_slot = NoSlot
    /\ to_wake = {}
    /\ closing = Open
    /\ rcv_pc = [r \in Receiver |-> "new"]
    /\ next = [r \in Receiver |-> 0]
    /\ rcv_got = [r \in Receiver |-> <<>>]
    /\ log = <<>>

(***************************************************************************)
(* Sender                                                                  *)
(***************************************************************************)

Known(s) == s \in Slot /\ slots[s] # NoEntry

\* The parent slot of the state's entry of s, when that entry exists too.
KnownParent(s) ==
    IF Known(s) /\ Known(slots[s].parent_slot) THEN slots[s].parent_slot ELSE NoSlot

LacksStatus(s, st) ==
    \/ st = "Confirmed" /\ ~slots[s].confirmed
    \/ st = "Rooted" /\ ~slots[s].finalized

\* One turn of the loop of push: the status is synthesised for the parent of the
\* slot looked at last when the parent's entry lacks it.
WithMissedParent(batch) ==
    LET x == Head(batch)
        p == KnownParent(x.slot)
    IN  IF p # NoSlot /\ LacksStatus(p, x.status)
        THEN <<SlotMsg(p, slots[p].parent_slot, x.status)>> \o batch
        ELSE batch

\* Mutant: only the direct parent is looked at.
MissedParent(m) == WithMissedParent(<<m>>)

\* The message and the statuses the loop of push synthesises for the ancestors of
\* its slot, in the order in which they are pushed: oldest ancestor first.  Parents
\* precede their slots, so the loop ends after at most m.slot turns.
MissedStatuses(m) ==
    LET turn[n \in 0 .. m.slot] ==
            IF n = 0 THEN <<m>> ELSE WithMissedParent(turn[n - 1])
    IN  turn[m.slot]

\* push takes the mutex and makes up its messages.
PushBegin(m) ==
    /\ lock = "free"
    /\ Len(log) < MaxPushes
    /\ lock' = "push"
    /\ pending' = IF m.kind = "slot" THEN MissedStatuses(m) ELSE <<m>>
    /\ UNCHANGED <<state, wakers, buffer, removed_max_slot, to_wake, closing, rcv, log>>

\* The state's entry of the message's slot after the message.
EntryAfter(m) ==
    LET old == IF Known(m.slot) THEN slots[m.slot]
               ELSE [head |-> tail + 1, parent_slot |-> NoSlot,
                     confirmed |-> FALSE, finalized |-> FALSE]
    IN  [old EXCEPT !.parent_slot = IF m.parent # NoSlot THEN m.parent ELSE @,
                    !.confirmed = @ \/ m.status = "Confirmed",
                    !.finalized = @ \/ m.status = "Rooted"]

\* Mutant: without a known slot the message gets none, instead of slot 0.
LastSlotOrNone ==
    LET known == {s \in Slot : Known(s)}
    IN  IF known = {} THEN NoSlot ELSE CHOOSE s \in known : \A t \in known : t <= s

\* The latest known slot, or the default slot.
LastSlot ==
    LET known == {s \in Slot : Known(s)}
    IN  IF known = {} THEN 0 ELSE CHOOSE s \in known : \A t \in known : t <= s

\* push_msg up to the overwrite of the item.
PushMsg ==
    LET m == Head(pending)
        i == GetIdx(tail + 1)
        old == buffer[i]
        evicts == old.data # NoData
    IN  /\ lock = "push"
        /\ pending # <<>>
        /\ lock' = "evict"
        /\ pending' = Tail(pending)
        /\ tail' = tail + 1
        /\ slots' = IF m.slot = NoSlot THEN slots ELSE [slots EXCEPT ![m.slot] = EntryAfter(m)]
        /\ bytes_total' = bytes_total + Size(m) - (IF evicts THEN Size(old.data) ELSE 0)
        /\ head' = IF evicts THEN head + 1 ELSE head
        /\ removed_max_slot' = IF evicts THEN old.slot ELSE NoSlot
        /\ buffer' = [buffer EXCEPT ![i] =
                        [@ EXCEPT !.pos = tail + 1, !.data = m,
                                  !.slot = IF m.slot = NoSlot THEN LastSlot ELSE m.slot]]
        /\ log' = Append(log, m)
        /\ UNCHANGED <<wakers, to_wake, closing, rcv>>

OverBytes == bytes_total >= BytesMax /\ head < tail

\* One turn of the loop that drops extra messages by max bytes.
EvictByBytes ==
    LET i == GetIdx(head)
        old == buffer[i]
    IN  /\ lock = "evict"
        /\ OverBytes
        /\ head' = head + 1
        /\ bytes_total' = bytes_total - Size(old.data)
        /\ buffer' = [buffer EXCEPT ![i].data = NoData]
        /\ removed_max_slot' = IF old.slot > removed_max_slot THEN old.slot ELSE removed_max_slot
        /\ UNCHANGED <<tail, slots, wakers, lock, pending, to_wake, closing, rcv, log>>

\* Mutant: only the slot of the last evicted message is removed.
SlotsWithoutRemoved == [s \in Slot |-> IF s = removed_max_slot THEN NoEntry ELSE slots[s]]

\* The slots that lost no message.
CompleteSlots == [s \in Slot |-> IF s <= removed_max_slot THEN NoEntry ELSE slots[s]]

\* The end of push_msg: remove not-complete slots.
RemoveSlots ==
    /\ lock = "evict"
    /\ ~OverBytes
    /\ slots' = CompleteSlots
    /\ removed_max_slot' = NoSlot
    /\ lock' = "push"
    /\ UNCHANGED <<head, tail, bytes_total, wakers, buffer, pending, to_wake, closing,
                   rcv, log>>

\* push takes the wakers and releases the mutex.
PushEnd ==
    /\ lock = "push"
    /\ pending = <<>>
    /\ lock' = "free"
    /\ to_wake' = to_wake \cup wakers
    /\ wakers' = {}
    /\ UNCHANGED <<state, buffer, pending, removed_max_slot, closing, rcv, log>>

\* A waker taken by a push is woken, after the mutex was released.
Wake(r) ==
    /\ r \in to_wake
    /\ to_wake' = to_wake \ {r}
    /\ rcv_pc' = [rcv_pc EXCEPT ![r] = IF @ = "parked" THEN "ready" ELSE @]
    /\ UNCHANGED <<state, wakers, buffer, push, closing, next, rcv_got, log>>

\* close flags the items one by one; that the validator calls it between two
\* callbacks is not relied on ...
CloseItem ==
    /\ setup.closes            \* the plugin is unloaded
    /\ closing < MaxMessages
    /\ LET i == IF closing = Open THEN 0 ELSE closing
       IN  /\ buffer' = [buffer EXCEPT ![i].closed = TRUE]
           /\ closing' = i + 1
    /\ UNCHANGED <<state, wakers, push, to_wake, rcv, log>>

\* Mutant: close drops the wakers without waking them.
CloseForgets ==
    /\ closing = MaxMessages
    /\ lock = "free"
    /\ closing' = MaxMessages + 1
    /\ wakers' = {}
    /\ UNCHANGED <<state, buffer, push, to_wake, rcv, log>>

\* ... then wakes every receiver under the mutex.
CloseWake ==
    /\ closing = MaxMessages
    /\ lock = "free"
    /\ closing' = MaxMessages + 1
    /\ rcv_pc' = [r \in Receiver |-> IF r \in wakers THEN "ready" ELSE rcv_pc[r]]
    /\ wakers' = {}
    /\ UNCHANGED <<state, buffer, push, to_wake, next, rcv_got, log>>

(***************************************************************************)
(* Receiver                                                                *)
(***************************************************************************)

\* subscribe, live: the position of the newest message.
SubscribeLive(r) ==
    /\ r \in setup.receivers
    /\ rcv_pc[r] = "new"
    /\ lock = "free"
    /\ rcv_pc' = [rcv_pc EXCEPT ![r] = "ready"]
    /\ next' = [next EXCEPT ![r] = tail]
    /\ UNCHANGED <<state, wakers, buffer, push, to_wake, closing, rcv_got, log>>

\* subscribe with replay_from_slot; an unknown slot is an error and no receiver.
SubscribeFrom(r, s) ==
    /\ r \in setup.receivers
    /\ rcv_pc[r] = "new"
    /\ lock = "free"
    /\ Known(s)
    /\ rcv_pc' = [rcv_pc EXCEPT ![r] = "ready"]
    /\ next' = [next EXCEPT ![r] = slots[s].head]
    /\ UNCHANGED <<state, wakers, buffer, push, to_wake, closing, rcv_got, log>>

\* recv_ref once the item at the cursor has the position of the cursor.
TakeItem(r, item) ==
    /\ next' = [next EXCEPT ![r] = @ + 1]
    /\ rcv_pc' = [rcv_pc EXCEPT ![r] = IF item.data = NoData THEN "lagged" ELSE "ready"]
    /\ rcv_got' = IF item.data = NoData THEN rcv_got
                  ELSE [rcv_got EXCEPT ![r] =
                          IF item.data.kind \in Disabled[r] THEN @ ELSE Append(@, item.data)]

\* Mutant: an item that was overwritten is taken for the one at the cursor.
Behind(item, pos) == item.pos < pos

\* The item does not hold the message of this position.
Moved(item, pos) == item.pos # pos

\* recv_ref reads the item without the state mutex.
Peek(r) ==
    LET item == buffer[GetIdx(next[r])]
    IN  /\ rcv_pc[r] = "ready"
        /\ IF item.closed \/ Moved(item, next[r])
           THEN /\ rcv_pc' = [rcv_pc EXCEPT ![r] = IF item.closed THEN "closed" ELSE "recheck"]
                /\ UNCHANGED <<next, rcv_got>>
           ELSE TakeItem(r, item)
        /\ UNCHANGED <<state, wakers, buffer, push, to_wake, closing, log>>

\* Mutant: the waker is stored without a second look at the item.
RecheckBlind(r) ==
    /\ rcv_pc[r] = "recheck"
    /\ lock = "free"
    /\ rcv_pc' = [rcv_pc EXCEPT ![r] = "parked"]
    /\ wakers' = wakers \cup {r}
    /\ UNCHANGED <<state, buffer, push, to_wake, closing, next, rcv_got, log>>

\* recv_ref looks again with the state mutex held, and stores its waker.
Recheck(r) ==
    LET item == buffer[GetIdx(next[r])]
        parks == ~item.closed /\ item.pos < next[r]
    IN  /\ rcv_pc[r] = "recheck"
        /\ lock = "free"
        /\ wakers' = IF parks THEN wakers \cup {r} ELSE wakers
        /\ IF item.closed \/ Moved(item, next[r])
           THEN /\ rcv_pc' = [rcv_pc EXCEPT ![r] =
                                IF item.closed THEN "closed"
                                ELSE IF parks THEN "parked" ELSE "lagged"]
                /\ UNCHANGED <<next, rcv_got>>
           ELSE TakeItem(r, item)
        /\ UNCHANGED <<state, buffer, push, to_wake, closing, log>>

\* What the validator reports in this configuration.
Offered ==
    {m \in Message : /\ m.kind \in setup.kinds
                     /\ m.slot \in setup.slots \cup {NoSlot}
                     /\ m.status \in setup.statuses \cup {NoStatus}}

Sender ==
    \/ \E m \in Offered : PushBegin(m)
    \/ PushMsg \/ EvictByBytes \/ RemoveSlots \/ PushEnd
    \/ CloseItem \/ CloseWake

Reader(r) ==
    \/ SubscribeLive(r)
    \/ \E s \in Slot : SubscribeFrom(r, s)
    \/ Peek(r) \/ Recheck(r)

Next ==
    /\ UNCHANGED setup
    /\ Sender \/ \E r \in Receiver : Reader(r) \/ Wake(r)

Spec == Init /\ [][Next]_vars

\* A push that took the mutex runs to its end, close too once it was called; a
\* task that was woken is polled again, and a poll that finds the mutex free goes on.
Fairness ==
    /\ WF_steps(PushMsg \/ EvictByBytes \/ RemoveSlots \/ PushEnd)
    /\ WF_steps(closing # Open /\ (CloseItem \/ CloseWake))
    /\ \A r \in Receiver : WF_steps(Wake(r)) /\ WF_steps(Peek(r)) /\ WF_steps(Recheck(r))

FairSpec == Spec /\ Fairness

(***************************************************************************)
(* Properties                                                              *)
(***************************************************************************)

Entry ==
    {NoEntry} \cup [head : Nat, parent_slot : Slot \cup {NoSlot},
                   confirmed : BOOLEAN, finalized : BOOLEAN]

TypeOK ==
    /\ head \in Nat /\ tail \in Nat /\ bytes_total \in Nat
    /\ slots \in [Slot -> Entry]
    /\ wakers \subseteq Receiver /\ to_wake \subseteq Receiver
    /\ buffer \in [0 .. MaxMessages - 1 ->
                     [pos : Nat, slot : Nat, data : Message \cup {NoData}, closed : BOOLEAN]]
    /\ lock \in {"free", "push", "evict"}
    /\ pending \in Seq(Message)
    /\ removed_max_slot \in Slot \cup {0, NoSlot}
    /\ closing \in Open .. MaxMessages + 1
    /\ rcv_pc \in [Receiver -> {"new", "ready", "recheck", "parked", "lagged", "closed"}]
    /\ next \in [Receiver -> Nat]
    /\ rcv_got \in [Receiver -> Seq(Message)]
    /\ log \in Seq(Message)

\* The message at a ring position.
At(pos) == log[pos - MaxMessages]

\* A from_slot subscription never starts at a message that is already gone: the
\* head of every slot the state knows is a message of that slot, still held by
\* the ring, however the slots interleave and whatever max_bytes evicts.
KnownHeadsAreHeld ==
    lock = "free" =>
        \A s \in Slot : Known(s) =>
            /\ slots[s].head \in head .. tail
            /\ At(slots[s].head).slot = s
            /\ buffer[GetIdx(slots[s].head)].data = At(slots[s].head)

\* The "missed slot status" repair of push reaches every ancestor: when a slot is
\* known as confirmed (finalized), so is each ancestor the state knew, through
\* recorded parents, when the status arrived.  A parent entered later (its head
\* is behind the status message) or recorded by the status itself is exempt.
AncestorsGetStatus ==
    lock = "free" =>
        \A i \in 1 .. Len(log) :
            LET m == log[i]
                p == IF Known(m.slot) THEN slots[m.slot].parent_slot ELSE NoSlot
                recorded == \E j \in 1 .. i - 1 :
                                log[j].slot = m.slot /\ log[j].parent = p
                                /\ j + MaxMessages >= slots[m.slot].head
            IN  (m.kind = "slot" /\ p # NoSlot /\ Known(p) /\ recorded
                   /\ slots[p].head < MaxMessages + i)
                => ~LacksStatus(p, m.status)

\* Whatever push and close do between two steps of a receiver, it is handed the
\* messages one after the other from where it subscribed.
BL == INSTANCE BroadcastLog WITH
        Readers <- Receiver,
        Entries <- Message,
        Hidden <- [r \in Receiver |-> {m \in Message : m.kind \in Disabled[r]}],
        phase <- [r \in Receiver |->
                    IF rcv_pc[r] = "new" THEN "new"
                    ELSE IF rcv_pc[r] \in {"lagged", "closed"} THEN "stopped"
                    ELSE "reading"],
        cursor <- [r \in Receiver |->
                     IF rcv_pc[r] = "new" THEN 0 ELSE next[r] - MaxMessages],
        got <- rcv_got
ImplementsBroadcastLog == BL!Spec

\* No lost wakeup: when no push runs and no wake is on its way, a receiver that
\* is parked has read every message.  (A receiver that subscribed before the first
\* message is the exception of NewReceiverStartsFromLatest.)
ParkedHasReadAll ==
    \A r \in Receiver \ to_wake :
        lock = "free" /\ rcv_pc[r] = "parked" =>
            next[r] > tail \/ next[r] = MaxMessages

\* After close every receiver comes to an end, even one that was about to park.
ClosedReceiversEnd ==
    \A r \in Receiver :
        closing # Open ~> rcv_pc[r] \in {"new", "lagged", "closed"}

\* "a new receiver starts from the latest message" (channel.rs:529): one that is
\* parked has nothing to read, also when it subscribed to an empty channel.
NewReceiverStartsFromLatest ==
    \A r \in Receiver \ to_wake :
        lock = "free" /\ log # <<>> /\ rcv_pc[r] = "parked" => next[r] > tail

\* "remove not-complete slots" (channel.rs:213): a slot the state offers for
\* replay still has all of its messages.
KnownSlotsAreComplete ==
    lock = "free" =>
        \A s \in Slot : Known(s) =>
            \A i \in 1 .. Len(log) : log[i].slot = s => MaxMessages + i >= slots[s].head

\* What the state knows of its slots is well typed and held by the ring, and no ancestor of
\* a slot misses a status.
SlotMapInv == TypeOK /\ KnownHeadsAreHeld /\ AncestorsGetStatus
=============================================================================
