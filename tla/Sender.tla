------------------------------- MODULE Sender -------------------------------
(***************************************************************************)
(* Sender of richat/src/channel.rs: the one writer that turns the messages *)
(* of all sources into the processed, confirmed and finalized streams and  *)
(* into the journal on disk, and Messages::to_sender, which rebuilds it    *)
(* after a restart.                                                        *)
(*                                                                         *)
(* The sender runs in one thread, so a whole Sender::push is one action.   *)
(* What the rings evict is the subject of SharedChannel; here a stream is  *)
(* everything published since the process started, or since its last live  *)
(* epoch, which is what the rings may replay.  The storage is seen         *)
(* through its promise (DurableLog): the commands sent to it become        *)
(* durable in order, and a crash keeps a prefix that ends between two      *)
(* source events.                                                          *)
(***************************************************************************)
EXTENDS Journal, SequencesExt

CONSTANTS
    Slot,             \* slot numbers
    Bank,             \* bank ids; 0 stands for a message without one
    Source,           \* names of the sources
    Setups,           \* configurations, what the sources send and the bounds
    TxIndex,          \* position of each transaction in its block
    PhantomSpace      \* write versions kept for accounts without signature (1_000)

NoBank == 0        \* Option<BankId>::None
NoChoice == -1     \* confirmed_bank: None
NoSig == ""
NoSource == ""
NoSlot == -1
Bank0 == Bank \cup {NoBank}

(***************************************************************************)
(* Messages.  key tells apart the messages of one kind in a bank: status,  *)
(* pubkey, entry index; parts are what a block was made of.                *)
(***************************************************************************)
Msg(kind, slot, bank, key, sig, version) ==
    [kind |-> kind, slot |-> slot, bank |-> bank, key |-> key, sig |-> sig,
     version |-> version, parts |-> {}]

\* The content of a message, without the write version the sender may rewrite.
Event(m) == <<m.slot, m.bank, m.kind, m.key, m.sig>>

\* ParsedMessage::get_id
Id(m) == <<Event(m), m.version>>

\* What sources send; a block is made by the sender.
SourceKinds == {"slot", "account", "tx", "entry", "meta", "footer", "update_parent"}

\* Signatures of the transactions.
Sig == DOMAIN TxIndex

ASSUME ConstantsAssumption ==
    /\ Slot \subseteq Nat /\ Bank \subseteq Nat \ {0}
    /\ IsFiniteSet(Slot) /\ IsFiniteSet(Bank)
    /\ TxIndex \in [Sig -> Nat] /\ PhantomSpace \in Nat
    /\ \A x \in Setups :
          /\ DOMAIN x.offer = Source
          /\ \A src \in Source : \A m \in x.offer[src] :
                /\ m = Msg(m.kind, m.slot, m.bank, m.key, m.sig, m.version)
                /\ m.kind \in SourceKinds /\ m.slot \in Slot /\ m.bank \in Bank0
                /\ m.version \in Nat
                /\ m.kind = "tx" => m.sig \in Sig
                /\ m.kind = "account" => m.sig \in Sig \cup {NoSig}
          /\ x.dedup_required \in BOOLEAN /\ x.storage \in BOOLEAN
          /\ x.replay_enabled \subseteq Commitment
          /\ x.max_unfinalized \in Nat \ {0} /\ x.storage_max_slots \in Nat \ {0}

VARIABLES
    setup,            \* the configuration and what the sources have to send
    slots,            \* Sender.slots: SlotInfo of the unfinalized slots
    dedup,            \* Sender.dedup
    replay,           \* Sender.replay: ReplayInfo of the retained slots
    slot_finalized, slot_dropped,
    index,            \* next journal index
    replay_from,      \* global_replay_from_slot
    stream,           \* published since the process started, per commitment
    journal,          \* commands sent to the storage
    durable,          \* Len(journal) that the last restart found on disk
    floor,            \* replay_floor of the metadata
    sent,             \* what each source sent since it connected
    boot,             \* "ok", or "failed" when to_sender returned an error
    crashes, reconnects, epochs   \* bounded counters

sender == <<slots, dedup, replay, slot_finalized, slot_dropped, index, replay_from>>
disk   == <<journal, durable, floor>>
vars   == <<setup, sender, disk, stream, sent, boot, crashes, reconnects, epochs>>

Message == UNION {setup.offer[src] : src \in Source}
DedupRequired == setup.dedup_required       \* TRUE with several sources
Storage == setup.storage                    \* channel.config.storage is set
ReplayEnabled == setup.replay_enabled       \* storage.commitments
MaxUnfinalized == setup.max_unfinalized     \* max_unfinalized_slots
StorageMaxSlots == setup.storage_max_slots  \* storage.max_slots
Txs == setup.txs                            \* the counts a block meta announces
Entries == setup.entries
MaxCrashes == setup.crashes                 \* bound: restarts of the process
MaxReconnects == setup.reconnects           \* bound: reconnects of a source
MaxEpochs == setup.epochs                   \* bound: live epochs begun

(***************************************************************************)
(* SlotInfo and BankInfo                                                   *)
(***************************************************************************)
NoBankInfo == [open |-> FALSE, messages |-> <<>>, created |-> FALSE]
NoInfo == [open |-> FALSE]
NewInfo(head) ==
    [open |-> TRUE, index |-> head, confirmed_bank |-> NoChoice,
     banks |-> [b \in Bank0 |-> NoBankInfo], cleared |-> {}]

\* Mutant: a status always selects the latest candidate.
LatestBank(info, bank) ==
    LET open == {b \in Bank0 : info.banks[b].open}
    IN  IF open = {} THEN NoBank ELSE Max(open)

\* SlotInfo::select_bank
SelectBank(info, bank) ==
    LET open == {b \in Bank0 : info.banks[b].open}
    IN  IF bank # NoBank THEN bank
        ELSE IF info.confirmed_bank \notin {NoChoice, NoBank} THEN info.confirmed_bank
        ELSE IF open = {} THEN NoBank ELSE Max(open)

\* SlotInfo::commit: the bank whose messages go to the commitment of a status.
CommitBank(info, m) ==
    IF \/ m.key = Confirmed /\ info.confirmed_bank = NoChoice
       \/ m.key = Finalized
    THEN SelectBank(info, m.bank) ELSE NoChoice

CountKind(messages, kind) == Cardinality({i \in DOMAIN messages : messages[i].kind = kind})

\* Positions of the update of an account that is kept, if there is one.
Kept(messages, key) ==
    {i \in DOMAIN messages : messages[i].kind = "account" /\ messages[i].key = key}

\* Mutant: of two updates of an account the one that arrived last is kept.
KeepLatestArrival(messages, m) ==
    IF Kept(messages, m.key) = {} THEN Append(messages, m)
    ELSE Append(RemoveAt(messages, Max(Kept(messages, m.key))), m)

\* BankInfo.accounts_dedup: of two updates of an account the higher write version
\* is kept, the first one if they are equal.
KeepHighest(messages, m) ==
    LET kept == Max(Kept(messages, m.key))
    IN  IF Kept(messages, m.key) = {} THEN Append(messages, m)
        ELSE IF messages[kept].version >= m.version THEN messages
        ELSE Append(RemoveAt(messages, kept), m)

BlockOf(m, messages) ==
    [kind |-> "block", slot |-> m.slot, bank |-> m.bank, key |-> "", sig |-> NoSig,
     version |-> 0,
     parts |-> {o \in Range(messages) : o.kind \in {"account", "tx", "entry"}}]

\* The messages of the bank are the whole block its meta announces.
BlockComplete(messages) ==
    /\ CountKind(messages, "meta") > 0
    /\ CountKind(messages, "tx") = Txs
    /\ CountKind(messages, "entry") = Entries

\* BankInfo::get_block_message: the bank after the message.
BankWith(bank, m) ==
    LET messages == IF m.kind = "account" THEN KeepHighest(bank.messages, m)
                    ELSE Append(bank.messages, m)
    IN  IF m.kind = "footer"
        THEN [bank EXCEPT !.open = TRUE, !.messages = messages]
        ELSE IF bank.created THEN bank
        ELSE IF BlockComplete(messages)
        THEN [open |-> TRUE, created |-> TRUE,
              messages |-> Append(messages, BlockOf(m, messages))]
        ELSE [open |-> TRUE, created |-> FALSE, messages |-> messages]

\* SlotInfo::get_block_message: the slot after a message that is not a status.
InfoWith(info, m) ==
    IF m.kind # "update_parent"
    THEN [info EXCEPT !.banks[m.bank] = BankWith(@, m)]
    ELSE IF m.bank = NoBank THEN info
    ELSE [info EXCEPT !.cleared = @ \cup {m.bank}, !.banks[m.bank] = NoBankInfo]

\* The block message that get_block_message returns, if any.
NewBlock(info, m) ==
    LET after == InfoWith(info, m)
    IN  IF m.kind # "update_parent" /\ after.banks[m.bank].created
           /\ ~info.banks[m.bank].created
        THEN <<Last(after.banks[m.bank].messages)>> ELSE <<>>

(***************************************************************************)
(* The dedup stage of push                                                 *)
(***************************************************************************)
NoDedup == [open |-> FALSE]
NewDedup == [open |-> TRUE, source |-> NoSource, seen |-> {},
             waiting |-> [k \in Bank0 \X Sig |-> <<>>]]

\* accounts_updates_phantom_index
Phantoms(d, bank) ==
    Cardinality({e \in d.seen : e[2] = bank /\ e[3] = "account" /\ e[5] = NoSig})

WithTxVersion(m) == [m EXCEPT !.version = PhantomSpace + TxIndex[m.sig]]

Waits(d, m) ==
    /\ m.kind = "account" /\ m.sig # NoSig
    /\ ~\E e \in d.seen : e[2] = m.bank /\ e[3] = "tx" /\ e[5] = m.sig

\* Mutant: a transaction of a second source is not recognised.
SeenExceptTx(d, m) == m.kind # "tx" /\ Event(m) \in d.seen

Seen(d, m) == Event(m) \in d.seen

\* What passes the dedup of the slot, in order: accounts wait for their transaction,
\* which gives them their write version.
Passed(d, m) ==
    IF Seen(d, m) \/ Waits(d, m) THEN <<>>
    ELSE IF m.kind = "account" /\ m.sig = NoSig
    THEN <<[m EXCEPT !.version = Phantoms(d, m.bank)]>>
    ELSE IF m.kind = "account" THEN <<WithTxVersion(m)>>
    ELSE IF m.kind = "tx"
    THEN LET mine == d.waiting[<<m.bank, m.sig>>]
         IN  Append([i \in 1 .. Len(mine) |-> WithTxVersion(mine[i])], m)
    ELSE <<m>>

\* The dedup info of the slot after the message.
DedupAfter(d, src, m) ==
    LET mine == <<m.bank, m.sig>>
        waiting == IF Seen(d, m) THEN d.waiting
                   ELSE IF Waits(d, m)
                   THEN [d.waiting EXCEPT ![mine] = Append(d.waiting[mine], m)]
                   ELSE IF m.kind = "tx" THEN [d.waiting EXCEPT ![mine] = <<>>]
                   ELSE d.waiting
    IN  [open |-> TRUE, source |-> IF m.bank # NoBank THEN src ELSE d.source,
         seen |-> d.seen \cup {Event(m)}, waiting |-> waiting]

\* bank_id is local to a node: bank-scoped messages come from one source.
OtherSource(d, src, m) == m.bank # NoBank /\ d.source \notin {NoSource, src}

(***************************************************************************)
(* Publication                                                             *)
(***************************************************************************)

\* SenderShared::push_stored, for some messages in a row: to the stream of a commitment
\* and, if it is stored, to the journal.
Journaled(c) == Storage /\ (c = Processed \/ c \in ReplayEnabled)
IsFinalized(m) == m.kind = "slot" /\ m.key = Finalized
PushStored(st, c, messages) ==
    LET records == [i \in 1 .. Len(messages) |->
           [op |-> "push", c |-> c, m |-> messages[i], slot |-> messages[i].slot,
            final |-> c = Processed /\ IsFinalized(messages[i]),
            index |-> st.index + i - 1, init |-> st.index + i - 1 = st.info.index]]
    IN  [st EXCEPT !.stream = [st.stream EXCEPT ![c] = @ \o messages],
                   !.journal = IF Journaled(c) THEN @ \o records ELSE @,
                   !.index = IF Journaled(c) THEN @ + Len(messages) ELSE @]

\* Mutant: only the messages a status finds are promoted.
NeverLate(info, e) == FALSE

\* A message of the confirmed bank that arrives after the confirmed status.
LateForConfirmed(info, e) == e.kind # "update_parent" /\ info.confirmed_bank = e.bank

\* The event was read back from the journal at the last restart.
AlreadyStored(rep, e) == Id(e) \in rep.known

\* What one event publishes, in order, processed being the last.
ToStreams(st, e, promoted) ==
    LET status == PushStored(PushStored(st, Confirmed, <<e>>), Finalized, <<e>>)
        above == IF e.kind = "slot"
                 THEN IF promoted = NoChoice THEN status
                      ELSE PushStored(status, e.key, st.info.banks[promoted].messages)
                 ELSE IF LateForConfirmed(st.info, e) THEN PushStored(st, Confirmed, <<e>>)
                 ELSE st
    IN  PushStored(above, Processed, <<e>>)

\* An event is published unless the journal has it.
PublishEvent(st, e, promoted) ==
    IF AlreadyStored(st.rep, e) THEN st
    ELSE ToStreams([st EXCEPT !.rep = IF st.rep.tracked
                                      THEN [st.rep EXCEPT !.known = @ \cup {Id(e)}] ELSE st.rep,
                              !.final = st.final \/ IsFinalized(e)], e, promoted)

\* One turn of the loop over the messages that passed the dedup: the message, then
\* the block it completes.
PushOne(st, m) ==
    LET promoted == IF m.kind = "slot" THEN CommitBank(st.info, m) ELSE NoChoice
        info == IF m.kind # "slot" THEN InfoWith(st.info, m)
                ELSE IF m.key = Confirmed /\ promoted # NoChoice
                THEN [st.info EXCEPT !.confirmed_bank = promoted] ELSE st.info
        block == IF m.kind = "slot" THEN <<>> ELSE NewBlock(st.info, m)
        pushed == PublishEvent([st EXCEPT !.info = info], m, promoted)
    IN  IF block = <<>> THEN pushed ELSE PublishEvent(pushed, Head(block), NoChoice)

\* The loop.
PushAll(st0, passed) ==
    LET st[n \in 0 .. Len(passed)] == IF n = 0 THEN st0 ELSE PushOne(st[n - 1], passed[n])
    IN  st[Len(passed)]

\* A set of slots in increasing order.
InOrder(S) ==
    CHOOSE q \in [1 .. Cardinality(S) -> S] : \A i, j \in 1 .. Cardinality(S) : i < j => q[i] < q[j]
Trims(removed) ==
    [i \in 1 .. Cardinality(removed) |-> [op |-> "trim", slot |-> InOrder(removed)[i]]]

OpenSlots(f) == {s \in Slot : f[s].open}

\* The slots of a map that go when only the n largest stay.
Beyond(f, n) == {s \in OpenSlots(f) : Cardinality({t \in OpenSlots(f) : t > s}) >= n}
Without(f, removed, none) == [s \in Slot |-> IF s \in removed THEN none ELSE f[s]]

\* Mutant: a dropped slot may come back.
NotMarked(dropped) == slot_dropped

\* slot_dropped, the newest slot dropped by the bound; nothing older is accepted.
Marked(dropped) == Max(dropped \cup {slot_dropped})

NoReplay == [open |-> FALSE]
NewReplay(head) == [open |-> TRUE, head |-> head, tracked |-> FALSE, known |-> {}]

\* The part of push after the dedup: publish, then clean up.
Publish(s, passed, dedup1) ==
    LET rep0 == IF replay[s].open THEN replay[s] ELSE NewReplay(index)
        info0 == IF slots[s].open THEN slots[s] ELSE NewInfo(rep0.head)
        st == PushAll([info |-> info0, rep |-> rep0, final |-> FALSE, stream |-> stream,
                       journal |-> journal, index |-> index], passed)
        final == st.final
        slots1 == Without([slots EXCEPT ![s] = st.info],
                          IF final THEN {t \in Slot : t <= s} ELSE {}, NoInfo)
        dropped == Beyond(slots1, MaxUnfinalized)
        dedup2 == Without(dedup1, IF final THEN {t \in Slot : t < s} ELSE {}, NoDedup)
        replay1 == [replay EXCEPT ![s] = st.rep]
        expired == IF Storage THEN OutsideWindow(OpenSlots(replay1), StorageMaxSlots) ELSE {}
    IN  /\ slots' = Without(slots1, dropped, NoInfo)
        /\ slot_dropped' = Marked(dropped)
        /\ slot_finalized' = IF final THEN s ELSE slot_finalized
        /\ replay_from' = IF final THEN Max({replay_from, s + 1}) ELSE replay_from
        /\ dedup' = Without(dedup2, Beyond(dedup2, MaxUnfinalized), NoDedup)
        /\ replay' = IF Storage THEN Without(replay1, expired, NoReplay)
                     ELSE [t \in Slot |-> NoReplay]
        /\ journal' = st.journal \o Trims(expired)
        /\ index' = st.index
        /\ stream' = st.stream

\* The early returns of push that leave no trace.
Ignored(src, m) ==
    \/ m.slot <= slot_finalized \/ m.slot <= slot_dropped
    \/ /\ m.bank # NoBank /\ m.kind # "update_parent"
       /\ slots[m.slot].open /\ m.bank \in slots[m.slot].cleared
    \/ DedupRequired /\ dedup[m.slot].open /\ OtherSource(dedup[m.slot], src, m)

\* Sender::push
Push(src, m) ==
    LET s == m.slot
        d == IF dedup[s].open THEN dedup[s] ELSE NewDedup
        passed == IF DedupRequired THEN Passed(d, m) ELSE <<m>>
        dedup1 == IF DedupRequired THEN [dedup EXCEPT ![s] = DedupAfter(d, src, m)] ELSE dedup
    IN  /\ boot = "ok"
        /\ m \in setup.offer[src] \ sent[src]
        /\ sent' = [sent EXCEPT ![src] = @ \cup {m}]
        /\ \/ /\ Ignored(src, m)
              /\ UNCHANGED <<sender, journal, stream>>
           \/ /\ ~Ignored(src, m)
              /\ passed = <<>>
              /\ dedup' = dedup1
              /\ UNCHANGED <<slots, replay, slot_finalized, slot_dropped, index,
                             replay_from, journal, stream>>
           \/ /\ ~Ignored(src, m)
              /\ passed # <<>>
              /\ Publish(s, passed, dedup1)
        /\ UNCHANGED <<durable, floor, boot, crashes, reconnects, epochs>>

\* Sender::begin_live_epoch: every source refused the recovery slot.
BeginLiveEpoch ==
    /\ boot = "ok"
    /\ epochs < MaxEpochs
    /\ epochs' = epochs + 1
    /\ floor' = IF Storage THEN index ELSE floor
    /\ slots' = [s \in Slot |-> NoInfo]
    /\ dedup' = [s \in Slot |-> NoDedup]
    /\ replay' = [s \in Slot |-> NoReplay]
    /\ stream' = [c \in Commitment |-> <<>>]
    /\ replay_from' = NoSlot
    /\ UNCHANGED <<slot_finalized, slot_dropped, index, journal, durable, sent, boot,
                   crashes, reconnects>>

\* What a source has sent once it is asked again for everything since a slot.
SentBefore(src, from) ==
    IF from = NoSlot THEN sent[src] ELSE {m \in sent[src] : m.slot < from}

\* Subscription::source_stream: a source fails and is subscribed again from
\* replay_from; the sender is not told.
Reconnect(src) ==
    /\ boot = "ok"
    /\ reconnects < MaxReconnects
    /\ reconnects' = reconnects + 1
    /\ sent' = [sent EXCEPT ![src] = SentBefore(src, replay_from)]
    /\ UNCHANGED <<sender, disk, stream, boot, crashes, epochs>>

(***************************************************************************)
(* Restart                                                                 *)
(***************************************************************************)

\* Mutant: a crash may keep half of the records of one source event.
AnyCut(n) == n \in durable .. Len(journal)

\* What a crash leaves on disk: the collector cuts its chunks behind a processed
\* record or a trim.
Cut(n) ==
    n \in {durable} \cup {i \in durable + 1 .. Len(journal) : EndsEvent(journal[i])}

\* Mutant: the indexes that a live epoch skipped are handed out again.
NextBelowFloor(commands) == NextIndex(commands, 0)

\* Mutant: the last index is handed out again.
NextReused(commands) == Max({floor, NextIndex(commands, floor) - 1})

FirstFree(commands) == NextIndex(commands, floor)

\* Messages::to_sender on the commands d that are on disk and the slot rows they
\* make, by a process that starts anew.
Restart(d, row) ==
    LET known == OpenSlots(row)
        roots == {s \in known : row[s].finalized}
        root == IF roots = {} THEN NoSlot ELSE Max(roots)
        from == Min({row[s].head : s \in {t \in known : t > root}} \cup {FirstFree(d)})
        records == {i \in DOMAIN d : /\ IsPush(d[i]) /\ d[i].c = Processed
                                   /\ d[i].index >= from /\ d[i].slot > root}
        Known(s) == {Id(d[i].m) : i \in {j \in records : d[j].slot = s}}
    IN  /\ journal' = d
        /\ durable' = Len(d)
        /\ boot' = IF root # NoSlot /\ \E i \in records : d[i].slot \notin known
                   THEN "failed" ELSE "ok"
        /\ replay' = [s \in Slot |->
                        IF s \in known
                        THEN [NewReplay(row[s].head) EXCEPT !.tracked = Known(s) # {},
                                                          !.known = Known(s)]
                        ELSE NoReplay]
        /\ index' = FirstFree(d)
        /\ slot_finalized' = Max({root, 0})
        /\ slot_dropped' = 0
        /\ replay_from' = IF root # NoSlot THEN root + 1
                          ELSE IF known = {} THEN NoSlot ELSE Min(known)
        /\ slots' = [s \in Slot |-> NoInfo]
        /\ dedup' = [s \in Slot |-> NoDedup]
        /\ stream' = [c \in Commitment |-> <<>>]

\* The process dies and starts again; the sources are asked for replay_from.
Crash ==
    /\ Storage
    /\ boot = "ok"
    /\ crashes < MaxCrashes
    /\ crashes' = crashes + 1
    /\ \E d \in {SubSeq(journal, 1, n) : n \in {i \in 0 .. Len(journal) : Cut(i)}} :
         \E row \in {[s \in Slot |-> Row(d, floor, s)]} : Restart(d, row)
    /\ sent' = [src \in Source |-> SentBefore(src, replay_from')]
    /\ UNCHANGED <<floor, reconnects, epochs>>

Init ==
    /\ setup \in Setups
    /\ slots = [s \in Slot |-> NoInfo]
    /\ dedup = [s \in Slot |-> NoDedup]
    /\ replay = [s \in Slot |-> NoReplay]
    /\ slot_finalized = 0 /\ slot_dropped = 0 /\ index = 0
    /\ replay_from = NoSlot
    /\ stream = [c \in Commitment |-> <<>>]
    /\ journal = <<>> /\ durable = 0 /\ floor = 0
    /\ sent = [src \in Source |-> {}]
    /\ boot = "ok" /\ crashes = 0 /\ reconnects = 0 /\ epochs = 0

Next ==
    /\ UNCHANGED setup
    /\ \/ \E src \in Source : \E m \in setup.offer[src] : Push(src, m)
       \/ \E src \in Source : Reconnect(src)
       \/ BeginLiveEpoch
       \/ Crash

Spec == Init /\ [][Next]_vars

(***************************************************************************)
(* Messages::get_current_tail_with_replay                                  *)
(***************************************************************************)
Unavailable == [where |-> "error"]

\* Mutant of DiskFrom: the head of the requested slot, though a later one may
\* have been entered earlier.
DiskFromSlot(from) == replay[Min(from)].head

DiskFrom(from) == Min({replay[t].head : t \in from})

Locate(c, s) ==
    LET first(t) == Min({i \in DOMAIN stream[c] : stream[c][i].slot = t})
        ring == {m.slot : m \in Range(stream[c])}
        ringFrom == {t \in ring : t >= s}
        map == OpenSlots(replay)
        mapFrom == {t \in map : t >= s}
        newest == Max({NoSlot} \cup IF map # {} THEN map ELSE ring)
    IN  IF (\E t \in ring : t <= s) /\ ringFrom # {}
        THEN [where |-> "memory", at |-> Min({first(t) : t \in ringFrom})]
        ELSE IF newest # NoSlot /\ s > newest
        THEN [where |-> "memory", at |-> Len(stream[c]) + 1]
        ELSE IF ~Storage \/ mapFrom = {} \/ s < Min(map) \/ c \notin ReplayEnabled
        THEN Unavailable
        ELSE [where |-> "storage", at |-> DiskFrom(mapFrom)]

(***************************************************************************)
(* Properties                                                              *)
(***************************************************************************)

TypeOK ==
    /\ setup \in Setups
    /\ \A s \in Slot : slots[s].open =>
          /\ slots[s].index \in Nat
          /\ slots[s].confirmed_bank \in Bank0 \cup {NoChoice}
          /\ slots[s].cleared \subseteq Bank
    /\ \A s \in Slot : dedup[s].open =>
          /\ dedup[s].source \in Source \cup {NoSource}
          /\ dedup[s].waiting \in [Bank0 \X Sig -> Seq(Message)]
    /\ \A s \in Slot : replay[s].open => replay[s].head \in 0 .. index
    /\ slot_finalized \in Nat /\ slot_dropped \in Nat /\ index \in Nat
    /\ replay_from \in Nat \cup {NoSlot}
    /\ \A c \in Commitment : \A m \in Range(stream[c]) : m.slot \in Slot /\ m.bank \in Bank0
    /\ \A i \in DOMAIN journal :
          /\ journal[i].op \in {"push", "trim"} /\ journal[i].slot \in Slot
          /\ journal[i].op = "push" => journal[i].c \in Commitment /\ journal[i].index \in Nat
    /\ durable \in 0 .. Len(journal) /\ floor \in 0 .. index
    /\ sent \in [Source -> SUBSET Message]
    /\ boot \in {"ok", "failed"}

IsData(m) == m.kind \notin {"slot", "update_parent"}
DataOf(c, s) == {m \in Range(stream[c]) : m.slot = s /\ IsData(m)}
StatusAt(c, s, st) == {i \in DOMAIN stream[c] : /\ stream[c][i].slot = s
                                              /\ stream[c][i].kind = "slot"
                                              /\ stream[c][i].key = st}

\* No stream carries an event twice: whichever source delivers it first, whether
\* an account waits for its transaction, whether a message reaches the confirmed
\* stream by promotion or by arriving late, and also when the state of its slot was
\* dropped because finalized stalls.  It is the "deduplicated status" of
\* channel_tests.rs:1578, for every kind of message.
NoEventTwice ==
    \A c \in Commitment : \A i, j \in DOMAIN stream[c] :
        Event(stream[c][i]) = Event(stream[c][j]) => i = j

\* A block is published at most once per candidate and is whole: it has the
\* announced numbers of transactions and entries, and of every account that was
\* published before it exactly the update with the highest write version, in
\* whatever order the sources interleaved.
BlockIsWhole ==
    \A i \in DOMAIN stream[Processed] :
        LET b == stream[Processed][i]
            before == {m \in Range(SubSeq(stream[Processed], 1, i - 1)) :
                          m.slot = b.slot /\ m.bank = b.bank}
            accounts == {m \in before : m.kind = "account"}
            newest == {m \in accounts : \A o \in accounts : o.key = m.key => o.version <= m.version}
        IN  b.kind = "block" =>
                /\ b.parts = newest \cup {m \in before : m.kind \in {"tx", "entry"}}
                /\ Cardinality({m \in b.parts : m.kind = "tx"}) = Txs
                /\ Cardinality({m \in b.parts : m.kind = "entry"}) = Entries
                /\ \A o \in before : o.kind # "block"

\* Once a slot is confirmed its confirmed stream is the data of one candidate, and
\* all of it: every processed message of that bank is there, except an account
\* update that a newer one replaced and what came behind its block and before the
\* status, whether it came before or after the status.
ConfirmedComplete ==
    \A s \in Slot : slots[s].open /\ slots[s].confirmed_bank # NoChoice =>
        LET bank == slots[s].confirmed_bank
            behind(i) == \E j \in 1 .. i - 1 :
                            stream[Processed][j].kind = "block"
                            /\ stream[Processed][j].slot = s /\ stream[Processed][j].bank = bank
        IN  /\ \A m \in DataOf(Confirmed, s) : m.bank = bank
            /\ \A i \in DOMAIN stream[Processed] :
                 LET m == stream[Processed][i]
                 IN  (m.slot = s /\ m.bank = bank /\ IsData(m)) =>
                         \/ m \in DataOf(Confirmed, s)
                         \/ m.kind = "account" /\ \E o \in DataOf(Confirmed, s) :
                               o.kind = "account" /\ o.key = m.key /\ o.version >= m.version
                         \/ m.kind # "footer" /\ behind(i)

\* The finalized stream is never of another candidate than the confirmed one: what
\* finalized carries of a slot whose confirmed status came first, confirmed has
\* carried too.
FinalizedWasConfirmed ==
    \A s \in Slot :
        (\E i \in StatusAt(Finalized, s, Confirmed), j \in StatusAt(Finalized, s, Finalized) : i < j)
        => DataOf(Finalized, s) \subseteq DataOf(Confirmed, s)

\* The records of the journal that the floor and the trims have left.
Stored ==
    {journal[i] : i \in {j \in DOMAIN journal :
        /\ journal[j].op = "push" /\ journal[j].index >= floor
        /\ \A k \in j + 1 .. Len(journal) :
              ~(journal[k].op = "trim" /\ journal[k].slot = journal[j].m.slot)}}

\* Positions of the records of the slots on disk: a record that entered the slot is
\* before them, and no trim of the slot behind that.
Retained ==
    {j \in DOMAIN journal :
        IsPush(journal[j]) /\ \E i \in Entered(journal, floor, journal[j].slot) : i <= j}

\* A from_slot request answered from disk starts before every record of the requested
\* slot and the later ones that is on disk: across restarts, messages that arrive for a
\* slot after later slots began, slots that come back after their trim, and trims that a
\* crash undid.  What is stored is of such a slot, unless a crash kept a record of a slot
\* that fell out of the window and not the trim behind it.
DiskReplayComplete ==
    /\ boot = "ok" => \A c \in ReplayEnabled, s \in Slot :
           LET at == Locate(c, s)
           IN  at.where = "storage" =>
                   \A j \in Retained : journal[j].slot >= s => journal[j].index >= at.at
    /\ crashes = 0 => Stored \subseteq {journal[j] : j \in Retained}

\* The slots of the replay map and their heads are those a restart would read from disk,
\* after whatever sequence of entries, trims, late messages and epochs.
MapIsOnDisk ==
    Storage => \A s \in Slot :
        LET row == Row(journal, floor, s)
        IN  /\ replay[s].open = row.open
            /\ row.open => replay[s].head = row.head

\* The replay of a stored record starts before it, "Replay starts inclusively at
\* `from_slot`" (README.md:252), also when it is all that a crash left of a slot that
\* fell out of the window.
OrphanReplayed ==
    boot = "ok" => \A c \in ReplayEnabled, s \in Slot :
        LET at == Locate(c, s)
        IN  at.where = "storage" => \A r \in Stored : r.m.slot >= s => r.index >= at.at

\* "already durable events must not be appended again" (channel_tests.rs:829): the
\* journal holds every event at most once per commitment, however often the
\* process dies between two events and the source sends the slots again.
StoredOnce ==
    LET stored == Stored
    IN  \A r1, r2 \in stored : (r1.c = r2.c /\ Event(r1.m) = Event(r2.m)) => r1 = r2

\* The journal indexes are handed out in order and without reuse.
IndexesIncrease ==
    \A i, j \in DOMAIN journal :
        (i < j /\ journal[i].op = "push" /\ journal[j].op = "push")
        => journal[i].index < journal[j].index /\ journal[j].index < index

\* Dedup state is bounded when finalized stalls, "sender.dedup.len() <= 64"
\* (channel_bounds_tests.rs:293, with max_unfinalized_slots = 64).
DedupBounded == Cardinality(OpenSlots(dedup)) <= MaxUnfinalized

\* "Replay starts inclusively at `from_slot`" (README.md:252): a request answered
\* from memory misses no stored record of the requested slot.
MemoryReplayComplete ==
    boot = "ok" =>
        \A s \in Slot :
            LET at == Locate(Processed, s)
            IN  at.where = "memory" =>
                    \A r \in Stored : (r.c = Processed /\ r.m.slot >= s) =>
                        \E i \in at.at .. Len(stream[Processed]) : stream[Processed][i] = r.m

\* Recovery after a restart yields the confirmed history too, "upstream replay to
\* recover missing events and commitment changes" (README.md:209): a confirmed slot
\* has every stored data message of its bank also in the stored confirmed stream.
StoredConfirmedComplete ==
    \A s \in Slot : slots[s].open /\ slots[s].confirmed_bank # NoChoice =>
        \A r \in Stored :
            (r.c = Processed /\ r.m.slot = s /\ r.m.bank = slots[s].confirmed_bank
             /\ r.m.kind \in {"tx", "entry"})
            => \E q \in Stored : q.c = Confirmed /\ q.m = r.m

\* A restart finds a journal it can continue from: the error to_sender raises for a
\* record of a slot without a row, "failed to get replay info for existed message"
\* (channel.rs:414), never occurs.
RestartSucceeds == boot = "ok"

\* Promotion: the confirmed stream carries one candidate of a slot and all of it, and the
\* finalized one the same candidate.
PromotionInv == ConfirmedComplete /\ FinalizedWasConfirmed

\* No event twice, neither in a stream nor on disk.
EventsOnce == NoEventTwice /\ StoredOnce

\* The journal over any number of restarts: well typed, no index twice, and what the
\* process knows of it is what it would read.
JournalInv == TypeOK /\ IndexesIncrease /\ MapIsOnDisk
=============================================================================
