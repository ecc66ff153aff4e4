------------------------------ MODULE MCPubSub ------------------------------
(* Instances of PubSub for TLC.                                            *)
EXTENDS PubSub

P(m) == [c |-> Processed, m |-> m]
C(m) == [c |-> Confirmed, m |-> m]
F(m) == [c |-> Finalized, m |-> m]
Status(slot, status) == [kind |-> "slot", slot |-> slot, status |-> status]
Tx(slot, sig, keys, failed, version) ==
    [kind |-> "tx", slot |-> slot, sig |-> sig, keys |-> keys, vote |-> "no",
     failed |-> failed, decodes |-> TRUE, version |-> version]
Account(slot, key, len) == [kind |-> "account", slot |-> slot, key |-> key, owner |-> "o",
                            len |-> len, prefix |-> "p"]
EntryOf(slot) == [kind |-> "entry", slot |-> slot, count |-> 1]
Meta(slot) == [kind |-> "meta", slot |-> slot, transactions |-> 1, entries |-> 1]
Block(slot, txs) == [kind |-> "block", slot |-> slot, txs |-> txs]

Ask(config) == [json |-> TRUE, params |-> TRUE, config |-> config]
Badly(config) == [Ask(config) EXCEPT !.params = FALSE]
Plain(method) == Ask([method |-> method])
Signature(level) == Ask([method |-> "signature", sig |-> "s1", commitment |-> level])
AccountK(level) == Ask([method |-> "account", key |-> "k1", commitment |-> level])
Program(filters) ==
    Ask([method |-> "program", key |-> "o", filters |-> filters, commitment |-> Processed])
Size(n) == [type |-> "dataSize", size |-> n]
Logs(kind, keys) ==
    Ask([method |-> "logs", kind |-> kind, keys |-> keys, commitment |-> Processed])
TransactionOf(keys, details) ==
    Ask([method |-> "transaction", details |-> details, max_version |-> NoVersion,
         commitment |-> Processed,
         filter |-> [vote |-> Unset, failed |-> "no", sig |-> Unset, include |-> keys,
                     exclude |-> {"x"}, required |-> {}]])
BlockOf(level) == Ask([method |-> "block", keys |-> {"k1"}, details |-> "signatures",
                       max_version |-> 0, commitment |-> level])

T1 == Tx(2, "s1", {"k1"}, "no", Legacy)
T2 == Tx(2, "s2", {"k1", "k2"}, "no", 0)
T4 == Tx(2, "s3", {"k1"}, "yes", 0)
T3 == Tx(3, "s3", {"x"}, "yes", Legacy)

One == {"c1"}
Both == {"c1", "c2"}

\* A transaction and another one, and signature subscriptions at any time.
Signatures == [clients |-> Both, frames |-> 2, fail |-> FALSE, peers |-> {},
    script |-> <<P(T1), P(T3)>>,
               asks |-> {Signature(Processed), Plain("accountUnsubscribe")}]
ConfirmedSignatures == [clients |-> One, frames |-> 2, fail |-> TRUE, peers |-> {},
    script |-> <<P(T1), C(T1), P(Status(2, Confirmed))>>,
                        asks |-> {Signature(Confirmed), Signature(Finalized)}]
Accounts == [clients |-> One, frames |-> 2, fail |-> FALSE, peers |-> {},
    script |-> <<P(Account(2, "k1", 1)), P(Account(2, "k1", 2))>>,
             asks |-> {AccountK(Processed), Program(<<Size(1)>>)}]
Leaving == [clients |-> One, frames |-> 2, fail |-> FALSE, peers |-> {},
    script |-> <<P(Account(2, "k1", 1)), C(Account(2, "k1", 1)), P(Account(2, "k1", 2))>>,
    asks |-> {AccountK(Processed), AccountK(Confirmed), Plain("accountUnsubscribe")}]
Slots == [clients |-> One, frames |-> 1, fail |-> FALSE, peers |-> {},
    script |-> <<P(Status(2, "createdBank")), P(T1), P(Meta(2)), P(EntryOf(2)),
                       P(Status(2, Processed)), P(Status(2, Finalized))>>,
          asks |-> {Plain("slotsUpdates"), Plain("root")}]
Blocks == [clients |-> One, frames |-> 1, fail |-> FALSE, peers |-> {},
    script |-> <<P(T1), P(T2), F(Block(2, {T1, T2})), P(T3), P(Status(3, "dead"))>>,
           asks |-> {BlockOf(Unset), TransactionOf({"k2"}, "full"), Logs("mentions", {"k1"})}]
Refused == [clients |-> One, frames |-> 2, fail |-> FALSE, peers |-> {},
    script |-> <<>>,
            asks |-> {BlockOf(Processed), Logs("mentions", {}), Program(<<Size(1), Size(2)>>),
                      Plain("unknown"), Plain("getVersion"), Badly([method |-> "root"]),
                      [Plain("root") EXCEPT !.json = FALSE], Plain("slot")}]

\* A slot from its first status on: each subset of the rest of its events is what was read
\* first in one of the orders, which are the turns of two cycles.  In half of them an older
\* slot is finalized meanwhile.
FirstCycle == <<T1, [Meta(2) EXCEPT !.transactions = 2], T4, EntryOf(2), Status(2, Processed)>>
Turn(step, k) == [i \in 1 .. 5 |-> FirstCycle[((step * i + k) % 5) + 1]]
Frozen(events) == [clients |-> One, frames |-> 1, fail |-> FALSE, peers |-> {},
    script |-> [i \in DOMAIN events |-> P(events[i])], asks |-> {Plain("slotsUpdates")}]
SlotOrders ==
    {Frozen(<<Status(2, "firstShredReceived")>> \o Turn(1, k)) : k \in 0 .. 4}
    \cup {Frozen(<<Status(2, "firstShredReceived")>> \o SubSeq(Turn(2, k), 1, 3)
                  \o <<Status(1, Finalized)>> \o SubSeq(Turn(2, k), 4, 5)) : k \in 0 .. 4}

\* Peers that stop reading or answering, one of two clients that share a subscription, and
\* one whose tracker fails.
Stalling == [clients |-> Both, frames |-> 2, fail |-> FALSE, peers |-> {"answers", "stalled"},
    script |-> [i \in 1 .. 2 |-> P(Account(2, "k1", i))], asks |-> {AccountK(Processed)}]
Silent == [clients |-> One, frames |-> 2, fail |-> TRUE, peers |-> Peer,
    script |-> [i \in 1 .. 2 |-> P(Account(2, "k1", i))],
           asks |-> {AccountK(Processed), Plain("accountUnsubscribe")}]
Abandoned == [clients |-> One, frames |-> 1, fail |-> FALSE, peers |-> Peer,
    script |-> [i \in 1 .. 5 |-> P(Account(2, "k1", i))], asks |-> {AccountK(Processed)}]

MCScenarios ==
    SlotOrders \cup {Signatures, ConfirmedSignatures, Accounts, Leaving, Slots, Blocks, Refused,
                     Stalling, Silent, Abandoned}

\* The slot is sent again: a source without deduplication after a reconnection, or a second
\* bank of the slot.
MCRepeats == {Frozen(<<T1, Meta(2), EntryOf(2), Status(2, Processed),
                       T1, Meta(2), EntryOf(2), Status(2, Processed)>>)}

OneEach == [c \in Commitment |-> 1]
NoneYet == [c \in Commitment |-> 0]
=============================================================================
