-------------------------- MODULE MCPluginChannel --------------------------
(***************************************************************************)
(* Small instances of PluginChannel for TLC.                               *)
(***************************************************************************)
EXTENDS PluginChannel

\* A chain of slots.
MCParentOf == [s \in Slot |-> IF s - 1 \in Slot THEN s - 1 ELSE NoSlot]

\* The first receiver takes everything, every other one no accounts.
MCDisabled == [r \in Receiver |-> IF r = "rx1" THEN {} ELSE {"account"}]

\* What the validator reports in any order, with and without the parent of a slot;
\* bytes evict, and nobody reads.
Reports(slot_set, kind_set, n) ==
    [max_messages |-> 8, max_bytes |-> 6, slots |-> slot_set, kinds |-> kind_set,
     statuses |-> {"Confirmed", "Rooted"}, receivers |-> {}, pushes |-> n, closes |-> FALSE]

\* Statuses of a chain of three slots, data of two of them, and both together.
ChainOfSlots == Reports({1, 2, 3}, {"slot"}, 5)
TwoSlots == Reports({1, 2}, {"slot", "account"}, 5)
ChainWithData == Reports({1, 2, 3}, {"slot", "account"}, 4)

\* Two receivers against a ring of two items that is closed in the end.
TwoReceivers ==
    [max_messages |-> 2, max_bytes |-> 4, slots |-> {1}, kinds |-> {"account", "contact"},
     statuses |-> Status, receivers |-> {"rx1", "rx2"}, pushes |-> 3, closes |-> TRUE]

\* Data and statuses of two slots that overwrite each other.
SmallRing ==
    [max_messages |-> 2, max_bytes |-> 4, slots |-> {1, 2}, kinds |-> {"slot", "account"},
     statuses |-> Status, receivers |-> {}, pushes |-> 4, closes |-> FALSE]

MCSetups == {ChainOfSlots, TwoSlots, ChainWithData, TwoReceivers}
MCReaders == {TwoReceivers}
MCSmallRing == {SmallRing}
=============================================================================
