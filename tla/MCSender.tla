------------------------------ MODULE MCSender ------------------------------
(***************************************************************************)
(* Small instances of Sender for TLC: what the sources send in each run.   *)
(***************************************************************************)
EXTENDS Sender

Status(s, b, st) == Msg("slot", s, b, st, NoSig, 0)
Account(s, b, k, sig, v) == Msg("account", s, b, k, sig, v)
Tx(s, b, sig) == Msg("tx", s, b, "", sig, 0)
Meta(s, b) == Msg("meta", s, b, "", NoSig, 0)
Footer(s, b) == Msg("footer", s, b, "", NoSig, 0)
UpdateParent(s, b) == Msg("update_parent", s, b, "", NoSig, 0)

MCTxIndex == [sig \in {"t1", "t2"} |-> IF sig = "t1" THEN 0 ELSE 1]

\* Two transactions that write one account, a block meta and the confirmed status.
TwoSources ==
    {Tx(1, 0, "t1"), Tx(1, 0, "t2"), Account(1, 0, "k", "t1", 7), Account(1, 0, "k", "t2", 7),
     Meta(1, 0), Status(1, 0, Confirmed)}

\* Two candidates of a slot, one of them cleared, and statuses that name the bank
\* or, for the finalized one, do not.
Candidates ==
    {Tx(1, b, "t1") : b \in {1, 2}} \cup {Meta(1, b) : b \in {1, 2}}
    \cup {Footer(1, 1), UpdateParent(1, 1), Status(1, 1, Confirmed), Status(1, 2, Confirmed),
          Status(1, 0, Finalized)}

\* The same candidates with statuses of a source that does not name the bank.
BanklessStatuses ==
    {Tx(1, b, "t1") : b \in {1, 2}} \cup {Status(1, 0, Confirmed), Status(1, 0, Finalized)}

\* Three slots, one more than the storage retains, the first with its finalized
\* status.
ThreeSlots ==
    {Tx(s, 0, "t1") : s \in 1 .. 3} \cup {Status(1, 0, Finalized)}

\* One transaction and the confirmed status of its slot.
OneSlot == {Tx(1, 0, "t1"), Tx(1, 0, "t2"), Status(1, 0, Confirmed)}

\* Two account updates that no transaction made.
PhantomAccounts == {Account(1, 0, k, NoSig, 7) : k \in {"k1", "k2"}}

\* Four slots, two more than the storage retains.
FourSlots == {Tx(s, 0, "t1") : s \in 1 .. 4} \cup {Status(1, 0, Finalized)}

\* Four slots, three more than the storage retains, the second with two transactions.
ComingBack == {Tx(s, 0, "t1") : s \in 1 .. 4} \cup {Tx(2, 0, "t2")}

\* Three slots, one more than the sender keeps unfinalized, the second with its
\* statuses.
StalledSlots ==
    {Tx(s, 0, "t1") : s \in 1 .. 3} \cup {Status(2, 0, Confirmed), Status(2, 0, Finalized)}

\* Three slots, one of which starts with an account that waits for its transaction.
WaitingSlot ==
    {Tx(1, 0, "t1"), Tx(3, 0, "t1"), Account(2, 0, "k", "t1", 7), Status(1, 0, Finalized)}

\* One source, or two that send the same, without storage.
Only(offer) == [src \in Source |-> IF src = "a" THEN offer ELSE {}]
Both(offer) == [src \in Source |-> offer]

InMemory(offer, unfinalized, txs) ==
    [offer |-> offer, dedup_required |-> TRUE, storage |-> FALSE, replay_enabled |-> {},
     max_unfinalized |-> unfinalized, storage_max_slots |-> 3, txs |-> txs, entries |-> 0,
     crashes |-> 0, reconnects |-> 0, epochs |-> 0]

OnDisk(offer, commitments, max_slots, txs, restarts) ==
    [InMemory(offer, 3, txs) EXCEPT !.storage = TRUE, !.replay_enabled = commitments,
                                    !.storage_max_slots = max_slots, !.crashes = restarts]

\* The second source has the transactions and one of the accounts.
DedupSetup ==
    InMemory([Both(TwoSources) EXCEPT !["b"] = {m \in @ : m.kind = "tx" \/ m.sig = "t1"}], 3, 2)
BanksSetup == [InMemory(Only(Candidates), 3, 1) EXCEPT !.dedup_required = FALSE]
StalledSetup == [InMemory(Both(StalledSlots), 2, 2) EXCEPT !.reconnects = 1]
RestartSetup == [OnDisk(Only(ThreeSlots), {Processed, Finalized}, 2, 2, 2) EXCEPT !.epochs = 1]

MCSetups == {DedupSetup, BanksSetup, StalledSetup, RestartSetup}

\* Setups in which a property the documentation or a test states fails.
MCBankless == {[InMemory(Only(BanklessStatuses), 3, 2) EXCEPT !.dedup_required = FALSE]}
MCWaiting == {InMemory(Both(WaitingSlot), 2, 2)}
MCRestartConfirmed == {OnDisk(Only(OneSlot), {Processed, Confirmed}, 3, 3, 1)}
MCRestartMemory == {OnDisk(Only(OneSlot), {Processed, Confirmed}, 3, 2, 1)}
MCRestartPhantom == {OnDisk(Both(PhantomAccounts), {Processed, Confirmed}, 3, 1, 1)}
MCOrphan == {OnDisk(Only(ComingBack), {Processed}, 1, 9, 2)}
MCRestartTrimmed == {OnDisk(Only(FourSlots), {Processed}, 2, 3, 1)}
=============================================================================
