---------------------------- MODULE MCFilterServer ----------------------------
(* Instances of FilterServer for TLC.                                      *)
EXTENDS FilterServer

K(n) == <<n>>
Sig(n) == <<n, n>>
Text(k) == [ok |-> TRUE, key |-> k]
Keys(ns) == [i \in DOMAIN ns |-> Text(K(ns[i]))]

\* Notifications.
Account(key, owner, lamports, data, sig, wv, version) ==
    [kind |-> "Account", version |-> version,
     v |-> [slot |-> 1, bank_id |-> <<2>>,
            account |-> [pubkey |-> K(key), lamports |-> lamports, owner |-> K(owner),
                         executable |-> lamports % 2, rent_epoch |-> 0, data |-> data,
                         write_version |-> wv, txn_signature |-> sig]]]

\* Messages of the three versions, and a meta with nothing and one with everything.
Legacy(keys) ==
    [version |-> "legacy", account_keys |-> keys, recent_blockhash |-> <<0>>,
     header |-> [num_required_signatures |-> 1, num_readonly_signed_accounts |-> 0,
                 num_readonly_unsigned_accounts |-> 5],
     instructions |-> <<[program_id_index |-> 1, accounts |-> <<0, 4>>, data |-> <<>>],
                        [program_id_index |-> 0, accounts |-> <<>>, data |-> <<7>>]>>,
     address_table_lookups |-> <<>>, config |-> <<>>]
V0(keys) ==
    [Legacy(keys) EXCEPT !.version = "v0",
        !.address_table_lookups = <<[account_key |-> K(6), writable_indexes |-> <<1>>,
                                     readonly_indexes |-> <<>>]>>]
V1(keys) ==
    [Legacy(keys) EXCEPT !.version = "v1",
        !.config = <<[priority_fee |-> <<0>>, compute_unit_limit |-> <<17>>,
                      loaded_accounts_data_size_limit |-> <<>>, heap_size |-> <<>>]>>]
NoMeta(writable, readonly) ==
    [status |-> <<>>, fee |-> 0, pre_balances |-> <<>>, post_balances |-> <<>>,
     inner_instructions |-> <<>>, log_messages |-> <<>>, pre_token_balances |-> <<>>,
     post_token_balances |-> <<>>, rewards |-> <<>>, loaded_writable_addresses |-> writable,
     loaded_readonly_addresses |-> readonly, return_data |-> <<>>,
     compute_units_consumed |-> <<>>, cost_units |-> <<>>]
SomeReward(type, commission, bps) ==
    [pubkey |-> <<1, 2>>, lamports |-> 3, post_balance |-> 0, reward_type |-> type,
     commission |-> commission, commission_bps |-> bps]
FullMeta(err, writable, readonly) ==
    [NoMeta(writable, readonly) EXCEPT
        !.status = err, !.fee = 5, !.pre_balances = <<0, 17>>, !.post_balances = <<4>>,
        !.inner_instructions =
            <<<<[index |-> 0, instructions |->
                    <<[program_id_index |-> 0, accounts |-> <<>>, data |-> <<3>>,
                       stack_height |-> <<0>>]>>]>>>>,
        !.log_messages = <<<<<<1>>, <<>>>>>>, !.pre_token_balances = <<<<>>>>,
        !.post_token_balances =
            <<<<[account_index |-> 1, mint |-> <<5>>, owner |-> <<>>, program_id |-> <<>>,
                 ui_token_amount |-> [decimals |-> 0, amount |-> <<>>,
                                      ui_amount_string |-> <<>>]]>>>>,
        !.rewards = <<<<SomeReward(<<>>, <<0>>, <<105>>), SomeReward(<<6>>, <<>>, <<>>)>>>>,
        !.return_data = <<[program_id |-> K(0), data |-> <<>>]>>,
        !.compute_units_consumed = <<0>>, !.cost_units = <<4>>]
Sent(sig, vote, message, meta, index) ==
    [kind |-> "Transaction",
     v |-> [slot |-> 1, bank_id |-> 2,
            transaction |-> [signature |-> Sig(sig), is_vote |-> vote, index |-> index,
                             transaction |-> [signatures |-> <<Sig(sig), Sig(0)>>,
                                              message |-> message],
                             meta |-> meta]]]
Deshred(sig, message, addresses) ==
    [kind |-> "DeshredTransaction",
     v |-> [slot |-> 1,
            transaction |-> [signature |-> Sig(sig), is_vote |-> 1,
                             transaction |-> [signatures |-> <<Sig(sig)>>, message |-> message],
                             loaded_writable_addresses |-> addresses,
                             loaded_readonly_addresses |-> addresses,
                             completed_data_set_starting_shred_index |-> 0,
                             completed_data_set_ending_shred_index_exclusive |-> 4]]]
Entry(index, count) ==
    [kind |-> "Entry",
     v |-> [slot |-> 1, index |-> index, num_hashes |-> 3, hash |-> <<9>>,
            executed_transaction_count |-> count, starting_transaction_index |-> 0,
            bank_id |-> 2]]
Slot(status, parent) ==
    [kind |-> "Slot", v |-> [slot |-> 1, parent |-> parent, status |-> status, bank_id |-> <<2>>,
                             error |-> <<2>>]]
MetaWith(rewards, partitions, time) ==
    [kind |-> "BlockMeta",
     v |-> [slot |-> 1, blockhash |-> <<7>>, block_height |-> <<5>>, block_time |-> time,
            rewards |-> [rewards |-> rewards, num_partitions |-> partitions],
            parent_slot |-> 0, parent_blockhash |-> <<6>>,
            executed_transaction_count |-> 1, entries_count |-> 1, bank_id |-> 2]]
Meta == MetaWith(<<SomeReward(<<1>>, <<>>, <<>>), SomeReward(<<4>>, <<9>>, <<1000>>)>>, <<0>>, <<4>>)

\* Footers without certificates, finalized fast, and finalized slowly.
VotesOf(n) == [signature |-> Sig(n), signer_bitmap |-> <<n>>]
PlainFooter ==
    [bank_hash |-> <<8>>, block_producer_time_nanos |-> 5, block_user_agent |-> <<1>>,
     block_final_cert |-> <<>>, skip_reward_cert |-> <<>>, notar_reward_cert |-> <<>>]
FinalCertOf(notar) ==
    [slot |-> 1, block_id |-> <<3>>, final_aggregate |-> VotesOf(1), notar_aggregate |-> notar]
FastFooter ==
    [PlainFooter EXCEPT !.block_final_cert = <<FinalCertOf(<<>>)>>,
        !.skip_reward_cert = <<[slot |-> 0] @@ VotesOf(3)>>]
SlowFooter ==
    [PlainFooter EXCEPT !.block_final_cert = <<FinalCertOf(<<VotesOf(2)>>)>>,
        !.notar_reward_cert = <<[slot |-> 1, block_id |-> <<4>>] @@ VotesOf(3)>>]
MCFooters == <<PlainFooter, FastFooter, SlowFooter>>
FooterOf(footer) ==
    [kind |-> "BlockFooter", v |-> [slot |-> 1, bank_id |-> 2, block_footer |-> footer]]
UpdateParent ==
    [kind |-> "EntryUpdateParent",
     v |-> [slot |-> 1, cleared_bank_id |-> 2, parent_slot |-> 0, parent_block_id |-> <<5>>]]
DeshredParent ==
    [kind |-> "DeshredUpdateParent",
     v |-> [slot |-> 1, update_parent_fec_set_index |-> 0, parent_slot |-> 4,
            parent_block_id |-> <<5>>]]
Contact ==
    [kind |-> "ContactInfo",
     v |-> Table([n \in {ContactInfo[i].name : i \in DOMAIN ContactInfo} |->
               IF n = "pubkey" THEN K(3) ELSE IF n \in ToSet(Addresses)
               THEN IF n \in {"gossip", "rpc"} THEN <<<<1, 2>>>> ELSE <<>>
               ELSE IF n \in {"wallclock", "version_minor"} THEN 4 ELSE 0])]
ContactRemoved == [kind |-> "ContactInfoRemoved", v |-> [pubkey |-> K(3)]]
WholeBlock == [kind |-> "Block", v |-> [slot |-> 1]]

\* Requests.
NoFilters == [slots |-> <<>>, accounts |-> <<>>, slices |-> <<>>, transactions |-> <<>>,
              status |-> <<>>, entry |-> <<>>, meta |-> <<>>, blocks |-> <<>>,
              footer |-> <<>>, commitment |-> <<>>]
Named(n, f) == [x \in {<<n>>} |-> f]
AnyAccount == [account |-> <<>>, owner |-> <<>>, cuckoo |-> FALSE, filters |-> <<>>,
               nonempty |-> <<>>]
AnyTransaction == [vote |-> <<>>, failed |-> <<>>, signature |-> <<>>, include |-> <<>>,
                   exclude |-> <<>>, required |-> <<>>, cuckoo |-> FALSE,
                   token_accounts |-> FALSE]
AnyBlock == [include |-> <<>>, transactions |-> <<>>, accounts |-> <<>>, entries |-> <<>>,
             cuckoo |-> FALSE]
AskAccounts(fs) == [NoFilters EXCEPT !.accounts = fs]
AskSliced(slices) ==
    [AskAccounts(Named(1, AnyAccount)) EXCEPT
        !.slices = [i \in DOMAIN slices |-> [offset |-> slices[i][1], length |-> slices[i][2]]]]
With(filters) == AskAccounts(Named(1, [AnyAccount EXCEPT !.filters = filters]))
Memcmp(offset, data) == [f |-> "memcmp", offset |-> offset, form |-> "base58",
                         text |-> [ok |-> TRUE, data |-> data, long |-> FALSE]]
Lamports(cmp, value) == [f |-> "lamports", cmp |-> cmp, value |-> value]
AskTransactions(f) == [NoFilters EXCEPT !.transactions = Named(1, f), !.status = Named(2, f)]
AskBlocks(f) == [NoFilters EXCEPT !.blocks = Named(1, f)]

NoLimits ==
    [name_max |-> 2, slots |-> 2,
     accounts |-> [max |-> 2, any |-> TRUE, account_max |-> 2, account_reject |-> {},
                   owner_max |-> 2, owner_reject |-> {}, data_slice_max |-> 2],
     transactions |-> [max |-> 2, any |-> TRUE, include_max |-> 2, include_reject |-> {},
                       exclude_max |-> 2, required_max |-> 2],
     status |-> [max |-> 2, any |-> TRUE, include_max |-> 2, include_reject |-> {},
                 exclude_max |-> 2, required_max |-> 2],
     entries |-> 2, meta |-> 2,
     blocks |-> [max |-> 2, include_max |-> 2, include_any |-> TRUE, include_reject |-> {},
                 transactions |-> TRUE, accounts |-> TRUE, entries |-> TRUE],
     footer |-> 2]

Simple == [parser |-> "Limited", encoder |-> "Raw", level |-> "processed", clients |-> {"c1"},
           frames |-> 1, limits |-> NoLimits, script |-> <<>>, asks |-> <<>>]
EachParser(s) ==
    <<s, [s EXCEPT !.encoder = "Prost"], [s EXCEPT !.parser = "Prost"],
      [s EXCEPT !.parser = "Prost", !.encoder = "Prost"]>>

\* Accounts whose version, data and size take one, two or three digits, before and after.
SomeAccounts ==
    <<Account(5, 6, 0, <<>>, <<>>, 1, 0), Account(5, 6, 3, <<2>>, <<>>, 1, 20),
      Account(5, 6, 0, <<2, 1>>, <<Sig(3)>>, 4, 3), Account(5, 7, 3, <<2, 1, 3, 3, 1>>, <<>>, 4, 20),
      Account(5, 6, 3, <<2, 1, 3>>, <<Sig(3)>>, 1, 20), Account(5, 6, 3, <<>>, <<Sig(3)>>, 20, 3)>>
AccountAsks ==
    <<AskAccounts(Named(1, AnyAccount)), AskSliced(<<<<0, 1>>, <<2, 2>>>>), AskSliced(<<<<1, 1>>>>),
      AskSliced(<<<<1, 2>>, <<2, 1>>>>),
      AskAccounts([n \in {<<1>>, <<2, 2>>} |->
                     IF n = <<1>> THEN [AnyAccount EXCEPT !.account = Keys(<<5>>)]
                     ELSE [AnyAccount EXCEPT !.owner = Keys(<<7>>)]]),
      With(<<Memcmp(1, <<1>>), Lamports("gt", 2)>>), With(<<Lamports("ne", 0)>>),
      With(<<[f |-> "datasize", size |-> 1]>>), With(<<[f |-> "token", value |-> TRUE]>>),
      With(<<[f |-> "token", value |-> FALSE]>>), With(<<Memcmp(0, <<1, 1, 1>>)>>),
      With(<<Lamports("eq", 0), Lamports("lt", 3), [f |-> "datasize", size |-> 2]>>),
      AskAccounts(Named(1, [AnyAccount EXCEPT !.nonempty = <<TRUE>>]))>>
AccountWires == EachParser([Simple EXCEPT !.script = SomeAccounts, !.asks = AccountAsks])

SomeTransactions ==
    <<Sent(4, 0, Legacy(<<K(5), K(6)>>), NoMeta(<<>>, <<K(7)>>), 3),
      Sent(4, 1, V0(<<K(5)>>), FullMeta(<<[err |-> <<1, 2>>]>>, <<K(8)>>, <<>>), 0),
      Sent(4, 0, V1(<<K(5), K(8)>>), FullMeta(<<[err |-> <<3>>]>>, <<>>, <<>>), 1)>>
TransactionAsks ==
    <<AskTransactions(AnyTransaction),
      AskTransactions([AnyTransaction EXCEPT !.vote = <<FALSE>>, !.include = Keys(<<7>>)]),
      AskTransactions([AnyTransaction EXCEPT !.failed = <<TRUE>>, !.exclude = Keys(<<6>>)]),
      AskTransactions([AnyTransaction EXCEPT !.required = Keys(<<5, 8>>)]),
      AskTransactions([AnyTransaction EXCEPT !.signature = <<Text(Sig(4))>>]),
      AskTransactions([AnyTransaction EXCEPT !.signature = <<[ok |-> FALSE, key |-> <<>>]>>])>>
TransactionWires ==
    EachParser([Simple EXCEPT !.script = SomeTransactions, !.asks = TransactionAsks])

OtherWires ==
    EachParser([Simple EXCEPT !.level = "confirmed",
        !.script = <<Slot("Processed", <<0>>), Slot("Confirmed", <<>>), Slot("Rooted", <<>>),
                     Slot("FirstShredReceived", <<>>), Contact,
                     Entry(0, 1), Entry(4, 0), Meta, MetaWith(<<>>, <<>>, <<>>),
                     FooterOf(PlainFooter), FooterOf(FastFooter), FooterOf(SlowFooter),
                     Deshred(4, V1(<<K(5)>>), <<>>), Deshred(4, V0(<<K(5)>>), <<<<K(6)>>>>),
                     UpdateParent, ContactRemoved, DeshredParent>>,
        !.asks = <<[NoFilters EXCEPT !.slots = Named(1, [by |-> <<TRUE>>, inter |-> <<>>]),
                                     !.entry = Named(2, [update_parent |-> <<>>]),
                                     !.footer = Named(1, [certs |-> <<>>])],
                   [NoFilters EXCEPT
                       !.slots = [n \in {<<1>>, <<2>>} |->
                                    [by |-> <<>>, inter |-> <<n = <<1>>>>]],
                       !.entry = Named(1, [update_parent |-> <<TRUE>>]),
                       !.meta = Named(1, 0), !.commitment = <<1>>,
                       !.footer = [n \in {<<1>>, <<2>>} |-> [certs |-> <<n = <<1>>>>]]]>>])

\* A dead slot: the Limited parser reads its error from the wrong place (FilterDeadError.cfg).
DeadWires ==
    EachParser([Simple EXCEPT !.script = <<Slot("Dead", <<0>>)>>,
        !.asks = <<[NoFilters EXCEPT !.slots = Named(1, [by |-> <<>>, inter |-> <<TRUE>>])]>>])

BlockScript ==
    <<Account(5, 6, 3, <<2, 1>>, <<>>, 1, 20), Account(8, 6, 0, <<>>, <<Sig(4)>>, 4, 3),
      Sent(4, 0, V1(<<K(5)>>), NoMeta(<<>>, <<>>), 3), Entry(0, 1), Meta, WholeBlock>>
BlockAsks ==
    <<AskBlocks([AnyBlock EXCEPT !.accounts = <<TRUE>>, !.entries = <<TRUE>>]),
      AskBlocks([AnyBlock EXCEPT !.include = Keys(<<5>>), !.accounts = <<TRUE>>]),
      AskBlocks([AnyBlock EXCEPT !.include = Keys(<<8>>), !.transactions = <<TRUE>>,
                                 !.accounts = <<FALSE>>]),
      [AskBlocks([AnyBlock EXCEPT !.accounts = <<TRUE>>, !.transactions = <<FALSE>>])
         EXCEPT !.slices = <<[offset |-> 0, length |-> 1]>>],
      AskBlocks([AnyBlock EXCEPT !.entries = <<TRUE>>, !.transactions = <<FALSE>>])>>
BlockWires == EachParser([Simple EXCEPT !.script = BlockScript, !.asks = BlockAsks])
NoParts ==
    [Simple EXCEPT !.script = BlockScript, !.asks = BlockAsks,
        !.limits.blocks.accounts = FALSE, !.limits.blocks.entries = FALSE]
EntriesForbidden == [NoParts EXCEPT !.limits.blocks.accounts = TRUE]

\* Clients that share bodies, a cache of two messages that holds the bytes of about one.
Sharing ==
    [Simple EXCEPT !.clients = {"c1", "c2", "c3"},
        !.script = <<Account(5, 6, 0, <<2, 1>>, <<>>, 1, 3), FooterOf(FastFooter),
                     Account(6, 6, 0, <<2>>, <<>>, 1, 3)>>,
        !.asks = <<AskSliced(<<<<0, 1>>>>), AskSliced(<<<<1, 1>>>>),
                   [AskAccounts(Named(2, AnyAccount)) EXCEPT
                      !.footer = [n \in {<<1>>, <<2>>} |-> [certs |-> <<n = <<1>>>>]]]>>]

\* Requests at the limits of the server.
Limited ==
    [Simple EXCEPT !.limits.accounts.any = FALSE, !.limits.accounts.account_max = 1,
        !.limits.accounts.owner_reject = {K(7)}, !.limits.transactions.any = FALSE,
        !.limits.name_max = 1, !.limits.blocks.include_any = FALSE,
        !.script = BlockScript,
        !.asks = AccountAsks \o TransactionAsks \o BlockAsks]

MCScenarios ==
    AccountWires \o TransactionWires \o OtherWires \o BlockWires \o
    SubSeq(DeadWires, 3, 4) \o <<NoParts, Sharing, Limited>>
MCDead == SubSeq(DeadWires, 1, 2)
MCForbidden == <<EntriesForbidden>>
=============================================================================
