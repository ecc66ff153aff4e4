----------------------------- MODULE Conversions -----------------------------
(***************************************************************************)
(* proto/src/convert_to.rs and convert_from.rs: values of the validator    *)
(* become protobuf messages, and messages become values again.             *)
(*                                                                         *)
(* A message of the validator is of a version, "legacy", "v0" or "v1";     *)
(* only a V0 has lookups, only a V1 has a config, and the lifetime of a V1 *)
(* is called recent_blockhash here.  An error is [err |-> its bincode].    *)
(* The floating amount of a token is left out.  Options are <<>> or        *)
(* <<value>>; the result of a fallible conversion is <<value>> or Refused. *)
(***************************************************************************)
EXTENDS Protobuf

\* The footers that the validator makes; wincode serializes one to a cell that names it.
CONSTANT Footers

Refused == <<>>
OrEmpty(option) == FlattenSeq(option)
Flag(b) == IF b THEN 1 ELSE 0
U8 == 0 .. 255

-----------------------------------------------------------------------------
(* convert_to *)

CreateMessage(m) ==
    [header |-> <<m.header>>, account_keys |-> m.account_keys,
     recent_blockhash |-> m.recent_blockhash, instructions |-> m.instructions,
     versioned |-> Flag(m.version # "legacy"),
     address_table_lookups |-> m.address_table_lookups, config |-> m.config]
CreateTransaction(tx) ==
    [signatures |-> tx.signatures, message |-> <<CreateMessage(tx.message)>>]

\* An absent commission is the empty text, an absent reward type is Unspecified.
CreateReward(r) ==
    [r EXCEPT !.reward_type = IF @ = <<>> THEN 0 ELSE @[1],
              !.commission = OrEmpty(Each(@, LAMBDA n : Decimal[n])),
              !.commission_bps = OrEmpty(Each(@, LAMBDA n : Decimal[n]))]
CreateRewards(rs) == Each(rs, LAMBDA r : CreateReward(r))
CreateNumPartitions(n) == [num_partitions |-> n]
CreateRewardsObj(r) ==
    [rewards |-> CreateRewards(r.rewards),
     num_partitions |-> Each(r.num_partitions, LAMBDA n : CreateNumPartitions(n))]
CreateTimestamp(t) == [timestamp |-> t]
CreateBlockHeight(h) == [block_height |-> h]

CreateTokenBalances(bs) == Each(bs, LAMBDA b : [b EXCEPT !.ui_token_amount = <<@>>])

\* An absent list is an empty one; for three of them a flag tells.
CreateMeta(meta) ==
    [err |-> meta.status, fee |-> meta.fee,
     pre_balances |-> meta.pre_balances, post_balances |-> meta.post_balances,
     inner_instructions |-> OrEmpty(meta.inner_instructions),
     inner_instructions_none |-> Flag(meta.inner_instructions = <<>>),
     log_messages |-> OrEmpty(meta.log_messages),
     log_messages_none |-> Flag(meta.log_messages = <<>>),
     pre_token_balances |-> CreateTokenBalances(OrEmpty(meta.pre_token_balances)),
     post_token_balances |-> CreateTokenBalances(OrEmpty(meta.post_token_balances)),
     rewards |-> CreateRewards(OrEmpty(meta.rewards)),
     loaded_writable_addresses |-> meta.loaded_writable_addresses,
     loaded_readonly_addresses |-> meta.loaded_readonly_addresses,
     return_data |-> meta.return_data,
     return_data_none |-> Flag(meta.return_data = <<>>),
     compute_units_consumed |-> meta.compute_units_consumed, cost_units |-> meta.cost_units]

\* BlockFooterSignatureKind has one value, 0.
CreateVotes(votes, block_id) ==
    [signature_kind |-> 0, signature |-> votes.signature, block_id |-> block_id,
     signer_bitmap |-> votes.signer_bitmap]
\* Fast finalization: the final votes alone, on the block.  Slow finalization: the final votes
\* on the slot, the notarization votes on the block.
CreateFinalCert(c) ==
    [slot |-> c.slot,
     final_aggregate |->
         <<CreateVotes(c.final_aggregate, IF c.notar_aggregate = <<>> THEN c.block_id ELSE <<>>)>>,
     notar_aggregate |-> Each(c.notar_aggregate, LAMBDA votes : CreateVotes(votes, c.block_id))]
CreateRewardCert(c, block_id) ==
    [slot |-> c.slot, aggregate |-> <<CreateVotes(c, block_id)>>]
CreateBlockFooter(slot, bank_id, footer) ==
    [slot |-> slot, bank_id |-> bank_id, bank_hash |-> footer.bank_hash,
     block_producer_time_nanos |-> footer.block_producer_time_nanos,
     block_user_agent |-> footer.block_user_agent,
     block_final_cert |-> Each(footer.block_final_cert, LAMBDA c : CreateFinalCert(c)),
     skip_reward_cert |-> Each(footer.skip_reward_cert, LAMBDA c : CreateRewardCert(c, <<>>)),
     notar_reward_cert |->
         Each(footer.notar_reward_cert, LAMBDA c : CreateRewardCert(c, c.block_id))]

\* wincode::serialize, deserialize.
Wincode(footer) == <<CHOOSE i \in DOMAIN Footers : Footers[i] = footer>>
CreateBlockFooterFromWincode(slot, bank_id, bytes) ==
    IF Len(bytes) = 1 /\ bytes[1] \in DOMAIN Footers
    THEN <<CreateBlockFooter(slot, bank_id, Footers[bytes[1]])>> ELSE Refused

-----------------------------------------------------------------------------
(* convert_from *)

IsKey(b) == Len(b) = PubkeyBytes
AreKeys(bs) == \A i \in DOMAIN bs : IsKey(bs[i])

\* `versioned` is true for both V0 and V1: `config` is all that separates them on the wire.
\* Mutant: the flag is looked at first.
VersionByFlag(m) ==
    IF m.versioned # 0 THEN "v0" ELSE IF m.config # <<>> THEN "v1" ELSE "legacy"
VersionOf(m) ==
    IF m.config # <<>> THEN "v1" ELSE IF m.versioned # 0 THEN "v0" ELSE "legacy"

MessageOk(m) ==
    /\ m.header # <<>> /\ Range(m.header[1]) \subseteq U8
    /\ Len(m.recent_blockhash) = PubkeyBytes  \* HASH_BYTES
    /\ AreKeys(m.account_keys)
    /\ \A i \in DOMAIN m.instructions : m.instructions[i].program_id_index \in U8
    /\ VersionOf(m) = "v0" =>
          \A i \in DOMAIN m.address_table_lookups : IsKey(m.address_table_lookups[i].account_key)
FromMessage(m) ==
    [version |-> VersionOf(m), header |-> m.header[1], account_keys |-> m.account_keys,
     recent_blockhash |-> m.recent_blockhash, instructions |-> m.instructions,
     address_table_lookups |-> IF VersionOf(m) = "v0" THEN m.address_table_lookups ELSE <<>>,
     config |-> IF VersionOf(m) = "v1" THEN m.config ELSE <<>>]

TransactionOk(tx) ==
    /\ \A i \in DOMAIN tx.signatures : Len(tx.signatures[i]) = SignatureBytes
    /\ tx.message # <<>> /\ MessageOk(tx.message[1])
FromTransaction(tx) ==
    [signatures |-> tx.signatures, message |-> FromMessage(tx.message[1])]

RewardOk(r) == r.reward_type \in 0 .. 6
Parsed(text) == MapThenSumSet(LAMBDA i : text[i] * 10 ^ (Len(text) - i), DOMAIN text)
FromReward(r) ==
    [r EXCEPT !.reward_type = UnlessDefault(@, 0),
              !.commission = Each(UnlessDefault(@, <<>>), LAMBDA t : Parsed(t)),
              !.commission_bps = Each(UnlessDefault(@, <<>>), LAMBDA t : Parsed(t))]
FromRewards(rs) == Each(rs, LAMBDA r : FromReward(r))

TokenBalancesOk(bs) ==
    \A i \in DOMAIN bs : /\ bs[i].ui_token_amount # <<>> /\ bs[i].account_index \in U8
                         /\ bs[i].ui_token_amount[1].decimals \in U8
FromTokenBalances(bs) == Each(bs, LAMBDA b : [b EXCEPT !.ui_token_amount = @[1]])

\* Every list is present in the result: of the three flags only return_data_none is read.
MetaOk(m) ==
    /\ \A i \in DOMAIN m.rewards : RewardOk(m.rewards[i])
    /\ \A i \in DOMAIN m.inner_instructions :
          /\ m.inner_instructions[i].index \in U8
          /\ \A k \in DOMAIN m.inner_instructions[i].instructions :
                m.inner_instructions[i].instructions[k].program_id_index \in U8
    /\ TokenBalancesOk(m.pre_token_balances) /\ TokenBalancesOk(m.post_token_balances)
    /\ AreKeys(m.loaded_writable_addresses) /\ AreKeys(m.loaded_readonly_addresses)
    /\ m.return_data_none = 0 => m.return_data # <<>> /\ IsKey(m.return_data[1].program_id)
FromMeta(m) ==
    [status |-> m.err, fee |-> m.fee,
     pre_balances |-> m.pre_balances, post_balances |-> m.post_balances,
     inner_instructions |-> <<m.inner_instructions>>, log_messages |-> <<m.log_messages>>,
     pre_token_balances |-> <<FromTokenBalances(m.pre_token_balances)>>,
     post_token_balances |-> <<FromTokenBalances(m.post_token_balances)>>,
     rewards |-> <<FromRewards(m.rewards)>>,
     loaded_writable_addresses |-> m.loaded_writable_addresses,
     loaded_readonly_addresses |-> m.loaded_readonly_addresses,
     return_data |-> IF m.return_data_none # 0 THEN <<>> ELSE m.return_data,
     compute_units_consumed |-> m.compute_units_consumed, cost_units |-> m.cost_units]

\* create_tx_with_meta
TxWithMeta(info) ==
    IF /\ info.meta # <<>> /\ info.transaction # <<>>
       /\ TransactionOk(info.transaction[1]) /\ MetaOk(info.meta[1])
    THEN <<[transaction |-> FromTransaction(info.transaction[1]),
            meta |-> FromMeta(info.meta[1])]>>
    ELSE Refused
=============================================================================
