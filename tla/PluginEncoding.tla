--------------------------- MODULE PluginEncoding ---------------------------
(***************************************************************************)
(* plugin-agave/src/protobuf: the two encoders of the plugin.  Prost goes  *)
(* through the generated types; Raw writes the fields of each notification *)
(* by hand and computes their lengths by hand, and those lengths become    *)
(* the prefixes of the nested messages.                                    *)
(*                                                                         *)
(* A notification is [kind, v], v the validator's value; created is the    *)
(* encoded timestamp.                                                      *)
(***************************************************************************)
EXTENDS Filter

-----------------------------------------------------------------------------
(* The values that either encoder computes first *)

\* slot_status_as_i32, slot_status_as_dead_error
SlotStatusAsI32(status) ==
    CASE status = "Processed" -> 0 [] status = "Rooted" -> 2 [] status = "Confirmed" -> 1
      [] status = "FirstShredReceived" -> 3 [] status = "Completed" -> 4
      [] status = "CreatedBank" -> 5 [] status = "Dead" -> 6
DeadError(v) == IF v.status = "Dead" THEN <<v.error>> ELSE <<>>

\* BlockFooterView
BlockFooterView(v) ==
    [slot |-> v.slot, bank_id |-> v.bank_id, version |-> 1,
     bank_hash |-> v.block_footer.bank_hash,
     block_producer_time_nanos |-> v.block_footer.block_producer_time_nanos,
     block_user_agent |-> v.block_footer.block_user_agent, footer |-> Wincode(v.block_footer)]

-----------------------------------------------------------------------------
(* encoding/: what encode_raw writes of each type.  Keys, signatures and   *)
(* hashes are written whatever they are, and is_startup never is.          *)

RawSlot == <<N("slot", 1), O("parent", 2), N("status", 3), Opt("dead_error", 4), O("bank_id", 5)>>

RawAccountInfo ==
    <<Always("pubkey", 1), N("lamports", 2), Always("owner", 3), N("executable", 4),
      N("rent_epoch", 5), B("data", 6), N("write_version", 7), Opt("txn_signature", 8)>>
RawAccount == <<One("account", 1, "AccountInfo"), N("slot", 2), O("bank_id", 4)>>

RawHeader ==
    <<N("num_required_signatures", 1), N("num_readonly_signed_accounts", 2),
      N("num_readonly_unsigned_accounts", 3)>>
RawInstruction == <<N("program_id_index", 1), B("accounts", 2), B("data", 3)>>
RawLookup == <<Always("account_key", 1), B("writable_indexes", 2), B("readonly_indexes", 3)>>
RawConfig ==
    <<O("priority_fee", 1), O("compute_unit_limit", 2),
      O("loaded_accounts_data_size_limit", 3), O("heap_size", 4)>>
RawMessage ==
    <<One("header", 1, "Header"), Listed("account_keys", 2), Always("recent_blockhash", 3),
      Msgs("instructions", 4, "Instruction"), Field("version", 5, "versioned", ""),
      Msgs("address_table_lookups", 6, "Lookup"), Msg("config", 7, "TxConfig")>>
RawTx == <<Listed("signatures", 1), One("message", 2, "TxMessage")>>

RawError == <<B("err", 1)>>
RawInnerInstruction == RawInstruction \o <<O("stack_height", 4)>>
RawInnerInstructions == <<N("index", 1), Msgs("instructions", 2, "InnerInstruction")>>
RawUiTokenAmount == <<N("decimals", 2), B("amount", 3), B("ui_amount_string", 4)>>
RawTokenBalance ==
    <<N("account_index", 1), B("mint", 2), One("ui_token_amount", 3, "UiTokenAmount"),
      B("owner", 4), B("program_id", 5)>>
RawReturnData == <<Always("program_id", 1), B("data", 2)>>
RawReward ==
    <<B("pubkey", 1), N("lamports", 2), N("post_balance", 3), O("reward_type", 4),
      Field("commission", 5, "decimal", ""), Field("commission_bps", 6, "decimal", "")>>
RawMeta ==
    <<Msg("status", 1, "Error"), N("fee", 2), Packed("pre_balances", 3),
      Packed("post_balances", 4),
      Field("inner_instructions", 5, "optmsgs", "InnerInstructions"),
      Field("log_messages", 6, "optlist", ""),
      Field("pre_token_balances", 7, "optmsgs", "TokenBalance"),
      Field("post_token_balances", 8, "optmsgs", "TokenBalance"),
      Field("rewards", 9, "optmsgs", "Reward"),
      Field("inner_instructions", 10, "none", ""), Field("log_messages", 11, "none", ""),
      Listed("loaded_writable_addresses", 12), Listed("loaded_readonly_addresses", 13),
      Msg("return_data", 14, "ReturnData"), Field("return_data", 15, "none", ""),
      O("compute_units_consumed", 16), O("cost_units", 17)>>
RawTxInfo ==
    <<Always("signature", 1), N("is_vote", 2), One("transaction", 3, "Tx"),
      One("meta", 4, "Meta"), N("index", 5)>>
RawTransaction == <<One("transaction", 1, "TxInfo"), N("slot", 2), N("bank_id", 3)>>

RawDeshredInfo ==
    <<Always("signature", 1), N("is_vote", 2), One("transaction", 3, "Tx"),
      Field("loaded_writable_addresses", 4, "optlist", ""),
      Field("loaded_readonly_addresses", 5, "optlist", ""),
      N("completed_data_set_starting_shred_index", 6),
      N("completed_data_set_ending_shred_index_exclusive", 7)>>
RawDeshredTransaction == <<One("transaction", 1, "DeshredInfo"), N("slot", 2)>>

RawEntry ==
    <<N("slot", 1), N("index", 2), N("num_hashes", 3), Always("hash", 4),
      N("executed_transaction_count", 5), N("starting_transaction_index", 6), N("bank_id", 7)>>
RawRewards == <<Msgs("rewards", 1, "Reward"), Msg("num_partitions", 2, "NumPartitions")>>
RawBlockMeta ==
    <<N("slot", 1), B("blockhash", 2), One("rewards", 3, "Rewards"),
      Msg("block_time", 4, "Timestamp"), Msg("block_height", 5, "Height"), N("parent_slot", 6),
      B("parent_blockhash", 7), N("executed_transaction_count", 8), N("entries_count", 9),
      N("bank_id", 10)>>
RawBlockFooter ==
    <<N("slot", 1), N("bank_id", 2), N("version", 3), Always("bank_hash", 4),
      N("block_producer_time_nanos", 5), B("block_user_agent", 6), B("footer", 7)>>
RawEntryUpdateParent ==
    <<N("slot", 1), N("cleared_bank_id", 2), N("parent_slot", 3), Always("parent_block_id", 4)>>
RawDeshredUpdateParent ==
    <<N("slot", 1), N("update_parent_fec_set_index", 2), N("parent_slot", 3),
      Always("parent_block_id", 4)>>
RawContactInfo ==
    <<B("pubkey", 1)>>
    \o [i \in 1 .. 9 |-> N(ContactInfo[i + 1].name, i + 1)]
    \o [i \in DOMAIN Addresses |-> Opt(Addresses[i], i + 10)]
RawContactInfoRemoved == <<B("pubkey", 1)>>

RawWriters ==
    Table([Slot |-> RawSlot, AccountInfo |-> RawAccountInfo, Account |-> RawAccount,
           Header |-> RawHeader, Instruction |-> RawInstruction, Lookup |-> RawLookup,
           TxConfig |-> RawConfig, TxMessage |-> RawMessage, Tx |-> RawTx, Error |-> RawError,
           InnerInstruction |-> RawInnerInstruction,
           InnerInstructions |-> RawInnerInstructions, UiTokenAmount |-> RawUiTokenAmount,
           TokenBalance |-> RawTokenBalance, ReturnData |-> RawReturnData,
           Reward |-> RawReward, Meta |-> RawMeta, TxInfo |-> RawTxInfo,
           Transaction |-> RawTransaction, DeshredInfo |-> RawDeshredInfo,
           DeshredTransaction |-> RawDeshredTransaction, Entry |-> RawEntry,
           Rewards |-> RawRewards, BlockMeta |-> RawBlockMeta, BlockFooter |-> RawBlockFooter,
           EntryUpdateParent |-> RawEntryUpdateParent,
           DeshredUpdateParent |-> RawDeshredUpdateParent, ContactInfo |-> RawContactInfo,
           ContactInfoRemoved |-> RawContactInfoRemoved,
           Timestamp |-> Schema.Timestamp, Height |-> Schema.Height,
           NumPartitions |-> Schema.NumPartitions])
\* Mutant: a field is written and not counted.
RawLengthsNoSignature ==
    [RawWriters EXCEPT !.AccountInfo = SelectSeq(@, LAMBDA f : f.name # "txn_signature")]
\* Their encoded_len adds up the same fields.
RawLengths == RawWriters

\* The error of a transaction is serialized by encoded_len, into a buffer that the thread
\* keeps (BUFFER), and encode_raw writes what the buffer holds.
ErrorOf(n) == IF n.kind = "Transaction" THEN n.v.transaction.meta.status ELSE <<>>

\* Mutant: the buffer is not cleared first.
BufferAppended(n, buffer) == buffer \o Concat(Each(ErrorOf(n), LAMBDA e : e.err))

BufferAfterLength(n, buffer) == IF ErrorOf(n) = <<>> THEN buffer ELSE ErrorOf(n)[1].err

\* The value whose fields are written: what encode_raw computes of the validator's.
RawValue(n, buffer) ==
    CASE n.kind = "Slot" ->
            [n.v EXCEPT !.status = SlotStatusAsI32(@)] @@ [dead_error |-> DeadError(n.v)]
      [] n.kind = "BlockMeta" ->
            [n.v EXCEPT !.block_time = Each(@, LAMBDA t : CreateTimestamp(t)),
                        !.block_height = Each(@, LAMBDA h : CreateBlockHeight(h)),
                        !.rewards.num_partitions = Each(@, LAMBDA p : CreateNumPartitions(p))]
      [] n.kind = "BlockFooter" -> BlockFooterView(n.v)
      [] n.kind = "Transaction" ->
            [n.v EXCEPT !.transaction.meta.status =
                            Each(@, LAMBDA e : [err |-> BufferAfterLength(n, buffer)])]
      [] OTHER -> n.v

\* Tags: a richat-only notification goes after created_at, as prost orders fields.
PluginTag(kind) == IF kind \in DOMAIN RichatTag THEN RichatTag[kind] ELSE OneofTag[kind]
Ordered(tag, field, created) ==
    IF tag < CreatedAtTag THEN field \o Bytes(CreatedAtTag, created)
    ELSE Bytes(CreatedAtTag, created) \o field

\* ProtobufMessage::encode_raw, on a thread whose buffer holds an earlier error.
EncodeRaw(n, created, buffer) ==
    LET value == RawValue(n, buffer)
    IN  Ordered(PluginTag(n.kind),
                Delimited(PluginTag(n.kind), LengthOf(RawLengths, n.kind, value),
                          EncodeBy(RawWriters, RawLengths, n.kind, value)), created)

-----------------------------------------------------------------------------
(* ProtobufMessage::encode_prost *)

\* The statuses of geyser.proto, from 0; a rooted slot is a finalized one.
ProstSlotStatus ==
    <<"Processed", "Confirmed", "Rooted", "FirstShredReceived", "Completed", "CreatedBank",
      "Dead">>
ProstType(kind) == IF kind = "BlockFooter" THEN "RichatBlockFooter" ELSE kind
ProstOf(kind, v) ==
    CASE kind = "Slot" ->
            [slot |-> v.slot, parent |-> v.parent, bank_id |-> v.bank_id,
             status |-> (CHOOSE i \in DOMAIN ProstSlotStatus : ProstSlotStatus[i] = v.status) - 1,
             dead_error |-> DeadError(v)]
      [] kind = "Account" ->
            [account |-> <<v.account>>, slot |-> v.slot, is_startup |-> 0,
             bank_id |-> v.bank_id]
      [] kind = "Transaction" ->
            [v EXCEPT !.transaction =
                <<[@ EXCEPT !.transaction = <<CreateTransaction(@)>>,
                            !.meta = <<CreateMeta(@)>>]>>]
      [] kind = "BlockMeta" ->
            [v EXCEPT !.rewards = <<CreateRewardsObj(@)>>,
                      !.block_time = Each(@, LAMBDA t : CreateTimestamp(t)),
                      !.block_height = Each(@, LAMBDA h : CreateBlockHeight(h))]
      [] kind = "DeshredTransaction" ->
            [v EXCEPT !.transaction =
                <<[@ EXCEPT !.transaction = <<CreateTransaction(@)>>,
                            !.loaded_writable_addresses = OrEmpty(@),
                            !.loaded_readonly_addresses = OrEmpty(@)]>>]
      [] kind = "BlockFooter" -> BlockFooterView(v)
      [] OTHER -> v  \* Entry, ContactInfo, ContactInfoRemoved, the two updates of a parent
EncodeProst(n, created) ==
    Ordered(PluginTag(n.kind),
            Bytes(PluginTag(n.kind), ProstEncode(ProstType(n.kind), ProstOf(n.kind, n.v))),
            created)

\* ProtobufMessage::encode, on a thread that encoded nothing before: EncodersAgree says
\* that on no other thread it comes out differently.
PluginEncode(n, encoder, created) ==
    IF encoder = "Raw" THEN EncodeRaw(n, created, <<>>) ELSE EncodeProst(n, created)
=============================================================================
