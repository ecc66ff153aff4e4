------------------------------ MODULE Protobuf ------------------------------
(***************************************************************************)
(* The protobuf wire as the filter crate and the plugin use it: varints,   *)
(* fields, the scan of a buffer into fields, and the encoding that prost   *)
(* derives from a message type.  A buffer is a sequence of cells; offsets  *)
(* count from 0, as in the code.                                           *)
(*                                                                         *)
(* A varint digit holds Base values (128 on the wire; small here, so that  *)
(* lengths change their width), a key is one cell, and keys and signatures *)
(* have PubkeyBytes and SignatureBytes cells.                              *)
(***************************************************************************)
EXTENDS Integers, Sequences, SequencesExt, FiniteSetsExt

CONSTANTS Base, PubkeyBytes, SignatureBytes

ASSUME ProtobufAssumption ==
    /\ Base \in Nat \ {0, 1}
    /\ PubkeyBytes \in Nat \ {0} /\ SignatureBytes \in Nat \ {0}

MaxVarint == 10

\* The function f itself, which TLC then computes once.
Table(f) == f @@ <<>>
Concat(seqs) == FlattenSeq(Table(seqs))
\* Of a sequence, or of an option: <<>> or <<value>>.
Each(seq, Op(_)) == Table([i \in DOMAIN seq |-> Op(seq[i])])

-----------------------------------------------------------------------------
(* prost::encoding *)

\* encoded_len_varint, encode_varint
VarintLen(n) ==
    CHOOSE k \in 1 .. MaxVarint : n < Base ^ k /\ (k = 1 \/ n >= Base ^ (k - 1))
Varint(n) ==
    [i \in 1 .. VarintLen(n) |->
        ((n \div Base ^ (i - 1)) % Base) + (IF i < VarintLen(n) THEN Base ELSE 0)]

\* decode_varint at an offset: the value, and the offset after it.
VarintEnd(buf, at) ==
    CHOOSE k \in at + 1 .. Len(buf) : buf[k] < Base /\ \A j \in at + 1 .. k - 1 : buf[j] >= Base
VarintIn(buf, at, end) ==
    [value |-> MapThenSumSet(LAMBDA k : (buf[k] % Base) * Base ^ (k - at - 1), at + 1 .. end),
     next |-> end]
VarintAt(buf, at) == VarintIn(buf, at, VarintEnd(buf, at))
HasVarint(buf, at) == \E k \in at + 1 .. Len(buf) : buf[k] < Base

Slice(buf, r) == SubSeq(buf, r.start + 1, r.end)
Shift(r, by) == [start |-> r.start + by, end |-> r.end + by]

\* encode_key with the two wire types in use, uint64/bool::encode, bytes_encode of
\* protobuf/mod.rs; a message in a field has the length that its encoded_len() says.
VarintWire == 0
DelimitedWire == 2
Key(tag, wire) == <<tag * 8 + wire>>
Num(tag, n) == Key(tag, VarintWire) \o Varint(n)
Bytes(tag, b) == Key(tag, DelimitedWire) \o Varint(Len(b)) \o b
Delimited(tag, len, raw) == Key(tag, DelimitedWire) \o Varint(len) \o raw

-----------------------------------------------------------------------------
(* LimitedDecode::decode: the fields of a part of a buffer, in order *)

Broken == [tag |-> 0, wire |-> 0, at |-> 0, start |-> 0, end |-> 0, value |-> 0]

\* One field: decode_key, check of the wire type, and the length against what remains.
FieldOf(key, at, v) ==
    [tag |-> key \div 8, wire |-> key % 8, at |-> at, start |-> v.next,
     end |-> v.next + IF key % 8 = DelimitedWire THEN v.value ELSE 0, value |-> v.value]
FieldAt(buf, at) ==
    IF HasVarint(buf, at + 1) THEN FieldOf(buf[at + 1], at + 1, VarintAt(buf, at + 1))
    ELSE Broken
ThenRest(f, rest, limit) ==
    IF f = Broken \/ f.end > limit THEN <<Broken>> ELSE <<f>> \o rest[f.end]

Fields(buf, r) ==
    LET scan[at \in r.start .. r.end] ==
            IF at = r.end THEN <<>> ELSE ThenRest(FieldAt(buf, at), scan, r.end)
    IN  scan[r.start]

WellFormed(fields) == \A i \in DOMAIN fields : fields[i] # Broken
Tagged(fields, tag) == SelectSeq(fields, LAMBDA f : f.tag = tag)
Has(fields, tag) == Tagged(fields, tag) # <<>>
LastOf(fields, tag) == Last(Tagged(fields, tag))
RangeOf(field) == [start |-> field.start, end |-> field.end]
Whole(buf) == [start |-> 0, end |-> Len(buf)]

\* merge of a plain and of an optional number.
NumIn(fields, tag) == IF Has(fields, tag) THEN LastOf(fields, tag).value ELSE 0
OptIn(fields, tag) == IF Has(fields, tag) THEN <<LastOf(fields, tag).value>> ELSE <<>>

-----------------------------------------------------------------------------
(* The messages of the .proto files.  A field is of kind num, opt          *)
(* (optional number), bytes, optbytes, list (repeated bytes), packed       *)
(* (repeated number), msg (message, an option) or msgs (repeated message)  *)
(* of the type `of`.  An encoder written by hand also has always (bytes),  *)
(* whenzero and versioned (numbers), decimal (the digits of an optional    *)
(* number), one (a message), and of an option of a sequence optlist,       *)
(* optmsgs and, for its absence, none.                                     *)

Field(name, tag, kind, of) == [name |-> name, tag |-> tag, kind |-> kind, of |-> of]
N(name, tag) == Field(name, tag, "num", "")
O(name, tag) == Field(name, tag, "opt", "")
B(name, tag) == Field(name, tag, "bytes", "")
Opt(name, tag) == Field(name, tag, "optbytes", "")
Listed(name, tag) == Field(name, tag, "list", "")
Packed(name, tag) == Field(name, tag, "packed", "")
Always(name, tag) == Field(name, tag, "always", "")
One(name, tag, of) == Field(name, tag, "one", of)
Msg(name, tag, of) == Field(name, tag, "msg", of)
Msgs(name, tag, of) == Field(name, tag, "msgs", of)

\* yellowstone/geyser.proto
GeyserTypes ==
    [Slot |-> <<N("slot", 1), O("parent", 2), N("status", 3),
                Opt("dead_error", 4), O("bank_id", 5)>>,
     AccountInfo |-> <<B("pubkey", 1), N("lamports", 2), B("owner", 3), N("executable", 4),
                       N("rent_epoch", 5), B("data", 6), N("write_version", 7),
                       Opt("txn_signature", 8)>>,
     Account |-> <<Msg("account", 1, "AccountInfo"), N("slot", 2),
                   N("is_startup", 3), O("bank_id", 4)>>,
     TxInfo |-> <<B("signature", 1), N("is_vote", 2), Msg("transaction", 3, "Tx"),
                  Msg("meta", 4, "Meta"), N("index", 5)>>,
     Transaction |-> <<Msg("transaction", 1, "TxInfo"), N("slot", 2),
                       N("bank_id", 3)>>,
     TransactionStatus |-> <<N("slot", 1), B("signature", 2), N("is_vote", 3), N("index", 4),
                             Msg("err", 5, "Error"), N("bank_id", 6)>>,
     Entry |-> <<N("slot", 1), N("index", 2), N("num_hashes", 3), B("hash", 4),
                 N("executed_transaction_count", 5), N("starting_transaction_index", 6),
                 N("bank_id", 7)>>,
     BlockMeta |-> <<N("slot", 1), B("blockhash", 2), Msg("rewards", 3, "Rewards"),
                     Msg("block_time", 4, "Timestamp"), Msg("block_height", 5, "Height"),
                     N("parent_slot", 6), B("parent_blockhash", 7),
                     N("executed_transaction_count", 8), N("entries_count", 9),
                     N("bank_id", 10)>>,
     Block |-> <<N("slot", 1), B("blockhash", 2), Msg("rewards", 3, "Rewards"),
                 Msg("block_time", 4, "Timestamp"), Msg("block_height", 5, "Height"),
                 Msgs("transactions", 6, "TxInfo"), N("parent_slot", 7),
                 B("parent_blockhash", 8), N("executed_transaction_count", 9),
                 N("updated_account_count", 10), Msgs("accounts", 11, "AccountInfo"),
                 N("entries_count", 12), Msgs("entries", 13, "Entry"),
                 N("bank_id", 14)>>,
     BlockFooter |-> <<N("slot", 1), N("bank_id", 2), B("bank_hash", 3),
                       N("block_producer_time_nanos", 4), B("block_user_agent", 5),
                       Msg("block_final_cert", 9, "FinalCert"),
                       Msg("skip_reward_cert", 10, "RewardCert"),
                       Msg("notar_reward_cert", 11, "RewardCert")>>,
     FinalCert |-> <<N("slot", 1), Msg("final_aggregate", 2, "Votes"),
                     Msg("notar_aggregate", 3, "Votes")>>,
     RewardCert |-> <<N("slot", 1), Msg("aggregate", 2, "Votes")>>,
     Votes |-> <<N("signature_kind", 1), B("signature", 2), B("block_id", 3),
                 B("signer_bitmap", 4)>>,
     EntryUpdateParent |-> <<N("slot", 1), N("cleared_bank_id", 2), N("parent_slot", 3),
                             B("parent_block_id", 4)>>,
     DeshredUpdateParent |-> <<N("slot", 1), N("update_parent_fec_set_index", 2),
                               N("parent_slot", 3), B("parent_block_id", 4)>>,
     DeshredTransaction |-> <<Msg("transaction", 1, "DeshredInfo"), N("slot", 2)>>,
     DeshredInfo |-> <<B("signature", 1), N("is_vote", 2), Msg("transaction", 3, "Tx"),
                       Listed("loaded_writable_addresses", 4),
                       Listed("loaded_readonly_addresses", 5),
                       N("completed_data_set_starting_shred_index", 6),
                       N("completed_data_set_ending_shred_index_exclusive", 7)>>,
     ContactInfoRemoved |-> <<B("pubkey", 1)>>,
     Ping |-> <<N("id", 1)>>]

\* yellowstone/solana-storage.proto; the amount of a UiTokenAmount as a double is left out.
StorageTypes ==
    [Tx |-> <<Listed("signatures", 1), Msg("message", 2, "TxMessage")>>,
     TxMessage |-> <<Msg("header", 1, "Header"), Listed("account_keys", 2),
                     B("recent_blockhash", 3), Msgs("instructions", 4, "Instruction"),
                     N("versioned", 5), Msgs("address_table_lookups", 6, "Lookup"),
                     Msg("config", 7, "TxConfig")>>,
     TxConfig |-> <<O("priority_fee", 1), O("compute_unit_limit", 2),
                    O("loaded_accounts_data_size_limit", 3), O("heap_size", 4)>>,
     Header |-> <<N("num_required_signatures", 1), N("num_readonly_signed_accounts", 2),
                  N("num_readonly_unsigned_accounts", 3)>>,
     Instruction |-> <<N("program_id_index", 1), B("accounts", 2), B("data", 3)>>,
     Lookup |-> <<B("account_key", 1), B("writable_indexes", 2), B("readonly_indexes", 3)>>,
     Meta |-> <<Msg("err", 1, "Error"), N("fee", 2), Packed("pre_balances", 3),
                Packed("post_balances", 4), Msgs("inner_instructions", 5, "InnerInstructions"),
                Listed("log_messages", 6), Msgs("pre_token_balances", 7, "TokenBalance"),
                Msgs("post_token_balances", 8, "TokenBalance"), Msgs("rewards", 9, "Reward"),
                N("inner_instructions_none", 10), N("log_messages_none", 11),
                Listed("loaded_writable_addresses", 12),
                Listed("loaded_readonly_addresses", 13), Msg("return_data", 14, "ReturnData"),
                N("return_data_none", 15), O("compute_units_consumed", 16),
                O("cost_units", 17)>>,
     Error |-> <<B("err", 1)>>,
     InnerInstructions |-> <<N("index", 1), Msgs("instructions", 2, "InnerInstruction")>>,
     InnerInstruction |-> <<N("program_id_index", 1), B("accounts", 2), B("data", 3),
                            O("stack_height", 4)>>,
     TokenBalance |-> <<N("account_index", 1), B("mint", 2),
                        Msg("ui_token_amount", 3, "UiTokenAmount"), B("owner", 4),
                        B("program_id", 5)>>,
     UiTokenAmount |-> <<N("decimals", 2), B("amount", 3), B("ui_amount_string", 4)>>,
     ReturnData |-> <<B("program_id", 1), B("data", 2)>>,
     Reward |-> <<B("pubkey", 1), N("lamports", 2), N("post_balance", 3), N("reward_type", 4),
                  B("commission", 5), B("commission_bps", 6)>>,
     Rewards |-> <<Msgs("rewards", 1, "Reward"), Msg("num_partitions", 2, "NumPartitions")>>,
     Timestamp |-> <<N("timestamp", 1)>>,
     Height |-> <<N("block_height", 1)>>,
     NumPartitions |-> <<N("num_partitions", 1)>>]

\* richat.proto
RichatTypes ==
    [RichatBlockFooter |-> <<N("slot", 1), N("bank_id", 2), N("version", 3), B("bank_hash", 4),
                             N("block_producer_time_nanos", 5), B("block_user_agent", 6),
                             B("footer", 7)>>]

\* A contact is a key, eight numbers and eleven addresses that may be absent: all of one kind.
Addresses ==
    <<"gossip", "tpu_quic", "tpu_forwards_quic", "tpu_vote_udp", "tpu_vote_quic", "tvu_udp",
      "tvu_quic", "serve_repair_udp", "serve_repair_quic", "rpc", "rpc_pubsub", "alpenglow">>
ContactInfo ==
    <<B("pubkey", 1), N("wallclock", 2), N("outset", 3), N("shred_version", 4),
      N("version_major", 5), N("version_minor", 6), N("version_patch", 7),
      N("version_commit", 8), N("version_feature_set", 9), N("version_client_id", 10)>>
    \o [i \in DOMAIN Addresses |-> Opt(Addresses[i], 10 + i)]

Schema == Table(GeyserTypes @@ StorageTypes @@ RichatTypes @@ [ContactInfo |-> ContactInfo])

\* The alternatives of update_oneof and their tags; the tags from 100 are richat's own.
OneofTag ==
    [Account |-> 2, Slot |-> 3, Transaction |-> 4, Block |-> 5, Ping |-> 6, BlockMeta |-> 7,
     Entry |-> 8, TransactionStatus |-> 10, BlockFooter |-> 12, EntryUpdateParent |-> 13]
CreatedAtTag == 11
RichatTag ==
    [DeshredTransaction |-> 100, ContactInfo |-> 101, ContactInfoRemoved |-> 102,
     BlockFooter |-> 103, EntryUpdateParent |-> 104, DeshredUpdateParent |-> 105]

\* What a field writes: a value equal to its default is left out, unless the encoder always
\* writes it.
Numbers == {"num", "opt", "whenzero", "versioned", "none"}
Messages == {"one", "msg", "msgs", "optmsgs"}
Decimal[n \in Nat] == (IF n < 10 THEN <<>> ELSE Decimal[n \div 10]) \o <<n % 10>>
UnlessDefault(x, default) == IF x = default THEN <<>> ELSE <<x>>
Written(kind, x) ==
    CASE kind = "num"                   -> UnlessDefault(x, 0)
      [] kind = "whenzero"              -> IF x = 0 THEN <<x>> ELSE <<>>
      [] kind \in {"bytes", "packed"}   -> UnlessDefault(x, <<>>)
      [] kind \in {"always", "one"}     -> <<x>>
      [] kind = "versioned"             -> IF x = "legacy" THEN <<>> ELSE <<1>>
      [] kind = "none"                  -> IF x = <<>> THEN <<1>> ELSE <<>>
      [] kind = "decimal"               -> Each(x, LAMBDA n : Decimal[n])
      [] kind \in {"optlist", "optmsgs"} -> FlattenSeq(x)
      [] OTHER                          -> x

\* Packed numbers: one varint after the other.
Varints(ns) == Concat([i \in DOMAIN ns |-> Varint(ns[i])])
NumbersIn(buf) ==
    LET ends == SetToSortSeq({k \in DOMAIN buf : buf[k] < Base}, <)
    IN  [i \in DOMAIN ends |->
            VarintIn(buf, IF i = 1 THEN 0 ELSE ends[i - 1], ends[i]).value]

\* encoded_len and encode_raw of a message type: an encoder has the fields of each type it
\* writes, and the fields of which it adds up the lengths.
RECURSIVE LengthOf(_, _, _)
PartLength(len) == 1 + VarintLen(len) + len
FieldLength(lengths, f, xs) ==
    MapThenSumSet(LAMBDA i :
        IF f.kind \in Numbers THEN 1 + VarintLen(xs[i])
        ELSE PartLength(IF f.kind \in Messages THEN LengthOf(lengths, f.of, xs[i])
                        ELSE IF f.kind = "packed" THEN Len(Varints(xs[i]))
                        ELSE Len(xs[i])),
        DOMAIN xs)
LengthOf(lengths, type, v) ==
    MapThenSumSet(LAMBDA f : FieldLength(lengths, f, Written(f.kind, v[f.name])),
                  ToSet(lengths[type]))

RECURSIVE EncodeBy(_, _, _, _)
EncodeField(writers, lengths, f, xs) ==
    Concat([i \in DOMAIN xs |->
        IF f.kind \in Numbers THEN Num(f.tag, xs[i])
        ELSE IF f.kind \in Messages
        THEN Delimited(f.tag, LengthOf(lengths, f.of, xs[i]),
                       EncodeBy(writers, lengths, f.of, xs[i]))
        ELSE Bytes(f.tag, IF f.kind = "packed" THEN Varints(xs[i]) ELSE xs[i])])
EncodeBy(writers, lengths, type, v) ==
    Concat([i \in DOMAIN writers[type] |->
        EncodeField(writers, lengths, writers[type][i],
                    Written(writers[type][i].kind, v[writers[type][i].name]))])

\* The encoding that prost derives.
ProstEncode(type, v) == EncodeBy(Schema, Schema, type, v)

\* Message::decode: the value of a type in a part of a buffer.
RECURSIVE ProstDecode(_, _, _)
DecodeField(f, buf, fields, all) ==
    CASE f.kind = "num"      -> NumIn(fields, f.tag)
      [] f.kind = "opt"      -> OptIn(fields, f.tag)
      [] f.kind = "bytes"    -> IF all = <<>> THEN <<>> ELSE Slice(buf, RangeOf(Last(all)))
      [] f.kind = "optbytes" -> IF all = <<>> THEN <<>> ELSE <<Slice(buf, RangeOf(Last(all)))>>
      [] f.kind = "list"     -> [k \in DOMAIN all |-> Slice(buf, RangeOf(all[k]))]
      [] f.kind = "packed"   -> IF all = <<>> THEN <<>>
                                ELSE NumbersIn(Slice(buf, RangeOf(Last(all))))
      [] f.kind = "msg"      -> IF all = <<>> THEN <<>>
                                ELSE <<ProstDecode(f.of, buf, RangeOf(Last(all)))>>
      [] OTHER               -> [k \in DOMAIN all |-> ProstDecode(f.of, buf, RangeOf(all[k]))]
DecodeFields(defs, buf, fields) ==
    Table([n \in {f.name : f \in defs} |->
        DecodeField(CHOOSE f \in defs : f.name = n, buf, fields,
                    Tagged(fields, (CHOOSE f \in defs : f.name = n).tag))])
ProstDecode(type, buf, r) == DecodeFields(ToSet(Schema[type]), buf, Fields(buf, r))

RECURSIVE Decodable(_, _, _)
DecodableFields(defs, buf, fields) ==
    /\ WellFormed(fields)
    /\ \A i \in DOMAIN fields : \A f \in defs :
          f.tag = fields[i].tag /\ f.kind \in {"msg", "msgs"} =>
              Decodable(f.of, buf, RangeOf(fields[i]))
Decodable(type, buf, r) == DecodableFields(ToSet(Schema[type]), buf, Fields(buf, r))
=============================================================================
