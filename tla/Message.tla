------------------------------ MODULE Message -------------------------------
(***************************************************************************)
(* filter/src/message.rs and filter/src/protobuf/decode.rs: a message is   *)
(* parsed from its wire in one of two ways.  Limited keeps the buffer and  *)
(* the offsets of what filters need; Prost decodes everything.  Whatever   *)
(* the parser, the accessors below are what the rest of the server reads.  *)
(*                                                                         *)
(* A parse gives <<message>>, or <<>> for a MessageParseError.             *)
(***************************************************************************)
EXTENDS Conversions

Parser == {"Limited", "Prost"}

\* SlotStatus::try_from
SlotStatus == 0 .. 6
Processed == 0
Confirmed == 1
Finalized == 2

-----------------------------------------------------------------------------
(* MessageParserLimited: offsets are relative to the part that was decoded *)
(* and are shifted to the whole buffer.                                    *)

\* decode_pubkey: an absent key stays the default, one of another length is an error.
GoodKeys(fields, tag) ==
    \A i \in DOMAIN fields :
       fields[i].tag = tag => fields[i].end - fields[i].start = PubkeyBytes
GoodSignature(fields, tag) ==
    \A i \in DOMAIN fields :
       fields[i].tag = tag => fields[i].end - fields[i].start = SignatureBytes
KeyIn(buf, fields, tag) ==
    IF Has(fields, tag) THEN Slice(buf, RangeOf(LastOf(fields, tag)))
    ELSE [i \in 1 .. PubkeyBytes |-> 0]
KeysIn(buf, fields, tag) ==
    {Slice(buf, RangeOf(fields[i])) : i \in {k \in DOMAIN fields : fields[k].tag = tag}}

NonzeroBankId(n) == IF n = 0 THEN <<>> ELSE <<n>>

PartOf(buf, r) == Fields(Slice(buf, r), [start |-> 0, end |-> r.end - r.start])
SubOf(buf, outer, tag) ==
    IF Has(outer, tag) THEN Fields(buf, RangeOf(LastOf(outer, tag))) ELSE <<>>
LastOrDefault(fields, tag) == IF Has(fields, tag) THEN LastOf(fields, tag) ELSE Broken

LimitedSlot(buf, r, created) ==
    LET fields == PartOf(buf, r)
    IN  IF ~WellFormed(fields) \/ NumIn(fields, 3) \notin SlotStatus THEN Refused
        ELSE <<[kind |-> "Slot", enc |-> "Limited", created |-> created, buf |-> buf, range |-> r,
                slot |-> NumIn(fields, 1), parent |-> OptIn(fields, 2),
                status |-> NumIn(fields, 3), bank_id |-> OptIn(fields, 5),
                dead_error |-> IF Has(fields, 4) THEN <<RangeOf(LastOf(fields, 4))>>
                               ELSE <<>>]>>

\* The defaults of UpdateOneofLimitedDecodeAccount: an absent data range or write_version
\* is at offset 0 of the account's part.
LimitedAccount(buf, r, created) ==
    LET sub == Slice(buf, r)
        fields == PartOf(buf, r)
        inner == SubOf(sub, fields, 1)
    IN  IF \/ ~WellFormed(fields) \/ ~Has(fields, 1) \/ ~WellFormed(inner)
           \/ ~GoodKeys(inner, 1) \/ ~GoodKeys(inner, 3) \/ ~GoodSignature(inner, 8)
        THEN Refused
        ELSE <<[kind |-> "Account", enc |-> "Limited", created |-> created,
                buf |-> buf, range |-> r,
                pubkey |-> KeyIn(sub, inner, 1), owner |-> KeyIn(sub, inner, 3),
                lamports |-> NumIn(inner, 2), executable |-> NumIn(inner, 4),
                rent_epoch |-> NumIn(inner, 5),
                data |-> Shift(RangeOf(LastOrDefault(inner, 6)), r.start),
                write_version |-> LastOrDefault(inner, 7).at + r.start,
                txn_signature |-> IF Has(inner, 8) THEN <<LastOf(inner, 8).start + r.start>>
                                  ELSE <<>>,
                slot |-> NumIn(fields, 2), is_startup |-> NumIn(fields, 3),
                bank_id |-> OptIn(fields, 4),
                account_offset |-> LastOf(fields, 1).at + r.start]>>

LimitedTransaction(buf, r, created) ==
    LET fields == PartOf(buf, r)
        txr == Shift(RangeOf(LastOf(fields, 1)), r.start)
        info == Slice(buf, txr)
        part == PartOf(buf, txr)
        tx == SubOf(info, part, 3)
        message == SubOf(info, tx, 2)
        meta == SubOf(info, part, 4)
    IN  IF ~WellFormed(fields) \/ ~Has(fields, 1) THEN Refused
        ELSE IF \/ ~WellFormed(part \o tx \o message \o meta) \/ ~GoodSignature(part, 1)
                \/ ~GoodKeys(message, 2) \/ ~GoodKeys(meta, 12) \/ ~GoodKeys(meta, 13)
        THEN Refused
        ELSE <<[kind |-> "Transaction", enc |-> "Limited", created |-> created,
                buf |-> buf, range |-> r, transaction_range |-> txr,
                signature |-> IF Has(part, 1) THEN <<txr.start + LastOf(part, 1).start>>
                              ELSE <<>>,
                error |-> IF Has(meta, 1)
                          THEN <<ProstDecode("Error", info, RangeOf(LastOf(meta, 1)))>>
                          ELSE <<>>,
                account_keys |-> KeysIn(info, message, 2) \cup KeysIn(info, meta, 12)
                                   \cup KeysIn(info, meta, 13),
                is_vote |-> NumIn(part, 2), index |-> NumIn(part, 5),
                slot |-> NumIn(fields, 2), bank_id |-> NumIn(fields, 3)]>>

LimitedEntry(buf, r, created) ==
    LET fields == PartOf(buf, r)
    IN  IF ~WellFormed(fields) THEN Refused
        ELSE <<[kind |-> "Entry", enc |-> "Limited", created |-> created, buf |-> buf, range |-> r,
                slot |-> NumIn(fields, 1), index |-> NumIn(fields, 2),
                executed_transaction_count |-> NumIn(fields, 5),
                bank_id |-> NumIn(fields, 7)]>>

\* The rest is decoded in full by either parser; v is the decoded value.
LimitedBlockMeta(buf, r, created) ==
    LET v == ProstDecode("BlockMeta", buf, r)
    IN  IF ~Decodable("BlockMeta", buf, r) \/ v.block_height = <<>> THEN Refused
        ELSE <<[kind |-> "BlockMeta", enc |-> "Limited", created |-> created,
                buf |-> buf, range |-> r, v |-> v]>>

Decoded(kind, enc, v, created) ==
    <<[kind |-> kind, enc |-> enc, created |-> created, v |-> v]>>
WholeDecoded(kind, enc, buf, r, created) ==
    IF Decodable(kind, buf, r) THEN Decoded(kind, enc, ProstDecode(kind, buf, r), created)
    ELSE Refused

\* Message::parse_richat: a footer comes as the bytes that the validator serialized.
FooterFromWincode(footer, enc, created) ==
    Each(CreateBlockFooterFromWincode(footer.slot, footer.bank_id, footer.footer),
         LAMBDA v : Decoded("BlockFooter", enc, v, created)[1])
ParseRichat(buf, outer, enc, created) ==
    IF Has(outer, RichatTag.BlockFooter) THEN
        FooterFromWincode(ProstDecode("RichatBlockFooter", buf,
                                      RangeOf(LastOf(outer, RichatTag.BlockFooter))),
                          enc, created)
    ELSE IF Has(outer, RichatTag.EntryUpdateParent) THEN
        WholeDecoded("EntryUpdateParent", enc, buf,
                     RangeOf(LastOf(outer, RichatTag.EntryUpdateParent)), created)
    ELSE Refused  \* another message of richat's own

Oneofs(outer) == SelectSeq(outer, LAMBDA f : \E k \in DOMAIN OneofTag : OneofTag[k] = f.tag)
KindOf(f) == CHOOSE k \in DOMAIN OneofTag : OneofTag[k] = f.tag
CreatedIn(buf, outer) == Slice(buf, RangeOf(LastOf(outer, CreatedAtTag)))

\* A second value of the same alternative is refused ("merge is not supported").
Merged(oneofs) == \E i \in 2 .. Len(oneofs) : oneofs[i].tag = oneofs[i - 1].tag

ParseOneof(buf, kind, r, created) ==
    CASE kind = "Slot"        -> LimitedSlot(buf, r, created)
      [] kind = "Account"     -> LimitedAccount(buf, r, created)
      [] kind = "Transaction" -> LimitedTransaction(buf, r, created)
      [] kind = "Entry"       -> LimitedEntry(buf, r, created)
      [] kind = "BlockMeta"   -> LimitedBlockMeta(buf, r, created)
      [] kind \in {"BlockFooter", "EntryUpdateParent"} ->
             WholeDecoded(kind, "Limited", buf, r, created)
      [] OTHER -> Refused  \* TransactionStatus, Block, Ping, Pong

ParseLimitedFrom(buf, outer, oneofs) ==
    IF ~WellFormed(outer) \/ Merged(oneofs) \/ ~Has(outer, CreatedAtTag) THEN Refused
    ELSE IF oneofs = <<>> THEN ParseRichat(buf, outer, "Limited", CreatedIn(buf, outer))
    ELSE ParseOneof(buf, KindOf(Last(oneofs)), RangeOf(Last(oneofs)),
                    CreatedIn(buf, outer))
ParseLimited(buf) ==
    ParseLimitedFrom(buf, Fields(buf, Whole(buf)), Oneofs(Fields(buf, Whole(buf))))

-----------------------------------------------------------------------------
(* MessageParserProst *)

\* gen_account_keys_prost
TxKeys(info) ==
    (IF info.transaction # <<>> /\ info.transaction[1].message # <<>>
     THEN ToSet(info.transaction[1].message[1].account_keys) ELSE {})
    \cup ToSet(info.meta[1].loaded_writable_addresses)
    \cup ToSet(info.meta[1].loaded_readonly_addresses)

GoodValue(kind, v) ==
    CASE kind = "Slot"        -> v.status \in SlotStatus
      [] kind = "Account"     -> v.account # <<>> /\ IsKey(v.account[1].pubkey)
                                   /\ IsKey(v.account[1].owner)
      [] kind = "Transaction" ->
            /\ v.transaction # <<>> /\ v.transaction[1].meta # <<>>
            /\ v.transaction[1].transaction # <<>>
            /\ \A k \in TxKeys(v.transaction[1]) : IsKey(k)
      [] kind = "BlockMeta"   -> v.block_height # <<>>
      [] kind = "Block"       ->
            /\ v.block_height # <<>>
            /\ \A a \in ToSet(v.accounts) : IsKey(a.pubkey) /\ IsKey(a.owner)
            /\ \A t \in ToSet(v.transactions) :
                  t.meta # <<>> /\ t.transaction # <<>> /\ \A k \in TxKeys(t) : IsKey(k)
      [] kind \in {"Entry", "BlockFooter", "EntryUpdateParent"} -> TRUE
      [] OTHER -> FALSE

\* A block is split into its parts; its other fields are those of its meta.
MetaOfBlock(v) ==
    [n \in {f.name : f \in ToSet(Schema.BlockMeta)} |-> v[n]]
ProstBlock(v, created) ==
    LET Part(kind, x) == Decoded(kind, "Prost", x, created)[1]
    IN  <<[kind |-> "Block", enc |-> "Prost", created |-> created,
           accounts |-> [i \in DOMAIN v.accounts |->
               Part("Account", [account |-> <<v.accounts[i]>>, slot |-> v.slot, is_startup |-> 0,
                                bank_id |-> NonzeroBankId(v.bank_id)])],
           transactions |-> [i \in DOMAIN v.transactions |->
               Part("Transaction", [transaction |-> <<v.transactions[i]>>, slot |-> v.slot,
                                    bank_id |-> v.bank_id])],
           entries |-> [i \in DOMAIN v.entries |-> Part("Entry", v.entries[i])],
           meta |-> Part("BlockMeta", MetaOfBlock(v))]>>

ProstMessageOf(kind, v, created) ==
    IF ~GoodValue(kind, v) THEN Refused
    ELSE IF kind = "Block" THEN ProstBlock(v, created)
    ELSE Decoded(kind, "Prost", v, created)
ParseProstFrom(buf, outer, oneofs) ==
    IF ~WellFormed(outer) \/ ~Has(outer, CreatedAtTag) THEN Refused
    ELSE IF oneofs = <<>> THEN ParseRichat(buf, outer, "Prost", CreatedIn(buf, outer))
    ELSE IF ~Decodable(KindOf(Last(oneofs)), buf, RangeOf(Last(oneofs))) THEN Refused
    ELSE ProstMessageOf(KindOf(Last(oneofs)),
                        ProstDecode(KindOf(Last(oneofs)), buf, RangeOf(Last(oneofs))),
                        CreatedIn(buf, outer))
ParseProst(buf) ==
    ParseProstFrom(buf, Fields(buf, Whole(buf)), Oneofs(Fields(buf, Whole(buf))))

\* Message::parse
Parse(buf, parser) == IF parser = "Limited" THEN ParseLimited(buf) ELSE ParseProst(buf)

-----------------------------------------------------------------------------
(* Accessors *)

\* MessageSlot
SlotValue(m) ==
    IF m.enc = "Prost" THEN m.v
    ELSE [slot |-> m.slot, parent |-> m.parent, status |-> m.status, bank_id |-> m.bank_id,
          dead_error |-> IF m.dead_error = <<>> THEN <<>>
                         ELSE <<Slice(m.buf, m.dead_error[1])>>]

\* MessageAccount: its ReadableAccount, write_version and txn_signature.
AccountInfo(m) ==
    IF m.enc = "Prost" THEN m.v.account[1]
    ELSE [pubkey |-> m.pubkey, owner |-> m.owner, lamports |-> m.lamports,
          executable |-> m.executable, rent_epoch |-> m.rent_epoch,
          data |-> Slice(m.buf, m.data),
          write_version |-> VarintAt(m.buf, m.write_version).value,
          txn_signature |->
             IF m.txn_signature = <<>> THEN <<>>
             ELSE <<Slice(m.buf, [start |-> m.txn_signature[1],
                                  end |-> m.txn_signature[1] + SignatureBytes])>>]
AccountValue(m) ==
    IF m.enc = "Prost" THEN m.v
    ELSE [account |-> <<AccountInfo(m)>>, slot |-> m.slot, is_startup |-> m.is_startup,
          bank_id |-> m.bank_id]

\* MessageTransaction: what filters read, and the lazily decoded transaction.
TxInfo(m) ==
    IF m.enc = "Prost" THEN m.v.transaction[1]
    ELSE ProstDecode("TxInfo", m.buf, m.transaction_range)
TxView(m) ==
    IF m.enc = "Prost"
    THEN [is_vote |-> m.v.transaction[1].is_vote, error |-> m.v.transaction[1].meta[1].err,
          signature |-> m.v.transaction[1].signature, index |-> m.v.transaction[1].index,
          account_keys |-> TxKeys(m.v.transaction[1]), slot |-> m.v.slot,
          bank_id |-> m.v.bank_id]
    ELSE [is_vote |-> m.is_vote, error |-> m.error,
          signature |-> Slice(m.buf, [start |-> m.signature[1],
                                      end |-> m.signature[1] + SignatureBytes]),
          index |-> m.index, account_keys |-> m.account_keys, slot |-> m.slot,
          bank_id |-> m.bank_id]

\* as_versioned_transaction_with_status_meta, as_confirmed_block: what the JSON-RPC
\* notifications are made of.
AsTransaction(m) == TxWithMeta(TxInfo(m))
AsConfirmedBlock(m) ==
    LET meta == m.meta.v
        transactions == Each(m.transactions, LAMBDA t : AsTransaction(t))
        rewards == OrEmpty(Each(meta.rewards, LAMBDA r : r.rewards))
        partitions == OrEmpty(Each(meta.rewards, LAMBDA r : r.num_partitions))
    IN  IF (\E i \in DOMAIN transactions : transactions[i] = Refused)
             \/ \E i \in DOMAIN rewards : ~RewardOk(rewards[i])
        THEN Refused
        ELSE <<[previous_blockhash |-> meta.parent_blockhash, blockhash |-> meta.blockhash,
                parent_slot |-> meta.parent_slot,
                transactions |-> Each(transactions, LAMBDA t : t[1]),
                rewards |-> FromRewards(rewards),
                num_partitions |-> Each(partitions, LAMBDA n : n.num_partitions),
                block_time |-> Each(meta.block_time, LAMBDA t : t.timestamp),
                block_height |-> Each(meta.block_height, LAMBDA h : h.block_height)]>>

\* MessageEntry
EntryView(m) ==
    IF m.enc = "Prost"
    THEN [slot |-> m.v.slot, index |-> m.v.index, bank_id |-> NonzeroBankId(m.v.bank_id),
          executed |-> m.v.executed_transaction_count]
    ELSE [slot |-> m.slot, index |-> m.index, bank_id |-> NonzeroBankId(m.bank_id),
          executed |-> m.executed_transaction_count]

\* Message::create_block: every part has the encoding of created_at.
CreateBlock(accounts, transactions, entries, meta, created, enc) ==
    IF \E m \in ToSet(accounts) \cup ToSet(transactions) \cup ToSet(entries) \cup {meta} :
          m.enc # enc
    THEN Refused
    ELSE <<[kind |-> "Block", enc |-> enc, created |-> created, accounts |-> accounts,
            transactions |-> transactions, entries |-> entries, meta |-> meta]>>

-----------------------------------------------------------------------------
(* MessageAccount::update_write_version, in place for a Limited account *)

Resize(buf, n) == IF n > Len(buf) THEN buf \o [i \in 1 .. n - Len(buf) |-> 0] ELSE buf
CopyWithin(buf, from, to, n) ==
    [i \in DOMAIN buf |-> IF i \in to + 1 .. to + n THEN buf[i - to + from] ELSE buf[i]]
Overwrite(buf, at, cells) ==
    [i \in DOMAIN buf |-> IF i \in at + 1 .. at + Len(cells) THEN cells[i - at] ELSE buf[i]]

\* The size of the account message.
\* Mutant: it stays.
NewSizeStale(old, by) == old
NewSize(old, by) == old + by

\* What comes after the write version moves with its width too.
\* Mutant: it does not.
PastVersionStays(p, at, by) == p
PastVersion(p, at, by) == IF p > at THEN p + by ELSE p

UpdateWriteVersion(m, version) ==
    IF m.enc = "Prost" THEN [m EXCEPT !.v.account[1].write_version = version]
    ELSE LET wv == VarintAt(m.buf, m.write_version)
             wvOld == wv.next - m.write_version
             wvNew == VarintLen(version)
             msg == VarintAt(m.buf, m.account_offset)
             msgOld == msg.next - m.account_offset
             size == NewSize(msg.value, wvNew - wvOld)
             msgNew == VarintLen(size)
             end == m.range.end + msgNew - msgOld + wvNew - wvOld
             at == m.write_version + msgNew - msgOld
             before == CopyWithin(Resize(m.buf, end), m.account_offset + msgOld,
                                  m.account_offset + msgNew,
                                  m.write_version - (m.account_offset + msgOld))
             after == CopyWithin(before, m.write_version + wvOld, at + wvNew,
                                 m.range.end - (m.write_version + wvOld))
             Moved(o) == PastVersion(o + msgNew - msgOld, at, wvNew - wvOld)
             by == Moved(m.data.start) - m.data.start
         IN  [m EXCEPT
                !.buf = Overwrite(Overwrite(after, m.account_offset, Varint(size)),
                                  at, Varint(version)),
                !.range.end = end,
                !.data = Shift(m.data, by),
                !.txn_signature = [i \in DOMAIN @ |-> Moved(@[i])],
                !.write_version = at]
=============================================================================
