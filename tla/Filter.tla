------------------------------- MODULE Filter -------------------------------
(***************************************************************************)
(* filter/src/filter.rs and filter/src/protobuf/encode.rs: the filter of a *)
(* client, the updates it makes of a message, and their encoding.          *)
(*                                                                         *)
(* The names of the filters that match go first on the wire; the code      *)
(* iterates over a hash map, the model over the names in their order.      *)
(***************************************************************************)
EXTENDS Message, FilterConfig

InOrder(names) == SetToSortSeq(names, LAMBDA a, b : a[1] < b[1])

-----------------------------------------------------------------------------
(* Filter::new *)

\* FilterAccountsState::new: the last data size counts.
AccountsState(fs) ==
    LET sizes == SelectSeq(fs, LAMBDA f : f.f = "datasize")
    IN  [memcmp |-> SelectSeq(fs, LAMBDA f : f.f = "memcmp"),
         datasize |-> IF sizes = <<>> THEN <<>> ELSE <<Last(sizes).size>>,
         token |-> \E i \in DOMAIN fs : fs[i].f = "token",
         lamports |-> SelectSeq(fs, LAMBDA f : f.f = "lamports")]

\* FilterAccountDataSlices::new
DataSlices(slices) ==
    [i \in DOMAIN slices |->
        [start |-> slices[i].offset, end |-> slices[i].offset + slices[i].length]]

TransactionsInner(t) ==
    [vote |-> t.vote, failed |-> t.failed, signature |-> t.signature,
     include |-> ToSet(t.include), exclude |-> ToSet(t.exclude), required |-> ToSet(t.required)]

SlotsInner(s) == [by |-> s.by = <<TRUE>>, inter |-> s.inter = <<TRUE>>]
AccountsInner(a) ==
    [account |-> ToSet(a.account), owner |-> ToSet(a.owner), nonempty |-> a.nonempty,
     filters |-> IF a.filters = <<>> THEN <<>> ELSE <<AccountsState(a.filters)>>]
BlocksInner(b) == [b EXCEPT !.include = ToSet(@)]

NewFilter(c) ==
    [slots |-> [n \in DOMAIN c.slots |-> SlotsInner(c.slots[n])],
     accounts |-> [n \in DOMAIN c.accounts |-> AccountsInner(c.accounts[n])],
     slices |-> DataSlices(c.slices),
     transactions |-> [n \in DOMAIN c.transactions |-> TransactionsInner(c.transactions[n])],
     status |-> [n \in DOMAIN c.status |-> TransactionsInner(c.status[n])],
     entries |-> c.entries, update_parent |-> c.entries \cap c.update_parent,
     meta |-> c.meta, blocks |-> [n \in DOMAIN c.blocks |-> BlocksInner(c.blocks[n])],
     footer |-> [n \in DOMAIN c.footer |-> c.footer[n].certs = <<TRUE>>],
     commitment |-> IF c.commitment = <<>> THEN "processed" ELSE c.commitment[1]]

-----------------------------------------------------------------------------
(* Filter::get_updates_ref *)

\* FilterSlots::get_update
SlotMatches(s, status, commitment) ==
    /\ s.by => \/ status = Processed /\ commitment = "processed"
               \/ status = Confirmed /\ commitment = "confirmed"
               \/ status = Finalized /\ commitment = "finalized"
    /\ s.inter \/ status \in {Processed, Confirmed, Finalized}

\* FilterAccountsLamports::is_match
LamportsMatch(f, lamports) ==
    CASE f.cmp = "eq" -> lamports = f.value
      [] f.cmp = "ne" -> lamports # f.value
      [] f.cmp = "lt" -> lamports < f.value
      [] f.cmp = "gt" -> lamports > f.value

\* TokenAccount::valid_account_data, of the token program: some data is a token account.
ValidTokenAccount(data) == data # <<>> /\ Last(data) = 1

\* FilterAccountsState::is_match
StateMatches(s, lamports, data) ==
    /\ s.datasize # <<>> => Len(data) = s.datasize[1]
    /\ s.token => ValidTokenAccount(data)
    /\ \A i \in DOMAIN s.lamports : LamportsMatch(s.lamports[i], lamports)
    /\ \A i \in DOMAIN s.memcmp :
          LET f == s.memcmp[i]
          IN  /\ Len(data) >= f.offset + Len(f.data)
              /\ SubSeq(data, f.offset + 1, f.offset + Len(f.data)) = f.data

\* FilterAccounts::get_update
AccountMatches(f, info) ==
    /\ f.account # {} => info.pubkey \in f.account
    /\ f.owner # {} => info.owner \in f.owner
    /\ f.filters # <<>> => StateMatches(f.filters[1], info.lamports, info.data)
    /\ f.nonempty # <<>> => f.nonempty[1] = (info.txn_signature # <<>>)

\* FilterTransactions::get_update
TransactionMatches(f, tx) ==
    /\ f.vote # <<>> => f.vote[1] = (tx.is_vote # 0)
    /\ f.failed # <<>> => f.failed[1] = (tx.error # <<>>)
    /\ f.signature # <<>> => f.signature[1] = tx.signature
    /\ f.include # {} => f.include \cap tx.account_keys # {}
    /\ f.exclude \cap tx.account_keys = {}
    /\ f.required \subseteq tx.account_keys

Update(type, names, m) == [type |-> type, names |-> InOrder(names), m |-> m]
IfAny(names, u) == IF names = {} THEN <<>> ELSE <<u>>

\* FilterBlocks::get_updates: one update per filter, with the indexes it includes.
BlockUpdate(f, name, m, slices) ==
    LET Indexes(parts, Wanted(_)) ==
            SetToSortSeq({i \in DOMAIN parts : f.include = {} \/ Wanted(parts[i])}, <)
    IN  [type |-> "Block", names |-> <<name>>, m |-> m, slices |-> slices,
         accounts |-> IF f.accounts = <<TRUE>>
                      THEN Indexes(m.accounts, LAMBDA a : AccountInfo(a).pubkey \in f.include)
                      ELSE <<>>,
         transactions |-> IF f.transactions # <<FALSE>>
                          THEN Indexes(m.transactions,
                                       LAMBDA t : f.include \cap TxView(t).account_keys # {})
                          ELSE <<>>,
         entries |-> f.entries = <<TRUE>>]

\* FilterBlockFooter::get_updates: at most two updates, with and without certificates.
FooterUpdates(footer, m) ==
    LET Of(certs) ==
            LET names == {n \in DOMAIN footer : footer[n] = certs}
            IN  IfAny(names, [type |-> "BlockFooter", names |-> InOrder(names), m |-> m,
                              certs |-> certs])
    IN  Of(FALSE) \o Of(TRUE)

GetUpdates(f, m, commitment) ==
    LET Single(type, names) == IfAny(names, Update(type, names, m))
    IN  CASE m.kind = "Slot" ->
                Single("Slot", {n \in DOMAIN f.slots :
                           SlotMatches(f.slots[n], SlotValue(m).status, commitment)})
          [] m.kind = "Account" ->
                LET names == {n \in DOMAIN f.accounts :
                               AccountMatches(f.accounts[n], AccountInfo(m))}
                IN  IfAny(names, [type |-> "Account", names |-> InOrder(names), m |-> m,
                                  slices |-> f.slices])
          [] m.kind = "Transaction" ->
                LET Matching(fs) == {n \in DOMAIN fs : TransactionMatches(fs[n], TxView(m))}
                IN  Single("Transaction", Matching(f.transactions))
                      \o Single("TransactionStatus", Matching(f.status))
          [] m.kind = "Entry" -> Single("Entry", f.entries)
          [] m.kind = "BlockMeta" -> Single("BlockMeta", f.meta)
          [] m.kind = "Block" ->
                LET names == InOrder(DOMAIN f.blocks)
                IN  [i \in DOMAIN names |->
                        BlockUpdate(f.blocks[names[i]], names[i], m, f.slices)]
          [] m.kind = "BlockFooter" -> FooterUpdates(f.footer, m)
          [] m.kind = "EntryUpdateParent" -> Single("EntryUpdateParent", f.update_parent)

-----------------------------------------------------------------------------
(* FilteredUpdate::encode *)

\* FilterAccountDataSlices::get_slice: a slice past the end of the data gives nothing.
GetSlice(slices, data) ==
    IF slices = <<>> THEN data
    ELSE Concat([i \in DOMAIN slices |->
                    IF Len(data) >= slices[i].end THEN Slice(data, slices[i]) ELSE <<>>])

\* UpdateOneofLimitedEncodeAccountInner, ..Account::Fields, ..TransactionStatus and ..Block:
\* what encode_raw writes.  is_startup is written when it is false; transactions and entries of
\* a block are parts of the buffers they came in.
LimitedAccountInner ==
    <<Always("pubkey", 1), N("lamports", 2), Always("owner", 3), N("executable", 4),
      N("rent_epoch", 5), B("data", 6), N("write_version", 7), Opt("txn_signature", 8)>>
LimitedAccountFields ==
    <<Msg("account", 1, "AccountInfo"), N("slot", 2), Field("is_startup", 3, "whenzero", ""),
      O("bank_id", 4)>>
LimitedTransactionStatus ==
    <<N("slot", 1), B("signature", 2), N("is_vote", 3), N("index", 4), Msg("err", 5, "Error"),
      N("bank_id", 6)>>
LimitedBlock ==
    <<N("slot", 1), B("blockhash", 2), Msg("rewards", 3, "Rewards"),
      Msg("block_time", 4, "Timestamp"), Msg("block_height", 5, "Height"),
      Listed("transactions", 6), N("parent_slot", 7), B("parent_blockhash", 8),
      N("executed_transaction_count", 9), N("updated_account_count", 10),
      Msgs("accounts", 11, "AccountInfo"), N("entries_count", 12), Listed("entries", 13),
      N("bank_id", 14)>>
LimitedWriters ==
    Table([AccountInfo |-> LimitedAccountInner, Account |-> LimitedAccountFields,
           TransactionStatus |-> LimitedTransactionStatus, Block |-> LimitedBlock]
          @@ Schema)
\* Their encoded_len adds up the same fields.
LimitedLengths == LimitedWriters

Sliced(info, slices) == [info EXCEPT !.data = GetSlice(slices, @)]
StatusValue(tx) ==
    [slot |-> tx.slot, signature |-> tx.signature, is_vote |-> tx.is_vote, index |-> tx.index,
     err |-> tx.error, bank_id |-> tx.bank_id]
BlockValue(u, transactions, entries) ==
    [slot |-> u.m.meta.v.slot, blockhash |-> u.m.meta.v.blockhash,
     rewards |-> u.m.meta.v.rewards, block_time |-> u.m.meta.v.block_time,
     block_height |-> u.m.meta.v.block_height, parent_slot |-> u.m.meta.v.parent_slot,
     parent_blockhash |-> u.m.meta.v.parent_blockhash,
     executed_transaction_count |-> u.m.meta.v.executed_transaction_count,
     entries_count |-> u.m.meta.v.entries_count, bank_id |-> u.m.meta.v.bank_id,
     updated_account_count |-> Len(u.m.accounts),
     transactions |-> [i \in DOMAIN u.transactions |->
                          transactions[u.transactions[i]]],
     accounts |-> [i \in DOMAIN u.accounts |->
                      Sliced(AccountInfo(u.m.accounts[u.accounts[i]]), u.slices)],
     entries |-> IF u.entries THEN entries ELSE <<>>]
LimitedValue(u) ==
    CASE u.type = "Account" -> [AccountValue(u.m) EXCEPT !.account[1] = Sliced(@, u.slices)]
      [] u.type = "TransactionStatus" -> StatusValue(TxView(u.m))
      [] u.type = "Block" ->
            LET InBuf(m, range) == Slice(m.buf, range)
            IN  BlockValue(u, [i \in DOMAIN u.m.transactions |->
                                  InBuf(u.m.transactions[i], u.m.transactions[i].transaction_range)],
                              [i \in DOMAIN u.m.entries |->
                                  InBuf(u.m.entries[i], u.m.entries[i].range)])

\* The value that an update of a Prost message is encoded from.
FooterValue(u) ==
    IF u.certs THEN u.m.v
    ELSE [u.m.v EXCEPT !.block_final_cert = <<>>, !.skip_reward_cert = <<>>,
                       !.notar_reward_cert = <<>>]
ProstValue(u) ==
    CASE u.type = "Account"           -> [u.m.v EXCEPT !.account[1] = Sliced(@, u.slices)]
      [] u.type = "TransactionStatus" -> StatusValue(TxView(u.m))
      [] u.type = "Block"             ->
            BlockValue(u, [i \in DOMAIN u.m.transactions |-> u.m.transactions[i].v.transaction[1]],
                          [i \in DOMAIN u.m.entries |-> u.m.entries[i].v])
      [] u.type = "BlockFooter"       -> FooterValue(u)
      [] OTHER                        -> u.m.v

\* The update alone, with the length its encoder announces.
Raw(bytes) == [raw |-> bytes, len |-> Len(bytes)]
LimitedRaw(type, v) ==
    [raw |-> EncodeBy(LimitedWriters, LimitedLengths, type, v),
     len |-> LengthOf(LimitedLengths, type, v)]
RawUpdate(u) ==
    IF u.m.enc = "Prost" \/ u.type \in {"BlockFooter", "EntryUpdateParent"}
    THEN Raw(ProstEncode(u.type, ProstValue(u)))
    ELSE IF u.type \in {"TransactionStatus", "Block"} \/ (u.type = "Account" /\ u.slices # <<>>)
    THEN LimitedRaw(u.type, LimitedValue(u))
    ELSE Raw(Slice(u.m.buf, u.m.range))

\* SubscribeUpdateMessageLimited/Prost: encode_raw; encode_filters is the names alone.
EncodeFilters(names) == Concat([i \in DOMAIN names |-> Bytes(1, names[i])])
Framed(names, type, r, created) ==
    EncodeFilters(names) \o Delimited(OneofTag[type], r.len, r.raw)
      \o Bytes(CreatedAtTag, created)
EncodeUpdate(u) == Framed(u.names, u.type, RawUpdate(u), u.m.created)

\* encode_body: everything except the names.
EncodeBody(u) == EncodeUpdate([u EXCEPT !.names = <<>>])

\* From<MessageRef> for FilteredUpdateType: what is stored, and sent to a richat downstream.
FullUpdate(m) ==
    LET Indexes(parts) == [i \in DOMAIN parts |-> i]
        u == [type |-> m.kind, names |-> <<>>, m |-> m]
    IN  CASE m.kind = "Account"     -> u @@ [slices |-> <<>>]
          [] m.kind = "BlockFooter" -> u @@ [certs |-> TRUE]
          [] m.kind = "Block"       ->
                u @@ [slices |-> <<>>, accounts |-> Indexes(m.accounts),
                      transactions |-> Indexes(m.transactions), entries |-> TRUE]
          [] OTHER -> u
=============================================================================
