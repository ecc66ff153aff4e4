---------------------------- MODULE FilterConfig ----------------------------
(***************************************************************************)
(* filter/src/config.rs: a SubscribeRequest becomes a ConfigFilter (or an  *)
(* error), a ConfigFilter becomes a SubscribeRequest again, and the limits *)
(* of the server accept or refuse it.                                      *)
(*                                                                         *)
(* Filters of a kind are a function from names (cells of the wire) to      *)
(* their settings; an option is <<>> or <<value>>.  The text of a public   *)
(* key or signature is [ok, key], what its decoding gives; the text of     *)
(* memcmp data is [ok, data, long]: whether it decodes, to what, and       *)
(* whether the text itself exceeds the maximum of its encoding.            *)
(***************************************************************************)
EXTENDS Integers, Sequences, SequencesExt, FiniteSets

CONSTANTS MaxFilters,  \* MAX_FILTERS
          MaxDataSize  \* MAX_DATA_SIZE

ASSUME FilterConfigAssumption == MaxFilters \in Nat /\ MaxDataSize \in Nat

CommitmentNumber == <<"processed", "confirmed", "finalized">>  \* CommitmentLevel, from 0

-----------------------------------------------------------------------------
(* TryFrom<SubscribeRequest> for ConfigFilter *)

Texts(ts) == \A i \in DOMAIN ts : ts[i].ok
Decode(ts) == [i \in DOMAIN ts |-> ts[i].key]

\* ConfigFilterAccountsFilter::try_from
AccountsFilterOk(f) ==
    CASE f.f = "memcmp"   -> /\ f.form # "none" /\ f.text.ok
                             /\ f.form # "bytes" => ~f.text.long
                             /\ Len(f.text.data) <= MaxDataSize
      [] f.f = "datasize" -> TRUE
      [] f.f = "token"    -> f.value
      [] f.f = "lamports" -> f.cmp # "none"
      [] f.f = "none"     -> FALSE
AccountsFilter(f) ==
    CASE f.f = "memcmp"   -> [f |-> "memcmp", offset |-> f.offset, data |-> f.text.data]
      [] f.f = "datasize" -> [f |-> "datasize", size |-> f.size]
      [] f.f = "token"    -> [f |-> "token"]
      [] f.f = "lamports" -> [f |-> "lamports", cmp |-> f.cmp, value |-> f.value]

AccountsOk(a) ==
    /\ ~a.cuckoo /\ Texts(a.account) /\ Texts(a.owner)
    /\ Len(a.filters) <= MaxFilters
    /\ \A i \in DOMAIN a.filters : AccountsFilterOk(a.filters[i])
Accounts(a) ==
    [account |-> Decode(a.account), owner |-> Decode(a.owner),
     filters |-> [i \in DOMAIN a.filters |-> AccountsFilter(a.filters[i])],
     nonempty |-> a.nonempty]

TransactionsOk(t) ==
    /\ ~t.cuckoo /\ ~t.token_accounts /\ Texts(t.signature)
    /\ Texts(t.include) /\ Texts(t.exclude) /\ Texts(t.required)
Transactions(t) ==
    [vote |-> t.vote, failed |-> t.failed, signature |-> Decode(t.signature),
     include |-> Decode(t.include), exclude |-> Decode(t.exclude),
     required |-> Decode(t.required)]

BlocksOk(b) == ~b.cuckoo /\ Texts(b.include)
Blocks(b) == [include |-> Decode(b.include), transactions |-> b.transactions,
              accounts |-> b.accounts, entries |-> b.entries]

Convertible(r) ==
    /\ \A n \in DOMAIN r.accounts : AccountsOk(r.accounts[n])
    /\ \A n \in DOMAIN r.transactions : TransactionsOk(r.transactions[n])
    /\ \A n \in DOMAIN r.status : TransactionsOk(r.status[n])
    /\ \A n \in DOMAIN r.blocks : BlocksOk(r.blocks[n])
    /\ \A i \in DOMAIN r.commitment : r.commitment[i] \in 0 .. 2

ToConfig(r) ==
    [slots |-> r.slots, accounts |-> [n \in DOMAIN r.accounts |-> Accounts(r.accounts[n])],
     slices |-> r.slices,
     transactions |-> [n \in DOMAIN r.transactions |-> Transactions(r.transactions[n])],
     status |-> [n \in DOMAIN r.status |-> Transactions(r.status[n])],
     entries |-> DOMAIN r.entry,
     update_parent |-> {n \in DOMAIN r.entry : r.entry[n].update_parent = <<TRUE>>},
     meta |-> DOMAIN r.meta, blocks |-> [n \in DOMAIN r.blocks |-> Blocks(r.blocks[n])],
     footer |-> r.footer,
     commitment |-> [i \in DOMAIN r.commitment |-> CommitmentNumber[r.commitment[i] + 1]]]

-----------------------------------------------------------------------------
(* From<ConfigFilter> for SubscribeRequest: what a client sends for a configured filter *)

Encode(keys) == [i \in DOMAIN keys |-> [ok |-> TRUE, key |-> keys[i]]]
Plain(data) == [ok |-> TRUE, data |-> data, long |-> FALSE]

AccountsFilterToRequest(f) ==
    CASE f.f = "memcmp"   -> [f |-> "memcmp", offset |-> f.offset, form |-> "bytes",
                              text |-> Plain(f.data)]
      [] f.f = "datasize" -> [f |-> "datasize", size |-> f.size]
      [] f.f = "token"    -> [f |-> "token", value |-> TRUE]
      [] f.f = "lamports" -> [f |-> "lamports", cmp |-> f.cmp, value |-> f.value]
AccountsToRequest(a) ==
    [account |-> Encode(a.account), owner |-> Encode(a.owner), cuckoo |-> FALSE,
     filters |-> [i \in DOMAIN a.filters |-> AccountsFilterToRequest(a.filters[i])],
     nonempty |-> a.nonempty]
TransactionsToRequest(t) ==
    [vote |-> t.vote, failed |-> t.failed, signature |-> Encode(t.signature),
     include |-> Encode(t.include), exclude |-> Encode(t.exclude),
     required |-> Encode(t.required), cuckoo |-> FALSE, token_accounts |-> FALSE]
BlocksToRequest(b) ==
    [include |-> Encode(b.include), transactions |-> b.transactions, accounts |-> b.accounts,
     entries |-> b.entries, cuckoo |-> FALSE]

ToRequestOf(c, updateParent) ==
    [slots |-> c.slots, accounts |-> [n \in DOMAIN c.accounts |-> AccountsToRequest(c.accounts[n])],
     slices |-> c.slices,
     transactions |-> [n \in DOMAIN c.transactions |-> TransactionsToRequest(c.transactions[n])],
     status |-> [n \in DOMAIN c.status |-> TransactionsToRequest(c.status[n])],
     entry |-> [n \in c.entries |->
                  [update_parent |-> IF n \in updateParent THEN <<TRUE>> ELSE <<>>]],
     meta |-> [n \in c.meta |-> 0], blocks |-> [n \in DOMAIN c.blocks |-> BlocksToRequest(c.blocks[n])],
     footer |-> c.footer,
     commitment |-> [i \in DOMAIN c.commitment |->
                        CHOOSE k \in 0 .. 2 : CommitmentNumber[k + 1] = c.commitment[i]]]
\* Mutant: update_parent is forgotten.
ToRequestNoUpdateParent(c) == ToRequestOf(c, {})
ToRequest(c) == ToRequestOf(c, c.update_parent)

-----------------------------------------------------------------------------
(* ConfigLimits::check_filter *)

NamesOk(names, max) == \A n \in names : Len(n) <= max
CountOk(names, max) == Cardinality(names) <= max
AnyOk(empty, any) == ~empty \/ any
KeysOk(keys, max, reject) == Len(keys) <= max /\ ToSet(keys) \cap reject = {}

\* check order and overlap
SlicesOk(slices) ==
    \A i, j \in DOMAIN slices : i < j =>
       /\ slices[i].offset <= slices[j].offset
       /\ slices[j].offset >= slices[i].offset + slices[i].length

AccountFiltersOk(fs) ==
    /\ Len(fs) <= MaxFilters
    /\ \A i \in DOMAIN fs : fs[i].f = "memcmp" => Len(fs[i].data) <= MaxDataSize
    /\ \A i, j \in DOMAIN fs : fs[i].f = "datasize" /\ fs[j].f = "datasize" => i = j

AccountsLimit(l, accounts, slices) ==
    /\ \A n \in DOMAIN accounts :
          LET a == accounts[n]
          IN  /\ AnyOk(a.account = <<>> /\ a.owner = <<>>, l.any)
              /\ KeysOk(a.account, l.account_max, l.account_reject)
              /\ KeysOk(a.owner, l.owner_max, l.owner_reject)
              /\ AccountFiltersOk(a.filters)
    /\ Len(slices) <= l.data_slice_max
    /\ SlicesOk(slices)

TransactionsLimit(l, txs) ==
    \A n \in DOMAIN txs :
       LET t == txs[n]
       IN  /\ AnyOk(/\ t.vote = <<>> /\ t.failed = <<>> /\ t.include = <<>>
                    /\ t.exclude = <<>> /\ t.required = <<>>, l.any)
           /\ KeysOk(t.include, l.include_max, l.include_reject)
           /\ Len(t.exclude) <= l.exclude_max
           /\ Len(t.required) <= l.required_max

\* Mutant: the check of accounts is dropped.
BlocksLimitNoAccounts(l, blocks) ==
    \A n \in DOMAIN blocks : KeysOk(blocks[n].include, l.include_max, l.include_reject)
\* The entries of a block are allowed by include_accounts, not by include_entries.
BlocksLimit(l, blocks) ==
    \A n \in DOMAIN blocks :
       LET b == blocks[n]
       IN  /\ AnyOk(b.include = <<>>, l.include_any)
           /\ KeysOk(b.include, l.include_max, l.include_reject)
           /\ b.transactions = <<FALSE>> \/ l.transactions
           /\ b.accounts \in {<<>>, <<FALSE>>} \/ l.accounts
           /\ b.entries \in {<<>>, <<FALSE>>} \/ l.accounts

CheckFilter(l, c) ==
    /\ \A part \in {DOMAIN c.slots, DOMAIN c.accounts, DOMAIN c.transactions, DOMAIN c.status,
                    c.entries, c.meta, DOMAIN c.blocks, DOMAIN c.footer} :
          NamesOk(part, l.name_max)
    /\ CountOk(DOMAIN c.slots, l.slots)
    /\ CountOk(DOMAIN c.accounts, l.accounts.max) /\ AccountsLimit(l.accounts, c.accounts, c.slices)
    /\ CountOk(DOMAIN c.transactions, l.transactions.max)
    /\ TransactionsLimit(l.transactions, c.transactions)
    /\ CountOk(DOMAIN c.status, l.status.max) /\ TransactionsLimit(l.status, c.status)
    /\ CountOk(c.entries, l.entries) /\ CountOk(c.meta, l.meta)
    /\ CountOk(DOMAIN c.blocks, l.blocks.max) /\ BlocksLimit(l.blocks, c.blocks)
    /\ CountOk(DOMAIN c.footer, l.footer)
=============================================================================
