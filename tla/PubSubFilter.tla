---------------------------- MODULE PubSubFilter ----------------------------
(***************************************************************************)
(* What a pubsub client may subscribe to and which messages that selects:  *)
(* richat/src/pubsub/{solana,filter,notification}.rs and the matching half *)
(* of tracker.rs (SubscriptionsIndex, filter_job).  Keys, owners and       *)
(* signatures are members of small sets; the JSON of a notification is     *)
(* reduced to what it tells the client.                                    *)
(***************************************************************************)
EXTENDS Integers, Sequences, FiniteSets, SequencesExt

CONSTANTS
    EnableBlock,         \* enable_block_subscription
    EnableTransaction,   \* enable_transaction_subscription
    MaxFilters           \* MAX_FILTERS of programSubscribe

Processed == "processed"
Confirmed == "confirmed"
Finalized == "finalized"
Commitment == {Processed, Confirmed, Finalized}
Unset == "unset"      \* an optional parameter that was left out
Legacy == -1          \* version of a legacy transaction
NoVersion == -2       \* max_supported_transaction_version: None

Optional(value, default) == IF value = Unset THEN default ELSE value

(***************************************************************************)
(* SubscribeConfig::parse.  A request carries the config the client asked  *)
(* for and whether its parameters have the expected shape.                 *)
(***************************************************************************)
ParseError == [method |-> "ParseError"]
MethodNotFound == [method |-> "MethodNotFound"]
InvalidParams == [method |-> "InvalidParams"]
IsError(config) == config \in {ParseError, MethodNotFound, InvalidParams}

Unkeyed == {"slot", "slotsUpdates", "root"}
Disabled(method) ==
    \/ method \in {"block", "blockUnsubscribe"} /\ ~EnableBlock
    \/ method \in {"transaction", "transactionUnsubscribe"} /\ ~EnableTransaction

\* commitment.unwrap_or_default(), encoding.unwrap_or(..) and the other defaults.
WithDefaults(config) ==
    CASE config.method \in {"account", "program", "logs", "signature"} ->
           [config EXCEPT !.commitment = Optional(@, Finalized)]
      [] config.method \in {"block", "transaction"} ->
           [config EXCEPT !.commitment = Optional(@, Finalized),
                          !.details = Optional(@, "full")]
      [] OTHER -> config

\* The checks of a method on its parameters.
Acceptable(config) ==
    CASE config.method = "logs" -> config.kind # "mentions" \/ Cardinality(config.keys) = 1
      [] config.method = "program" -> Len(config.filters) <= MaxFilters
      [] config.method = "block" -> config.commitment # Processed
      [] OTHER -> TRUE

Parse(request) ==
    IF ~request.json THEN ParseError
    ELSE IF Disabled(request.config.method) THEN MethodNotFound
    ELSE IF request.config.method = "unknown" THEN MethodNotFound
    ELSE IF ~request.params \/ ~Acceptable(WithDefaults(request.config)) THEN InvalidParams
    ELSE WithDefaults(request.config)

\* SubscribeConfig::commitment
CommitmentOf(config) == IF config.method \in Unkeyed THEN Processed ELSE config.commitment

(***************************************************************************)
(* Matching: filter_account, filter_program, filter_logs, filter_signature,*)
(* filter_block, filter_transaction and TransactionFilter::matches.        *)
(***************************************************************************)
Agrees(wanted, actual) == wanted = Unset \/ wanted = actual

ProgramFilterMatches(filter, m) ==
    IF filter.type = "dataSize" THEN m.len = filter.size ELSE m.prefix = filter.prefix

TransactionMatches(f, m) ==
    /\ Agrees(f.vote, m.vote) /\ Agrees(f.failed, m.failed) /\ Agrees(f.sig, m.sig)
    /\ f.include # {} => f.include \cap m.keys # {}
    /\ f.exclude \cap m.keys = {}
    /\ f.required \subseteq m.keys

Matches(config, m) ==
    CASE config.method = "account" -> m.kind = "account" /\ m.key = config.key
      [] config.method = "program" ->
           /\ m.kind = "account" /\ m.owner = config.key
           /\ \A i \in DOMAIN config.filters : ProgramFilterMatches(config.filters[i], m)
      [] config.method = "logs" ->
           /\ m.kind = "tx" /\ m.decodes
           /\ \/ config.kind = "all" /\ m.vote = "no"
              \/ config.kind = "allWithVotes"
              \/ config.kind = "mentions" /\ config.keys \subseteq m.keys
      [] config.method = "signature" -> m.kind = "tx" /\ m.decodes /\ m.sig = config.sig
      [] config.method = "block" ->
           /\ m.kind = "block"
           /\ config.keys # {} => \E t \in m.txs : config.keys \cap t.keys # {}
      [] config.method = "transaction" -> m.kind = "tx" /\ TransactionMatches(config.filter, m)
      [] config.method = "slot" -> m.kind = "slot" /\ m.status = "createdBank"
      [] config.method = "root" -> m.kind = "slot" /\ m.status = Finalized
      [] config.method = "slotsUpdates" -> m.kind = "slot"

\* tx_validate_version, and the same rule inside encode of the transaction crate.
VersionSupported(max, version) ==
    version = Legacy \/ (max # NoVersion /\ version <= max)

\* RpcTransactionUpdate::new
TransactionUpdate(config, m) ==
    CASE config.details = "signatures" -> <<"signature", m.sig>>
      [] config.details = "none" -> <<"slot">>
      [] OTHER -> IF ~m.decodes THEN <<"error", "parse">>
                  ELSE IF VersionSupported(config.max_version, m.version)
                  THEN <<config.details, m.sig>> ELSE <<"error", "version">>

\* RpcBlockUpdate::new
BlockUpdate(config, m) ==
    IF \E t \in m.txs : ~t.decodes THEN <<"error", "parse">>
    ELSE IF \E t \in m.txs : ~VersionSupported(config.max_version, t.version)
    THEN <<"error", "version">> ELSE <<config.details, {t.sig : t \in m.txs}>>

NoStats == [entries |-> -1]

\* filter_job: the notification of a message for a subscription, or none.  A
\* slotsUpdates job of the processed status passes only with the statistics.
FilterJob(config, m, stats, slot_finalized) ==
    LET size == IF m.kind = "block" THEN 2 ELSE 1
        Told(final, value) ==
            <<[final |-> final, slot |-> m.slot, size |-> size, value |-> value]>>
    IN  IF ~Matches(config, m) THEN <<>>
        ELSE CASE config.method = "signature" -> Told(TRUE, <<"failed", m.failed>>)
               [] config.method = "slot" -> Told(FALSE, <<"root", slot_finalized>>)
               [] config.method = "slotsUpdates" ->
                    IF m.status # Processed THEN Told(FALSE, <<m.status>>)
                    ELSE IF stats = NoStats THEN <<>> ELSE Told(FALSE, <<"frozen", stats>>)
               [] config.method = "transaction" -> Told(FALSE, TransactionUpdate(config, m))
               [] config.method = "block" -> Told(FALSE, BlockUpdate(config, m))
               [] OTHER -> Told(FALSE, <<m.kind>>)

(***************************************************************************)
(* SubscriptionsIndex: per commitment a set of entries, each a bucket, the *)
(* key within it and the subscription.                                     *)
(***************************************************************************)
Entry(id, config) ==
    CASE config.method \in {"account", "program"} -> <<config.method, config.key, id>>
      [] config.method = "signature" -> <<"signature", config.sig, id>>
      [] config.method = "logs" /\ config.kind = "mentions" ->
           <<"logs_mentions", CHOOSE k \in config.keys : TRUE, id>>
      [] config.method = "logs" -> <<"logs_all", "", id>>
      [] OTHER -> <<config.method, "", id>>

\* Mutant: accounts are looked up by owner only.
CandidatesByOwner(index, m) ==
    {e[3] : e \in {x \in index : m.kind = "account" /\ x[1] = "program" /\ x[2] = m.owner}}

\* SubscriptionsIndex::candidates
Candidates(index, m) ==
    LET Among(bucket, keys) == {e[3] : e \in {x \in index : x[1] = bucket /\ x[2] \in keys}}
    IN  CASE m.kind = "slot" -> UNION {Among(b, {""}) : b \in Unkeyed}
          [] m.kind = "account" -> Among("account", {m.key}) \cup Among("program", {m.owner})
          [] m.kind = "tx" -> Among("logs_all", {""}) \cup Among("logs_mentions", m.keys)
                              \cup Among("signature", {m.sig}) \cup Among("transaction", {""})
          [] m.kind = "block" -> Among("block", {""})
          [] OTHER -> {}
=============================================================================
