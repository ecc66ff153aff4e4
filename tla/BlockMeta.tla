------------------------------ MODULE BlockMeta ------------------------------
(***************************************************************************)
(* State of richat/src/grpc/block_meta.rs: what the unary methods of the   *)
(* gRPC server know of the latest blocks.  A message is a record           *)
(* [kind, slot, bank, status, hash, height]; bank 0 stands for none.       *)
(***************************************************************************)
EXTENDS Integers, Sequences, FiniteSets, SequencesExt

CONSTANT MaxAge   \* MAX_PROCESSING_AGE

NoBank == 0

Put(f, k, v) == [x \in DOMAIN f \cup {k} |-> IF x = k THEN v ELSE f[x]]
Keep(f, keys) == [x \in DOMAIN f \cap keys |-> f[x]]
Lookup(f, k, default) == IF k \in DOMAIN f THEN f[k] ELSE default

\* BlockMeta::default and State::default
NoBlock == [slot |-> 0, hash |-> "", height |-> 0, bank |-> NoBank, selected |-> NoBank,
            processed |-> FALSE, confirmed |-> FALSE, finalized |-> FALSE]
NoBlocks == [blocks |-> <<>>, candidates |-> <<>>, hashes |-> <<>>,
             processed |-> 0, confirmed |-> 0, finalized |-> 0]

SetCandidate(entry, c) ==
    [entry EXCEPT !.slot = c.slot, !.hash = c.hash, !.height = c.height, !.bank = c.bank]

\* Mutant: the latest candidate always wins.
AcceptsAny(entry, c) == TRUE

Accepts(entry, c) ==
    entry.selected = NoBank \/ c.bank = NoBank \/ entry.selected = c.bank

\* BlockMeta::select_candidate
SelectCandidate(entry, candidates, bank) ==
    LET chosen == [entry EXCEPT !.selected = IF @ = NoBank THEN bank ELSE @]
        of == SelectSeq(candidates, LAMBDA c : c.bank = bank)
    IN  IF bank = NoBank \/ entry.bank = bank \/ of = <<>> THEN chosen
        ELSE SetCandidate(chosen, of[1])

\* The status of a block is noted for its hash only if its meta was received.
MarkHash(s, hash, level) ==
    [s EXCEPT !.hashes = IF hash \in DOMAIN @
                         THEN [@ EXCEPT ![hash] = [@ EXCEPT ![level] = TRUE]] ELSE @]

OnConfirmed(s, m) ==
    LET entry == SelectCandidate(Lookup(s.blocks, m.slot, NoBlock),
                                 Lookup(s.candidates, m.slot, <<>>), m.bank)
        marked == MarkHash(s, entry.hash, "confirmed")
    IN  [marked EXCEPT !.blocks = Put(@, m.slot, [entry EXCEPT !.confirmed = TRUE]),
                       !.confirmed = m.slot]

\* Mutant: a hash is forgotten at its last valid height.
StillValidBefore(hashes, height) == {h \in DOMAIN hashes : hashes[h].last > height}

StillValid(hashes, height) == {h \in DOMAIN hashes : hashes[h].last >= height}

\* Also forgets the blocks before the finalized one and the hashes that expired.
OnFinalized(s, m) ==
    LET old == Lookup(s.blocks, m.slot, NoBlock)
        entry == IF old.confirmed THEN old
                 ELSE SelectCandidate(old, Lookup(s.candidates, m.slot, <<>>), m.bank)
        marked == MarkHash(s, entry.hash, "finalized")
        blocks == Put(s.blocks, m.slot, [entry EXCEPT !.finalized = TRUE])
    IN  [marked EXCEPT
            !.finalized = m.slot,
            !.hashes = Keep(@, StillValid(@, entry.height)),
            !.blocks = Keep(blocks, {x \in DOMAIN blocks : x >= m.slot}),
            !.candidates = Keep(@, {x \in DOMAIN @ : x > m.slot})]

OnBlockMeta(s, m) ==
    LET c == [NoBlock EXCEPT !.slot = m.slot, !.hash = m.hash, !.height = m.height,
                             !.bank = m.bank, !.processed = TRUE]
        old == Lookup(s.blocks, m.slot, NoBlock)
        entry == IF Accepts(old, c) THEN SetCandidate(old, c) ELSE old
        known == Lookup(s.hashes, m.hash,
                        [last |-> 0, processed |-> FALSE, confirmed |-> FALSE, finalized |-> FALSE])
    IN  [s EXCEPT
            !.blocks = Put(@, m.slot, [entry EXCEPT !.processed = TRUE]),
            !.hashes = Put(@, m.hash, [known EXCEPT !.last = m.height + MaxAge,
                                                    !.processed = TRUE]),
            !.candidates = IF m.bank = NoBank THEN @
                           ELSE Put(@, m.slot, Append(Lookup(@, m.slot, <<>>), c)),
            !.processed = IF m.slot > @ THEN m.slot ELSE @]

\* Mutant: the hash of a cleared candidate stays.
KeptAnyway(hashes, gone) == DOMAIN hashes

KeptOf(hashes, gone) ==
    {h \in DOMAIN hashes : h \notin gone \/ hashes[h].confirmed \/ hashes[h].finalized}

\* EntryUpdateParent: the bank was cleared, its block is no candidate any more.
OnUpdateParent(s, m) ==
    LET list == Lookup(s.candidates, m.slot, <<>>)
        gone == {list[i].hash : i \in {k \in DOMAIN list : list[k].bank = m.bank}}
        left == SelectSeq(list, LAMBDA c : c.bank # m.bank)
        entry == Lookup(s.blocks, m.slot, NoBlock)
        served == /\ m.slot \in DOMAIN s.blocks /\ entry.bank = m.bank
                  /\ ~entry.confirmed /\ ~entry.finalized
    IN  [s EXCEPT
            !.hashes = Keep(@, KeptOf(@, gone)),
            !.candidates = IF m.slot \in DOMAIN @ THEN Put(@, m.slot, left) ELSE @,
            !.blocks = IF ~served THEN @
                       ELSE IF left # <<>> THEN Put(@, m.slot, SetCandidate(entry, Last(left)))
                       ELSE Keep(@, DOMAIN @ \ {m.slot})]

\* State::handle_message
HandleMessage(s, m) ==
    CASE m.kind = "meta" -> OnBlockMeta(s, m)
      [] m.kind = "update_parent" -> OnUpdateParent(s, m)
      [] m.kind = "slot" /\ m.status = "confirmed" -> OnConfirmed(s, m)
      [] m.kind = "slot" /\ m.status = "finalized" -> OnFinalized(s, m)
      [] OTHER -> s

\* State::get_block; NoBlock stands for None.
GetBlock(s, level) == Lookup(s.blocks, s[level], NoBlock)

\* State::is_blockhash_valid: "none" when the block or the hash is not known.
IsBlockhashValid(s, hash, level) ==
    IF s[level] \notin DOMAIN s.blocks \/ hash \notin DOMAIN s.hashes THEN "none"
    ELSE IF GetBlock(s, level).height < s.hashes[hash].last THEN "valid" ELSE "expired"
=============================================================================
