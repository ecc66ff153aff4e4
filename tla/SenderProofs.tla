---------------------------- MODULE SenderProofs ----------------------------
(***************************************************************************)
(* Proofs about Sender.  For every set of slots, banks, sources and        *)
(* configurations, and any number of crashes, reconnects and live epochs:  *)
(* indexes are handed out in order, the replay map is the one a restart    *)
(* would read, and a replay from disk starts before everything it has to   *)
(* deliver.  Until the first restart, the confirmed stream of a slot is    *)
(* one candidate and all of it, and the finalized one is the same.         *)
(***************************************************************************)
EXTENDS Sender, RingLemmas

\* A sequence, of whatever it has.
IsSeq(q) == q \in Seq(Range(q))

\* A message of a slot; of the fields that decide nothing here only the presence.
MsgOK(m) ==
    /\ m \in [kind : {m.kind}, slot : Slot, bank : Bank0, key : {m.key}, sig : {m.sig},
              version : Nat, parts : {m.parts}]

\* The messages kept of a bank are its data.
BankOK(x, s, b) ==
    /\ x \in [open : BOOLEAN, messages : {x.messages}, created : BOOLEAN]
    /\ IsSeq(x.messages)
    /\ \A i \in 1 .. Len(x.messages) :
          LET m == x.messages[i] IN MsgOK(m) /\ m.slot = s /\ m.bank = b /\ IsData(m)

InfoOK(x, s) ==
    /\ x \in [open : {TRUE}, index : Nat, confirmed_bank : Bank0 \cup {NoChoice},
              banks : {x.banks}, cleared : SUBSET Bank]
    /\ x.banks = [b \in Bank0 |-> x.banks[b]]
    /\ \A b \in Bank0 : BankOK(x.banks[b], s, b)

RepOK(x) ==
    /\ x \in [open : {TRUE}, head : Nat, tracked : BOOLEAN, known : {x.known}]
    /\ ~x.tracked => x.known = {}

\* Accounts wait under their bank and signature.
WaitingOK(x, s) ==
    /\ x \in [Bank0 \X Sig -> Seq(Message)]
    /\ \A k \in Bank0 \X Sig : \A i \in 1 .. Len(x[k]) :
          LET m == x[k][i]
          IN  m.slot = s /\ m.bank = k[1] /\ m.kind = "account" /\ m.sig = k[2]

DedupOK(x, s) ==
    /\ x \in [open : {TRUE}, source : Source \cup {NoSource}, seen : {x.seen},
              waiting : {x.waiting}]
    /\ IsFiniteSet(x.seen) /\ WaitingOK(x.waiting, s)

SlotsInv ==
    /\ slots = [s \in Slot |-> slots[s]]
    /\ \A s \in Slot : slots[s] = NoInfo \/ InfoOK(slots[s], s)

ReplayInv ==
    /\ replay = [s \in Slot |-> replay[s]]
    /\ \A s \in Slot : replay[s] = NoReplay \/ RepOK(replay[s])

DedupsOK(x) ==
    /\ x = [s \in Slot |-> x[s]]
    /\ \A s \in Slot : x[s] = NoDedup \/ DedupOK(x[s], s)

DedupInv == DedupsOK(dedup)

\* Messages of any slot in a sequence.
Messages(q) == IsSeq(q) /\ \A i \in 1 .. Len(q) : MsgOK(q[i])

StreamsOK(x) ==
    /\ x = [c \in Commitment |-> x[c]]
    /\ \A c \in Commitment : Messages(x[c])

StreamInv == StreamsOK(stream)

CommandOK(r) ==
    \/ /\ r.op = "push"
       /\ r \in [op : {"push"}, c : Commitment, m : {r.m}, slot : Slot, final : BOOLEAN,
                 index : Nat, init : BOOLEAN]
       /\ r.slot = r.m.slot
    \/ r \in [op : {"trim"}, slot : Slot]

ScalarsInv ==
    /\ setup \in Setups
    /\ slot_finalized \in Nat /\ slot_dropped \in Nat /\ index \in Nat
    /\ replay_from \in Nat \cup {NoSlot}
    /\ durable \in 0 .. Len(journal) /\ floor \in 0 .. index
    /\ sent \in [Source -> SUBSET Message]
    /\ boot \in {"ok", "failed"} /\ crashes \in Nat

\* Indexes grow along the journal and are below the next one.
IndexOK(commands, next) ==
    /\ IsSeq(commands)
    /\ \A i \in 1 .. Len(commands) : CommandOK(commands[i])
    /\ \A i \in 1 .. Len(commands) : IsPush(commands[i]) => commands[i].index < next
    /\ \A i, j \in 1 .. Len(commands) :
          i < j /\ IsPush(commands[i]) /\ IsPush(commands[j]) => commands[i].index < commands[j].index

IndexInv == IndexOK(journal, index)

\* A slot is entered again only behind its trim.
EnteredOK(commands, from) ==
    \A i, j \in 1 .. Len(commands) :
        /\ i < j /\ IsPush(commands[i]) /\ IsPush(commands[j])
        /\ commands[i].init /\ commands[j].init /\ commands[i].slot = commands[j].slot
        /\ commands[i].index >= from
        => \E k \in i .. j : ~IsPush(commands[k]) /\ commands[k].slot = commands[i].slot

EnteredInv == EnteredOK(journal, floor)

\* The state of a slot was made before the next index, and is in the replay map unless
\* the slot fell out of the window.
WindowInv ==
    Storage => \A s \in Slot : slots[s].open =>
        /\ slots[s].index < index
        /\ replay[s].open \/ \E t \in Slot : replay[t].open /\ s + StorageMaxSlots <= t

\* Every record is retained, trimmed or below the floor; so it is without a crash.
RetainedOK(commands, from) ==
    \A j \in 1 .. Len(commands) :
        IsPush(commands[j]) /\ commands[j].index >= from =>
            \/ \E i \in Entered(commands, from, commands[j].slot) : i <= j
            \/ \E k \in j + 1 .. Len(commands) :
                  ~IsPush(commands[k]) /\ commands[k].slot = commands[j].slot

RetainedInv == crashes = 0 => RetainedOK(journal, floor)

\* Nothing is journaled without a storage.
NoStorageInv == ~Storage => journal = <<>> /\ index = 0 /\ replay = [s \in Slot |-> NoReplay]

\* The inductive invariant.
SenderInv ==
    /\ SlotsInv /\ ReplayInv /\ DedupInv /\ StreamInv /\ ScalarsInv
    /\ IndexInv /\ EnteredInv /\ WindowInv /\ RetainedInv /\ NoStorageInv /\ MapIsOnDisk

-----------------------------------------------------------------------------
(* Sequences *)

\* A sequence is one over its range.
LEMMA OverRange ==
    ASSUME NEW A, NEW q \in Seq(A)
    PROVE  IsSeq(q)
<1>1. Len(q) \in Nat /\ DOMAIN q = 1 .. Len(q)
  OBVIOUS
<1>2. q \in [1 .. Len(q) -> Range(q)]
  BY <1>1 DEF Range
<1> QED
  BY <1>1, <1>2 DEF IsSeq

LEMMA SeqLen ==
    ASSUME NEW q, IsSeq(q)
    PROVE  /\ Len(q) \in Nat /\ DOMAIN q = 1 .. Len(q)
           /\ Range(q) = {q[i] : i \in 1 .. Len(q)}
  BY DEF IsSeq, Range

LEMMA ConcatSeq ==
    ASSUME NEW a, NEW b, IsSeq(a), IsSeq(b)
    PROVE  /\ IsSeq(a \o b)
           /\ Len(a \o b) = Len(a) + Len(b)
           /\ \A i \in 1 .. Len(a) : (a \o b)[i] = a[i]
           /\ \A i \in Len(a) + 1 .. Len(a) + Len(b) : (a \o b)[i] = b[i - Len(a)]
<1> DEFINE A == Range(a)
           B == Range(b)
<1>1. a \in Seq(A) /\ b \in Seq(B)
  BY DEF IsSeq
<1> HIDE DEF A, B
<1>2. a \in Seq(A \cup B) /\ b \in Seq(A \cup B)
  BY <1>1
<1>3. /\ a \o b \in Seq(A \cup B)
      /\ Len(a \o b) = Len(a) + Len(b)
      /\ \A i \in 1 .. Len(a) : (a \o b)[i] = a[i]
      /\ \A i \in Len(a) + 1 .. Len(a) + Len(b) : (a \o b)[i] = b[i - Len(a)]
  BY <1>2
<1>4. IsSeq(a \o b)
  BY <1>3, OverRange, Zenon
<1> QED
  BY <1>3, <1>4

LEMMA AppendSeq ==
    ASSUME NEW a, NEW x, IsSeq(a)
    PROVE  /\ IsSeq(Append(a, x))
           /\ Len(Append(a, x)) = Len(a) + 1
           /\ \A i \in 1 .. Len(a) : Append(a, x)[i] = a[i]
           /\ Append(a, x)[Len(a) + 1] = x
<1> DEFINE A == Range(a)
<1>1. a \in Seq(A)
  BY DEF IsSeq
<1> HIDE DEF A
<1>2. a \in Seq(A \cup {x})
  BY <1>1
<1>3. /\ Append(a, x) \in Seq(A \cup {x})
      /\ Len(Append(a, x)) = Len(a) + 1
      /\ \A i \in 1 .. Len(a) : Append(a, x)[i] = a[i]
      /\ Append(a, x)[Len(a) + 1] = x
  BY <1>2
<1>4. IsSeq(Append(a, x))
  BY <1>3, OverRange, Zenon
<1> QED
  BY <1>3, <1>4

LEMMA SubSeqSeq ==
    ASSUME NEW a, IsSeq(a), NEW m \in 1 .. Len(a) + 1, NEW n \in m - 1 .. Len(a)
    PROVE  /\ IsSeq(SubSeq(a, m, n))
           /\ Len(SubSeq(a, m, n)) = n + 1 - m
           /\ \A i \in 1 .. n + 1 - m : SubSeq(a, m, n)[i] = a[m + i - 1]
<1> DEFINE A == Range(a)
<1>1. a \in Seq(A) /\ Len(a) \in Nat
  BY DEF IsSeq
<1> HIDE DEF A
<1>2. SubSeq(a, m, n) \in Seq(A) /\ Len(SubSeq(a, m, n)) = n + 1 - m
  BY <1>1
<1>3. \A i \in 1 .. n + 1 - m : SubSeq(a, m, n)[i] = a[m + i - 1]
  BY <1>1
<1> QED
  BY <1>2, <1>3, OverRange

LEMMA SingleSeq == \A x : IsSeq(<<x>>) /\ Len(<<x>>) = 1 /\ <<x>>[1] = x
<1>1. ASSUME NEW x PROVE IsSeq(<<x>>)
  <2>1. <<x>> \in Seq({x})
    OBVIOUS
  <2> QED
    BY <2>1, OverRange
<1> QED
  BY <1>1

LEMMA EmptyIsSeq == IsSeq(<<>>) /\ Len(<<>>) = 0
<1>1. <<>> \in Seq({}) /\ Len(<<>>) = 0
  OBVIOUS
<1>2. IsSeq(<<>>)
  BY <1>1, OverRange
<1> QED
  BY <1>1, <1>2

\* A function on an initial interval is a sequence.
LEMMA FunctionSeq ==
    ASSUME NEW n \in Nat, NEW q, q = [i \in 1 .. n |-> q[i]]
    PROVE  IsSeq(q) /\ Len(q) = n
<1> DEFINE A == {q[i] : i \in 1 .. n}
<1>1. q \in [1 .. n -> A]
  OBVIOUS
<1> HIDE DEF A
<1>2. q \in Seq(A) /\ Len(q) = n
  BY <1>1
<1> QED
  BY <1>2, OverRange

\* The greatest of some positions of a sequence.
LEMMA MaxPosition ==
    ASSUME NEW n \in Nat, NEW S \in SUBSET (1 .. n), S # {}
    PROVE  Max(S) \in S /\ \A i \in S : i <= Max(S)
<1>1. IsFiniteSet(S)
  <2>1. 1 \in Int /\ n \in Int
    OBVIOUS
  <2>2. IsFiniteSet(1 .. n)
    BY <2>1, FS_Interval, Zenon
  <2> QED
    BY <2>2, FS_Subset, Zenon
<1>2. S \in SUBSET Nat
  OBVIOUS
<1>3. \E m \in S : \A i \in S : i <= m
  BY <1>1, <1>2, GreatestNat
<1>4. \E m \in S : \A i \in S : m >= i
  BY <1>2, <1>3
<1>5. Max(S) \in S /\ \A i \in S : Max(S) >= i
  BY <1>4, Zenon DEF Max
<1> QED
  BY <1>2, <1>5

-----------------------------------------------------------------------------
(* Messages and banks *)

\* What the messages of one slot have in common.
MessagesOf(q, s) == Messages(q) /\ \A i \in 1 .. Len(q) : q[i].slot = s

LEMMA MessagesConcat ==
    ASSUME NEW a, NEW b, Messages(a), Messages(b)
    PROVE  Messages(a \o b)
<1>1. Len(a) \in Nat /\ Len(b) \in Nat /\ IsSeq(a) /\ IsSeq(b)
  BY SeqLen DEF Messages
<1>2. ASSUME NEW i \in 1 .. Len(a) + Len(b) PROVE MsgOK((a \o b)[i])
  <2>1. CASE i \in 1 .. Len(a)
    BY <1>1, <2>1, ConcatSeq DEF Messages
  <2>2. CASE i \in Len(a) + 1 .. Len(a) + Len(b)
    <3>1. i - Len(a) \in 1 .. Len(b)
      BY <1>1, <2>2
    <3> QED
      BY <1>1, <2>2, <3>1, ConcatSeq DEF Messages
  <2> QED
    BY <1>1, <2>1, <2>2
<1> QED
  BY <1>1, <1>2, ConcatSeq DEF Messages

\* The update of an account that is kept is in the messages or is the new one.
LEMMA KeepHighestFrom ==
    ASSUME NEW q, IsSeq(q), NEW m
    PROVE  /\ IsSeq(KeepHighest(q, m))
           /\ \A i \in 1 .. Len(KeepHighest(q, m)) :
                 KeepHighest(q, m)[i] = m \/ \E j \in 1 .. Len(q) : KeepHighest(q, m)[i] = q[j]
<1> DEFINE K == Kept(q, m.key)
           k == Max(K)
<1>1. Len(q) \in Nat /\ DOMAIN q = 1 .. Len(q)
  BY SeqLen
<1>2. K \in SUBSET (1 .. Len(q))
  BY <1>1 DEF Kept
<1>3. ASSUME NEW a, IsSeq(a), \A i \in 1 .. Len(a) : \E j \in 1 .. Len(q) : a[i] = q[j]
      PROVE  /\ IsSeq(Append(a, m))
             /\ \A i \in 1 .. Len(Append(a, m)) :
                   Append(a, m)[i] = m \/ \E j \in 1 .. Len(q) : Append(a, m)[i] = q[j]
  <2>1. Len(a) \in Nat
    BY <1>3, SeqLen
  <2>2. ASSUME NEW i \in 1 .. Len(a) + 1
        PROVE  Append(a, m)[i] = m \/ \E j \in 1 .. Len(q) : Append(a, m)[i] = q[j]
    <3>1. CASE i \in 1 .. Len(a)
      BY <1>3, <3>1, AppendSeq
    <3>2. CASE i = Len(a) + 1
      BY <1>3, <3>2, AppendSeq
    <3> QED
      BY <2>1, <3>1, <3>2
  <2> QED
    BY <1>3, <2>2, AppendSeq
<1>4. CASE K = {}
  <2>1. KeepHighest(q, m) = Append(q, m)
    BY <1>4 DEF KeepHighest
  <2>2. \A i \in 1 .. Len(q) : \E j \in 1 .. Len(q) : q[i] = q[j]
    OBVIOUS
  <2> QED
    BY <1>3, <2>1, <2>2
<1>5. CASE K # {} /\ q[k].version >= m.version
  <2>1. KeepHighest(q, m) = q
    BY <1>5 DEF KeepHighest
  <2> QED
    BY <2>1
<1>6. CASE K # {} /\ ~(q[k].version >= m.version)
  <2>1. KeepHighest(q, m) = Append(RemoveAt(q, k), m)
    BY <1>6 DEF KeepHighest
  <2>2. k \in 1 .. Len(q)
    BY <1>1, <1>2, <1>6, MaxPosition
  <2> HIDE DEF k, K
  <2> DEFINE a == SubSeq(q, 1, k - 1)
             b == SubSeq(q, k + 1, Len(q))
  <2>3. IsSeq(a) /\ Len(a) = k - 1 /\ \A i \in 1 .. k - 1 : a[i] = q[i]
    <3>1. 1 \in 1 .. Len(q) + 1 /\ k - 1 \in 1 - 1 .. Len(q)
      BY <1>1, <2>2
    <3> QED
      BY <1>1, <2>2, <3>1, SubSeqSeq
  <2>4. IsSeq(b) /\ Len(b) = Len(q) - k /\ \A i \in 1 .. Len(q) - k : b[i] = q[k + i]
    <3>1. k + 1 \in 1 .. Len(q) + 1 /\ Len(q) \in (k + 1) - 1 .. Len(q)
      BY <1>1, <2>2
    <3>2. /\ IsSeq(b) /\ Len(b) = Len(q) + 1 - (k + 1)
          /\ \A i \in 1 .. Len(q) + 1 - (k + 1) : b[i] = q[(k + 1) + i - 1]
      BY <3>1, SubSeqSeq
    <3>3. k \in Int /\ Len(q) \in Int
      BY <1>1, <2>2
    <3>4. Len(q) + 1 - (k + 1) = Len(q) - k /\ \A i \in Int : (k + 1) + i - 1 = k + i
      BY <3>3
    <3> HIDE DEF b
    <3>5. ASSUME NEW i \in 1 .. Len(q) - k PROVE b[i] = q[k + i]
      <4>1. (k + 1) + i - 1 = k + i
        BY <3>4
      <4>2. b[i] = q[(k + 1) + i - 1]
        BY <3>2, <3>4
      <4> QED
        BY <4>1, <4>2, Zenon
    <3> QED
      BY <3>2, <3>4, <3>5
  <2>5. RemoveAt(q, k) = a \o b
    BY DEF RemoveAt
  <2> HIDE DEF a, b
  <2>6. ASSUME NEW i \in 1 .. Len(a) + Len(b) PROVE \E j \in 1 .. Len(q) : (a \o b)[i] = q[j]
    <3>1. CASE i \in 1 .. Len(a)
      <4>1. (a \o b)[i] = q[i] /\ i \in 1 .. Len(q)
        BY <1>1, <2>2, <2>3, <2>4, <3>1, ConcatSeq
      <4> QED
        BY <4>1
    <3>2. CASE i \in Len(a) + 1 .. Len(a) + Len(b)
      <4> DEFINE d == i - Len(a)
      <4>1. (a \o b)[i] = b[d]
        BY <2>3, <2>4, <3>2, ConcatSeq
      <4>2. d \in 1 .. Len(b) /\ k + d \in 1 .. Len(q)
        BY <1>1, <2>2, <2>3, <2>4, <3>2
      <4>3. b[d] = q[k + d]
        BY <2>4, <4>2
      <4> QED
        BY <4>1, <4>2, <4>3
    <3> QED
      BY <1>1, <2>2, <2>3, <2>4, <3>1, <3>2
  <2>7. IsSeq(a \o b) /\ Len(a \o b) = Len(a) + Len(b)
    BY <2>3, <2>4, ConcatSeq
  <2> DEFINE r == a \o b
  <2>8. IsSeq(r) /\ \A i \in 1 .. Len(r) : \E j \in 1 .. Len(q) : r[i] = q[j]
    BY <2>6, <2>7
  <2>9. KeepHighest(q, m) = Append(r, m)
    BY <2>1, <2>5
  <2> HIDE DEF r
  <2> QED
    BY <1>3, <2>8, <2>9
<1> QED
  BY <1>4, <1>5, <1>6

\* What is appended to the data of a bank is data of the bank.
DataSeq(q, s, b) ==
    IsSeq(q) /\ \A i \in 1 .. Len(q) : MsgOK(q[i]) /\ q[i].slot = s /\ q[i].bank = b /\ IsData(q[i])

LEMMA DataAppend ==
    ASSUME NEW q, NEW s, NEW b, DataSeq(q, s, b),
           NEW m, MsgOK(m), m.slot = s, m.bank = b, IsData(m)
    PROVE  DataSeq(Append(q, m), s, b) /\ DataSeq(KeepHighest(q, m), s, b)
<1>1. IsSeq(q) /\ Len(q) \in Nat
  BY SeqLen DEF DataSeq
<1>2. DataSeq(Append(q, m), s, b)
  <2>1. ASSUME NEW i \in 1 .. Len(q) + 1
        PROVE  \/ Append(q, m)[i] = m
               \/ i \in 1 .. Len(q) /\ Append(q, m)[i] = q[i]
    <3>1. i = Len(q) + 1 \/ i \in 1 .. Len(q)
      BY <1>1
    <3>2. Append(q, m)[Len(q) + 1] = m /\ \A k \in 1 .. Len(q) : Append(q, m)[k] = q[k]
      BY <1>1, AppendSeq
    <3> QED
      BY <3>1, <3>2
  <2>2. IsSeq(Append(q, m)) /\ Len(Append(q, m)) = Len(q) + 1
    BY <1>1, AppendSeq
  <2> QED
    BY <2>1, <2>2 DEF DataSeq
<1>3. DataSeq(KeepHighest(q, m), s, b)
  BY <1>1, KeepHighestFrom DEF DataSeq
<1> QED
  BY <1>2, <1>3

LEMMA BlockOfOK ==
    ASSUME NEW m, MsgOK(m), NEW q
    PROVE  /\ MsgOK(BlockOf(m, q)) /\ BlockOf(m, q).slot = m.slot /\ BlockOf(m, q).bank = m.bank
           /\ IsData(BlockOf(m, q)) /\ BlockOf(m, q).kind = "block"
  BY DEF MsgOK, BlockOf, IsData

\* A bank with a message more, and the block it makes.
LEMMA BankWithOK ==
    ASSUME NEW x, NEW s, NEW b, BankOK(x, s, b),
           NEW m, MsgOK(m), m.slot = s, m.bank = b, IsData(m)
    PROVE  /\ BankOK(BankWith(x, m), s, b)
           /\ BankWith(x, m).created /\ ~x.created =>
                 /\ \E q : BankWith(x, m).messages = Append(q, BlockOf(m, q)) /\ IsSeq(q)
                 /\ Last(BankWith(x, m).messages).kind = "block"
                 /\ MsgOK(Last(BankWith(x, m).messages))
                 /\ Last(BankWith(x, m).messages).slot = s
                 /\ Last(BankWith(x, m).messages).bank = b
<1> DEFINE q == IF m.kind = "account" THEN KeepHighest(x.messages, m) ELSE Append(x.messages, m)
           r == Append(q, BlockOf(m, q))
<1>1. /\ x = [open |-> x.open, messages |-> x.messages, created |-> x.created]
      /\ x.open \in BOOLEAN /\ x.created \in BOOLEAN
  BY DEF BankOK
<1>2. DataSeq(x.messages, s, b)
  BY DEF BankOK, DataSeq
<1>3. DataSeq(q, s, b)
  BY <1>2, DataAppend
<1>4. DataSeq(r, s, b)
  <2> HIDE DEF q
  <2> QED
    BY <1>3, DataAppend, BlockOfOK
<1>5. BankWith(x, m) =
        IF m.kind = "footer" THEN [open |-> TRUE, messages |-> q, created |-> x.created]
        ELSE IF x.created THEN x
        ELSE IF BlockComplete(q) THEN [open |-> TRUE, created |-> TRUE, messages |-> r]
        ELSE [open |-> TRUE, created |-> FALSE, messages |-> q]
  <2>1. ASSUME NEW y
        PROVE  [x EXCEPT !.open = TRUE, !.messages = y] =
                  [open |-> TRUE, messages |-> y, created |-> x.created]
    <3> DEFINE w == [x EXCEPT !.open = TRUE, !.messages = y]
    <3>1. x \in [open : BOOLEAN, messages : {x.messages}, created : BOOLEAN]
      BY DEF BankOK
    <3>2. w \in [open : {TRUE}, messages : {y}, created : {x.created}]
      BY <3>1
    <3> HIDE DEF w
    <3>3. w = [open |-> TRUE, messages |-> y, created |-> x.created]
      BY <3>2
    <3> QED
      BY <3>3 DEF w
  <2> QED
    BY <2>1, Zenon DEF BankWith
<1> HIDE DEF r
<1>6. r = Append(q, BlockOf(m, q)) /\ Last(r) = BlockOf(m, q)
  <2>1. r = Append(q, BlockOf(m, q))
    BY DEF r
  <2> HIDE DEF q
  <2>2. Len(Append(q, BlockOf(m, q))) = Len(q) + 1
        /\ Append(q, BlockOf(m, q))[Len(q) + 1] = BlockOf(m, q)
    BY <1>3, AppendSeq DEF DataSeq
  <2> QED
    BY <2>1, <2>2 DEF Last
<1>7. IsSeq(q)
  BY <1>3 DEF DataSeq
<1> HIDE DEF q
<1>8. ASSUME NEW y, DataSeq(y, s, b), NEW o \in BOOLEAN, NEW c \in BOOLEAN
      PROVE  BankOK([open |-> o, messages |-> y, created |-> c], s, b)
  BY <1>8 DEF BankOK, DataSeq
<1>9. BankOK(BankWith(x, m), s, b)
  BY <1>1, <1>3, <1>4, <1>5, <1>8
<1>10. ASSUME BankWith(x, m).created, ~x.created PROVE BankWith(x, m).messages = r
  BY <1>5, <1>10
<1> QED
  BY <1>6, <1>7, <1>9, <1>10, BlockOfOK

\* A slot with a message more, and the block that get_block_message returns.
LEMMA InfoWithOK ==
    ASSUME NEW x, NEW s, InfoOK(x, s), NEW m, MsgOK(m), m.slot = s, m.kind # "slot"
    PROVE  /\ InfoOK(InfoWith(x, m), s)
           /\ InfoWith(x, m).index = x.index /\ InfoWith(x, m).confirmed_bank = x.confirmed_bank
           /\ NewBlock(x, m) # <<>> =>
                 LET e == Head(NewBlock(x, m))
                 IN  MsgOK(e) /\ e.slot = s /\ e.kind = "block" /\ e.bank = m.bank
<1>1. /\ x = [open |-> TRUE, index |-> x.index, confirmed_bank |-> x.confirmed_bank,
              banks |-> x.banks, cleared |-> x.cleared]
      /\ x.banks = [b \in Bank0 |-> x.banks[b]] /\ x.index \in Nat
      /\ x.confirmed_bank \in Bank0 \cup {NoChoice} /\ x.cleared \subseteq Bank
      /\ m.bank \in Bank0
  BY DEF InfoOK, MsgOK
<1>2. ASSUME NEW y, BankOK(y, s, m.bank), NEW d, d \subseteq Bank
      PROVE  InfoOK([open |-> TRUE, index |-> x.index, confirmed_bank |-> x.confirmed_bank,
                     banks |-> [x.banks EXCEPT ![m.bank] = y], cleared |-> d], s)
  <2> DEFINE f == [x.banks EXCEPT ![m.bank] = y]
  <2>1. f = [b \in Bank0 |-> IF b = m.bank THEN y ELSE x.banks[b]]
    BY <1>1
  <2>2. \A b \in Bank0 : BankOK(f[b], s, b)
    BY <1>2, <2>1 DEF InfoOK
  <2>3. f = [b \in Bank0 |-> f[b]]
    BY <2>1
  <2> HIDE DEF f
  <2> QED
    BY <1>1, <1>2, <2>2, <2>3 DEF InfoOK
<1>3. CASE m.kind # "update_parent"
  <2> DEFINE y == BankWith(x.banks[m.bank], m)
  <2>1. IsData(m) /\ BankOK(x.banks[m.bank], s, m.bank)
    BY <1>1, <1>3 DEF IsData, InfoOK
  <2>2. BankOK(y, s, m.bank)
    BY <2>1, BankWithOK
  <2>3. InfoWith(x, m) = [open |-> TRUE, index |-> x.index, confirmed_bank |-> x.confirmed_bank,
                          banks |-> [x.banks EXCEPT ![m.bank] = y], cleared |-> x.cleared]
    <3>1. InfoWith(x, m) = [x EXCEPT !.banks = [x.banks EXCEPT ![m.bank] = y]]
      BY <1>1, <1>3 DEF InfoWith
    <3>2. x \in [open : {TRUE}, index : Nat, confirmed_bank : Bank0 \cup {NoChoice},
                 banks : {x.banks}, cleared : SUBSET Bank]
      BY DEF InfoOK
    <3> HIDE DEF y
    <3> QED
      BY <3>1, <3>2
  <2>4. InfoWith(x, m).banks[m.bank] = y
    BY <1>1, <2>3
  <2>5. ASSUME NewBlock(x, m) # <<>>
        PROVE  NewBlock(x, m) = <<Last(y.messages)>> /\ y.created /\ ~x.banks[m.bank].created
    BY <2>4, <2>5, Zenon DEF NewBlock
  <2>6. ASSUME NEW e PROVE Head(<<e>>) = e
    OBVIOUS
  <2>7. ASSUME NewBlock(x, m) # <<>>
        PROVE  LET e == Head(NewBlock(x, m))
               IN  MsgOK(e) /\ e.slot = s /\ e.kind = "block" /\ e.bank = m.bank
    BY <2>1, <2>5, <2>6, <2>7, BankWithOK
  <2> HIDE DEF y
  <2> QED
    BY <1>1, <1>2, <2>2, <2>3, <2>7
<1>4. CASE m.kind = "update_parent"
  <2>1. NewBlock(x, m) = <<>>
    BY <1>4 DEF NewBlock
  <2>2. CASE m.bank = NoBank
    <3>1. InfoWith(x, m) = x
      BY <1>4, <2>2 DEF InfoWith
    <3> QED
      BY <2>1, <3>1
  <2>3. CASE m.bank # NoBank
    <3>1. InfoWith(x, m) = [x EXCEPT !.cleared = x.cleared \cup {m.bank},
                                     !.banks = [x.banks EXCEPT ![m.bank] = NoBankInfo]]
      BY <1>1, <1>4, <2>3 DEF InfoWith
    <3>2. InfoWith(x, m) = [open |-> TRUE, index |-> x.index, confirmed_bank |-> x.confirmed_bank,
                            banks |-> [x.banks EXCEPT ![m.bank] = NoBankInfo],
                            cleared |-> x.cleared \cup {m.bank}]
      <4>1. x \in [open : {TRUE}, index : Nat, confirmed_bank : Bank0 \cup {NoChoice},
                   banks : {x.banks}, cleared : SUBSET Bank]
        BY DEF InfoOK
      <4> QED
        BY <3>1, <4>1
    <3>3. BankOK(NoBankInfo, s, m.bank)
      BY EmptyIsSeq DEF BankOK, NoBankInfo
    <3>4. x.cleared \cup {m.bank} \subseteq Bank
      BY <1>1, <2>3 DEF Bank0
    <3> QED
      BY <1>1, <1>2, <2>1, <3>2, <3>3, <3>4
  <2> QED
    BY <2>2, <2>3
<1> QED
  BY <1>3, <1>4

LEMMA NewInfoOK ==
    ASSUME NEW s, NEW head \in Nat
    PROVE  InfoOK(NewInfo(head), s) /\ NewInfo(head).index = head
<1>1. \A b : BankOK(NoBankInfo, s, b)
  BY EmptyIsSeq DEF BankOK, NoBankInfo
<1> QED
  BY <1>1 DEF InfoOK, NewInfo

-----------------------------------------------------------------------------
(* What one push publishes *)

\* The state that a push carries along.
StOK(st, s) ==
    /\ st \in [info : {st.info}, rep : {st.rep}, final : BOOLEAN, stream : {st.stream},
               journal : {st.journal}, index : Nat]
    /\ InfoOK(st.info, s) /\ RepOK(st.rep) /\ StreamsOK(st.stream) /\ IsSeq(st.journal)

\* A journal with records of slot s more, which take the indexes from i0 on; the one with
\* index head enters the slot.
Grown(j0, i0, j1, i1, s, head) ==
    /\ IsSeq(j0) /\ IsSeq(j1) /\ i0 \in Nat /\ i1 \in Nat
    /\ Len(j0) <= Len(j1) /\ i1 = i0 + (Len(j1) - Len(j0))
    /\ \A i \in 1 .. Len(j0) : j1[i] = j0[i]
    /\ \A i \in Len(j0) + 1 .. Len(j1) :
          /\ CommandOK(j1[i]) /\ IsPush(j1[i]) /\ j1[i].slot = s
          /\ j1[i].index = i0 + (i - Len(j0)) - 1
          /\ j1[i].init <=> j1[i].index = head

After(st, st0, s) ==
    /\ StOK(st, s)
    /\ st.info.index = st0.info.index /\ st.rep.head = st0.rep.head
    /\ st.rep.tracked = st0.rep.tracked
    /\ ~Storage => st.journal = st0.journal /\ st.index = st0.index
    /\ Grown(st0.journal, st0.index, st.journal, st.index, s, st0.info.index)

\* Only what is published differs.
SameSlot(st, st0) == st.info = st0.info /\ st.rep = st0.rep /\ st.final = st0.final

LEMMA GrownSame ==
    ASSUME NEW j, NEW i \in Nat, IsSeq(j), NEW s, NEW head
    PROVE  Grown(j, i, j, i, s, head)
  BY SeqLen DEF Grown

LEMMA GrownTrans ==
    ASSUME NEW j0, NEW i0, NEW j1, NEW i1, NEW j2, NEW i2, NEW s, NEW head,
           Grown(j0, i0, j1, i1, s, head), Grown(j1, i1, j2, i2, s, head)
    PROVE  Grown(j0, i0, j2, i2, s, head) /\ i0 <= i1 /\ i1 <= i2
<1> DEFINE l0 == Len(j0)
           l1 == Len(j1)
           l2 == Len(j2)
<1>1. /\ IsSeq(j0) /\ IsSeq(j1) /\ IsSeq(j2) /\ i0 \in Nat /\ i1 \in Nat /\ i2 \in Nat
      /\ l0 <= l1 /\ l1 <= l2 /\ i1 = i0 + (l1 - l0) /\ i2 = i1 + (l2 - l1)
  BY DEF Grown
<1>2. l0 \in Nat /\ l1 \in Nat /\ l2 \in Nat
  BY <1>1, SeqLen
<1>3. ASSUME NEW i \in 1 .. l0 PROVE j2[i] = j0[i]
  <2>1. i \in 1 .. l1
    BY <1>1, <1>2
  <2> QED
    BY <2>1 DEF Grown
<1>4. ASSUME NEW i \in l0 + 1 .. l2
      PROVE  /\ CommandOK(j2[i]) /\ IsPush(j2[i]) /\ j2[i].slot = s
             /\ j2[i].index = i0 + (i - l0) - 1
             /\ j2[i].init <=> j2[i].index = head
  <2>1. CASE i \in l0 + 1 .. l1
    <3>1. i \in 1 .. l1
      BY <1>2, <2>1
    <3>2. j2[i] = j1[i]
      BY <3>1 DEF Grown
    <3> QED
      BY <2>1, <3>2 DEF Grown
  <2>2. CASE i \in l1 + 1 .. l2
    <3>1. i1 + (i - l1) - 1 = i0 + (i - l0) - 1
      <4> HIDE DEF l0, l1, l2
      <4> QED
        BY <1>1, <1>2
    <3>2. /\ CommandOK(j2[i]) /\ IsPush(j2[i]) /\ j2[i].slot = s
          /\ j2[i].index = i1 + (i - l1) - 1
          /\ j2[i].init <=> j2[i].index = head
      BY <2>2 DEF Grown
    <3> QED
      BY <3>1, <3>2
  <2> QED
    <3> HIDE DEF l0, l1, l2
    <3> QED
      BY <1>1, <1>2, <2>1, <2>2
<1>5. l0 <= l2 /\ i2 = i0 + (l2 - l0) /\ i0 <= i1 /\ i1 <= i2
  <2> HIDE DEF l0, l1, l2
  <2> QED
    BY <1>1, <1>2
<1> QED
  BY <1>1, <1>3, <1>4, <1>5 DEF Grown

LEMMA AfterSame ==
    ASSUME NEW st, NEW s, StOK(st, s)
    PROVE  After(st, st, s)
  BY GrownSame DEF After, StOK

LEMMA AfterTrans ==
    ASSUME NEW s, NEW st0, NEW st1, NEW st2, After(st1, st0, s), After(st2, st1, s)
    PROVE  After(st2, st0, s) /\ st0.index <= st1.index /\ st1.index <= st2.index
  BY GrownTrans DEF After

\* The stream has the messages at its end, and the index counts them.
LongerBy(st1, st, c, q) ==
    /\ st1.stream = [st.stream EXCEPT ![c] = st.stream[c] \o q]
    /\ Journaled(c) => st1.index = st.index + Len(q)

\* Messages of one slot go to the stream and to the journal of a commitment.
LEMMA PushStoredOK ==
    ASSUME NEW s \in Slot, NEW st, StOK(st, s), NEW c \in Commitment,
           NEW q, MessagesOf(q, s)
    PROVE  /\ After(PushStored(st, c, q), st, s) /\ SameSlot(PushStored(st, c, q), st)
           /\ LongerBy(PushStored(st, c, q), st, c, q)
<1> DEFINE n == Len(q)
           rec == [i \in 1 .. n |->
             [op |-> "push", c |-> c, m |-> q[i], slot |-> q[i].slot,
              final |-> c = Processed /\ IsFinalized(q[i]),
              index |-> st.index + i - 1, init |-> st.index + i - 1 = st.info.index]]
           strm == [st.stream EXCEPT ![c] = st.stream[c] \o q]
           jrn == IF Journaled(c) THEN st.journal \o rec ELSE st.journal
           idx == IF Journaled(c) THEN st.index + n ELSE st.index
           st1 == PushStored(st, c, q)
<1>1. /\ st \in [info : {st.info}, rep : {st.rep}, final : BOOLEAN, stream : {st.stream},
                 journal : {st.journal}, index : Nat]
      /\ st.index \in Nat /\ st.final \in BOOLEAN /\ IsSeq(st.journal) /\ n \in Nat /\ IsSeq(q)
  BY SeqLen DEF StOK, MessagesOf, Messages
<1>2. st1 = [st EXCEPT !.stream = strm, !.journal = jrn, !.index = idx]
  BY DEF PushStored
<1>3. IsSeq(rec) /\ Len(rec) = n
  BY <1>1, FunctionSeq
<1>4. \A i \in 1 .. n :
         /\ CommandOK(rec[i]) /\ IsPush(rec[i]) /\ rec[i].slot = s
         /\ rec[i].index = st.index + i - 1
         /\ rec[i].init <=> rec[i].index = st.info.index
  <2> SUFFICES ASSUME NEW i \in 1 .. n
               PROVE  /\ CommandOK(rec[i]) /\ IsPush(rec[i]) /\ rec[i].slot = s
                      /\ rec[i].index = st.index + i - 1
                      /\ rec[i].init <=> rec[i].index = st.info.index
    OBVIOUS
  <2> DEFINE r == rec[i]
  <2>1. r = [op |-> "push", c |-> c, m |-> q[i], slot |-> q[i].slot,
             final |-> c = Processed /\ IsFinalized(q[i]),
             index |-> st.index + i - 1, init |-> st.index + i - 1 = st.info.index]
    OBVIOUS
  <2>2. q[i].slot = s
    BY DEF MessagesOf
  <2>3. st.index + i - 1 \in Nat
    BY <1>1
  <2> HIDE DEF rec, r
  <2>4. CommandOK(r)
    BY <2>1, <2>2, <2>3 DEF CommandOK, IsFinalized
  <2>5. /\ r.op = "push" /\ r.slot = q[i].slot /\ r.index = st.index + i - 1
        /\ r.init = (st.index + i - 1 = st.info.index)
    BY <2>1, Zenon
  <2>6. r.init <=> r.index = st.info.index
    BY <2>5, Zenon
  <2> QED
    BY <2>2, <2>4, <2>5, <2>6, Zenon DEF r, IsPush
<1> HIDE DEF rec
<1>5. Grown(st.journal, st.index, jrn, idx, s, st.info.index)
  <2>1. CASE ~Journaled(c)
    BY <1>1, <2>1, GrownSame
  <2>2. CASE Journaled(c)
    <3> DEFINE l == Len(st.journal)
               j1 == st.journal \o rec
    <3>1. l \in Nat /\ n \in Nat
      BY <1>1, SeqLen
    <3>2. /\ IsSeq(j1) /\ Len(j1) = l + n
          /\ \A i \in 1 .. l : j1[i] = st.journal[i]
          /\ \A i \in l + 1 .. l + n : j1[i] = rec[i - l]
      BY <1>1, <1>3, ConcatSeq
    <3>3. jrn = j1 /\ idx = st.index + n
      BY <2>2
    <3> HIDE DEF l, n, jrn, idx, j1
    <3>4. ASSUME NEW i \in l + 1 .. l + n
          PROVE  i - l \in 1 .. n
      BY <3>1
    <3>5. ASSUME NEW i \in l + 1 .. l + n
          PROVE  /\ CommandOK(j1[i]) /\ IsPush(j1[i]) /\ j1[i].slot = s
                 /\ j1[i].index = st.index + (i - l) - 1
                 /\ j1[i].init <=> j1[i].index = st.info.index
      BY <1>4, <3>2, <3>4
    <3>6. l <= l + n /\ st.index + n = st.index + ((l + n) - l) /\ st.index + n \in Nat
      BY <1>1, <3>1
    <3> QED
      BY <1>1, <3>2, <3>3, <3>5, <3>6 DEF Grown, l
  <2> QED
    BY <2>1, <2>2
<1>6. StreamsOK(strm)
  <2> DEFINE a == st.stream[c]
  <2>1. /\ st.stream = [d \in Commitment |-> st.stream[d]]
        /\ \A d \in Commitment : Messages(st.stream[d])
    BY DEF StOK, StreamsOK
  <2>2. Messages(a \o q)
    BY <2>1, MessagesConcat DEF MessagesOf
  <2> DEFINE y == a \o q
  <2>3. strm = [d \in Commitment |-> IF d = c THEN y ELSE st.stream[d]]
    BY <2>1
  <2> HIDE DEF y, strm
  <2>4. strm = [d \in Commitment |-> strm[d]] /\ \A d \in Commitment : Messages(strm[d])
    BY <2>1, <2>2, <2>3 DEF y
  <2> QED
    BY <2>4 DEF StreamsOK
<1>7. idx \in Nat /\ IsSeq(jrn)
  BY <1>5 DEF Grown
<1>8. /\ Journaled(c) => idx = st.index + Len(q)
      /\ ~Storage => jrn = st.journal /\ idx = st.index
  BY DEF Journaled
<1> HIDE DEF strm, jrn, idx, n
<1>9. /\ st1 \in [info : {st.info}, rep : {st.rep}, final : BOOLEAN, stream : {strm},
                  journal : {jrn}, index : Nat]
      /\ st1.index = idx /\ st1.final = st.final
  BY <1>1, <1>2, <1>7
<1> HIDE DEF st1
<1>10. /\ st1.info = st.info /\ st1.rep = st.rep /\ st1.stream = strm /\ st1.journal = jrn
       /\ st1 \in [info : {st1.info}, rep : {st1.rep}, final : BOOLEAN, stream : {st1.stream},
                   journal : {st1.journal}, index : Nat]
  BY <1>9
<1>11. After(st1, st, s)
  BY <1>5, <1>6, <1>7, <1>8, <1>9, <1>10 DEF After, StOK
<1> QED
  BY <1>8, <1>9, <1>10, <1>11 DEF st1, strm, LongerBy, SameSlot

LEMMA OneMessage ==
    ASSUME NEW e, MsgOK(e)
    PROVE  MessagesOf(<<e>>, e.slot) /\ Len(<<e>>) = 1
<1>1. IsSeq(<<e>>) /\ Len(<<e>>) = 1 /\ <<e>>[1] = e
  BY SingleSeq
<1> QED
  BY <1>1 DEF MessagesOf, Messages

\* The messages of a bank, as a sequence to publish.
LEMMA BankMessages ==
    ASSUME NEW x, NEW s, InfoOK(x, s), NEW b \in Bank0
    PROVE  MessagesOf(x.banks[b].messages, s)
<1>1. BankOK(x.banks[b], s, b)
  BY DEF InfoOK
<1> QED
  BY <1>1 DEF BankOK, MessagesOf, Messages

\* The two steps of what one event publishes: above the processed stream, and to it.
Above(st, e, promoted) ==
    LET status == PushStored(PushStored(st, Confirmed, <<e>>), Finalized, <<e>>)
    IN  IF e.kind = "slot"
        THEN IF promoted = NoChoice THEN status
             ELSE PushStored(status, e.key, st.info.banks[promoted].messages)
        ELSE IF LateForConfirmed(st.info, e) THEN PushStored(st, Confirmed, <<e>>)
        ELSE st

LEMMA AboveOK ==
    ASSUME NEW s \in Slot, NEW st, StOK(st, s), NEW e, MsgOK(e), e.slot = s,
           NEW promoted \in Bank0 \cup {NoChoice}, promoted # NoChoice => e.key \in Commitment
    PROVE  After(Above(st, e, promoted), st, s) /\ SameSlot(Above(st, e, promoted), st)
<1> DEFINE c1 == PushStored(st, Confirmed, <<e>>)
           c2 == PushStored(c1, Finalized, <<e>>)
           c3 == PushStored(c2, e.key, st.info.banks[promoted].messages)
<1>1. MessagesOf(<<e>>, s) /\ Confirmed \in Commitment /\ Finalized \in Commitment
  BY OneMessage DEF Commitment
<1>2. After(c1, st, s) /\ SameSlot(c1, st)
  BY <1>1, PushStoredOK
<1>3. StOK(c1, s)
  BY <1>2 DEF After
<1> HIDE DEF c1
<1>4. After(c2, c1, s) /\ SameSlot(c2, c1)
  BY <1>1, <1>3, PushStoredOK
<1>5. StOK(c2, s)
  BY <1>4 DEF After
<1> HIDE DEF c2
<1>6. After(c2, st, s) /\ SameSlot(c2, st)
  BY <1>2, <1>4, AfterTrans DEF SameSlot
<1>7. ASSUME promoted # NoChoice
      PROVE  After(c3, st, s) /\ SameSlot(c3, st)
  <2>1. MessagesOf(st.info.banks[promoted].messages, s)
    BY <1>7, BankMessages DEF StOK
  <2>2. After(c3, c2, s) /\ SameSlot(c3, c2)
    BY <1>5, <1>7, <2>1, PushStoredOK
  <2> HIDE DEF c3
  <2> QED
    BY <1>6, <2>2, AfterTrans DEF SameSlot
<1>8. After(st, st, s) /\ SameSlot(st, st)
  BY AfterSame DEF SameSlot
<1> USE DEF c2, c1
<1>9. Above(st, e, promoted) = IF e.kind = "slot" THEN IF promoted = NoChoice THEN c2 ELSE c3
                               ELSE IF LateForConfirmed(st.info, e) THEN c1 ELSE st
  BY DEF Above
<1> HIDE DEF c1, c2, c3
<1> QED
  BY <1>2, <1>6, <1>7, <1>8, <1>9

LEMMA ToStreamsOK ==
    ASSUME NEW s \in Slot, NEW st, StOK(st, s), NEW e, MsgOK(e), e.slot = s,
           NEW promoted \in Bank0 \cup {NoChoice}, promoted # NoChoice => e.key \in Commitment
    PROVE  /\ After(ToStreams(st, e, promoted), st, s) /\ SameSlot(ToStreams(st, e, promoted), st)
           /\ Storage => ToStreams(st, e, promoted).index > st.index
<1> DEFINE a == Above(st, e, promoted)
           t == PushStored(a, Processed, <<e>>)
<1>1. After(a, st, s) /\ SameSlot(a, st)
  BY AboveOK
<1>2. StOK(a, s) /\ a.index \in Nat /\ st.index \in Nat
  BY <1>1 DEF After, StOK
<1>3. ToStreams(st, e, promoted) = t
  BY DEF ToStreams, Above
<1> HIDE DEF a
<1>4. MessagesOf(<<e>>, s) /\ Len(<<e>>) = 1 /\ Processed \in Commitment
  BY OneMessage DEF Commitment
<1>5. /\ After(t, a, s) /\ SameSlot(t, a)
      /\ Journaled(Processed) => t.index = a.index + 1
  <2> DEFINE q == <<e>>
  <2>1. MessagesOf(q, s) /\ Len(q) = 1
    BY <1>4
  <2> HIDE DEF q
  <2>2. /\ After(PushStored(a, Processed, q), a, s) /\ SameSlot(PushStored(a, Processed, q), a)
        /\ LongerBy(PushStored(a, Processed, q), a, Processed, q)
    BY <1>2, <1>4, <2>1, PushStoredOK
  <2> USE DEF q
  <2>3. t = PushStored(a, Processed, q)
    OBVIOUS
  <2> HIDE DEF q, t
  <2> QED
    BY <2>1, <2>2, <2>3 DEF LongerBy
<1> HIDE DEF t
<1>6. After(t, st, s) /\ st.index <= a.index
  BY <1>1, <1>5, AfterTrans
<1>7. Storage => t.index > st.index
  BY <1>2, <1>5, <1>6 DEF Journaled
<1> QED
  BY <1>1, <1>3, <1>5, <1>6, <1>7 DEF SameSlot

\* One event: its slot is not written twice, and something is written unless the journal
\* has it.
LEMMA PublishEventOK ==
    ASSUME NEW s \in Slot, NEW st, StOK(st, s), NEW e, MsgOK(e), e.slot = s,
           NEW promoted \in Bank0 \cup {NoChoice}, promoted # NoChoice => e.key \in Commitment
    PROVE  LET st1 == PublishEvent(st, e, promoted)
           IN  /\ After(st1, st, s) /\ st1.info = st.info
               /\ ~st.rep.tracked => st1.rep = st.rep /\ (Storage => st1.index > st.index)
<1> DEFINE rep == IF st.rep.tracked THEN [st.rep EXCEPT !.known = @ \cup {Id(e)}] ELSE st.rep
           fin == st.final \/ IsFinalized(e)
           u == [st EXCEPT !.rep = rep, !.final = fin]
<1>1. CASE AlreadyStored(st.rep, e)
  <2>1. PublishEvent(st, e, promoted) = st
    BY <1>1 DEF PublishEvent
  <2>2. st.rep.tracked
    BY <1>1 DEF StOK, RepOK, AlreadyStored
  <2> QED
    BY <2>1, <2>2, AfterSame
<1>2. CASE ~AlreadyStored(st.rep, e)
  <2>1. PublishEvent(st, e, promoted) = ToStreams(u, e, promoted)
    BY <1>2 DEF PublishEvent
  <2>2. /\ RepOK(rep) /\ rep.head = st.rep.head /\ rep.tracked = st.rep.tracked
        /\ ~st.rep.tracked => rep = st.rep
    <3>1. CASE ~st.rep.tracked
      BY <3>1 DEF StOK
    <3>2. CASE st.rep.tracked
      <4>1. st.rep \in [open : {TRUE}, head : Nat, tracked : BOOLEAN, known : {st.rep.known}]
        BY DEF StOK, RepOK
      <4> DEFINE k == st.rep.known \cup {Id(e)}
      <4>2. rep = [st.rep EXCEPT !.known = k]
        BY <3>2
      <4> HIDE DEF k, rep
      <4>3. rep \in [open : {TRUE}, head : Nat, tracked : BOOLEAN, known : {k}]
            /\ rep.head = st.rep.head /\ rep.tracked = st.rep.tracked
        BY <4>1, <4>2
      <4> QED
        BY <3>2, <4>3 DEF RepOK
    <3> QED
      BY <3>1, <3>2
  <2> HIDE DEF rep
  <2>3. fin \in BOOLEAN
    OBVIOUS
  <2> HIDE DEF fin
  <2>4. st \in [info : {st.info}, rep : {st.rep}, final : BOOLEAN, stream : {st.stream},
                journal : {st.journal}, index : Nat]
    BY DEF StOK
  <2>5. u \in [info : {st.info}, rep : {rep}, final : BOOLEAN, stream : {st.stream},
               journal : {st.journal}, index : Nat] /\ u.index = st.index
    BY <2>3, <2>4
  <2> HIDE DEF u
  <2>6. u.info = st.info /\ u.rep = rep /\ u.stream = st.stream /\ u.journal = st.journal
    BY <2>5
  <2>7. StOK(u, s)
    BY <2>2, <2>5, <2>6 DEF StOK
  <2>8. After(u, st, s)
    <3>1. IsSeq(st.journal) /\ st.index \in Nat
      BY <2>4 DEF StOK
    <3> QED
      BY <2>2, <2>5, <2>6, <2>7, <3>1, GrownSame DEF After
  <2> DEFINE v == ToStreams(u, e, promoted)
  <2>9. /\ After(v, u, s) /\ SameSlot(v, u)
        /\ Storage => v.index > u.index
    BY <2>7, ToStreamsOK
  <2> HIDE DEF v
  <2>10. After(v, st, s)
    BY <2>8, <2>9, AfterTrans
  <2> QED
    BY <2>1, <2>2, <2>5, <2>6, <2>9, <2>10 DEF v, SameSlot
<1> QED
  BY <1>1, <1>2

\* The greatest of some numbers.
LEMMA MaxOfNats ==
    ASSUME NEW S \in SUBSET Nat, IsFiniteSet(S), S # {}
    PROVE  Max(S) \in S /\ \A x \in S : x <= Max(S)
<1>1. \E m \in S : \A x \in S : x <= m
  BY GreatestNat
<1>2. \E m \in S : \A x \in S : m >= x
  BY <1>1
<1>3. Max(S) \in S /\ \A x \in S : Max(S) >= x
  BY <1>2, Zenon DEF Max
<1> QED
  BY <1>3

LEMMA CommitBankOK ==
    ASSUME NEW s, NEW x, InfoOK(x, s), NEW m, MsgOK(m)
    PROVE  /\ CommitBank(x, m) \in Bank0 \cup {NoChoice}
           /\ CommitBank(x, m) # NoChoice => m.key \in Commitment
<1> DEFINE open == {b \in Bank0 : x.banks[b].open}
<1>1. Bank0 \subseteq Nat /\ IsFiniteSet(Bank0)
  BY ConstantsAssumption, FS_AddElement DEF Bank0, NoBank
<1>2. open # {} => Max(open) \in Bank0
  <2>1. open \subseteq Bank0
    OBVIOUS
  <2> HIDE DEF open
  <2>2. IsFiniteSet(open)
    BY <1>1, <2>1, FS_Subset
  <2> QED
    BY <1>1, <2>1, <2>2, MaxOfNats
<1>3. m.bank \in Bank0 /\ NoBank \in Bank0 /\ x.confirmed_bank \in Bank0 \cup {NoChoice}
  BY DEF MsgOK, InfoOK, Bank0
<1>4. SelectBank(x, m.bank) \in Bank0
  BY <1>2, <1>3 DEF SelectBank
<1>5. ASSUME CommitBank(x, m) # NoChoice PROVE m.key \in Commitment
  BY <1>5 DEF CommitBank, Commitment
<1> QED
  BY <1>4, <1>5 DEF CommitBank

\* What is left of the push of one message when the slot is set: the message, then the
\* block it completes.
LEMMA PushOneOK ==
    ASSUME NEW s \in Slot, NEW st, StOK(st, s), NEW m, MsgOK(m), m.slot = s
    PROVE  /\ After(PushOne(st, m), st, s)
           /\ ~st.rep.tracked => /\ PushOne(st, m).rep = st.rep
                                 /\ Storage => PushOne(st, m).index > st.index
<1> DEFINE promoted == IF m.kind = "slot" THEN CommitBank(st.info, m) ELSE NoChoice
           info == IF m.kind # "slot" THEN InfoWith(st.info, m)
                   ELSE IF m.key = Confirmed /\ promoted # NoChoice
                   THEN [st.info EXCEPT !.confirmed_bank = promoted] ELSE st.info
           block == IF m.kind = "slot" THEN <<>> ELSE NewBlock(st.info, m)
           u == [st EXCEPT !.info = info]
           v == PublishEvent(u, m, promoted)
           w == PublishEvent(v, Head(block), NoChoice)
<1>1. PushOne(st, m) = IF block = <<>> THEN v ELSE w
  BY DEF PushOne
<1>2. InfoOK(st.info, s)
  BY DEF StOK
<1>3. /\ promoted \in Bank0 \cup {NoChoice}
      /\ promoted # NoChoice => m.key \in Commitment
  BY <1>2, CommitBankOK
<1>4. InfoOK(info, s) /\ info.index = st.info.index
  <2>1. CASE m.kind # "slot"
    BY <1>2, <2>1, InfoWithOK
  <2>2. CASE m.kind = "slot"
    <3> HIDE DEF promoted
    <3>1. InfoOK([st.info EXCEPT !.confirmed_bank = promoted], s)
          /\ [st.info EXCEPT !.confirmed_bank = promoted].index = st.info.index
      <4> DEFINE y == [st.info EXCEPT !.confirmed_bank = promoted]
      <4>1. /\ y \in [open : {TRUE}, index : Nat, confirmed_bank : Bank0 \cup {NoChoice},
                     banks : {st.info.banks}, cleared : SUBSET Bank]
            /\ y.index = st.info.index
        BY <1>2, <1>3 DEF InfoOK
      <4> HIDE DEF y
      <4>2. y.banks = st.info.banks
        BY <4>1
      <4> QED
        BY <1>2, <4>1, <4>2 DEF InfoOK, y
    <3> QED
      BY <1>2, <2>2, <3>1
  <2> QED
    BY <2>1, <2>2
<1>5. block # <<>> => MsgOK(Head(block)) /\ Head(block).slot = s
  BY <1>2, InfoWithOK
<1> HIDE DEF promoted, info, block
<1>6. st \in [info : {st.info}, rep : {st.rep}, final : BOOLEAN, stream : {st.stream},
              journal : {st.journal}, index : Nat]
  BY DEF StOK
<1>7. u \in [info : {info}, rep : {st.rep}, final : BOOLEAN, stream : {st.stream},
             journal : {st.journal}, index : Nat] /\ u.index = st.index
  BY <1>6
<1> HIDE DEF u
<1>8. u.info = info /\ u.rep = st.rep /\ u.stream = st.stream /\ u.journal = st.journal
  BY <1>7
<1>9. StOK(u, s)
  BY <1>4, <1>7, <1>8 DEF StOK
<1>10. After(u, st, s)
  <2>1. IsSeq(st.journal) /\ st.index \in Nat
    BY <1>6 DEF StOK
  <2> QED
    BY <1>4, <1>7, <1>8, <1>9, <2>1, GrownSame DEF After
<1>11. /\ After(v, u, s) /\ v.info = u.info
       /\ ~u.rep.tracked => v.rep = u.rep /\ (Storage => v.index > u.index)
  BY <1>3, <1>9, PublishEventOK
<1>12. StOK(v, s)
  BY <1>11 DEF After
<1> HIDE DEF v
<1>13. After(v, st, s)
  BY <1>10, <1>11, AfterTrans
<1>14. ASSUME block # <<>>
       PROVE  /\ After(w, st, s)
              /\ ~v.rep.tracked => w.rep = v.rep /\ (Storage => w.index > v.index)
  <2> DEFINE e == Head(block)
  <2>1. MsgOK(e) /\ e.slot = s
    BY <1>5, <1>14
  <2> HIDE DEF e
  <2>2. /\ After(PublishEvent(v, e, NoChoice), v, s)
        /\ ~v.rep.tracked => /\ PublishEvent(v, e, NoChoice).rep = v.rep
                             /\ Storage => PublishEvent(v, e, NoChoice).index > v.index
    BY <1>12, <2>1, PublishEventOK
  <2> QED
    BY <1>13, <2>2, AfterTrans DEF e
<1>15. st.index \in Nat /\ v.index \in Nat /\ (block # <<>> => w.index \in Nat)
  BY <1>6, <1>12, <1>14 DEF After, StOK
<1> HIDE DEF w
<1>16. ASSUME ~st.rep.tracked
       PROVE  /\ PushOne(st, m).rep = st.rep
              /\ Storage => PushOne(st, m).index > st.index
  BY <1>1, <1>7, <1>8, <1>11, <1>14, <1>15, <1>16
<1> QED
  BY <1>1, <1>13, <1>14, <1>16

\* The loop, as a run of states.
Turns(f, st, q, k) == f = [n \in 0 .. k |-> IF n = 0 THEN st ELSE PushOne(f[n - 1], q[n])]

LEMMA TurnsExist ==
    ASSUME NEW st, NEW q, NEW N \in Nat
    PROVE  \E f : Turns(f, st, q, N)
<1> DEFINE K == {k \in Nat : \E f : Turns(f, st, q, k)}
<1>1. 0 \in K
  <2>1. Turns([n \in 0 .. 0 |-> st], st, q, 0)
    BY DEF Turns
  <2> QED
    BY <2>1, Zenon
<1>2. ASSUME NEW k \in Nat, k \in K PROVE k + 1 \in K
  <2>1. PICK f : Turns(f, st, q, k)
    BY <1>2
  <2> DEFINE g == [n \in 0 .. k + 1 |-> IF n = k + 1 THEN PushOne(f[k], q[k + 1]) ELSE f[n]]
  <2>2. ASSUME NEW n \in 0 .. k + 1
        PROVE  g[n] = IF n = 0 THEN st ELSE PushOne(g[n - 1], q[n])
    <3>1. CASE n = 0
      BY <2>1, <3>1 DEF Turns
    <3>2. CASE n = k + 1
      <4>1. n - 1 = k /\ k \in 0 .. k + 1 /\ k # k + 1 /\ n # 0
        BY <3>2
      <4> QED
        BY <3>2, <4>1
    <3>3. CASE n \in 1 .. k
      <4>1. n \in 0 .. k /\ n - 1 \in 0 .. k + 1 /\ n - 1 # k + 1 /\ n # k + 1 /\ n # 0
        BY <3>3
      <4>2. f[n] = PushOne(f[n - 1], q[n])
        BY <2>1, <4>1 DEF Turns
      <4> QED
        BY <4>1, <4>2
    <3> QED
      BY <3>1, <3>2, <3>3
  <2>3. g = [n \in 0 .. k + 1 |-> g[n]]
    OBVIOUS
  <2> HIDE DEF g
  <2>4. Turns(g, st, q, k + 1)
    BY <2>2, <2>3 DEF Turns
  <2> QED
    BY <2>4
<1> HIDE DEF K
<1>3. N \in K
  BY <1>1, <1>2, Induction
<1> QED
  BY <1>3 DEF K

LEMMA PushAllTurns ==
    ASSUME NEW st, NEW q, IsSeq(q)
    PROVE  \E f : Turns(f, st, q, Len(q)) /\ PushAll(st, q) = f[Len(q)]
<1> DEFINE g == CHOOSE f : Turns(f, st, q, Len(q))
<1>1. Turns(g, st, q, Len(q))
  BY SeqLen, TurnsExist
<1>2. PushAll(st, q) = g[Len(q)]
  BY DEF PushAll, Turns
<1> QED
  BY <1>1, <1>2

LEMMA PushAllOK ==
    ASSUME NEW s \in Slot, NEW st, StOK(st, s), NEW q, MessagesOf(q, s)
    PROVE  /\ After(PushAll(st, q), st, s)
           /\ ~st.rep.tracked /\ Storage /\ Len(q) > 0 => PushAll(st, q).index > st.index
<1>1. PICK f : Turns(f, st, q, Len(q)) /\ PushAll(st, q) = f[Len(q)]
  BY PushAllTurns DEF MessagesOf, Messages
<1> DEFINE N == Len(q)
           Good(n) == /\ After(f[n], st, s)
                      /\ ~st.rep.tracked => /\ ~f[n].rep.tracked
                                            /\ Storage /\ n > 0 => f[n].index > st.index
           K == {n \in Nat : n <= N => Good(n)}
<1>2. N \in Nat /\ \A n \in 1 .. N : MsgOK(q[n]) /\ q[n].slot = s
  BY SeqLen DEF MessagesOf, Messages
<1>3. f[0] = st /\ \A n \in 1 .. N : f[n] = PushOne(f[n - 1], q[n])
  <2>1. 0 \in 0 .. N /\ \A n \in 1 .. N : n \in 0 .. N /\ n # 0
    BY <1>2
  <2> QED
    BY <1>1, <2>1 DEF Turns
<1>4. 0 \in K
  BY <1>3, AfterSame
<1>5. ASSUME NEW n \in Nat, n \in K PROVE n + 1 \in K
  <2> SUFFICES ASSUME n + 1 <= N PROVE Good(n + 1)
    OBVIOUS
  <2>1. Good(n) /\ n + 1 \in 1 .. N /\ (n + 1) - 1 = n
    BY <1>2, <1>5
  <2> DEFINE a == f[n]
             m == q[n + 1]
             b == f[n + 1]
  <2>2. b = PushOne(a, m) /\ MsgOK(m) /\ m.slot = s
    BY <1>2, <1>3, <2>1
  <2>3. After(a, st, s) /\ StOK(a, s)
    BY <2>1 DEF After
  <2> HIDE DEF a, b, m
  <2>4. /\ After(b, a, s)
        /\ ~a.rep.tracked => b.rep = a.rep /\ (Storage => b.index > a.index)
    BY <2>2, <2>3, PushOneOK
  <2>5. After(b, st, s) /\ st.index <= a.index
    BY <2>3, <2>4, AfterTrans
  <2>6. a.index \in Nat /\ b.index \in Nat /\ st.index \in Nat
    BY <2>3, <2>5 DEF After, StOK
  <2>7. ASSUME ~st.rep.tracked PROVE ~b.rep.tracked /\ (Storage => b.index > st.index)
    BY <2>3, <2>4, <2>5, <2>6, <2>7 DEF After
  <2> QED
    BY <2>5, <2>7 DEF b
<1> HIDE DEF K
<1>6. N \in K
  BY <1>2, <1>4, <1>5, Induction
<1> QED
  BY <1>1, <1>2, <1>6 DEF K

-----------------------------------------------------------------------------
(* The dedup stage *)

\* What a source may send.
Offered(m, s) ==
    /\ MsgOK(m) /\ m \in Message /\ m.slot = s
    /\ m.kind = "tx" => m.sig \in Sig
    /\ m.kind = "account" => m.sig \in Sig \cup {NoSig}

LEMMA OfferedOK ==
    ASSUME setup \in Setups, NEW src \in Source, NEW m \in setup.offer[src]
    PROVE  Offered(m, m.slot) /\ m.slot \in Slot
<1>1. /\ m = Msg(m.kind, m.slot, m.bank, m.key, m.sig, m.version)
      /\ m.slot \in Slot /\ m.bank \in Bank0 /\ m.version \in Nat
      /\ m.kind = "tx" => m.sig \in Sig
      /\ m.kind = "account" => m.sig \in Sig \cup {NoSig}
  BY ConstantsAssumption
<1>2. m \in Message
  BY DEF Message
<1>3. MsgOK(m)
  <2> DEFINE k == m.kind
             l == m.slot
             b == m.bank
             y == m.key
             g == m.sig
             v == m.version
  <2>1. m = [kind |-> k, slot |-> l, bank |-> b, key |-> y, sig |-> g, version |-> v, parts |-> {}]
    BY <1>1 DEF Msg
  <2>2. l \in Slot /\ b \in Bank0 /\ v \in Nat
    BY <1>1
  <2> HIDE DEF k, l, b, y, g, v
  <2> QED
    BY <2>1, <2>2 DEF MsgOK
<1> QED
  BY <1>1, <1>2, <1>3 DEF Offered

LEMMA MessageOK ==
    ASSUME setup \in Setups, NEW m \in Message
    PROVE  Offered(m, m.slot)
<1>1. PICK src \in Source : m \in setup.offer[src]
  BY DEF Message
<1> QED
  BY <1>1, OfferedOK

\* The same message with another write version.
Versioned(o, m) ==
    /\ MsgOK(o) /\ o.slot = m.slot /\ o.bank = m.bank /\ o.kind = m.kind
    /\ o.key = m.key /\ o.sig = m.sig

LEMMA NewVersionOK ==
    ASSUME NEW m, MsgOK(m), NEW v \in Nat
    PROVE  Versioned([m EXCEPT !.version = v], m)
<1> DEFINE o == [m EXCEPT !.version = v]
<1>1. m \in [kind : {m.kind}, slot : Slot, bank : Bank0, key : {m.key}, sig : {m.sig},
             version : Nat, parts : {m.parts}]
  BY DEF MsgOK
<1>2. /\ o \in [kind : {m.kind}, slot : Slot, bank : Bank0, key : {m.key}, sig : {m.sig},
                version : Nat, parts : {m.parts}]
      /\ o.slot = m.slot /\ o.bank = m.bank
  BY <1>1
<1> HIDE DEF o
<1>3. o.kind = m.kind /\ o.key = m.key /\ o.sig = m.sig /\ o.parts = m.parts
  BY <1>2
<1>4. MsgOK(o)
  BY <1>2, <1>3 DEF MsgOK
<1> QED
  BY <1>2, <1>3, <1>4 DEF o, Versioned

LEMMA WithTxVersionOK ==
    ASSUME NEW m, MsgOK(m), m.sig \in Sig
    PROVE  Versioned(WithTxVersion(m), m)
<1> DEFINE v == PhantomSpace + TxIndex[m.sig]
<1>1. v \in Nat
  BY ConstantsAssumption
<1> HIDE DEF v
<1>2. WithTxVersion(m) = [m EXCEPT !.version = v]
  BY DEF WithTxVersion, v
<1> QED
  BY <1>1, <1>2, NewVersionOK

\* What passes is of the slot.
LEMMA PassedOK ==
    ASSUME setup \in Setups, NEW s, NEW d, DedupOK(d, s), NEW m, Offered(m, s)
    PROVE  MessagesOf(Passed(d, m), s)
<1>1. MsgOK(m) /\ m.slot = s /\ (m.kind = "tx" => m.sig \in Sig) /\ m.bank \in Bank0
      /\ (m.kind = "account" /\ m.sig # NoSig => m.sig \in Sig)
  BY DEF Offered, MsgOK
<1>2. CASE Passed(d, m) = <<>>
  BY <1>2, EmptyIsSeq DEF MessagesOf, Messages
<1>3. ASSUME NEW o, MsgOK(o), o.slot = s PROVE MessagesOf(<<o>>, s)
  BY <1>3, OneMessage
<1>4. CASE m.kind = "account" /\ m.sig = NoSig /\ Passed(d, m) # <<>>
  <2> DEFINE v == Phantoms(d, m.bank)
  <2>1. v \in Nat
    <3>1. IsFiniteSet({e \in d.seen : e[2] = m.bank /\ e[3] = "account" /\ e[5] = NoSig})
      BY FS_Subset DEF DedupOK
    <3> QED
      BY <3>1, FS_CardinalityType DEF Phantoms
  <2> DEFINE o == [m EXCEPT !.version = v]
  <2>2. Passed(d, m) = <<o>>
    BY <1>4 DEF Passed
  <2> HIDE DEF v
  <2>3. MsgOK(o) /\ o.slot = s
    BY <1>1, <2>1, NewVersionOK DEF Versioned
  <2> HIDE DEF o
  <2> QED
    BY <1>3, <2>2, <2>3
<1>5. CASE m.kind = "account" /\ m.sig # NoSig /\ Passed(d, m) # <<>>
  <2> DEFINE o == WithTxVersion(m)
  <2>1. Passed(d, m) = <<o>>
    BY <1>5 DEF Passed
  <2>2. MsgOK(o) /\ o.slot = s
    BY <1>1, <1>5, WithTxVersionOK DEF Versioned
  <2> HIDE DEF o
  <2> QED
    BY <1>3, <2>1, <2>2
<1>6. CASE m.kind = "tx" /\ Passed(d, m) # <<>>
  <2> DEFINE k == <<m.bank, m.sig>>
             mine == d.waiting[k]
             old == [i \in 1 .. Len(mine) |-> WithTxVersion(mine[i])]
  <2>1. Passed(d, m) = Append(old, m)
    BY <1>6 DEF Passed
  <2>2. k \in Bank0 \X Sig /\ k[2] = m.sig
    BY <1>1, <1>6
  <2> HIDE DEF k
  <2>3. mine \in Seq(Message) /\ Len(mine) \in Nat
    BY <2>2 DEF DedupOK, WaitingOK
  <2>4. ASSUME NEW i \in 1 .. Len(mine)
        PROVE  MsgOK(mine[i]) /\ mine[i].slot = s /\ mine[i].sig \in Sig
    <3>1. mine[i].slot = s /\ mine[i].sig = m.sig
      BY <2>2 DEF DedupOK, WaitingOK
    <3>2. mine[i] \in Message
      BY <2>3
    <3>3. MsgOK(mine[i])
      BY <3>2, MessageOK DEF Offered
    <3> QED
      BY <1>1, <1>6, <3>1, <3>3
  <2>5. IsSeq(old) /\ Len(old) = Len(mine)
    BY <2>3, FunctionSeq
  <2>6. ASSUME NEW i \in 1 .. Len(mine) PROVE MsgOK(old[i]) /\ old[i].slot = s
    <3> DEFINE o == mine[i]
    <3>1. old[i] = WithTxVersion(o)
      OBVIOUS
    <3> HIDE DEF o, old
    <3>2. MsgOK(o) /\ o.slot = s /\ o.sig \in Sig
      BY <2>4 DEF o
    <3> QED
      BY <3>1, <3>2, WithTxVersionOK DEF Versioned
  <2> HIDE DEF old, mine
  <2>7. /\ IsSeq(Append(old, m)) /\ Len(Append(old, m)) = Len(mine) + 1
        /\ Append(old, m)[Len(mine) + 1] = m
        /\ \A i \in 1 .. Len(mine) : Append(old, m)[i] = old[i]
    BY <2>5, AppendSeq
  <2>8. ASSUME NEW i \in 1 .. Len(mine) + 1
        PROVE  MsgOK(Append(old, m)[i]) /\ Append(old, m)[i].slot = s
    <3>1. i \in 1 .. Len(mine) \/ i = Len(mine) + 1
      BY <2>3
    <3> QED
      BY <1>1, <2>6, <2>7, <3>1
  <2> QED
    BY <2>1, <2>7, <2>8 DEF MessagesOf, Messages
<1>7. CASE m.kind # "account" /\ m.kind # "tx" /\ Passed(d, m) # <<>>
  <2>1. Passed(d, m) = <<m>>
    BY <1>7 DEF Passed
  <2> QED
    BY <1>1, <1>3, <2>1
<1> QED
  BY <1>2, <1>4, <1>5, <1>6, <1>7

LEMMA NewDedupOK == \A s : DedupOK(NewDedup, s)
<1>1. <<>> \in Seq(Message) /\ Len(<<>>) = 0 /\ IsFiniteSet({})
  BY FS_EmptySet
<1> DEFINE w == [k \in Bank0 \X Sig |-> <<>>]
<1>2. \A s : WaitingOK(w, s)
  <2>1. w \in [Bank0 \X Sig -> Seq(Message)] /\ \A k \in Bank0 \X Sig : Len(w[k]) = 0
    BY <1>1
  <2> HIDE DEF w
  <2> QED
    BY <2>1 DEF WaitingOK
<1>3. NewDedup = [open |-> TRUE, source |-> NoSource, seen |-> {}, waiting |-> w]
  BY DEF NewDedup
<1> HIDE DEF w
<1> QED
  BY <1>1, <1>2, <1>3 DEF DedupOK

LEMMA DedupAfterOK ==
    ASSUME NEW s, NEW d, DedupOK(d, s), NEW src \in Source, NEW m, Offered(m, s)
    PROVE  DedupOK(DedupAfter(d, src, m), s)
<1> DEFINE k == <<m.bank, m.sig>>
           w == IF Seen(d, m) THEN d.waiting
                ELSE IF Waits(d, m) THEN [d.waiting EXCEPT ![k] = Append(d.waiting[k], m)]
                ELSE IF m.kind = "tx" THEN [d.waiting EXCEPT ![k] = <<>>]
                ELSE d.waiting
           a == IF m.bank # NoBank THEN src ELSE d.source
           seen == d.seen \cup {Event(m)}
<1>1. DedupAfter(d, src, m) = [open |-> TRUE, source |-> a, seen |-> seen, waiting |-> w]
  BY DEF DedupAfter
<1>2. WaitingOK(d.waiting, s) /\ d.source \in Source \cup {NoSource} /\ IsFiniteSet(d.seen)
  BY DEF DedupOK
<1>3. m.bank \in Bank0 /\ m.slot = s /\ m \in Message /\ (m.kind = "tx" => m.sig \in Sig)
      /\ (Waits(d, m) => m.kind = "account" /\ m.sig \in Sig)
  BY DEF Offered, MsgOK, Waits
<1>4. ASSUME NEW y \in Seq(Message), k \in Bank0 \X Sig,
             \A i \in 1 .. Len(y) :
                y[i].slot = s /\ y[i].bank = k[1] /\ y[i].kind = "account" /\ y[i].sig = k[2]
      PROVE  WaitingOK([d.waiting EXCEPT ![k] = y], s)
  <2> DEFINE f == [d.waiting EXCEPT ![k] = y]
  <2>1. d.waiting \in [Bank0 \X Sig -> Seq(Message)]
    BY <1>2 DEF WaitingOK
  <2> HIDE DEF k
  <2>2. f \in [Bank0 \X Sig -> Seq(Message)] /\ f[k] = y
        /\ \A h \in Bank0 \X Sig : h # k => f[h] = d.waiting[h]
    BY <1>4, <2>1
  <2> HIDE DEF f
  <2> QED
    BY <1>2, <1>4, <2>2 DEF f, WaitingOK
<1>5. ASSUME Seen(d, m) \/ (~Waits(d, m) /\ m.kind # "tx") PROVE WaitingOK(w, s)
  BY <1>2, <1>5
<1>6. ASSUME ~Seen(d, m), Waits(d, m) PROVE WaitingOK(w, s)
  <2>1. k \in Bank0 \X Sig /\ k[1] = m.bank /\ k[2] = m.sig
    BY <1>3, <1>6
  <2>2. w = [d.waiting EXCEPT ![k] = Append(d.waiting[k], m)]
    BY <1>6
  <2> HIDE DEF k, w
  <2> DEFINE q == d.waiting[k]
             y == Append(q, m)
  <2>3. q \in Seq(Message) /\ Len(q) \in Nat
    BY <1>2, <2>1 DEF WaitingOK
  <2>4. y \in Seq(Message) /\ Len(y) = Len(q) + 1 /\ y[Len(q) + 1] = m
        /\ \A i \in 1 .. Len(q) : y[i] = q[i]
    BY <1>3, <2>3
  <2>5. \A i \in 1 .. Len(q) :
           q[i].slot = s /\ q[i].bank = k[1] /\ q[i].kind = "account" /\ q[i].sig = k[2]
    BY <1>2, <2>1 DEF WaitingOK
  <2> HIDE DEF y, q
  <2>6. ASSUME NEW i \in 1 .. Len(y)
        PROVE  y[i].slot = s /\ y[i].bank = k[1] /\ y[i].kind = "account" /\ y[i].sig = k[2]
    <3>1. i \in 1 .. Len(q) \/ i = Len(q) + 1
      BY <2>3, <2>4
    <3> QED
      BY <1>3, <1>6, <2>1, <2>4, <2>5, <3>1
  <2>7. w = [d.waiting EXCEPT ![k] = y]
    BY <2>2 DEF y, q
  <2> USE DEF k
  <2>8. k \in Bank0 \X Sig
    BY <2>1
  <2> QED
    BY <1>4, <2>4, <2>6, <2>7, <2>8
<1>7. ASSUME ~Seen(d, m), ~Waits(d, m), m.kind = "tx" PROVE WaitingOK(w, s)
  <2>1. k \in Bank0 \X Sig /\ w = [d.waiting EXCEPT ![k] = <<>>]
    BY <1>3, <1>7
  <2> DEFINE y == <<>>
  <2>2. y \in Seq(Message) /\ \A i \in 1 .. Len(y) : FALSE
    OBVIOUS
  <2>3. w = [d.waiting EXCEPT ![k] = y]
    BY <2>1
  <2> HIDE DEF w, y
  <2> QED
    BY <1>4, <2>1, <2>2, <2>3
<1> HIDE DEF w
<1>8. WaitingOK(w, s)
  BY <1>5, <1>6, <1>7
<1> USE DEF w
<1>9. a \in Source \cup {NoSource} /\ IsFiniteSet(seen)
  BY <1>2, FS_AddElement
<1> HIDE DEF w, a, seen
<1> DEFINE z == [open |-> TRUE, source |-> a, seen |-> seen, waiting |-> w]
<1>10. z \in [open : {TRUE}, source : Source \cup {NoSource}, seen : {z.seen},
              waiting : {z.waiting}] /\ z.waiting = w /\ z.seen = seen
  BY <1>9
<1> HIDE DEF z
<1>11. DedupOK(z, s)
  BY <1>8, <1>9, <1>10 DEF DedupOK
<1> QED
  BY <1>1, <1>11 DEF z

-----------------------------------------------------------------------------
(* The trims of a push *)

Increasing(q, n) == \A i, j \in 1 .. n : i < j => q[i] < q[j]

\* A finite set of numbers can be put in order.
LEMMA OrderExists ==
    ASSUME NEW S \in SUBSET Nat, IsFiniteSet(S)
    PROVE  \E q \in [1 .. Cardinality(S) -> S] : Increasing(q, Cardinality(S))
<1> DEFINE K == {n \in Nat : \A T \in SUBSET Nat : IsFiniteSet(T) /\ Cardinality(T) = n =>
                                \E q \in [1 .. n -> T] : Increasing(q, n)}
<1>1. 0 \in K
  <2>1. ASSUME NEW T \in SUBSET Nat PROVE \E q \in [1 .. 0 -> T] : Increasing(q, 0)
    <3>1. [i \in 1 .. 0 |-> 0] \in [1 .. 0 -> T] /\ Increasing([i \in 1 .. 0 |-> 0], 0)
      BY DEF Increasing
    <3> QED
      BY <3>1
  <2> QED
    BY <2>1
<1>2. ASSUME NEW n \in Nat, n \in K PROVE n + 1 \in K
  <2> SUFFICES ASSUME NEW T \in SUBSET Nat, IsFiniteSet(T), Cardinality(T) = n + 1
               PROVE  \E q \in [1 .. n + 1 -> T] : Increasing(q, n + 1)
    OBVIOUS
  <2>1. T # {}
    BY FS_EmptySet
  <2> DEFINE m == Max(T)
             R == T \ {m}
  <2>2. m \in T /\ \A x \in T : x <= m
    BY <2>1, MaxOfNats
  <2> HIDE DEF m
  <2>3. IsFiniteSet(R) /\ Cardinality(R) = n
    <3>1. IsFiniteSet(R) /\ Cardinality(R) = Cardinality(T) - 1
      BY <2>2, FS_RemoveElement
    <3> QED
      BY <3>1
  <2>4. R \in SUBSET Nat
    OBVIOUS
  <2> HIDE DEF R
  <2>5. PICK q \in [1 .. n -> R] : Increasing(q, n)
    BY <1>2, <2>3, <2>4
  <2> DEFINE p == [i \in 1 .. n + 1 |-> IF i = n + 1 THEN m ELSE q[i]]
  <2>6. ASSUME NEW i \in 1 .. n PROVE q[i] \in T /\ q[i] < m /\ p[i] = q[i]
    <3>1. q[i] \in T /\ q[i] # m
      BY <2>5 DEF R
    <3>2. q[i] \in Nat /\ m \in Nat /\ q[i] <= m
      BY <2>2, <3>1
    <3>3. i \in 1 .. n + 1 /\ i # n + 1
      OBVIOUS
    <3> QED
      BY <3>1, <3>2, <3>3
  <2>7. p[n + 1] = m /\ n + 1 \in 1 .. n + 1
    OBVIOUS
  <2>8. p \in [1 .. n + 1 -> T]
    <3>1. \A i \in 1 .. n + 1 : i = n + 1 \/ i \in 1 .. n
      OBVIOUS
    <3>2. \A i \in 1 .. n + 1 : p[i] \in T
      BY <2>2, <2>6, <2>7, <3>1
    <3> QED
      BY <3>2
  <2> HIDE DEF p
  <2>9. Increasing(p, n + 1)
    <3>1. ASSUME NEW i \in 1 .. n + 1, NEW j \in 1 .. n + 1, i < j PROVE p[i] < p[j]
      <4>1. i \in 1 .. n /\ (j \in 1 .. n \/ j = n + 1)
        BY <3>1
      <4>2. CASE j \in 1 .. n
        BY <2>5, <2>6, <3>1, <4>1, <4>2 DEF Increasing
      <4>3. CASE j = n + 1
        BY <2>6, <2>7, <4>1, <4>3
      <4> QED
        BY <4>1, <4>2, <4>3
    <3> QED
      BY <3>1 DEF Increasing
  <2> QED
    BY <2>8, <2>9
<1>3. Cardinality(S) \in Nat
  BY FS_CardinalityType
<1> HIDE DEF K
<1>4. Cardinality(S) \in K
  BY <1>1, <1>2, <1>3, Induction
<1> QED
  BY <1>4 DEF K

\* InOrder names every member.
LEMMA InOrderOK ==
    ASSUME NEW S \in SUBSET Nat, IsFiniteSet(S)
    PROVE  /\ Cardinality(S) \in Nat
           /\ InOrder(S) \in [1 .. Cardinality(S) -> S]
           /\ \A x \in S : \E i \in 1 .. Cardinality(S) : InOrder(S)[i] = x
<1> DEFINE n == Cardinality(S)
           q == InOrder(S)
<1>1. n \in Nat
  BY FS_CardinalityType
<1>2. q = CHOOSE f \in [1 .. n -> S] : Increasing(f, n)
  BY DEF InOrder, Increasing
<1>3. \E f \in [1 .. n -> S] : Increasing(f, n)
  BY OrderExists
<1> HIDE DEF n, q
<1>4. q \in [1 .. n -> S] /\ Increasing(q, n)
  BY <1>2, <1>3
<1>5. ASSUME NEW i \in 1 .. n, NEW j \in 1 .. n, q[i] = q[j] PROVE i = j
  <2>1. q[i] \in Nat /\ q[j] \in Nat /\ i \in Int /\ j \in Int
    <3>1. q[i] \in S /\ q[j] \in S
      BY <1>4
    <3>2. q[i] \in Nat /\ q[j] \in Nat
      BY <3>1
    <3>3. i \in Int /\ j \in Int
      BY <1>1
    <3> QED
      BY <3>2, <3>3
  <2>2. ~(i < j) /\ ~(j < i)
    BY <1>4, <1>5, <2>1 DEF Increasing
  <2> QED
    BY <2>1, <2>2
<1>6. q \in Injection(1 .. n, S)
  BY <1>4, <1>5 DEF Injection, IsInjective
<1>7. Cardinality(1 .. n) = n
  <2>1. 1 \in Int /\ n \in Int /\ (IF 1 > n THEN 0 ELSE n - 1 + 1) = n
    BY <1>1
  <2>2. Cardinality(1 .. n) = IF 1 > n THEN 0 ELSE n - 1 + 1
    BY <2>1, FS_Interval, Zenon
  <2> QED
    BY <2>1, <2>2
<1>8. q \in Surjection(1 .. n, S)
  <2>1. Cardinality(1 .. n) = Cardinality(S) <=> q \in Surjection(1 .. n, S)
    BY <1>6, FS_Injection
  <2> QED
    BY <1>7, <2>1 DEF n
<1> USE DEF n, q
<1> QED
  BY <1>1, <1>4, <1>8 DEF Surjection

\* A journal with the trims of some slots more.
Trimmed(j0, j1, R) ==
    /\ IsSeq(j1) /\ Len(j0) <= Len(j1)
    /\ \A i \in 1 .. Len(j0) : j1[i] = j0[i]
    /\ \A i \in Len(j0) + 1 .. Len(j1) : CommandOK(j1[i]) /\ ~IsPush(j1[i]) /\ j1[i].slot \in R
    /\ \A s \in R : \E i \in Len(j0) + 1 .. Len(j1) : ~IsPush(j1[i]) /\ j1[i].slot = s

LEMMA TrimsOK ==
    ASSUME NEW R \in SUBSET Slot, NEW j, IsSeq(j)
    PROVE  Trimmed(j, j \o Trims(R), R)
<1> DEFINE n == Cardinality(R)
           q == InOrder(R)
           t == [i \in 1 .. n |-> [op |-> "trim", slot |-> q[i]]]
           l == Len(j)
           k == j \o t
<1>1. Trims(R) = t
  BY DEF Trims
<1>2. R \in SUBSET Nat /\ IsFiniteSet(R)
  BY ConstantsAssumption, FS_Subset
<1>3. n \in Nat /\ q \in [1 .. n -> R] /\ \A x \in R : \E i \in 1 .. n : q[i] = x
  BY <1>2, InOrderOK
<1> HIDE DEF n, q
<1>4. IsSeq(t) /\ Len(t) = n /\ l \in Nat
  BY <1>3, FunctionSeq, SeqLen
<1>5. ASSUME NEW i \in 1 .. n
      PROVE  CommandOK(t[i]) /\ ~IsPush(t[i]) /\ t[i].slot \in R /\ t[i].slot = q[i]
  <2>1. q[i] \in R /\ q[i] \in Slot
    BY <1>3
  <2> DEFINE x == q[i]
             r == t[i]
  <2>2. r = [op |-> "trim", slot |-> x]
    OBVIOUS
  <2> HIDE DEF r, x, t
  <2>3. r \in [op : {"trim"}, slot : {x}]
    BY <2>2
  <2>4. CommandOK(r) /\ r.op = "trim" /\ r.slot = x
    BY <2>1, <2>2 DEF CommandOK, x
  <2> QED
    BY <2>1, <2>4 DEF r, x, IsPush
<1> HIDE DEF t
<1>6. /\ IsSeq(k) /\ Len(k) = l + n
      /\ \A i \in 1 .. l : k[i] = j[i]
      /\ \A i \in l + 1 .. l + n : k[i] = t[i - l]
  BY <1>4, ConcatSeq
<1> HIDE DEF k, l
<1>7. ASSUME NEW i \in l + 1 .. l + n PROVE CommandOK(k[i]) /\ ~IsPush(k[i]) /\ k[i].slot \in R
  <2>1. i - l \in 1 .. n
    BY <1>3, <1>4
  <2> QED
    BY <1>5, <1>6, <2>1
<1>8. ASSUME NEW s \in R PROVE \E i \in l + 1 .. l + n : ~IsPush(k[i]) /\ k[i].slot = s
  <2>1. PICK i \in 1 .. n : q[i] = s
    BY <1>3
  <2>2. l + i \in l + 1 .. l + n /\ (l + i) - l = i
    BY <1>3, <1>4
  <2>3. k[l + i] = t[i]
    BY <1>6, <2>2
  <2> QED
    BY <1>5, <2>1, <2>2, <2>3
<1>9. l <= l + n
  BY <1>3, <1>4
<1>10. Trimmed(j, k, R)
  BY <1>6, <1>7, <1>8, <1>9 DEF Trimmed, l
<1> QED
  BY <1>1, <1>10 DEF k

-----------------------------------------------------------------------------
(* The journal of a push *)

\* Membership in Entered, by positions.
Enters(commands, from, s, i) ==
    /\ i \in 1 .. Len(commands) /\ IsPush(commands[i]) /\ commands[i].init
    /\ commands[i].slot = s /\ commands[i].index >= from
    /\ \A j \in i + 1 .. Len(commands) : IsPush(commands[j]) \/ commands[j].slot # s

LEMMA EnteredBy ==
    ASSUME NEW commands, IsSeq(commands), NEW from, NEW s, NEW i
    PROVE  i \in Entered(commands, from, s) <=> Enters(commands, from, s, i)
<1>1. DOMAIN commands = 1 .. Len(commands)
  BY SeqLen
<1> QED
  BY <1>1 DEF Entered, Enters

LEMMA EnteredPositions ==
    ASSUME NEW commands, IsSeq(commands), NEW from, NEW s
    PROVE  Entered(commands, from, s) \in SUBSET (1 .. Len(commands))
  BY EnteredBy DEF Enters

\* A push: records of slot s, then the trims of the slots R.
Pushed(j0, i0, j1, i1, j2, s, head, R) ==
    Grown(j0, i0, j1, i1, s, head) /\ Trimmed(j1, j2, R)

\* Either the slot was entered before, or it is not on disk and the first record enters it.
Fits(head, i0, i1, entered) ==
    head < i0 \/ (head = i0 /\ i1 > i0 /\ entered = {})

\* The three parts of the journal after a push.
LEMMA PushedParts ==
    ASSUME NEW j0, NEW i0, NEW j1, NEW i1, NEW j2, NEW s, NEW head, NEW R,
           Pushed(j0, i0, j1, i1, j2, s, head, R), IndexOK(j0, i0)
    PROVE  /\ IsSeq(j2) /\ Len(j0) \in Nat /\ Len(j1) \in Nat /\ Len(j2) \in Nat
           /\ Len(j0) <= Len(j1) /\ Len(j1) <= Len(j2)
           /\ i0 \in Nat /\ i1 = i0 + (Len(j1) - Len(j0)) /\ i1 \in Nat
           /\ \A i \in 1 .. Len(j0) : j2[i] = j0[i]
           /\ \A i \in Len(j0) + 1 .. Len(j1) :
                 /\ CommandOK(j2[i]) /\ IsPush(j2[i]) /\ j2[i].slot = s
                 /\ j2[i].index = i0 + (i - Len(j0)) - 1
                 /\ j2[i].init <=> j2[i].index = head
           /\ \A i \in Len(j1) + 1 .. Len(j2) :
                 CommandOK(j2[i]) /\ ~IsPush(j2[i]) /\ j2[i].slot \in R
           /\ \A t \in R : \E i \in Len(j1) + 1 .. Len(j2) : ~IsPush(j2[i]) /\ j2[i].slot = t
<1>1. /\ Grown(j0, i0, j1, i1, s, head) /\ Trimmed(j1, j2, R)
      /\ IsSeq(j0) /\ IsSeq(j1) /\ IsSeq(j2) /\ i0 \in Nat /\ i1 \in Nat
  BY DEF Pushed, Grown, Trimmed
<1>2. Len(j0) \in Nat /\ Len(j1) \in Nat /\ Len(j2) \in Nat
  BY <1>1, SeqLen
<1>3. Len(j0) <= Len(j1) /\ Len(j1) <= Len(j2) /\ i1 = i0 + (Len(j1) - Len(j0))
  BY <1>1 DEF Grown, Trimmed
<1>4. \A i \in 1 .. Len(j1) : j2[i] = j1[i]
  BY <1>1 DEF Trimmed
<1>5. ASSUME NEW i \in 1 .. Len(j0) PROVE j2[i] = j0[i]
  <2>1. i \in 1 .. Len(j1)
    BY <1>2, <1>3
  <2> QED
    BY <1>1, <1>4, <2>1 DEF Grown
<1>6. ASSUME NEW i \in Len(j0) + 1 .. Len(j1)
      PROVE  /\ CommandOK(j2[i]) /\ IsPush(j2[i]) /\ j2[i].slot = s
             /\ j2[i].index = i0 + (i - Len(j0)) - 1
             /\ j2[i].init <=> j2[i].index = head
  <2>1. i \in 1 .. Len(j1)
    BY <1>2, <1>3
  <2>2. j2[i] = j1[i]
    BY <1>4, <2>1
  <2> QED
    BY <1>1, <2>2 DEF Grown
<1>7. /\ \A i \in Len(j1) + 1 .. Len(j2) :
            CommandOK(j2[i]) /\ ~IsPush(j2[i]) /\ j2[i].slot \in R
      /\ \A t \in R : \E i \in Len(j1) + 1 .. Len(j2) : ~IsPush(j2[i]) /\ j2[i].slot = t
  BY <1>1 DEF Trimmed
<1> QED
  BY <1>1, <1>2, <1>3, <1>5, <1>6, <1>7

\* The indexes stay in order.
LEMMA PushedIndexes ==
    ASSUME NEW j0, NEW i0, NEW j1, NEW i1, NEW j2, NEW s, NEW head, NEW R,
           Pushed(j0, i0, j1, i1, j2, s, head, R), IndexOK(j0, i0)
    PROVE  IndexOK(j2, i1)
<1> DEFINE l0 == Len(j0)
           l1 == Len(j1)
           l2 == Len(j2)
<1>1. /\ IsSeq(j2) /\ l0 \in Nat /\ l1 \in Nat /\ l2 \in Nat /\ l0 <= l1 /\ l1 <= l2
      /\ i0 \in Nat /\ i1 = i0 + (l1 - l0)
  BY PushedParts
<1>2. /\ \A i \in 1 .. l0 : j2[i] = j0[i]
      /\ \A i \in l0 + 1 .. l1 :
            CommandOK(j2[i]) /\ IsPush(j2[i]) /\ j2[i].index = i0 + (i - l0) - 1
      /\ \A i \in l1 + 1 .. l2 : CommandOK(j2[i]) /\ ~IsPush(j2[i])
  BY PushedParts
<1>3. /\ \A i \in 1 .. l0 : CommandOK(j2[i])
      /\ \A i \in 1 .. l0 : IsPush(j2[i]) => j2[i].index < i0
      /\ \A i, j \in 1 .. l0 : i < j /\ IsPush(j2[i]) /\ IsPush(j2[j]) => j2[i].index < j2[j].index
  BY <1>2 DEF IndexOK
<1>4. ASSUME NEW i \in 1 .. l0, IsPush(j2[i]) PROVE j2[i].index \in Nat
  BY <1>3, <1>4 DEF CommandOK, IsPush
<1> HIDE DEF l0, l1, l2
<1>5. \A i \in 1 .. l2 : i \in 1 .. l0 \/ i \in l0 + 1 .. l1 \/ i \in l1 + 1 .. l2
  BY <1>1
<1>6. \A i \in 1 .. l2 : CommandOK(j2[i])
  BY <1>2, <1>3, <1>5
<1>7. ASSUME NEW i \in 1 .. l2, IsPush(j2[i]) PROVE j2[i].index < i1
  <2>1. CASE i \in 1 .. l0
    <3>1. j2[i].index < i0 /\ j2[i].index \in Nat
      BY <1>3, <1>4, <1>7, <2>1
    <3> QED
      BY <1>1, <3>1
  <2>2. CASE i \in l0 + 1 .. l1
    <3>1. j2[i].index = i0 + (i - l0) - 1
      BY <1>2, <2>2
    <3> QED
      BY <1>1, <2>2, <3>1
  <2> QED
    BY <1>2, <1>5, <1>7, <2>1, <2>2
<1>8. ASSUME NEW i \in 1 .. l2, NEW j \in 1 .. l2, i < j, IsPush(j2[i]), IsPush(j2[j])
      PROVE  j2[i].index < j2[j].index
  <2>1. (i \in 1 .. l0 \/ i \in l0 + 1 .. l1) /\ (j \in 1 .. l0 \/ j \in l0 + 1 .. l1)
    BY <1>2, <1>5, <1>8
  <2>2. CASE j \in 1 .. l0
    <3>1. i \in 1 .. l0
      BY <1>1, <1>8, <2>2
    <3> QED
      BY <1>3, <1>8, <2>2, <3>1
  <2>3. CASE i \in 1 .. l0 /\ j \in l0 + 1 .. l1
    <3>1. j2[i].index < i0 /\ j2[i].index \in Nat /\ j2[j].index = i0 + (j - l0) - 1
      BY <1>2, <1>3, <1>4, <1>8, <2>3
    <3> QED
      BY <1>1, <2>3, <3>1
  <2>4. CASE i \in l0 + 1 .. l1 /\ j \in l0 + 1 .. l1
    <3>1. j2[i].index = i0 + (i - l0) - 1 /\ j2[j].index = i0 + (j - l0) - 1
      BY <1>2, <2>4
    <3> QED
      BY <1>1, <1>8, <2>4, <3>1
  <2> QED
    BY <2>1, <2>2, <2>3, <2>4
<1> USE DEF l0, l1, l2
<1> QED
  BY <1>1, <1>6, <1>7, <1>8 DEF IndexOK

\* What a push enters and removes.
EnteredChange(j0, i0, j2, s, head, R, from, t) ==
    /\ t \in R => Entered(j2, from, t) = {}
    /\ t \notin R /\ (t # s \/ head < i0) => Entered(j2, from, t) = Entered(j0, from, t)
    /\ t \notin R /\ t = s /\ head = i0 =>
          Entered(j2, from, t) = {Len(j0) + 1} /\ j2[Len(j0) + 1].index = i0

LEMMA PushedEntered ==
    ASSUME NEW j0, NEW i0, NEW j1, NEW i1, NEW j2, NEW s, NEW head \in Nat, NEW R,
           Pushed(j0, i0, j1, i1, j2, s, head, R), IndexOK(j0, i0), NEW from \in 0 .. i0,
           Fits(head, i0, i1, Entered(j0, from, s)), NEW t
    PROVE  EnteredChange(j0, i0, j2, s, head, R, from, t)
<1> DEFINE l0 == Len(j0)
           l1 == Len(j1)
           l2 == Len(j2)
<1>1. /\ IsSeq(j2) /\ l0 \in Nat /\ l1 \in Nat /\ l2 \in Nat /\ l0 <= l1 /\ l1 <= l2
      /\ i0 \in Nat /\ i1 = i0 + (l1 - l0)
  BY PushedParts
<1>2. /\ \A i \in 1 .. l0 : j2[i] = j0[i]
      /\ \A i \in l0 + 1 .. l1 :
            /\ IsPush(j2[i]) /\ j2[i].slot = s /\ j2[i].index = i0 + (i - l0) - 1
            /\ j2[i].init <=> j2[i].index = head
      /\ \A i \in l1 + 1 .. l2 : ~IsPush(j2[i]) /\ j2[i].slot \in R
      /\ \A u \in R : \E i \in l1 + 1 .. l2 : ~IsPush(j2[i]) /\ j2[i].slot = u
  BY PushedParts
<1>3. IsSeq(j0)
  BY DEF IndexOK
<1> DEFINE E0 == Entered(j0, from, t)
           E2 == Entered(j2, from, t)
<1>4. \A i : i \in E0 <=> Enters(j0, from, t, i)
  BY <1>3, EnteredBy
<1>5. \A i : i \in E2 <=> Enters(j2, from, t, i)
  BY <1>1, EnteredBy
<1> HIDE DEF E0, E2
<1>6. \A i : Enters(j0, from, t, i) <=>
         /\ i \in 1 .. l0 /\ IsPush(j0[i]) /\ j0[i].init /\ j0[i].slot = t /\ j0[i].index >= from
         /\ \A j \in i + 1 .. l0 : IsPush(j0[j]) \/ j0[j].slot # t
  BY DEF Enters
<1>7. \A i : Enters(j2, from, t, i) <=>
         /\ i \in 1 .. l2 /\ IsPush(j2[i]) /\ j2[i].init /\ j2[i].slot = t /\ j2[i].index >= from
         /\ \A j \in i + 1 .. l2 : IsPush(j2[j]) \/ j2[j].slot # t
  BY DEF Enters
<1> HIDE DEF l0, l1, l2
<1>8. \A i \in 1 .. l2 : i \in 1 .. l0 \/ i \in l0 + 1 .. l1 \/ i \in l1 + 1 .. l2
  BY <1>1
<1>9. ASSUME NEW i \in E2 PROVE i \in 1 .. l0 \/ i \in l0 + 1 .. l1
  <2>1. i \in 1 .. l2 /\ IsPush(j2[i])
    BY <1>5, <1>7
  <2> QED
    BY <1>2, <1>8, <2>1
<1>10. ASSUME t \in R PROVE E2 = {}
  <2> SUFFICES ASSUME NEW i \in E2 PROVE FALSE
    OBVIOUS
  <2>1. PICK k \in l1 + 1 .. l2 : ~IsPush(j2[k]) /\ j2[k].slot = t
    BY <1>2, <1>10
  <2>2. k \in i + 1 .. l2
    BY <1>1, <1>9, <2>1
  <2> QED
    BY <1>5, <1>7, <2>1, <2>2
<1>11. ASSUME t \notin R, NEW i \in 1 .. l0 PROVE i \in E2 <=> i \in E0
  <2>1. j2[i] = j0[i] /\ i \in 1 .. l2
    BY <1>1, <1>2
  <2>2. (\A j \in i + 1 .. l2 : IsPush(j2[j]) \/ j2[j].slot # t)
           <=> (\A j \in i + 1 .. l0 : IsPush(j0[j]) \/ j0[j].slot # t)
    <3>1. ASSUME NEW j \in i + 1 .. l0 PROVE j \in i + 1 .. l2 /\ j2[j] = j0[j]
      BY <1>1, <1>2
    <3>2. ASSUME NEW j \in i + 1 .. l2, j \notin i + 1 .. l0
          PROVE  IsPush(j2[j]) \/ j2[j].slot # t
      <4>1. j \in l0 + 1 .. l1 \/ j \in l1 + 1 .. l2
        BY <1>1, <3>2
      <4> QED
        BY <1>2, <1>11, <4>1
    <3> QED
      BY <3>1, <3>2
  <2> QED
    BY <1>4, <1>5, <1>6, <1>7, <2>1, <2>2
<1>12. ASSUME t \notin R, NEW i \in l0 + 1 .. l1
       PROVE  i \in E2 <=> t = s /\ j2[i].index = head
  <2>1. /\ IsPush(j2[i]) /\ j2[i].slot = s /\ j2[i].index = i0 + (i - l0) - 1
        /\ j2[i].init <=> j2[i].index = head
    BY <1>2
  <2>2. i \in 1 .. l2 /\ j2[i].index >= from
    BY <1>1, <2>1
  <2>3. ASSUME NEW j \in i + 1 .. l2 PROVE IsPush(j2[j]) \/ j2[j].slot # t
    <3>1. j \in l0 + 1 .. l1 \/ j \in l1 + 1 .. l2
      BY <1>1
    <3> QED
      BY <1>2, <1>12, <3>1
  <2> QED
    BY <1>5, <1>7, <2>1, <2>2, <2>3
<1>13. ASSUME t \notin R, t # s \/ head < i0 PROVE E2 = E0
  <2>1. ASSUME NEW i \in l0 + 1 .. l1 PROVE i \notin E2
    <3>1. j2[i].index = i0 + (i - l0) - 1
      BY <1>2
    <3>2. head < i0 => j2[i].index # head
      BY <1>1, <3>1
    <3> QED
      BY <1>12, <1>13, <3>2
  <2>2. \A i \in E0 : i \in 1 .. l0
    BY <1>4, <1>6
  <2> QED
    BY <1>9, <1>11, <1>13, <2>1, <2>2
<1>14. ASSUME t \notin R, t = s, head = i0 PROVE E2 = {l0 + 1} /\ j2[l0 + 1].index = i0
  <2>1. E0 = {} /\ i1 > i0
    BY <1>1, <1>14 DEF Fits, E0
  <2>2. l0 + 1 \in l0 + 1 .. l1
    BY <1>1, <2>1
  <2>3. j2[l0 + 1].index = i0
    <3>1. j2[l0 + 1].index = i0 + ((l0 + 1) - l0) - 1
      BY <1>2, <2>2
    <3> QED
      BY <1>1, <3>1
  <2>4. l0 + 1 \in E2
    BY <1>12, <1>14, <2>2, <2>3
  <2>5. ASSUME NEW i \in E2 PROVE i = l0 + 1
    <3>1. i \in l0 + 1 .. l1
      BY <1>9, <1>11, <1>14, <2>1
    <3>2. j2[i].index = i0 + (i - l0) - 1 /\ j2[i].index = i0
      BY <1>2, <1>12, <1>14, <3>1
    <3> QED
      BY <1>1, <3>1, <3>2
  <2> QED
    BY <2>3, <2>4, <2>5
<1> USE DEF E0, E2, l0
<1> QED
  BY <1>10, <1>13, <1>14 DEF EnteredChange

\* A slot that is entered stays so until its trim.
LEMMA PushedOnce ==
    ASSUME NEW j0, NEW i0, NEW j1, NEW i1, NEW j2, NEW s, NEW head \in Nat, NEW R,
           Pushed(j0, i0, j1, i1, j2, s, head, R), IndexOK(j0, i0), NEW from \in 0 .. i0,
           Fits(head, i0, i1, Entered(j0, from, s)), EnteredOK(j0, from)
    PROVE  EnteredOK(j2, from)
<1> DEFINE l0 == Len(j0)
           l1 == Len(j1)
           l2 == Len(j2)
<1>1. /\ IsSeq(j2) /\ l0 \in Nat /\ l1 \in Nat /\ l2 \in Nat /\ l0 <= l1 /\ l1 <= l2
      /\ i0 \in Nat
  BY PushedParts
<1>2. /\ \A i \in 1 .. l0 : j2[i] = j0[i]
      /\ \A i \in l0 + 1 .. l1 :
            /\ IsPush(j2[i]) /\ j2[i].slot = s /\ j2[i].index = i0 + (i - l0) - 1
            /\ j2[i].init <=> j2[i].index = head
      /\ \A i \in l1 + 1 .. l2 : ~IsPush(j2[i])
  BY PushedParts
<1>3. IsSeq(j0)
  BY DEF IndexOK
<1>4. Fits(head, i0, i1, Entered(j0, from, s)) => head < i0 \/ (head = i0 /\ Entered(j0, from, s) = {})
  BY DEF Fits
<1> DEFINE Between(j, a, b) == \E k \in a .. b : ~IsPush(j[k]) /\ j[k].slot = j[a].slot
<1>5. ASSUME NEW i \in 1 .. l2, NEW j \in 1 .. l2, i < j, IsPush(j2[i]), IsPush(j2[j]),
             j2[i].init, j2[j].init, j2[i].slot = j2[j].slot, j2[i].index >= from
      PROVE  Between(j2, i, j)
  <2>1. (i \in 1 .. l0 \/ i \in l0 + 1 .. l1) /\ (j \in 1 .. l0 \/ j \in l0 + 1 .. l1)
    <3> HIDE DEF l0, l1, l2
    <3>1. \A k \in 1 .. l2 : k \in 1 .. l0 \/ k \in l0 + 1 .. l1 \/ k \in l1 + 1 .. l2
      BY <1>1
    <3> QED
      BY <1>2, <1>5, <3>1
  <2>2. CASE j \in 1 .. l0
    <3>1. i \in 1 .. l0
      <4> HIDE DEF l0, l1, l2
      <4> QED
        BY <1>1, <1>5, <2>2
    <3>2. Between(j0, i, j)
      <4>1. j2[i] = j0[i] /\ j2[j] = j0[j]
        BY <1>2, <2>2, <3>1
      <4>2. /\ i < j /\ IsPush(j0[i]) /\ IsPush(j0[j]) /\ j0[i].init /\ j0[j].init
            /\ j0[i].slot = j0[j].slot /\ j0[i].index >= from
        BY <1>5, <4>1
      <4> QED
        BY <2>2, <3>1, <4>2 DEF EnteredOK
    <3>3. \A k \in i .. j : j2[k] = j0[k]
      <4> HIDE DEF l0, l1, l2
      <4> QED
        BY <1>1, <1>2, <2>2, <3>1
    <3> QED
      BY <1>5, <3>2, <3>3
  <2>3. CASE i \in 1 .. l0 /\ j \in l0 + 1 .. l1
    <3>1. /\ j2[j].slot = s /\ j2[j].index = i0 + (j - l0) - 1 /\ j2[j].index = head
          /\ j2[i] = j0[i]
      BY <1>2, <1>5, <2>3
    <3>2. ~(head < i0)
      <4> HIDE DEF l0, l1, l2
      <4> QED
        BY <1>1, <2>3, <3>1
    <3>3. i \notin Entered(j0, from, s)
      BY <1>4, <3>2
    <3>4. ~Enters(j0, from, s, i)
      BY <1>3, <3>3, EnteredBy
    <3>5. PICK k \in i + 1 .. l0 : ~IsPush(j0[k]) /\ j0[k].slot = s
      BY <1>5, <2>3, <3>1, <3>4 DEF Enters
    <3>6. k \in i .. j /\ k \in 1 .. l0
      <4> HIDE DEF l0, l1, l2
      <4> QED
        BY <1>1, <2>3, <3>5
    <3>7. j2[k] = j0[k]
      BY <1>2, <3>6
    <3> QED
      BY <1>5, <3>1, <3>5, <3>6, <3>7
  <2>4. CASE i \in l0 + 1 .. l1 /\ j \in l0 + 1 .. l1
    <3>1. /\ j2[i].index = i0 + (i - l0) - 1 /\ j2[j].index = i0 + (j - l0) - 1
          /\ j2[i].index = head /\ j2[j].index = head
      BY <1>2, <1>5, <2>4
    <3> HIDE DEF l0, l1, l2
    <3>2. i = j
      BY <1>1, <2>4, <3>1
    <3> QED
      BY <1>5, <3>2
  <2>5. ~(i \in l0 + 1 .. l1 /\ j \in 1 .. l0)
    <3> HIDE DEF l0, l1, l2
    <3> QED
      BY <1>1, <1>5
  <2> QED
    BY <2>1, <2>2, <2>3, <2>4, <2>5
<1> QED
  BY <1>5 DEF EnteredOK

\* A record of the slot is behind its entry, unless a trim is behind the record.
LEMMA PushedRetained ==
    ASSUME NEW j0, NEW i0, NEW j1, NEW i1, NEW j2, NEW s, NEW head \in Nat, NEW R,
           Pushed(j0, i0, j1, i1, j2, s, head, R), IndexOK(j0, i0), NEW from \in 0 .. i0,
           Fits(head, i0, i1, Entered(j0, from, s)), RetainedOK(j0, from),
           s \in R \/ head = i0 \/ Entered(j0, from, s) # {}
    PROVE  RetainedOK(j2, from)
<1> DEFINE l0 == Len(j0)
           l1 == Len(j1)
           l2 == Len(j2)
<1>1. /\ IsSeq(j2) /\ l0 \in Nat /\ l1 \in Nat /\ l2 \in Nat /\ l0 <= l1 /\ l1 <= l2
      /\ i0 \in Nat
  BY PushedParts
<1>2. /\ \A i \in 1 .. l0 : j2[i] = j0[i]
      /\ \A i \in l0 + 1 .. l1 : IsPush(j2[i]) /\ j2[i].slot = s
      /\ \A i \in l1 + 1 .. l2 : ~IsPush(j2[i])
      /\ \A u \in R : \E i \in l1 + 1 .. l2 : ~IsPush(j2[i]) /\ j2[i].slot = u
  BY PushedParts
<1>3. IsSeq(j0)
  BY DEF IndexOK
<1> DEFINE Fine(j) == \/ \E i \in Entered(j2, from, j2[j].slot) : i <= j
                      \/ \E k \in j + 1 .. l2 : ~IsPush(j2[k]) /\ j2[k].slot = j2[j].slot
<1>4. ASSUME NEW j \in 1 .. l2, IsPush(j2[j]), j2[j].index >= from
      PROVE  Fine(j)
  <2>1. j \in 1 .. l0 \/ j \in l0 + 1 .. l1
    <3> HIDE DEF l0, l1, l2
    <3>1. j \in 1 .. l0 \/ j \in l0 + 1 .. l1 \/ j \in l1 + 1 .. l2
      BY <1>1
    <3> QED
      BY <1>2, <1>4, <3>1
  <2> DEFINE t == j2[j].slot
  <2>2. CASE t \in R
    <3>1. PICK k \in l1 + 1 .. l2 : ~IsPush(j2[k]) /\ j2[k].slot = t
      BY <1>2, <2>2
    <3>2. k \in j + 1 .. l2
      <4> HIDE DEF l0, l1, l2
      <4> QED
        BY <1>1, <2>1, <3>1
    <3> QED
      BY <3>1, <3>2
  <2>3. CASE t \notin R /\ j \in 1 .. l0
    <3>1. j2[j] = j0[j]
      BY <1>2, <2>3
    <3>2. \/ \E i \in Entered(j0, from, t) : i <= j
          \/ \E k \in j + 1 .. l0 : ~IsPush(j0[k]) /\ j0[k].slot = t
      BY <1>4, <2>3, <3>1 DEF RetainedOK
    <3>3. CASE \E i \in Entered(j0, from, t) : i <= j
      <4>1. Entered(j0, from, t) # {}
        BY <3>3
      <4>2. Entered(j2, from, t) = Entered(j0, from, t)
        <5> HIDE DEF t
        <5>1. t # s \/ head < i0
          BY <4>1 DEF Fits
        <5>2. t \notin R
          BY <2>3
        <5>3. EnteredChange(j0, i0, j2, s, head, R, from, t)
          BY PushedEntered
        <5> QED
          BY <5>1, <5>2, <5>3 DEF EnteredChange
      <4> QED
        BY <3>3, <4>2
    <3>4. CASE \E k \in j + 1 .. l0 : ~IsPush(j0[k]) /\ j0[k].slot = t
      <4>1. PICK k \in j + 1 .. l0 : ~IsPush(j0[k]) /\ j0[k].slot = t
        BY <3>4
      <4>2. k \in j + 1 .. l2 /\ k \in 1 .. l0
        <5> HIDE DEF l0, l1, l2
        <5> QED
          BY <1>1, <2>3, <4>1
      <4>3. j2[k] = j0[k]
        BY <1>2, <4>2
      <4> QED
        BY <4>1, <4>2, <4>3
    <3> QED
      BY <3>2, <3>3, <3>4
  <2>4. CASE t \notin R /\ j \in l0 + 1 .. l1
    <3>1. t = s
      BY <1>2, <2>4
    <3>2. \E i \in Entered(j2, from, s) : i <= j
      <4>1. CASE head = i0
        <5>1. s \notin R
          BY <2>4, <3>1
        <5>2. Entered(j2, from, s) = {l0 + 1}
          <6>1. EnteredChange(j0, i0, j2, s, head, R, from, s)
            BY PushedEntered
          <6> QED
            BY <4>1, <5>1, <6>1 DEF EnteredChange
        <5> HIDE DEF l0, l1, l2
        <5> QED
          BY <1>1, <2>4, <5>2
      <4>2. CASE head # i0
        <5>1. Entered(j2, from, s) = Entered(j0, from, s) /\ Entered(j0, from, s) # {}
          <6>1. s \notin R /\ head < i0
            BY <2>4, <3>1, <4>2 DEF Fits
          <6>2. EnteredChange(j0, i0, j2, s, head, R, from, s)
            BY PushedEntered
          <6> QED
            BY <2>4, <3>1, <4>2, <6>1, <6>2 DEF EnteredChange
        <5>2. PICK i \in Entered(j0, from, s) : TRUE
          BY <5>1
        <5>3. i \in 1 .. l0
          BY <1>3, <5>2, EnteredPositions
        <5> HIDE DEF l0, l1, l2
        <5>4. i <= j
          BY <1>1, <2>4, <5>3
        <5> QED
          BY <5>1, <5>2, <5>4
      <4> QED
        BY <4>1, <4>2
    <3> QED
      BY <3>1, <3>2
  <2> QED
    BY <2>1, <2>2, <2>3, <2>4
<1> QED
  BY <1>4 DEF RetainedOK

\* The row of a slot, by the positions that entered it.
LEMMA RowBy ==
    ASSUME NEW commands, IsSeq(commands), NEW from, NEW s
    PROVE  /\ Row(commands, from, s).open <=> Entered(commands, from, s) # {}
           /\ Entered(commands, from, s) # {} =>
                 /\ Max(Entered(commands, from, s)) \in Entered(commands, from, s)
                 /\ Row(commands, from, s).head = commands[Max(Entered(commands, from, s))].index
<1> DEFINE E == Entered(commands, from, s)
<1>1. E \in SUBSET (1 .. Len(commands)) /\ Len(commands) \in Nat
  BY EnteredPositions, SeqLen
<1>2. CASE E = {}
  <2>1. Row(commands, from, s) = NoRow
    BY <1>2 DEF Row
  <2> QED
    BY <1>2, <2>1 DEF NoRow
<1>3. CASE E # {}
  <2> DEFINE f == \E j \in Max(E) .. Len(commands) :
                     IsPush(commands[j]) /\ commands[j].slot = s /\ commands[j].final
             h == commands[Max(E)].index
  <2>1. Row(commands, from, s) = [open |-> TRUE, head |-> h, finalized |-> f]
    BY <1>3 DEF Row
  <2>2. Max(E) \in E
    <3> HIDE DEF E
    <3> QED
      BY <1>1, <1>3, MaxPosition
  <2>3. Row(commands, from, s).open = TRUE /\ Row(commands, from, s).head = h
    <3> HIDE DEF f, h
    <3> QED
      BY <2>1
  <2> QED
    BY <1>3, <2>2, <2>3
<1> QED
  BY <1>2, <1>3

\* Rows of slots that nothing entered or removed since.
LEMMA RowSame ==
    ASSUME NEW j0, IsSeq(j0), NEW j2, IsSeq(j2), \A i \in 1 .. Len(j0) : j2[i] = j0[i],
           NEW from, NEW t, Entered(j2, from, t) = Entered(j0, from, t)
    PROVE  /\ Row(j2, from, t).open <=> Row(j0, from, t).open
           /\ Row(j0, from, t).open => Row(j2, from, t).head = Row(j0, from, t).head
<1> DEFINE E == Entered(j0, from, t)
<1>1. /\ Row(j0, from, t).open <=> E # {}
      /\ E # {} => Max(E) \in E /\ Row(j0, from, t).head = j0[Max(E)].index
  BY RowBy
<1>2. /\ Row(j2, from, t).open <=> E # {}
      /\ E # {} => Row(j2, from, t).head = j2[Max(E)].index
  BY RowBy
<1>3. E # {} => j2[Max(E)] = j0[Max(E)]
  BY <1>1, EnteredPositions
<1> HIDE DEF E
<1> QED
  BY <1>1, <1>2, <1>3

-----------------------------------------------------------------------------
(* A push that publishes *)

\* The values that Publish computes on its way.
Rep0(s) == IF replay[s].open THEN replay[s] ELSE NewReplay(index)
Info0(s) == IF slots[s].open THEN slots[s] ELSE NewInfo(Rep0(s).head)
St0(s) == [info |-> Info0(s), rep |-> Rep0(s), final |-> FALSE, stream |-> stream,
           journal |-> journal, index |-> index]
St1(s, passed) == PushAll(St0(s), passed)
Replay1(s, passed) == [replay EXCEPT ![s] = St1(s, passed).rep]
Expired(s, passed) ==
    IF Storage THEN OutsideWindow(OpenSlots(Replay1(s, passed)), StorageMaxSlots) ELSE {}
Slots1(s, passed) ==
    Without([slots EXCEPT ![s] = St1(s, passed).info],
            IF St1(s, passed).final THEN {t \in Slot : t <= s} ELSE {}, NoInfo)
Dedup2(s, passed, dedup1) ==
    Without(dedup1, IF St1(s, passed).final THEN {t \in Slot : t < s} ELSE {}, NoDedup)

LEMMA PublishBy ==
    ASSUME NEW s, NEW passed, NEW dedup1, Publish(s, passed, dedup1)
    PROVE  /\ slots' = Without(Slots1(s, passed), Beyond(Slots1(s, passed), MaxUnfinalized), NoInfo)
           /\ slot_dropped' = Max(Beyond(Slots1(s, passed), MaxUnfinalized) \cup {slot_dropped})
           /\ slot_finalized' = IF St1(s, passed).final THEN s ELSE slot_finalized
           /\ replay_from' = IF St1(s, passed).final THEN Max({replay_from, s + 1})
                             ELSE replay_from
           /\ dedup' = Without(Dedup2(s, passed, dedup1),
                               Beyond(Dedup2(s, passed, dedup1), MaxUnfinalized), NoDedup)
           /\ replay' = IF Storage THEN Without(Replay1(s, passed), Expired(s, passed), NoReplay)
                        ELSE [t \in Slot |-> NoReplay]
           /\ journal' = St1(s, passed).journal \o Trims(Expired(s, passed))
           /\ index' = St1(s, passed).index
           /\ stream' = St1(s, passed).stream
  BY DEF Publish, Rep0, Info0, St0, St1, Replay1, Expired, Slots1, Dedup2, Marked

\* The slot of the replay map that an entry on disk backs.
LEMMA OnDisk ==
    ASSUME SenderInv, Storage, NEW s \in Slot
    PROVE  /\ replay[s].open <=> Entered(journal, floor, s) # {}
           /\ replay[s].open => /\ Max(Entered(journal, floor, s)) \in Entered(journal, floor, s)
                                /\ replay[s].head = journal[Max(Entered(journal, floor, s))].index
                                /\ replay[s].head < index /\ replay[s].head \in Nat
<1> DEFINE E == Entered(journal, floor, s)
           k == Max(E)
<1>1. IsSeq(journal)
  BY DEF SenderInv, IndexInv, IndexOK
<1>2. /\ Row(journal, floor, s).open <=> E # {}
      /\ E # {} => k \in E /\ Row(journal, floor, s).head = journal[k].index
  BY <1>1, RowBy
<1>3. /\ replay[s].open = Row(journal, floor, s).open
      /\ Row(journal, floor, s).open => replay[s].head = Row(journal, floor, s).head
  BY DEF SenderInv, MapIsOnDisk
<1>4. E # {} => k \in 1 .. Len(journal) /\ IsPush(journal[k])
  BY <1>1, <1>2, EnteredBy DEF Enters
<1>5. E # {} => journal[k].index < index /\ journal[k].index \in Nat
  BY <1>4 DEF SenderInv, IndexInv, IndexOK, CommandOK, IsPush
<1> HIDE DEF E, k
<1>6. /\ replay[s].open <=> E # {}
      /\ replay[s].open => k \in E /\ replay[s].head = journal[k].index
                           /\ replay[s].head < index /\ replay[s].head \in Nat
  BY <1>2, <1>3, <1>5
<1> QED
  BY <1>6 DEF E, k

\* A slot is open with its state or closed.
LEMMA OpenOrNot ==
    ASSUME SenderInv, NEW s \in Slot
    PROVE  /\ slots[s].open => InfoOK(slots[s], s)
           /\ replay[s].open => RepOK(replay[s])
           /\ dedup[s].open => DedupOK(dedup[s], s)
  BY DEF SenderInv, SlotsInv, ReplayInv, DedupInv, DedupsOK, NoInfo, NoReplay, NoDedup

LEMMA StartOK ==
    ASSUME SenderInv, NEW s \in Slot
    PROVE  /\ StOK(St0(s), s) /\ St0(s).info = Info0(s) /\ St0(s).rep = Rep0(s)
           /\ St0(s).index = index /\ St0(s).journal = journal /\ St0(s).stream = stream
           /\ St0(s).final = FALSE
           /\ Info0(s).index \in Nat /\ Rep0(s).head \in Nat
<1>1. index \in Nat
  BY DEF SenderInv, ScalarsInv
<1>2. RepOK(Rep0(s)) /\ Rep0(s).head \in Nat
  <2>1. CASE replay[s].open
    <3>1. RepOK(replay[s])
      BY <2>1, OpenOrNot
    <3> QED
      BY <2>1, <3>1 DEF Rep0, RepOK
  <2>2. CASE ~replay[s].open
    BY <1>1, <2>2 DEF Rep0, NewReplay, RepOK
  <2> QED
    BY <2>1, <2>2
<1>3. InfoOK(Info0(s), s) /\ Info0(s).index \in Nat
  <2>1. CASE slots[s].open
    <3>1. InfoOK(slots[s], s)
      BY <2>1, OpenOrNot
    <3> QED
      BY <2>1, <3>1 DEF Info0, InfoOK
  <2>2. CASE ~slots[s].open
    <3>1. Info0(s) = NewInfo(Rep0(s).head)
      BY <2>2 DEF Info0
    <3> QED
      BY <1>2, <3>1, NewInfoOK
  <2> QED
    BY <2>1, <2>2
<1>4. StreamsOK(stream) /\ IsSeq(journal)
  BY DEF SenderInv, StreamInv, IndexInv, IndexOK
<1> DEFINE i == Info0(s)
           r == Rep0(s)
           z == St0(s)
<1>5. z = [info |-> i, rep |-> r, final |-> FALSE, stream |-> stream,
           journal |-> journal, index |-> index]
  BY DEF St0
<1> HIDE DEF i, r, z
<1>6. z.info = i /\ z.rep = r /\ z.index = index /\ z.journal = journal /\ z.stream = stream
      /\ z.final = FALSE
  BY <1>5
<1>7. z \in [info : {z.info}, rep : {z.rep}, final : BOOLEAN, stream : {z.stream},
             journal : {z.journal}, index : Nat]
  BY <1>1, <1>5, <1>6
<1>8. StOK(z, s)
  <2>1. InfoOK(i, s) /\ RepOK(r)
    BY <1>2, <1>3 DEF i, r
  <2> QED
    BY <1>4, <1>6, <1>7, <2>1 DEF StOK
<1> QED
  BY <1>2, <1>3, <1>6, <1>8 DEF i, r, z

LEMMA NotEmpty ==
    ASSUME NEW q, IsSeq(q), q # <<>>
    PROVE  Len(q) > 0
<1> DEFINE A == Range(q)
<1>1. q \in Seq(A)
  BY DEF IsSeq
<1> HIDE DEF A
<1> QED
  BY <1>1

LEMMA AfterAll ==
    ASSUME SenderInv, NEW s \in Slot, NEW passed, MessagesOf(passed, s), passed # <<>>
    PROVE  /\ After(St1(s, passed), St0(s), s)
           /\ ~Rep0(s).tracked /\ Storage => St1(s, passed).index > index
<1>1. Len(passed) > 0
  BY NotEmpty DEF MessagesOf, Messages
<1>2. StOK(St0(s), s) /\ St0(s).rep = Rep0(s) /\ St0(s).index = index
  BY StartOK
<1>3. /\ After(PushAll(St0(s), passed), St0(s), s)
      /\ ~St0(s).rep.tracked /\ Storage /\ Len(passed) > 0 =>
            PushAll(St0(s), passed).index > St0(s).index
  <2> DEFINE z == St0(s)
  <2>1. StOK(z, s)
    BY <1>2
  <2> HIDE DEF z
  <2>2. /\ After(PushAll(z, passed), z, s)
        /\ ~z.rep.tracked /\ Storage /\ Len(passed) > 0 => PushAll(z, passed).index > z.index
    BY <2>1, PushAllOK
  <2> QED
    BY <2>2 DEF z
<1> QED
  BY <1>1, <1>2, <1>3 DEF St1

\* Whether the first record of the push enters its slot.
LEMMA PushFits ==
    ASSUME SenderInv, Storage, NEW s \in Slot, NEW passed, MessagesOf(passed, s), passed # <<>>
    PROVE  /\ Fits(Info0(s).index, index, St1(s, passed).index, Entered(journal, floor, s))
           /\ Info0(s).index = index => Info0(s).index = Rep0(s).head
           /\ ~replay[s].open => Rep0(s).head = index
           /\ slots[s].open => Info0(s).index = slots[s].index /\ slots[s].index < index
           /\ ~slots[s].open => Info0(s).index = Rep0(s).head
<1>1. slots[s].open => Info0(s).index = slots[s].index /\ slots[s].index < index
  BY DEF Info0, SenderInv, WindowInv
<1>2. ~slots[s].open => Info0(s).index = Rep0(s).head
  BY StartOK, NewInfoOK DEF Info0
<1>3. ~replay[s].open => Rep0(s).head = index /\ ~Rep0(s).tracked
  BY DEF Rep0, NewReplay
<1>4. replay[s].open => Rep0(s).head < index
  BY OnDisk DEF Rep0
<1>5. ~replay[s].open => Entered(journal, floor, s) = {}
  BY OnDisk
<1>6. ~replay[s].open => St1(s, passed).index > index
  BY <1>3, AfterAll
<1>7. index \in Nat /\ Info0(s).index \in Nat /\ Rep0(s).head \in Nat
  BY StartOK DEF SenderInv, ScalarsInv
<1> QED
  BY <1>1, <1>2, <1>3, <1>4, <1>5, <1>6, <1>7 DEF Fits

\* The fields of the slot after the push.
LEMMA AfterFields ==
    ASSUME SenderInv, NEW s \in Slot, NEW passed, MessagesOf(passed, s), passed # <<>>
    PROVE  /\ StOK(St1(s, passed), s)
           /\ St1(s, passed).info.index = Info0(s).index
           /\ St1(s, passed).rep.head = Rep0(s).head /\ St1(s, passed).rep.open
           /\ RepOK(St1(s, passed).rep) /\ InfoOK(St1(s, passed).info, s)
           /\ StreamsOK(St1(s, passed).stream)
           /\ St1(s, passed).index \in Nat /\ index <= St1(s, passed).index
           /\ St1(s, passed).final \in BOOLEAN
           /\ Grown(journal, index, St1(s, passed).journal, St1(s, passed).index, s, Info0(s).index)
           /\ ~Storage => St1(s, passed).journal = journal /\ St1(s, passed).index = index
<1> DEFINE x == St1(s, passed)
           z == St0(s)
<1>1. After(x, z, s)
  BY AfterAll
<1>2. /\ StOK(z, s) /\ z.info = Info0(s) /\ z.rep = Rep0(s)
      /\ z.index = index /\ z.journal = journal
  BY StartOK
<1> HIDE DEF x, z
<1>3. /\ StOK(x, s) /\ x.info.index = z.info.index /\ x.rep.head = z.rep.head
      /\ Grown(z.journal, z.index, x.journal, x.index, s, z.info.index)
      /\ ~Storage => x.journal = z.journal /\ x.index = z.index
  BY <1>1 DEF After
<1>4. /\ RepOK(x.rep) /\ InfoOK(x.info, s) /\ StreamsOK(x.stream) /\ x.index \in Nat
      /\ x.final \in BOOLEAN
  BY <1>3 DEF StOK
<1>5. x.rep.open = TRUE
  BY <1>4 DEF RepOK
<1>6. z.index <= x.index
  BY <1>2, <1>3, GrownTrans, GrownSame DEF Grown, StOK
<1> QED
  BY <1>2, <1>3, <1>4, <1>5, <1>6 DEF x

\* The window of the retained slots behind the newest one.
LEMMA Window ==
    ASSUME SenderInv, Storage, NEW s \in Slot, NEW passed, MessagesOf(passed, s), passed # <<>>
    PROVE  \E M \in Slot :
              /\ Replay1(s, passed)[M].open /\ M \notin Expired(s, passed)
              /\ \A t \in Slot : Replay1(s, passed)[t].open =>
                    t <= M /\ (t \in Expired(s, passed) <=> t + StorageMaxSlots <= M)
              /\ \A t \in Slot : Replay1(s, passed)[t] = IF t = s THEN St1(s, passed).rep ELSE replay[t]
              /\ \A t \in Expired(s, passed) : Replay1(s, passed)[t].open /\ t \in Slot
<1> DEFINE f == Replay1(s, passed)
           O == OpenSlots(f)
           M == Max(O)
           X == Expired(s, passed)
           W == StorageMaxSlots
<1>1. \A t \in Slot : f[t] = IF t = s THEN St1(s, passed).rep ELSE replay[t]
  <2>1. replay = [t \in Slot |-> replay[t]]
    BY DEF SenderInv, ReplayInv
  <2> DEFINE y == St1(s, passed).rep
  <2> HIDE DEF y
  <2>2. [replay EXCEPT ![s] = y] = [t \in Slot |-> IF t = s THEN y ELSE replay[t]]
    BY <2>1
  <2> QED
    BY <2>2 DEF Replay1, y
<1>2. St1(s, passed).rep.open
  BY AfterFields
<1> HIDE DEF f
<1>3. O \subseteq Slot /\ s \in O /\ \A t \in Slot : f[t].open <=> t \in O
  BY <1>1, <1>2 DEF OpenSlots
<1>4. X = {t \in O : t < M - W + 1}
  BY DEF Expired, OutsideWindow, f
<1> HIDE DEF O, X
<1>5. M \in O /\ \A t \in O : t <= M
  <2>1. O \in SUBSET Nat /\ IsFiniteSet(O) /\ O # {}
    BY <1>3, ConstantsAssumption, FS_Subset
  <2> QED
    BY <2>1, MaxOfNats
<1> HIDE DEF M
<1>6. W \in Nat /\ W # 0
  BY ConstantsAssumption DEF SenderInv, ScalarsInv, StorageMaxSlots
<1> HIDE DEF W
<1>7. \A t \in O : t \in Nat
  BY <1>3, ConstantsAssumption
<1>8. M \notin X /\ \A t \in O : t \in X <=> t + W <= M
  BY <1>4, <1>5, <1>6, <1>7
<1>9. \A t \in X : t \in O
  BY <1>4
<1> QED
  BY <1>1, <1>3, <1>5, <1>8, <1>9 DEF f, X, W

\* What a push does to the journal and to the replay map.
LEMMA PublishJournal ==
    ASSUME SenderInv, Storage, NEW s \in Slot, NEW passed, MessagesOf(passed, s), passed # <<>>,
           NEW dedup1, Publish(s, passed, dedup1)
    PROVE  /\ Pushed(journal, index, St1(s, passed).journal, index', journal', s, Info0(s).index,
                     Expired(s, passed))
           /\ \A t \in Slot : replay'[t] = IF t \in Expired(s, passed) THEN NoReplay
                                           ELSE IF t = s THEN St1(s, passed).rep ELSE replay[t]
           /\ Fits(Info0(s).index, index, index', Entered(journal, floor, s))
<1>1. /\ journal' = St1(s, passed).journal \o Trims(Expired(s, passed))
      /\ index' = St1(s, passed).index
      /\ replay' = Without(Replay1(s, passed), Expired(s, passed), NoReplay)
  BY PublishBy
<1>2. Grown(journal, index, St1(s, passed).journal, index', s, Info0(s).index)
  BY <1>1, AfterFields
<1>3. PICK M \in Slot :
         /\ \A t \in Slot : Replay1(s, passed)[t] = IF t = s THEN St1(s, passed).rep ELSE replay[t]
         /\ \A t \in Expired(s, passed) : t \in Slot
  BY Window
<1>4. Expired(s, passed) \in SUBSET Slot /\ IsSeq(St1(s, passed).journal)
  BY <1>2, <1>3 DEF Grown
<1>5. Trimmed(St1(s, passed).journal, journal', Expired(s, passed))
  BY <1>1, <1>4, TrimsOK
<1>6. \A t \in Slot : replay'[t] = IF t \in Expired(s, passed) THEN NoReplay
                                   ELSE IF t = s THEN St1(s, passed).rep ELSE replay[t]
  BY <1>1, <1>3 DEF Without
<1>7. Fits(Info0(s).index, index, index', Entered(journal, floor, s))
  BY <1>1, PushFits
<1> QED
  BY <1>2, <1>5, <1>6, <1>7 DEF Pushed

\* A slot whose state outlives its replay entry is trimmed again at once.
LEMMA OldStateExpires ==
    ASSUME SenderInv, Storage, NEW s \in Slot, NEW passed, MessagesOf(passed, s), passed # <<>>,
           slots[s].open, ~replay[s].open
    PROVE  s \in Expired(s, passed)
<1>1. PICK t \in Slot : replay[t].open /\ s + StorageMaxSlots <= t
  BY DEF SenderInv, WindowInv
<1>2. PICK M \in Slot :
         /\ \A u \in Slot : Replay1(s, passed)[u].open =>
               u <= M /\ (u \in Expired(s, passed) <=> u + StorageMaxSlots <= M)
         /\ \A u \in Slot : Replay1(s, passed)[u] = IF u = s THEN St1(s, passed).rep ELSE replay[u]
  BY Window
<1>3. t # s
  BY <1>1
<1>4. t <= M /\ Replay1(s, passed)[s].open
  BY <1>1, <1>2, <1>3, AfterFields
<1>5. s \in Nat /\ t \in Nat /\ M \in Nat /\ StorageMaxSlots \in Nat
  BY ConstantsAssumption DEF SenderInv, ScalarsInv, StorageMaxSlots
<1>6. s + StorageMaxSlots <= M
  BY <1>1, <1>4, <1>5
<1> QED
  BY <1>2, <1>4, <1>6

LEMMA PublishMap ==
    ASSUME SenderInv, Storage, UNCHANGED <<setup, floor>>,
           NEW s \in Slot, NEW passed, MessagesOf(passed, s), passed # <<>>,
           NEW dedup1, Publish(s, passed, dedup1)
    PROVE  MapIsOnDisk'
<1> DEFINE X == Expired(s, passed)
           h == Info0(s).index
           j1 == St1(s, passed).journal
<1>1. /\ Pushed(journal, index, j1, index', journal', s, h, X)
      /\ Fits(h, index, index', Entered(journal, floor, s))
  BY PublishJournal
<1>2. \A t \in Slot : replay'[t] = IF t \in X THEN NoReplay
                                   ELSE IF t = s THEN St1(s, passed).rep ELSE replay[t]
  BY PublishJournal
<1>3. IndexOK(journal, index) /\ floor \in 0 .. index /\ h \in Nat /\ IsSeq(journal)
  BY StartOK DEF SenderInv, ScalarsInv, IndexInv, IndexOK
<1> HIDE DEF X, h, j1
<1>4. IsSeq(journal') /\ \A i \in 1 .. Len(journal) : journal'[i] = journal[i]
  BY <1>1, <1>3, PushedParts
<1>5. ASSUME NEW t \in Slot PROVE EnteredChange(journal, index, journal', s, h, X, floor, t)
  BY <1>1, <1>3, PushedEntered
<1>6. floor' = floor /\ StorageMaxSlots' = StorageMaxSlots
  BY DEF StorageMaxSlots
<1>7. ASSUME NEW t \in Slot
      PROVE  /\ replay'[t].open = Row(journal', floor, t).open
             /\ Row(journal', floor, t).open => replay'[t].head = Row(journal', floor, t).head
  <2>1. /\ Row(journal', floor, t).open <=> Entered(journal', floor, t) # {}
        /\ Entered(journal', floor, t) # {} =>
              Row(journal', floor, t).head = journal'[Max(Entered(journal', floor, t))].index
    BY <1>4, RowBy
  <2>2. Row(journal', floor, t).open \in BOOLEAN
    BY DEF Row, NoRow
  <2>3. replay'[t].open \in BOOLEAN /\ replay[t].open \in BOOLEAN
    <3>1. RepOK(St1(s, passed).rep)
      BY AfterFields
    <3>2. replay[t] = NoReplay \/ RepOK(replay[t])
      BY DEF SenderInv, ReplayInv
    <3>3. ASSUME NEW x, x = NoReplay \/ RepOK(x) PROVE x.open \in BOOLEAN
      <4>1. CASE x = NoReplay
        BY <4>1 DEF NoReplay
      <4>2. CASE RepOK(x)
        <5>1. x.open = TRUE
          BY <4>2 DEF RepOK
        <5> QED
          BY <5>1
      <4> QED
        BY <3>3, <4>1, <4>2
    <3>4. replay'[t] = NoReplay \/ RepOK(replay'[t])
      <4> DEFINE y == St1(s, passed).rep
      <4> HIDE DEF y
      <4> QED
        BY <1>2, <3>1, <3>2 DEF y
    <3> QED
      BY <3>2, <3>3, <3>4, Zenon
  <2>4. CASE t \in X
    <3>1. Entered(journal', floor, t) = {}
      BY <1>5, <2>4 DEF EnteredChange
    <3>2. replay'[t].open = FALSE
      BY <1>2, <2>4 DEF NoReplay
    <3> QED
      BY <2>1, <2>2, <3>1, <3>2
  <2>5. CASE t \notin X /\ t # s
    <3>1. Entered(journal', floor, t) = Entered(journal, floor, t)
      BY <1>5, <2>5 DEF EnteredChange
    <3>2. /\ Row(journal', floor, t).open <=> Row(journal, floor, t).open
          /\ Row(journal, floor, t).open => Row(journal', floor, t).head = Row(journal, floor, t).head
      BY <1>3, <1>4, <3>1, RowSame
    <3>3. replay'[t] = replay[t]
      BY <1>2, <2>5
    <3>4. /\ replay[t].open = Row(journal, floor, t).open
          /\ Row(journal, floor, t).open => replay[t].head = Row(journal, floor, t).head
      BY DEF SenderInv, MapIsOnDisk
    <3> QED
      BY <2>2, <2>3, <3>2, <3>3, <3>4
  <2>6. CASE t \notin X /\ t = s
    <3>1. /\ replay'[s] = St1(s, passed).rep /\ replay'[s].open
          /\ replay'[s].head = Rep0(s).head /\ s \notin X
      BY <1>2, <2>6, AfterFields
    <3>2. CASE h < index
      <4>1. Entered(journal', floor, s) = Entered(journal, floor, s)
        BY <1>5, <2>6, <3>2 DEF EnteredChange
      <4>2. replay[s].open
        <5>1. SUFFICES ASSUME ~replay[s].open PROVE FALSE
          OBVIOUS
        <5>2. ~slots[s].open
          BY <3>1, <5>1, OldStateExpires DEF X
        <5>3. h = index
          BY <5>1, <5>2, PushFits DEF h
        <5> QED
          BY <1>3, <3>2, <5>3 DEF SenderInv, ScalarsInv
      <4>3. /\ Row(journal', floor, s).open <=> Row(journal, floor, s).open
            /\ Row(journal, floor, s).open => Row(journal', floor, s).head = Row(journal, floor, s).head
        BY <1>3, <1>4, <4>1, RowSame
      <4>4. /\ replay[s].open = Row(journal, floor, s).open
            /\ Row(journal, floor, s).open => replay[s].head = Row(journal, floor, s).head
        BY DEF SenderInv, MapIsOnDisk
      <4>5. Rep0(s).head = replay[s].head
        BY <4>2 DEF Rep0
      <4> QED
        BY <2>2, <2>3, <2>6, <3>1, <4>2, <4>3, <4>4, <4>5
    <3>3. CASE h = index
      <4>1. Entered(journal', floor, s) = {Len(journal) + 1}
            /\ journal'[Len(journal) + 1].index = index
        BY <1>5, <2>6, <3>3 DEF EnteredChange
      <4> DEFINE E == Entered(journal', floor, s)
      <4>2. E # {} /\ Max(E) = Len(journal) + 1
        <5>1. E # {} => Max(E) \in E
          BY <1>4, RowBy
        <5> HIDE DEF E
        <5> QED
          BY <4>1, <5>1 DEF E
      <4>3. Row(journal', floor, s).open /\ Row(journal', floor, s).head = index
        BY <2>1, <2>6, <4>1, <4>2
      <4>4. Rep0(s).head = index
        BY <3>3, PushFits DEF h
      <4> QED
        BY <2>2, <2>3, <2>6, <3>1, <4>3, <4>4
    <3> QED
      BY <1>1, <3>2, <3>3 DEF Fits
  <2> QED
    BY <2>4, <2>5, <2>6
<1> QED
  BY <1>6, <1>7 DEF MapIsOnDisk

LEMMA PublishIndexes ==
    ASSUME SenderInv, Storage, UNCHANGED <<setup, floor, crashes>>,
           NEW s \in Slot, NEW passed, MessagesOf(passed, s), passed # <<>>,
           NEW dedup1, Publish(s, passed, dedup1)
    PROVE  IndexInv' /\ EnteredInv' /\ RetainedInv'
<1> DEFINE X == Expired(s, passed)
           h == Info0(s).index
           j1 == St1(s, passed).journal
<1>1. /\ Pushed(journal, index, j1, index', journal', s, h, X)
      /\ Fits(h, index, index', Entered(journal, floor, s))
  BY PublishJournal
<1>2. IndexOK(journal, index) /\ EnteredOK(journal, floor) /\ floor \in 0 .. index /\ h \in Nat
  BY StartOK DEF SenderInv, ScalarsInv, IndexInv, EnteredInv
<1>3. s \in X \/ h = index \/ Entered(journal, floor, s) # {}
  <2>1. CASE replay[s].open
    BY <2>1, OnDisk
  <2>2. CASE ~replay[s].open /\ slots[s].open
    BY <2>2, OldStateExpires
  <2>3. CASE ~replay[s].open /\ ~slots[s].open
    BY <2>3, PushFits
  <2> QED
    BY <2>1, <2>2, <2>3
<1> HIDE DEF X, h, j1
<1>4. IndexOK(journal', index')
  BY <1>1, <1>2, PushedIndexes
<1>5. EnteredOK(journal', floor)
  BY <1>1, <1>2, PushedOnce
<1>6. crashes = 0 => RetainedOK(journal', floor)
  <2> SUFFICES ASSUME crashes = 0 PROVE RetainedOK(journal', floor)
    OBVIOUS
  <2>1. RetainedOK(journal, floor)
    BY DEF SenderInv, RetainedInv
  <2> QED
    BY <1>1, <1>2, <1>3, <2>1, PushedRetained
<1> QED
  BY <1>4, <1>5, <1>6 DEF IndexInv, EnteredInv, RetainedInv

\* The state of the slots after a push: that of its slot may be the new one.
LEMMA PublishSlots ==
    ASSUME SenderInv, NEW s \in Slot, NEW passed, MessagesOf(passed, s), passed # <<>>,
           NEW dedup1, Publish(s, passed, dedup1)
    PROVE  /\ slots' = [t \in Slot |-> slots'[t]]
           /\ \A t \in Slot : \/ slots'[t] = NoInfo
                              \/ slots'[t] = IF t = s THEN St1(s, passed).info ELSE slots[t]
<1> DEFINE y == St1(s, passed).info
           f == [slots EXCEPT ![s] = y]
           R == IF St1(s, passed).final THEN {t \in Slot : t <= s} ELSE {}
           g == Slots1(s, passed)
           B == Beyond(g, MaxUnfinalized)
<1>1. slots = [t \in Slot |-> slots[t]]
  BY DEF SenderInv, SlotsInv
<1>2. slots' = Without(g, B, NoInfo) /\ g = Without(f, R, NoInfo)
  BY PublishBy DEF Slots1
<1> HIDE DEF y, R, g, B
<1>3. f = [t \in Slot |-> IF t = s THEN y ELSE slots[t]]
  BY <1>1
<1> HIDE DEF f
<1>4. g = [t \in Slot |-> IF t \in R THEN NoInfo ELSE f[t]]
      /\ slots' = [t \in Slot |-> IF t \in B THEN NoInfo ELSE g[t]]
  BY <1>2 DEF Without
<1> QED
  BY <1>3, <1>4 DEF y

LEMMA PublishWindow ==
    ASSUME SenderInv, Storage, UNCHANGED setup,
           NEW s \in Slot, NEW passed, MessagesOf(passed, s), passed # <<>>,
           NEW dedup1, Publish(s, passed, dedup1)
    PROVE  WindowInv'
<1>1. PICK M \in Slot :
         /\ Replay1(s, passed)[M].open /\ M \notin Expired(s, passed)
         /\ \A t \in Slot : Replay1(s, passed)[t].open =>
               t <= M /\ (t \in Expired(s, passed) <=> t + StorageMaxSlots <= M)
         /\ \A t \in Slot : Replay1(s, passed)[t] = IF t = s THEN St1(s, passed).rep ELSE replay[t]
  BY Window
<1> DEFINE f == Replay1(s, passed)
           X == Expired(s, passed)
           W == StorageMaxSlots
<1>2. \A t \in Slot : replay'[t] = IF t \in X THEN NoReplay ELSE f[t]
  BY <1>1, PublishJournal
<1>3. /\ f[s].open /\ \A t \in Slot : t # s => f[t] = replay[t]
      /\ index' = St1(s, passed).index /\ index \in Nat /\ index' \in Nat /\ index <= index'
  <2>1. index' = St1(s, passed).index
    BY PublishBy
  <2>2. /\ St1(s, passed).index \in Nat /\ index <= St1(s, passed).index
        /\ St1(s, passed).rep.open
    BY AfterFields
  <2>3. index \in Nat
    BY DEF SenderInv, ScalarsInv
  <2> QED
    BY <1>1, <2>1, <2>2, <2>3
<1>4. W \in Nat /\ W' = W /\ \A t \in Slot : t \in Nat
  BY ConstantsAssumption DEF SenderInv, ScalarsInv, StorageMaxSlots
<1> HIDE DEF f, X, W
<1>5. replay'[M].open
  BY <1>1, <1>2 DEF f, X
<1>6. ASSUME NEW t \in Slot, f[t].open
      PROVE  replay'[t].open \/ t + W <= M
  BY <1>1, <1>2, <1>6 DEF f, X, W
<1>7. ASSUME NEW t \in Slot, slots'[t].open
      PROVE  slots'[t].index < index' /\ (replay'[t].open \/ t + W <= M)
  <2>1. slots'[t] = IF t = s THEN St1(s, passed).info ELSE slots[t]
    BY <1>7, PublishSlots DEF NoInfo
  <2>2. CASE t = s
    <3>1. slots'[t].index = Info0(s).index
      BY <2>1, <2>2, AfterFields
    <3>2. Info0(s).index < index'
      <4>1. Fits(Info0(s).index, index, index', Entered(journal, floor, s))
        BY PublishJournal
      <4>2. Info0(s).index \in Nat
        BY StartOK
      <4> QED
        BY <1>3, <4>1, <4>2 DEF Fits
    <3> QED
      BY <1>3, <1>6, <2>2, <3>1, <3>2
  <2>3. CASE t # s
    <3>1. slots'[t] = slots[t] /\ slots[t].open
      BY <1>7, <2>1, <2>3
    <3>2. /\ slots[t].index < index
          /\ replay[t].open \/ \E u \in Slot : replay[u].open /\ t + W <= u
      BY <3>1 DEF SenderInv, WindowInv, W
    <3>3. slots[t].index \in Nat
      <4>1. InfoOK(slots[t], t)
        BY <3>1, OpenOrNot
      <4> QED
        BY <4>1 DEF InfoOK
    <3>4. slots'[t].index < index'
      BY <1>3, <3>1, <3>2, <3>3
    <3>5. CASE replay[t].open
      BY <1>3, <1>6, <2>3, <3>4, <3>5
    <3>6. CASE \E u \in Slot : replay[u].open /\ t + W <= u
      <4>1. PICK u \in Slot : replay[u].open /\ t + W <= u
        BY <3>6
      <4>2. f[u].open
        BY <1>3, <4>1
      <4>3. u <= M
        BY <1>1, <4>2 DEF f
      <4>4. t + W <= M
        BY <1>4, <4>1, <4>3
      <4> QED
        BY <3>4, <4>4
    <3> QED
      BY <3>2, <3>5, <3>6
  <2> QED
    BY <2>2, <2>3
<1> QED
  BY <1>4, <1>5, <1>7 DEF WindowInv, W

\* Without a storage nothing changes on disk.
LEMMA PublishNoStorage ==
    ASSUME SenderInv, ~Storage, UNCHANGED setup,
           NEW s \in Slot, NEW passed, MessagesOf(passed, s), passed # <<>>,
           NEW dedup1, Publish(s, passed, dedup1)
    PROVE  journal' = <<>> /\ index' = 0 /\ replay' = [t \in Slot |-> NoReplay]
<1>1. journal = <<>> /\ index = 0
  BY DEF SenderInv, NoStorageInv
<1>2. St1(s, passed).journal = journal /\ St1(s, passed).index = index
  BY AfterFields
<1>3. Expired(s, passed) = {}
  BY DEF Expired
<1>4. IsSeq(<<>>) /\ Len(<<>>) = 0
  BY EmptyIsSeq
<1>5. Trimmed(<<>>, <<>> \o Trims({}), {})
  BY <1>4, TrimsOK
<1>6. <<>> \o Trims({}) = <<>>
  <2> DEFINE k == <<>> \o Trims({})
  <2>1. IsSeq(k) /\ Len(k) \in Nat /\ \A i \in 0 + 1 .. Len(k) : FALSE
    BY <1>4, <1>5, SeqLen DEF Trimmed
  <2> HIDE DEF k
  <2>2. ~(Len(k) > 0)
    BY <2>1
  <2>3. k = <<>>
    BY <2>1, <2>2, NotEmpty
  <2> QED
    BY <2>3 DEF k
<1>7. /\ journal' = St1(s, passed).journal \o Trims(Expired(s, passed))
      /\ index' = St1(s, passed).index
      /\ replay' = [t \in Slot |-> NoReplay]
  BY PublishBy
<1> QED
  BY <1>1, <1>2, <1>3, <1>6, <1>7

\* The messages that may wait are those of the configuration, which does not change.
LEMMA DedupPrime ==
    ASSUME UNCHANGED setup, DedupsOK(dedup')
    PROVE  DedupInv'
<1>1. Message' = Message
  BY DEF Message
<1> QED
  BY <1>1 DEF DedupInv, DedupsOK, DedupOK, WaitingOK

LEMMA PublishTypes ==
    ASSUME SenderInv, UNCHANGED setup,
           NEW s \in Slot, NEW passed, MessagesOf(passed, s), passed # <<>>,
           NEW dedup1, DedupsOK(dedup1), Publish(s, passed, dedup1)
    PROVE  SlotsInv' /\ ReplayInv' /\ DedupInv' /\ StreamInv'
<1>1. SlotsInv'
  <2>1. /\ slots' = [t \in Slot |-> slots'[t]]
        /\ \A t \in Slot : \/ slots'[t] = NoInfo
                           \/ slots'[t] = IF t = s THEN St1(s, passed).info ELSE slots[t]
    BY PublishSlots
  <2>2. InfoOK(St1(s, passed).info, s)
    BY AfterFields
  <2>3. \A t \in Slot : slots[t] = NoInfo \/ InfoOK(slots[t], t)
    BY DEF SenderInv, SlotsInv
  <2> DEFINE y == St1(s, passed).info
  <2> HIDE DEF y
  <2>4. \A t \in Slot : slots'[t] = NoInfo \/ InfoOK(slots'[t], t)
    BY <2>1, <2>2, <2>3 DEF y
  <2> QED
    BY <2>1, <2>4 DEF SlotsInv
<1>2. ReplayInv'
  <2>1. CASE Storage
    <3>1. /\ replay' = Without(Replay1(s, passed), Expired(s, passed), NoReplay)
          /\ \A t \in Slot : replay'[t] = IF t \in Expired(s, passed) THEN NoReplay
                                          ELSE IF t = s THEN St1(s, passed).rep ELSE replay[t]
      BY <2>1, PublishBy, PublishJournal
    <3>2. replay' = [t \in Slot |-> replay'[t]]
      BY <3>1 DEF Without
    <3>3. RepOK(St1(s, passed).rep)
      BY AfterFields
    <3>4. \A t \in Slot : replay[t] = NoReplay \/ RepOK(replay[t])
      BY DEF SenderInv, ReplayInv
    <3> DEFINE y == St1(s, passed).rep
    <3> HIDE DEF y
    <3>5. \A t \in Slot : replay'[t] = NoReplay \/ RepOK(replay'[t])
      BY <3>1, <3>3, <3>4 DEF y
    <3> QED
      BY <3>2, <3>5 DEF ReplayInv
  <2>2. CASE ~Storage
    <3>1. replay' = [t \in Slot |-> NoReplay]
      BY <2>2, PublishNoStorage
    <3> QED
      BY <3>1 DEF ReplayInv
  <2> QED
    BY <2>1, <2>2
<1>3. DedupInv'
  <2> DEFINE g == Dedup2(s, passed, dedup1)
             R == IF St1(s, passed).final THEN {t \in Slot : t < s} ELSE {}
             B == Beyond(g, MaxUnfinalized)
  <2>1. dedup' = Without(g, B, NoDedup) /\ g = Without(dedup1, R, NoDedup)
    BY PublishBy DEF Dedup2
  <2> HIDE DEF g, B, R
  <2>2. /\ \A t \in Slot : dedup'[t] = NoDedup \/ dedup'[t] = dedup1[t]
        /\ dedup' = [t \in Slot |-> dedup'[t]]
    BY <2>1 DEF Without
  <2>3. \A t \in Slot : dedup'[t] = NoDedup \/ DedupOK(dedup'[t], t)
    BY <2>2 DEF DedupsOK
  <2>4. DedupsOK(dedup')
    BY <2>2, <2>3 DEF DedupsOK
  <2> QED
    BY <2>4, DedupPrime
<1>4. StreamInv'
  <2>1. stream' = St1(s, passed).stream
    BY PublishBy
  <2>2. StreamsOK(St1(s, passed).stream)
    BY AfterFields
  <2> QED
    BY <2>1, <2>2 DEF StreamInv
<1> QED
  BY <1>1, <1>2, <1>3, <1>4

\* The greater of two numbers.
LEMMA MaxOfTwo ==
    ASSUME NEW a \in Int, NEW b \in Int
    PROVE  Max({a, b}) \in {a, b}
<1>1. \E x \in {a, b} : \A y \in {a, b} : x >= y
  <2>1. CASE a >= b
    BY <2>1
  <2>2. CASE b >= a
    BY <2>2
  <2> QED
    BY <2>1, <2>2
<1> QED
  BY <1>1, Zenon DEF Max

LEMMA PublishScalars ==
    ASSUME SenderInv, UNCHANGED <<setup, floor, durable, boot, crashes>>,
           sent' \in [Source -> SUBSET Message'],
           NEW s \in Slot, NEW passed, MessagesOf(passed, s), passed # <<>>,
           NEW dedup1, Publish(s, passed, dedup1)
    PROVE  ScalarsInv'
<1>1. /\ setup \in Setups /\ slot_finalized \in Nat /\ slot_dropped \in Nat /\ index \in Nat
      /\ replay_from \in Nat \cup {NoSlot} /\ durable \in 0 .. Len(journal)
      /\ floor \in 0 .. index /\ boot \in {"ok", "failed"} /\ crashes \in Nat
      /\ s \in Nat
  BY ConstantsAssumption DEF SenderInv, ScalarsInv
<1>2. slot_finalized' \in Nat
  <2>1. slot_finalized' = IF St1(s, passed).final THEN s ELSE slot_finalized
    BY PublishBy
  <2> QED
    BY <1>1, <2>1
<1>3. slot_dropped' \in Nat
  <2> DEFINE B == Beyond(Slots1(s, passed), MaxUnfinalized)
             D == B \cup {slot_dropped}
  <2>1. slot_dropped' = Max(D)
    BY PublishBy
  <2>2. B \subseteq Slot
    BY DEF Beyond, OpenSlots
  <2> HIDE DEF B
  <2>3. IsFiniteSet(B) /\ B \subseteq Nat
    BY <2>2, ConstantsAssumption, FS_Subset
  <2>4. IsFiniteSet(D) /\ D \in SUBSET Nat /\ D # {}
    BY <1>1, <2>3, FS_AddElement
  <2> HIDE DEF D
  <2>5. Max(D) \in D
    BY <2>4, MaxOfNats
  <2> QED
    BY <2>1, <2>4, <2>5
<1>4. replay_from' \in Nat \cup {NoSlot}
  <2>1. replay_from' = IF St1(s, passed).final THEN Max({replay_from, s + 1}) ELSE replay_from
    BY PublishBy
  <2>2. replay_from \in Int /\ s + 1 \in Nat
    BY <1>1 DEF NoSlot
  <2>3. Max({replay_from, s + 1}) \in {replay_from, s + 1}
    BY <2>2, MaxOfTwo
  <2> QED
    BY <1>1, <2>1, <2>2, <2>3
<1>5. index' \in Nat /\ index <= index'
  <2>1. index' = St1(s, passed).index
    BY PublishBy
  <2> QED
    BY <2>1, AfterFields
<1>6. Len(journal') \in Nat /\ Len(journal) \in Nat /\ Len(journal) <= Len(journal')
  <2>1. CASE Storage
    <3>1. Pushed(journal, index, St1(s, passed).journal, index', journal', s, Info0(s).index,
                 Expired(s, passed))
      BY <2>1, PublishJournal
    <3>2. IndexOK(journal, index)
      BY DEF SenderInv, IndexInv
    <3>3. /\ Len(journal) \in Nat /\ Len(St1(s, passed).journal) \in Nat /\ Len(journal') \in Nat
          /\ Len(journal) <= Len(St1(s, passed).journal)
          /\ Len(St1(s, passed).journal) <= Len(journal')
      BY <3>1, <3>2, PushedParts
    <3> QED
      BY <3>3
  <2>2. CASE ~Storage
    <3>1. journal = <<>> /\ journal' = <<>>
      BY <2>2, PublishNoStorage DEF SenderInv, NoStorageInv
    <3> QED
      BY <3>1
  <2> QED
    BY <2>1, <2>2
<1>7. durable' \in 0 .. Len(journal') /\ floor' \in 0 .. index'
  BY <1>1, <1>5, <1>6
<1> QED
  BY <1>1, <1>2, <1>3, <1>4, <1>5, <1>7 DEF ScalarsInv

LEMMA PublishKeeps ==
    ASSUME SenderInv, UNCHANGED <<setup, floor, durable, boot, crashes>>,
           sent' \in [Source -> SUBSET Message'],
           NEW s \in Slot, NEW passed, MessagesOf(passed, s), passed # <<>>,
           NEW dedup1, DedupsOK(dedup1), Publish(s, passed, dedup1)
    PROVE  SenderInv'
<1>1. SlotsInv' /\ ReplayInv' /\ DedupInv' /\ StreamInv'
  BY PublishTypes
<1>2. ScalarsInv'
  BY PublishScalars
<1>3. Storage' = Storage
  BY DEF Storage
<1>4. CASE Storage
  <2>1. IndexInv' /\ EnteredInv' /\ RetainedInv'
    BY <1>4, PublishIndexes
  <2>2. WindowInv'
    BY <1>4, PublishWindow
  <2>3. MapIsOnDisk'
    BY <1>4, PublishMap
  <2>4. NoStorageInv'
    BY <1>3, <1>4 DEF NoStorageInv
  <2> QED
    BY <1>1, <1>2, <2>1, <2>2, <2>3, <2>4 DEF SenderInv
<1>5. CASE ~Storage
  <2>1. journal' = <<>> /\ index' = 0 /\ replay' = [t \in Slot |-> NoReplay]
    BY <1>5, PublishNoStorage
  <2>2. IsSeq(journal') /\ Len(journal') = 0
    BY <2>1, EmptyIsSeq
  <2>3. IndexInv' /\ EnteredInv' /\ RetainedInv'
    BY <2>2 DEF IndexInv, IndexOK, EnteredInv, EnteredOK, RetainedInv, RetainedOK
  <2>4. WindowInv' /\ MapIsOnDisk' /\ NoStorageInv'
    BY <1>3, <1>5, <2>1 DEF WindowInv, MapIsOnDisk, NoStorageInv
  <2> QED
    BY <1>1, <1>2, <2>3, <2>4 DEF SenderInv
<1> QED
  BY <1>4, <1>5

-----------------------------------------------------------------------------
(* The actions *)

\* A step that leaves the journal and the slots alone.
LEMMA QuietKeeps ==
    ASSUME SenderInv, DedupsOK(dedup'), sent' \in [Source -> SUBSET Message'],
           UNCHANGED <<setup, slots, replay, slot_finalized, slot_dropped, index, replay_from,
                       journal, durable, floor, stream, boot, crashes>>
    PROVE  SenderInv'
<1>1. SlotsInv' /\ ReplayInv' /\ StreamInv'
  BY DEF SenderInv, SlotsInv, ReplayInv, StreamInv
<1>2. DedupInv'
  BY DedupPrime
<1>3. ScalarsInv'
  BY DEF SenderInv, ScalarsInv
<1>4. Storage' = Storage /\ StorageMaxSlots' = StorageMaxSlots
  BY DEF Storage, StorageMaxSlots
<1>5. IndexInv' /\ EnteredInv' /\ RetainedInv'
  BY DEF SenderInv, IndexInv, EnteredInv, RetainedInv
<1>6. WindowInv' /\ NoStorageInv' /\ MapIsOnDisk'
  BY <1>4 DEF SenderInv, WindowInv, NoStorageInv, MapIsOnDisk
<1> QED
  BY <1>1, <1>2, <1>3, <1>5, <1>6 DEF SenderInv

LEMMA SentOK ==
    ASSUME SenderInv, UNCHANGED setup,
           NEW src \in Source, NEW m \in setup.offer[src],
           sent' = [sent EXCEPT ![src] = @ \cup {m}]
    PROVE  sent' \in [Source -> SUBSET Message']
<1>1. sent \in [Source -> SUBSET Message] /\ Message' = Message /\ m \in Message
  BY DEF SenderInv, ScalarsInv, Message
<1> QED
  BY <1>1

LEMMA PushKeeps ==
    ASSUME SenderInv, UNCHANGED setup,
           NEW src \in Source, NEW m \in setup.offer[src], Push(src, m)
    PROVE  SenderInv'
<1> DEFINE s == m.slot
           d == IF dedup[s].open THEN dedup[s] ELSE NewDedup
           passed == IF DedupRequired THEN Passed(d, m) ELSE <<m>>
           dedup1 == IF DedupRequired THEN [dedup EXCEPT ![s] = DedupAfter(d, src, m)]
                     ELSE dedup
<1>1. setup \in Setups /\ DedupsOK(dedup)
  BY DEF SenderInv, ScalarsInv, DedupInv
<1>2. Offered(m, s) /\ s \in Slot
  BY <1>1, OfferedOK
<1>3. DedupOK(d, s)
  BY <1>2, OpenOrNot, NewDedupOK
<1>4. /\ sent' = [sent EXCEPT ![src] = @ \cup {m}]
      /\ \/ UNCHANGED <<sender, journal, stream>>
         \/ /\ dedup' = dedup1
            /\ UNCHANGED <<slots, replay, slot_finalized, slot_dropped, index,
                           replay_from, journal, stream>>
         \/ passed # <<>> /\ Publish(s, passed, dedup1)
      /\ UNCHANGED <<durable, floor, boot, crashes>>
  BY DEF Push
<1>5. sent' \in [Source -> SUBSET Message']
  BY <1>4, SentOK
<1>6. MessagesOf(passed, s)
  <2>1. CASE DedupRequired
    <3>1. MessagesOf(Passed(d, m), s)
      BY <1>1, <1>2, <1>3, PassedOK
    <3> QED
      BY <2>1, <3>1
  <2>2. CASE ~DedupRequired
    <3>1. MessagesOf(<<m>>, s)
      BY <1>2, OneMessage DEF Offered
    <3> QED
      BY <2>2, <3>1
  <2> QED
    BY <2>1, <2>2
<1>7. DedupsOK(dedup1)
  <2>1. CASE DedupRequired
    <3> DEFINE y == DedupAfter(d, src, m)
    <3>1. DedupOK(y, s)
      BY <1>2, <1>3, DedupAfterOK
    <3> HIDE DEF y
    <3>2. [dedup EXCEPT ![s] = y] = [t \in Slot |-> IF t = s THEN y ELSE dedup[t]]
      BY <1>1 DEF DedupsOK
    <3>3. dedup1 = [t \in Slot |-> IF t = s THEN y ELSE dedup[t]]
      BY <2>1, <3>2 DEF y
    <3> HIDE DEF dedup1
    <3> QED
      BY <1>1, <1>2, <3>1, <3>3 DEF DedupsOK
  <2>2. CASE ~DedupRequired
    BY <1>1, <2>2
  <2> QED
    BY <2>1, <2>2
<1> HIDE DEF s, d, passed, dedup1
<1>8. CASE UNCHANGED <<sender, journal, stream>>
  BY <1>1, <1>4, <1>5, <1>8, QuietKeeps DEF sender
<1>9. CASE /\ dedup' = dedup1
           /\ UNCHANGED <<slots, replay, slot_finalized, slot_dropped, index,
                          replay_from, journal, stream>>
  BY <1>4, <1>5, <1>7, <1>9, QuietKeeps
<1>10. CASE passed # <<>> /\ Publish(s, passed, dedup1)
  BY <1>2, <1>4, <1>5, <1>6, <1>7, <1>10, PublishKeeps
<1> QED
  BY <1>4, <1>8, <1>9, <1>10

LEMMA SentBeforeOK ==
    ASSUME sent \in [Source -> SUBSET Message], NEW src \in Source, NEW from
    PROVE  SentBefore(src, from) \in SUBSET Message
  BY DEF SentBefore

LEMMA ReconnectKeeps ==
    ASSUME SenderInv, UNCHANGED setup, NEW src \in Source, Reconnect(src)
    PROVE  SenderInv'
<1>1. sent \in [Source -> SUBSET Message] /\ DedupsOK(dedup) /\ Message' = Message
  BY DEF SenderInv, ScalarsInv, DedupInv, Message
<1>2. /\ sent' = [sent EXCEPT ![src] = SentBefore(src, replay_from)]
      /\ UNCHANGED <<sender, disk, stream, boot, crashes>>
  BY DEF Reconnect
<1>3. sent' \in [Source -> SUBSET Message']
  <2>1. SentBefore(src, replay_from) \in SUBSET Message
    BY <1>1, SentBeforeOK
  <2> QED
    BY <1>1, <1>2, <2>1
<1> QED
  BY <1>1, <1>2, <1>3, QuietKeeps DEF sender, disk

\* The state of the slots of a process that starts anew.
LEMMA EmptyState ==
    ASSUME UNCHANGED setup, slots' = [s \in Slot |-> NoInfo], dedup' = [s \in Slot |-> NoDedup],
           stream' = [c \in Commitment |-> <<>>]
    PROVE  SlotsInv' /\ DedupInv' /\ StreamInv' /\ WindowInv'
<1>1. SlotsInv'
  BY DEF SlotsInv
<1>2. DedupInv'
  <2>1. DedupsOK(dedup')
    BY DEF DedupsOK
  <2> QED
    BY <2>1, DedupPrime
<1>3. StreamInv'
  <2>1. Messages(<<>>)
    BY EmptyIsSeq DEF Messages
  <2> DEFINE e == <<>>
  <2>2. Messages(e) /\ stream' = [c \in Commitment |-> e]
    BY <2>1
  <2> HIDE DEF e
  <2> QED
    BY <2>2 DEF StreamInv, StreamsOK
<1>4. WindowInv'
  BY DEF WindowInv, NoInfo
<1> QED
  BY <1>1, <1>2, <1>3, <1>4

LEMMA BeginLiveEpochKeeps ==
    ASSUME SenderInv, UNCHANGED setup, BeginLiveEpoch
    PROVE  SenderInv'
<1>1. /\ floor' = IF Storage THEN index ELSE floor
      /\ replay' = [s \in Slot |-> NoReplay]
      /\ replay_from' = NoSlot
      /\ UNCHANGED <<slot_finalized, slot_dropped, index, journal, durable, sent, boot, crashes>>
  BY DEF BeginLiveEpoch
<1>2. SlotsInv' /\ DedupInv' /\ StreamInv' /\ WindowInv'
  BY EmptyState DEF BeginLiveEpoch
<1>3. ReplayInv'
  BY <1>1 DEF ReplayInv
<1>4. ScalarsInv' /\ Storage' = Storage
  BY <1>1 DEF SenderInv, ScalarsInv, Message, Storage
<1>5. IndexInv' /\ IsSeq(journal) /\ floor' \in Nat /\ index \in Nat
  BY <1>1 DEF SenderInv, ScalarsInv, IndexInv, IndexOK
<1>6. NoStorageInv'
  BY <1>1, <1>4 DEF SenderInv, NoStorageInv
<1>7. ASSUME NEW i \in 1 .. Len(journal), IsPush(journal[i])
      PROVE  ~(journal[i].index >= floor')
  <2>1. CASE Storage
    <3>1. journal[i].index < index /\ journal[i].index \in Nat
      BY <1>7 DEF SenderInv, IndexInv, IndexOK, CommandOK, IsPush
    <3> QED
      BY <1>1, <1>5, <2>1, <3>1
  <2>2. CASE ~Storage
    <3>1. Len(journal) = 0
      BY <2>2, EmptyIsSeq DEF SenderInv, NoStorageInv
    <3> QED
      BY <3>1
  <2> QED
    BY <2>1, <2>2
<1>8. EnteredInv' /\ RetainedInv'
  BY <1>1, <1>7 DEF EnteredInv, EnteredOK, RetainedInv, RetainedOK
<1>9. MapIsOnDisk'
  <2>1. ASSUME NEW s \in Slot
        PROVE  replay'[s].open = FALSE
    BY <1>1 DEF NoReplay
  <2>2. ASSUME NEW s \in Slot
        PROVE  Row(journal', floor', s).open = FALSE
    <3>1. Entered(journal, floor', s) = {}
      BY <1>5, <1>7, EnteredBy DEF Enters
    <3>2. Row(journal', floor', s) = NoRow
      BY <1>1, <3>1 DEF Row
    <3> QED
      BY <3>2 DEF NoRow
  <2> QED
    BY <2>1, <2>2 DEF MapIsOnDisk
<1> QED
  BY <1>2, <1>3, <1>4, <1>5, <1>6, <1>8, <1>9 DEF SenderInv

\* The next index of what is on disk is above every index there and not below the floor.
LEMMA NextIndexOK ==
    ASSUME NEW commands, NEW next \in Nat, IndexOK(commands, next), NEW from \in 0 .. next
    PROVE  /\ NextIndex(commands, from) \in from .. next
           /\ IndexOK(commands, NextIndex(commands, from))
<1> DEFINE S == {from} \cup {commands[i].index + 1 : i \in {j \in DOMAIN commands : IsPush(commands[j])}}
<1>1. DOMAIN commands = 1 .. Len(commands)
  BY SeqLen DEF IndexOK
<1>2. \A i \in 1 .. Len(commands) : IsPush(commands[i]) =>
         commands[i].index \in Nat /\ commands[i].index < next
  BY DEF IndexOK, CommandOK, IsPush
<1>3. S \subseteq 0 .. next /\ S # {} /\ from \in S
  BY <1>1, <1>2
<1>4. \A i \in 1 .. Len(commands) : IsPush(commands[i]) => commands[i].index + 1 \in S
  BY <1>1
<1>5. NextIndex(commands, from) = Max(S)
  BY DEF NextIndex
<1> HIDE DEF S
<1>6. Max(S) \in S /\ \A x \in S : x <= Max(S)
  <2>1. IsFiniteSet(0 .. next)
    BY FS_Interval
  <2>2. IsFiniteSet(S)
    BY <1>3, <2>1, FS_Subset, Zenon
  <2>3. S \in SUBSET Nat
    BY <1>3
  <2> QED
    BY <1>3, <2>2, <2>3, MaxOfNats
<1>7. Max(S) \in from .. next
  <2>1. Max(S) \in 0 .. next /\ from <= Max(S)
    BY <1>3, <1>6
  <2> QED
    BY <2>1
<1>8. \A i \in 1 .. Len(commands) : IsPush(commands[i]) => commands[i].index < Max(S)
  BY <1>2, <1>4, <1>6, <1>7
<1> QED
  BY <1>5, <1>7, <1>8 DEF IndexOK

\* What a crash leaves of a journal.
LEMMA PrefixOK ==
    ASSUME NEW commands, NEW next \in Nat, IndexOK(commands, next), NEW from \in Nat,
           EnteredOK(commands, from), NEW n \in 0 .. Len(commands)
    PROVE  /\ IndexOK(SubSeq(commands, 1, n), next)
           /\ EnteredOK(SubSeq(commands, 1, n), from)
           /\ Len(SubSeq(commands, 1, n)) = n
<1> DEFINE d == SubSeq(commands, 1, n)
<1>1. IsSeq(commands) /\ Len(commands) \in Nat
  BY SeqLen DEF IndexOK
<1>2. IsSeq(d) /\ Len(d) = n /\ \A i \in 1 .. n : d[i] = commands[i]
  <2>1. /\ 1 \in 1 .. Len(commands) + 1 /\ n \in 1 - 1 .. Len(commands)
        /\ n + 1 - 1 = n
    BY <1>1
  <2>2. IsSeq(d) /\ Len(d) = n + 1 - 1 /\ \A i \in 1 .. n + 1 - 1 : d[i] = commands[1 + i - 1]
    BY <1>1, <2>1, SubSeqSeq
  <2> HIDE DEF d
  <2> QED
    BY <1>1, <2>1, <2>2
<1> HIDE DEF d
<1>3. \A i \in 1 .. n : i \in 1 .. Len(commands)
  BY <1>1
<1>4. IndexOK(d, next)
  BY <1>2, <1>3 DEF IndexOK
<1>5. EnteredOK(d, from)
  <2> SUFFICES ASSUME NEW i \in 1 .. n, NEW j \in 1 .. n,
                      i < j, IsPush(d[i]), IsPush(d[j]), d[i].init, d[j].init,
                      d[i].slot = d[j].slot, d[i].index >= from
               PROVE  \E k \in i .. j : ~IsPush(d[k]) /\ d[k].slot = d[i].slot
    BY <1>2 DEF EnteredOK
  <2>1. d[i] = commands[i] /\ d[j] = commands[j]
        /\ i \in 1 .. Len(commands) /\ j \in 1 .. Len(commands)
    BY <1>2, <1>3
  <2>2. PICK k \in i .. j : ~IsPush(commands[k]) /\ commands[k].slot = commands[i].slot
    BY <2>1 DEF EnteredOK
  <2>3. k \in 1 .. n
    BY <1>1
  <2> QED
    BY <1>2, <2>1, <2>2, <2>3
<1> QED
  BY <1>2, <1>4, <1>5 DEF d

\* The state of a slot that a restart reads back.
RereadAs(x, h) ==
    /\ x \in [open : {TRUE}, head : {h}, tracked : BOOLEAN, known : {x.known}]
    /\ ~x.tracked => x.known = {}

\* What a restart on the commands d makes of the rows, whatever it knows of them.
LEMMA RestartBy ==
    ASSUME NEW d, NEW row, Restart(d, row), OpenSlots(row) \in SUBSET Slot
    PROVE  /\ journal' = d /\ durable' = Len(d) /\ boot' \in {"ok", "failed"}
           /\ index' = NextIndex(d, floor) /\ slot_dropped' = 0
           /\ slots' = [s \in Slot |-> NoInfo] /\ dedup' = [s \in Slot |-> NoDedup]
           /\ stream' = [c \in Commitment |-> <<>>]
           /\ replay' = [s \in Slot |-> replay'[s]]
           /\ \A s \in Slot : IF row[s].open
                              THEN RereadAs(replay'[s], row[s].head)
                              ELSE replay'[s] = NoReplay
           /\ \E root \in Slot \cup {NoSlot} :
                 /\ slot_finalized' = Max({root, 0})
                 /\ replay_from' = IF root # NoSlot THEN root + 1
                                   ELSE IF OpenSlots(row) = {} THEN NoSlot
                                   ELSE Min(OpenSlots(row))
<1> DEFINE known == OpenSlots(row)
           roots == {s \in known : row[s].finalized}
           root == IF roots = {} THEN NoSlot ELSE Max(roots)
           from == Min({row[s].head : s \in {t \in known : t > root}} \cup {FirstFree(d)})
           records == {i \in DOMAIN d : /\ IsPush(d[i]) /\ d[i].c = Processed
                                      /\ d[i].index >= from /\ d[i].slot > root}
           Known(s) == {Id(d[i].m) : i \in {j \in records : d[j].slot = s}}
           new(s) == [NewReplay(row[s].head) EXCEPT !.tracked = Known(s) # {}, !.known = Known(s)]
<1>1. /\ journal' = d /\ durable' = Len(d)
      /\ boot' = IF root # NoSlot /\ \E i \in records : d[i].slot \notin known
                 THEN "failed" ELSE "ok"
      /\ index' = FirstFree(d) /\ slot_dropped' = 0
      /\ slots' = [s \in Slot |-> NoInfo] /\ dedup' = [s \in Slot |-> NoDedup]
      /\ stream' = [c \in Commitment |-> <<>>]
      /\ replay' = [s \in Slot |-> IF s \in known THEN new(s) ELSE NoReplay]
      /\ slot_finalized' = Max({root, 0})
      /\ replay_from' = IF root # NoSlot THEN root + 1
                        ELSE IF known = {} THEN NoSlot ELSE Min(known)
  BY Zenon DEF Restart
<1>2. root \in Slot \cup {NoSlot}
  <2>1. CASE roots = {}
    BY <2>1
  <2>2. CASE roots # {}
    <3>1. roots \subseteq Slot
      OBVIOUS
    <3> HIDE DEF roots
    <3>2. roots \in SUBSET Nat /\ IsFiniteSet(roots)
      BY <3>1, ConstantsAssumption, FS_Subset
    <3>3. Max(roots) \in roots
      BY <2>2, <3>2, MaxOfNats
    <3> QED
      BY <2>2, <3>1, <3>3
  <2> QED
    BY <2>1, <2>2
<1>3. ASSUME NEW s \in Slot, s \in known
      PROVE  RereadAs(new(s), row[s].head)
  <2> DEFINE k == Known(s)
             t == k # {}
             h == row[s].head
             x == [NewReplay(h) EXCEPT !.tracked = t]
             y == [x EXCEPT !.known = k]
  <2>1. new(s) = y
    OBVIOUS
  <2> HIDE DEF known, h, k, new
  <2>2. t \in BOOLEAN /\ (~t => k = {})
    OBVIOUS
  <2> HIDE DEF t
  <2>3. x \in [open : {TRUE}, head : {h}, tracked : {t}, known : {{}}]
    BY <2>2 DEF NewReplay
  <2> HIDE DEF x
  <2>4. y \in [open : {TRUE}, head : {h}, tracked : {t}, known : {k}]
    BY <2>3
  <2> HIDE DEF y
  <2>5. y.known = k /\ y.tracked = t
    BY <2>4
  <2>6. RereadAs(y, h)
    BY <2>2, <2>4, <2>5 DEF RereadAs
  <2> QED
    BY <2>1, <2>6 DEF h
<1> HIDE DEF root, records, new, roots, from
<1>4. \A s \in Slot : row[s].open <=> s \in known
  BY DEF OpenSlots
<1>5. replay' = [s \in Slot |-> replay'[s]]
  BY <1>1
<1>6. \A s \in Slot : replay'[s] = IF s \in known THEN new(s) ELSE NoReplay
  BY <1>1
<1>7. boot' \in {"ok", "failed"}
  BY <1>1
<1> HIDE DEF known
<1>8. ASSUME NEW s \in Slot
      PROVE  IF row[s].open
             THEN RereadAs(replay'[s], row[s].head)
             ELSE replay'[s] = NoReplay
  <2>1. CASE s \in known
    <3>1. replay'[s] = new(s) /\ row[s].open
      BY <1>4, <1>6, <2>1
    <3> QED
      BY <1>3, <2>1, <3>1
  <2>2. CASE s \notin known
    BY <1>4, <1>6, <2>2
  <2> QED
    BY <2>1, <2>2
<1>9. \E r \in Slot \cup {NoSlot} :
         /\ slot_finalized' = Max({r, 0})
         /\ replay_from' = IF r # NoSlot THEN r + 1
                           ELSE IF known = {} THEN NoSlot ELSE Min(known)
  BY <1>1, <1>2
<1>10. index' = NextIndex(d, floor)
  BY <1>1 DEF FirstFree
<1> QED
  BY <1>1, <1>5, <1>7, <1>8, <1>9, <1>10 DEF known

LEMMA CrashKeeps ==
    ASSUME SenderInv, UNCHANGED setup, Crash
    PROVE  SenderInv'
<1>1. PICK n \in 0 .. Len(journal) :
         Restart(SubSeq(journal, 1, n), [s \in Slot |-> Row(SubSeq(journal, 1, n), floor, s)])
  BY Zenon DEF Crash
<1> DEFINE d == SubSeq(journal, 1, n)
           row == [s \in Slot |-> Row(d, floor, s)]
<1>2. /\ Storage /\ crashes' = crashes + 1 /\ floor' = floor
      /\ sent' = [src \in Source |-> SentBefore(src, replay_from')]
  BY DEF Crash
<1>3. /\ setup \in Setups /\ index \in Nat /\ floor \in 0 .. index /\ crashes \in Nat
      /\ sent \in [Source -> SUBSET Message] /\ IndexOK(journal, index)
      /\ EnteredOK(journal, floor)
  BY DEF SenderInv, ScalarsInv, IndexInv, EnteredInv
<1>4. IndexOK(d, index) /\ EnteredOK(d, floor) /\ Len(d) = n
  BY <1>3, PrefixOK
<1>5. NextIndex(d, floor) \in floor .. index /\ IndexOK(d, NextIndex(d, floor))
  <2> HIDE DEF d
  <2> QED
    BY <1>3, <1>4, NextIndexOK
<1>6. Restart(d, row)
  BY <1>1
<1> HIDE DEF d
<1>7. OpenSlots(row) = {s \in Slot : row[s].open}
  BY DEF OpenSlots
<1>8. \A s \in Slot : row[s] = Row(d, floor, s)
  OBVIOUS
<1>9. ASSUME NEW s \in Slot
      PROVE  row[s].open = FALSE \/ (row[s].open = TRUE /\ row[s].head \in Nat)
  <2> DEFINE E == Entered(d, floor, s)
             k == Max(E)
  <2>1. CASE E = {}
    <3>1. Row(d, floor, s) = NoRow
      BY <2>1 DEF Row
    <3> QED
      BY <1>8, <3>1 DEF NoRow
  <2>2. CASE E # {}
    <3>1. k \in E /\ Row(d, floor, s).head = d[k].index
      BY <1>4, <2>2, RowBy DEF IndexOK
    <3>2. k \in 1 .. Len(d) /\ IsPush(d[k])
      BY <1>4, <3>1, EnteredBy DEF Enters, IndexOK
    <3>3. d[k].index \in Nat
      BY <1>4, <3>2 DEF IndexOK, CommandOK, IsPush
    <3> DEFINE h == d[k].index
               f == \E j \in k .. Len(d) : IsPush(d[j]) /\ d[j].slot = s /\ d[j].final
    <3>4. Row(d, floor, s) = [open |-> TRUE, head |-> h, finalized |-> f]
      BY <2>2 DEF Row
    <3>5. Row(d, floor, s).open = TRUE
      <4> HIDE DEF h, f
      <4> QED
        BY <3>4
    <3> HIDE DEF E, k
    <3> QED
      BY <1>8, <3>1, <3>3, <3>5
  <2> QED
    BY <2>1, <2>2
<1> HIDE DEF row
<1>10. OpenSlots(row) \in SUBSET Slot
  BY <1>7
<1>11. /\ journal' = d /\ durable' = Len(d) /\ boot' \in {"ok", "failed"}
       /\ index' = NextIndex(d, floor) /\ slot_dropped' = 0
       /\ slots' = [s \in Slot |-> NoInfo] /\ dedup' = [s \in Slot |-> NoDedup]
       /\ stream' = [c \in Commitment |-> <<>>]
       /\ replay' = [s \in Slot |-> replay'[s]]
       /\ \A s \in Slot : IF row[s].open THEN RereadAs(replay'[s], row[s].head)
                          ELSE replay'[s] = NoReplay
  BY <1>6, <1>10, RestartBy
<1>12. PICK root \in Slot \cup {NoSlot} :
          /\ slot_finalized' = Max({root, 0})
          /\ replay_from' = IF root # NoSlot THEN root + 1
                            ELSE IF OpenSlots(row) = {} THEN NoSlot ELSE Min(OpenSlots(row))
  BY <1>6, <1>10, RestartBy
<1>13. Storage' /\ Message' = Message
  BY <1>2 DEF Storage, Message
<1>14. SlotsInv' /\ DedupInv' /\ StreamInv' /\ WindowInv'
  BY <1>11, EmptyState
<1>15. ASSUME NEW s \in Slot
       PROVE  /\ replay'[s] = NoReplay \/ RepOK(replay'[s])
              /\ replay'[s].open = Row(journal', floor', s).open
              /\ Row(journal', floor', s).open => replay'[s].head = Row(journal', floor', s).head
  <2>1. Row(journal', floor', s) = row[s]
    BY <1>2, <1>8, <1>11
  <2>2. CASE row[s].open = TRUE /\ row[s].head \in Nat
    <3>1. RereadAs(replay'[s], row[s].head)
      BY <1>11, <2>2
    <3>2. RepOK(replay'[s]) /\ replay'[s].open = TRUE /\ replay'[s].head = row[s].head
      BY <2>2, <3>1 DEF RereadAs, RepOK
    <3> QED
      BY <2>1, <2>2, <3>2
  <2>3. CASE row[s].open = FALSE
    <3>1. replay'[s] = NoReplay
      BY <1>11, <2>3
    <3>2. replay'[s].open = FALSE
      BY <3>1 DEF NoReplay
    <3> QED
      BY <2>1, <2>3, <3>1, <3>2
  <2> QED
    BY <1>9, <2>2, <2>3
<1>16. ReplayInv'
  BY <1>11, <1>15 DEF ReplayInv
<1>17. MapIsOnDisk'
  BY <1>15 DEF MapIsOnDisk
<1>18. IndexInv' /\ EnteredInv'
  BY <1>2, <1>4, <1>5, <1>11 DEF IndexInv, EnteredInv
<1>19. RetainedInv' /\ NoStorageInv'
  BY <1>2, <1>3, <1>13 DEF RetainedInv, NoStorageInv
<1>20. ScalarsInv'
  <2>1. slot_finalized' \in Nat
    <3>1. root \in Nat \cup {NoSlot} /\ root \in Int
      BY ConstantsAssumption DEF NoSlot
    <3>2. Max({root, 0}) \in {root, 0} /\ (root = NoSlot => Max({root, 0}) = 0)
      <4>1. Max({root, 0}) \in {root, 0}
        BY <3>1, MaxOfTwo
      <4>2. CASE root = NoSlot
        <5>1. 0 >= root /\ 0 >= 0 /\ ~(root >= 0) /\ \A x \in {root, 0} : 0 >= x
          BY <4>2 DEF NoSlot
        <5>2. \E x \in {root, 0} : \A y \in {root, 0} : x >= y
          BY <5>1
        <5>3. \A y \in {root, 0} : Max({root, 0}) >= y
          BY <5>2, Zenon DEF Max
        <5> QED
          BY <4>1, <5>1, <5>3
      <4> QED
        BY <4>1, <4>2
    <3> QED
      BY <1>12, <3>1, <3>2 DEF NoSlot
  <2>2. replay_from' \in Nat \cup {NoSlot}
    <3>1. Slot \subseteq Nat
      BY ConstantsAssumption
    <3>2. OpenSlots(row) # {} => Min(OpenSlots(row)) \in OpenSlots(row)
      BY <1>10, <3>1, MinOfNats
    <3> QED
      BY <1>10, <1>12, <3>1, <3>2
  <2>3. index' \in Nat /\ floor' \in 0 .. index'
    BY <1>2, <1>3, <1>5, <1>11
  <2>4. durable' \in 0 .. Len(journal')
    BY <1>4, <1>11
  <2>5. sent' \in [Source -> SUBSET Message']
    <3>1. \A src \in Source : SentBefore(src, replay_from') \in SUBSET Message
      BY <1>3, SentBeforeOK
    <3> QED
      BY <1>2, <1>13, <3>1
  <2>6. setup' \in Setups /\ slot_dropped' \in Nat /\ boot' \in {"ok", "failed"}
        /\ crashes' \in Nat
    BY <1>2, <1>3, <1>11
  <2> QED
    BY <2>1, <2>2, <2>3, <2>4, <2>5, <2>6 DEF ScalarsInv
<1> QED
  BY <1>14, <1>16, <1>17, <1>18, <1>19, <1>20 DEF SenderInv

LEMMA InitKeeps ==
    ASSUME Init
    PROVE  SenderInv
<1>1. /\ setup \in Setups /\ slots = [s \in Slot |-> NoInfo] /\ dedup = [s \in Slot |-> NoDedup]
      /\ replay = [s \in Slot |-> NoReplay] /\ slot_finalized = 0 /\ slot_dropped = 0
      /\ index = 0 /\ replay_from = NoSlot /\ stream = [c \in Commitment |-> <<>>]
      /\ journal = <<>> /\ durable = 0 /\ floor = 0 /\ sent = [src \in Source |-> {}]
      /\ boot = "ok" /\ crashes = 0
  BY DEF Init
<1>2. IsSeq(journal) /\ Len(journal) = 0
  BY <1>1, EmptyIsSeq
<1>3. SlotsInv /\ ReplayInv /\ DedupInv
  BY <1>1 DEF SlotsInv, ReplayInv, DedupInv, DedupsOK
<1>4. StreamInv
  <2> DEFINE e == <<>>
  <2>1. Messages(e) /\ stream = [c \in Commitment |-> e]
    BY <1>1, EmptyIsSeq DEF Messages
  <2> HIDE DEF e
  <2> QED
    BY <2>1 DEF StreamInv, StreamsOK
<1>5. ScalarsInv
  BY <1>1, <1>2 DEF ScalarsInv
<1>6. IndexInv /\ EnteredInv /\ RetainedInv
  BY <1>2 DEF IndexInv, IndexOK, EnteredInv, EnteredOK, RetainedInv, RetainedOK
<1>7. WindowInv /\ NoStorageInv
  BY <1>1 DEF WindowInv, NoStorageInv, NoInfo
<1>8. MapIsOnDisk
  <2>1. ASSUME NEW s \in Slot
        PROVE  replay[s].open = FALSE
    BY <1>1 DEF NoReplay
  <2>2. ASSUME NEW s \in Slot
        PROVE  Row(journal, floor, s).open = FALSE
    <3>1. Entered(journal, floor, s) = {}
      BY <1>2, EnteredBy DEF Enters
    <3>2. Row(journal, floor, s) = NoRow
      BY <3>1 DEF Row
    <3> QED
      BY <3>2 DEF NoRow
  <2> QED
    BY <2>1, <2>2 DEF MapIsOnDisk
<1> QED
  BY <1>3, <1>4, <1>5, <1>6, <1>7, <1>8 DEF SenderInv

LEMMA StepKeeps ==
    ASSUME SenderInv, [Next]_vars
    PROVE  SenderInv'
<1>1. CASE UNCHANGED vars
  <2>1. /\ DedupsOK(dedup') /\ sent' \in [Source -> SUBSET Message']
        /\ UNCHANGED <<setup, slots, replay, slot_finalized, slot_dropped, index, replay_from,
                       journal, durable, floor, stream, boot, crashes>>
    BY <1>1 DEF vars, sender, disk, SenderInv, DedupInv, ScalarsInv, Message
  <2> QED
    BY <2>1, QuietKeeps
<1>2. CASE Next
  <2>1. UNCHANGED setup
    BY <1>2 DEF Next
  <2>2. ASSUME NEW src \in Source, NEW m \in setup.offer[src], Push(src, m)
        PROVE  SenderInv'
    BY <2>1, <2>2, PushKeeps
  <2>3. ASSUME NEW src \in Source, Reconnect(src) PROVE SenderInv'
    BY <2>1, <2>3, ReconnectKeeps
  <2>4. ASSUME BeginLiveEpoch PROVE SenderInv'
    BY <2>1, <2>4, BeginLiveEpochKeeps
  <2>5. ASSUME Crash PROVE SenderInv'
    BY <2>1, <2>5, CrashKeeps
  <2> QED
    BY <1>2, <2>2, <2>3, <2>4, <2>5 DEF Next
<1> QED
  BY <1>1, <1>2

-----------------------------------------------------------------------------
(* Theorems *)

\* The inductive invariant of the sender: the types of its maps, streams and journal, and
\* what ties the slots in memory to the records on disk, over Sender::push,
\* begin_live_epoch, Subscription::source_stream and Messages::to_sender.
THEOREM SenderInvariant == Spec => []SenderInv
<1>1. Init => SenderInv
  BY InitKeeps
<1>2. SenderInv /\ [Next]_vars => SenderInv'
  BY StepKeeps
<1> QED
  BY <1>1, <1>2, PTL DEF Spec

LEMMA TypeFollows ==
    ASSUME SenderInv
    PROVE  TypeOK
<1>1. /\ setup \in Setups
      /\ slot_finalized \in Nat /\ slot_dropped \in Nat /\ index \in Nat
      /\ replay_from \in Nat \cup {NoSlot}
      /\ durable \in 0 .. Len(journal) /\ floor \in 0 .. index
      /\ sent \in [Source -> SUBSET Message] /\ boot \in {"ok", "failed"}
  BY DEF SenderInv, ScalarsInv
<1>2. ASSUME NEW s \in Slot, slots[s].open
      PROVE  /\ slots[s].index \in Nat
             /\ slots[s].confirmed_bank \in Bank0 \cup {NoChoice}
             /\ slots[s].cleared \subseteq Bank
  <2>1. InfoOK(slots[s], s)
    BY <1>2, OpenOrNot
  <2> QED
    BY <2>1 DEF InfoOK
<1>3. ASSUME NEW s \in Slot, dedup[s].open
      PROVE  /\ dedup[s].source \in Source \cup {NoSource}
             /\ dedup[s].waiting \in [Bank0 \X Sig -> Seq(Message)]
  <2>1. DedupOK(dedup[s], s)
    BY <1>3, OpenOrNot
  <2> QED
    BY <2>1 DEF DedupOK, WaitingOK
<1>4. ASSUME NEW s \in Slot, replay[s].open
      PROVE  replay[s].head \in 0 .. index
  <2>1. CASE Storage
    <3>1. replay[s].head < index /\ replay[s].head \in Nat
      BY <1>4, <2>1, OnDisk
    <3> QED
      BY <1>1, <3>1
  <2>2. CASE ~Storage
    <3>1. replay = [t \in Slot |-> NoReplay]
      BY <2>2 DEF SenderInv, NoStorageInv
    <3>2. replay[s].open = FALSE
      BY <3>1 DEF NoReplay
    <3> QED
      BY <1>4, <3>2
  <2> QED
    BY <2>1, <2>2
<1>5. ASSUME NEW c \in Commitment, NEW m \in Range(stream[c])
      PROVE  m.slot \in Slot /\ m.bank \in Bank0
  <2>1. Messages(stream[c])
    BY DEF SenderInv, StreamInv, StreamsOK
  <2>2. PICK i \in 1 .. Len(stream[c]) : m = stream[c][i]
    BY <2>1, SeqLen DEF Messages
  <2>3. MsgOK(m)
    BY <2>1, <2>2 DEF Messages
  <2> QED
    BY <2>3 DEF MsgOK
<1>6. ASSUME NEW i \in DOMAIN journal
      PROVE  /\ journal[i].op \in {"push", "trim"} /\ journal[i].slot \in Slot
             /\ journal[i].op = "push" => journal[i].c \in Commitment /\ journal[i].index \in Nat
  <2>1. i \in 1 .. Len(journal)
    BY SeqLen DEF SenderInv, IndexInv, IndexOK
  <2>2. CommandOK(journal[i])
    BY <2>1 DEF SenderInv, IndexInv, IndexOK
  <2> QED
    BY <2>2 DEF CommandOK
<1> QED
  BY <1>1, <1>2, <1>3, <1>4, <1>5, <1>6 DEF TypeOK

LEMMA IndexesFollow ==
    ASSUME SenderInv
    PROVE  IndexesIncrease
<1>1. DOMAIN journal = 1 .. Len(journal)
  BY SeqLen DEF SenderInv, IndexInv, IndexOK
<1> QED
  BY <1>1 DEF SenderInv, IndexInv, IndexOK, IsPush, IndexesIncrease

\* The journal over any number of restarts: every index of a record is below the next one
\* and above those before it (SenderShared::push_stored, Storage::next_index), and the slots
\* of the replay map and their heads are those that Storage::read_slots would find.
THEOREM JournalInvariant == Spec => []JournalInv
<1>1. SenderInv => JournalInv
  BY TypeFollows, IndexesFollow DEF SenderInv, JournalInv
<1> QED
  BY <1>1, SenderInvariant, PTL

\* A slot is entered at one place since its last trim, and the record there starts its replay.
LEMMA RetainedHead ==
    ASSUME SenderInv, Storage, NEW j \in Retained
    PROVE  /\ journal[j].slot \in Slot /\ replay[journal[j].slot].open
           /\ replay[journal[j].slot].head \in Nat
           /\ replay[journal[j].slot].head <= journal[j].index
<1> DEFINE s == journal[j].slot
           E == Entered(journal, floor, s)
           k == Max(E)
<1>1. IsSeq(journal) /\ DOMAIN journal = 1 .. Len(journal)
  BY SeqLen DEF SenderInv, IndexInv, IndexOK
<1>2. PICK i \in E : j \in 1 .. Len(journal) /\ IsPush(journal[j]) /\ i <= j
  BY <1>1 DEF Retained
<1>3. s \in Slot /\ journal[j].index \in Nat
  BY <1>2 DEF SenderInv, IndexInv, IndexOK, CommandOK, IsPush
<1>4. /\ replay[s].open /\ k \in E /\ replay[s].head = journal[k].index
      /\ replay[s].head \in Nat
  BY <1>2, <1>3, OnDisk
<1>5. Enters(journal, floor, s, i) /\ Enters(journal, floor, s, k)
  BY <1>1, <1>2, <1>4, EnteredBy
<1> HIDE DEF s, k, E
<1>6. ASSUME NEW a, NEW b, Enters(journal, floor, s, a), Enters(journal, floor, s, b), a < b
      PROVE  FALSE
  <2>1. a \in 1 .. Len(journal) /\ b \in 1 .. Len(journal)
    BY <1>6 DEF Enters
  <2>2. PICK h \in a .. b : ~IsPush(journal[h]) /\ journal[h].slot = s
    BY <1>6, <2>1 DEF Enters, SenderInv, EnteredInv, EnteredOK
  <2>3. h # a
    BY <1>6, <2>2 DEF Enters
  <2>4. h \in a + 1 .. Len(journal)
    BY <2>1, <2>3
  <2> QED
    BY <1>6, <2>2, <2>4 DEF Enters
<1>7. i \in 1 .. Len(journal) /\ k \in 1 .. Len(journal) /\ IsPush(journal[k])
  BY <1>5 DEF Enters
<1>8. k <= j
  BY <1>2, <1>5, <1>6, <1>7
<1>9. journal[k].index <= journal[j].index
  <2>1. CASE k = j
    BY <1>3, <2>1
  <2>2. CASE k < j
    <3>1. journal[k].index < journal[j].index /\ journal[k].index \in Nat
      BY <1>2, <1>7, <2>2 DEF SenderInv, IndexInv, IndexOK, CommandOK, IsPush
    <3> QED
      BY <1>3, <3>1
  <2> QED
    BY <1>2, <1>7, <1>8, <2>1, <2>2
<1> QED
  BY <1>3, <1>4, <1>9 DEF s

\* The answer of a request that is sent to the storage.
LEMMA LocateStorage ==
    ASSUME NEW c, NEW s, Locate(c, s).where = "storage"
    PROVE  /\ Storage
           /\ Locate(c, s).at = Min({replay[t].head : t \in {u \in OpenSlots(replay) : u >= s}})
<1> DEFINE first(t) == Min({i \in DOMAIN stream[c] : stream[c][i].slot = t})
           ring == {m.slot : m \in Range(stream[c])}
           ringFrom == {t \in ring : t >= s}
           map == OpenSlots(replay)
           mapFrom == {t \in map : t >= s}
           newest == Max({NoSlot} \cup IF map # {} THEN map ELSE ring)
           inRing == (\E t \in ring : t <= s) /\ ringFrom # {}
           ahead == newest # NoSlot /\ s > newest
           gone == ~Storage \/ mapFrom = {} \/ s < Min(map) \/ c \notin ReplayEnabled
           a == Min({first(t) : t \in ringFrom})
           b == Len(stream[c]) + 1
           d == DiskFrom(mapFrom)
<1>1. Locate(c, s) = IF inRing THEN [where |-> "memory", at |-> a]
                     ELSE IF ahead THEN [where |-> "memory", at |-> b]
                     ELSE IF gone THEN Unavailable ELSE [where |-> "storage", at |-> d]
  BY Zenon DEF Locate
<1>2. ~gone => Storage
  OBVIOUS
<1>3. d = Min({replay[t].head : t \in {u \in OpenSlots(replay) : u >= s}})
  BY DEF DiskFrom
<1> HIDE DEF inRing, ahead, gone, a, b, d
<1>4. Unavailable.where # "storage"
  BY DEF Unavailable
<1>5. Locate(c, s) = [where |-> "storage", at |-> d] /\ ~gone
  BY <1>1, <1>4
<1> QED
  BY <1>2, <1>3, <1>5

LEMMA DiskReplayFollows ==
    ASSUME SenderInv
    PROVE  DiskReplayComplete
<1>1. ASSUME NEW c \in ReplayEnabled, NEW s \in Slot, Locate(c, s).where = "storage",
             NEW j \in Retained, journal[j].slot >= s
      PROVE  journal[j].index >= Locate(c, s).at
  <2> DEFINE M == {u \in OpenSlots(replay) : u >= s}
             H == {replay[t].head : t \in M}
  <2>1. Storage /\ Locate(c, s).at = Min(H)
    BY <1>1, LocateStorage
  <2>2. /\ journal[j].slot \in Slot /\ replay[journal[j].slot].open
        /\ replay[journal[j].slot].head <= journal[j].index
        /\ replay[journal[j].slot].head \in Nat /\ journal[j].index \in Nat
    <3>1. j \in 1 .. Len(journal) /\ IsPush(journal[j])
      BY SeqLen DEF Retained, SenderInv, IndexInv, IndexOK
    <3>2. journal[j].index \in Nat
      BY <3>1 DEF SenderInv, IndexInv, IndexOK, CommandOK, IsPush
    <3> QED
      BY <2>1, <3>2, RetainedHead
  <2>3. \A t \in M : t \in Slot /\ replay[t].head \in Nat
    BY <2>1, OnDisk DEF OpenSlots
  <2>4. journal[j].slot \in M
    BY <1>1, <2>2 DEF OpenSlots
  <2> HIDE DEF M
  <2>5. H \in SUBSET Nat /\ replay[journal[j].slot].head \in H
    BY <2>3, <2>4
  <2> HIDE DEF H
  <2>6. Min(H) \in Nat /\ Min(H) <= replay[journal[j].slot].head
    BY <2>5, MinOfNats
  <2> QED
    BY <2>1, <2>2, <2>6
<1>2. ASSUME crashes = 0, NEW r \in Stored
      PROVE  r \in {journal[j] : j \in Retained}
  <2>1. DOMAIN journal = 1 .. Len(journal)
    BY SeqLen DEF SenderInv, IndexInv, IndexOK
  <2>2. PICK j \in 1 .. Len(journal) :
           /\ r = journal[j] /\ IsPush(journal[j]) /\ journal[j].index >= floor
           /\ \A k \in j + 1 .. Len(journal) :
                 ~(journal[k].op = "trim" /\ journal[k].slot = journal[j].m.slot)
    BY <2>1 DEF Stored, IsPush
  <2>3. journal[j].slot = journal[j].m.slot
    BY <2>2 DEF SenderInv, IndexInv, IndexOK, CommandOK, IsPush
  <2>4. ~\E k \in j + 1 .. Len(journal) :
            ~IsPush(journal[k]) /\ journal[k].slot = journal[j].slot
    <3>1. \A k \in j + 1 .. Len(journal) : k \in 1 .. Len(journal)
      BY SeqLen DEF SenderInv, IndexInv, IndexOK
    <3>2. \A k \in 1 .. Len(journal) : IsPush(journal[k]) \/ journal[k].op = "trim"
      BY DEF SenderInv, IndexInv, IndexOK, CommandOK, IsPush
    <3> QED
      BY <2>2, <2>3, <3>1, <3>2
  <2>5. \E i \in Entered(journal, floor, journal[j].slot) : i <= j
    BY <1>2, <2>2, <2>4 DEF SenderInv, RetainedInv, RetainedOK
  <2>6. j \in Retained
    BY <2>1, <2>2, <2>5 DEF Retained
  <2> QED
    BY <2>2, <2>6
<1> QED
  BY <1>1, <1>2, Zenon DEF DiskReplayComplete

\* A from_slot request that Messages::get_current_tail_with_replay sends to the storage starts
\* before every record of the requested slot and the later ones that the disk retains, and
\* until a crash the disk retains all that is stored.
THEOREM DiskReplay == Spec => []DiskReplayComplete
<1>1. SenderInv => DiskReplayComplete
  BY DiskReplayFollows
<1> QED
  BY <1>1, SenderInvariant, PTL

-----------------------------------------------------------------------------
(* What the streams carry of a slot *)

DataIn(q, s) == {m \in Range(q) : m.slot = s /\ IsData(m)}

IsStatus(m, s, key) == m.kind = "slot" /\ m.slot = s /\ m.key = key

IsBlock(m, s, b) == m.kind = "block" /\ m.slot = s /\ m.bank = b

\* A message is among some others, or a newer update of its account.
Held(D, m) ==
    \/ m \in D
    \/ /\ m.kind = "account"
       /\ \E o \in D : o.kind = "account" /\ o.key = m.key /\ o.version >= m.version

Blocked(q, s, b) == \E j \in 1 .. Len(q) : IsBlock(q[j], s, b)

\* The messages D of a bank hold what a stream carries of it, except what came behind
\* its block.
Covered(q, s, b, D) ==
    \A i \in 1 .. Len(q) :
        q[i].slot = s /\ q[i].bank = b /\ IsData(q[i]) =>
            \/ Held(D, q[i])
            \/ q[i].kind # "footer" /\ \E j \in 1 .. i - 1 : IsBlock(q[j], s, b)

LEMMA HeldMore ==
    ASSUME NEW D, NEW E, D \subseteq E, NEW m, Held(D, m)
    PROVE  Held(E, m)
  BY DEF Held

LEMMA ConcatRange ==
    ASSUME NEW a, NEW b, IsSeq(a), IsSeq(b)
    PROVE  Range(a \o b) = Range(a) \cup Range(b)
<1>1. Len(a) \in Nat /\ Len(b) \in Nat /\ IsSeq(a \o b) /\ Len(a \o b) = Len(a) + Len(b)
  BY SeqLen, ConcatSeq
<1>2. ASSUME NEW i \in 1 .. Len(a) + Len(b)
      PROVE  (a \o b)[i] \in Range(a) \cup Range(b)
  <2>1. CASE i \in 1 .. Len(a)
    BY <2>1, SeqLen, ConcatSeq
  <2>2. CASE i \in Len(a) + 1 .. Len(a) + Len(b)
    <3>1. i - Len(a) \in 1 .. Len(b) /\ (a \o b)[i] = b[i - Len(a)]
      BY <1>1, <2>2, ConcatSeq
    <3> QED
      BY <3>1, SeqLen
  <2> QED
    BY <1>1, <2>1, <2>2
<1>3. ASSUME NEW i \in 1 .. Len(a) PROVE a[i] \in Range(a \o b)
  <2>1. i \in 1 .. Len(a \o b) /\ (a \o b)[i] = a[i]
    BY <1>1, ConcatSeq
  <2> QED
    BY <1>1, <2>1, SeqLen
<1>4. ASSUME NEW i \in 1 .. Len(b) PROVE b[i] \in Range(a \o b)
  <2>1. Len(a) + i \in Len(a) + 1 .. Len(a) + Len(b) /\ (Len(a) + i) - Len(a) = i
    BY <1>1
  <2>2. (a \o b)[Len(a) + i] = b[i]
    BY <2>1, ConcatSeq
  <2>3. Len(a) + i \in 1 .. Len(a \o b)
    BY <1>1, <2>1
  <2> QED
    BY <1>1, <2>2, <2>3, SeqLen
<1>5. \A x \in Range(a \o b) : x \in Range(a) \cup Range(b)
  <2>1. Range(a \o b) = {(a \o b)[i] : i \in 1 .. Len(a) + Len(b)}
    BY <1>1, SeqLen
  <2> QED
    BY <1>2, <2>1
<1>6. \A x \in Range(a) \cup Range(b) : x \in Range(a \o b)
  BY <1>3, <1>4, SeqLen
<1> QED
  BY <1>5, <1>6

\* What is behind a sequence does not change what is before it.
LEMMA BlockedMore ==
    ASSUME NEW q, NEW a, IsSeq(q), IsSeq(a), NEW s, NEW b, Blocked(q, s, b)
    PROVE  Blocked(q \o a, s, b)
<1>1. PICK j \in 1 .. Len(q) : IsBlock(q[j], s, b)
  BY DEF Blocked
<1>2. Len(q) \in Nat /\ Len(a) \in Nat /\ Len(q \o a) = Len(q) + Len(a) /\ (q \o a)[j] = q[j]
  BY SeqLen, ConcatSeq
<1>3. j \in 1 .. Len(q \o a)
  BY <1>2
<1> QED
  BY <1>1, <1>2, <1>3 DEF Blocked

\* A stream grows, and with it what holds its data.
LEMMA CoveredMore ==
    ASSUME NEW q, NEW a, Messages(q), Messages(a), NEW s, NEW b, NEW D, NEW E,
           Covered(q, s, b, D),
           \A m \in Range(q) : Held(D, m) => Held(E, m),
           \A m \in Range(a) : m.slot = s /\ m.bank = b /\ IsData(m) =>
                                  Held(E, m) \/ (m.kind # "footer" /\ Blocked(q, s, b))
    PROVE  Covered(q \o a, s, b, E)
<1>1. IsSeq(q) /\ IsSeq(a)
  BY DEF Messages
<1>2. /\ Len(q) \in Nat /\ Len(a) \in Nat /\ Len(q \o a) = Len(q) + Len(a)
      /\ \A i \in 1 .. Len(q) : (q \o a)[i] = q[i] /\ q[i] \in Range(q)
      /\ \A i \in Len(q) + 1 .. Len(q) + Len(a) : (q \o a)[i] = a[i - Len(q)]
  BY <1>1, SeqLen, ConcatSeq
<1> SUFFICES ASSUME NEW i \in 1 .. Len(q) + Len(a),
                    (q \o a)[i].slot = s, (q \o a)[i].bank = b, IsData((q \o a)[i])
             PROVE  \/ Held(E, (q \o a)[i])
                    \/ /\ (q \o a)[i].kind # "footer"
                       /\ \E j \in 1 .. i - 1 : IsBlock((q \o a)[j], s, b)
  BY <1>2 DEF Covered
<1>3. CASE i \in 1 .. Len(q)
  <2>1. (q \o a)[i] = q[i] /\ q[i] \in Range(q)
    BY <1>2, <1>3
  <2>2. Held(D, q[i]) \/ (q[i].kind # "footer" /\ \E j \in 1 .. i - 1 : IsBlock(q[j], s, b))
    BY <1>3, <2>1 DEF Covered
  <2>3. ASSUME NEW j \in 1 .. i - 1 PROVE (q \o a)[j] = q[j]
    <3>1. j \in 1 .. Len(q)
      BY <1>2, <1>3
    <3> QED
      BY <1>2, <3>1
  <2> QED
    BY <2>1, <2>2, <2>3
<1>4. CASE i \in Len(q) + 1 .. Len(q) + Len(a)
  <2>1. (q \o a)[i] = a[i - Len(q)] /\ i - Len(q) \in 1 .. Len(a)
    BY <1>2, <1>4
  <2>2. a[i - Len(q)] \in Range(a)
    BY <1>1, <2>1, SeqLen
  <2>3. Held(E, (q \o a)[i]) \/ ((q \o a)[i].kind # "footer" /\ Blocked(q, s, b))
    BY <2>1, <2>2
  <2>4. ASSUME Blocked(q, s, b) PROVE \E j \in 1 .. i - 1 : IsBlock((q \o a)[j], s, b)
    <3>1. PICK j \in 1 .. Len(q) : IsBlock(q[j], s, b)
      BY <2>4 DEF Blocked
    <3>2. j \in 1 .. i - 1 /\ (q \o a)[j] = q[j]
      BY <1>2, <1>4
    <3> QED
      BY <3>1, <3>2
  <2> QED
    BY <2>3, <2>4
<1> QED
  BY <1>2, <1>3, <1>4

-----------------------------------------------------------------------------
(* What is kept of a bank *)

\* Keeping an update loses nothing that it is not newer than.
LEMMA KeepHighestHolds ==
    ASSUME NEW q, Messages(q), NEW m, MsgOK(m), m.kind = "account"
    PROVE  /\ \A p : MsgOK(p) /\ Held(Range(q), p) => Held(Range(KeepHighest(q, m)), p)
           /\ Held(Range(KeepHighest(q, m)), m)
           /\ Range(KeepHighest(q, m)) \subseteq Range(q) \cup {m}
<1> DEFINE K == Kept(q, m.key)
           k == Max(K)
           r == KeepHighest(q, m)
<1>1. /\ IsSeq(q) /\ Len(q) \in Nat /\ DOMAIN q = 1 .. Len(q)
      /\ Range(q) = {q[i] : i \in 1 .. Len(q)}
  BY SeqLen DEF Messages
<1>2. K \in SUBSET (1 .. Len(q)) /\ \A i \in K : q[i].kind = "account" /\ q[i].key = m.key
  BY <1>1 DEF Kept
<1>3. \A o : MsgOK(o) => o.version \in Nat
  BY DEF MsgOK
<1>4. \A o \in Range(q) : MsgOK(o)
  BY <1>1 DEF Messages
<1>5. Range(r) \subseteq Range(q) \cup {m}
  <2>1. /\ IsSeq(r)
        /\ \A i \in 1 .. Len(r) : r[i] = m \/ \E j \in 1 .. Len(q) : r[i] = q[j]
    BY <1>1, KeepHighestFrom
  <2> HIDE DEF r
  <2>2. Range(r) = {r[i] : i \in 1 .. Len(r)}
    BY <2>1, SeqLen
  <2> QED
    BY <1>1, <2>1, <2>2
<1>6. ASSUME Range(q) \cup {m} \subseteq Range(r)
      PROVE  (\A p : MsgOK(p) /\ Held(Range(q), p) => Held(Range(r), p)) /\ Held(Range(r), m)
  BY <1>6 DEF Held
<1>7. CASE K = {}
  <2>1. r = q \o <<m>>
    <3>1. r = Append(q, m)
      BY <1>7 DEF KeepHighest
    <3> QED
      BY <1>1, <3>1 DEF IsSeq
  <2>2. Range(<<m>>) = {m} /\ IsSeq(<<m>>)
    BY SingleSeq DEF Range
  <2>3. Range(r) = Range(q) \cup {m}
    BY <1>1, <2>1, <2>2, ConcatRange
  <2> QED
    BY <1>5, <1>6, <2>3
<1>8. CASE K # {} /\ q[k].version >= m.version
  <2>1. r = q
    BY <1>8 DEF KeepHighest
  <2>2. k \in 1 .. Len(q) /\ q[k].kind = "account" /\ q[k].key = m.key
    BY <1>1, <1>2, <1>8, MaxPosition
  <2>3. q[k] \in Range(q)
    BY <1>1, <2>2
  <2> HIDE DEF k
  <2>4. Held(Range(q), m)
    BY <1>8, <2>2, <2>3 DEF Held
  <2> QED
    BY <1>5, <2>1, <2>4
<1>9. CASE K # {} /\ ~(q[k].version >= m.version)
  <2>1. r = Append(RemoveAt(q, k), m)
    BY <1>9 DEF KeepHighest
  <2>2. k \in 1 .. Len(q) /\ q[k].kind = "account" /\ q[k].key = m.key
    BY <1>1, <1>2, <1>9, MaxPosition
  <2> HIDE DEF k, K
  <2> DEFINE a == SubSeq(q, 1, k - 1)
             b == SubSeq(q, k + 1, Len(q))
  <2>3. IsSeq(a) /\ Len(a) = k - 1 /\ \A i \in 1 .. k - 1 : a[i] = q[i]
    <3>1. 1 \in 1 .. Len(q) + 1 /\ k - 1 \in 1 - 1 .. Len(q)
      BY <1>1, <2>2
    <3> QED
      BY <1>1, <2>2, <3>1, SubSeqSeq
  <2>4. IsSeq(b) /\ Len(b) = Len(q) - k /\ \A i \in 1 .. Len(q) - k : b[i] = q[k + i]
    <3>1. k + 1 \in 1 .. Len(q) + 1 /\ Len(q) \in (k + 1) - 1 .. Len(q)
      BY <1>1, <2>2
    <3>2. /\ IsSeq(b) /\ Len(b) = Len(q) + 1 - (k + 1)
          /\ \A i \in 1 .. Len(q) + 1 - (k + 1) : b[i] = q[(k + 1) + i - 1]
      BY <1>1, <3>1, SubSeqSeq
    <3>3. k \in Int /\ Len(q) \in Int
      BY <1>1, <2>2
    <3>4. Len(q) + 1 - (k + 1) = Len(q) - k /\ \A i \in Int : (k + 1) + i - 1 = k + i
      BY <3>3
    <3> HIDE DEF b
    <3>5. ASSUME NEW i \in 1 .. Len(q) - k PROVE b[i] = q[k + i]
      <4>1. (k + 1) + i - 1 = k + i
        BY <3>4
      <4>2. b[i] = q[(k + 1) + i - 1]
        BY <3>2, <3>4
      <4> QED
        BY <4>1, <4>2, Zenon
    <3> QED
      BY <3>2, <3>4, <3>5
  <2>5. RemoveAt(q, k) = a \o b
    BY DEF RemoveAt
  <2> HIDE DEF a, b
  <2>6. IsSeq(a \o b) /\ Range(a \o b) = Range(a) \cup Range(b)
    BY <2>3, <2>4, ConcatSeq, ConcatRange
  <2>7. Range(r) = Range(a) \cup Range(b) \cup {m}
    <3> DEFINE ab == a \o b
    <3>1. IsSeq(ab) /\ r = Append(ab, m) /\ IsSeq(<<m>>) /\ Range(<<m>>) = {m}
      BY <2>1, <2>5, <2>6, SingleSeq DEF Range
    <3> HIDE DEF ab, r
    <3>2. r = ab \o <<m>>
      BY <3>1 DEF IsSeq
    <3>3. Range(r) = Range(ab) \cup {m}
      BY <3>1, <3>2, ConcatRange
    <3> QED
      BY <2>6, <3>3 DEF ab
  <2>8. \A o \in Range(q) : o = q[k] \/ o \in Range(r)
    <3>1. ASSUME NEW i \in 1 .. Len(q), i # k PROVE q[i] \in Range(r)
      <4>1. CASE i \in 1 .. k - 1
        <5>1. a[i] \in Range(a) /\ a[i] = q[i]
          BY <2>3, <4>1, SeqLen
        <5> QED
          BY <2>7, <5>1
      <4>2. CASE i \in k + 1 .. Len(q)
        <5>1. i - k \in 1 .. Len(q) - k /\ k + (i - k) = i
          BY <1>1, <2>2, <4>2
        <5>2. b[i - k] \in Range(b) /\ b[i - k] = q[i]
          BY <2>4, <5>1, SeqLen
        <5> QED
          BY <2>7, <5>2
      <4> QED
        BY <1>1, <2>2, <3>1, <4>1, <4>2
    <3> QED
      BY <1>1, <3>1
  <2>9. m \in Range(r) /\ q[k] \in Range(q)
    BY <1>1, <2>2, <2>7
  <2> HIDE DEF r
  <2>10. ASSUME NEW p, MsgOK(p), Held(Range(q), p) PROVE Held(Range(r), p)
    <3> DEFINE w == q[k]
    <3>1. w.version \in Nat /\ m.version \in Nat /\ p.version \in Nat /\ w.version <= m.version
          /\ w.kind = "account" /\ w.key = m.key
      <4>1. w.version \in Nat /\ m.version \in Nat /\ p.version \in Nat
        BY <1>3, <1>4, <2>9, <2>10
      <4> QED
        BY <1>9, <2>2, <4>1
    <3>2. \A o \in Range(q) : o = w \/ o \in Range(r)
      BY <2>8
    <3> HIDE DEF w
    <3>3. CASE p = w
      BY <2>9, <3>1, <3>3 DEF Held
    <3>4. CASE p # w /\ p \in Range(q)
      BY <3>2, <3>4 DEF Held
    <3>5. CASE /\ p.kind = "account"
               /\ \E o \in Range(q) : o.kind = "account" /\ o.key = p.key /\ o.version >= p.version
      <4>1. PICK o \in Range(q) : o.kind = "account" /\ o.key = p.key /\ o.version >= p.version
        BY <3>5
      <4>2. CASE o = w
        BY <2>9, <3>1, <3>5, <4>1, <4>2 DEF Held
      <4>3. CASE o \in Range(r)
        BY <3>5, <4>1, <4>3 DEF Held
      <4> QED
        BY <3>2, <4>2, <4>3
    <3> QED
      BY <2>10, <3>3, <3>4, <3>5 DEF Held
  <2> QED
    BY <1>5, <2>9, <2>10 DEF Held, r
<1> HIDE DEF K, k, r
<1> QED
  BY <1>7, <1>8, <1>9 DEF r

\* The block that a message makes of its bank, if it does.
Made(x, y) == IF y.created /\ ~x.created THEN <<Last(y.messages)>> ELSE <<>>

\* A bank with a message more holds what it held, and the message unless its block is made.
BankGrown(x, y, m, B) ==
    /\ \A p : MsgOK(p) /\ Held(Range(x.messages), p) => Held(Range(y.messages), p)
    /\ Held(Range(y.messages), m) \/ (m.kind # "footer" /\ x.created)
    /\ Range(y.messages) \subseteq Range(x.messages) \cup {m} \cup Range(B)
    /\ y.created => x.created \/ Len(B) > 0
    /\ IsSeq(B)
    /\ \A e \in Range(B) : IsBlock(e, m.slot, m.bank) /\ MsgOK(e) /\ e \in Range(y.messages)

LEMMA BankStep ==
    ASSUME NEW x, NEW s, NEW b, BankOK(x, s, b),
           NEW m, MsgOK(m), m.slot = s, m.bank = b, IsData(m)
    PROVE  BankGrown(x, BankWith(x, m), m, Made(x, BankWith(x, m)))
<1> DEFINE q == IF m.kind = "account" THEN KeepHighest(x.messages, m) ELSE Append(x.messages, m)
           e == BlockOf(m, q)
           r == Append(q, e)
           y == BankWith(x, m)
<1>1. x \in [open : BOOLEAN, messages : {x.messages}, created : BOOLEAN]
  BY DEF BankOK
<1>2. Messages(x.messages)
  BY DEF BankOK, Messages
<1>3. /\ IsSeq(q)
      /\ \A p : MsgOK(p) /\ Held(Range(x.messages), p) => Held(Range(q), p)
      /\ Held(Range(q), m)
      /\ Range(q) \subseteq Range(x.messages) \cup {m}
  <2>1. CASE m.kind = "account"
    <3>1. IsSeq(KeepHighest(x.messages, m))
      BY <1>2, KeepHighestFrom DEF Messages
    <3>2. q = KeepHighest(x.messages, m)
      BY <2>1
    <3> HIDE DEF q
    <3> QED
      BY <1>2, <2>1, <3>1, <3>2, KeepHighestHolds
  <2>2. CASE m.kind # "account"
    <3> DEFINE a == x.messages
    <3>1. q = Append(a, m) /\ IsSeq(a)
      BY <1>2, <2>2 DEF Messages
    <3> HIDE DEF a, q
    <3>2. q = a \o <<m>>
      BY <3>1 DEF IsSeq
    <3>3. IsSeq(<<m>>) /\ Range(<<m>>) = {m}
      BY SingleSeq DEF Range
    <3>4. IsSeq(q) /\ Range(q) = Range(a) \cup {m}
      BY <3>1, <3>2, <3>3, ConcatSeq, ConcatRange
    <3> QED
      BY <3>4, HeldMore DEF Held, a
  <2> QED
    BY <2>1, <2>2
<1> HIDE DEF q
<1>4. /\ MsgOK(e) /\ IsBlock(e, s, b)
  BY BlockOfOK DEF IsBlock
<1>5. IsSeq(r) /\ Range(r) = Range(q) \cup {e} /\ Last(r) = e
  <2> HIDE DEF e
  <2>1. r = q \o <<e>>
    BY <1>3 DEF IsSeq
  <2>2. IsSeq(<<e>>) /\ Range(<<e>>) = {e}
    BY SingleSeq DEF Range
  <2>3. IsSeq(r) /\ Range(r) = Range(q) \cup {e}
    BY <1>3, <2>1, <2>2, ConcatSeq, ConcatRange
  <2>4. Len(r) = Len(q) + 1 /\ r[Len(q) + 1] = e
    BY <1>3, AppendSeq
  <2> QED
    BY <2>3, <2>4 DEF Last
<1>6. \/ m.kind = "footer" /\ y.messages = q /\ y.created = x.created
      \/ m.kind # "footer" /\ x.created /\ y = x
      \/ ~x.created /\ y.created /\ y.messages = r
      \/ ~x.created /\ ~y.created /\ y.messages = q
  <2>1. y = IF m.kind = "footer" THEN [x EXCEPT !.open = TRUE, !.messages = q]
            ELSE IF x.created THEN x
            ELSE IF BlockComplete(q) THEN [open |-> TRUE, created |-> TRUE, messages |-> r]
            ELSE [open |-> TRUE, created |-> FALSE, messages |-> q]
    BY DEF BankWith, q
  <2>2. [x EXCEPT !.open = TRUE, !.messages = q].messages = q
        /\ [x EXCEPT !.open = TRUE, !.messages = q].created = x.created
    BY <1>1
  <2> HIDE DEF r, y
  <2>3. CASE m.kind = "footer"
    BY <2>1, <2>2, <2>3
  <2>4. CASE m.kind # "footer"
    BY <2>1, <2>4
  <2> QED
    BY <2>3, <2>4
<1> DEFINE B == Made(x, y)
<1>7. IsSeq(<<>>) /\ Len(<<>>) = 0 /\ Range(<<>>) = {}
  BY EmptyIsSeq, SeqLen
<1>8. IsSeq(<<e>>) /\ Len(<<e>>) = 1 /\ Range(<<e>>) = {e}
  BY SingleSeq DEF Range
<1> HIDE DEF e, r, y
<1>9. CASE m.kind = "footer" /\ y.messages = q /\ y.created = x.created
  <2>1. B = <<>>
    BY <1>9 DEF Made
  <2> HIDE DEF B
  <2> QED
    BY <1>3, <1>7, <1>9, <2>1 DEF BankGrown, B, y
<1>10. CASE m.kind # "footer" /\ x.created /\ y = x
  <2>1. B = <<>>
    BY <1>10 DEF Made
  <2> HIDE DEF B
  <2> QED
    BY <1>7, <1>10, <2>1 DEF BankGrown, B, y
<1>11. CASE ~x.created /\ y.created /\ y.messages = r
  <2>1. B = <<e>>
    BY <1>5, <1>11 DEF Made
  <2> HIDE DEF B
  <2>2. \A p : Held(Range(q), p) => Held(Range(r), p)
    BY <1>5, HeldMore
  <2>3. BankGrown(x, y, m, B)
    BY <1>3, <1>4, <1>5, <1>8, <1>11, <2>1, <2>2 DEF BankGrown
  <2> QED
    BY <2>3 DEF B, y
<1>12. CASE ~x.created /\ ~y.created /\ y.messages = q
  <2>1. B = <<>>
    BY <1>12 DEF Made
  <2> HIDE DEF B
  <2> QED
    BY <1>3, <1>7, <1>12, <2>1 DEF BankGrown, B, y
<1> QED
  BY <1>6, <1>9, <1>10, <1>11, <1>12 DEF B, y

\* The slot with a message of data more.
LEMMA DataStep ==
    ASSUME NEW x, NEW s, InfoOK(x, s), NEW m, MsgOK(m), m.slot = s, IsData(m)
    PROVE  LET y == InfoWith(x, m)
           IN  /\ y.confirmed_bank = x.confirmed_bank /\ y.cleared = x.cleared
               /\ \A b \in Bank0 : b # m.bank => y.banks[b] = x.banks[b]
               /\ y.banks[m.bank] = BankWith(x.banks[m.bank], m)
               /\ NewBlock(x, m) = Made(x.banks[m.bank], y.banks[m.bank])
               /\ BankGrown(x.banks[m.bank], y.banks[m.bank], m, NewBlock(x, m))
<1> DEFINE y == InfoWith(x, m)
           z == BankWith(x.banks[m.bank], m)
<1>1. /\ x \in [open : {TRUE}, index : Nat, confirmed_bank : Bank0 \cup {NoChoice},
                banks : {x.banks}, cleared : SUBSET Bank]
      /\ x.banks = [b \in Bank0 |-> x.banks[b]] /\ m.bank \in Bank0
      /\ BankOK(x.banks[m.bank], s, m.bank)
  BY DEF InfoOK, MsgOK
<1>2. m.kind # "update_parent" /\ m.kind # "slot"
  BY DEF IsData
<1>3. y = [x EXCEPT !.banks = [x.banks EXCEPT ![m.bank] = z]]
  BY <1>1, <1>2 DEF InfoWith
<1> HIDE DEF z
<1>4. /\ y.confirmed_bank = x.confirmed_bank /\ y.cleared = x.cleared
      /\ y.banks = [x.banks EXCEPT ![m.bank] = z]
  BY <1>1, <1>3
<1> HIDE DEF y
<1>5. (\A b \in Bank0 : b # m.bank => y.banks[b] = x.banks[b]) /\ y.banks[m.bank] = z
  BY <1>1, <1>4
<1>6. NewBlock(x, m) = Made(x.banks[m.bank], y.banks[m.bank])
  BY <1>2, Zenon DEF NewBlock, Made, y
<1>7. BankGrown(x.banks[m.bank], z, m, Made(x.banks[m.bank], z))
  BY <1>1, BankStep DEF z
<1> QED
  BY <1>4, <1>5, <1>6, <1>7 DEF y, z

-----------------------------------------------------------------------------
(* What a push adds to the streams *)

LEMMA ConcatAssoc ==
    ASSUME NEW a, NEW b, NEW c, IsSeq(a), IsSeq(b), IsSeq(c)
    PROVE  (a \o b) \o c = a \o (b \o c)
<1> DEFINE A == Range(a) \cup Range(b) \cup Range(c)
<1>1. a \in Seq(Range(a)) /\ b \in Seq(Range(b)) /\ c \in Seq(Range(c))
  BY DEF IsSeq
<1>2. /\ Range(a) \subseteq A /\ Range(b) \subseteq A /\ Range(c) \subseteq A
  OBVIOUS
<1> HIDE DEF A
<1>3. a \in Seq(A) /\ b \in Seq(A) /\ c \in Seq(A)
  BY <1>1, <1>2
<1> QED
  BY <1>3

LEMMA ConcatEmpty ==
    ASSUME NEW a, IsSeq(a)
    PROVE  a \o <<>> = a /\ <<>> \o a = a
<1> DEFINE A == Range(a)
<1>1. a \in Seq(A)
  BY DEF IsSeq
<1> HIDE DEF A
<1> QED
  BY <1>1

\* The bank that a message commits.
Chosen(x, m) == IF m.kind = "slot" THEN CommitBank(x, m) ELSE NoChoice

\* The slot after a message.
InfoAfter(x, m) ==
    IF m.kind # "slot" THEN InfoWith(x, m)
    ELSE IF m.key = Confirmed /\ Chosen(x, m) # NoChoice
    THEN [x EXCEPT !.confirmed_bank = Chosen(x, m)] ELSE x

\* What one event adds to the stream of a commitment.
EventOut(x, e, promoted, c) ==
    IF e.kind = "slot"
    THEN <<e>> \o (IF promoted # NoChoice /\ c = e.key THEN x.banks[promoted].messages ELSE <<>>)
    ELSE IF c = Processed \/ (c = Confirmed /\ LateForConfirmed(x, e)) THEN <<e>> ELSE <<>>

LEMMA PushStoredGives ==
    ASSUME NEW s \in Slot, NEW st, StOK(st, s), NEW c \in Commitment, NEW q, MessagesOf(q, s)
    PROVE  LET st1 == PushStored(st, c, q)
           IN  /\ StOK(st1, s) /\ SameSlot(st1, st)
               /\ \A d \in Commitment :
                     st1.stream[d] = IF d = c THEN st.stream[d] \o q ELSE st.stream[d]
<1> DEFINE st1 == PushStored(st, c, q)
<1>1. After(st1, st, s) /\ SameSlot(st1, st) /\ LongerBy(st1, st, c, q)
  BY PushStoredOK
<1> HIDE DEF st1
<1>2. StOK(st1, s)
  BY <1>1 DEF After
<1>3. st1.stream = [st.stream EXCEPT ![c] = st.stream[c] \o q]
  BY <1>1 DEF LongerBy
<1>4. st.stream = [d \in Commitment |-> st.stream[d]]
  BY DEF StOK, StreamsOK
<1>5. \A d \in Commitment : st1.stream[d] = IF d = c THEN st.stream[d] \o q ELSE st.stream[d]
  BY <1>3, <1>4
<1> QED
  BY <1>1, <1>2, <1>5 DEF st1

LEMMA ToStreamsGives ==
    ASSUME NEW s \in Slot, NEW st, StOK(st, s), NEW e, MsgOK(e), e.slot = s,
           NEW promoted \in Bank0 \cup {NoChoice},
           promoted # NoChoice => e.key \in {Confirmed, Finalized}
    PROVE  LET st1 == ToStreams(st, e, promoted)
           IN  /\ SameSlot(st1, st)
               /\ \A c \in Commitment :
                     st1.stream[c] = st.stream[c] \o EventOut(st.info, e, promoted, c)
<1> DEFINE one == <<e>>
           more == st.info.banks[promoted].messages
           c1 == PushStored(st, Confirmed, one)
           c2 == PushStored(c1, Finalized, one)
           c3 == PushStored(c2, e.key, more)
           p1 == PushStored(c1, Processed, one)
           p2 == PushStored(c2, Processed, one)
           p3 == PushStored(c3, Processed, one)
           p0 == PushStored(st, Processed, one)
<1>1. /\ MessagesOf(one, s) /\ Confirmed \in Commitment /\ Finalized \in Commitment
      /\ Processed \in Commitment
  BY OneMessage DEF Commitment
<1>2. /\ Processed # Confirmed /\ Processed # Finalized /\ Confirmed # Finalized
      /\ \A c \in Commitment : c \in {Processed, Confirmed, Finalized}
  BY DEF Processed, Confirmed, Finalized, Commitment
<1>3. IsSeq(one) /\ \A c \in Commitment : IsSeq(st.stream[c])
  BY <1>1 DEF StOK, StreamsOK, Messages, MessagesOf
<1>4. one \o <<>> = one /\ \A c \in Commitment : st.stream[c] \o <<>> = st.stream[c]
  BY <1>3, ConcatEmpty
<1>5. ToStreams(st, e, promoted) =
         IF e.kind = "slot" THEN IF promoted = NoChoice THEN p2 ELSE p3
         ELSE IF LateForConfirmed(st.info, e) THEN p1 ELSE p0
  BY DEF ToStreams
<1>6. \A c : EventOut(st.info, e, promoted, c) =
         IF e.kind = "slot" THEN one \o (IF promoted # NoChoice /\ c = e.key THEN more ELSE <<>>)
         ELSE IF c = Processed \/ (c = Confirmed /\ LateForConfirmed(st.info, e)) THEN one
         ELSE <<>>
  BY DEF EventOut
<1> HIDE DEF one, more
<1>7. /\ StOK(c1, s) /\ SameSlot(c1, st)
      /\ \A d \in Commitment :
            c1.stream[d] = IF d = Confirmed THEN st.stream[d] \o one ELSE st.stream[d]
  BY <1>1, PushStoredGives
<1>8. /\ SameSlot(p0, st)
      /\ \A d \in Commitment :
            p0.stream[d] = IF d = Processed THEN st.stream[d] \o one ELSE st.stream[d]
  BY <1>1, PushStoredGives
<1> HIDE DEF c1, p0
<1>9. /\ StOK(c2, s) /\ SameSlot(c2, c1)
      /\ \A d \in Commitment :
            c2.stream[d] = IF d = Finalized THEN c1.stream[d] \o one ELSE c1.stream[d]
  BY <1>1, <1>7, PushStoredGives
<1>10. /\ SameSlot(p1, c1)
       /\ \A d \in Commitment :
             p1.stream[d] = IF d = Processed THEN c1.stream[d] \o one ELSE c1.stream[d]
  BY <1>1, <1>7, PushStoredGives
<1> HIDE DEF c2, p1
<1>11. /\ SameSlot(p2, c2)
       /\ \A d \in Commitment :
             p2.stream[d] = IF d = Processed THEN c2.stream[d] \o one ELSE c2.stream[d]
  BY <1>1, <1>9, PushStoredGives
<1> HIDE DEF p2
<1>12. ASSUME promoted # NoChoice
       PROVE  /\ SameSlot(p3, st) /\ IsSeq(more)
              /\ \A d \in Commitment :
                    p3.stream[d] = IF d = e.key THEN (st.stream[d] \o one) \o more
                                   ELSE st.stream[d] \o one
  <2>1. MessagesOf(more, s)
    BY <1>12, BankMessages DEF StOK, more
  <2>2. e.key \in Commitment /\ e.key # Processed
    BY <1>2, <1>12 DEF Commitment
  <2>3. /\ StOK(c3, s) /\ SameSlot(c3, c2)
        /\ \A d \in Commitment :
              c3.stream[d] = IF d = e.key THEN c2.stream[d] \o more ELSE c2.stream[d]
    BY <1>9, <2>1, <2>2, PushStoredGives
  <2> HIDE DEF c3
  <2>4. /\ SameSlot(p3, c3)
        /\ \A d \in Commitment :
              p3.stream[d] = IF d = Processed THEN c3.stream[d] \o one ELSE c3.stream[d]
    BY <1>1, <2>3, PushStoredGives
  <2> HIDE DEF p3
  <2>5. SameSlot(p3, st)
    BY <1>7, <1>9, <2>3, <2>4 DEF SameSlot
  <2>6. IsSeq(more)
    BY <2>1 DEF MessagesOf, Messages
  <2> QED
    BY <1>2, <1>7, <1>9, <2>2, <2>3, <2>4, <2>5, <2>6
<1> HIDE DEF c3, p3
<1>13. ASSUME NEW d \in Commitment, promoted # NoChoice
       PROVE  (st.stream[d] \o one) \o more = st.stream[d] \o (one \o more)
  <2> DEFINE a == st.stream[d]
  <2>1. IsSeq(a) /\ IsSeq(one) /\ IsSeq(more)
    BY <1>3, <1>12, <1>13
  <2> HIDE DEF a
  <2>2. (a \o one) \o more = a \o (one \o more)
    BY <2>1, ConcatAssoc
  <2> QED
    BY <2>2 DEF a
<1> DEFINE t == ToStreams(st, e, promoted)
<1>14. SameSlot(t, st)
  BY <1>5, <1>7, <1>8, <1>9, <1>10, <1>11, <1>12 DEF SameSlot
<1>15. ASSUME NEW c \in Commitment
       PROVE  t.stream[c] = st.stream[c] \o EventOut(st.info, e, promoted, c)
  <2> HIDE DEF t
  <2>1. CASE e.kind = "slot" /\ promoted = NoChoice
    <3>1. t = p2 /\ EventOut(st.info, e, promoted, c) = one
      BY <1>4, <1>5, <1>6, <2>1 DEF t
    <3> QED
      BY <1>2, <1>7, <1>9, <1>11, <3>1
  <2>2. CASE e.kind = "slot" /\ promoted # NoChoice
    <3>1. t = p3
      BY <1>5, <2>2 DEF t
    <3>2. EventOut(st.info, e, promoted, c) = IF c = e.key THEN one \o more ELSE one
      BY <1>4, <1>6, <2>2
    <3> QED
      BY <1>12, <1>13, <2>2, <3>1, <3>2
  <2>3. CASE e.kind # "slot" /\ LateForConfirmed(st.info, e)
    <3>1. t = p1
      BY <1>5, <2>3 DEF t
    <3>2. EventOut(st.info, e, promoted, c) = IF c # Finalized THEN one ELSE <<>>
      BY <1>2, <1>6, <2>3
    <3> QED
      BY <1>2, <1>4, <1>7, <1>10, <3>1, <3>2
  <2>4. CASE e.kind # "slot" /\ ~LateForConfirmed(st.info, e)
    <3>1. t = p0
      BY <1>5, <2>4 DEF t
    <3>2. EventOut(st.info, e, promoted, c) = IF c = Processed THEN one ELSE <<>>
      BY <1>2, <1>6, <2>4
    <3> QED
      BY <1>4, <1>8, <3>1, <3>2
  <2> QED
    BY <2>1, <2>2, <2>3, <2>4
<1> QED
  BY <1>14, <1>15

\* What an event does to the state that a push carries along.
EventDone(st1, st, s, e, promoted) ==
    /\ StOK(st1, s) /\ st1.info = st.info /\ st1.rep = st.rep
    /\ st1.final <=> st.final \/ IsFinalized(e)
    /\ \A c \in Commitment :
          st1.stream[c] = st.stream[c] \o EventOut(st.info, e, promoted, c)

\* An event that the journal cannot have is published.
LEMMA PublishEventGives ==
    ASSUME NEW s \in Slot, NEW st, StOK(st, s), ~st.rep.tracked, NEW e, MsgOK(e), e.slot = s,
           NEW promoted \in Bank0 \cup {NoChoice},
           promoted # NoChoice => e.key \in {Confirmed, Finalized}
    PROVE  EventDone(PublishEvent(st, e, promoted), st, s, e, promoted)
<1> DEFINE fin == st.final \/ IsFinalized(e)
           u == [st EXCEPT !.rep = st.rep, !.final = fin]
           st1 == PublishEvent(st, e, promoted)
<1>1. promoted # NoChoice => e.key \in Commitment
  BY DEF Commitment
<1>2. After(st1, st, s) /\ st1.info = st.info /\ st1.rep = st.rep
  BY <1>1, PublishEventOK
<1>3. ~AlreadyStored(st.rep, e)
  BY DEF StOK, RepOK, AlreadyStored
<1>4. st1 = ToStreams(u, e, promoted)
  BY <1>3 DEF PublishEvent
<1>5. fin \in BOOLEAN
  BY DEF StOK, IsFinalized
<1> HIDE DEF fin, st1
<1>6. st \in [info : {st.info}, rep : {st.rep}, final : BOOLEAN, stream : {st.stream},
              journal : {st.journal}, index : Nat]
  BY DEF StOK
<1>7. u \in [info : {st.info}, rep : {st.rep}, final : BOOLEAN, stream : {st.stream},
             journal : {st.journal}, index : Nat] /\ u.final = fin
  BY <1>5, <1>6
<1> HIDE DEF u
<1>8. u.info = st.info /\ u.rep = st.rep /\ u.stream = st.stream /\ u.journal = st.journal
  BY <1>7
<1>9. StOK(u, s)
  BY <1>7, <1>8 DEF StOK
<1>10. /\ SameSlot(st1, u)
       /\ \A c \in Commitment : st1.stream[c] = u.stream[c] \o EventOut(u.info, e, promoted, c)
  BY <1>4, <1>9, ToStreamsGives
<1>11. StOK(st1, s)
  BY <1>2 DEF After
<1> QED
  BY <1>2, <1>7, <1>8, <1>10, <1>11 DEF SameSlot, fin, st1, EventDone

\* What a message adds to the stream of a commitment: itself, then the bank that it
\* commits or the block that it completes.
MessageOut(x, m, c) ==
    IF m.kind = "slot"
    THEN <<m>> \o (IF Chosen(x, m) # NoChoice /\ c = m.key THEN x.banks[Chosen(x, m)].messages
                   ELSE <<>>)
    ELSE IF c = Processed \/ (c = Confirmed /\ LateForConfirmed(x, m))
    THEN <<m>> \o NewBlock(x, m) ELSE <<>>

LEMMA NewBlockOK ==
    ASSUME NEW x, NEW s, InfoOK(x, s), NEW m, MsgOK(m), m.slot = s, m.kind # "slot"
    PROVE  /\ NewBlock(x, m) # <<>> =>
                 LET e == Head(NewBlock(x, m))
                 IN  /\ NewBlock(x, m) = <<e>> /\ MsgOK(e) /\ e.slot = s
                     /\ e.kind = "block" /\ e.bank = m.bank /\ m.kind # "update_parent"
<1>1. NewBlock(x, m) # <<>> =>
         LET e == Head(NewBlock(x, m))
         IN  MsgOK(e) /\ e.slot = s /\ e.kind = "block" /\ e.bank = m.bank
  BY InfoWithOK
<1>2. ASSUME NEW z PROVE Head(<<z>>) = z
  OBVIOUS
<1>3. ASSUME NewBlock(x, m) # <<>>
      PROVE  NewBlock(x, m) = <<Head(NewBlock(x, m))>> /\ m.kind # "update_parent"
  <2> DEFINE z == Last(InfoWith(x, m).banks[m.bank].messages)
  <2>1. NewBlock(x, m) = <<z>> /\ m.kind # "update_parent"
    BY <1>3, Zenon DEF NewBlock
  <2> HIDE DEF z
  <2> QED
    BY <1>2, <2>1
<1> QED
  BY <1>1, <1>3

\* What a message does to it.
MessageDone(st1, st, s, m) ==
    /\ StOK(st1, s) /\ st1.info = InfoAfter(st.info, m) /\ st1.rep = st.rep
    /\ st1.final <=> st.final \/ IsFinalized(m)
    /\ \A c \in Commitment : st1.stream[c] = st.stream[c] \o MessageOut(st.info, m, c)

\* The turn of the loop for one message.
LEMMA PushOneGives ==
    ASSUME NEW s \in Slot, NEW st, StOK(st, s), ~st.rep.tracked, NEW m, MsgOK(m), m.slot = s
    PROVE  MessageDone(PushOne(st, m), st, s, m)
<1> DEFINE x == st.info
           promoted == Chosen(x, m)
           y == InfoAfter(x, m)
           block == IF m.kind = "slot" THEN <<>> ELSE NewBlock(x, m)
           u == [st EXCEPT !.info = y]
           v == PublishEvent(u, m, promoted)
           w == PublishEvent(v, Head(block), NoChoice)
           st1 == PushOne(st, m)
<1>1. st1 = IF block = <<>> THEN v ELSE w
  BY DEF PushOne, Chosen, InfoAfter
<1>2. InfoOK(x, s)
  BY DEF StOK
<1>3. /\ promoted \in Bank0 \cup {NoChoice}
      /\ promoted # NoChoice => m.key \in {Confirmed, Finalized} /\ m.kind = "slot"
  <2>1. CommitBank(x, m) \in Bank0 \cup {NoChoice}
    BY <1>2, CommitBankOK
  <2>2. CommitBank(x, m) # NoChoice => m.key \in {Confirmed, Finalized}
    BY DEF CommitBank
  <2> QED
    BY <2>1, <2>2 DEF Chosen
<1> HIDE DEF promoted
<1>4. /\ InfoOK(y, s)
      /\ m.kind = "slot" => y.banks = x.banks
      /\ m.kind # "slot" => y.confirmed_bank = x.confirmed_bank
  <2>1. CASE m.kind # "slot"
    <3>1. y = InfoWith(x, m)
      BY <2>1 DEF InfoAfter
    <3> QED
      BY <1>2, <2>1, <3>1, InfoWithOK
  <2>2. CASE m.kind = "slot"
    <3> DEFINE z == [x EXCEPT !.confirmed_bank = promoted]
    <3>1. y = z \/ y = x
      BY <2>2 DEF InfoAfter, promoted
    <3>2. ASSUME promoted # NoChoice PROVE InfoOK(z, s) /\ z.banks = x.banks
      <4>1. z \in [open : {TRUE}, index : Nat, confirmed_bank : Bank0 \cup {NoChoice},
                   banks : {x.banks}, cleared : SUBSET Bank]
        BY <1>2, <1>3 DEF InfoOK
      <4> HIDE DEF z
      <4>2. z.banks = x.banks
        BY <4>1
      <4> QED
        BY <1>2, <4>1, <4>2 DEF InfoOK
    <3>3. y = x \/ (y = z /\ promoted # NoChoice)
      BY <2>2 DEF InfoAfter, promoted
    <3> HIDE DEF z, y
    <3> QED
      BY <1>2, <2>2, <3>2, <3>3
  <2> QED
    BY <2>1, <2>2
<1>5. block # <<>> => LET e == Head(block)
                      IN  /\ block = <<e>> /\ MsgOK(e) /\ e.slot = s /\ e.kind = "block"
                          /\ e.bank = m.bank /\ m.kind # "update_parent" /\ m.kind # "slot"
  BY <1>2, NewBlockOK
<1>6. /\ \A c : MessageOut(x, m, c) =
              IF m.kind = "slot"
              THEN <<m>> \o (IF promoted # NoChoice /\ c = m.key THEN x.banks[promoted].messages
                             ELSE <<>>)
              ELSE IF c = Processed \/ (c = Confirmed /\ LateForConfirmed(x, m))
              THEN <<m>> \o block ELSE <<>>
  BY DEF MessageOut, promoted
<1> HIDE DEF x, y, block
<1>7. st \in [info : {x}, rep : {st.rep}, final : BOOLEAN, stream : {st.stream},
              journal : {st.journal}, index : Nat]
  BY DEF StOK, x
<1>8. u \in [info : {y}, rep : {st.rep}, final : BOOLEAN, stream : {st.stream},
             journal : {st.journal}, index : Nat] /\ u.index = st.index /\ u.final = st.final
  BY <1>7
<1> HIDE DEF u
<1>9. u.info = y /\ u.rep = st.rep /\ u.stream = st.stream /\ u.journal = st.journal
  BY <1>8
<1>10. StOK(u, s)
  BY <1>4, <1>8, <1>9 DEF StOK
<1>11. /\ StOK(v, s) /\ v.info = y /\ v.rep = st.rep
       /\ (v.final <=> st.final \/ IsFinalized(m))
       /\ \A c \in Commitment : v.stream[c] = st.stream[c] \o EventOut(y, m, promoted, c)
  <2>1. ~u.rep.tracked /\ (promoted # NoChoice => m.key \in {Confirmed, Finalized})
    BY <1>3, <1>9
  <2>2. EventDone(v, u, s, m, promoted)
    BY <1>3, <1>10, <2>1, PublishEventGives
  <2> HIDE DEF v
  <2> QED
    BY <1>8, <1>9, <2>2 DEF EventDone
<1> HIDE DEF v
<1>12. ASSUME block # <<>>
       PROVE  LET e == Head(block)
              IN  /\ StOK(w, s) /\ w.info = y /\ w.rep = st.rep
                  /\ (w.final <=> v.final \/ IsFinalized(e))
                  /\ \A c \in Commitment : w.stream[c] = v.stream[c] \o EventOut(y, e, NoChoice, c)
  <2> DEFINE e == Head(block)
  <2>1. MsgOK(e) /\ e.slot = s
    BY <1>5, <1>12
  <2> DEFINE z == PublishEvent(v, e, NoChoice)
  <2> HIDE DEF e
  <2>2. ~v.rep.tracked /\ NoChoice \in Bank0 \cup {NoChoice}
    BY <1>11
  <2>3. EventDone(z, v, s, e, NoChoice)
    BY <1>11, <2>1, <2>2, PublishEventGives
  <2> HIDE DEF z
  <2>4. /\ StOK(z, s) /\ z.info = y /\ z.rep = st.rep
        /\ (z.final <=> v.final \/ IsFinalized(e))
        /\ \A c \in Commitment : z.stream[c] = v.stream[c] \o EventOut(y, e, NoChoice, c)
    BY <1>11, <2>3 DEF EventDone
  <2> QED
    BY <2>4 DEF z, e
<1> HIDE DEF w, st1
<1>13. /\ StOK(st1, s) /\ st1.info = y /\ st1.rep = st.rep
       /\ (st1.final <=> st.final \/ IsFinalized(m))
  <2>1. block # <<>> => ~IsFinalized(Head(block))
    BY <1>5 DEF IsFinalized
  <2> QED
    BY <1>1, <1>11, <1>12, <2>1
<1>14. ASSUME NEW c \in Commitment PROVE st1.stream[c] = st.stream[c] \o MessageOut(x, m, c)
  <2> DEFINE a == st.stream[c]
  <2>1. IsSeq(a)
    BY DEF StOK, StreamsOK, Messages
  <2> HIDE DEF a
  <2>2. ASSUME NEW z PROVE IsSeq(<<z>>) /\ <<z>> \o <<>> = <<z>>
    BY SingleSeq, ConcatEmpty
  <2>3. CASE m.kind = "slot"
    <3>1. block = <<>>
      BY <2>3 DEF block
    <3>2. EventOut(y, m, promoted, c) = MessageOut(x, m, c)
      BY <1>4, <1>6, <2>3 DEF EventOut
    <3> QED
      BY <1>1, <1>11, <3>1, <3>2
  <2>4. CASE m.kind # "slot" /\ block = <<>>
    <3>1. EventOut(y, m, promoted, c) = MessageOut(x, m, c)
      <4>1. LateForConfirmed(y, m) <=> LateForConfirmed(x, m)
        BY <1>4, <2>4 DEF LateForConfirmed
      <4> QED
        BY <1>6, <2>2, <2>4, <4>1 DEF EventOut
    <3> QED
      BY <1>1, <1>11, <2>4, <3>1
  <2>5. CASE m.kind # "slot" /\ block # <<>>
    <3> DEFINE e == Head(block)
    <3>1. /\ block = <<e>> /\ e.kind = "block" /\ e.bank = m.bank /\ m.kind # "update_parent"
      BY <1>5, <2>5
    <3>2. st1.stream[c] = (a \o EventOut(y, m, promoted, c)) \o EventOut(y, e, NoChoice, c)
      BY <1>1, <1>11, <1>12, <2>5 DEF a
    <3> HIDE DEF e
    <3>3. /\ LateForConfirmed(y, m) <=> LateForConfirmed(x, m)
          /\ LateForConfirmed(y, e) <=> LateForConfirmed(x, m)
      BY <1>4, <2>5, <3>1 DEF LateForConfirmed
    <3>4. CASE c = Processed \/ (c = Confirmed /\ LateForConfirmed(x, m))
      <4>1. EventOut(y, m, promoted, c) = <<m>> /\ EventOut(y, e, NoChoice, c) = <<e>>
        BY <2>5, <3>1, <3>3, <3>4 DEF EventOut
      <4>2. MessageOut(x, m, c) = <<m>> \o <<e>>
        BY <1>6, <2>5, <3>1, <3>4
      <4>3. (a \o <<m>>) \o <<e>> = a \o (<<m>> \o <<e>>)
        BY <2>1, SingleSeq, ConcatAssoc
      <4> QED
        BY <3>2, <4>1, <4>2, <4>3 DEF a
    <3>5. CASE ~(c = Processed \/ (c = Confirmed /\ LateForConfirmed(x, m)))
      <4>1. EventOut(y, m, promoted, c) = <<>> /\ EventOut(y, e, NoChoice, c) = <<>>
        BY <2>5, <3>1, <3>3, <3>5 DEF EventOut
      <4>2. MessageOut(x, m, c) = <<>>
        BY <1>6, <2>5, <3>5
      <4>3. (a \o <<>>) \o <<>> = a \o <<>>
        BY <2>1, ConcatEmpty
      <4> QED
        BY <3>2, <4>1, <4>2, <4>3 DEF a
    <3> QED
      BY <3>4, <3>5
  <2> QED
    BY <2>3, <2>4, <2>5
<1> QED
  BY <1>13, <1>14 DEF st1, x, y, MessageDone

-----------------------------------------------------------------------------
(* What a slot has gathered *)

HasStatus(q, s, key) == \E m \in Range(q) : IsStatus(m, s, key)

\* No message of the slot names a bank.
Bankless(s) == \A m \in Message : m.slot = s => m.bank = NoBank

\* The sources name no banks of a slot; or its confirmed statuses do, and a finalized one
\* that does names the same.
StatusesAgree ==
    \A s \in Slot :
        \/ Bankless(s)
        \/ \A m \in Message : IsStatus(m, s, Confirmed) =>
              /\ m.bank # NoBank
              /\ \A f \in Message : IsStatus(f, s, Finalized) => f.bank \in {NoBank, m.bank}

\* The confirmed bank is the one that the statuses name.
Named(x, s) ==
    IF Bankless(s)
    THEN /\ x.confirmed_bank \in {NoChoice, NoBank}
         /\ \A b \in Bank0 : x.banks[b].open => b = NoBank
    ELSE x.confirmed_bank # NoChoice =>
         /\ x.confirmed_bank # NoBank
         /\ \E m \in Message : IsStatus(m, s, Confirmed) /\ m.bank = x.confirmed_bank

\* The confirmed stream has data of the chosen candidate only.
OneCandidate(x, q, s) ==
    \A m \in DataIn(q[Confirmed], s) :
        x.confirmed_bank # NoChoice /\ m.bank = x.confirmed_bank

\* The other candidates keep what the processed stream carries of them,
CandidatesKept(x, q, s) ==
    \A b \in Bank0 \ x.cleared :
        b # x.confirmed_bank => Covered(q[Processed], s, b, Range(x.banks[b].messages))

\* and the chosen one has it in the confirmed stream.
ChosenOut(x, q, s) ==
    x.confirmed_bank # NoChoice =>
        /\ Covered(q[Processed], s, x.confirmed_bank, DataIn(q[Confirmed], s))
        /\ Range(x.banks[x.confirmed_bank].messages) \subseteq DataIn(q[Confirmed], s)

BlocksOut(x, q, s) == \A b \in Bank0 : x.banks[b].created => Blocked(q[Processed], s, b)

ClearedClosed(x) == \A b \in x.cleared : ~x.banks[b].open

NotFinal(x, q, s) ==
    /\ DataIn(q[Finalized], s) = {}
    /\ HasStatus(q[Finalized], s, Confirmed) => x.confirmed_bank # NoChoice

Gathered(x, q, s) ==
    /\ OneCandidate(x, q, s) /\ CandidatesKept(x, q, s) /\ ChosenOut(x, q, s)
    /\ BlocksOut(x, q, s) /\ ClearedClosed(x) /\ NotFinal(x, q, s)
    /\ StatusesAgree => Named(x, s)

LEMMA DataConcat ==
    ASSUME NEW q, NEW a, IsSeq(q), IsSeq(a), NEW s
    PROVE  DataIn(q \o a, s) = DataIn(q, s) \cup DataIn(a, s)
<1>1. Range(q \o a) = Range(q) \cup Range(a)
  BY ConcatRange
<1> QED
  BY <1>1 DEF DataIn

LEMMA CommitmentNames ==
    /\ Processed \in Commitment /\ Confirmed \in Commitment /\ Finalized \in Commitment
    /\ Processed # Confirmed /\ Processed # Finalized /\ Confirmed # Finalized
  BY DEF Processed, Confirmed, Finalized, Commitment

LEMMA NoChoiceIsNoBank ==
    /\ NoChoice \notin Bank0 /\ NoBank \in Bank0 /\ NoBank \notin Bank /\ Bank \subseteq Bank0
<1>1. Bank \subseteq Nat \ {0}
  BY ConstantsAssumption
<1>2. NoChoice \notin Nat /\ NoBank = 0
  BY DEF NoChoice, NoBank
<1>3. NoBank \notin Bank
  BY <1>1, <1>2
<1>4. \A b \in Bank0 : b \in Nat
  BY <1>1, <1>2 DEF Bank0
<1>5. NoBank \in Bank0 /\ Bank \subseteq Bank0
  BY DEF Bank0
<1> QED
  BY <1>2, <1>3, <1>4, <1>5

\* A message of data and the block it completes.
DataGoes(x, s, m, a, B) ==
    /\ Messages(a) /\ Range(a) = {m} \cup Range(B) /\ IsSeq(B) /\ IsSeq(a)
    /\ \A c \in Commitment :
          MessageOut(x, m, c) =
             IF c = Processed \/ (c = Confirmed /\ x.confirmed_bank = m.bank) THEN a ELSE <<>>
    /\ \A e \in Range(a) : e.slot = s /\ e.bank = m.bank /\ IsData(e)

LEMMA DataOut ==
    ASSUME NEW x, NEW s, InfoOK(x, s), NEW m, MsgOK(m), m.slot = s, IsData(m)
    PROVE  DataGoes(x, s, m, <<m>> \o NewBlock(x, m), NewBlock(x, m))
<1> DEFINE B == NewBlock(x, m)
           a == <<m>> \o B
<1>1. m.kind # "slot" /\ m.kind # "update_parent"
  BY DEF IsData
<1>2. \A c \in Commitment :
         MessageOut(x, m, c) =
            IF c = Processed \/ (c = Confirmed /\ x.confirmed_bank = m.bank) THEN a ELSE <<>>
  BY <1>1 DEF MessageOut, LateForConfirmed
<1>3. IsSeq(B) /\ \A e \in Range(B) : IsBlock(e, m.slot, m.bank) /\ MsgOK(e)
  BY DataStep DEF BankGrown
<1> HIDE DEF B
<1>4. IsSeq(<<m>>) /\ Range(<<m>>) = {m}
  BY SingleSeq DEF Range
<1>5. IsSeq(a) /\ Range(a) = {m} \cup Range(B)
  BY <1>3, <1>4, ConcatSeq, ConcatRange
<1> HIDE DEF a
<1>6. \A e \in Range(a) : MsgOK(e) /\ e.slot = s /\ e.bank = m.bank /\ IsData(e)
  BY <1>3, <1>5 DEF IsBlock, IsData
<1>7. Messages(a)
  BY <1>5, <1>6, SeqLen DEF Messages
<1>8. DataGoes(x, s, m, a, B)
  BY <1>2, <1>3, <1>5, <1>6, <1>7 DEF DataGoes
<1> QED
  BY <1>8 DEF a, B

LEMMA GatheredData ==
    ASSUME NEW x, NEW s, InfoOK(x, s), NEW m, MsgOK(m), m.slot = s, IsData(m),
           m.bank \notin x.cleared, Bankless(s) => m.bank = NoBank,
           NEW q, StreamsOK(q), Gathered(x, q, s),
           NEW q2, \A c \in Commitment : q2[c] = q[c] \o MessageOut(x, m, c)
    PROVE  Gathered(InfoAfter(x, m), q2, s)
<1> DEFINE y == InfoAfter(x, m)
           b == m.bank
           B == NewBlock(x, m)
           a == <<m>> \o B
           D == Range(x.banks[b].messages)
           E == Range(y.banks[b].messages)
<1>1. y = InfoWith(x, m)
  BY DEF InfoAfter, IsData
<1>2. /\ y.confirmed_bank = x.confirmed_bank /\ y.cleared = x.cleared
      /\ \A d \in Bank0 : d # b => y.banks[d] = x.banks[d]
      /\ BankGrown(x.banks[b], y.banks[b], m, B)
  BY <1>1, DataStep
<1>3. /\ Messages(a) /\ Range(a) = {m} \cup Range(B) /\ IsSeq(B) /\ IsSeq(a)
      /\ \A c \in Commitment :
            MessageOut(x, m, c) = IF c = Processed \/ (c = Confirmed /\ x.confirmed_bank = b)
                                  THEN a ELSE <<>>
      /\ \A e \in Range(a) : e.slot = s /\ e.bank = b /\ IsData(e)
  <2>1. DataGoes(x, s, m, a, B)
    BY DataOut
  <2> HIDE DEF a, B
  <2> QED
    BY <2>1 DEF DataGoes
<1> HIDE DEF B, a, y
<1>4. b \in Bank0 /\ b # NoChoice /\ x.cleared \subseteq Bank0
  BY NoChoiceIsNoBank DEF MsgOK, InfoOK
<1>5. /\ \A c \in Commitment : Messages(q[c]) /\ IsSeq(q[c])
      /\ \A e \in Range(q[Processed]) : MsgOK(e)
  <2>1. \A c \in Commitment : Messages(q[c]) /\ IsSeq(q[c])
    BY DEF StreamsOK, Messages
  <2>2. Range(q[Processed]) = {q[Processed][i] : i \in 1 .. Len(q[Processed])}
    BY <2>1, CommitmentNames, SeqLen
  <2> QED
    BY <2>1, <2>2, CommitmentNames DEF Messages
<1>6. /\ q2[Processed] = q[Processed] \o a
      /\ x.confirmed_bank = b => q2[Confirmed] = q[Confirmed] \o a
      /\ x.confirmed_bank # b => q2[Confirmed] = q[Confirmed]
      /\ q2[Finalized] = q[Finalized]
  <2>1. \A c \in Commitment : q[c] \o <<>> = q[c]
    BY <1>5, ConcatEmpty
  <2>2. \A c \in Commitment :
           q2[c] = IF c = Processed \/ (c = Confirmed /\ x.confirmed_bank = b)
                   THEN q[c] \o a ELSE q[c]
    BY <1>3, <2>1
  <2> QED
    BY <2>2, CommitmentNames
<1>7. DataIn(a, s) = Range(a)
  BY <1>3 DEF DataIn
<1>8. DataIn(q2[Confirmed], s) = IF x.confirmed_bank = b THEN DataIn(q[Confirmed], s) \cup Range(a)
                                 ELSE DataIn(q[Confirmed], s)
  <2>1. IsSeq(q[Confirmed]) /\ IsSeq(a)
    BY <1>3, <1>5, CommitmentNames
  <2>2. DataIn(q[Confirmed] \o a, s) = DataIn(q[Confirmed], s) \cup Range(a)
    BY <1>7, <2>1, DataConcat
  <2> QED
    BY <1>6, <2>2
<1>9. /\ OneCandidate(x, q, s) /\ CandidatesKept(x, q, s) /\ ChosenOut(x, q, s)
      /\ BlocksOut(x, q, s) /\ ClearedClosed(x) /\ NotFinal(x, q, s)
      /\ StatusesAgree => Named(x, s)
  BY DEF Gathered
<1>10. OneCandidate(y, q2, s)
  BY <1>2, <1>3, <1>4, <1>8, <1>9 DEF OneCandidate
<1>11. /\ \A p : MsgOK(p) /\ Held(D, p) => Held(E, p)
       /\ Held(E, m) \/ (m.kind # "footer" /\ x.banks[b].created)
       /\ E \subseteq D \cup Range(a)
       /\ \A e \in Range(B) : e \in E /\ IsBlock(e, s, b)
  BY <1>2, <1>3 DEF BankGrown
<1>12. \A c \in Commitment : \A F, d : d # b /\ Covered(q[Processed], s, d, F)
          => Covered(q2[Processed], s, d, F)
  BY <1>3, <1>5, <1>6, CommitmentNames, CoveredMore
<1> HIDE DEF D, E
<1>13. CandidatesKept(y, q2, s)
  <2> SUFFICES ASSUME NEW d \in Bank0 \ x.cleared, d # x.confirmed_bank
               PROVE  Covered(q2[Processed], s, d, Range(y.banks[d].messages))
    BY <1>2 DEF CandidatesKept
  <2>1. Covered(q[Processed], s, d, Range(x.banks[d].messages))
    BY <1>9 DEF CandidatesKept
  <2>2. CASE d # b
    BY <1>2, <1>12, <2>1, <2>2, CommitmentNames
  <2>3. CASE d = b
    <3>1. Covered(q[Processed], s, b, D)
      BY <2>1, <2>3 DEF D
    <3>2. \A e \in Range(a) : Held(E, e) \/ (e.kind # "footer" /\ Blocked(q[Processed], s, b))
      <4>1. x.banks[b].created => Blocked(q[Processed], s, b)
        BY <1>4, <1>9 DEF BlocksOut
      <4>2. \A e \in Range(B) : Held(E, e)
        BY <1>11 DEF Held
      <4> QED
        BY <1>3, <1>11, <4>1, <4>2
    <3>3. Covered(q2[Processed], s, b, E)
      BY <1>3, <1>5, <1>6, <1>11, <3>1, <3>2, CommitmentNames, CoveredMore
    <3> QED
      BY <2>3, <3>3 DEF E
  <2> QED
    BY <2>2, <2>3
<1>14. ChosenOut(y, q2, s)
  <2> SUFFICES ASSUME x.confirmed_bank # NoChoice
               PROVE  /\ Covered(q2[Processed], s, x.confirmed_bank, DataIn(q2[Confirmed], s))
                      /\ Range(y.banks[x.confirmed_bank].messages) \subseteq DataIn(q2[Confirmed], s)
    BY <1>2 DEF ChosenOut
  <2>1. /\ Covered(q[Processed], s, x.confirmed_bank, DataIn(q[Confirmed], s))
        /\ Range(x.banks[x.confirmed_bank].messages) \subseteq DataIn(q[Confirmed], s)
    BY <1>9 DEF ChosenOut
  <2>2. CASE x.confirmed_bank # b
    <3>1. x.confirmed_bank \in Bank0
      BY DEF InfoOK
    <3> QED
      BY <1>2, <1>8, <1>12, <2>1, <2>2, <3>1, CommitmentNames
  <2>3. CASE x.confirmed_bank = b
    <3> DEFINE G == DataIn(q[Confirmed], s)
               H == DataIn(q2[Confirmed], s)
    <3>1. H = G \cup Range(a)
      BY <1>8, <2>3
    <3>2. Covered(q[Processed], s, b, G) /\ D \subseteq G
      BY <2>1, <2>3 DEF D
    <3> HIDE DEF G, H
    <3>3. /\ \A p : Held(G, p) => Held(H, p)
          /\ \A e \in Range(a) : Held(H, e)
      BY <3>1, HeldMore DEF Held
    <3>4. Covered(q2[Processed], s, b, H)
      BY <1>3, <1>5, <1>6, <3>2, <3>3, CommitmentNames, CoveredMore
    <3> QED
      BY <1>11, <2>3, <3>1, <3>2, <3>4 DEF H, E
  <2> QED
    BY <2>2, <2>3
<1>15. BlocksOut(y, q2, s)
  <2> SUFFICES ASSUME NEW d \in Bank0, y.banks[d].created
               PROVE  Blocked(q2[Processed], s, d)
    BY DEF BlocksOut
  <2>1. CASE x.banks[d].created
    <3>1. Blocked(q[Processed], s, d)
      BY <1>9, <2>1 DEF BlocksOut
    <3> QED
      BY <1>3, <1>5, <1>6, <3>1, CommitmentNames, BlockedMore
  <2>2. CASE ~x.banks[d].created
    <3>1. d = b /\ Len(B) > 0
      BY <1>2, <2>2 DEF BankGrown
    <3>2. PICK e \in Range(B) : TRUE
      <4>1. 1 \in 1 .. Len(B)
        BY <1>3, <3>1, SeqLen
      <4>2. B[1] \in Range(B)
        BY <1>3, <4>1, SeqLen
      <4> QED
        BY <4>2
    <3>3. e \in Range(q2[Processed]) /\ IsSeq(q2[Processed])
      BY <1>3, <1>5, <1>6, <3>2, CommitmentNames, ConcatRange, ConcatSeq
    <3>4. PICK j \in 1 .. Len(q2[Processed]) : q2[Processed][j] = e
      BY <3>3, SeqLen
    <3> QED
      BY <1>11, <3>1, <3>2, <3>4 DEF Blocked
  <2> QED
    BY <2>1, <2>2
<1>16. ClearedClosed(y)
  BY <1>2, <1>4, <1>9 DEF ClearedClosed
<1>17. NotFinal(y, q2, s)
  BY <1>2, <1>6, <1>9 DEF NotFinal
<1>18. StatusesAgree => Named(y, s)
  <2>1. ASSUME Named(x, s) PROVE Named(y, s)
    BY <1>2, <1>4, <2>1 DEF Named
  <2> QED
    BY <1>9, <2>1
<1> QED
  BY <1>10, <1>13, <1>14, <1>15, <1>16, <1>17, <1>18 DEF Gathered, y

\* What says nothing of a bank leaves what is covered of it.
LEMMA CoveredSame ==
    ASSUME NEW q, NEW a, Messages(q), Messages(a), NEW s, NEW b, NEW D,
           Covered(q, s, b, D),
           \A m \in Range(a) : ~(m.slot = s /\ m.bank = b /\ IsData(m))
    PROVE  Covered(q \o a, s, b, D)
  BY CoveredMore

LEMMA GatheredUpdateParent ==
    ASSUME NEW x, NEW s, InfoOK(x, s), NEW m, MsgOK(m), m.slot = s, m.kind = "update_parent",
           Bankless(s) => m.bank = NoBank,
           NEW q, StreamsOK(q), Gathered(x, q, s),
           NEW q2, \A c \in Commitment : q2[c] = q[c] \o MessageOut(x, m, c)
    PROVE  Gathered(InfoAfter(x, m), q2, s)
<1> DEFINE y == InfoAfter(x, m)
           b == m.bank
           a == <<m>>
<1>1. y = IF b = NoBank THEN x
          ELSE [x EXCEPT !.cleared = @ \cup {b}, !.banks[b] = NoBankInfo]
  BY DEF InfoAfter, InfoWith
<1>2. /\ x \in [open : {TRUE}, index : Nat, confirmed_bank : Bank0 \cup {NoChoice},
                banks : {x.banks}, cleared : SUBSET Bank]
      /\ x.banks = [d \in Bank0 |-> x.banks[d]] /\ b \in Bank0
  BY DEF InfoOK, MsgOK
<1> HIDE DEF y
<1>3. /\ y.confirmed_bank = x.confirmed_bank
      /\ x.cleared \subseteq y.cleared /\ y.cleared \subseteq x.cleared \cup {b}
      /\ \A d \in Bank0 : y.banks[d] = x.banks[d] \/ y.banks[d] = NoBankInfo
      /\ b # NoBank => y.banks[b] = NoBankInfo
      /\ b = NoBank => y = x
  <2>1. CASE b = NoBank
    BY <1>1, <2>1
  <2>2. CASE b # NoBank
    <3> DEFINE w == [x.banks EXCEPT ![b] = NoBankInfo]
               z == [x EXCEPT !.cleared = x.cleared \cup {b}, !.banks = w]
    <3>1. y = z
      BY <1>1, <2>2
    <3>2. (\A d \in Bank0 : w[d] = x.banks[d] \/ w[d] = NoBankInfo) /\ w[b] = NoBankInfo
      BY <1>2
    <3> HIDE DEF w
    <3>3. z.confirmed_bank = x.confirmed_bank /\ z.cleared = x.cleared \cup {b} /\ z.banks = w
      BY <1>2
    <3> HIDE DEF z
    <3> QED
      BY <2>2, <3>1, <3>2, <3>3
  <2> QED
    BY <2>1, <2>2
<1>4. /\ IsSeq(a) /\ Messages(a) /\ Range(a) = {m} /\ DataIn(a, s) = {}
  <2>1. IsSeq(a) /\ Range(a) = {m} /\ Len(a) = 1 /\ a[1] = m
    BY SingleSeq DEF Range
  <2> HIDE DEF a
  <2> QED
    BY <2>1 DEF Messages, DataIn, IsData
<1>5. \A c \in Commitment : Messages(q[c]) /\ IsSeq(q[c]) /\ q[c] \o <<>> = q[c]
  BY ConcatEmpty DEF StreamsOK, Messages
<1>6. \A c \in Commitment : MessageOut(x, m, c) = IF c = Processed THEN a ELSE <<>>
  <2>1. NewBlock(x, m) = <<>> /\ ~LateForConfirmed(x, m)
    BY DEF NewBlock, LateForConfirmed
  <2>2. <<m>> \o <<>> = <<m>>
    BY <1>4, ConcatEmpty
  <2> QED
    BY <2>1, <2>2 DEF MessageOut
<1> HIDE DEF a
<1>7. /\ q2[Processed] = q[Processed] \o a
      /\ q2[Confirmed] = q[Confirmed] /\ q2[Finalized] = q[Finalized]
  BY <1>5, <1>6, CommitmentNames
<1>8. /\ OneCandidate(x, q, s) /\ CandidatesKept(x, q, s) /\ ChosenOut(x, q, s)
      /\ BlocksOut(x, q, s) /\ ClearedClosed(x) /\ NotFinal(x, q, s)
      /\ StatusesAgree => Named(x, s)
  BY DEF Gathered
<1>9. \A d, D : Covered(q[Processed], s, d, D) => Covered(q2[Processed], s, d, D)
  <2>1. ~IsData(m)
    BY DEF IsData
  <2> QED
    BY <1>4, <1>5, <1>7, <2>1, CommitmentNames, CoveredSame
<1>10. OneCandidate(y, q2, s) /\ NotFinal(y, q2, s)
  BY <1>3, <1>7, <1>8 DEF OneCandidate, NotFinal
<1>11. Range(<<>>) = {}
  BY EmptyIsSeq, SeqLen
<1>12. NoBankInfo.messages = <<>> /\ NoBankInfo.created = FALSE /\ NoBankInfo.open = FALSE
  BY DEF NoBankInfo
<1>13. CandidatesKept(y, q2, s)
  <2> SUFFICES ASSUME NEW d \in Bank0 \ y.cleared, d # x.confirmed_bank
               PROVE  Covered(q2[Processed], s, d, Range(y.banks[d].messages))
    BY <1>3 DEF CandidatesKept
  <2>1. Covered(q[Processed], s, d, Range(x.banks[d].messages))
    BY <1>3, <1>8 DEF CandidatesKept
  <2>2. y.banks[d] = x.banks[d]
    <3>1. CASE b = NoBank
      BY <1>3, <3>1
    <3>2. CASE b # NoBank
      <4>1. d # b
        BY <1>1, <1>2, <3>2
      <4> QED
        BY <1>1, <1>2, <3>2, <4>1
    <3> QED
      BY <3>1, <3>2
  <2> QED
    BY <1>9, <2>1, <2>2
<1>14. ChosenOut(y, q2, s)
  <2> SUFFICES ASSUME x.confirmed_bank # NoChoice
               PROVE  /\ Covered(q2[Processed], s, x.confirmed_bank, DataIn(q2[Confirmed], s))
                      /\ Range(y.banks[x.confirmed_bank].messages) \subseteq DataIn(q2[Confirmed], s)
    BY <1>3 DEF ChosenOut
  <2>1. x.confirmed_bank \in Bank0
    BY <1>2
  <2> QED
    BY <1>3, <1>7, <1>8, <1>9, <1>11, <1>12, <2>1 DEF ChosenOut
<1>15. BlocksOut(y, q2, s)
  <2>1. \A d \in Bank0 : y.banks[d].created => Blocked(q[Processed], s, d)
    BY <1>3, <1>8, <1>12 DEF BlocksOut
  <2> QED
    BY <1>4, <1>5, <1>7, <2>1, CommitmentNames, BlockedMore DEF BlocksOut
<1>16. ClearedClosed(y)
  <2> SUFFICES ASSUME NEW d \in y.cleared PROVE ~y.banks[d].open
    BY DEF ClearedClosed
  <2>1. d \in Bank0
    BY <1>2, <1>3, NoChoiceIsNoBank
  <2>2. CASE d \in x.cleared
    BY <1>3, <1>8, <1>12, <2>1, <2>2 DEF ClearedClosed
  <2>3. CASE d = b
    BY <1>3, <1>8, <1>12, <2>3 DEF ClearedClosed
  <2> QED
    BY <1>3, <2>2, <2>3
<1>17. StatusesAgree => Named(y, s)
  <2>1. ASSUME Named(x, s) PROVE Named(y, s)
    BY <1>3, <1>12, <2>1 DEF Named
  <2> QED
    BY <1>8, <2>1
<1> QED
  BY <1>10, <1>13, <1>14, <1>15, <1>16, <1>17 DEF Gathered, y

\* The bank that a status selects.
LEMMA SelectBankIs ==
    ASSUME NEW x, NEW s, InfoOK(x, s), NEW b \in Bank0
    PROVE  /\ b # NoBank => SelectBank(x, b) = b
           /\ b = NoBank /\ x.confirmed_bank \notin {NoChoice, NoBank} =>
                 SelectBank(x, b) = x.confirmed_bank
           /\ b = NoBank /\ x.confirmed_bank \in {NoChoice, NoBank} =>
                 \/ SelectBank(x, b) = NoBank
                 \/ SelectBank(x, b) \in Bank0 /\ x.banks[SelectBank(x, b)].open
<1> DEFINE open == {d \in Bank0 : x.banks[d].open}
           k == Max(open)
<1>1. open # {} => k \in open
  <2>1. open \subseteq Bank0 /\ Bank \subseteq Nat /\ IsFiniteSet(Bank)
    BY ConstantsAssumption
  <2> HIDE DEF open
  <2>2. IsFiniteSet(Bank0) /\ Bank0 \subseteq Nat
    BY <2>1, FS_AddElement DEF Bank0, NoBank
  <2>3. IsFiniteSet(open) /\ open \in SUBSET Nat
    BY <2>1, <2>2, FS_Subset
  <2> QED
    BY <2>3, MaxOfNats
<1>2. SelectBank(x, b) = IF b # NoBank THEN b
                         ELSE IF x.confirmed_bank \notin {NoChoice, NoBank} THEN x.confirmed_bank
                         ELSE IF open = {} THEN NoBank ELSE k
  BY DEF SelectBank
<1> HIDE DEF k
<1> QED
  BY <1>1, <1>2

\* A status that commits nothing: it only goes to every stream.
LEMMA GatheredUnchosen ==
    ASSUME NEW x, NEW s, InfoOK(x, s), NEW m, MsgOK(m), m.slot = s, m.kind = "slot",
           Chosen(x, m) = NoChoice,
           NEW q, StreamsOK(q), Gathered(x, q, s),
           NEW q2, \A c \in Commitment : q2[c] = q[c] \o MessageOut(x, m, c)
    PROVE  Gathered(InfoAfter(x, m), q2, s)
<1> DEFINE a == <<m>>
<1>1. InfoAfter(x, m) = x
  BY DEF InfoAfter
<1>2. /\ IsSeq(a) /\ Messages(a) /\ Range(a) = {m} /\ DataIn(a, s) = {} /\ ~IsData(m)
  <2>1. IsSeq(a) /\ Range(a) = {m} /\ Len(a) = 1 /\ a[1] = m
    BY SingleSeq DEF Range
  <2> HIDE DEF a
  <2> QED
    BY <2>1 DEF Messages, DataIn, IsData
<1>3. \A c \in Commitment : Messages(q[c]) /\ IsSeq(q[c])
  BY DEF StreamsOK, Messages
<1>4. \A c \in Commitment : MessageOut(x, m, c) = a
  <2>1. <<m>> \o <<>> = <<m>>
    BY <1>2, ConcatEmpty
  <2> QED
    BY <2>1 DEF MessageOut
<1> HIDE DEF a
<1>5. ASSUME NEW c \in Commitment
      PROVE  q2[c] = q[c] \o a /\ DataIn(q2[c], s) = DataIn(q[c], s)
  <2>1. q2[c] = q[c] \o a
    BY <1>4
  <2>2. DataIn(q[c] \o a, s) = DataIn(q[c], s) \cup DataIn(a, s)
    <3> DEFINE z == q[c]
    <3>1. IsSeq(z) /\ IsSeq(a)
      BY <1>2, <1>3
    <3> HIDE DEF z
    <3>2. DataIn(z \o a, s) = DataIn(z, s) \cup DataIn(a, s)
      BY <3>1, DataConcat
    <3> QED
      BY <3>2 DEF z
  <2> QED
    BY <1>2, <2>1, <2>2
<1> DEFINE p == q[Processed]
           f == q[Finalized]
<1>6. q2[Processed] = p \o a /\ Messages(p) /\ IsSeq(p)
  BY <1>3, <1>5, CommitmentNames
<1>7. q2[Finalized] = f \o a /\ IsSeq(f)
  BY <1>3, <1>5, CommitmentNames
<1> HIDE DEF p, f
<1>8. /\ OneCandidate(x, q, s) /\ CandidatesKept(x, q, s) /\ ChosenOut(x, q, s)
      /\ BlocksOut(x, q, s) /\ ClearedClosed(x) /\ NotFinal(x, q, s)
      /\ StatusesAgree => Named(x, s)
  BY DEF Gathered
<1>9. \A d, D : Covered(q[Processed], s, d, D) => Covered(q2[Processed], s, d, D)
  <2>1. \A d, D : Covered(p, s, d, D) => Covered(p \o a, s, d, D)
    BY <1>2, <1>6, CoveredSame
  <2> QED
    BY <1>6, <2>1 DEF p
<1>10. OneCandidate(x, q2, s)
  BY <1>5, <1>8, CommitmentNames DEF OneCandidate
<1>11. CandidatesKept(x, q2, s)
  BY <1>8, <1>9 DEF CandidatesKept
<1>12. ChosenOut(x, q2, s)
  BY <1>5, <1>8, <1>9, CommitmentNames DEF ChosenOut
<1>13. BlocksOut(x, q2, s)
  <2>1. \A d : Blocked(q[Processed], s, d) => Blocked(q2[Processed], s, d)
    <3>1. \A d : Blocked(p, s, d) => Blocked(p \o a, s, d)
      BY <1>2, <1>6, BlockedMore
    <3> QED
      BY <1>6, <3>1 DEF p
  <2> QED
    BY <1>8, <2>1 DEF BlocksOut
<1>14. NotFinal(x, q2, s)
  <2>1. Range(q2[Finalized]) = Range(q[Finalized]) \cup {m}
    BY <1>2, <1>7, ConcatRange DEF f
  <2>2. m.key = Confirmed => x.confirmed_bank # NoChoice
    <3>1. ASSUME m.key = Confirmed, x.confirmed_bank = NoChoice PROVE FALSE
      <4>1. SelectBank(x, m.bank) = NoChoice /\ m.bank \in Bank0
        BY <3>1 DEF Chosen, CommitBank, MsgOK
      <4>2. SelectBank(x, m.bank) \in Bank0
        BY <3>1, <4>1, SelectBankIs, NoChoiceIsNoBank
      <4> QED
        BY <4>1, <4>2, NoChoiceIsNoBank
    <3> QED
      BY <3>1
  <2>3. HasStatus(q2[Finalized], s, Confirmed) =>
           HasStatus(q[Finalized], s, Confirmed) \/ m.key = Confirmed
    BY <2>1 DEF HasStatus, IsStatus
  <2> QED
    BY <1>5, <1>8, <2>2, <2>3, CommitmentNames DEF NotFinal
<1> QED
  BY <1>1, <1>8, <1>10, <1>11, <1>12, <1>13, <1>14 DEF Gathered

\* What a status with the messages of the bank it commits adds to a stream.
LEMMA StatusData ==
    ASSUME NEW x, NEW s, InfoOK(x, s), NEW m, MsgOK(m), m.slot = s, m.kind = "slot",
           NEW b \in Bank0
    PROVE  LET M == x.banks[b].messages
           IN  /\ IsSeq(M) /\ IsSeq(<<m>> \o M) /\ Range(<<m>> \o M) = {m} \cup Range(M)
               /\ DataIn(<<m>> \o M, s) = Range(M)
               /\ \A e \in Range(M) : e.slot = s /\ e.bank = b /\ IsData(e)
<1> DEFINE M == x.banks[b].messages
           a == <<m>>
           h == a \o M
<1>1. /\ IsSeq(M)
      /\ \A i \in 1 .. Len(M) : MsgOK(M[i]) /\ M[i].slot = s /\ M[i].bank = b /\ IsData(M[i])
  BY DEF InfoOK, BankOK
<1> HIDE DEF M
<1>2. \A e \in Range(M) : e.slot = s /\ e.bank = b /\ IsData(e)
  BY <1>1, SeqLen
<1>3. IsSeq(a) /\ Range(a) = {m} /\ ~IsData(m)
  BY SingleSeq DEF Range, IsData
<1> HIDE DEF a
<1>4. IsSeq(h) /\ Range(h) = {m} \cup Range(M)
  BY <1>1, <1>3, ConcatSeq, ConcatRange
<1> HIDE DEF h
<1>5. DataIn(h, s) = Range(M)
  BY <1>2, <1>3, <1>4 DEF DataIn
<1> QED
  BY <1>1, <1>2, <1>4, <1>5 DEF M, h, a

\* The first confirmed status: what was kept of the bank that it chooses becomes the
\* confirmed data of the slot.
LEMMA GatheredConfirmed ==
    ASSUME NEW x, NEW s, InfoOK(x, s), s \in Slot,
           NEW m, MsgOK(m), m.slot = s, m.kind = "slot", m \in Message, m.key = Confirmed,
           x.confirmed_bank = NoChoice, m.bank \notin x.cleared,
           NEW q, StreamsOK(q), Gathered(x, q, s),
           NEW q2, \A c \in Commitment : q2[c] = q[c] \o MessageOut(x, m, c)
    PROVE  Gathered(InfoAfter(x, m), q2, s)
<1> DEFINE y == InfoAfter(x, m)
           b == SelectBank(x, m.bank)
           M == x.banks[b].messages
           a == <<m>>
           h == a \o M
<1>1. m.bank \in Bank0
  BY DEF MsgOK
<1>2. b \in Bank0 /\ b # NoChoice
  BY <1>1, SelectBankIs, NoChoiceIsNoBank
<1>3. Chosen(x, m) = b
  BY DEF Chosen, CommitBank
<1>4. y = [x EXCEPT !.confirmed_bank = b]
  BY <1>2, <1>3 DEF InfoAfter
<1>5. /\ x \in [open : {TRUE}, index : Nat, confirmed_bank : Bank0 \cup {NoChoice},
                banks : {x.banks}, cleared : SUBSET Bank]
  BY DEF InfoOK
<1>6. b \notin x.cleared
  <2>1. ClearedClosed(x) /\ NoBank \notin x.cleared
    BY <1>5, NoChoiceIsNoBank DEF Gathered
  <2> QED
    BY <1>1, <2>1, SelectBankIs DEF ClearedClosed
<1>7. \A c \in Commitment : MessageOut(x, m, c) = IF c = Confirmed THEN h ELSE a
  <2>1. a \o <<>> = a
    BY SingleSeq, ConcatEmpty
  <2> QED
    BY <1>2, <1>3, <2>1 DEF MessageOut
<1>8. /\ IsSeq(M) /\ IsSeq(h) /\ Range(h) = {m} \cup Range(M) /\ DataIn(h, s) = Range(M)
      /\ \A e \in Range(M) : e.slot = s /\ e.bank = b /\ IsData(e)
  BY <1>2, StatusData
<1>9. IsSeq(a) /\ Messages(a) /\ Range(a) = {m} /\ ~IsData(m) /\ DataIn(a, s) = {}
  <2>1. IsSeq(a) /\ Range(a) = {m} /\ Len(a) = 1 /\ a[1] = m
    BY SingleSeq DEF Range
  <2> HIDE DEF a
  <2> QED
    BY <2>1 DEF Messages, DataIn, IsData
<1> HIDE DEF b, y
<1>10. y.confirmed_bank = b /\ y.banks = x.banks /\ y.cleared = x.cleared
  BY <1>4, <1>5
<1> DEFINE p == q[Processed]
           f == q[Finalized]
           g == q[Confirmed]
<1>11. Messages(p) /\ IsSeq(p) /\ IsSeq(f) /\ IsSeq(g)
  BY CommitmentNames DEF StreamsOK, Messages
<1> HIDE DEF a, h, M
<1>12. q2[Processed] = p \o a /\ q2[Finalized] = f \o a /\ q2[Confirmed] = g \o h
  BY <1>7, CommitmentNames
<1>13. /\ OneCandidate(x, q, s) /\ CandidatesKept(x, q, s)
       /\ BlocksOut(x, q, s) /\ ClearedClosed(x) /\ NotFinal(x, q, s)
       /\ StatusesAgree => Named(x, s)
  BY DEF Gathered
<1> HIDE DEF p, f, g
<1>14. DataIn(q2[Confirmed], s) = Range(M) /\ DataIn(q2[Finalized], s) = {}
  <2>1. DataIn(g, s) = {}
    BY <1>13 DEF OneCandidate, g
  <2>2. DataIn(f, s) = {}
    BY <1>13 DEF NotFinal, f
  <2>3. DataIn(g \o h, s) = DataIn(g, s) \cup DataIn(h, s)
    BY <1>8, <1>11, DataConcat
  <2>4. DataIn(f \o a, s) = DataIn(f, s) \cup DataIn(a, s)
    <3>1. IsSeq(f) /\ IsSeq(a)
      BY <1>9, <1>11
    <3> QED
      BY <3>1, DataConcat
  <2> QED
    BY <1>8, <1>9, <1>12, <2>1, <2>2, <2>3, <2>4
<1>15. \A d, D : Covered(q[Processed], s, d, D) => Covered(q2[Processed], s, d, D)
  <2>1. \A d, D : Covered(p, s, d, D) => Covered(p \o a, s, d, D)
    BY <1>9, <1>11, CoveredSame
  <2> QED
    BY <1>12, <2>1 DEF p
<1>16. \A d \in Bank0 \ x.cleared : Covered(q2[Processed], s, d, Range(x.banks[d].messages))
  BY <1>13, <1>15, NoChoiceIsNoBank DEF CandidatesKept
<1>17. OneCandidate(y, q2, s)
  BY <1>2, <1>8, <1>10, <1>14 DEF OneCandidate
<1>18. CandidatesKept(y, q2, s)
  BY <1>10, <1>16 DEF CandidatesKept
<1>19. ChosenOut(y, q2, s)
  BY <1>2, <1>6, <1>10, <1>14, <1>16 DEF ChosenOut, M
<1>20. BlocksOut(y, q2, s)
  <2>1. \A d : Blocked(p, s, d) => Blocked(p \o a, s, d)
    BY <1>9, <1>11, BlockedMore
  <2> QED
    BY <1>10, <1>12, <1>13, <2>1 DEF BlocksOut, p
<1>21. ClearedClosed(y)
  BY <1>10, <1>13 DEF ClearedClosed
<1>22. NotFinal(y, q2, s)
  BY <1>2, <1>10, <1>14 DEF NotFinal
<1>23. ASSUME StatusesAgree PROVE Named(y, s)
  <2>1. CASE Bankless(s)
    <3>1. m.bank = NoBank
      BY <2>1 DEF Bankless
    <3>2. b = NoBank
      <4>1. \/ SelectBank(x, m.bank) = NoBank
            \/ SelectBank(x, m.bank) \in Bank0 /\ x.banks[SelectBank(x, m.bank)].open
        BY <1>1, <3>1, SelectBankIs
      <4>2. \A d \in Bank0 : x.banks[d].open => d = NoBank
        BY <1>13, <1>23, <2>1 DEF Named
      <4> QED
        BY <4>1, <4>2 DEF b
    <3> QED
      BY <1>10, <1>13, <1>23, <2>1, <3>2 DEF Named
  <2>2. CASE ~Bankless(s)
    <3>1. IsStatus(m, s, Confirmed)
      BY DEF IsStatus
    <3>2. m.bank # NoBank
      BY <1>23, <2>2, <3>1 DEF StatusesAgree
    <3>3. b = m.bank
      BY <1>1, <3>2, SelectBankIs DEF b
    <3> QED
      BY <1>10, <2>2, <3>1, <3>2, <3>3 DEF Named
  <2> QED
    BY <2>1, <2>2
<1>24. Gathered(y, q2, s)
  BY <1>17, <1>18, <1>19, <1>20, <1>21, <1>22, <1>23 DEF Gathered
<1> QED
  BY <1>24 DEF y

\* The finalized stream has only what the confirmed one has, once the confirmed status is
\* before the finalized one.
FinalOf(q, s) ==
    (\E i, j \in 1 .. Len(q[Finalized]) :
        i < j /\ IsStatus(q[Finalized][i], s, Confirmed) /\ IsStatus(q[Finalized][j], s, Finalized))
    => DataIn(q[Finalized], s) \subseteq DataIn(q[Confirmed], s)

\* The finalized status commits the bank that was confirmed.
LEMMA FinalizedGives ==
    ASSUME NEW x, NEW s, InfoOK(x, s), s \in Slot,
           NEW m, MsgOK(m), m.slot = s, m \in Message, IsFinalized(m),
           NEW q, StreamsOK(q), Gathered(x, q, s), StatusesAgree,
           NEW q2, \A c \in Commitment : q2[c] = q[c] \o MessageOut(x, m, c)
    PROVE  FinalOf(q2, s)
<1> DEFINE b == SelectBank(x, m.bank)
           M == x.banks[b].messages
           a == <<m>>
           h == a \o M
<1>1. m.bank \in Bank0 /\ m.kind = "slot" /\ m.key = Finalized
  BY DEF MsgOK, IsFinalized
<1>2. /\ NotFinal(x, q, s) /\ Named(x, s) /\ ChosenOut(x, q, s)
      /\ x.confirmed_bank \in Bank0 \cup {NoChoice}
  BY DEF Gathered, InfoOK
<1>3. b \in Bank0 /\ b # NoChoice
  <2>1. b \in Bank0
    BY <1>1, <1>2, SelectBankIs, NoChoiceIsNoBank
  <2> QED
    BY <2>1, NoChoiceIsNoBank
<1>4. Chosen(x, m) = b
  BY <1>1 DEF Chosen, CommitBank
<1>5. /\ MessageOut(x, m, Finalized) = h /\ MessageOut(x, m, Confirmed) = a
  <2>1. a \o <<>> = a
    BY SingleSeq, ConcatEmpty
  <2> QED
    BY <1>1, <1>3, <1>4, <2>1, CommitmentNames DEF MessageOut
<1>6. /\ IsSeq(h) /\ Range(h) = {m} \cup Range(M) /\ DataIn(h, s) = Range(M)
      /\ \A e \in Range(M) : IsData(e)
  BY <1>1, <1>3, StatusData
<1>7. IsSeq(a)
  BY SingleSeq
<1> DEFINE f == q[Finalized]
           g == q[Confirmed]
<1>8. IsSeq(f) /\ IsSeq(g)
  BY CommitmentNames DEF StreamsOK, Messages
<1> HIDE DEF a, h, M, b
<1>9. q2[Finalized] = f \o h /\ q2[Confirmed] = g \o a
  BY <1>5, CommitmentNames
<1> HIDE DEF f, g
<1>10. IsSeq(f \o h) /\ Range(f \o h) = Range(f) \cup Range(h)
  BY <1>6, <1>8, ConcatSeq, ConcatRange
<1> SUFFICES ASSUME HasStatus(f \o h, s, Confirmed)
             PROVE  DataIn(f \o h, s) \subseteq DataIn(g \o a, s)
  <2>1. ASSUME NEW i \in 1 .. Len(f \o h), IsStatus((f \o h)[i], s, Confirmed)
        PROVE  HasStatus(f \o h, s, Confirmed)
    <3>1. (f \o h)[i] \in Range(f \o h)
      BY <1>10, <2>1, SeqLen
    <3> QED
      BY <2>1, <3>1 DEF HasStatus
  <2> QED
    BY <1>9, <2>1 DEF FinalOf
<1>11. HasStatus(f, s, Confirmed)
  <2>1. PICK e \in Range(f \o h) : IsStatus(e, s, Confirmed)
    BY DEF HasStatus
  <2>2. e \notin Range(M) /\ e # m
    BY <1>1, <1>6, <2>1, CommitmentNames DEF IsStatus, IsData
  <2> QED
    BY <1>6, <1>10, <2>1, <2>2 DEF HasStatus
<1>12. x.confirmed_bank # NoChoice /\ DataIn(f, s) = {}
  BY <1>2, <1>11 DEF NotFinal, f
<1>13. b = x.confirmed_bank
  <2>1. CASE Bankless(s)
    <3>1. m.bank = NoBank /\ x.confirmed_bank = NoBank
      BY <1>2, <1>12, <2>1 DEF Bankless, Named
    <3>2. \A d \in Bank0 : x.banks[d].open => d = NoBank
      BY <1>2, <2>1 DEF Named
    <3>3. \/ SelectBank(x, m.bank) = NoBank
          \/ SelectBank(x, m.bank) \in Bank0 /\ x.banks[SelectBank(x, m.bank)].open
      BY <1>1, <3>1, SelectBankIs
    <3> QED
      BY <3>1, <3>2, <3>3 DEF b
  <2>2. CASE ~Bankless(s)
    <3>1. PICK o \in Message : IsStatus(o, s, Confirmed) /\ o.bank = x.confirmed_bank
      BY <1>2, <1>12, <2>2 DEF Named
    <3>2. x.confirmed_bank # NoBank
      BY <1>2, <1>12, <2>2 DEF Named
    <3>3. IsStatus(m, s, Finalized)
      BY <1>1 DEF IsStatus
    <3>4. m.bank \in {NoBank, o.bank}
      BY <2>2, <3>1, <3>3 DEF StatusesAgree
    <3>5. CASE m.bank = NoBank
      BY <1>1, <1>12, <3>2, <3>5, SelectBankIs DEF b
    <3>6. CASE m.bank # NoBank
      BY <1>1, <3>1, <3>4, <3>6, SelectBankIs DEF b
    <3> QED
      BY <3>5, <3>6
  <2> QED
    BY <2>1, <2>2
<1>14. Range(M) \subseteq DataIn(g, s)
  BY <1>2, <1>12, <1>13 DEF ChosenOut, M, g
<1>15. DataIn(f \o h, s) = DataIn(f, s) \cup DataIn(h, s)
  BY <1>6, <1>8, DataConcat
<1>16. DataIn(g \o a, s) = DataIn(g, s) \cup DataIn(a, s)
  <2>1. IsSeq(g) /\ IsSeq(a)
    BY <1>7, <1>8
  <2> QED
    BY <2>1, DataConcat
<1> QED
  BY <1>6, <1>12, <1>14, <1>15, <1>16

\* What the push of a message finds in its slot.
Fitting(m, x, s) ==
    /\ MsgOK(m) /\ m.slot = s
    /\ m.kind = "slot" => m \in Message
    /\ m.kind # "update_parent" => m.bank \notin x.cleared
    /\ Bankless(s) => m.bank = NoBank

LEMMA GatheredTurn ==
    ASSUME NEW x, NEW s, InfoOK(x, s), s \in Slot, NEW m, Fitting(m, x, s),
           NEW q, StreamsOK(q), Gathered(x, q, s),
           NEW q2, \A c \in Commitment : q2[c] = q[c] \o MessageOut(x, m, c)
    PROVE  IF IsFinalized(m) THEN StatusesAgree => FinalOf(q2, s)
           ELSE Gathered(InfoAfter(x, m), q2, s)
<1>1. /\ MsgOK(m) /\ m.slot = s /\ (m.kind = "slot" => m \in Message)
      /\ (m.kind # "update_parent" => m.bank \notin x.cleared)
      /\ (Bankless(s) => m.bank = NoBank)
  BY DEF Fitting
<1>2. CASE IsData(m)
  <2>1. m.kind # "slot" /\ m.kind # "update_parent"
    BY <1>2 DEF IsData
  <2>2. Gathered(InfoAfter(x, m), q2, s)
    BY <1>1, <1>2, <2>1, GatheredData
  <2> QED
    BY <2>1, <2>2 DEF IsFinalized
<1>3. CASE m.kind = "update_parent"
  <2>1. Gathered(InfoAfter(x, m), q2, s)
    BY <1>1, <1>3, GatheredUpdateParent
  <2> QED
    BY <1>3, <2>1 DEF IsFinalized
<1>4. CASE m.kind = "slot" /\ m.key = Finalized
  <2>1. StatusesAgree => FinalOf(q2, s)
    BY <1>1, <1>4, FinalizedGives DEF IsFinalized
  <2> QED
    BY <1>4, <2>1 DEF IsFinalized
<1>5. CASE m.kind = "slot" /\ m.key = Confirmed /\ x.confirmed_bank = NoChoice
  <2>1. Gathered(InfoAfter(x, m), q2, s)
    BY <1>1, <1>5, GatheredConfirmed
  <2> QED
    BY <1>5, <2>1, CommitmentNames DEF IsFinalized
<1>6. CASE /\ m.kind = "slot" /\ m.key # Finalized
           /\ ~(m.key = Confirmed /\ x.confirmed_bank = NoChoice)
  <2>1. Chosen(x, m) = NoChoice
    BY <1>6 DEF Chosen, CommitBank
  <2>2. Gathered(InfoAfter(x, m), q2, s)
    BY <1>1, <1>6, <2>1, GatheredUnchosen
  <2> QED
    BY <1>6, <2>2 DEF IsFinalized
<1> QED
  BY <1>2, <1>3, <1>4, <1>5, <1>6 DEF IsData

-----------------------------------------------------------------------------
(* The other slots *)

OfSlot(a, s) == Messages(a) /\ \A e \in Range(a) : e.slot = s

\* The streams have more of a slot.
Extended(q2, q, s) == \A c \in Commitment : \E a : OfSlot(a, s) /\ q2[c] = q[c] \o a

LEMMA OfSlotConcat ==
    ASSUME NEW a, NEW b, NEW s, OfSlot(a, s), OfSlot(b, s)
    PROVE  OfSlot(a \o b, s)
<1>1. /\ IsSeq(a) /\ IsSeq(b) /\ (\A e \in Range(a) : MsgOK(e) /\ e.slot = s)
      /\ \A e \in Range(b) : MsgOK(e) /\ e.slot = s
  BY SeqLen DEF OfSlot, Messages
<1>2. IsSeq(a \o b) /\ Range(a \o b) = Range(a) \cup Range(b)
  BY <1>1, ConcatSeq, ConcatRange
<1> DEFINE h == a \o b
<1>3. IsSeq(h) /\ \A e \in Range(h) : MsgOK(e) /\ e.slot = s
  BY <1>1, <1>2
<1> HIDE DEF h
<1>4. OfSlot(h, s)
  BY <1>3, SeqLen DEF OfSlot, Messages
<1> QED
  BY <1>4 DEF h

LEMMA ExtendedTrans ==
    ASSUME NEW q, NEW q2, NEW q3, NEW s, StreamsOK(q), Extended(q2, q, s), Extended(q3, q2, s)
    PROVE  Extended(q3, q, s)
<1> SUFFICES ASSUME NEW c \in Commitment PROVE \E a : OfSlot(a, s) /\ q3[c] = q[c] \o a
  BY DEF Extended
<1>1. PICK a : OfSlot(a, s) /\ q2[c] = q[c] \o a
  BY DEF Extended
<1>2. PICK b : OfSlot(b, s) /\ q3[c] = q2[c] \o b
  BY DEF Extended
<1> DEFINE g == q[c]
<1>3. IsSeq(g) /\ IsSeq(a) /\ IsSeq(b)
  BY <1>1, <1>2 DEF StreamsOK, OfSlot, Messages
<1> HIDE DEF g
<1>4. (g \o a) \o b = g \o (a \o b)
  BY <1>3, ConcatAssoc
<1>5. OfSlot(a \o b, s)
  BY <1>1, <1>2, OfSlotConcat
<1>6. q3[c] = g \o (a \o b)
  BY <1>1, <1>2, <1>4 DEF g
<1> QED
  BY <1>5, <1>6 DEF g

LEMMA EmptyOfSlot == \A s : OfSlot(<<>>, s)
<1>1. IsSeq(<<>>) /\ Len(<<>>) = 0 /\ Range(<<>>) = {}
  BY EmptyIsSeq, SeqLen
<1> QED
  BY <1>1 DEF OfSlot, Messages

LEMMA ExtendedSame ==
    ASSUME NEW q, NEW s, StreamsOK(q)
    PROVE  Extended(q, q, s)
<1> SUFFICES ASSUME NEW c \in Commitment PROVE \E a : OfSlot(a, s) /\ q[c] = q[c] \o a
  BY DEF Extended
<1>1. q[c] = q[c] \o <<>>
  BY ConcatEmpty DEF StreamsOK, Messages
<1> QED
  BY <1>1, EmptyOfSlot

LEMMA MessageOutOK ==
    ASSUME NEW x, NEW s, InfoOK(x, s), NEW m, MsgOK(m), m.slot = s, NEW c \in Commitment
    PROVE  OfSlot(MessageOut(x, m, c), s)
<1>1. OfSlot(<<m>>, s)
  <2>1. IsSeq(<<m>>) /\ Range(<<m>>) = {m} /\ Len(<<m>>) = 1 /\ <<m>>[1] = m
    BY SingleSeq DEF Range
  <2> DEFINE a == <<m>>
  <2> HIDE DEF a
  <2>2. OfSlot(a, s)
    BY <2>1 DEF OfSlot, Messages, a
  <2> QED
    BY <2>2 DEF a
<1>2. <<m>> \o <<>> = <<m>>
  BY SingleSeq, ConcatEmpty
<1>3. CASE m.kind = "slot"
  <2>1. CASE Chosen(x, m) # NoChoice /\ c = m.key
    <3> DEFINE b == Chosen(x, m)
               M == x.banks[b].messages
    <3>1. b \in Bank0
      BY <1>3, <2>1, CommitBankOK DEF Chosen
    <3>2. OfSlot(M, s)
      <4> HIDE DEF b
      <4>1. IsSeq(M) /\ \A i \in 1 .. Len(M) : MsgOK(M[i]) /\ M[i].slot = s
        BY <3>1 DEF InfoOK, BankOK
      <4> HIDE DEF M
      <4> QED
        BY <4>1, SeqLen DEF OfSlot, Messages
    <3>3. MessageOut(x, m, c) = <<m>> \o M
      BY <1>3, <2>1 DEF MessageOut
    <3> HIDE DEF M
    <3> QED
      BY <1>1, <3>2, <3>3, OfSlotConcat
  <2>2. CASE ~(Chosen(x, m) # NoChoice /\ c = m.key)
    <3>1. MessageOut(x, m, c) = <<m>>
      BY <1>2, <1>3, <2>2 DEF MessageOut
    <3> QED
      BY <1>1, <3>1
  <2> QED
    BY <2>1, <2>2
<1>4. CASE m.kind = "update_parent"
  <2>1. MessageOut(x, m, c) = <<m>> \/ MessageOut(x, m, c) = <<>>
    BY <1>2, <1>4 DEF MessageOut, NewBlock
  <2> QED
    BY <1>1, <2>1, EmptyOfSlot
<1>5. CASE IsData(m)
  <2> DEFINE B == NewBlock(x, m)
             a == <<m>> \o B
  <2>1. DataGoes(x, s, m, a, B)
    BY <1>5, DataOut
  <2> HIDE DEF a, B
  <2>2. OfSlot(a, s) /\ (MessageOut(x, m, c) = a \/ MessageOut(x, m, c) = <<>>)
    BY <2>1 DEF DataGoes, OfSlot
  <2> QED
    BY <2>2, EmptyOfSlot
<1> QED
  BY <1>3, <1>4, <1>5 DEF IsData

\* What the streams have of another slot stays as it is.
SameOf(q2, q, t, c) ==
    /\ DataIn(q2[c], t) = DataIn(q[c], t)
    /\ \A key : HasStatus(q2[c], t, key) => HasStatus(q[c], t, key)
    /\ \A b, D : Covered(q[c], t, b, D) => Covered(q2[c], t, b, D)
    /\ \A b : Blocked(q[c], t, b) => Blocked(q2[c], t, b)

LEMMA OtherSame ==
    ASSUME NEW q, NEW q2, NEW s, NEW t, s # t, StreamsOK(q), Extended(q2, q, s),
           NEW c \in Commitment
    PROVE  SameOf(q2, q, t, c)
<1> DEFINE g == q[c]
<1>1. PICK a : OfSlot(a, s) /\ q2[c] = g \o a
  BY DEF Extended
<1>2. Messages(g) /\ IsSeq(g) /\ Messages(a) /\ IsSeq(a) /\ \A e \in Range(a) : e.slot = s
  BY <1>1 DEF StreamsOK, OfSlot, Messages
<1> HIDE DEF g
<1>3. DataIn(g \o a, t) = DataIn(g, t) \cup DataIn(a, t)
  BY <1>2, DataConcat
<1>4. DataIn(a, t) = {}
  BY <1>2 DEF DataIn
<1>5. Range(g \o a) = Range(g) \cup Range(a)
  BY <1>2, ConcatRange
<1>6. \A key : HasStatus(g \o a, t, key) => HasStatus(g, t, key)
  BY <1>2, <1>5 DEF HasStatus, IsStatus
<1>7. \A b, D : Covered(g, t, b, D) => Covered(g \o a, t, b, D)
  BY <1>2, CoveredSame
<1>8. \A b : Blocked(g, t, b) => Blocked(g \o a, t, b)
  BY <1>2, BlockedMore
<1>9. DataIn(q2[c], t) = DataIn(g, t)
  BY <1>1, <1>3, <1>4
<1>10. \A key : HasStatus(q2[c], t, key) => HasStatus(g, t, key)
  BY <1>1, <1>6
<1>11. \A b, D : Covered(g, t, b, D) => Covered(q2[c], t, b, D)
  BY <1>1, <1>7
<1>12. \A b : Blocked(g, t, b) => Blocked(q2[c], t, b)
  BY <1>1, <1>8
<1> QED
  BY <1>9, <1>10, <1>11, <1>12 DEF g, SameOf

LEMMA GatheredOther ==
    ASSUME NEW q, NEW q2, NEW s, NEW t, s # t, StreamsOK(q), Extended(q2, q, s),
           NEW x, Gathered(x, q, t)
    PROVE  Gathered(x, q2, t)
<1>1. /\ \A c \in Commitment : DataIn(q2[c], t) = DataIn(q[c], t)
      /\ \A c \in Commitment : \A key : HasStatus(q2[c], t, key) => HasStatus(q[c], t, key)
      /\ \A c \in Commitment : \A b, D : Covered(q[c], t, b, D) => Covered(q2[c], t, b, D)
      /\ \A c \in Commitment : \A b : Blocked(q[c], t, b) => Blocked(q2[c], t, b)
  <2>1. \A c \in Commitment : SameOf(q2, q, t, c)
    BY OtherSame
  <2> QED
    BY <2>1 DEF SameOf
<1>2. OneCandidate(x, q2, t)
  BY <1>1, CommitmentNames DEF Gathered, OneCandidate
<1>3. CandidatesKept(x, q2, t)
  BY <1>1, CommitmentNames DEF Gathered, CandidatesKept
<1>4. ChosenOut(x, q2, t)
  BY <1>1, CommitmentNames DEF Gathered, ChosenOut
<1>5. BlocksOut(x, q2, t)
  BY <1>1, CommitmentNames DEF Gathered, BlocksOut
<1>6. NotFinal(x, q2, t)
  BY <1>1, CommitmentNames DEF Gathered, NotFinal
<1> QED
  BY <1>2, <1>3, <1>4, <1>5, <1>6 DEF Gathered

LEMMA FinalOther ==
    ASSUME NEW q, NEW q2, NEW s, NEW t, s # t, StreamsOK(q), Extended(q2, q, s), FinalOf(q, t)
    PROVE  FinalOf(q2, t)
<1> DEFINE f == q[Finalized]
<1>1. PICK a : OfSlot(a, s) /\ q2[Finalized] = f \o a
  BY CommitmentNames DEF Extended
<1>2. IsSeq(f) /\ IsSeq(a) /\ \A e \in Range(a) : e.slot = s
  BY <1>1, CommitmentNames DEF StreamsOK, OfSlot, Messages
<1> HIDE DEF f
<1>3. /\ Len(f) \in Nat /\ Len(a) \in Nat /\ Len(f \o a) = Len(f) + Len(a)
      /\ \A i \in 1 .. Len(f) : (f \o a)[i] = f[i]
      /\ \A i \in Len(f) + 1 .. Len(f) + Len(a) : (f \o a)[i] = a[i - Len(f)]
  BY <1>2, SeqLen, ConcatSeq
<1>4. ASSUME NEW i \in 1 .. Len(f \o a), NEW key, IsStatus((f \o a)[i], t, key)
      PROVE  i \in 1 .. Len(f) /\ IsStatus(f[i], t, key)
  <2>1. CASE i \in 1 .. Len(f)
    BY <1>3, <1>4, <2>1
  <2>2. CASE i \in Len(f) + 1 .. Len(f) + Len(a)
    <3>1. (f \o a)[i] = a[i - Len(f)] /\ i - Len(f) \in 1 .. Len(a)
      BY <1>3, <2>2
    <3>2. a[i - Len(f)] \in Range(a)
      BY <1>2, <3>1, SeqLen
    <3>3. (f \o a)[i].slot = s
      BY <1>2, <3>1, <3>2
    <3> QED
      BY <1>4, <3>3 DEF IsStatus
  <2> QED
    BY <1>3, <2>1, <2>2
<1>5. /\ DataIn(q2[Finalized], t) = DataIn(q[Finalized], t)
      /\ DataIn(q2[Confirmed], t) = DataIn(q[Confirmed], t)
  <2>1. SameOf(q2, q, t, Finalized) /\ SameOf(q2, q, t, Confirmed)
    BY CommitmentNames, OtherSame
  <2> QED
    BY <2>1 DEF SameOf
<1>6. ASSUME NEW i \in 1 .. Len(f \o a), NEW j \in 1 .. Len(f \o a), i < j,
             IsStatus((f \o a)[i], t, Confirmed), IsStatus((f \o a)[j], t, Finalized)
      PROVE  DataIn(f, t) \subseteq DataIn(q[Confirmed], t)
  <2>1. /\ i \in 1 .. Len(f) /\ IsStatus(f[i], t, Confirmed)
        /\ j \in 1 .. Len(f) /\ IsStatus(f[j], t, Finalized)
    BY <1>4, <1>6
  <2> QED
    BY <1>6, <2>1 DEF FinalOf, f
<1> QED
  BY <1>1, <1>5, <1>6 DEF FinalOf, f

\* A slot of which the streams have nothing.
Absent(q, s) == \A c \in Commitment : \A i \in 1 .. Len(q[c]) : q[c][i].slot # s

LEMMA AbsentOther ==
    ASSUME NEW q, NEW q2, NEW s, NEW t, s # t, StreamsOK(q), Extended(q2, q, s), Absent(q, t)
    PROVE  Absent(q2, t)
<1> SUFFICES ASSUME NEW c \in Commitment, NEW i \in 1 .. Len(q2[c]) PROVE q2[c][i].slot # t
  BY DEF Absent
<1> DEFINE f == q[c]
<1>1. PICK a : OfSlot(a, s) /\ q2[c] = f \o a
  BY DEF Extended
<1>2. IsSeq(f) /\ IsSeq(a) /\ (\A e \in Range(a) : e.slot = s)
      /\ \A j \in 1 .. Len(f) : f[j].slot # t
  BY <1>1 DEF StreamsOK, OfSlot, Messages, Absent
<1> HIDE DEF f
<1>3. /\ Len(f) \in Nat /\ Len(a) \in Nat /\ Len(f \o a) = Len(f) + Len(a)
      /\ \A j \in 1 .. Len(f) : (f \o a)[j] = f[j]
      /\ \A j \in Len(f) + 1 .. Len(f) + Len(a) : (f \o a)[j] = a[j - Len(f)]
  BY <1>2, SeqLen, ConcatSeq
<1>4. CASE i \in 1 .. Len(f)
  BY <1>1, <1>2, <1>3, <1>4
<1>5. CASE i \in Len(f) + 1 .. Len(f) + Len(a)
  <2>1. (f \o a)[i] = a[i - Len(f)] /\ i - Len(f) \in 1 .. Len(a)
    BY <1>3, <1>5
  <2>2. a[i - Len(f)] \in Range(a)
    BY <1>2, <2>1, SeqLen
  <2> QED
    BY <1>1, <1>2, <2>1, <2>2
<1> QED
  BY <1>1, <1>3, <1>4, <1>5

-----------------------------------------------------------------------------
(* A push *)

\* What a push does: the streams have more of its slot, and what the slot has gathered goes
\* on or was finalized.
PushGives(st1, st, s) ==
    /\ StOK(st1, s) /\ st1.rep = st.rep /\ Extended(st1.stream, st.stream, s)
    /\ IF st1.final THEN StatusesAgree => FinalOf(st1.stream, s)
       ELSE Gathered(st1.info, st1.stream, s)

LEMMA TurnGives ==
    ASSUME NEW s \in Slot, NEW st, StOK(st, s), ~st.rep.tracked, ~st.final,
           NEW m, Fitting(m, st.info, s), Gathered(st.info, st.stream, s)
    PROVE  /\ PushGives(PushOne(st, m), st, s)
           /\ PushOne(st, m).info = InfoAfter(st.info, m)
           /\ PushOne(st, m).final <=> IsFinalized(m)
<1> DEFINE z == PushOne(st, m)
<1>1. MsgOK(m) /\ m.slot = s
  BY DEF Fitting
<1>2. MessageDone(z, st, s, m)
  BY <1>1, PushOneGives
<1> HIDE DEF z
<1>3. /\ StOK(z, s) /\ z.info = InfoAfter(st.info, m) /\ z.rep = st.rep
      /\ z.final <=> IsFinalized(m)
      /\ \A c \in Commitment : z.stream[c] = st.stream[c] \o MessageOut(st.info, m, c)
  BY <1>2 DEF MessageDone
<1>4. InfoOK(st.info, s) /\ StreamsOK(st.stream)
  BY DEF StOK
<1>5. Extended(z.stream, st.stream, s)
  BY <1>1, <1>3, <1>4, MessageOutOK DEF Extended
<1>6. IF IsFinalized(m) THEN StatusesAgree => FinalOf(z.stream, s)
      ELSE Gathered(InfoAfter(st.info, m), z.stream, s)
  BY <1>3, <1>4, GatheredTurn
<1>7. PushGives(z, st, s)
  BY <1>3, <1>5, <1>6 DEF PushGives
<1> QED
  BY <1>3, <1>7 DEF z

\* Messages of data that pass together.
DataFitting(q, x, s) ==
    \A i \in 1 .. Len(q) : Fitting(q[i], x, s) /\ IsData(q[i])

LEMMA DataTurns ==
    ASSUME NEW s \in Slot, NEW st, StOK(st, s), ~st.rep.tracked, ~st.final,
           Gathered(st.info, st.stream, s),
           NEW q, MessagesOf(q, s), DataFitting(q, st.info, s)
    PROVE  PushGives(PushAll(st, q), st, s)
<1>1. PICK f : Turns(f, st, q, Len(q)) /\ PushAll(st, q) = f[Len(q)]
  BY PushAllTurns DEF MessagesOf, Messages
<1> DEFINE N == Len(q)
           Good(n) == PushGives(f[n], st, s) /\ ~f[n].final /\ f[n].info.cleared = st.info.cleared
           K == {n \in Nat : n <= N => Good(n)}
<1>2. N \in Nat
  BY SeqLen DEF MessagesOf, Messages
<1>3. f[0] = st /\ \A n \in 1 .. N : f[n] = PushOne(f[n - 1], q[n])
  <2>1. 0 \in 0 .. N /\ \A n \in 1 .. N : n \in 0 .. N /\ n # 0
    BY <1>2
  <2> QED
    BY <1>1, <2>1 DEF Turns
<1>4. 0 \in K
  <2>1. Extended(st.stream, st.stream, s)
    BY ExtendedSame DEF StOK
  <2> QED
    BY <1>3, <2>1 DEF PushGives
<1>5. ASSUME NEW n \in Nat, n \in K PROVE n + 1 \in K
  <2> SUFFICES ASSUME n + 1 <= N PROVE Good(n + 1)
    OBVIOUS
  <2>1. Good(n) /\ n + 1 \in 1 .. N /\ (n + 1) - 1 = n
    BY <1>2, <1>5
  <2> DEFINE a == f[n]
             m == q[n + 1]
             b == f[n + 1]
  <2>2. b = PushOne(a, m) /\ Fitting(m, st.info, s) /\ IsData(m)
    BY <1>2, <1>3, <2>1 DEF DataFitting
  <2>3. /\ StOK(a, s) /\ a.rep = st.rep /\ Extended(a.stream, st.stream, s) /\ ~a.final
        /\ Gathered(a.info, a.stream, s) /\ a.info.cleared = st.info.cleared
    BY <2>1 DEF PushGives
  <2> HIDE DEF a, b, m
  <2>4. Fitting(m, a.info, s) /\ ~a.rep.tracked
    BY <2>2, <2>3 DEF Fitting
  <2>5. PushGives(b, a, s) /\ b.info = InfoAfter(a.info, m) /\ (b.final <=> IsFinalized(m))
    BY <2>2, <2>3, <2>4, TurnGives
  <2>6. ~IsFinalized(m) /\ m.kind # "slot"
    BY <2>2 DEF IsFinalized, IsData
  <2>7. b.info.cleared = a.info.cleared
    <3> DEFINE x == a.info
    <3>1. InfoOK(x, s) /\ MsgOK(m) /\ m.slot = s
      BY <2>2, <2>3 DEF StOK, Fitting
    <3> HIDE DEF x
    <3>2. InfoWith(x, m).cleared = x.cleared
      BY <2>2, <3>1, DataStep
    <3> QED
      BY <2>5, <2>6, <3>2 DEF InfoAfter, x
  <2>8. Extended(b.stream, st.stream, s)
    <3> DEFINE q1 == st.stream
               q2 == a.stream
               q3 == b.stream
    <3>1. StreamsOK(q1) /\ Extended(q2, q1, s) /\ Extended(q3, q2, s)
      BY <2>3, <2>5 DEF StOK, PushGives
    <3> HIDE DEF q1, q2, q3
    <3>2. Extended(q3, q1, s)
      BY <3>1, ExtendedTrans
    <3> QED
      BY <3>2 DEF q1, q3
  <2> QED
    BY <2>3, <2>5, <2>6, <2>7, <2>8 DEF PushGives, b
<1> HIDE DEF K
<1>6. N \in K
  BY <1>2, <1>4, <1>5, Induction
<1> QED
  BY <1>1, <1>2, <1>6 DEF K

\* What passes the dedup: one message, or data of the slot.
LEMMA PushedGives ==
    ASSUME NEW s \in Slot, NEW st, StOK(st, s), ~st.rep.tracked, ~st.final,
           Gathered(st.info, st.stream, s),
           NEW q, MessagesOf(q, s),
           \/ \E m : q = <<m>> /\ Fitting(m, st.info, s)
           \/ DataFitting(q, st.info, s)
    PROVE  PushGives(PushAll(st, q), st, s)
<1>1. CASE DataFitting(q, st.info, s)
  BY <1>1, DataTurns
<1>2. ASSUME NEW m, q = <<m>>, Fitting(m, st.info, s)
      PROVE  PushGives(PushAll(st, q), st, s)
  <2>1. PICK f : Turns(f, st, q, Len(q)) /\ PushAll(st, q) = f[Len(q)]
    BY PushAllTurns DEF MessagesOf, Messages
  <2>2. Len(q) = 1 /\ q[1] = m
    BY <1>2
  <2>3. 0 \in 0 .. 1 /\ 1 \in 0 .. 1 /\ 1 # 0 /\ 1 - 1 = 0
    OBVIOUS
  <2>4. f[0] = st /\ f[1] = PushOne(f[0], m)
    BY <2>1, <2>2, <2>3 DEF Turns
  <2> QED
    BY <1>2, <2>1, <2>2, <2>4, TurnGives
<1> QED
  BY <1>1, <1>2

\* The messages that a push may bring together.
Together(q, x, s) ==
    \/ \E m : q = <<m>> /\ Fitting(m, x, s)
    \/ DataFitting(q, x, s)

LEMMA PassedFit ==
    ASSUME setup \in Setups, NEW s, NEW d, DedupOK(d, s), NEW m, Offered(m, s),
           NEW x, m.kind # "update_parent" => m.bank \notin x.cleared,
           Passed(d, m) # <<>>
    PROVE  Together(Passed(d, m), x, s)
<1>1. /\ MsgOK(m) /\ m.slot = s /\ m \in Message /\ m.bank \in Bank0
      /\ (m.kind = "tx" => m.sig \in Sig)
      /\ (m.kind = "account" /\ m.sig # NoSig => m.sig \in Sig)
  BY DEF Offered, MsgOK
<1>2. Bankless(s) => m.bank = NoBank
  BY <1>1 DEF Bankless
<1>3. ASSUME NEW o, Versioned(o, m), m.kind # "slot"
      PROVE  Fitting(o, x, s)
  BY <1>1, <1>2, <1>3 DEF Versioned, Fitting
<1>4. Fitting(m, x, s)
  BY <1>1, <1>2 DEF Fitting
<1>5. CASE m.kind = "account" /\ m.sig = NoSig
  <2> DEFINE v == Phantoms(d, m.bank)
  <2>1. v \in Nat
    <3>1. IsFiniteSet({e \in d.seen : e[2] = m.bank /\ e[3] = "account" /\ e[5] = NoSig})
      BY FS_Subset DEF DedupOK
    <3> QED
      BY <3>1, FS_CardinalityType DEF Phantoms
  <2> DEFINE o == [m EXCEPT !.version = v]
  <2>2. Passed(d, m) = <<o>>
    BY <1>5 DEF Passed
  <2> HIDE DEF v
  <2>3. Versioned(o, m)
    BY <1>1, <2>1, NewVersionOK
  <2> HIDE DEF o
  <2> QED
    BY <1>3, <1>5, <2>2, <2>3 DEF Together
<1>6. CASE m.kind = "account" /\ m.sig # NoSig
  <2> DEFINE o == WithTxVersion(m)
  <2>1. Passed(d, m) = <<o>>
    BY <1>6 DEF Passed
  <2>2. Versioned(o, m)
    BY <1>1, <1>6, WithTxVersionOK
  <2> HIDE DEF o
  <2> QED
    BY <1>3, <1>6, <2>1, <2>2 DEF Together
<1>7. CASE m.kind = "tx"
  <2> DEFINE k == <<m.bank, m.sig>>
             mine == d.waiting[k]
             old == [i \in 1 .. Len(mine) |-> WithTxVersion(mine[i])]
  <2>1. Passed(d, m) = Append(old, m)
    BY <1>7 DEF Passed
  <2>2. k \in Bank0 \X Sig /\ k[1] = m.bank /\ k[2] = m.sig
    BY <1>1, <1>7
  <2> HIDE DEF k
  <2>3. mine \in Seq(Message) /\ Len(mine) \in Nat
    BY <2>2 DEF DedupOK, WaitingOK
  <2>4. ASSUME NEW i \in 1 .. Len(mine)
        PROVE  /\ MsgOK(mine[i]) /\ mine[i].slot = s /\ mine[i].sig \in Sig
               /\ mine[i].bank = m.bank /\ mine[i].kind = "account"
    <3>1. /\ mine[i].slot = s /\ mine[i].sig = m.sig /\ mine[i].bank = m.bank
          /\ mine[i].kind = "account"
      BY <2>2 DEF DedupOK, WaitingOK
    <3>2. mine[i] \in Message
      BY <2>3
    <3>3. MsgOK(mine[i])
      BY <3>2, MessageOK DEF Offered
    <3> QED
      BY <1>1, <1>7, <3>1, <3>3
  <2>5. IsSeq(old) /\ Len(old) = Len(mine)
    BY <2>3, FunctionSeq
  <2>6. ASSUME NEW i \in 1 .. Len(mine) PROVE Fitting(old[i], x, s) /\ IsData(old[i])
    <3> DEFINE o == mine[i]
               w == WithTxVersion(o)
    <3>1. old[i] = w
      OBVIOUS
    <3> HIDE DEF o, old
    <3>2. MsgOK(o) /\ o.slot = s /\ o.sig \in Sig /\ o.bank = m.bank /\ o.kind = "account"
      BY <2>4 DEF o
    <3>3. Versioned(w, o)
      BY <3>2, WithTxVersionOK
    <3> HIDE DEF w
    <3> QED
      BY <1>2, <1>7, <3>1, <3>2, <3>3 DEF Versioned, Fitting, IsData
  <2> HIDE DEF old, mine
  <2>7. /\ Len(Append(old, m)) = Len(mine) + 1
        /\ Append(old, m)[Len(mine) + 1] = m
        /\ \A i \in 1 .. Len(mine) : Append(old, m)[i] = old[i]
    BY <2>5, AppendSeq
  <2>8. IsData(m)
    BY <1>7 DEF IsData
  <2>9. ASSUME NEW i \in 1 .. Len(mine) + 1
        PROVE  Fitting(Append(old, m)[i], x, s) /\ IsData(Append(old, m)[i])
    <3>1. i \in 1 .. Len(mine) \/ i = Len(mine) + 1
      BY <2>3
    <3> QED
      BY <1>4, <2>6, <2>7, <2>8, <3>1
  <2>10. DataFitting(Append(old, m), x, s)
    BY <2>7, <2>9 DEF DataFitting
  <2> QED
    BY <2>1, <2>10 DEF Together
<1>8. CASE m.kind # "account" /\ m.kind # "tx"
  <2>1. Passed(d, m) = <<m>>
    BY <1>8 DEF Passed
  <2> QED
    BY <1>4, <2>1 DEF Together
<1> QED
  BY <1>5, <1>6, <1>7, <1>8

\* A slot that begins has gathered nothing.
LEMMA GatheredNew ==
    ASSUME NEW q, StreamsOK(q), NEW s, NEW head, Absent(q, s)
    PROVE  Gathered(NewInfo(head), q, s)
<1> DEFINE x == NewInfo(head)
<1>1. /\ x.confirmed_bank = NoChoice /\ x.cleared = {}
      /\ \A b \in Bank0 : x.banks[b] = NoBankInfo
  BY DEF NewInfo
<1> HIDE DEF x
<1>2. /\ NoBankInfo.messages = <<>> /\ NoBankInfo.created = FALSE /\ NoBankInfo.open = FALSE
  BY DEF NoBankInfo
<1>3. ASSUME NEW c \in Commitment
      PROVE  DataIn(q[c], s) = {} /\ ~HasStatus(q[c], s, Confirmed)
             /\ \A b, D : Covered(q[c], s, b, D)
  <2>1. \A i \in 1 .. Len(q[c]) : q[c][i].slot # s
    BY DEF Absent
  <2>2. Range(q[c]) = {q[c][i] : i \in 1 .. Len(q[c])}
    BY SeqLen DEF StreamsOK, Messages
  <2>3. \A e \in Range(q[c]) : e.slot # s
    BY <2>1, <2>2
  <2> QED
    BY <2>1, <2>3 DEF DataIn, HasStatus, IsStatus, Covered
<1>4. OneCandidate(x, q, s)
  BY <1>3, CommitmentNames DEF OneCandidate
<1>5. CandidatesKept(x, q, s)
  BY <1>3, CommitmentNames DEF CandidatesKept
<1>6. ChosenOut(x, q, s) /\ ClearedClosed(x)
  BY <1>1 DEF ChosenOut, ClearedClosed
<1>7. BlocksOut(x, q, s)
  BY <1>1, <1>2 DEF BlocksOut
<1>8. NotFinal(x, q, s)
  BY <1>3, CommitmentNames DEF NotFinal
<1>9. Named(x, s)
  BY <1>1, <1>2 DEF Named
<1> QED
  BY <1>4, <1>5, <1>6, <1>7, <1>8, <1>9 DEF Gathered, x

\* While the finalized stream has no data of a slot, it has none that was not confirmed.
LEMMA GatheredFinal ==
    ASSUME NEW x, NEW q, NEW s, Gathered(x, q, s)
    PROVE  FinalOf(q, s)
  BY DEF Gathered, NotFinal, FinalOf

-----------------------------------------------------------------------------
(* The invariant of promotion *)

\* A slot is closed once the streams have it only when it is behind the bounds.
SlotDone(s) ==
    slots[s].open \/ s <= slot_finalized \/ s <= slot_dropped \/ Absent(stream, s)

PromotedInv ==
    /\ \A s \in Slot : replay[s].open => ~replay[s].tracked
    /\ \A s \in Slot : slots[s].open => Gathered(slots[s], stream, s)
    /\ \A s \in Slot : SlotDone(s)
    /\ StatusesAgree => \A s \in Slot : FinalOf(stream, s)

PromotionIInv == crashes = 0 => PromotedInv

LEMMA AgreePrime ==
    ASSUME UNCHANGED setup
    PROVE  StatusesAgree' <=> StatusesAgree
<1>1. Message' = Message
  BY DEF Message
<1>2. \A s \in Slot : Bankless(s)' <=> Bankless(s)
  BY <1>1 DEF Bankless
<1> QED
  BY <1>1, <1>2 DEF StatusesAgree, IsStatus

LEMMA NamedPrime ==
    ASSUME UNCHANGED setup, NEW s \in Slot, Named(slots'[s], s)
    PROVE  Named(slots[s], s)'
<1>1. Message' = Message
  BY DEF Message
<1>2. Bankless(s)' <=> Bankless(s)
  BY <1>1 DEF Bankless
<1> QED
  BY <1>1, <1>2 DEF Named, IsStatus

LEMMA GatheredPrime ==
    ASSUME UNCHANGED setup, NEW s \in Slot, Gathered(slots'[s], stream', s)
    PROVE  Gathered(slots[s], stream, s)'
<1> DEFINE x == slots'[s]
           q == stream'
<1>1. /\ OneCandidate(x, q, s) /\ CandidatesKept(x, q, s) /\ ChosenOut(x, q, s)
      /\ BlocksOut(x, q, s) /\ ClearedClosed(x) /\ NotFinal(x, q, s)
      /\ StatusesAgree => Named(x, s)
  BY DEF Gathered
<1>2. StatusesAgree' => Named(slots[s], s)'
  BY <1>1, AgreePrime, NamedPrime
<1> QED
  BY <1>1, <1>2 DEF Gathered

\* Which slots a push closes.
LEMMA PublishCloses ==
    ASSUME SenderInv, NEW s \in Slot, NEW passed, MessagesOf(passed, s), passed # <<>>,
           NEW dedup1, Publish(s, passed, dedup1),
           NEW t \in Slot
    PROVE  LET z == St1(s, passed)
               kept == slots'[t] = IF t = s THEN z.info ELSE slots[t]
           IN  /\ kept \/ slots'[t] = NoInfo
               /\ kept \/ t <= slot_finalized' \/ t <= slot_dropped'
               /\ z.final => slots'[s] = NoInfo
<1> DEFINE z == St1(s, passed)
           y == z.info
           f == [slots EXCEPT ![s] = y]
           R == IF z.final THEN {r \in Slot : r <= s} ELSE {}
           g == Slots1(s, passed)
           B == Beyond(g, MaxUnfinalized)
<1>1. slots = [r \in Slot |-> slots[r]] /\ s \in Nat /\ slot_dropped \in Nat
  BY ConstantsAssumption DEF SenderInv, SlotsInv, ScalarsInv
<1>2. /\ slots' = Without(g, B, NoInfo) /\ g = Without(f, R, NoInfo)
      /\ slot_finalized' = IF z.final THEN s ELSE slot_finalized
      /\ slot_dropped' = Max(B \cup {slot_dropped})
  BY PublishBy DEF Slots1
<1>3. t \in R => z.final /\ t <= s
  OBVIOUS
<1>4. z.final => s \in R
  BY <1>1
<1>5. B \subseteq Slot
  BY DEF Beyond, OpenSlots
<1> HIDE DEF z, y, R, g, B
<1>6. f = [r \in Slot |-> IF r = s THEN y ELSE slots[r]]
  BY <1>1
<1> HIDE DEF f
<1>7. /\ g = [r \in Slot |-> IF r \in R THEN NoInfo ELSE f[r]]
      /\ slots' = [r \in Slot |-> IF r \in B THEN NoInfo ELSE g[r]]
  BY <1>2 DEF Without
<1>8. t \in B => t <= slot_dropped'
  <2> DEFINE D == B \cup {slot_dropped}
  <2>1. IsFiniteSet(B) /\ B \subseteq Nat
    BY <1>5, ConstantsAssumption, FS_Subset
  <2>2. IsFiniteSet(D) /\ D \in SUBSET Nat /\ D # {}
    BY <1>1, <2>1, FS_AddElement
  <2>3. t \in B => t \in D
    OBVIOUS
  <2>4. slot_dropped' = Max(D)
    BY <1>2
  <2> HIDE DEF D
  <2>5. \A r \in D : r <= Max(D)
    BY <2>2, MaxOfNats
  <2> QED
    BY <2>3, <2>4, <2>5
<1>9. t \in R => t <= slot_finalized'
  BY <1>2, <1>3
<1>10. slots'[t] = IF t \in B \/ t \in R THEN NoInfo ELSE IF t = s THEN y ELSE slots[t]
  BY <1>6, <1>7
<1>11. z.final => slots'[s] = NoInfo
  BY <1>4, <1>6, <1>7
<1> QED
  BY <1>8, <1>9, <1>10, <1>11 DEF z, y

\* The bounds only grow.
LEMMA BoundsGrow ==
    ASSUME SenderInv, NEW s \in Slot, s > slot_finalized,
           NEW passed, NEW dedup1, Publish(s, passed, dedup1)
    PROVE  /\ slot_finalized \in Nat /\ slot_finalized' \in Nat
           /\ slot_dropped \in Nat /\ slot_dropped' \in Nat
           /\ slot_finalized <= slot_finalized' /\ slot_dropped <= slot_dropped'
<1> DEFINE B == Beyond(Slots1(s, passed), MaxUnfinalized)
           D == B \cup {slot_dropped}
<1>1. s \in Nat /\ slot_finalized \in Nat /\ slot_dropped \in Nat
  BY ConstantsAssumption DEF SenderInv, ScalarsInv
<1>2. slot_finalized' = IF St1(s, passed).final THEN s ELSE slot_finalized
  BY PublishBy
<1>3. slot_dropped' = Max(D)
  BY PublishBy
<1>4. B \subseteq Slot
  BY DEF Beyond, OpenSlots
<1> HIDE DEF B
<1>5. IsFiniteSet(B) /\ B \subseteq Nat
  BY <1>4, ConstantsAssumption, FS_Subset
<1>6. IsFiniteSet(D) /\ D \in SUBSET Nat /\ D # {} /\ slot_dropped \in D
  BY <1>1, <1>5, FS_AddElement
<1> HIDE DEF D
<1>7. Max(D) \in D /\ \A r \in D : r <= Max(D)
  BY <1>6, MaxOfNats
<1>8. slot_dropped' \in Nat /\ slot_dropped <= slot_dropped'
  BY <1>3, <1>6, <1>7
<1>9. slot_finalized' = s \/ slot_finalized' = slot_finalized
  BY <1>2
<1>10. slot_finalized' \in Nat /\ slot_finalized <= slot_finalized'
  BY <1>1, <1>9
<1> QED
  BY <1>1, <1>8, <1>10

LEMMA PublishGathers ==
    ASSUME SenderInv, PromotedInv, UNCHANGED setup,
           NEW s \in Slot, s > slot_finalized, s > slot_dropped,
           NEW passed, MessagesOf(passed, s), passed # <<>>, Together(passed, Info0(s), s),
           NEW dedup1, Publish(s, passed, dedup1)
    PROVE  PromotedInv'
<1> DEFINE z == St1(s, passed)
           z0 == St0(s)
           q == stream
<1>1. /\ StOK(z0, s) /\ z0.info = Info0(s) /\ z0.rep = Rep0(s) /\ z0.stream = q /\ ~z0.final
  BY StartOK
<1>2. ~Rep0(s).tracked
  BY DEF Rep0, NewReplay, PromotedInv
<1>3. StreamsOK(q)
  BY DEF SenderInv, StreamInv
<1>4. s \in Nat /\ slot_finalized \in Nat /\ slot_dropped \in Nat
  BY ConstantsAssumption DEF SenderInv, ScalarsInv
<1>5. Gathered(Info0(s), q, s)
  <2>1. CASE slots[s].open
    BY <2>1 DEF Info0, PromotedInv
  <2>2. CASE ~slots[s].open
    <3>1. Absent(q, s)
      BY <1>4, <2>2 DEF PromotedInv, SlotDone
    <3> QED
      BY <1>3, <2>2, <3>1, GatheredNew DEF Info0
  <2> QED
    BY <2>1, <2>2
<1>6. PushGives(z, z0, s)
  <2> HIDE DEF z0
  <2>1. PushGives(PushAll(z0, passed), z0, s)
    BY <1>1, <1>2, <1>5, PushedGives DEF Together
  <2> QED
    BY <2>1 DEF St1, z0
<1> HIDE DEF z, z0
<1>7. /\ StOK(z, s) /\ z.rep = Rep0(s) /\ Extended(z.stream, q, s)
      /\ IF z.final THEN StatusesAgree => FinalOf(z.stream, s)
         ELSE Gathered(z.info, z.stream, s)
  BY <1>1, <1>6 DEF PushGives
<1>8. stream' = z.stream
  BY PublishBy DEF z
<1>9. ASSUME NEW t \in Slot
      PROVE  /\ slots'[t] = (IF t = s THEN z.info ELSE slots[t]) \/ slots'[t] = NoInfo
             /\ \/ slots'[t] = IF t = s THEN z.info ELSE slots[t]
                \/ t <= slot_finalized' \/ t <= slot_dropped'
             /\ z.final => slots'[s] = NoInfo
  BY PublishCloses DEF z
<1>10. z.info.open = TRUE /\ NoInfo.open = FALSE
  BY <1>7 DEF StOK, InfoOK, NoInfo
<1>11. ASSUME NEW t \in Slot, replay'[t].open PROVE ~replay'[t].tracked
  <2>1. replay = [r \in Slot |-> replay[r]]
    BY DEF SenderInv, ReplayInv
  <2>2. replay' = IF Storage THEN Without(Replay1(s, passed), Expired(s, passed), NoReplay)
                  ELSE [r \in Slot |-> NoReplay]
    BY PublishBy
  <2> DEFINE w == z.rep
             E == Expired(s, passed)
             g == [replay EXCEPT ![s] = w]
  <2>3. Replay1(s, passed) = g
    BY DEF Replay1, z
  <2> HIDE DEF w, E
  <2>4. g = [r \in Slot |-> IF r = s THEN w ELSE replay[r]]
    BY <2>1
  <2> HIDE DEF g
  <2>5. Without(g, E, NoReplay)[t] = IF t \in E THEN NoReplay ELSE g[t]
    BY DEF Without
  <2>6. replay'[t] \in {NoReplay, w, replay[t]}
    BY <2>2, <2>3, <2>4, <2>5 DEF E
  <2>7. NoReplay.open = FALSE /\ ~w.tracked
    BY <1>2, <1>7 DEF NoReplay, w
  <2>8. replay[t].open => ~replay[t].tracked
    BY DEF PromotedInv
  <2> QED
    BY <1>11, <2>6, <2>7, <2>8
<1>12. ASSUME NEW t \in Slot, slots'[t].open PROVE Gathered(slots'[t], stream', t)
  <2>1. slots'[t] = IF t = s THEN z.info ELSE slots[t]
    BY <1>9, <1>10, <1>12
  <2>2. CASE t = s
    <3>1. ~z.final
      BY <1>9, <1>10, <1>12, <2>2
    <3> QED
      BY <1>7, <1>8, <2>1, <2>2, <3>1
  <2>3. CASE t # s
    <3>1. Gathered(slots[t], q, t)
      BY <1>12, <2>1, <2>3 DEF PromotedInv
    <3> QED
      BY <1>3, <1>7, <1>8, <2>1, <2>3, <3>1, GatheredOther
  <2> QED
    BY <2>2, <2>3
<1>13. ASSUME NEW t \in Slot
       PROVE  slots'[t].open \/ t <= slot_finalized' \/ t <= slot_dropped' \/ Absent(stream', t)
  <2>1. CASE t = s
    BY <1>9, <1>10, <2>1
  <2>2. CASE t # s
    <3>1. slots[t].open \/ t <= slot_finalized \/ t <= slot_dropped \/ Absent(q, t)
      BY DEF PromotedInv, SlotDone
    <3>2. slots[t].open => slots'[t].open \/ t <= slot_finalized' \/ t <= slot_dropped'
      BY <1>9, <2>2
    <3>3. Absent(q, t) => Absent(stream', t)
      BY <1>3, <1>7, <1>8, <2>2, AbsentOther
    <3>4. /\ slot_finalized' \in Nat /\ slot_dropped' \in Nat
          /\ slot_finalized <= slot_finalized' /\ slot_dropped <= slot_dropped'
      BY BoundsGrow
    <3>5. t \in Nat
      BY ConstantsAssumption
    <3> QED
      BY <1>4, <3>1, <3>2, <3>3, <3>4, <3>5
  <2> QED
    BY <2>1, <2>2
<1>14. ASSUME StatusesAgree, NEW t \in Slot PROVE FinalOf(stream', t)
  <2>1. CASE t = s
    BY <1>7, <1>8, <1>14, <2>1, GatheredFinal
  <2>2. CASE t # s
    <3>1. FinalOf(q, t)
      BY <1>14 DEF PromotedInv
    <3> QED
      BY <1>3, <1>7, <1>8, <2>2, <3>1, FinalOther
  <2> QED
    BY <2>1, <2>2
<1>15. \A t \in Slot : SlotDone(t)'
  BY <1>13 DEF SlotDone, Absent
<1>16. \A t \in Slot : slots'[t].open => Gathered(slots[t], stream, t)'
  BY <1>12, GatheredPrime
<1>17. StatusesAgree' => \A t \in Slot : FinalOf(stream, t)'
  BY <1>14, AgreePrime DEF FinalOf
<1> QED
  BY <1>11, <1>15, <1>16, <1>17 DEF PromotedInv

\* A step that leaves the streams and the slots alone.
LEMMA QuietGathers ==
    ASSUME PromotedInv,
           UNCHANGED <<setup, slots, replay, slot_finalized, slot_dropped, stream>>
    PROVE  PromotedInv'
<1>1. \A s \in Slot : slots'[s].open => Gathered(slots[s], stream, s)'
  BY GatheredPrime DEF PromotedInv
<1>2. \A s \in Slot : SlotDone(s)'
  BY DEF PromotedInv, SlotDone, Absent
<1>3. StatusesAgree' => \A s \in Slot : FinalOf(stream, s)'
  BY AgreePrime DEF PromotedInv, FinalOf
<1>4. \A s \in Slot : replay'[s].open => ~replay'[s].tracked
  BY DEF PromotedInv
<1> QED
  BY <1>1, <1>2, <1>3, <1>4 DEF PromotedInv

\* Nothing is published, nothing is known.
NothingYet ==
    /\ slots = [s \in Slot |-> NoInfo] /\ replay = [s \in Slot |-> NoReplay]
    /\ stream = [c \in Commitment |-> <<>>]

LEMMA EmptyGathers == NothingYet => PromotedInv
<1> SUFFICES ASSUME NothingYet PROVE PromotedInv
  OBVIOUS
<1>1. \A s \in Slot : ~slots[s].open /\ ~replay[s].open
  BY DEF NothingYet, NoInfo, NoReplay
<1>2. \A c \in Commitment : stream[c] = <<>>
  BY DEF NothingYet
<1>3. Len(<<>>) = 0 /\ Range(<<>>) = {}
  BY EmptyIsSeq, SeqLen
<1>4. \A s \in Slot : SlotDone(s)
  BY <1>2, <1>3 DEF SlotDone, Absent
<1>5. \A s \in Slot : FinalOf(stream, s)
  BY <1>2, <1>3, CommitmentNames DEF FinalOf
<1> QED
  BY <1>1, <1>4, <1>5 DEF PromotedInv

LEMMA PushGathers ==
    ASSUME SenderInv, PromotedInv, UNCHANGED setup,
           NEW src \in Source, NEW m \in setup.offer[src], Push(src, m)
    PROVE  PromotedInv'
<1> DEFINE s == m.slot
           d == IF dedup[s].open THEN dedup[s] ELSE NewDedup
           passed == IF DedupRequired THEN Passed(d, m) ELSE <<m>>
           dedup1 == IF DedupRequired THEN [dedup EXCEPT ![s] = DedupAfter(d, src, m)]
                     ELSE dedup
           x == Info0(s)
<1>1. setup \in Setups /\ DedupsOK(dedup)
  BY DEF SenderInv, ScalarsInv, DedupInv
<1>2. Offered(m, s) /\ s \in Slot
  BY <1>1, OfferedOK
<1>3. DedupOK(d, s)
  BY <1>2, OpenOrNot, NewDedupOK
<1>4. \/ UNCHANGED <<sender, journal, stream>>
      \/ UNCHANGED <<slots, replay, slot_finalized, slot_dropped, index,
                     replay_from, journal, stream>>
      \/ ~Ignored(src, m) /\ passed # <<>> /\ Publish(s, passed, dedup1)
  BY DEF Push
<1>5. CASE UNCHANGED <<slots, replay, slot_finalized, slot_dropped, stream>>
  BY <1>5, QuietGathers
<1>6. ASSUME ~Ignored(src, m), passed # <<>>, Publish(s, passed, dedup1)
      PROVE  PromotedInv'
  <2>1. s > slot_finalized /\ s > slot_dropped
    <3>1. ~(s <= slot_finalized) /\ ~(s <= slot_dropped)
      BY <1>6 DEF Ignored
    <3>2. s \in Nat /\ slot_finalized \in Nat /\ slot_dropped \in Nat
      BY <1>2, ConstantsAssumption DEF SenderInv, ScalarsInv
    <3> HIDE DEF s
    <3> QED
      BY <3>1, <3>2
  <2>2. m.kind # "update_parent" => m.bank \notin x.cleared
    <3>1. CASE slots[s].open
      <4>1. x = slots[s]
        BY <3>1 DEF Info0
      <4>2. x.cleared \subseteq Bank
        BY <1>2, <3>1, <4>1, OpenOrNot DEF InfoOK
      <4>3. NoBank \notin x.cleared
        BY <4>2, NoChoiceIsNoBank
      <4> QED
        BY <1>6, <3>1, <4>1, <4>3 DEF Ignored
    <3>2. CASE ~slots[s].open
      BY <3>2 DEF Info0, NewInfo
    <3> QED
      BY <3>1, <3>2
  <2>3. MessagesOf(passed, s) /\ Together(passed, x, s)
    <3> HIDE DEF d, x
    <3>1. CASE DedupRequired
      BY <1>1, <1>2, <1>3, <1>6, <2>2, <3>1, PassedOK, PassedFit
    <3>2. CASE ~DedupRequired
      <4>1. MsgOK(m) /\ m \in Message
        BY <1>2 DEF Offered
      <4>2. MessagesOf(<<m>>, s)
        BY <1>2, <4>1, OneMessage
      <4>3. Fitting(m, x, s)
        BY <2>2, <4>1 DEF Fitting, Bankless
      <4> QED
        BY <3>2, <4>2, <4>3 DEF Together
    <3> QED
      BY <3>1, <3>2
  <2> HIDE DEF s, d, passed, dedup1
  <2> QED
    BY <1>2, <1>6, <2>1, <2>3, PublishGathers DEF x
<1> QED
  BY <1>4, <1>5, <1>6 DEF sender

LEMMA StepGathers ==
    ASSUME SenderInv, PromotionIInv, [Next]_vars
    PROVE  PromotionIInv'
<1>1. CASE UNCHANGED vars
  <2>1. PromotedInv => PromotedInv'
    BY <1>1, QuietGathers DEF vars, sender
  <2> QED
    BY <1>1, <2>1 DEF PromotionIInv, vars
<1>2. CASE Next
  <2>1. UNCHANGED setup
    BY <1>2 DEF Next
  <2>2. ASSUME NEW src \in Source, NEW m \in setup.offer[src], Push(src, m)
        PROVE  PromotionIInv'
    <3>1. crashes' = crashes
      BY <2>2 DEF Push
    <3> QED
      BY <2>1, <2>2, <3>1, PushGathers DEF PromotionIInv
  <2>3. ASSUME NEW src \in Source, Reconnect(src) PROVE PromotionIInv'
    <3>1. UNCHANGED <<setup, slots, replay, slot_finalized, slot_dropped, stream, crashes>>
      BY <2>1, <2>3 DEF Reconnect, sender
    <3> QED
      BY <3>1, QuietGathers DEF PromotionIInv
  <2>4. ASSUME BeginLiveEpoch PROVE PromotionIInv'
    <3>1. NothingYet'
      BY <2>4 DEF BeginLiveEpoch, NothingYet
    <3>2. PromotedInv'
      BY <3>1, EmptyGathers, PTL
    <3> QED
      BY <3>2 DEF PromotionIInv
  <2>5. ASSUME Crash PROVE PromotionIInv'
    <3>1. crashes' = crashes + 1 /\ crashes \in Nat
      BY <2>5 DEF Crash, SenderInv, ScalarsInv
    <3>2. crashes' # 0
      BY <3>1
    <3> QED
      BY <3>2 DEF PromotionIInv
  <2> QED
    BY <1>2, <2>2, <2>3, <2>4, <2>5 DEF Next
<1> QED
  BY <1>1, <1>2

LEMMA ConfirmedFollows ==
    ASSUME SenderInv, PromotedInv
    PROVE  ConfirmedComplete
<1>1. \A c \in Commitment : DOMAIN stream[c] = 1 .. Len(stream[c])
  BY SeqLen DEF SenderInv, StreamInv, StreamsOK, Messages
<1> SUFFICES ASSUME NEW s \in Slot, slots[s].open, slots[s].confirmed_bank # NoChoice
             PROVE  LET bank == slots[s].confirmed_bank
                        behind(i) == \E j \in 1 .. i - 1 :
                                        stream[Processed][j].kind = "block"
                                        /\ stream[Processed][j].slot = s
                                        /\ stream[Processed][j].bank = bank
                    IN  /\ \A m \in DataOf(Confirmed, s) : m.bank = bank
                        /\ \A i \in DOMAIN stream[Processed] :
                             LET m == stream[Processed][i]
                             IN  (m.slot = s /\ m.bank = bank /\ IsData(m)) =>
                                     \/ m \in DataOf(Confirmed, s)
                                     \/ m.kind = "account" /\ \E o \in DataOf(Confirmed, s) :
                                           o.kind = "account" /\ o.key = m.key
                                           /\ o.version >= m.version
                                     \/ m.kind # "footer" /\ behind(i)
  BY DEF ConfirmedComplete
<1> DEFINE bank == slots[s].confirmed_bank
           p == stream[Processed]
           D == DataIn(stream[Confirmed], s)
<1>2. DataOf(Confirmed, s) = D
  BY DEF DataOf, DataIn
<1>3. Gathered(slots[s], stream, s)
  BY DEF PromotedInv
<1>4. \A m \in D : m.bank = bank
  BY <1>3 DEF Gathered, OneCandidate
<1>5. Covered(p, s, bank, D)
  BY <1>3 DEF Gathered, ChosenOut
<1>6. DOMAIN p = 1 .. Len(p)
  BY <1>1, CommitmentNames
<1> HIDE DEF bank, p, D
<1>7. ASSUME NEW i \in DOMAIN p, p[i].slot = s, p[i].bank = bank, IsData(p[i])
      PROVE  \/ p[i] \in D
             \/ p[i].kind = "account" /\ \E o \in D :
                   o.kind = "account" /\ o.key = p[i].key /\ o.version >= p[i].version
             \/ p[i].kind # "footer"
                /\ \E j \in 1 .. i - 1 : p[j].kind = "block" /\ p[j].slot = s /\ p[j].bank = bank
  <2>1. \/ Held(D, p[i])
        \/ p[i].kind # "footer" /\ \E j \in 1 .. i - 1 : IsBlock(p[j], s, bank)
    BY <1>5, <1>6, <1>7 DEF Covered
  <2> QED
    BY <2>1 DEF Held, IsBlock
<1> QED
  BY <1>2, <1>4, <1>7 DEF bank, p

LEMMA FinalizedFollows ==
    ASSUME SenderInv, PromotedInv, StatusesAgree
    PROVE  FinalizedWasConfirmed
<1> SUFFICES ASSUME NEW s \in Slot,
                    NEW i \in StatusAt(Finalized, s, Confirmed),
                    NEW j \in StatusAt(Finalized, s, Finalized), i < j
             PROVE  DataOf(Finalized, s) \subseteq DataOf(Confirmed, s)
  BY DEF FinalizedWasConfirmed
<1>1. DOMAIN stream[Finalized] = 1 .. Len(stream[Finalized])
  BY CommitmentNames, SeqLen DEF SenderInv, StreamInv, StreamsOK, Messages
<1>2. /\ i \in 1 .. Len(stream[Finalized]) /\ IsStatus(stream[Finalized][i], s, Confirmed)
      /\ j \in 1 .. Len(stream[Finalized]) /\ IsStatus(stream[Finalized][j], s, Finalized)
  BY <1>1 DEF StatusAt, IsStatus
<1>3. FinalOf(stream, s)
  BY DEF PromotedInv
<1>4. DataIn(stream[Finalized], s) \subseteq DataIn(stream[Confirmed], s)
  BY <1>2, <1>3 DEF FinalOf
<1> QED
  BY <1>4 DEF DataOf, DataIn

LEMMA PromotionKept == Spec => [](SenderInv /\ PromotionIInv)
<1>1. Init => SenderInv /\ PromotionIInv
  <2>1. Init => NothingYet
    BY DEF Init, NothingYet
  <2> QED
    BY <2>1, InitKeeps, EmptyGathers DEF PromotionIInv
<1>2. SenderInv /\ PromotionIInv /\ [Next]_vars => (SenderInv /\ PromotionIInv)'
  BY StepKeeps, StepGathers
<1> QED
  BY <1>1, <1>2, PTL DEF Spec

\* While the process has not restarted, the confirmed stream of a confirmed slot is the data
\* of one candidate, and all of it: what the bank kept when the status arrived
\* (SlotInfo::commit, BankInfo.accounts_dedup) and what comes late, for whatever the sources
\* send, in whatever order.
THEOREM ConfirmedPromotion == Spec => [](crashes = 0 => ConfirmedComplete)
<1>1. SenderInv /\ PromotionIInv => (crashes = 0 => ConfirmedComplete)
  BY ConfirmedFollows DEF PromotionIInv
<1> QED
  BY <1>1, PromotionKept, PTL

\* And where the statuses of the sources agree about the bank of a slot, the finalized stream
\* carries the candidate that was confirmed (SlotInfo::select_bank).
THEOREM Promotion == Spec => [](crashes = 0 /\ StatusesAgree => PromotionInv)
<1>1. SenderInv /\ PromotionIInv => (crashes = 0 /\ StatusesAgree => PromotionInv)
  BY ConfirmedFollows, FinalizedFollows DEF PromotionIInv, PromotionInv
<1> QED
  BY <1>1, PromotionKept, PTL
=============================================================================
