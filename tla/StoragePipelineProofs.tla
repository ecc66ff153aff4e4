----------------------- MODULE StoragePipelineProofs -----------------------
(***************************************************************************)
(* Proofs about StoragePipeline, for any number of slots, compressor       *)
(* threads, crashes and records: files and catalog agree (FilesInv), and   *)
(* the pipeline implements DurableLog.                                     *)
(*                                                                         *)
(* StorageInv has a part for each place where a command can be: the        *)
(* journal of the sender (JournalOK, SenderOK), the items that the         *)
(* collector cut from it and that wait for the writer in any order         *)
(* (PipeAt), the catalog of the durable commands (CatalogOK) and the files *)
(* (DiskOK).  EntryInv adds what connects the rows of the catalog with the *)
(* records that entered their slots.                                       *)
(***************************************************************************)
EXTENDS StoragePipeline, RingLemmas

-----------------------------------------------------------------------------
(* The inductive invariant *)

PushCommand == [op : {"push"}, c : {Confirmed, Processed}, slot : Slot, final : BOOLEAN,
                index : Nat, init : BOOLEAN]
TrimCommand == [op : {"trim"}, slot : Slot, until : Nat]
Command == PushCommand \cup TrimCommand

\* A journal l that the sender can have sent before it gives the index n.
JournalOK(l, n) ==
    /\ l \in Seq(Command)
    /\ \A i \in 1 .. Len(l) : IsPush(l[i]) => l[i].index < n
    /\ \A i, j \in 1 .. Len(l) : i < j /\ IsPush(l[i]) /\ IsPush(l[j]) => l[i].index < l[j].index
    /\ Len(l) > 0 => EndsEvent(l[Len(l)])
    /\ \A i \in 1 .. Len(l) : ~IsPush(l[i]) =>
          /\ i > 1 /\ EndsEvent(l[i - 1])
          /\ \E j \in 1 .. i - 1 : IsPush(l[j]) /\ l[j].index >= l[i].until

\* The sender's maps point below the next index, and to the journal.
SenderOK(l, n, rep, heads) ==
    /\ n \in Nat
    /\ rep \in [Slot -> Nat \cup {None}] /\ heads \in [Slot -> Nat \cup {None}]
    /\ \A s \in Slot : heads[s] # None => heads[s] < n
    /\ \A s \in Slot : rep[s] # None =>
          rep[s] < n /\ \E j \in 1 .. Len(l) : IsPush(l[j]) /\ l[j].index >= rep[s]

\* Where the collector is in the journal.
CollectorOK(l, d, f, t) ==
    /\ d \in Nat /\ f \in Nat /\ t \in Nat /\ d <= f /\ f <= t /\ t <= Len(l)
    /\ d > 0 => EndsEvent(l[d])
    /\ \A i \in f + 1 .. t : IsPush(l[i])

\* The commands from + 1 .. upto of the journal can be one item.
Fits(l, from, upto) ==
    \/ upto = from + 1 /\ ~IsPush(l[upto])
    \/ (\A i \in from + 1 .. upto : IsPush(l[i])) /\ EndsEvent(l[upto])

\* The item of these commands.
ItemOf(l, seq, from, upto) ==
    IF IsPush(l[upto])
    THEN [kind |-> "chunk", seq |-> seq, upto |-> upto,
          first |-> l[from + 1].index, last |-> l[upto].index,
          pending_slots |-> {[slot |-> l[i].slot, head |-> l[i].index] :
                                i \in {j \in from + 1 .. upto : l[j].init}},
          finalized |-> {l[i].slot : i \in {j \in from + 1 .. upto : l[j].final}}]
    ELSE [kind |-> "trim", seq |-> seq, upto |-> upto, slot |-> l[upto].slot,
          until |-> l[upto].until]

ChunkItem == [kind : {"chunk"}, seq : Nat, upto : Nat, first : Nat, last : Nat,
              pending_slots : SUBSET [slot : Slot, head : Nat], finalized : SUBSET Slot]
RemovalItem == [kind : {"trim"}, seq : Nat, upto : Nat, slot : Slot, until : Nat]
Item == ChunkItem \cup RemovalItem

\* The items between collector and writer are cut from the journal at cut[w] = d, ...,
\* cut[c] = f, each of them is in one place, and those of the queue are the last ones.
PipeAt(cut, l, d, f, w, c, queue, hand, done) ==
    /\ w \in Nat /\ c \in Nat /\ w <= c /\ cut[w] = d /\ cut[c] = f
    /\ \A k \in w .. c : cut[k] \in Nat
    /\ \A j, k \in w .. c : j < k => cut[j] < cut[k]
    /\ \A k \in w .. c - 1 : Fits(l, cut[k], cut[k + 1])
    /\ queue \in Seq(Item) /\ Len(queue) <= c - w /\ hand \cup done \subseteq Item
    /\ \A i \in 1 .. Len(queue) :
          LET k == c - Len(queue) + i - 1 IN queue[i] = ItemOf(l, k, cut[k], cut[k + 1])
    /\ \A x \in hand \cup done :
          /\ x.seq \in w .. c - Len(queue) - 1
          /\ x = ItemOf(l, x.seq, cut[x.seq], cut[x.seq + 1])
    /\ hand \cap done = {}

\* What the writer has to write or writes.
Done == IF phase = "written" THEN compressed \cup {item} ELSE compressed

Written == phase = "written" => item.seq = writer_seq /\ item.kind = "chunk" /\ item \notin compressed

SegmentRow == [sealed : BOOLEAN, last : Nat, len : Nat, count : Nat]
ChunkRow == [segment : Nat, offset : Nat, size : Nat, first : Nat, last : Nat]
SlotRow == [open : {TRUE}, segment : Nat, finalized : BOOLEAN, head : Nat] \cup {NoRow}

\* The catalog by itself.
CatalogType(m) ==
    /\ m \in [slots : [Slot -> SlotRow], segments : UNION {[D -> SegmentRow] : D \in SUBSET Nat},
              chunks : SUBSET ChunkRow, next_id : Nat, active : Nat, floor : Nat]

SegmentsOK(m) ==
    /\ m.active < m.next_id
    /\ m.active \in DOMAIN m.segments \cup {0}
    /\ \A id \in DOMAIN m.segments :
          id > 0 /\ id <= m.active /\ (m.segments[id].sealed <=> id # m.active)
    /\ \A a, b \in DOMAIN m.segments :
          a < b /\ m.segments[a].count > 0 /\ m.segments[b].count > 0 =>
              m.segments[a].last <= m.segments[b].last

ChunkOK(m, l, d, c) ==
    /\ c.segment \in DOMAIN m.segments
    /\ m.segments[c.segment].count > 0
    /\ c.offset + c.size <= m.segments[c.segment].len
    /\ c.size = c.last - c.first + 1
    /\ c.last <= m.segments[c.segment].last
    /\ \E j \in 1 .. d : IsPush(l[j]) /\ l[j].index = c.last

RowOK(m, l, d, r) ==
    /\ r.segment \in DOMAIN m.segments
    /\ m.segments[r.segment].count > 0
    /\ r.head <= m.segments[r.segment].last
    /\ \E j \in 1 .. d : IsPush(l[j]) /\ l[j].index = r.head
    /\ \A j \in 1 .. d : IsPush(l[j]) /\ l[j].index >= r.head =>
          \E c \in m.chunks : c.segment >= r.segment /\ l[j].index \in c.first .. c.last

\* The catalog m of the first d commands of the journal.
CatalogOK(m, l, d) ==
    /\ CatalogType(m)
    /\ SegmentsOK(m)
    /\ \A id \in DOMAIN m.segments : m.segments[id].count > 0 =>
          \E j \in 1 .. d : IsPush(l[j]) /\ m.segments[id].last <= l[j].index
    /\ \A c \in m.chunks : ChunkOK(m, l, d, c)
    /\ \A j \in 1 .. d : IsPush(l[j]) => \E c \in m.chunks : l[j].index <= c.last
    /\ \A s \in Slot : m.slots[s].open => RowOK(m, l, d, m.slots[s])

\* The records first .. last are in the file, behind the offset.
Holds(content, offset, first, last) ==
    /\ offset + last - first + 1 <= Len(content)
    /\ \A i \in 1 .. last - first + 1 : content[offset + i] = first + i - 1

\* The files that the writer deletes.
Deleted == [kind : {"deleted"}, ids : SUBSET Nat]

\* The files and the catalog, while the writer is in phase p with x in hand.
DiskOK(fs, m, p, x) ==
    /\ fs \in UNION {[D -> Seq(Nat)] : D \in SUBSET Nat}
    /\ DOMAIN m.segments \subseteq DOMAIN fs
    /\ \A id \in DOMAIN m.segments : m.segments[id].len <= Len(fs[id])
    /\ \A id \in DOMAIN fs : id < m.next_id \/ (id = m.next_id /\ p \in {"created", "open"})
    /\ p = "created" => m.next_id \in DOMAIN fs /\ fs[m.next_id] = <<>>
    /\ p \in {"ready", "written", "deleting"} => m.active # 0
    /\ p = "written" => Holds(fs[m.active], m.segments[m.active].len, x.first, x.last)
    /\ p = "deleting" => x \in Deleted /\ x.ids \cap DOMAIN m.segments = {}
    /\ \A c \in m.chunks : Holds(fs[c.segment], c.offset, c.first, c.last)

Journaled == JournalOK(log, index) /\ SenderOK(log, index, replay, slots)
Pipe(cut) == PipeAt(cut, log, durable, flushed, writer_seq, collector_seq, raw, busy, Done)
Phases == phase \in {"open", "ready", "rotate", "created", "written", "deleting"}
Pool == IsFiniteSet(busy) /\ Cardinality(busy) <= Threads

StorageInv ==
    /\ Journaled
    /\ slot_finalized \in Slot \cup {0}
    /\ CollectorOK(log, durable, flushed, taken)
    /\ \E cut : Pipe(cut)
    /\ Written /\ Phases /\ Pool /\ ~failed
    /\ CatalogOK(meta, log, durable)
    /\ DiskOK(files, meta, phase, item)
    /\ meta.floor <= index

-----------------------------------------------------------------------------
(* Operators *)

\* A set of naturals below a bound has a greatest element, which is its Max.
LEMMA MaxOfBounded ==
    ASSUME NEW S \in SUBSET Nat, S # {}, NEW b \in Nat, \A x \in S : x <= b
    PROVE  Max(S) \in S /\ \A x \in S : x <= Max(S)
<1> DEFINE C == {b - x : x \in S}
<1>1. C \in SUBSET Nat /\ C # {}
  <2>1. ASSUME NEW x \in S PROVE b - x \in Nat
    <3>1. x \in Nat /\ x <= b
      OBVIOUS
    <3> QED
      BY <3>1
  <2>2. PICK x \in S : TRUE
    OBVIOUS
  <2>3. b - x \in C
    OBVIOUS
  <2> QED
    BY <2>1, <2>3
<1>2. PICK m \in C : \A y \in C : m <= y
  BY <1>1, LeastNat
<1>3. PICK x \in S : m = b - x
  BY <1>2
<1>4. ASSUME NEW y \in S PROVE y <= x
  <2>1. b - y \in C
    OBVIOUS
  <2>2. b - x <= b - y
    BY <1>2, <1>3, <2>1
  <2> QED
    BY <2>2
<1> QED
  BY <1>4 DEF Max

\* A finite set of naturals has a greatest element, which is its Max.
LEMMA MaxOfFinite ==
    ASSUME NEW S \in SUBSET Nat, S # {}, IsFiniteSet(S)
    PROVE  Max(S) \in S /\ \A x \in S : x <= Max(S)
  BY GreatestNat DEF Max

\* The elements of a concatenation.
LEMMA Joined ==
    ASSUME NEW S, NEW a \in Seq(S), NEW b \in Seq(S)
    PROVE  /\ a \o b \in Seq(S) /\ Len(a \o b) = Len(a) + Len(b)
           /\ \A i \in 1 .. Len(a) : (a \o b)[i] = a[i]
           /\ \A i \in 1 .. Len(b) : (a \o b)[Len(a) + i] = b[i]
<1>1. a \o b \in Seq(S) /\ Len(a \o b) = Len(a) + Len(b) /\ Len(a) \in Nat /\ Len(b) \in Nat
  OBVIOUS
<1>2. ASSUME NEW i \in 1 .. Len(a) PROVE (a \o b)[i] = a[i]
  BY <1>1
<1>3. ASSUME NEW i \in 1 .. Len(b) PROVE (a \o b)[Len(a) + i] = b[i]
  BY <1>1
<1> QED
  BY <1>1, <1>2, <1>3

\* The first d commands of a journal are a journal when they end with a source event.
LEMMA JournalPrefix ==
    ASSUME NEW l, NEW n, JournalOK(l, n), NEW d \in 0 .. Len(l), d > 0 => EndsEvent(l[d]),
           NEW m, \A i \in 1 .. d : IsPush(l[i]) => l[i].index < m
    PROVE  JournalOK(SubSeq(l, 1, d), m)
<1> DEFINE p == SubSeq(l, 1, d)
<1>1. l \in Seq(Command)
  BY DEF JournalOK
<1>2. /\ p \in Seq(Command) /\ Len(p) = d
      /\ \A i \in 1 .. d : p[i] = l[i]
  BY <1>1
<1> HIDE DEF p
<1>3. \A i, j \in 1 .. d : i < j /\ IsPush(p[i]) /\ IsPush(p[j]) => p[i].index < p[j].index
  BY <1>1, <1>2 DEF JournalOK
<1>4. ASSUME NEW i \in 1 .. d, ~IsPush(p[i])
      PROVE  /\ i > 1 /\ EndsEvent(p[i - 1])
             /\ \E j \in 1 .. i - 1 : IsPush(p[j]) /\ p[j].index >= p[i].until
  <2>1. /\ i > 1 /\ EndsEvent(l[i - 1])
        /\ \E j \in 1 .. i - 1 : IsPush(l[j]) /\ l[j].index >= l[i].until
    BY <1>1, <1>2, <1>4 DEF JournalOK
  <2>2. i - 1 \in 1 .. d /\ \A j \in 1 .. i - 1 : j \in 1 .. d
    BY <2>1
  <2> QED
    BY <1>2, <2>1, <2>2
<1>5. d > 0 => EndsEvent(p[d])
  BY <1>2
<1>6. JournalOK(p, m)
  BY <1>2, <1>3, <1>4, <1>5 DEF JournalOK
<1> QED
  BY <1>6 DEF p

-----------------------------------------------------------------------------
(* Publish *)

\* What is still needed when the first i slots of order are gone.
Left(rep, order, i) == OpenSlots(rep) \ {order[j] : j \in 1 .. i}

\* Journal l2 is l with the records of an event and the trims of the slots of order.
Sent(l, l2, n, s, h, final, head, rep, order) ==
    /\ order \in Seq(Slot)
    /\ l2 \in Seq(Command)
    /\ Len(l2) = Len(l) + h + 1 + Len(order)
    /\ \A i \in 1 .. Len(l) : l2[i] = l[i]
    /\ \A i \in 1 .. h + 1 :
          /\ IsPush(l2[Len(l) + i])
          /\ l2[Len(l) + i].c = (IF i <= h THEN Confirmed ELSE Processed)
          /\ l2[Len(l) + i].slot = s
          /\ l2[Len(l) + i].final = (final /\ i = h + 1)
          /\ l2[Len(l) + i].index = n + i - 1
          /\ l2[Len(l) + i].init = (n + i - 1 = head)
    /\ \A i \in 1 .. Len(order) :
          /\ ~IsPush(l2[Len(l) + h + 1 + i])
          /\ l2[Len(l) + h + 1 + i].slot = order[i]
          /\ l2[Len(l) + h + 1 + i].until = Min({rep[t] : t \in Left(rep, order, i)})

\* The slots that leave are open ones, and the newest open slot never leaves, so a
\* trim keeps the head of an open slot, the oldest one.
LEMMA Retained ==
    ASSUME NEW rep \in [Slot -> Nat \cup {None}], OpenSlots(rep) # {},
           NEW order \in OldestFirst(OutsideWindow(OpenSlots(rep), MaxSlots))
    PROVE  /\ order \in Seq(OutsideWindow(OpenSlots(rep), MaxSlots)) /\ order \in Seq(Slot)
           /\ \A i \in 1 .. Len(order) :
                 /\ \E t \in Left(rep, order, i) :
                       Min({rep[u] : u \in Left(rep, order, i)}) = rep[t]
                 /\ \A t \in Left(rep, order, i) :
                       Min({rep[u] : u \in Left(rep, order, i)}) <= rep[t]
                 /\ Min({rep[u] : u \in Left(rep, order, i)}) \in Nat
<1> DEFINE O == OpenSlots(rep)
           W == OutsideWindow(O, MaxSlots)
<1>1. O \in SUBSET Nat /\ O \in SUBSET Slot /\ IsFiniteSet(O)
  BY StorageAssumption, FS_Subset DEF OpenSlots
<1>2. Max(O) \in O /\ \A x \in O : x <= Max(O)
  BY <1>1, MaxOfFinite
<1>3. W \subseteq O /\ Max(O) \notin W
  <2>1. Max(O) \in Nat /\ MaxSlots \in Nat /\ MaxSlots >= 1
    BY <1>1, <1>2, StorageAssumption
  <2>2. ~(Max(O) < Max(O) - MaxSlots + 1)
    BY <2>1
  <2> QED
    BY <2>2 DEF OutsideWindow
<1>4. IsFiniteSet(W)
  BY <1>1, <1>3, FS_Subset
<1>5. Cardinality(W) \in Nat
  BY <1>4, FS_CardinalityType
<1>6. order \in [1 .. Cardinality(W) -> W]
  BY DEF OldestFirst
<1>7. order \in Seq(W) /\ Len(order) = Cardinality(W)
  <2> DEFINE K == Cardinality(W)
  <2>1. K \in Nat /\ order \in [1 .. K -> W]
    BY <1>5, <1>6
  <2> HIDE DEF K
  <2>2. order \in Seq(W) /\ Len(order) = K
    BY <2>1
  <2> QED
    BY <2>2 DEF K
<1>8. order \in Seq(Slot)
  <2>1. W \subseteq Slot
    BY <1>1, <1>3
  <2> HIDE DEF W
  <2> QED
    BY <2>1, <1>7
<1>9. ASSUME NEW i \in 1 .. Len(order)
      PROVE  /\ \E t \in Left(rep, order, i) :
                    Min({rep[u] : u \in Left(rep, order, i)}) = rep[t]
             /\ \A t \in Left(rep, order, i) :
                    Min({rep[u] : u \in Left(rep, order, i)}) <= rep[t]
             /\ Min({rep[u] : u \in Left(rep, order, i)}) \in Nat
  <2> DEFINE U == {rep[u] : u \in Left(rep, order, i)}
  <2>1. \A j \in 1 .. i : order[j] \in W
    <3> HIDE DEF W
    <3> QED
      BY <1>7
  <2>2. Max(O) \in Left(rep, order, i)
    BY <1>2, <1>3, <2>1 DEF Left
  <2>3. \A u \in Left(rep, order, i) : rep[u] \in Nat
    BY DEF Left, OpenSlots
  <2>4. U \in SUBSET Nat /\ U # {}
    BY <2>2, <2>3
  <2>5. Min(U) \in U /\ \A x \in U : Min(U) <= x
    BY <2>4, MinOfNats
  <2> QED
    BY <2>4, <2>5
<1> QED
  BY <1>7, <1>8, <1>9

\* The sender's maps while it publishes an event of slot s.
Rep(s) == IF replay[s] = None THEN [replay EXCEPT ![s] = index] ELSE replay
HeadOf(s) == IF slots[s] = None THEN Rep(s)[s] ELSE slots[s]

\* The replay map of a publication is one, and has the slot.
LEMMA RepType ==
    ASSUME SenderOK(log, index, replay, slots), NEW s \in Slot
    PROVE  /\ Rep(s) \in [Slot -> Nat \cup {None}] /\ s \in OpenSlots(Rep(s))
           /\ index \in Nat /\ HeadOf(s) \in Nat /\ Rep(s)[s] \in Nat /\ HeadOf(s) <= index
<1>1. /\ index \in Nat /\ replay \in [Slot -> Nat \cup {None}] /\ slots \in [Slot -> Nat \cup {None}]
      /\ (slots[s] # None => slots[s] < index) /\ (replay[s] # None => replay[s] < index)
  BY DEF SenderOK
<1>2. Rep(s) \in [Slot -> Nat \cup {None}] /\ Rep(s)[s] \in Nat /\ Rep(s)[s] <= index
  BY <1>1 DEF Rep, None
<1> HIDE DEF Rep
<1>3. HeadOf(s) \in Nat /\ HeadOf(s) <= index
  BY <1>1, <1>2 DEF HeadOf, None
<1> QED
  BY <1>1, <1>2, <1>3 DEF OpenSlots, None

\* A publication appends records and trims to the journal.
LEMMA PublishSent ==
    ASSUME Journaled, NEW s \in Slot, NEW h \in Higher, NEW final \in BOOLEAN,
           Publish(s, h, final)
    PROVE  \E order \in OldestFirst(OutsideWindow(OpenSlots(Rep(s)), MaxSlots)) :
              Sent(log, log', index, s, h, final, HeadOf(s), Rep(s), order)
<1>1. PICK order \in OldestFirst(OutsideWindow(OpenSlots(Rep(s)), MaxSlots)) :
         log' = log \o Records(s, h, final, HeadOf(s)) \o Trims(Rep(s), order)
  BY DEF Publish, Rep, HeadOf
<1> DEFINE R == Records(s, h, final, HeadOf(s))
           T == Trims(Rep(s), order)
<1>2. h \in Nat /\ index \in Nat /\ log \in Seq(Command)
  BY StorageAssumption DEF Journaled, JournalOK, SenderOK
<1>3. /\ Rep(s) \in [Slot -> Nat \cup {None}] /\ OpenSlots(Rep(s)) # {}
      /\ HeadOf(s) \in Nat
  BY RepType DEF Journaled
<1>4. /\ order \in Seq(Slot)
      /\ \A i \in 1 .. Len(order) : Min({Rep(s)[u] : u \in Left(Rep(s), order, i)}) \in Nat
  BY <1>3, Retained
<1>5. /\ R \in Seq(PushCommand) /\ Len(R) = h + 1
      /\ \A i \in 1 .. h + 1 :
            R[i] = [op |-> "push", c |-> IF i <= h THEN Confirmed ELSE Processed, slot |-> s,
                    final |-> final /\ i = h + 1, index |-> index + i - 1,
                    init |-> index + i - 1 = HeadOf(s)]
  <2>1. ASSUME NEW i \in 1 .. h + 1
        PROVE  [op |-> "push", c |-> IF i <= h THEN Confirmed ELSE Processed, slot |-> s,
                final |-> final /\ i = h + 1, index |-> index + i - 1,
                init |-> index + i - 1 = HeadOf(s)] \in PushCommand
    <3>1. index + i - 1 \in Nat
      BY <1>2
    <3> QED
      BY <3>1 DEF PushCommand
  <2>2. /\ R \in [1 .. h + 1 -> PushCommand]
        /\ \A i \in 1 .. h + 1 :
            R[i] = [op |-> "push", c |-> IF i <= h THEN Confirmed ELSE Processed, slot |-> s,
                    final |-> final /\ i = h + 1, index |-> index + i - 1,
                    init |-> index + i - 1 = HeadOf(s)]
    BY <2>1 DEF Records
  <2>3. R \in Seq(PushCommand) /\ Len(R) = h + 1
    <3> HIDE DEF R
    <3> QED
      BY <1>2, <2>2
  <2> QED
    BY <2>2, <2>3
<1>6. /\ T \in Seq(TrimCommand) /\ Len(T) = Len(order)
      /\ \A i \in 1 .. Len(order) :
            T[i] = [op |-> "trim", slot |-> order[i],
                    until |-> Min({Rep(s)[u] : u \in Left(Rep(s), order, i)})]
  <2>1. DOMAIN order = 1 .. Len(order) /\ Len(order) \in Nat /\ \A i \in 1 .. Len(order) : order[i] \in Slot
    BY <1>4
  <2>2. ASSUME NEW i \in 1 .. Len(order)
        PROVE  [op |-> "trim", slot |-> order[i],
                until |-> Min({Rep(s)[u] : u \in Left(Rep(s), order, i)})] \in TrimCommand
    BY <1>4, <2>1 DEF TrimCommand
  <2>3. T = [i \in 1 .. Len(order) |->
                [op |-> "trim", slot |-> order[i],
                 until |-> Min({Rep(s)[u] : u \in Left(Rep(s), order, i)})]]
    BY <2>1 DEF Trims, Left
  <2> HIDE DEF T
  <2>4. /\ T \in [1 .. Len(order) -> TrimCommand]
        /\ \A i \in 1 .. Len(order) :
            T[i] = [op |-> "trim", slot |-> order[i],
                    until |-> Min({Rep(s)[u] : u \in Left(Rep(s), order, i)})]
    BY <2>2, <2>3, Zenon
  <2>5. T \in Seq(TrimCommand) /\ Len(T) = Len(order)
    BY <2>1, <2>4
  <2> QED
    BY <2>4, <2>5
<1> HIDE DEF R, T
<1>7. R \in Seq(Command) /\ T \in Seq(Command)
  BY <1>5, <1>6 DEF Command
<1>8. log' = log \o R \o T
  BY <1>1 DEF R, T
<1>9. /\ log' \in Seq(Command)
      /\ Len(log') = Len(log) + h + 1 + Len(order)
      /\ \A i \in 1 .. Len(log) : log'[i] = log[i]
      /\ \A i \in 1 .. h + 1 : log'[Len(log) + i] = R[i]
      /\ \A i \in 1 .. Len(order) : log'[Len(log) + h + 1 + i] = T[i]
  <2> DEFINE X == log \o R
  <2>1. /\ X \in Seq(Command) /\ Len(X) = Len(log) + h + 1
        /\ \A i \in 1 .. Len(log) : X[i] = log[i]
        /\ \A i \in 1 .. h + 1 : X[Len(log) + i] = R[i]
    <3>1. /\ log \o R \in Seq(Command) /\ Len(log \o R) = Len(log) + Len(R)
          /\ \A i \in 1 .. Len(log) : (log \o R)[i] = log[i]
          /\ \A i \in 1 .. Len(R) : (log \o R)[Len(log) + i] = R[i]
      BY <1>2, <1>7, Joined
    <3> QED
      BY <1>2, <1>5, <3>1
  <2>2. log' = X \o T
    BY <1>8
  <2> HIDE DEF X
  <2>3. Len(log) \in Nat /\ Len(order) \in Nat
    BY <1>2, <1>4
  <2>4. /\ log' \in Seq(Command)
        /\ Len(log') = Len(X) + Len(order)
        /\ \A i \in 1 .. Len(X) : log'[i] = X[i]
        /\ \A i \in 1 .. Len(order) : log'[Len(X) + i] = T[i]
    <3>1. /\ X \o T \in Seq(Command) /\ Len(X \o T) = Len(X) + Len(T)
          /\ \A i \in 1 .. Len(X) : (X \o T)[i] = X[i]
          /\ \A i \in 1 .. Len(T) : (X \o T)[Len(X) + i] = T[i]
      <4>1. X \in Seq(Command) /\ T \in Seq(Command)
        BY <1>7, <2>1
      <4> QED
        BY <4>1, Joined
    <3> QED
      BY <1>6, <2>2, <3>1
  <2>5. /\ \A i \in 1 .. Len(log) : i \in 1 .. Len(X)
        /\ \A i \in 1 .. h + 1 : Len(log) + i \in 1 .. Len(X)
    BY <1>2, <2>1, <2>3
  <2>6. \A i \in 1 .. Len(order) : log'[Len(log) + h + 1 + i] = T[i]
    BY <2>1, <2>4, Zenon
  <2>7. Len(log') = Len(log) + h + 1 + Len(order)
    BY <2>1, <2>4, Zenon
  <2> QED
    BY <2>1, <2>4, <2>5, <2>6, <2>7, Zenon
<1>10. ASSUME NEW i \in 1 .. h + 1
       PROVE  /\ IsPush(log'[Len(log) + i])
              /\ log'[Len(log) + i].c = (IF i <= h THEN Confirmed ELSE Processed)
              /\ log'[Len(log) + i].slot = s
              /\ log'[Len(log) + i].final = (final /\ i = h + 1)
              /\ log'[Len(log) + i].index = index + i - 1
              /\ log'[Len(log) + i].init = (index + i - 1 = HeadOf(s))
  <2>1. log'[Len(log) + i] =
          [op |-> "push", c |-> IF i <= h THEN Confirmed ELSE Processed, slot |-> s,
           final |-> final /\ i = h + 1, index |-> index + i - 1,
           init |-> index + i - 1 = HeadOf(s)]
    BY <1>5, <1>9, Zenon
  <2> QED
    BY <2>1 DEF IsPush
<1>11. ASSUME NEW i \in 1 .. Len(order)
       PROVE  /\ ~IsPush(log'[Len(log) + h + 1 + i])
              /\ log'[Len(log) + h + 1 + i].slot = order[i]
              /\ log'[Len(log) + h + 1 + i].until
                    = Min({Rep(s)[t] : t \in Left(Rep(s), order, i)})
  <2>1. log'[Len(log) + h + 1 + i] =
          [op |-> "trim", slot |-> order[i],
           until |-> Min({Rep(s)[u] : u \in Left(Rep(s), order, i)})]
    BY <1>6, <1>9, Zenon
  <2> QED
    BY <2>1 DEF IsPush
<1>12. Sent(log, log', index, s, h, final, HeadOf(s), Rep(s), order)
  BY <1>4, <1>9, <1>10, <1>11 DEF Sent
<1> QED
  BY <1>12

\* What the trims of a publication keep is not beyond what was sent before them.
Covered(l, l2, rep, order) ==
    \A i \in 1 .. Len(order) : \E j \in 1 .. Len(l) + 1 :
        IsPush(l2[j]) /\ l2[j].index >= Min({rep[t] : t \in Left(rep, order, i)})

\* What a publication leaves is a journal again.
LEMMA SentJournal ==
    ASSUME NEW l, NEW l2, NEW n \in Nat, JournalOK(l, n), NEW s, NEW h \in Nat, NEW final,
           NEW head, NEW rep, NEW order, Sent(l, l2, n, s, h, final, head, rep, order),
           Covered(l, l2, rep, order)
    PROVE  /\ JournalOK(l2, n + h + 1)
           /\ IsPush(l2[Len(l) + 1]) /\ l2[Len(l) + 1].index = n
<1> DEFINE L == Len(l)
           K == Len(order)
           N == Len(l2)
<1>1. l \in Seq(Command) /\ L \in Nat /\ K \in Nat /\ l2 \in Seq(Command) /\ N = L + h + 1 + K
  BY DEF JournalOK, Sent
<1>2. \A i \in 1 .. L : l2[i] = l[i]
  BY DEF Sent
<1>3. \A i \in 1 .. h + 1 :
          /\ IsPush(l2[L + i]) /\ l2[L + i].c = (IF i <= h THEN Confirmed ELSE Processed)
          /\ l2[L + i].index = n + i - 1
  BY DEF Sent
<1>4. \A i \in 1 .. K :
          /\ ~IsPush(l2[L + h + 1 + i])
          /\ l2[L + h + 1 + i].until = Min({rep[t] : t \in Left(rep, order, i)})
  BY DEF Sent
<1>5. ASSUME NEW i \in 1 .. N
      PROVE  \/ i \in 1 .. L
             \/ i - L \in 1 .. h + 1 /\ L + (i - L) = i
             \/ i - (L + h + 1) \in 1 .. K /\ L + h + 1 + (i - (L + h + 1)) = i
  BY <1>1
<1>6. \A i \in 1 .. L : IsPush(l[i]) => l[i].index < n /\ l[i].index \in Nat
  <2>1. ASSUME NEW i \in 1 .. L, IsPush(l[i]) PROVE l[i].index \in Nat
    <3>1. l[i] \in Command
      BY <1>1
    <3> QED
      BY <2>1, <3>1 DEF Command, PushCommand, TrimCommand, IsPush
  <2> QED
    BY <2>1 DEF JournalOK
<1>7. ASSUME NEW i \in 1 .. N, IsPush(l2[i])
      PROVE  \/ i \in 1 .. L /\ IsPush(l[i]) /\ l2[i] = l[i]
             \/ i - L \in 1 .. h + 1 /\ l2[i].index = n + (i - L) - 1
  BY <1>2, <1>3, <1>4, <1>5, <1>7
<1>8. ASSUME NEW i \in 1 .. N, IsPush(l2[i]) PROVE l2[i].index < n + h + 1
  <2>1. CASE i \in 1 .. L /\ IsPush(l[i]) /\ l2[i] = l[i]
    BY <1>6, <2>1
  <2>2. CASE i - L \in 1 .. h + 1 /\ l2[i].index = n + (i - L) - 1
    BY <1>1, <2>2
  <2> QED
    BY <1>7, <1>8, <2>1, <2>2
<1>9. ASSUME NEW i \in 1 .. N, NEW j \in 1 .. N, i < j, IsPush(l2[i]), IsPush(l2[j])
      PROVE  l2[i].index < l2[j].index
  <2>1. CASE i \in 1 .. L /\ j \in 1 .. L
    BY <1>2, <1>9, <2>1 DEF JournalOK
  <2>2. CASE i \in 1 .. L /\ j \notin 1 .. L
    <3>1. l2[i] = l[i] /\ l[i].index < n /\ l[i].index \in Nat
      BY <1>2, <1>6, <1>9, <2>2
    <3>2. j - L \in 1 .. h + 1 /\ l2[j].index = n + (j - L) - 1
      BY <1>7, <1>9, <2>2
    <3> QED
      BY <1>1, <3>1, <3>2
  <2>3. CASE i \notin 1 .. L
    <3>1. i - L \in 1 .. h + 1 /\ l2[i].index = n + (i - L) - 1
      BY <1>7, <1>9, <2>3
    <3>2. j \notin 1 .. L
      BY <1>1, <1>9, <3>1
    <3>3. j - L \in 1 .. h + 1 /\ l2[j].index = n + (j - L) - 1
      BY <1>7, <1>9, <3>2
    <3> QED
      BY <1>1, <1>9, <3>1, <3>3
  <2> QED
    BY <2>1, <2>2, <2>3
<1>10. EndsEvent(l2[L + h + 1])
  <2>1. h + 1 \in 1 .. h + 1 /\ ~(h + 1 <= h) /\ L + (h + 1) = L + h + 1
    BY <1>1
  <2> QED
    BY <1>3, <2>1 DEF EndsEvent
<1>11. ASSUME NEW i \in 1 .. K PROVE EndsEvent(l2[L + h + 1 + i])
  BY <1>4 DEF EndsEvent
<1>12. EndsEvent(l2[N])
  <2>1. CASE K = 0
    BY <1>1, <1>10, <2>1
  <2>2. CASE K > 0
    BY <1>1, <1>11, <2>2
  <2> QED
    BY <1>1, <2>1, <2>2
<1>13. ASSUME NEW i \in 1 .. N, ~IsPush(l2[i])
       PROVE  /\ i > 1 /\ EndsEvent(l2[i - 1])
              /\ \E j \in 1 .. i - 1 : IsPush(l2[j]) /\ l2[j].index >= l2[i].until
  <2>1. CASE i \in 1 .. L
    <3>1. /\ i > 1 /\ EndsEvent(l[i - 1])
          /\ \E j \in 1 .. i - 1 : IsPush(l[j]) /\ l[j].index >= l[i].until
      BY <1>2, <1>13, <2>1 DEF JournalOK
    <3>2. i - 1 \in 1 .. L /\ \A j \in 1 .. i - 1 : j \in 1 .. L
      BY <1>1, <2>1, <3>1
    <3> QED
      BY <1>2, <2>1, <3>1, <3>2
  <2>2. CASE i \notin 1 .. L
    <3> DEFINE k == i - (L + h + 1)
    <3>1. k \in 1 .. K /\ L + h + 1 + k = i
      BY <1>3, <1>5, <1>13, <2>2
    <3>2. EndsEvent(l2[i - 1])
      <4>1. CASE k = 1
        <5>1. i - 1 = L + h + 1
          BY <1>1, <3>1, <4>1
        <5> QED
          BY <1>10, <5>1
      <4>2. CASE k # 1
        <5>1. k - 1 \in 1 .. K /\ i - 1 = L + h + 1 + (k - 1)
          BY <1>1, <3>1, <4>2
        <5> QED
          BY <1>11, <5>1
      <4> QED
        BY <4>1, <4>2
    <3>3. PICK j \in 1 .. L + 1 :
             IsPush(l2[j]) /\ l2[j].index >= Min({rep[t] : t \in Left(rep, order, k)})
      BY <3>1 DEF Covered
    <3>4. l2[i].until = Min({rep[t] : t \in Left(rep, order, k)})
      BY <1>4, <3>1
    <3>5. i > 1 /\ j \in 1 .. i - 1
      BY <1>1, <3>1
    <3> QED
      BY <3>2, <3>3, <3>4, <3>5
  <2> QED
    BY <2>1, <2>2
<1>14. 1 \in 1 .. h + 1 /\ n + 1 - 1 = n /\ N > 0
  BY <1>1
<1>15. IsPush(l2[L + 1]) /\ l2[L + 1].index = n
  BY <1>3, <1>14
<1> QED
  BY <1>1, <1>8, <1>9, <1>12, <1>13, <1>15 DEF JournalOK

\* A publication extends the journal and keeps the sender's state in line with it.
LEMMA PublishJournaled ==
    ASSUME Journaled, NEW s \in Slot, NEW h \in Higher, NEW final \in BOOLEAN,
           Publish(s, h, final)
    PROVE  /\ Journaled' /\ index <= index'
           /\ Len(log) < Len(log') /\ \A i \in 1 .. Len(log) : log'[i] = log[i]
<1>1. PICK order \in OldestFirst(OutsideWindow(OpenSlots(Rep(s)), MaxSlots)) :
         Sent(log, log', index, s, h, final, HeadOf(s), Rep(s), order)
  BY PublishSent
<1>2. JournalOK(log, index) /\ SenderOK(log, index, replay, slots)
  BY DEF Journaled
<1>3. h \in Nat /\ index \in Nat /\ log \in Seq(Command) /\ Len(log) \in Nat /\ Len(order) \in Nat
  BY <1>1, <1>2, StorageAssumption DEF JournalOK, SenderOK, Sent
<1>4. /\ Rep(s) \in [Slot -> Nat \cup {None}] /\ s \in OpenSlots(Rep(s))
      /\ HeadOf(s) \in Nat /\ Rep(s)[s] \in Nat /\ HeadOf(s) <= index
  BY <1>2, RepType
<1>5. /\ Len(log') = Len(log) + h + 1 + Len(order)
      /\ \A i \in 1 .. Len(log) : log'[i] = log[i]
      /\ \A i \in 1 .. h + 1 : IsPush(log'[Len(log) + i]) /\ log'[Len(log) + i].index = index + i - 1
  BY <1>1 DEF Sent
<1>6. IsPush(log'[Len(log) + 1]) /\ log'[Len(log) + 1].index = index
  <2>1. 1 \in 1 .. h + 1 /\ index + 1 - 1 = index
    BY <1>3
  <2> QED
    BY <1>5, <2>1
<1>7. ASSUME NEW t \in Slot, Rep(s)[t] # None
      PROVE  /\ Rep(s)[t] \in Nat /\ Rep(s)[t] < index + h + 1
             /\ \E j \in 1 .. Len(log) + 1 : IsPush(log'[j]) /\ log'[j].index >= Rep(s)[t]
  <2>1. Rep(s)[t] \in Nat
    BY <1>4, <1>7
  <2>2. CASE replay[t] # None
    <3>1. Rep(s)[t] = replay[t]
      BY <1>2, <2>2 DEF Rep, SenderOK
    <3>2. /\ replay[t] < index
          /\ \E j \in 1 .. Len(log) : IsPush(log[j]) /\ log[j].index >= replay[t]
      BY <1>2, <2>2 DEF SenderOK
    <3>3. PICK j \in 1 .. Len(log) : IsPush(log[j]) /\ log[j].index >= replay[t]
      BY <3>2
    <3>4. j \in 1 .. Len(log) + 1 /\ log'[j] = log[j]
      BY <1>3, <1>5
    <3> QED
      BY <1>3, <2>1, <3>1, <3>2, <3>3, <3>4
  <2>3. CASE replay[t] = None
    <3>1. Rep(s)[t] = index
      BY <1>2, <1>7, <2>3 DEF Rep, SenderOK
    <3>2. Len(log) + 1 \in 1 .. Len(log) + 1 /\ index >= index
      BY <1>3
    <3> QED
      BY <1>3, <1>6, <2>1, <3>1, <3>2
  <2> QED
    BY <2>2, <2>3
<1>8. ASSUME NEW i \in 1 .. Len(order)
      PROVE  \E j \in 1 .. Len(log) + 1 : IsPush(log'[j])
                /\ log'[j].index >= Min({Rep(s)[t] : t \in Left(Rep(s), order, i)})
  <2>1. \E t \in Left(Rep(s), order, i) :
           Min({Rep(s)[u] : u \in Left(Rep(s), order, i)}) = Rep(s)[t]
    BY <1>4, Retained
  <2>2. PICK t \in Left(Rep(s), order, i) :
           Min({Rep(s)[u] : u \in Left(Rep(s), order, i)}) = Rep(s)[t]
    BY <2>1
  <2>3. t \in Slot /\ Rep(s)[t] # None
    BY DEF Left, OpenSlots
  <2> QED
    BY <1>7, <2>2, <2>3
<1>9. JournalOK(log', index + h + 1)
  <2>1. h \in Nat /\ index \in Nat
    BY <1>3
  <2>2. Covered(log, log', Rep(s), order)
    BY <1>8 DEF Covered
  <2> QED
    BY <1>1, <1>2, <2>1, <2>2, SentJournal
<1>10. index' = index + h + 1
  BY DEF Publish
<1>11. /\ slots' \in [Slot -> Nat \cup {None}]
       /\ \A t \in Slot : slots'[t] # None => slots'[t] < index'
  <2>1. slots' = [t \in Slot |-> IF final /\ t <= s THEN None
                                 ELSE IF t = s THEN HeadOf(s) ELSE slots[t]]
    BY DEF Publish, HeadOf, Rep
  <2>2. slots \in [Slot -> Nat \cup {None}] /\ \A t \in Slot : slots[t] # None => slots[t] < index
    BY <1>2 DEF SenderOK
  <2>3. ASSUME NEW t \in Slot
        PROVE  slots'[t] \in Nat \cup {None} /\ (slots'[t] # None => slots'[t] < index')
    <3>1. slots'[t] = None \/ slots'[t] = HeadOf(s) \/ slots'[t] = slots[t]
      BY <2>1
    <3>2. CASE slots'[t] = None
      BY <3>2
    <3>3. CASE slots'[t] = HeadOf(s)
      BY <1>3, <1>4, <1>10, <3>3
    <3>4. CASE slots'[t] = slots[t]
      BY <1>3, <1>10, <2>2, <3>4 DEF None
    <3> QED
      BY <3>1, <3>2, <3>3, <3>4
  <2> QED
    BY <2>1, <2>3
<1>12. /\ replay' \in [Slot -> Nat \cup {None}]
       /\ \A t \in Slot : replay'[t] # None =>
             replay'[t] < index' /\ \E j \in 1 .. Len(log') : IsPush(log'[j]) /\ log'[j].index >= replay'[t]
  <2>1. replay' = [t \in Slot |-> IF t \in OutsideWindow(OpenSlots(Rep(s)), MaxSlots) THEN None
                                  ELSE Rep(s)[t]]
    BY DEF Publish, Rep
  <2>2. ASSUME NEW t \in Slot
        PROVE  /\ replay'[t] \in Nat \cup {None}
               /\ replay'[t] # None =>
                    replay'[t] < index' /\ \E j \in 1 .. Len(log') :
                        IsPush(log'[j]) /\ log'[j].index >= replay'[t]
    <3>1. CASE replay'[t] = None
      BY <3>1
    <3>2. CASE replay'[t] # None
      <4>1. replay'[t] = Rep(s)[t]
        BY <2>1, <3>2
      <4>2. PICK j \in 1 .. Len(log) + 1 : IsPush(log'[j]) /\ log'[j].index >= Rep(s)[t]
        BY <1>7, <3>2, <4>1
      <4>3. j \in 1 .. Len(log')
        BY <1>3, <1>5
      <4> QED
        BY <1>7, <1>10, <3>2, <4>1, <4>2, <4>3
    <3> QED
      BY <3>1, <3>2
  <2> QED
    BY <2>1, <2>2
<1>13. index' \in Nat
  BY <1>3, <1>10
<1>14. SenderOK(log', index', replay', slots')
  BY <1>11, <1>12, <1>13 DEF SenderOK
<1> QED
  BY <1>3, <1>5, <1>9, <1>10, <1>14 DEF Journaled

-----------------------------------------------------------------------------
(* The pipeline *)

\* An item and its place in the journal depend only on its own commands.
LEMMA ItemSame ==
    ASSUME NEW l, NEW l2, NEW from \in Nat, NEW upto \in Nat, from < upto, NEW seq,
           \A i \in from + 1 .. upto : l2[i] = l[i]
    PROVE  ItemOf(l2, seq, from, upto) = ItemOf(l, seq, from, upto)
           /\ (Fits(l, from, upto) => Fits(l2, from, upto))
<1>1. upto \in from + 1 .. upto /\ from + 1 \in from + 1 .. upto
  OBVIOUS
<1>2. l2[upto] = l[upto] /\ l2[from + 1] = l[from + 1]
  BY <1>1
<1>3. {[slot |-> l2[i].slot, head |-> l2[i].index] : i \in {j \in from + 1 .. upto : l2[j].init}}
      = {[slot |-> l[i].slot, head |-> l[i].index] : i \in {j \in from + 1 .. upto : l[j].init}}
  OBVIOUS
<1>4. {l2[i].slot : i \in {j \in from + 1 .. upto : l2[j].final}}
      = {l[i].slot : i \in {j \in from + 1 .. upto : l[j].final}}
  OBVIOUS
<1>5. ItemOf(l2, seq, from, upto) = ItemOf(l, seq, from, upto)
  BY <1>2, <1>3, <1>4, Zenon DEF ItemOf
<1>6. Fits(l, from, upto) => Fits(l2, from, upto)
  BY <1>2 DEF Fits
<1> QED
  BY <1>5, <1>6

\* What is cut from a journal is an item, and carries its number and its end.
LEMMA ItemTyped ==
    ASSUME NEW l \in Seq(Command), NEW seq \in Nat, NEW from \in Nat, NEW upto \in Nat,
           from < upto, upto <= Len(l), Fits(l, from, upto)
    PROVE  /\ ItemOf(l, seq, from, upto) \in Item
           /\ ItemOf(l, seq, from, upto).seq = seq /\ ItemOf(l, seq, from, upto).upto = upto
           /\ ItemOf(l, seq, from, upto).kind = (IF IsPush(l[upto]) THEN "chunk" ELSE "trim")
<1> DEFINE x == ItemOf(l, seq, from, upto)
<1>1. \A i \in from + 1 .. upto : l[i] \in Command
  OBVIOUS
<1>2. upto \in from + 1 .. upto /\ from + 1 \in from + 1 .. upto
  OBVIOUS
<1>3. CASE IsPush(l[upto])
  <2> DEFINE P == {[slot |-> l[i].slot, head |-> l[i].index] :
                      i \in {j \in from + 1 .. upto : l[j].init}}
             Q == {l[i].slot : i \in {j \in from + 1 .. upto : l[j].final}}
  <2>1. \A i \in from + 1 .. upto : IsPush(l[i])
    BY <1>3, <1>2 DEF Fits
  <2>2. \A i \in from + 1 .. upto : l[i] \in PushCommand
    BY <1>1, <2>1 DEF Command, TrimCommand, IsPush
  <2>3. \A i \in from + 1 .. upto : l[i].slot \in Slot /\ l[i].index \in Nat
    BY <2>2 DEF PushCommand
  <2>4. P \in SUBSET [slot : Slot, head : Nat] /\ Q \in SUBSET Slot
    BY <2>3
  <2>5. l[from + 1].index \in Nat /\ l[upto].index \in Nat
    BY <1>2, <2>3
  <2>6. x = [kind |-> "chunk", seq |-> seq, upto |-> upto,
             first |-> l[from + 1].index, last |-> l[upto].index,
             pending_slots |-> P, finalized |-> Q]
    BY <1>3 DEF ItemOf
  <2> HIDE DEF x, P, Q
  <2>7. x \in ChunkItem
    BY <2>4, <2>5, <2>6 DEF ChunkItem
  <2>8. x.seq = seq /\ x.upto = upto /\ x.kind = "chunk"
    BY <2>6
  <2> QED
    BY <1>3, <2>7, <2>8 DEF Item, x
<1>4. CASE ~IsPush(l[upto])
  <2>1. l[upto] \in TrimCommand
    BY <1>1, <1>2, <1>4 DEF Command, PushCommand, IsPush
  <2>2. l[upto].slot \in Slot /\ l[upto].until \in Nat
    BY <2>1 DEF TrimCommand
  <2>3. x = [kind |-> "trim", seq |-> seq, upto |-> upto, slot |-> l[upto].slot,
             until |-> l[upto].until]
    BY <1>4 DEF ItemOf
  <2> HIDE DEF x
  <2>4. x \in RemovalItem
    BY <2>2, <2>3 DEF RemovalItem
  <2>5. x.seq = seq /\ x.upto = upto /\ x.kind = "trim"
    BY <2>3
  <2> QED
    BY <1>4, <2>4, <2>5 DEF Item, x
<1> QED
  BY <1>3, <1>4

\* What is sent, and what is lost, is behind what was cut already.
LEMMA PipeOfLonger ==
    ASSUME NEW cut, NEW l, NEW l2, NEW d, NEW f, NEW w, NEW c, NEW queue,
           NEW hand, NEW done, PipeAt(cut, l, d, f, w, c, queue, hand, done),
           \A i \in 1 .. f : l2[i] = l[i]
    PROVE  PipeAt(cut, l2, d, f, w, c, queue, hand, done)
<1>1. /\ w \in Nat /\ c \in Nat /\ w <= c /\ cut[w] = d /\ cut[c] = f
      /\ \A k \in w .. c : cut[k] \in Nat
      /\ \A j, k \in w .. c : j < k => cut[j] < cut[k]
      /\ \A k \in w .. c - 1 : Fits(l, cut[k], cut[k + 1])
      /\ queue \in Seq(Item) /\ Len(queue) <= c - w /\ hand \cup done \subseteq Item
      /\ hand \cap done = {}
  BY DEF PipeAt
<1>0. w \in Nat /\ c \in Nat /\ w <= c /\ Len(queue) \in Nat /\ Len(queue) <= c - w
  BY <1>1
<1>2. /\ \A i \in 1 .. Len(queue) :
            queue[i] = ItemOf(l, c - Len(queue) + i - 1, cut[c - Len(queue) + i - 1],
                              cut[c - Len(queue) + i - 1 + 1])
      /\ \A x \in hand \cup done :
            /\ x.seq \in w .. c - Len(queue) - 1
            /\ x = ItemOf(l, x.seq, cut[x.seq], cut[x.seq + 1])
  BY DEF PipeAt
<1>3. ASSUME NEW k \in w .. c - 1
      PROVE  /\ ItemOf(l2, k, cut[k], cut[k + 1]) = ItemOf(l, k, cut[k], cut[k + 1])
             /\ Fits(l2, cut[k], cut[k + 1])
  <2>1. k \in Nat /\ k + 1 \in Nat /\ k \in w .. c /\ k + 1 \in w .. c /\ k < k + 1 /\ c \in w .. c
    BY <1>0
  <2>2. cut[k] \in Nat /\ cut[k + 1] \in Nat /\ cut[k] < cut[k + 1] /\ cut[c] \in Nat
    BY <1>1, <2>1
  <2>3. cut[k + 1] <= f
    <3>1. CASE k + 1 = c
      BY <1>1, <2>2, <3>1
    <3>2. CASE k + 1 < c
      BY <1>1, <2>1, <2>2, <3>2
    <3> QED
      BY <1>1, <2>1, <3>1, <3>2
  <2>4. \A i \in cut[k] + 1 .. cut[k + 1] : l2[i] = l[i]
    <3>1. f \in Nat /\ \A i \in cut[k] + 1 .. cut[k + 1] : i \in 1 .. f
      <4>1. f \in Nat
        BY <1>1, <2>2
      <4> QED
        BY <2>2, <2>3, <4>1
    <3> QED
      BY <3>1
  <2>5. Fits(l, cut[k], cut[k + 1])
    BY <1>1
  <2> QED
    BY <2>2, <2>4, <2>5, ItemSame
<1>4. ASSUME NEW i \in 1 .. Len(queue)
      PROVE  queue[i] = ItemOf(l2, c - Len(queue) + i - 1, cut[c - Len(queue) + i - 1],
                               cut[c - Len(queue) + i - 1 + 1])
  <2>1. c - Len(queue) + i - 1 \in w .. c - 1
    BY <1>0
  <2> QED
    BY <1>2, <1>3, <2>1
<1>5. ASSUME NEW x \in hand \cup done
      PROVE  x.seq \in w .. c - Len(queue) - 1 /\ x = ItemOf(l2, x.seq, cut[x.seq], cut[x.seq + 1])
  <2>1. x.seq \in w .. c - Len(queue) - 1
    BY <1>2
  <2>2. x.seq \in w .. c - 1
    BY <1>0, <2>1
  <2> QED
    BY <1>2, <1>3, <2>1, <2>2
<1> QED
  BY <1>1, <1>3, <1>4, <1>5 DEF PipeAt

\* The collector cuts one more item.
LEMMA PipeGrows ==
    ASSUME NEW cut, NEW l \in Seq(Command), NEW d \in Nat, NEW f \in Nat, NEW w,
           NEW c, NEW queue, NEW hand, NEW done, PipeAt(cut, l, d, f, w, c, queue, hand, done),
           NEW t \in Nat, f < t, t <= Len(l), Fits(l, f, t)
    PROVE  \E cut2 :
              PipeAt(cut2, l, d, t, w, c + 1, Append(queue, ItemOf(l, c, f, t)), hand, done)
<1> DEFINE cut2 == [k \in Nat |-> IF k = c + 1 THEN t ELSE cut[k]]
           q2 == Append(queue, ItemOf(l, c, f, t))
<1>1. /\ w \in Nat /\ c \in Nat /\ w <= c /\ cut[w] = d /\ cut[c] = f
      /\ \A k \in w .. c : cut[k] \in Nat
      /\ \A j, k \in w .. c : j < k => cut[j] < cut[k]
      /\ \A k \in w .. c - 1 : Fits(l, cut[k], cut[k + 1])
      /\ queue \in Seq(Item) /\ Len(queue) <= c - w /\ hand \cup done \subseteq Item
      /\ hand \cap done = {}
  BY DEF PipeAt
<1>0. w \in Nat /\ c \in Nat /\ w <= c /\ Len(queue) \in Nat /\ Len(queue) <= c - w
  BY <1>1
<1>2. /\ \A i \in 1 .. Len(queue) :
            queue[i] = ItemOf(l, c - Len(queue) + i - 1, cut[c - Len(queue) + i - 1],
                              cut[c - Len(queue) + i - 1 + 1])
      /\ \A x \in hand \cup done :
            /\ x.seq \in w .. c - Len(queue) - 1
            /\ x = ItemOf(l, x.seq, cut[x.seq], cut[x.seq + 1])
  BY DEF PipeAt
<1>3. /\ cut2[c + 1] = t /\ \A k \in w .. c : cut2[k] = cut[k]
  BY <1>0
<1>4. ItemOf(l, c, f, t) \in Item
  BY <1>0, ItemTyped
<1>5. /\ q2 \in Seq(Item) /\ Len(q2) = Len(queue) + 1 /\ Len(queue) \in Nat
      /\ \A i \in 1 .. Len(queue) : q2[i] = queue[i]
      /\ q2[Len(queue) + 1] = ItemOf(l, c, f, t)
  <2>1. queue \in Seq(Item)
    BY <1>1
  <2> QED
    BY <1>4, <2>1
<1> HIDE DEF cut2, q2
<1>6. ASSUME NEW j \in w .. c + 1, NEW k \in w .. c + 1, j < k PROVE cut2[j] < cut2[k]
  <2>0. j \in w .. c
    BY <1>0, <1>6
  <2>1. j \in w .. c /\ cut[j] \in Nat
    BY <1>1, <2>0
  <2>2. CASE k = c + 1
    <3>1. cut[j] <= f
      <4>1. CASE j = c
        BY <1>1, <4>1
      <4>2. CASE j < c
        <5>1. c \in w .. c
          BY <1>1
        <5>2. cut[j] < cut[c]
          BY <1>1, <2>1, <4>2, <5>1
        <5> QED
          BY <1>1, <2>1, <5>2
      <4> QED
        BY <1>1, <2>1, <4>1, <4>2
    <3>2. cut2[j] = cut[j] /\ cut2[k] = t
      BY <1>3, <2>1, <2>2
    <3> QED
      BY <2>1, <3>1, <3>2
  <2>3. CASE k # c + 1
    <3>1. k \in w .. c
      BY <1>0, <2>3
    <3> QED
      BY <1>1, <1>3, <1>6, <2>1, <3>1
  <2> QED
    BY <2>2, <2>3
<1>7. ASSUME NEW k \in w .. c PROVE Fits(l, cut2[k], cut2[k + 1])
  <2>1. CASE k = c
    BY <1>1, <1>3, <2>1
  <2>2. CASE k # c
    <3>1. k \in w .. c - 1 /\ k + 1 \in w .. c
      BY <1>0, <2>2
    <3> QED
      BY <1>1, <1>3, <3>1
  <2> QED
    BY <2>1, <2>2
<1>8. ASSUME NEW i \in 1 .. Len(q2)
      PROVE  q2[i] = ItemOf(l, (c + 1) - Len(q2) + i - 1, cut2[(c + 1) - Len(q2) + i - 1],
                            cut2[(c + 1) - Len(q2) + i - 1 + 1])
  <2>1. (c + 1) - Len(q2) + i - 1 = c - Len(queue) + i - 1
    BY <1>0, <1>5
  <2> DEFINE k == c - Len(queue) + i - 1
  <2>2. CASE i = Len(queue) + 1
    <3>1. k = c
      BY <1>0, <2>2
    <3> QED
      BY <1>1, <1>3, <1>5, <2>1, <2>2, <3>1
  <2>3. CASE i # Len(queue) + 1
    <3>1. i \in 1 .. Len(queue)
      BY <1>5, <2>3
    <3>2. k \in w .. c /\ k + 1 \in w .. c
      BY <1>0, <3>1
    <3>3. queue[i] = ItemOf(l, k, cut[k], cut[k + 1])
      BY <1>2, <3>1
    <3> HIDE DEF k
    <3>4. q2[i] = ItemOf(l, k, cut2[k], cut2[k + 1])
      BY <1>3, <1>5, <3>1, <3>2, <3>3
    <3> QED
      BY <2>1, <3>4 DEF k
  <2> QED
    BY <2>2, <2>3
<1>9. ASSUME NEW x \in hand \cup done
      PROVE  /\ x.seq \in w .. (c + 1) - Len(q2) - 1
             /\ x = ItemOf(l, x.seq, cut2[x.seq], cut2[x.seq + 1])
  <2>1. x.seq \in w .. c - Len(queue) - 1 /\ x = ItemOf(l, x.seq, cut[x.seq], cut[x.seq + 1])
    BY <1>2
  <2>2. x.seq \in w .. c /\ x.seq + 1 \in w .. c /\ (c + 1) - Len(q2) - 1 = c - Len(queue) - 1
    BY <1>0, <1>5, <2>1
  <2> QED
    BY <1>3, <2>1, <2>2
<1>10. /\ w \in Nat /\ c + 1 \in Nat /\ w <= c + 1 /\ cut2[w] = d /\ cut2[c + 1] = t
       /\ q2 \in Seq(Item) /\ Len(q2) <= c + 1 - w /\ (c + 1) - 1 = c
  <2>1. w \in w .. c
    BY <1>0
  <2>2. cut2[w] = d /\ cut2[c + 1] = t
    BY <1>1, <1>3, <2>1
  <2>3. q2 \in Seq(Item) /\ Len(q2) = Len(queue) + 1
    BY <1>5
  <2> QED
    BY <1>0, <2>2, <2>3
<1>12. ASSUME NEW k \in w .. c + 1 PROVE cut2[k] \in Nat
  <2>1. k = c + 1 \/ k \in w .. c
    BY <1>0
  <2> QED
    BY <1>1, <1>3, <2>1
<1>11. PipeAt(cut2, l, d, t, w, c + 1, q2, hand, done)
  <2>1. \A k \in w .. (c + 1) - 1 : Fits(l, cut2[k], cut2[k + 1])
    BY <1>7, <1>10
  <2> QED
    BY <1>1, <1>6, <1>8, <1>9, <1>10, <1>12, <2>1 DEF PipeAt
<1> QED
  BY <1>11 DEF q2

\* A compressor takes the first item of the queue.
LEMMA PipeTakes ==
    ASSUME NEW cut, NEW l, NEW d, NEW f, NEW w, NEW c, NEW queue, NEW hand, NEW done,
           PipeAt(cut, l, d, f, w, c, queue, hand, done), l \in Seq(Command), f <= Len(l),
           queue # <<>>
    PROVE  PipeAt(cut, l, d, f, w, c, Tail(queue), hand \cup {Head(queue)}, done)
<1>1. /\ w \in Nat /\ c \in Nat /\ w <= c /\ cut[w] = d /\ cut[c] = f
      /\ \A k \in w .. c : cut[k] \in Nat
      /\ \A j, k \in w .. c : j < k => cut[j] < cut[k]
      /\ \A k \in w .. c - 1 : Fits(l, cut[k], cut[k + 1])
      /\ queue \in Seq(Item) /\ Len(queue) <= c - w /\ hand \cup done \subseteq Item
      /\ hand \cap done = {}
  BY DEF PipeAt
<1>0. w \in Nat /\ c \in Nat /\ w <= c /\ Len(queue) \in Nat \ {0} /\ Len(queue) <= c - w
  BY <1>1
<1>2. /\ \A i \in 1 .. Len(queue) :
            queue[i] = ItemOf(l, c - Len(queue) + i - 1, cut[c - Len(queue) + i - 1],
                              cut[c - Len(queue) + i - 1 + 1])
      /\ \A x \in hand \cup done :
            /\ x.seq \in w .. c - Len(queue) - 1
            /\ x = ItemOf(l, x.seq, cut[x.seq], cut[x.seq + 1])
  BY DEF PipeAt
<1> DEFINE q2 == Tail(queue)
           y == Head(queue)
           k == c - Len(queue)
<1>3. /\ q2 \in Seq(Item) /\ Len(q2) = Len(queue) - 1 /\ y \in Item /\ y = queue[1]
      /\ \A i \in 1 .. Len(q2) : q2[i] = queue[i + 1]
  BY <1>1
<1>4. k \in w .. c /\ k + 1 \in w .. c /\ k \in w .. c - 1 /\ k < k + 1 /\ k \in Nat
      /\ c - Len(queue) + 1 - 1 = k
  BY <1>0
<1>5. y = ItemOf(l, k, cut[k], cut[k + 1])
  <2>1. 1 \in 1 .. Len(queue)
    BY <1>0
  <2> QED
    BY <1>2, <1>3, <1>4, <2>1
<1> HIDE DEF q2, y, k
<1>6. y.seq = k
  <2>1. cut[k] \in Nat /\ cut[k + 1] \in Nat /\ cut[k] < cut[k + 1] /\ Fits(l, cut[k], cut[k + 1])
    BY <1>1, <1>4
  <2>2. cut[k + 1] <= Len(l)
    <3>1. cut[k + 1] <= cut[c]
      <4>1. c \in w .. c /\ (k + 1 = c \/ k + 1 < c)
        BY <1>0, <1>4
      <4>2. CASE k + 1 = c
        BY <2>1, <4>2
      <4>3. CASE k + 1 < c
        BY <1>1, <1>4, <4>1, <4>3
      <4> QED
        BY <4>1, <4>2, <4>3
    <3>2. cut[c] \in Nat /\ cut[c] <= Len(l) /\ Len(l) \in Nat
      <4>1. c \in w .. c
        BY <1>0
      <4> QED
        BY <1>1, <4>1
    <3> QED
      BY <2>1, <3>1, <3>2
  <2>3. ItemOf(l, k, cut[k], cut[k + 1]).seq = k
    BY <1>4, <2>1, <2>2, ItemTyped
  <2> QED
    BY <1>5, <2>3
<1>7. ASSUME NEW i \in 1 .. Len(q2)
      PROVE  q2[i] = ItemOf(l, c - Len(q2) + i - 1, cut[c - Len(q2) + i - 1],
                            cut[c - Len(q2) + i - 1 + 1])
  <2>1. i + 1 \in 1 .. Len(queue) /\ c - Len(q2) + i - 1 = c - Len(queue) + (i + 1) - 1
    BY <1>0, <1>3
  <2> QED
    BY <1>2, <1>3, <2>1
<1>8. ASSUME NEW x \in (hand \cup {y}) \cup done
      PROVE  x.seq \in w .. c - Len(q2) - 1 /\ x = ItemOf(l, x.seq, cut[x.seq], cut[x.seq + 1])
  <2>1. CASE x = y
    <3>1. k \in w .. c - Len(q2) - 1
      BY <1>0, <1>3, <1>4 DEF k
    <3> QED
      BY <1>5, <1>6, <2>1, <3>1
  <2>2. CASE x # y
    <3>1. x.seq \in w .. c - Len(queue) - 1 /\ x = ItemOf(l, x.seq, cut[x.seq], cut[x.seq + 1])
      BY <1>2, <2>2
    <3>2. \A i \in w .. c - Len(queue) - 1 : i \in w .. c - Len(q2) - 1
      BY <1>0, <1>3
    <3> QED
      BY <3>1, <3>2
  <2> QED
    BY <2>1, <2>2
<1>9. (hand \cup {y}) \cap done = {}
  <2>1. y \notin done
    <3>1. SUFFICES ASSUME y \in done PROVE FALSE
      OBVIOUS
    <3>2. k \in w .. c - Len(queue) - 1
      BY <1>2, <1>6, <3>1
    <3> QED
      BY <1>0, <3>2 DEF k
  <2> QED
    BY <1>1, <2>1
<1>10. /\ Len(q2) <= c - w /\ (hand \cup {y}) \cup done \subseteq Item
  BY <1>0, <1>1, <1>3
<1>11. PipeAt(cut, l, d, f, w, c, q2, hand \cup {y}, done)
  BY <1>1, <1>3, <1>7, <1>8, <1>9, <1>10 DEF PipeAt
<1> QED
  BY <1>11 DEF q2, y

\* An item moves to the writer.
LEMMA PipeMoves ==
    ASSUME NEW cut, NEW l, NEW d, NEW f, NEW w, NEW c, NEW queue, NEW hand, NEW done,
           PipeAt(cut, l, d, f, w, c, queue, hand, done), NEW x \in hand
    PROVE  PipeAt(cut, l, d, f, w, c, queue, hand \ {x}, done \cup {x})
<1>1. (hand \ {x}) \cup (done \cup {x}) = hand \cup done
  OBVIOUS
<1>2. (hand \ {x}) \cap (done \cup {x}) = {}
  BY DEF PipeAt
<1> QED
  BY <1>1, <1>2 DEF PipeAt

\* The item x is what the writer does next, and what is left without it.
PipeNext(cut, l, d, f, w, c, queue, hand, done, x) ==
    PipeAt(cut, l, d, f, w, c, queue, hand, done) /\ x \in done /\ x.seq = w
PipeRest(cut, l, d, f, w, c, queue, hand, done, x) ==
    /\ x = ItemOf(l, w, d, cut[w + 1]) /\ Fits(l, d, cut[w + 1])
    /\ d < cut[w + 1] /\ cut[w + 1] <= f /\ cut[w + 1] \in Nat /\ f \in Nat /\ w \in Nat
    /\ \A y \in done : y.seq = w => y = x
    /\ PipeAt(cut, l, cut[w + 1], f, w + 1, c, queue, hand, done \ {x})

\* The writer finishes the item that is next.
LEMMA PipeShrinks ==
    ASSUME NEW cut, NEW l, NEW d, NEW f, NEW w, NEW c, NEW queue, NEW hand, NEW done, NEW x,
           PipeNext(cut, l, d, f, w, c, queue, hand, done, x)
    PROVE  PipeRest(cut, l, d, f, w, c, queue, hand, done, x)
<1> USE DEF PipeNext
<1>1. /\ w \in Nat /\ c \in Nat /\ w <= c /\ cut[w] = d /\ cut[c] = f
      /\ \A k \in w .. c : cut[k] \in Nat
      /\ \A j, k \in w .. c : j < k => cut[j] < cut[k]
      /\ \A k \in w .. c - 1 : Fits(l, cut[k], cut[k + 1])
      /\ queue \in Seq(Item) /\ Len(queue) <= c - w /\ hand \cup done \subseteq Item
      /\ hand \cap done = {}
  BY DEF PipeAt
<1>0. w \in Nat /\ c \in Nat /\ w <= c /\ Len(queue) \in Nat /\ Len(queue) <= c - w
  BY <1>1
<1>2. /\ \A i \in 1 .. Len(queue) :
            queue[i] = ItemOf(l, c - Len(queue) + i - 1, cut[c - Len(queue) + i - 1],
                              cut[c - Len(queue) + i - 1 + 1])
      /\ \A y \in hand \cup done :
            /\ y.seq \in w .. c - Len(queue) - 1
            /\ y = ItemOf(l, y.seq, cut[y.seq], cut[y.seq + 1])
  BY DEF PipeAt
<1>3. w \in w .. c - Len(queue) - 1
  BY <1>2
<1>4. /\ w + 1 <= c /\ w + 1 \in w .. c /\ w \in w .. c /\ c \in w .. c /\ w \in w .. c - 1 /\ w < w + 1
      /\ Len(queue) <= c - (w + 1)
  BY <1>0, <1>3
<1>5. cut[w + 1] \in Nat /\ d \in Nat /\ f \in Nat /\ d < cut[w + 1] /\ Fits(l, d, cut[w + 1])
  BY <1>1, <1>4
<1>6. cut[w + 1] <= f
  <2>1. CASE w + 1 = c
    BY <1>1, <1>5, <2>1
  <2>2. CASE w + 1 # c
    <3>1. w + 1 < c
      BY <1>0, <1>4, <2>2
    <3> QED
      BY <1>1, <1>4, <1>5, <3>1
  <2> QED
    BY <2>1, <2>2
<1>7. ASSUME NEW y \in hand \cup done, y.seq = w PROVE y = ItemOf(l, w, d, cut[w + 1])
  BY <1>1, <1>2, <1>7
<1>8. x = ItemOf(l, w, d, cut[w + 1]) /\ \A y \in hand \cup done : y.seq = w => y = x
  BY <1>7
<1>9. ASSUME NEW y \in hand \cup (done \ {x})
      PROVE  /\ y.seq \in w + 1 .. c - Len(queue) - 1
             /\ y = ItemOf(l, y.seq, cut[y.seq], cut[y.seq + 1])
  <2>1. y \in hand \cup done /\ y # x
    BY <1>1
  <2>2. y.seq \in w .. c - Len(queue) - 1 /\ y.seq # w
    BY <1>2, <1>8, <2>1
  <2>3. y.seq \in w + 1 .. c - Len(queue) - 1
    BY <1>0, <2>2
  <2> QED
    BY <1>2, <2>1, <2>3
<1>10. \A k \in w + 1 .. c : k \in w .. c
  BY <1>0
<1>11. \A k \in w + 1 .. c - 1 : k \in w .. c - 1
  BY <1>0
<1>12. /\ w + 1 \in Nat /\ hand \cup (done \ {x}) \subseteq Item /\ hand \cap (done \ {x}) = {}
  BY <1>1
<1>13. /\ \A k \in w + 1 .. c : cut[k] \in Nat
       /\ \A j, k \in w + 1 .. c : j < k => cut[j] < cut[k]
       /\ \A k \in w + 1 .. c - 1 : Fits(l, cut[k], cut[k + 1])
  BY <1>1, <1>10, <1>11
<1>14. PipeAt(cut, l, cut[w + 1], f, w + 1, c, queue, hand, done \ {x})
  BY <1>1, <1>2, <1>4, <1>9, <1>12, <1>13 DEF PipeAt
<1> QED
  BY <1>0, <1>4, <1>5, <1>6, <1>8, <1>14 DEF PipeRest

\* After a start nothing is on its way.
LEMMA PipeStarts ==
    ASSUME NEW l, NEW d \in Nat
    PROVE  \E cut : PipeAt(cut, l, d, d, 0, 0, <<>>, {}, {})
<1> DEFINE cut == [k \in Nat |-> d]
<1>1. cut[0] = d
  OBVIOUS
<1>2. /\ \A k \in 0 .. 0 : cut[k] \in Nat
      /\ \A j, k \in 0 .. 0 : j < k => cut[j] < cut[k]
  BY <1>1
<1> HIDE DEF cut
<1>3. PipeAt(cut, l, d, d, 0, 0, <<>>, {}, {})
  BY <1>1, <1>2 DEF PipeAt
<1> QED
  BY <1>3

-----------------------------------------------------------------------------
(* The catalog *)

\* The fields of the catalog.
LEMMA CatalogFields ==
    ASSUME NEW m, CatalogType(m)
    PROVE  /\ m.slots \in [Slot -> SlotRow]
           /\ DOMAIN m.segments \subseteq Nat
           /\ m.segments = [id \in DOMAIN m.segments |-> m.segments[id]]
           /\ \A id \in DOMAIN m.segments :
                 /\ m.segments[id] \in SegmentRow /\ m.segments[id].last \in Nat
                 /\ m.segments[id].len \in Nat /\ m.segments[id].count \in Nat
                 /\ m.segments[id].sealed \in BOOLEAN
           /\ m.chunks \subseteq ChunkRow
           /\ \A c \in m.chunks : /\ c.segment \in Nat /\ c.offset \in Nat /\ c.size \in Nat
                                  /\ c.first \in Nat /\ c.last \in Nat
           /\ m.next_id \in Nat /\ m.active \in Nat /\ m.floor \in Nat
           /\ \A s \in Slot : m.slots[s].open =>
                 m.slots[s].head \in Nat /\ m.slots[s].segment \in Nat
                 /\ m.slots[s].finalized \in BOOLEAN
<1> DEFINE T == UNION {[D -> SegmentRow] : D \in SUBSET Nat}
<1>1. /\ m.slots \in [Slot -> SlotRow] /\ m.segments \in T /\ m.chunks \in SUBSET ChunkRow
      /\ m.next_id \in Nat /\ m.active \in Nat /\ m.floor \in Nat
  <2> HIDE DEF T
  <2> DEFINE S == [Slot -> SlotRow]
             C == SUBSET ChunkRow
  <2>1. m \in [slots : S, segments : T, chunks : C, next_id : Nat, active : Nat, floor : Nat]
    BY DEF CatalogType, T
  <2> HIDE DEF S, C
  <2>2. /\ m.slots \in S /\ m.segments \in T /\ m.chunks \in C
        /\ m.next_id \in Nat /\ m.active \in Nat /\ m.floor \in Nat
    BY <2>1
  <2> QED
    BY <2>2 DEF S, C
<1>2. PICK D \in SUBSET Nat : m.segments \in [D -> SegmentRow]
  BY <1>1
<1>3. /\ DOMAIN m.segments \subseteq Nat
      /\ m.segments = [id \in DOMAIN m.segments |-> m.segments[id]]
      /\ \A id \in DOMAIN m.segments : m.segments[id] \in SegmentRow
  BY <1>2
<1>4. \A g \in SegmentRow : g.last \in Nat /\ g.len \in Nat /\ g.count \in Nat /\ g.sealed \in BOOLEAN
  BY DEF SegmentRow
<1>5. \A c \in ChunkRow : /\ c.segment \in Nat /\ c.offset \in Nat /\ c.size \in Nat
                          /\ c.first \in Nat /\ c.last \in Nat
  BY DEF ChunkRow
<1>6. \A r \in SlotRow : r.open => r.head \in Nat /\ r.segment \in Nat /\ r.finalized \in BOOLEAN
  <2>1. ASSUME NEW r \in SlotRow, r.open
        PROVE  r.head \in Nat /\ r.segment \in Nat /\ r.finalized \in BOOLEAN
    <3>1. r # NoRow
      BY <2>1 DEF NoRow
    <3>2. r \in [open : {TRUE}, segment : Nat, finalized : BOOLEAN, head : Nat]
      BY <3>1 DEF SlotRow
    <3> QED
      BY <3>2
  <2> QED
    BY <2>1
<1> QED
  BY <1>1, <1>3, <1>4, <1>5, <1>6

\* The catalog stays right when only the floor moves, and whatever happens behind
\* the durable part of the journal.
LEMMA CatalogStays ==
    ASSUME NEW m, NEW m2, NEW l, NEW l2, NEW d, CatalogOK(m, l, d), CatalogType(m2),
           m2.slots = m.slots, m2.segments = m.segments, m2.chunks = m.chunks,
           m2.active = m.active, m2.next_id = m.next_id,
           \A i \in 1 .. d : l2[i] = l[i]
    PROVE  CatalogOK(m2, l2, d)
<1>1. SegmentsOK(m2)
  BY DEF CatalogOK, SegmentsOK
<1>2. \A id \in DOMAIN m2.segments : m2.segments[id].count > 0 =>
          \E j \in 1 .. d : IsPush(l2[j]) /\ m2.segments[id].last <= l2[j].index
  BY DEF CatalogOK
<1>3. ASSUME NEW c \in m2.chunks PROVE ChunkOK(m2, l2, d, c)
  <2>1. ChunkOK(m, l, d, c)
    BY DEF CatalogOK
  <2> QED
    BY <2>1 DEF ChunkOK
<1>4. \A j \in 1 .. d : IsPush(l2[j]) => \E c \in m2.chunks : l2[j].index <= c.last
  BY DEF CatalogOK
<1>5. ASSUME NEW s \in Slot, m2.slots[s].open PROVE RowOK(m2, l2, d, m2.slots[s])
  <2>1. RowOK(m, l, d, m.slots[s])
    BY <1>5 DEF CatalogOK
  <2> QED
    BY <2>1 DEF RowOK
<1> QED
  BY <1>1, <1>2, <1>3, <1>4, <1>5 DEF CatalogOK

\* A new segment has the highest id and no record, and seals the one before.
LEMMA CatalogRotates ==
    ASSUME NEW m, NEW m2, NEW l, NEW d, CatalogOK(m, l, d), CatalogType(m2),
           m2.slots = m.slots, m2.chunks = m.chunks, m2.active = m.next_id,
           m2.next_id = m.next_id + 1,
           DOMAIN m2.segments = DOMAIN m.segments \cup {m.next_id},
           m2.segments[m.next_id].count = 0, ~m2.segments[m.next_id].sealed,
           \A id \in DOMAIN m.segments :
              /\ m2.segments[id].sealed
              /\ m2.segments[id].last = m.segments[id].last
              /\ m2.segments[id].len = m.segments[id].len
              /\ m2.segments[id].count = m.segments[id].count
    PROVE  CatalogOK(m2, l, d)
<1>1. /\ DOMAIN m.segments \subseteq Nat /\ m.next_id \in Nat /\ m.active \in Nat
      /\ \A id \in DOMAIN m.segments : m.segments[id].last \in Nat /\ m.segments[id].count \in Nat
  BY CatalogFields DEF CatalogOK
<1>2. /\ m.active < m.next_id
      /\ \A id \in DOMAIN m.segments : id > 0 /\ id <= m.active
      /\ \A a, b \in DOMAIN m.segments :
            a < b /\ m.segments[a].count > 0 /\ m.segments[b].count > 0 =>
                m.segments[a].last <= m.segments[b].last
  BY DEF CatalogOK, SegmentsOK
<1>3. \A id \in DOMAIN m.segments : id \in Nat /\ id > 0 /\ id < m.next_id
  BY <1>1, <1>2
<1>4. \A id \in DOMAIN m2.segments : m2.segments[id].count > 0 => id \in DOMAIN m.segments
  OBVIOUS
<1>5. SegmentsOK(m2)
  <2>1. m2.active < m2.next_id /\ m2.active \in DOMAIN m2.segments \cup {0}
    BY <1>1
  <2>2. ASSUME NEW id \in DOMAIN m2.segments
        PROVE  id > 0 /\ id <= m2.active /\ (m2.segments[id].sealed <=> id # m2.active)
    <3>1. CASE id = m.next_id
      BY <1>1, <1>2, <3>1
    <3>2. CASE id # m.next_id
      BY <1>1, <1>3, <3>2
    <3> QED
      BY <3>1, <3>2
  <2>3. ASSUME NEW a \in DOMAIN m2.segments, NEW b \in DOMAIN m2.segments, a < b,
               m2.segments[a].count > 0, m2.segments[b].count > 0
        PROVE  m2.segments[a].last <= m2.segments[b].last
    BY <1>2, <1>4, <2>3
  <2> QED
    BY <2>1, <2>2, <2>3 DEF SegmentsOK
<1>6. \A id \in DOMAIN m2.segments : m2.segments[id].count > 0 =>
          \E j \in 1 .. d : IsPush(l[j]) /\ m2.segments[id].last <= l[j].index
  BY <1>4 DEF CatalogOK
<1>7. ASSUME NEW c \in m2.chunks PROVE ChunkOK(m2, l, d, c)
  <2>1. ChunkOK(m, l, d, c)
    BY DEF CatalogOK
  <2> QED
    BY <2>1 DEF ChunkOK
<1>8. ASSUME NEW s \in Slot, m2.slots[s].open PROVE RowOK(m2, l, d, m2.slots[s])
  <2>1. RowOK(m, l, d, m.slots[s])
    BY <1>8 DEF CatalogOK
  <2> QED
    BY <2>1 DEF RowOK
<1>9. \A j \in 1 .. d : IsPush(l[j]) => \E c \in m2.chunks : l[j].index <= c.last
  BY DEF CatalogOK
<1> QED
  BY <1>5, <1>6, <1>7, <1>8, <1>9 DEF CatalogOK

\* The indexes of a run of records ascend, and are above all earlier ones.
LEMMA RunAscends ==
    ASSUME NEW l, NEW n, JournalOK(l, n), NEW d \in Nat, NEW u \in Nat, d < u, u <= Len(l),
           \A i \in d + 1 .. u : IsPush(l[i])
    PROVE  /\ \A j \in 1 .. Len(l) : IsPush(l[j]) => l[j].index \in Nat
           /\ d + 1 \in d + 1 .. u /\ u \in d + 1 .. u
           /\ \A j \in d + 1 .. u : /\ j \in 1 .. Len(l)
                                    /\ l[d + 1].index <= l[j].index /\ l[j].index <= l[u].index
           /\ \A j \in 1 .. d : /\ j \in 1 .. Len(l)
                                /\ IsPush(l[j]) => l[j].index < l[d + 1].index
           /\ \A i, j \in 1 .. u : IsPush(l[i]) /\ IsPush(l[j]) /\ l[i].index >= l[j].index => i >= j
<1>1. l \in Seq(Command) /\ Len(l) \in Nat
  BY DEF JournalOK
<1>2. ASSUME NEW j \in 1 .. Len(l), IsPush(l[j]) PROVE l[j].index \in Nat
  <2>1. l[j] \in Command
    BY <1>1
  <2> QED
    BY <1>2, <2>1 DEF Command, PushCommand, TrimCommand, IsPush
<1>3. /\ d + 1 \in d + 1 .. u /\ u \in d + 1 .. u
      /\ \A j \in d + 1 .. u : j \in 1 .. Len(l)
      /\ \A j \in 1 .. d : j \in 1 .. Len(l)
      /\ \A j \in 1 .. u : j \in 1 .. Len(l)
  BY <1>1
<1>4. \A i, j \in 1 .. Len(l) : i < j /\ IsPush(l[i]) /\ IsPush(l[j]) => l[i].index < l[j].index
  BY DEF JournalOK
<1>5. ASSUME NEW i \in 1 .. Len(l), NEW j \in 1 .. Len(l), i <= j, IsPush(l[i]), IsPush(l[j])
      PROVE  l[i].index <= l[j].index
  <2>1. CASE i = j
    BY <1>2, <1>5, <2>1
  <2>2. CASE i < j
    BY <1>2, <1>4, <1>5, <2>2
  <2> QED
    BY <1>5, <2>1, <2>2
<1>6. ASSUME NEW j \in d + 1 .. u
      PROVE  l[d + 1].index <= l[j].index /\ l[j].index <= l[u].index
  <2>1. d + 1 <= j /\ j <= u
    OBVIOUS
  <2> QED
    BY <1>3, <1>5, <2>1
<1>7. ASSUME NEW j \in 1 .. d, IsPush(l[j]) PROVE l[j].index < l[d + 1].index
  <2>1. j < d + 1
    OBVIOUS
  <2> QED
    BY <1>3, <1>4, <1>7, <2>1
<1>8. ASSUME NEW i \in 1 .. u, NEW j \in 1 .. u, IsPush(l[i]), IsPush(l[j]),
             l[i].index >= l[j].index
      PROVE  i >= j
  <2>1. CASE i < j
    <3>1. l[i].index < l[j].index /\ l[i].index \in Nat /\ l[j].index \in Nat
      BY <1>2, <1>3, <1>4, <1>8, <2>1
    <3> QED
      BY <1>8, <3>1
  <2> QED
    BY <2>1
<1> QED
  BY <1>2, <1>3, <1>6, <1>7, <1>8

\* The catalog m2 is m with the chunk of the records a .. b, the commands up to u.
ChunkAdded(m, m2, l, d, u, a, b) ==
    /\ CatalogType(m2)
    /\ m2.active = m.active /\ m2.next_id = m.next_id
    /\ DOMAIN m2.segments = DOMAIN m.segments
    /\ \A id \in DOMAIN m.segments : id # m.active => m2.segments[id] = m.segments[id]
    /\ m2.segments[m.active].sealed = m.segments[m.active].sealed
    /\ m2.segments[m.active].last = b
    /\ m2.segments[m.active].len = m.segments[m.active].len + (b - a + 1)
    /\ m2.segments[m.active].count = m.segments[m.active].count + 1
    /\ m2.chunks = m.chunks \cup {[segment |-> m.active, offset |-> m.segments[m.active].len,
                                   size |-> b - a + 1, first |-> a, last |-> b]}
    /\ \A s \in Slot : m2.slots[s].open =>
          \/ /\ m2.slots[s].segment = m.active
             /\ \E j \in d + 1 .. u : m2.slots[s].head = l[j].index
          \/ /\ m.slots[s].open /\ m2.slots[s].segment = m.slots[s].segment
             /\ m2.slots[s].head = m.slots[s].head

\* The commit of a chunk keeps the catalog right.
LEMMA CatalogAdds ==
    ASSUME NEW m, NEW m2, NEW l, NEW n, NEW d \in Nat, NEW u \in Nat, JournalOK(l, n),
           CatalogOK(m, l, d), d < u, u <= Len(l), \A i \in d + 1 .. u : IsPush(l[i]),
           m.active # 0, ChunkAdded(m, m2, l, d, u, l[d + 1].index, l[u].index)
    PROVE  CatalogOK(m2, l, u)
<1> DEFINE a == l[d + 1].index
           b == l[u].index
           g == m.active
           k == [segment |-> g, offset |-> m.segments[g].len, size |-> b - a + 1,
                 first |-> a, last |-> b]
<1>1. /\ \A j \in 1 .. Len(l) : IsPush(l[j]) => l[j].index \in Nat
      /\ d + 1 \in d + 1 .. u /\ u \in d + 1 .. u
      /\ \A j \in d + 1 .. u : j \in 1 .. Len(l) /\ a <= l[j].index /\ l[j].index <= b
      /\ \A j \in 1 .. d : j \in 1 .. Len(l) /\ (IsPush(l[j]) => l[j].index < a)
      /\ \A i, j \in 1 .. u : IsPush(l[i]) /\ IsPush(l[j]) /\ l[i].index >= l[j].index => i >= j
  BY RunAscends
<1>2. a \in Nat /\ b \in Nat /\ a <= b /\ IsPush(l[u]) /\ u \in 1 .. u
  BY <1>1
<1>3. \A j \in 1 .. u : j \in 1 .. d \/ j \in d + 1 .. u
  OBVIOUS
<1>31. /\ \A j \in 1 .. d : j \in 1 .. u
       /\ \A j \in d + 1 .. u : j \in 1 .. u
  OBVIOUS
<1>4. /\ DOMAIN m.segments \subseteq Nat /\ m.active \in Nat
      /\ \A id \in DOMAIN m.segments :
            /\ m.segments[id].last \in Nat /\ m.segments[id].len \in Nat
            /\ m.segments[id].count \in Nat
      /\ \A c \in m.chunks : /\ c.segment \in Nat /\ c.offset \in Nat /\ c.size \in Nat
                             /\ c.first \in Nat /\ c.last \in Nat
      /\ \A s \in Slot : m.slots[s].open => m.slots[s].head \in Nat /\ m.slots[s].segment \in Nat
  BY CatalogFields DEF CatalogOK
<1>5. /\ m.active < m.next_id /\ g \in DOMAIN m.segments
      /\ \A id \in DOMAIN m.segments :
            id > 0 /\ id <= g /\ (m.segments[id].sealed <=> id # g)
      /\ \A x, y \in DOMAIN m.segments :
            x < y /\ m.segments[x].count > 0 /\ m.segments[y].count > 0 =>
                m.segments[x].last <= m.segments[y].last
  BY DEF CatalogOK, SegmentsOK
<1>6. /\ CatalogType(m2)
      /\ m2.active = g /\ m2.next_id = m.next_id /\ DOMAIN m2.segments = DOMAIN m.segments
      /\ \A id \in DOMAIN m.segments : id # g => m2.segments[id] = m.segments[id]
      /\ m2.segments[g].sealed = m.segments[g].sealed
      /\ m2.segments[g].last = b
      /\ m2.segments[g].len = m.segments[g].len + (b - a + 1)
      /\ m2.segments[g].count = m.segments[g].count + 1
      /\ m2.chunks = m.chunks \cup {k}
      /\ \A s \in Slot : m2.slots[s].open =>
            \/ /\ m2.slots[s].segment = g
               /\ \E j \in d + 1 .. u : m2.slots[s].head = l[j].index
            \/ /\ m.slots[s].open /\ m2.slots[s].segment = m.slots[s].segment
               /\ m2.slots[s].head = m.slots[s].head
  BY DEF ChunkAdded
<1>7. /\ k.segment = g /\ k.offset = m.segments[g].len /\ k.size = b - a + 1
      /\ k.first = a /\ k.last = b
  OBVIOUS
<1> HIDE DEF a, b, g, k
<1>8. \A id \in DOMAIN m.segments : m.segments[id].count > 0 => m.segments[id].last < a
  <2>1. ASSUME NEW id \in DOMAIN m.segments, m.segments[id].count > 0
        PROVE  m.segments[id].last < a
    <3>1. PICK j \in 1 .. d : IsPush(l[j]) /\ m.segments[id].last <= l[j].index
      BY <2>1 DEF CatalogOK
    <3>2. l[j].index \in Nat /\ l[j].index < a
      BY <1>1, <3>1
    <3> QED
      BY <1>2, <1>4, <3>1, <3>2
  <2> QED
    BY <2>1
<1>9. \A id \in DOMAIN m.segments : m2.segments[id].count > 0 =>
         m2.segments[id].last \in Nat /\ m2.segments[id].last <= b
  <2>1. ASSUME NEW id \in DOMAIN m.segments, m2.segments[id].count > 0
        PROVE  m2.segments[id].last \in Nat /\ m2.segments[id].last <= b
    <3>1. CASE id = g
      BY <1>2, <1>6, <3>1
    <3>2. CASE id # g
      <4>1. m2.segments[id] = m.segments[id]
        BY <1>6, <3>2
      <4>2. m.segments[id].last \in Nat /\ m.segments[id].last < a
        BY <1>4, <1>8, <2>1, <4>1
      <4> QED
        BY <1>2, <4>1, <4>2
    <3> QED
      BY <3>1, <3>2
  <2> QED
    BY <2>1
<1>10. SegmentsOK(m2)
  <2>1. m2.active < m2.next_id /\ m2.active \in DOMAIN m2.segments \cup {0}
    BY <1>5, <1>6 DEF g
  <2>2. ASSUME NEW id \in DOMAIN m2.segments
        PROVE  id > 0 /\ id <= m2.active /\ (m2.segments[id].sealed <=> id # m2.active)
    <3>1. m2.segments[id].sealed = m.segments[id].sealed
      BY <1>6
    <3> QED
      BY <1>5, <1>6, <3>1
  <2>3. ASSUME NEW x \in DOMAIN m2.segments, NEW y \in DOMAIN m2.segments, x < y,
               m2.segments[x].count > 0, m2.segments[y].count > 0
        PROVE  m2.segments[x].last <= m2.segments[y].last
    <3>0. x \in DOMAIN m.segments /\ y \in DOMAIN m.segments /\ x \in Nat /\ y \in Nat /\ g \in Nat
      BY <1>4, <1>5, <1>6
    <3>1. CASE y = g
      <4>1. m2.segments[y].last = b
        BY <1>6, <3>1
      <4> QED
        BY <1>9, <2>3, <3>0, <4>1
    <3>2. CASE y # g
      <4>1. x # g
        BY <1>5, <2>3, <3>0, <3>2
      <4>2. m2.segments[x] = m.segments[x] /\ m2.segments[y] = m.segments[y]
        BY <1>6, <3>0, <3>2, <4>1
      <4> QED
        BY <1>5, <2>3, <3>0, <4>2
    <3> QED
      BY <3>1, <3>2
  <2> QED
    BY <2>1, <2>2, <2>3 DEF SegmentsOK
<1>11. \A id \in DOMAIN m2.segments : m2.segments[id].count > 0 =>
          \E j \in 1 .. u : IsPush(l[j]) /\ m2.segments[id].last <= l[j].index
  BY <1>2, <1>6, <1>9 DEF b
<1>12. ASSUME NEW c \in m2.chunks PROVE ChunkOK(m2, l, u, c)
  <2>1. CASE c = k
    <3>1. m2.segments[g].count > 0
      BY <1>4, <1>5, <1>6
    <3>2. c.offset + c.size <= m2.segments[c.segment].len
      BY <1>2, <1>4, <1>5, <1>6, <1>7, <2>1
    <3>3. c.last <= m2.segments[c.segment].last
      BY <1>2, <1>6, <1>7, <2>1
    <3>4. \E j \in 1 .. u : IsPush(l[j]) /\ l[j].index = c.last
      BY <1>2, <1>7, <2>1 DEF b
    <3> QED
      BY <1>5, <1>6, <1>7, <2>1, <3>1, <3>2, <3>3, <3>4 DEF ChunkOK
  <2>2. CASE c # k
    <3>1. c \in m.chunks
      BY <1>6, <2>2
    <3>2. ChunkOK(m, l, d, c)
      BY <3>1 DEF CatalogOK
    <3> DEFINE h == c.segment
    <3>3. /\ h \in DOMAIN m.segments /\ m.segments[h].count > 0
          /\ c.offset + c.size <= m.segments[h].len /\ c.size = c.last - c.first + 1
          /\ c.last <= m.segments[h].last
          /\ \E j \in 1 .. d : IsPush(l[j]) /\ l[j].index = c.last
      BY <3>2 DEF ChunkOK
    <3>4. c.offset \in Nat /\ c.size \in Nat /\ c.last \in Nat
      BY <1>4, <3>1
    <3>5. \E j \in 1 .. u : IsPush(l[j]) /\ l[j].index = c.last
      BY <1>31, <3>3
    <3> HIDE DEF h
    <3>6. CASE h # g
      <4>1. m2.segments[h] = m.segments[h]
        BY <1>6, <3>3, <3>6
      <4> QED
        BY <1>6, <3>3, <3>5, <4>1 DEF ChunkOK, h
    <3>7. CASE h = g
      <4>1. m2.segments[h].count > 0
        BY <1>4, <1>5, <1>6, <3>7
      <4>2. c.offset + c.size <= m2.segments[h].len
        BY <1>2, <1>4, <1>5, <1>6, <3>3, <3>4, <3>7
      <4>3. c.last <= m2.segments[h].last
        <5>1. m.segments[h].last < a /\ m.segments[h].last \in Nat
          BY <1>4, <1>8, <3>3
        <5> QED
          BY <1>2, <1>6, <3>3, <3>4, <3>7, <5>1
      <4> QED
        BY <1>6, <3>3, <3>5, <4>1, <4>2, <4>3 DEF ChunkOK, h
    <3> QED
      BY <3>6, <3>7
  <2> QED
    BY <2>1, <2>2
<1>13. ASSUME NEW j \in 1 .. u, IsPush(l[j]) PROVE \E c \in m2.chunks : l[j].index <= c.last
  <2>1. CASE j \in 1 .. d
    <3>1. \E c \in m.chunks : l[j].index <= c.last
      BY <1>13, <2>1 DEF CatalogOK
    <3> QED
      BY <1>6, <3>1
  <2>2. CASE j \in d + 1 .. u
    BY <1>1, <1>6, <1>7, <2>2
  <2> QED
    BY <1>3, <2>1, <2>2
<1>14. ASSUME NEW s \in Slot, m2.slots[s].open PROVE RowOK(m2, l, u, m2.slots[s])
  <2> DEFINE r == m2.slots[s]
  <2>1. CASE r.segment = g /\ \E j \in d + 1 .. u : r.head = l[j].index
    <3>1. PICK j \in d + 1 .. u : r.head = l[j].index
      BY <2>1
    <3>2. IsPush(l[j]) /\ j \in 1 .. u /\ r.head <= b
      BY <1>1, <1>31, <3>1
    <3>3. m2.segments[g].count > 0 /\ m2.segments[g].last = b
      BY <1>4, <1>5, <1>6
    <3>4. ASSUME NEW i \in 1 .. u, IsPush(l[i]), l[i].index >= r.head
          PROVE  \E c \in m2.chunks : c.segment >= r.segment /\ l[i].index \in c.first .. c.last
      <4>1. i >= j
        BY <1>1, <3>1, <3>2, <3>4
      <4>2. i \in d + 1 .. u
        BY <4>1
      <4>3. l[i].index \in a .. b
        <5>1. l[i].index \in Nat /\ a <= l[i].index /\ l[i].index <= b
          BY <1>1, <3>4, <4>2
        <5> QED
          BY <1>2, <5>1
      <4>4. g >= g
        BY <1>4 DEF g
      <4> QED
        BY <1>6, <1>7, <2>1, <4>3, <4>4
    <3> QED
      BY <1>5, <1>6, <2>1, <3>1, <3>2, <3>3, <3>4 DEF RowOK
  <2>2. CASE /\ m.slots[s].open /\ r.segment = m.slots[s].segment /\ r.head = m.slots[s].head
    <3>1. RowOK(m, l, d, m.slots[s])
      BY <2>2 DEF CatalogOK
    <3>2. /\ r.segment \in DOMAIN m.segments /\ m.segments[r.segment].count > 0
          /\ r.head <= m.segments[r.segment].last
          /\ \E j \in 1 .. d : IsPush(l[j]) /\ l[j].index = r.head
          /\ \A j \in 1 .. d : IsPush(l[j]) /\ l[j].index >= r.head =>
                \E c \in m.chunks : c.segment >= r.segment /\ l[j].index \in c.first .. c.last
      BY <2>2, <3>1 DEF RowOK
    <3>3. r.head \in Nat /\ r.segment \in Nat
      BY <1>4, <2>2
    <3>4. m2.segments[r.segment].count > 0 /\ r.head <= m2.segments[r.segment].last
      <4>1. CASE r.segment = g
        <5>1. m.segments[g].last < a /\ m.segments[g].last \in Nat /\ r.head <= m.segments[g].last
          BY <1>4, <1>8, <3>2, <4>1
        <5>2. r.head <= b
          BY <1>2, <3>3, <5>1
        <5>3. m2.segments[g].count > 0 /\ m2.segments[g].last = b
          BY <1>4, <1>5, <1>6
        <5> QED
          BY <4>1, <5>2, <5>3
      <4>2. CASE r.segment # g
        BY <1>6, <3>2, <4>2
      <4> QED
        BY <4>1, <4>2
    <3>5. ASSUME NEW i \in 1 .. u, IsPush(l[i]), l[i].index >= r.head
          PROVE  \E c \in m2.chunks : c.segment >= r.segment /\ l[i].index \in c.first .. c.last
      <4>1. CASE i \in 1 .. d
        BY <1>6, <3>2, <3>5, <4>1
      <4>2. CASE i \in d + 1 .. u
        <5>1. l[i].index \in a .. b
          <6>1. l[i].index \in Nat /\ a <= l[i].index /\ l[i].index <= b
            BY <1>1, <3>5, <4>2
          <6> QED
            BY <1>2, <6>1
        <5>2. g >= r.segment
          BY <1>4, <1>5, <3>2, <3>3 DEF g
        <5> QED
          BY <1>6, <1>7, <5>1, <5>2
      <4> QED
        BY <1>3, <4>1, <4>2
    <3>6. \E j \in 1 .. u : IsPush(l[j]) /\ l[j].index = r.head
      BY <1>31, <3>2
    <3> QED
      BY <1>6, <3>2, <3>4, <3>5, <3>6 DEF RowOK
  <2> QED
    BY <1>6, <1>14, <2>1, <2>2
<1> QED
  BY <1>6, <1>10, <1>11, <1>12, <1>13, <1>14 DEF CatalogOK

\* The catalog m2 is m without the segments that are not needed from index until on.
Trimmed(m, m2, until) ==
    LET gone == {id \in DOMAIN m.segments :
                    m.segments[id].sealed /\ m.segments[id].count > 0 /\ m.segments[id].last < until}
    IN  /\ CatalogType(m2)
        /\ m2.active = m.active /\ m2.next_id = m.next_id
        /\ DOMAIN m2.segments = DOMAIN m.segments \ gone
        /\ \A id \in DOMAIN m2.segments : m2.segments[id] = m.segments[id]
        /\ m2.chunks = {c \in m.chunks : c.segment \notin gone}
        /\ \A s \in Slot : m2.slots[s].open =>
              m.slots[s].open /\ m2.slots[s] = m.slots[s] /\ m.slots[s].segment \notin gone

\* The commit of a trim keeps the catalog right: the segments of a row are above those
\* that go, and so is the last one.
LEMMA CatalogTrims ==
    ASSUME NEW m, NEW m2, NEW l, NEW n, NEW d \in Nat, JournalOK(l, n), CatalogOK(m, l, d),
           d + 1 <= Len(l), ~IsPush(l[d + 1]), Trimmed(m, m2, l[d + 1].until)
    PROVE  CatalogOK(m2, l, d + 1)
<1> DEFINE until == l[d + 1].until
           gone == {id \in DOMAIN m.segments :
                      m.segments[id].sealed /\ m.segments[id].count > 0 /\ m.segments[id].last < until}
<1>1. l \in Seq(Command) /\ Len(l) \in Nat /\ d + 1 \in 1 .. Len(l)
  BY DEF JournalOK
<1>2. until \in Nat
  <2>1. l[d + 1] \in Command
    BY <1>1
  <2> QED
    BY <2>1 DEF Command, PushCommand, TrimCommand, IsPush
<1>3. \A j \in 1 .. d + 1 : IsPush(l[j]) => j \in 1 .. d
  <2>1. \A j \in 1 .. d + 1 : j = d + 1 \/ j \in 1 .. d
    OBVIOUS
  <2> QED
    BY <2>1
<1>4. \A j \in 1 .. d : j \in 1 .. d + 1 /\ j \in 1 .. Len(l)
  BY <1>1
<1>5. \A j \in 1 .. d : IsPush(l[j]) => l[j].index \in Nat
  <2>1. ASSUME NEW j \in 1 .. d, IsPush(l[j]) PROVE l[j].index \in Nat
    <3>1. l[j] \in Command
      BY <1>1, <1>4
    <3> QED
      BY <2>1, <3>1 DEF Command, PushCommand, TrimCommand, IsPush
  <2> QED
    BY <2>1
<1>6. PICK p \in 1 .. d : IsPush(l[p]) /\ l[p].index >= until
  <2>1. \E j \in 1 .. (d + 1) - 1 : IsPush(l[j]) /\ l[j].index >= l[d + 1].until
    BY <1>1 DEF JournalOK
  <2>2. (d + 1) - 1 = d
    OBVIOUS
  <2> QED
    BY <2>1, <2>2
<1>7. /\ CatalogType(m2) /\ m2.active = m.active /\ m2.next_id = m.next_id
      /\ DOMAIN m2.segments = DOMAIN m.segments \ gone
      /\ \A id \in DOMAIN m2.segments : m2.segments[id] = m.segments[id]
      /\ m2.chunks = {c \in m.chunks : c.segment \notin gone}
      /\ \A s \in Slot : m2.slots[s].open =>
            m.slots[s].open /\ m2.slots[s] = m.slots[s] /\ m.slots[s].segment \notin gone
  BY DEF Trimmed
<1>8. /\ DOMAIN m.segments \subseteq Nat /\ m.active \in Nat
      /\ \A id \in DOMAIN m.segments : m.segments[id].last \in Nat /\ m.segments[id].count \in Nat
      /\ \A c \in m.chunks : c.segment \in Nat /\ c.last \in Nat
      /\ \A s \in Slot : m.slots[s].open => m.slots[s].head \in Nat /\ m.slots[s].segment \in Nat
  BY CatalogFields DEF CatalogOK
<1>9. SegmentsOK(m)
  BY DEF CatalogOK
<1>10. m.active \notin gone
  BY <1>9 DEF SegmentsOK
<1>11. \A id \in DOMAIN m.segments : id \in gone => m.segments[id].last < until
  OBVIOUS
<1>12. \A id \in DOMAIN m.segments :
          id \notin gone /\ m.segments[id].count > 0 => id = m.active \/ m.segments[id].last >= until
  <2>1. ASSUME NEW id \in DOMAIN m.segments, id \notin gone, m.segments[id].count > 0, id # m.active
        PROVE  m.segments[id].last >= until
    <3>1. m.segments[id].sealed
      BY <1>9, <2>1 DEF SegmentsOK
    <3>2. ~(m.segments[id].last < until) /\ m.segments[id].last \in Nat
      BY <1>8, <2>1, <3>1
    <3> QED
      BY <1>2, <3>2
  <2> QED
    BY <2>1
<1> HIDE DEF until, gone
<1>13. SegmentsOK(m2)
  BY <1>7, <1>9, <1>10 DEF SegmentsOK
<1>14. \A id \in DOMAIN m2.segments : m2.segments[id].count > 0 =>
          \E j \in 1 .. d + 1 : IsPush(l[j]) /\ m2.segments[id].last <= l[j].index
  BY <1>4, <1>7 DEF CatalogOK
<1>15. ASSUME NEW c \in m2.chunks PROVE ChunkOK(m2, l, d + 1, c)
  <2>1. ChunkOK(m, l, d, c) /\ c.segment \notin gone
    BY <1>7 DEF CatalogOK
  <2>2. c.segment \in DOMAIN m2.segments /\ m2.segments[c.segment] = m.segments[c.segment]
    BY <1>7, <2>1 DEF ChunkOK
  <2> QED
    BY <1>4, <2>1, <2>2 DEF ChunkOK
<1>16. ASSUME NEW c \in m.chunks, c.last >= until PROVE c \in m2.chunks
  <2>1. c.segment \in DOMAIN m.segments /\ c.last <= m.segments[c.segment].last
    BY DEF CatalogOK, ChunkOK
  <2>2. ~(m.segments[c.segment].last < until)
    BY <1>2, <1>8, <1>16, <2>1
  <2> QED
    BY <1>7, <1>11, <2>1, <2>2
<1>17. ASSUME NEW j \in 1 .. d + 1, IsPush(l[j]) PROVE \E c \in m2.chunks : l[j].index <= c.last
  <2>1. j \in 1 .. d
    BY <1>3, <1>17
  <2>2. PICK c1 \in m.chunks : l[j].index <= c1.last
    BY <1>17, <2>1 DEF CatalogOK
  <2>3. PICK c2 \in m.chunks : l[p].index <= c2.last
    BY <1>6 DEF CatalogOK
  <2>4. l[j].index \in Nat /\ l[p].index \in Nat /\ c1.last \in Nat /\ c2.last \in Nat
    BY <1>5, <1>6, <1>8, <1>17, <2>1
  <2>5. CASE c1.last >= until
    BY <1>16, <2>2, <2>5
  <2>6. CASE c1.last < until
    <3>1. c2.last >= until /\ l[j].index <= c2.last
      BY <1>2, <1>6, <2>2, <2>3, <2>4, <2>6
    <3> QED
      BY <1>16, <3>1
  <2> QED
    BY <1>2, <2>4, <2>5, <2>6
<1>18. ASSUME NEW s \in Slot, m2.slots[s].open PROVE RowOK(m2, l, d + 1, m2.slots[s])
  <2> DEFINE r == m.slots[s]
  <2>1. r.open /\ m2.slots[s] = r /\ r.segment \notin gone
    BY <1>7, <1>18
  <2>2. RowOK(m, l, d, r)
    BY <2>1 DEF CatalogOK
  <2>3. /\ r.segment \in DOMAIN m.segments /\ m.segments[r.segment].count > 0
        /\ r.head <= m.segments[r.segment].last
        /\ \E j \in 1 .. d : IsPush(l[j]) /\ l[j].index = r.head
        /\ \A j \in 1 .. d : IsPush(l[j]) /\ l[j].index >= r.head =>
              \E c \in m.chunks : c.segment >= r.segment /\ l[j].index \in c.first .. c.last
    BY <2>2 DEF RowOK
  <2>4. r.segment \in Nat
    BY <1>8, <2>1
  <2> HIDE DEF r
  <2>5. ASSUME NEW c \in m.chunks, c.segment >= r.segment PROVE c \in m2.chunks
    <3>1. c.segment \in DOMAIN m.segments /\ m.segments[c.segment].count > 0 /\ c.segment \in Nat
      BY <1>8 DEF CatalogOK, ChunkOK
    <3>2. c.segment \notin gone
      <4>1. CASE c.segment = r.segment
        BY <2>1, <4>1
      <4>2. CASE c.segment > r.segment
        <5>1. r.segment # m.active
          <6>1. c.segment <= m.active
            BY <1>9, <3>1 DEF SegmentsOK
          <6> QED
            BY <1>8, <2>4, <3>1, <4>2, <6>1
        <5>2. m.segments[r.segment].last >= until
          BY <1>12, <2>1, <2>3, <5>1
        <5>3. m.segments[r.segment].last <= m.segments[c.segment].last
          BY <1>9, <2>3, <2>4, <3>1, <4>2 DEF SegmentsOK
        <5>4. ~(m.segments[c.segment].last < until)
          BY <1>2, <1>8, <2>3, <3>1, <5>2, <5>3
        <5> QED
          BY <1>11, <3>1, <5>4
      <4> QED
        BY <2>4, <2>5, <3>1, <4>1, <4>2
    <3> QED
      BY <1>7, <3>2
  <2>6. ASSUME NEW j \in 1 .. d + 1, IsPush(l[j]), l[j].index >= r.head
        PROVE  \E c \in m2.chunks : c.segment >= r.segment /\ l[j].index \in c.first .. c.last
    <3>1. PICK c \in m.chunks : c.segment >= r.segment /\ l[j].index \in c.first .. c.last
      BY <1>3, <2>3, <2>6
    <3> QED
      BY <2>5, <3>1
  <2>7. r.segment \in DOMAIN m2.segments /\ m2.segments[r.segment] = m.segments[r.segment]
    BY <1>7, <2>1, <2>3
  <2> QED
    BY <1>4, <2>1, <2>3, <2>6, <2>7 DEF RowOK
<1> QED
  BY <1>7, <1>13, <1>14, <1>15, <1>17, <1>18 DEF CatalogOK

-----------------------------------------------------------------------------
(* The files *)

\* A part of a file is a sequence, also when it starts behind the end.
LEMMA PartOfFile ==
    ASSUME NEW S, NEW content \in Seq(S), NEW m \in Nat \ {0}, NEW n \in Nat, n <= Len(content)
    PROVE  SubSeq(content, m, n) \in Seq(S)
<1>1. CASE m <= n + 1
  <2>1. m \in 1 .. Len(content) + 1 /\ n \in 0 .. Len(content)
    BY <1>1
  <2> QED
    BY <2>1
<1>2. CASE m > n + 1
  <2>1. SubSeq(content, m, n) = <<>>
    BY <1>2
  <2> QED
    BY <2>1
<1> QED
  BY <1>1, <1>2

\* A write changes nothing before its offset and puts all of the data behind it.
LEMMA WriteAtElements ==
    ASSUME NEW content \in Seq(Nat), NEW data \in Seq(Nat), NEW offset \in Nat,
           offset <= Len(content)
    PROVE  /\ WriteAt(content, offset, data) \in Seq(Nat)
           /\ offset + Len(data) <= Len(WriteAt(content, offset, data))
           /\ \A i \in 1 .. offset : WriteAt(content, offset, data)[i] = content[i]
           /\ \A i \in 1 .. Len(data) : WriteAt(content, offset, data)[offset + i] = data[i]
<1> DEFINE A == SubSeq(content, 1, offset)
           B == SubSeq(content, offset + Len(data) + 1, Len(content))
<1>1. A \in Seq(Nat) /\ Len(A) = offset /\ \A i \in 1 .. offset : A[i] = content[i]
  OBVIOUS
<1>2. B \in Seq(Nat)
  <2>1. offset + Len(data) + 1 \in Nat \ {0} /\ Len(content) \in Nat
    OBVIOUS
  <2> QED
    BY <2>1, PartOfFile
<1> HIDE DEF A, B
<1> DEFINE C == A \o data
<1>3. /\ C \in Seq(Nat) /\ Len(C) = offset + Len(data)
      /\ \A i \in 1 .. offset : C[i] = content[i]
      /\ \A i \in 1 .. Len(data) : C[offset + i] = data[i]
  <2>1. /\ A \o data \in Seq(Nat) /\ Len(A \o data) = Len(A) + Len(data)
        /\ \A i \in 1 .. Len(A) : (A \o data)[i] = A[i]
        /\ \A i \in 1 .. Len(data) : (A \o data)[Len(A) + i] = data[i]
    <3>1. A \in Seq(Nat)
      BY <1>1
    <3> QED
      BY <3>1, Joined
  <2> QED
    BY <1>1, <2>1
<1> HIDE DEF C
<1>4. /\ C \o B \in Seq(Nat) /\ Len(C \o B) = Len(C) + Len(B)
      /\ \A i \in 1 .. Len(C) : (C \o B)[i] = C[i]
  <2>1. C \in Seq(Nat)
    BY <1>3
  <2> QED
    BY <1>2, <2>1, Joined
<1>5. WriteAt(content, offset, data) = C \o B
  BY DEF WriteAt, C, A, B
<1>6. /\ \A i \in 1 .. offset : i \in 1 .. Len(C)
      /\ \A i \in 1 .. Len(data) : offset + i \in 1 .. Len(C)
  BY <1>3
<1>7. Len(B) \in Nat /\ Len(C) \in Nat
  BY <1>2, <1>3
<1> QED
  BY <1>3, <1>4, <1>5, <1>6, <1>7

\* The first k records of file x are those of file y.
SameUpTo(x, y, k) == Len(y) \in Nat /\ k <= Len(y) /\ \A i \in 1 .. k : y[i] = x[i]

\* What is in the first part of a file stays there when that part stays.
LEMMA HoldsStays ==
    ASSUME NEW x, NEW y, NEW k \in Nat, NEW offset \in Nat, NEW first \in Nat, NEW last \in Nat,
           Holds(x, offset, first, last), offset + last - first + 1 <= k, SameUpTo(x, y, k)
    PROVE  Holds(y, offset, first, last)
<1>1. \A i \in 1 .. last - first + 1 : offset + i \in 1 .. k
  OBVIOUS
<1>2. offset + last - first + 1 <= Len(y)
  BY DEF SameUpTo
<1> QED
  BY <1>1, <1>2 DEF Holds, SameUpTo

\* The files of DiskOK are sequences of records.
LEMMA DiskFiles ==
    ASSUME NEW fs, fs \in UNION {[D -> Seq(Nat)] : D \in SUBSET Nat}
    PROVE  /\ DOMAIN fs \subseteq Nat /\ fs = [id \in DOMAIN fs |-> fs[id]]
           /\ \A id \in DOMAIN fs : fs[id] \in Seq(Nat) /\ Len(fs[id]) \in Nat
<1>1. PICK D \in SUBSET Nat : fs \in [D -> Seq(Nat)]
  OBVIOUS
<1> QED
  BY <1>1

\* A function with ids as its domain and sequences of records as its values is a set of files.
LEMMA DiskOf ==
    ASSUME NEW D \in SUBSET Nat, NEW fs, fs \in [D -> Seq(Nat)]
    PROVE  fs \in UNION {[E -> Seq(Nat)] : E \in SUBSET Nat}
  OBVIOUS

\* The files of a step of the writer that changes only files, phase and item.
LEMMA DiskRewritten ==
    ASSUME NEW fs, NEW fs2, NEW m, NEW p, NEW x, NEW p2, NEW x2, NEW l, NEW d,
           DiskOK(fs, m, p, x), CatalogOK(m, l, d),
           fs2 \in UNION {[D -> Seq(Nat)] : D \in SUBSET Nat},
           DOMAIN m.segments \subseteq DOMAIN fs2,
           \A id \in DOMAIN m.segments :
              /\ m.segments[id].len <= Len(fs2[id])
              /\ \A i \in 1 .. m.segments[id].len : fs2[id][i] = fs[id][i],
           \A id \in DOMAIN fs2 : id < m.next_id \/ (id = m.next_id /\ p2 \in {"created", "open"}),
           p2 = "created" => m.next_id \in DOMAIN fs2 /\ fs2[m.next_id] = <<>>,
           p2 \in {"ready", "written", "deleting"} => m.active # 0,
           p2 = "written" => Holds(fs2[m.active], m.segments[m.active].len, x2.first, x2.last),
           p2 = "deleting" => x2 \in Deleted /\ x2.ids \cap DOMAIN m.segments = {}
    PROVE  DiskOK(fs2, m, p2, x2)
<1>1. /\ \A id \in DOMAIN m.segments : m.segments[id].len \in Nat
      /\ \A c \in m.chunks : /\ c.offset \in Nat /\ c.size \in Nat
                             /\ c.first \in Nat /\ c.last \in Nat
  BY CatalogFields DEF CatalogOK
<1>2. ASSUME NEW c \in m.chunks PROVE Holds(fs2[c.segment], c.offset, c.first, c.last)
  <2> DEFINE g == c.segment
  <2>1. /\ g \in DOMAIN m.segments /\ c.offset + c.size <= m.segments[g].len
        /\ c.size = c.last - c.first + 1
    BY DEF CatalogOK, ChunkOK
  <2>2. Holds(fs[g], c.offset, c.first, c.last)
    BY DEF DiskOK
  <2> HIDE DEF g
  <2>3. /\ c.offset \in Nat /\ c.first \in Nat /\ c.last \in Nat /\ m.segments[g].len \in Nat
    BY <1>1, <2>1
  <2>4. c.offset + c.last - c.first + 1 <= m.segments[g].len
    BY <1>1, <2>1, <2>3
  <2>5. fs2[g] \in Seq(Nat) /\ Len(fs2[g]) \in Nat
    BY <2>1, DiskFiles
  <2>6. m.segments[g].len <= Len(fs2[g]) /\ \A i \in 1 .. m.segments[g].len : fs2[g][i] = fs[g][i]
    BY <2>1
  <2>7. SameUpTo(fs[g], fs2[g], m.segments[g].len)
    BY <2>5, <2>6 DEF SameUpTo
  <2>8. Holds(fs2[g], c.offset, c.first, c.last)
    BY <2>2, <2>3, <2>4, <2>7, HoldsStays
  <2> QED
    BY <2>8 DEF g
<1> QED
  BY <1>2 DEF DiskOK

-----------------------------------------------------------------------------
(* The steps: sender *)

\* Publish keeps the invariant.
LEMMA PublishStep ==
    ASSUME StorageInv, NEW s \in Slot, NEW h \in Higher, NEW final \in BOOLEAN,
           Publish(s, h, final)
    PROVE  StorageInv'
<1>1. /\ Journaled' /\ index <= index'
      /\ Len(log) < Len(log') /\ \A i \in 1 .. Len(log) : log'[i] = log[i]
  BY PublishJournaled DEF StorageInv
<1>2. /\ taken' = taken /\ flushed' = flushed /\ collector_seq' = collector_seq /\ raw' = raw
      /\ busy' = busy /\ compressed' = compressed /\ writer_seq' = writer_seq /\ phase' = phase
      /\ item' = item /\ files' = files /\ meta' = meta /\ durable' = durable /\ failed' = failed
      /\ slot_finalized' \in {s, slot_finalized}
  BY DEF Publish, collectorVars, writerVars, diskVars
<1>3. /\ durable \in Nat /\ flushed \in Nat /\ taken \in Nat /\ durable <= flushed
      /\ flushed <= taken /\ taken <= Len(log) /\ Len(log) \in Nat /\ Len(log') \in Nat
  BY <1>1 DEF StorageInv, CollectorOK, Journaled, JournalOK
<1>4. CollectorOK(log', durable, flushed, taken)
  <2>1. \A i \in 1 .. taken : log'[i] = log[i]
    BY <1>1, <1>3
  <2>2. durable > 0 => durable \in 1 .. taken
    BY <1>3
  <2>3. \A i \in flushed + 1 .. taken : i \in 1 .. taken
    BY <1>3
  <2>4. CollectorOK(log, durable, flushed, taken)
    BY DEF StorageInv
  <2>5. taken <= Len(log')
    BY <1>1, <1>3
  <2> QED
    BY <2>1, <2>2, <2>3, <2>4, <2>5 DEF CollectorOK
<1>5. PICK cut : Pipe(cut)
  BY DEF StorageInv
<1>6. Pipe(cut)'
  <2>1. \A i \in 1 .. flushed : log'[i] = log[i]
    BY <1>1, <1>3
  <2>2. PipeAt(cut, log', durable, flushed, writer_seq, collector_seq, raw, busy, Done)
    BY <1>5, <2>1, PipeOfLonger DEF Pipe
  <2> QED
    BY <1>2, <2>2 DEF Pipe, Done
<1>7. CatalogOK(meta, log', durable)
  <2>1. \A i \in 1 .. durable : log'[i] = log[i]
    BY <1>1, <1>3
  <2>2. CatalogOK(meta, log, durable)
    BY DEF StorageInv
  <2> QED
    BY <2>1, <2>2, CatalogStays DEF CatalogOK
<1>8. meta.floor <= index'
  <2>1. meta.floor \in Nat
    BY CatalogFields DEF StorageInv, CatalogOK
  <2>2. index \in Nat /\ index' \in Nat
    BY <1>1 DEF StorageInv, Journaled, SenderOK
  <2> QED
    BY <1>1, <2>1, <2>2 DEF StorageInv
<1>9. (Written /\ Phases /\ Pool /\ ~failed)' /\ slot_finalized' \in Slot \cup {0}
  BY <1>2 DEF StorageInv, Written, Phases, Pool
<1>10. DiskOK(files, meta, phase, item)'
  BY <1>2 DEF StorageInv
<1> QED
  BY <1>1, <1>2, <1>4, <1>6, <1>7, <1>8, <1>9, <1>10 DEF StorageInv

\* A new floor changes nothing else in the catalog.
LEMMA DiskStays ==
    ASSUME NEW fs, NEW m, NEW m2, NEW p, NEW x, DiskOK(fs, m, p, x),
           m2.segments = m.segments, m2.chunks = m.chunks, m2.active = m.active,
           m2.next_id = m.next_id
    PROVE  DiskOK(fs, m2, p, x)
  BY DEF DiskOK

\* BeginLiveEpoch keeps the invariant.
LEMMA BeginLiveEpochStep ==
    ASSUME StorageInv, BeginLiveEpoch
    PROVE  StorageInv'
<1>1. /\ log' = log /\ index' = index /\ slot_finalized' = slot_finalized
      /\ taken' = taken /\ flushed' = flushed /\ collector_seq' = collector_seq /\ raw' = raw
      /\ busy' = busy /\ compressed' = compressed /\ writer_seq' = writer_seq /\ phase' = phase
      /\ item' = item /\ files' = files /\ durable' = durable /\ failed' = failed
      /\ replay' = [s \in Slot |-> None] /\ slots' = [s \in Slot |-> None]
      /\ meta' = [meta EXCEPT !.floor = index]
  BY DEF BeginLiveEpoch, collectorVars, writerVars
<1>2. index \in Nat
  BY DEF StorageInv, Journaled, SenderOK
<1>3. /\ CatalogType(meta') /\ meta'.slots = meta.slots /\ meta'.segments = meta.segments
      /\ meta'.chunks = meta.chunks /\ meta'.active = meta.active /\ meta'.next_id = meta.next_id
      /\ meta'.floor = index
  <2> DEFINE S == [Slot -> SlotRow]
             T == UNION {[D -> SegmentRow] : D \in SUBSET Nat}
             C == SUBSET ChunkRow
  <2>1. meta \in [slots : S, segments : T, chunks : C, next_id : Nat, active : Nat, floor : Nat]
    BY DEF StorageInv, CatalogOK, CatalogType
  <2> HIDE DEF S, T, C
  <2>2. meta' \in [slots : S, segments : T, chunks : C, next_id : Nat, active : Nat, floor : Nat]
    BY <1>1, <1>2, <2>1
  <2>3. /\ meta'.slots = meta.slots /\ meta'.segments = meta.segments
        /\ meta'.chunks = meta.chunks /\ meta'.active = meta.active
        /\ meta'.next_id = meta.next_id /\ meta'.floor = index
    BY <1>1, <2>1
  <2> QED
    BY <2>2, <2>3 DEF CatalogType, S, T, C
<1>4. Journaled'
  <2>1. SenderOK(log, index, replay', slots')
    BY <1>1, <1>2 DEF SenderOK
  <2> QED
    BY <1>1, <2>1 DEF StorageInv, Journaled
<1>5. CatalogOK(meta', log, durable)
  BY <1>3, CatalogStays DEF StorageInv
<1>6. DiskOK(files, meta', phase, item)
  BY <1>3, DiskStays DEF StorageInv
<1>7. \E cut : Pipe(cut)'
  BY <1>1 DEF StorageInv, Pipe, Done
<1>8. (Written /\ Phases /\ Pool /\ ~failed)'
  BY <1>1 DEF StorageInv, Written, Phases, Pool
<1>9. meta'.floor <= index'
  BY <1>1, <1>2, <1>3
<1> QED
  BY <1>1, <1>4, <1>5, <1>6, <1>7, <1>8, <1>9 DEF StorageInv

-----------------------------------------------------------------------------
(* The steps: collector and compressors *)

\* What the collector flushes is the item of the commands that wait.
LEMMA ChunkIsItem ==
    ASSUME log \in Seq(Command), flushed \in Nat, NEW t \in Nat, flushed < t, t <= Len(log),
           \A i \in flushed + 1 .. t : IsPush(log[i]), NEW seq
    PROVE  Chunk(seq, t) = ItemOf(log, seq, flushed, t)
<1> DEFINE r == Pending(t)
<1>1. /\ r \in Seq(Command) /\ Len(r) = t - flushed
      /\ \A i \in 1 .. Len(r) : r[i] = log[flushed + i]
  <2>1. flushed + 1 \in 1 .. Len(log) + 1 /\ t \in 0 .. Len(log)
    OBVIOUS
  <2> QED
    BY <2>1 DEF Pending
<1> HIDE DEF r
<1>2. DOMAIN r = 1 .. Len(r) /\ Len(r) \in Nat /\ Len(r) > 0
  BY <1>1
<1>3. r[1] = log[flushed + 1] /\ r[Len(r)] = log[t]
  <2>1. 1 \in 1 .. Len(r) /\ Len(r) \in 1 .. Len(r) /\ flushed + Len(r) = t
    BY <1>1, <1>2
  <2> QED
    BY <1>1, <2>1
<1>4. /\ \A i \in DOMAIN r : flushed + i \in flushed + 1 .. t /\ r[i] = log[flushed + i]
      /\ \A j \in flushed + 1 .. t : j - flushed \in DOMAIN r /\ r[j - flushed] = log[j]
  <2>1. \A i \in 1 .. Len(r) : flushed + i \in flushed + 1 .. t
    BY <1>1
  <2>2. \A j \in flushed + 1 .. t : j - flushed \in 1 .. Len(r) /\ flushed + (j - flushed) = j
    BY <1>1
  <2> QED
    BY <1>1, <1>2, <2>1, <2>2
<1>5. /\ \A x \in Range(r) : \E j \in flushed + 1 .. t : x = log[j]
      /\ \A j \in flushed + 1 .. t : log[j] \in Range(r)
  BY <1>4 DEF Range
<1>6. {[slot |-> x.slot, head |-> x.index] : x \in {y \in Range(r) : y.init}}
      = {[slot |-> log[i].slot, head |-> log[i].index] : i \in {j \in flushed + 1 .. t : log[j].init}}
  BY <1>5
<1>7. {x.slot : x \in {y \in Range(r) : y.final}}
      = {log[i].slot : i \in {j \in flushed + 1 .. t : log[j].final}}
  BY <1>5
<1>8. Chunk(seq, t) =
        [kind |-> "chunk", seq |-> seq, upto |-> t, first |-> r[1].index, last |-> r[Len(r)].index,
         pending_slots |-> {[slot |-> x.slot, head |-> x.index] : x \in {y \in Range(r) : y.init}},
         finalized |-> {x.slot : x \in {y \in Range(r) : y.final}}]
  BY DEF Chunk, r
<1>9. IsPush(log[t])
  OBVIOUS
<1> QED
  BY <1>3, <1>6, <1>7, <1>8, <1>9, Zenon DEF ItemOf

\* A step of the collector changes nothing but its position and the queue.
LEMMA CollectorMoves ==
    ASSUME StorageInv, UNCHANGED <<log, senderVars, busy, compressed, writerVars, diskVars>>,
           failed' = FALSE, CollectorOK(log, durable, flushed', taken'),
           \E cut : PipeAt(cut, log, durable, flushed', writer_seq, collector_seq', raw', busy, Done)
    PROVE  StorageInv'
<1>1. /\ log' = log /\ index' = index /\ replay' = replay /\ slots' = slots
      /\ slot_finalized' = slot_finalized /\ busy' = busy /\ compressed' = compressed
      /\ writer_seq' = writer_seq /\ phase' = phase /\ item' = item /\ files' = files
      /\ meta' = meta /\ durable' = durable
  BY DEF senderVars, writerVars, diskVars
<1>2. \E cut : Pipe(cut)'
  BY <1>1 DEF Pipe, Done
<1>3. (Written /\ Phases /\ Pool /\ ~failed)'
  BY <1>1 DEF StorageInv, Written, Phases, Pool
<1>4. Journaled' /\ CatalogOK(meta, log, durable)' /\ DiskOK(files, meta, phase, item)'
      /\ (meta.floor <= index)' /\ slot_finalized' \in Slot \cup {0}
  BY <1>1 DEF StorageInv, Journaled
<1>5. CollectorOK(log, durable, flushed, taken)'
  BY <1>1
<1> QED
  BY <1>2, <1>3, <1>4, <1>5 DEF StorageInv

\* CollectRecord keeps the invariant.
LEMMA CollectRecordStep ==
    ASSUME StorageInv, CollectRecord
    PROVE  StorageInv'
<1>1. /\ ~failed /\ taken < Len(log) /\ IsPush(log[taken + 1]) /\ taken' = taken + 1
      /\ UNCHANGED <<log, senderVars, busy, compressed, writerVars, diskVars>> /\ failed' = failed
  BY DEF CollectRecord
<1>2. failed' = FALSE
  BY <1>1 DEF CollectRecord, StorageInv
<1>3. /\ durable \in Nat /\ flushed \in Nat /\ taken \in Nat /\ durable <= flushed
      /\ flushed <= taken /\ taken <= Len(log) /\ Len(log) \in Nat
      /\ durable > 0 => EndsEvent(log[durable])
      /\ log \in Seq(Command)
  BY DEF StorageInv, CollectorOK, Journaled, JournalOK
<1>4. \A i \in flushed + 1 .. taken + 1 : IsPush(log[i])
  <2>1. \A i \in flushed + 1 .. taken : IsPush(log[i])
    BY DEF StorageInv, CollectorOK
  <2>2. \A i \in flushed + 1 .. taken + 1 : i = taken + 1 \/ i \in flushed + 1 .. taken
    BY <1>3
  <2> QED
    BY <1>1, <2>1, <2>2
<1>5. PICK cut : PipeAt(cut, log, durable, flushed, writer_seq, collector_seq, raw, busy, Done)
  BY DEF StorageInv, Pipe
<1>6. CASE UNCHANGED <<flushed, collector_seq, raw>>
  <2>1. CollectorOK(log, durable, flushed', taken')
    BY <1>1, <1>3, <1>4, <1>6 DEF CollectorOK
  <2>2. \E x : PipeAt(x, log, durable, flushed', writer_seq, collector_seq', raw', busy, Done)
    BY <1>5, <1>6
  <2> QED
    BY <1>1, <1>2, <2>1, <2>2, CollectorMoves
<1>7. CASE /\ EndsEvent(log[taken + 1])
           /\ raw' = Append(raw, Chunk(collector_seq, taken + 1))
           /\ collector_seq' = collector_seq + 1 /\ flushed' = taken + 1
  <2>1. CollectorOK(log, durable, flushed', taken')
    BY <1>1, <1>3, <1>7 DEF CollectorOK
  <2>2. Chunk(collector_seq, taken + 1) = ItemOf(log, collector_seq, flushed, taken + 1)
    BY <1>1, <1>3, <1>4, ChunkIsItem
  <2>3. Fits(log, flushed, taken + 1)
    BY <1>4, <1>7 DEF Fits
  <2>4. taken + 1 \in Nat /\ flushed < taken + 1 /\ taken + 1 <= Len(log)
    BY <1>1, <1>3
  <2>5. \E x : PipeAt(x, log, durable, taken + 1, writer_seq, collector_seq + 1,
                      Append(raw, ItemOf(log, collector_seq, flushed, taken + 1)), busy, Done)
    BY <1>3, <1>5, <2>3, <2>4, PipeGrows
  <2> QED
    BY <1>1, <1>2, <1>7, <2>1, <2>2, <2>5, CollectorMoves
<1> QED
  BY <1>6, <1>7 DEF CollectRecord

\* CollectTimeout keeps the invariant.
LEMMA CollectTimeoutStep ==
    ASSUME StorageInv, CollectTimeout
    PROVE  StorageInv'
<1>1. /\ taken > flushed /\ EndsEvent(log[taken]) /\ taken' = taken /\ flushed' = taken
      /\ UNCHANGED <<log, senderVars, busy, compressed, writerVars, diskVars>>
      /\ raw' = Append(raw, Chunk(collector_seq, taken)) /\ collector_seq' = collector_seq + 1
  BY DEF CollectTimeout, TimeoutFlushes
<1>2. failed' = FALSE
  BY DEF CollectTimeout, StorageInv
<1>3. /\ durable \in Nat /\ flushed \in Nat /\ taken \in Nat /\ durable <= flushed
      /\ flushed <= taken /\ taken <= Len(log) /\ Len(log) \in Nat
      /\ durable > 0 => EndsEvent(log[durable])
      /\ log \in Seq(Command) /\ \A i \in flushed + 1 .. taken : IsPush(log[i])
  BY DEF StorageInv, CollectorOK, Journaled, JournalOK
<1>4. PICK cut : PipeAt(cut, log, durable, flushed, writer_seq, collector_seq, raw, busy, Done)
  BY DEF StorageInv, Pipe
<1>5. CollectorOK(log, durable, flushed', taken')
  BY <1>1, <1>3 DEF CollectorOK
<1>6. Chunk(collector_seq, taken) = ItemOf(log, collector_seq, flushed, taken)
  BY <1>1, <1>3, ChunkIsItem
<1>7. Fits(log, flushed, taken) /\ flushed < taken
  BY <1>1, <1>3 DEF Fits
<1>8. \E x : PipeAt(x, log, durable, taken, writer_seq, collector_seq + 1,
                    Append(raw, ItemOf(log, collector_seq, flushed, taken)), busy, Done)
  BY <1>3, <1>4, <1>7, PipeGrows
<1> QED
  BY <1>1, <1>2, <1>5, <1>6, <1>8, CollectorMoves

\* CollectTrim keeps the invariant: what waits before a trim ends a source event.
LEMMA CollectTrimStep ==
    ASSUME StorageInv, CollectTrim
    PROVE  StorageInv'
<1>1. /\ taken < Len(log) /\ ~IsPush(log[taken + 1]) /\ ~failed
      /\ UNCHANGED <<log, senderVars, busy, compressed, writerVars, diskVars>>
  BY DEF CollectTrim
<1>2. /\ durable \in Nat /\ flushed \in Nat /\ taken \in Nat /\ durable <= flushed
      /\ flushed <= taken /\ taken <= Len(log) /\ Len(log) \in Nat
      /\ durable > 0 => EndsEvent(log[durable])
      /\ log \in Seq(Command) /\ \A i \in flushed + 1 .. taken : IsPush(log[i])
  BY DEF StorageInv, CollectorOK, Journaled, JournalOK
<1>3. PICK cut : PipeAt(cut, log, durable, flushed, writer_seq, collector_seq, raw, busy, Done)
  BY DEF StorageInv, Pipe
<1>4. raw \in Seq(Item) /\ collector_seq \in Nat
  BY <1>3 DEF PipeAt
<1>5. ~(taken > flushed /\ ~EndsEvent(log[taken]))
  <2>1. taken + 1 \in 1 .. Len(log) /\ (taken + 1) - 1 = taken
    BY <1>1, <1>2
  <2>2. EndsEvent(log[(taken + 1) - 1])
    BY <1>1, <2>1 DEF StorageInv, Journaled, JournalOK
  <2> QED
    BY <2>1, <2>2
<1> DEFINE chunk == IF taken > flushed THEN <<Chunk(collector_seq, taken)>> ELSE <<>>
           seq == collector_seq + Len(chunk)
<1>6. /\ raw' = raw \o Append(chunk, TrimItem(seq, taken + 1))
      /\ collector_seq' = seq + 1 /\ taken' = taken + 1 /\ flushed' = taken + 1 /\ failed' = failed
  BY <1>5 DEF CollectTrim
<1>7. failed' = FALSE
  BY <1>6 DEF StorageInv, CollectTrim
<1>8. CollectorOK(log, durable, flushed', taken')
  BY <1>1, <1>2, <1>6 DEF CollectorOK
<1>9. /\ taken + 1 \in Nat /\ taken < taken + 1 /\ taken + 1 <= Len(log)
      /\ Fits(log, taken, taken + 1)
  BY <1>1, <1>2 DEF Fits
<1>10. \A k : TrimItem(k, taken + 1) = ItemOf(log, k, taken, taken + 1)
  BY <1>1 DEF TrimItem, ItemOf
<1>11. CASE taken > flushed
  <2>1. Chunk(collector_seq, taken) = ItemOf(log, collector_seq, flushed, taken)
    BY <1>2, <1>11, ChunkIsItem
  <2>2. Fits(log, flushed, taken) /\ flushed < taken
    BY <1>2, <1>5, <1>11 DEF Fits
  <2>3. PICK y : PipeAt(y, log, durable, taken, writer_seq, collector_seq + 1,
                        Append(raw, ItemOf(log, collector_seq, flushed, taken)), busy, Done)
    BY <1>2, <1>3, <2>2, PipeGrows
  <2>4. \E x : PipeAt(x, log, durable, taken + 1, writer_seq, collector_seq + 1 + 1,
                      Append(Append(raw, ItemOf(log, collector_seq, flushed, taken)),
                             ItemOf(log, collector_seq + 1, taken, taken + 1)), busy, Done)
    BY <1>2, <1>9, <2>3, PipeGrows
  <2>5. chunk = <<Chunk(collector_seq, taken)>> /\ seq = collector_seq + 1
    BY <1>11
  <2>6. /\ raw' = raw \o Append(<<Chunk(collector_seq, taken)>>, TrimItem(collector_seq + 1, taken + 1))
        /\ collector_seq' = collector_seq + 1 + 1
    BY <1>6, <2>5
  <2>7. raw' = Append(Append(raw, ItemOf(log, collector_seq, flushed, taken)),
                      ItemOf(log, collector_seq + 1, taken, taken + 1))
    <3>1. \A a, b : raw \o Append(<<a>>, b) = Append(Append(raw, a), b)
      BY <1>4
    <3> QED
      BY <1>10, <2>1, <2>6, <3>1
  <2> QED
    BY <1>1, <1>6, <1>7, <1>8, <2>4, <2>6, <2>7, CollectorMoves
<1>12. CASE ~(taken > flushed)
  <2>1. taken = flushed
    BY <1>2, <1>12
  <2>2. chunk = <<>> /\ seq = collector_seq
    BY <1>4, <1>12
  <2>3. \E x : PipeAt(x, log, durable, taken + 1, writer_seq, collector_seq + 1,
                      Append(raw, ItemOf(log, collector_seq, flushed, taken + 1)), busy, Done)
    BY <1>2, <1>3, <1>9, <2>1, PipeGrows
  <2>4. raw' = raw \o Append(<<>>, TrimItem(collector_seq, taken + 1))
        /\ collector_seq' = collector_seq + 1
    BY <1>6, <2>2
  <2>5. raw' = Append(raw, ItemOf(log, collector_seq, flushed, taken + 1))
    <3>1. \A b : raw \o Append(<<>>, b) = Append(raw, b)
      BY <1>4
    <3> QED
      BY <1>10, <2>1, <2>4, <3>1
  <2> QED
    BY <1>1, <1>6, <1>7, <1>8, <2>3, <2>4, <2>5, CollectorMoves
<1> QED
  BY <1>11, <1>12

\* The compressors keep the invariant.
LEMMA CompressStep ==
    ASSUME StorageInv, Compress
    PROVE  StorageInv'
<1>1. PICK cut : PipeAt(cut, log, durable, flushed, writer_seq, collector_seq, raw, busy, Done)
  BY DEF StorageInv, Pipe
<1>2. /\ log' = log /\ index' = index /\ replay' = replay /\ slots' = slots
      /\ slot_finalized' = slot_finalized /\ taken' = taken /\ flushed' = flushed
      /\ collector_seq' = collector_seq
      /\ writer_seq' = writer_seq /\ phase' = phase /\ item' = item /\ files' = files
      /\ meta' = meta /\ durable' = durable /\ failed' = failed
  BY DEF Compress, CompressorTake, CompressorDone, senderVars, collectorVars, writerVars, diskVars
<1>3. /\ Journaled' /\ CollectorOK(log, durable, flushed, taken)'
      /\ CatalogOK(meta, log, durable)' /\ DiskOK(files, meta, phase, item)'
      /\ (meta.floor <= index)' /\ slot_finalized' \in Slot \cup {0} /\ Phases' /\ ~failed'
  BY <1>2 DEF StorageInv, Journaled, Phases
<1>4. IsFiniteSet(busy) /\ Cardinality(busy) <= Threads /\ Cardinality(busy) \in Nat /\ Threads \in Nat
  BY StorageAssumption, FS_CardinalityType DEF StorageInv, Pool
<1>5. CASE CompressorTake
  <2>1. /\ raw # <<>> /\ Cardinality(busy) < Threads
        /\ busy' = busy \cup {Head(raw)} /\ raw' = Tail(raw) /\ compressed' = compressed
    BY <1>5 DEF CompressorTake
  <2>2. log \in Seq(Command) /\ flushed <= Len(log)
    BY DEF StorageInv, Journaled, JournalOK, CollectorOK
  <2>3. PipeAt(cut, log, durable, flushed, writer_seq, collector_seq, Tail(raw),
               busy \cup {Head(raw)}, Done)
    BY <1>1, <2>1, <2>2, PipeTakes
  <2>4. Pipe(cut)'
    BY <1>2, <2>1, <2>3 DEF Pipe, Done
  <2>5. Written'
    BY <1>2, <2>1 DEF StorageInv, Written
  <2>6. Pool'
    <3>1. IsFiniteSet(busy \cup {Head(raw)})
          /\ (Cardinality(busy \cup {Head(raw)}) = Cardinality(busy)
              \/ Cardinality(busy \cup {Head(raw)}) = Cardinality(busy) + 1)
      BY <1>4, FS_AddElement
    <3> QED
      BY <1>4, <2>1, <3>1 DEF Pool
  <2> QED
    BY <1>3, <2>4, <2>5, <2>6 DEF StorageInv
<1>6. ASSUME NEW x \in busy, CompressorDone(x) PROVE StorageInv'
  <2>1. busy' = busy \ {x} /\ compressed' = compressed \cup {x} /\ raw' = raw
    BY <1>6 DEF CompressorDone
  <2>2. PipeAt(cut, log, durable, flushed, writer_seq, collector_seq, raw, busy \ {x}, Done \cup {x})
    BY <1>1, PipeMoves
  <2>3. Done' = Done \cup {x}
    BY <1>2, <2>1 DEF Done
  <2>4. Pipe(cut)'
    BY <1>2, <2>1, <2>2, <2>3 DEF Pipe
  <2>5. Written'
    <3>1. ASSUME phase = "written" PROVE item # x
      <4>1. item \in Done /\ busy \cap Done = {}
        BY <1>1, <3>1 DEF Done, PipeAt
      <4> QED
        BY <4>1
    <3> QED
      BY <1>2, <2>1, <3>1 DEF StorageInv, Written
  <2>6. Pool'
    <3>1. IsFiniteSet(busy \ {x}) /\ Cardinality(busy \ {x}) = Cardinality(busy) - 1
      BY <1>4, FS_RemoveElement
    <3> QED
      BY <1>4, <2>1, <3>1 DEF Pool
  <2> QED
    BY <1>3, <2>4, <2>5, <2>6 DEF StorageInv
<1> QED
  BY <1>5, <1>6 DEF Compress

-----------------------------------------------------------------------------
(* The steps: writer *)

\* A step of the writer on the files changes nothing of the journal and the catalog.
LEMMA WriterMoves ==
    ASSUME StorageInv, UNCHANGED <<log, senderVars, collectorVars, raw, busy, meta, durable>>,
           writer_seq' = writer_seq, failed' = FALSE, Done' = Done, Written', Phases',
           DiskOK(files', meta, phase', item')
    PROVE  StorageInv'
<1>1. /\ log' = log /\ index' = index /\ replay' = replay /\ slots' = slots
      /\ slot_finalized' = slot_finalized /\ taken' = taken /\ flushed' = flushed
      /\ collector_seq' = collector_seq /\ raw' = raw /\ busy' = busy /\ meta' = meta
      /\ durable' = durable
  BY DEF senderVars, collectorVars
<1>2. /\ Journaled' /\ CollectorOK(log, durable, flushed, taken)' /\ Pool'
      /\ CatalogOK(meta, log, durable)' /\ (meta.floor <= index)' /\ slot_finalized' \in Slot \cup {0}
  BY <1>1 DEF StorageInv, Journaled, Pool
<1>3. \E cut : Pipe(cut)'
  BY <1>1 DEF StorageInv, Pipe
<1>4. DiskOK(files, meta, phase, item)'
  BY <1>1
<1> QED
  BY <1>2, <1>3, <1>4 DEF StorageInv

\* Open keeps the invariant.
LEMMA OpenStep ==
    ASSUME StorageInv, Open
    PROVE  StorageInv'
<1>1. /\ phase = "open" /\ files' = WithoutOrphans
      /\ phase' = (IF meta.active = 0 THEN "rotate" ELSE "ready")
      /\ UNCHANGED <<log, senderVars, collectorVars, raw, busy, meta, durable>>
      /\ writer_seq' = writer_seq /\ compressed' = compressed /\ item' = item /\ failed' = failed
  BY DEF Open
<1>2. Done' = Done /\ Written' /\ Phases' /\ failed' = FALSE
  BY <1>1 DEF Open, Done, Written, Phases, StorageInv
<1>3. DiskOK(files, meta, phase, item) /\ CatalogOK(meta, log, durable)
  BY DEF StorageInv
<1>4. /\ DOMAIN meta.segments \subseteq DOMAIN files /\ DOMAIN files \subseteq Nat
      /\ \A id \in DOMAIN files : files[id] \in Seq(Nat)
  BY <1>3, DiskFiles DEF DiskOK
<1>5. /\ DOMAIN files' = DOMAIN meta.segments
      /\ \A id \in DOMAIN meta.segments : files'[id] = files[id]
      /\ files' \in [DOMAIN meta.segments -> Seq(Nat)]
  BY <1>1, <1>4 DEF WithoutOrphans
<1>6. files' \in UNION {[D -> Seq(Nat)] : D \in SUBSET Nat}
  BY <1>4, <1>5, DiskOf
<1>7. \A id \in DOMAIN meta.segments : id < meta.next_id
  <2>1. meta.active \in Nat /\ meta.next_id \in Nat /\ DOMAIN meta.segments \subseteq Nat
    BY <1>3, CatalogFields DEF CatalogOK
  <2> QED
    BY <1>3, <2>1 DEF CatalogOK, SegmentsOK
<1>8. \A id \in DOMAIN meta.segments :
         /\ meta.segments[id].len <= Len(files'[id])
         /\ \A i \in 1 .. meta.segments[id].len : files'[id][i] = files[id][i]
  BY <1>3, <1>5 DEF DiskOK
<1>9. phase' # "created" /\ phase' # "written" /\ phase' # "deleting" /\ (phase' = "ready" => meta.active # 0)
  BY <1>1
<1>10. DiskOK(files', meta, phase', item')
  <2>1. \A id \in DOMAIN files' : id < meta.next_id \/ (id = meta.next_id /\ phase' \in {"created", "open"})
    BY <1>5, <1>7
  <2>2. /\ DOMAIN meta.segments \subseteq DOMAIN files'
        /\ (phase' \in {"ready", "written", "deleting"} => meta.active # 0)
    BY <1>5, <1>9
  <2> QED
    BY <1>3, <1>6, <1>8, <1>9, <2>1, <2>2, DiskRewritten
<1> QED
  BY <1>1, <1>2, <1>10, WriterMoves

\* CreateSegment keeps the invariant: the file it creates does not exist.
LEMMA CreateSegmentStep ==
    ASSUME StorageInv, CreateSegment
    PROVE  StorageInv'
<1>1. /\ phase = "rotate" /\ ~failed
      /\ UNCHANGED <<log, senderVars, collectorVars, raw, busy, meta, durable>>
      /\ writer_seq' = writer_seq /\ compressed' = compressed /\ item' = item
  BY DEF CreateSegment
<1>2. DiskOK(files, meta, phase, item) /\ CatalogOK(meta, log, durable)
  BY DEF StorageInv
<1>3. /\ DOMAIN meta.segments \subseteq DOMAIN files /\ DOMAIN files \subseteq Nat
      /\ \A id \in DOMAIN files : files[id] \in Seq(Nat)
  BY <1>2, DiskFiles DEF DiskOK
<1>4. meta.next_id \in Nat
  BY <1>2, CatalogFields DEF CatalogOK
<1>5. meta.next_id \notin DOMAIN files /\ \A id \in DOMAIN files : id < meta.next_id
  <2>1. \A id \in DOMAIN files : id < meta.next_id
    BY <1>1, <1>2 DEF DiskOK
  <2> QED
    BY <1>4, <2>1
<1>6. /\ files' = [id \in DOMAIN files \cup {meta.next_id} |->
                      IF id = meta.next_id THEN <<>> ELSE files[id]]
      /\ phase' = "created" /\ failed' = failed
  BY <1>5 DEF CreateSegment
<1>7. /\ DOMAIN files' = DOMAIN files \cup {meta.next_id} /\ files'[meta.next_id] = <<>>
      /\ \A id \in DOMAIN files : files'[id] = files[id]
  BY <1>5, <1>6
<1>8. files' \in UNION {[D -> Seq(Nat)] : D \in SUBSET Nat}
  <2>1. files' \in [DOMAIN files \cup {meta.next_id} -> Seq(Nat)]
    BY <1>3, <1>6
  <2>2. DOMAIN files \cup {meta.next_id} \in SUBSET Nat
    BY <1>3, <1>4
  <2> QED
    BY <2>1, <2>2, DiskOf
<1>9. Done' = Done /\ Written' /\ Phases' /\ failed' = FALSE
  BY <1>1, <1>6 DEF CreateSegment, Done, Written, Phases, StorageInv
<1>10. \A id \in DOMAIN meta.segments :
         /\ meta.segments[id].len <= Len(files'[id])
         /\ \A i \in 1 .. meta.segments[id].len : files'[id][i] = files[id][i]
  BY <1>2, <1>3, <1>7 DEF DiskOK
<1>11. DiskOK(files', meta, phase', item')
  <2>1. \A id \in DOMAIN files' : id < meta.next_id \/ (id = meta.next_id /\ phase' \in {"created", "open"})
    BY <1>5, <1>6, <1>7
  <2>2. /\ DOMAIN meta.segments \subseteq DOMAIN files'
        /\ (phase' \in {"ready", "written", "deleting"} => meta.active # 0)
    BY <1>3, <1>6, <1>7
  <2>3. phase' # "written" /\ phase' # "deleting"
    BY <1>6
  <2>4. meta.next_id \in DOMAIN files' /\ files'[meta.next_id] = <<>>
    BY <1>7
  <2> QED
    BY <1>2, <1>8, <1>10, <2>1, <2>2, <2>3, <2>4, DiskRewritten
<1> QED
  BY <1>1, <1>9, <1>11, WriterMoves

\* What the writer does next is the item of the commands behind the durable ones.
LEMMA NextOfPipe ==
    ASSUME StorageInv, NEW x \in Done, x.seq = writer_seq
    PROVE  \E u \in Nat :
              /\ durable < u /\ u <= flushed /\ u <= Len(log) /\ Fits(log, durable, u)
              /\ x = ItemOf(log, writer_seq, durable, u) /\ writer_seq \in Nat
              /\ \A y \in Done : y.seq = writer_seq => y = x
              /\ \E cut : PipeAt(cut, log, u, flushed, writer_seq + 1, collector_seq, raw, busy,
                                 Done \ {x})
<1>1. PICK cut : PipeAt(cut, log, durable, flushed, writer_seq, collector_seq, raw, busy, Done)
  BY DEF StorageInv, Pipe
<1> DEFINE u == cut[writer_seq + 1]
<1>0. PipeNext(cut, log, durable, flushed, writer_seq, collector_seq, raw, busy, Done, x)
  BY <1>1 DEF PipeNext
<1>2. /\ x = ItemOf(log, writer_seq, durable, u) /\ Fits(log, durable, u)
      /\ durable < u /\ u <= flushed /\ u \in Nat /\ flushed \in Nat /\ writer_seq \in Nat
      /\ \A y \in Done : y.seq = writer_seq => y = x
      /\ PipeAt(cut, log, u, flushed, writer_seq + 1, collector_seq, raw, busy, Done \ {x})
  <2>1. PipeRest(cut, log, durable, flushed, writer_seq, collector_seq, raw, busy, Done, x)
    BY <1>0, PipeShrinks, Zenon
  <2> QED
    BY <2>1, Zenon DEF PipeRest
<1> HIDE DEF u
<1>3. u <= Len(log)
  <2>1. flushed <= taken /\ taken <= Len(log) /\ taken \in Nat /\ Len(log) \in Nat
    BY DEF StorageInv, CollectorOK, Journaled, JournalOK
  <2> QED
    BY <1>2, <2>1
<1> QED
  BY <1>2, <1>3

\* The chunk x has the records durable + 1 .. u of the journal.
ChunkUpTo(x, u) ==
    /\ u \in Nat /\ durable < u /\ u <= flushed /\ u <= Len(log)
    /\ \A i \in durable + 1 .. u : IsPush(log[i])
    /\ EndsEvent(log[u])
    /\ x \in ChunkItem /\ x.upto = u /\ x.seq = writer_seq
    /\ x.first = log[durable + 1].index /\ x.last = log[u].index
    /\ x.first \in Nat /\ x.last \in Nat /\ x.first <= x.last
    /\ x.pending_slots = {[slot |-> log[i].slot, head |-> log[i].index] :
                            i \in {j \in durable + 1 .. u : log[j].init}}
    /\ x.finalized = {log[i].slot : i \in {j \in durable + 1 .. u : log[j].final}}

\* What the next chunk is.
LEMMA ChunkOfItem ==
    ASSUME StorageInv, NEW x, NEW u \in Nat, durable < u, u <= flushed, u <= Len(log),
           Fits(log, durable, u), writer_seq \in Nat, x = ItemOf(log, writer_seq, durable, u),
           x.kind = "chunk"
    PROVE  ChunkUpTo(x, u)
<1>1. durable \in Nat /\ log \in Seq(Command) /\ JournalOK(log, index)
  BY DEF StorageInv, CollectorOK, Journaled, JournalOK
<1>2. /\ x \in Item /\ x.seq = writer_seq /\ x.upto = u
      /\ x.kind = (IF IsPush(log[u]) THEN "chunk" ELSE "trim")
  BY <1>1, ItemTyped
<1>3. IsPush(log[u])
  BY <1>2
<1>4. x \in ChunkItem
  BY <1>2 DEF Item, RemovalItem
<1>5. u \in durable + 1 .. u
  BY <1>1
<1>6. (\A i \in durable + 1 .. u : IsPush(log[i])) /\ EndsEvent(log[u])
  BY <1>3 DEF Fits
<1>7. /\ x.first = log[durable + 1].index /\ x.last = log[u].index
      /\ x.pending_slots = {[slot |-> log[i].slot, head |-> log[i].index] :
                            i \in {j \in durable + 1 .. u : log[j].init}}
      /\ x.finalized = {log[i].slot : i \in {j \in durable + 1 .. u : log[j].final}}
  <2> DEFINE P == {[slot |-> log[i].slot, head |-> log[i].index] :
                      i \in {j \in durable + 1 .. u : log[j].init}}
             F == {log[i].slot : i \in {j \in durable + 1 .. u : log[j].final}}
  <2>1. x = [kind |-> "chunk", seq |-> writer_seq, upto |-> u,
             first |-> log[durable + 1].index, last |-> log[u].index,
             pending_slots |-> P, finalized |-> F]
    BY <1>3 DEF ItemOf
  <2> HIDE DEF P, F
  <2>2. x.first = log[durable + 1].index /\ x.last = log[u].index
        /\ x.pending_slots = P /\ x.finalized = F
    BY <2>1
  <2> QED
    BY <2>2 DEF P, F
<1>8. x.first \in Nat /\ x.last \in Nat
  BY <1>4 DEF ChunkItem
<1>9. log[durable + 1].index <= log[u].index
  BY <1>1, <1>6, RunAscends
<1> QED
  BY <1>2, <1>4, <1>6, <1>7, <1>8, <1>9 DEF ChunkUpTo

\* The records of a chunk.
LEMMA PayloadElements ==
    ASSUME NEW x, x.first \in Nat, x.last \in Nat, x.first <= x.last
    PROVE  /\ Payload(x) \in Seq(Nat) /\ Len(Payload(x)) = x.last - x.first + 1
           /\ \A i \in 1 .. x.last - x.first + 1 : Payload(x)[i] = x.first + i - 1
<1> DEFINE k == x.last - x.first + 1
<1>1. k \in Nat /\ \A i \in 1 .. k : x.first + i - 1 \in Nat
  OBVIOUS
<1>2. Payload(x) \in [1 .. k -> Nat] /\ \A i \in 1 .. k : Payload(x)[i] = x.first + i - 1
  BY <1>1 DEF Payload
<1> HIDE DEF k
<1>3. Payload(x) \in Seq(Nat) /\ Len(Payload(x)) = k
  BY <1>1, <1>2
<1> QED
  BY <1>2, <1>3 DEF k

\* The writer takes the item that is next.
LEMMA NextItemIs ==
    ASSUME StorageInv, phase = "ready", NEW x \in compressed, x.seq = writer_seq
    PROVE  NextItem = x /\ x \in Done /\ Done = compressed
<1>1. x \in Done /\ Done = compressed
  BY DEF Done
<1>2. \A y \in Done : y.seq = writer_seq => y = x
  BY <1>1, NextOfPipe
<1> QED
  BY <1>1, <1>2 DEF NextItem

\* AppendChunk keeps the invariant: it writes behind all chunks of the catalog.
LEMMA AppendChunkStep ==
    ASSUME StorageInv, AppendChunk
    PROVE  StorageInv'
<1>1. PICK x \in compressed : x.seq = writer_seq /\ x.kind = "chunk"
  BY DEF AppendChunk, Ready
<1>2. phase = "ready" /\ ~failed
  BY DEF AppendChunk, Ready
<1>3. NextItem = x /\ x \in Done /\ Done = compressed
  BY <1>1, <1>2, NextItemIs
<1>4. PICK u \in Nat : ChunkUpTo(x, u)
  BY <1>1, <1>3, NextOfPipe, ChunkOfItem
<1>5. x.first \in Nat /\ x.last \in Nat /\ x.first <= x.last
  BY <1>4 DEF ChunkUpTo
<1>6. /\ item' = x /\ compressed' = compressed \ {x} /\ phase' = "written"
      /\ files' = [files EXCEPT ![meta.active] = WriteAt(@, Active.len, Payload(x))]
      /\ UNCHANGED <<log, senderVars, collectorVars, raw, busy, meta, durable>>
      /\ writer_seq' = writer_seq /\ failed' = failed
  BY <1>3 DEF AppendChunk
<1>7. Done' = Done /\ Written' /\ Phases' /\ failed' = FALSE
  <2>1. Done' = Done
    BY <1>1, <1>3, <1>6 DEF Done
  <2>2. Written' /\ Phases'
    BY <1>1, <1>6 DEF Written, Phases
  <2>3. failed' = FALSE
    BY <1>6 DEF StorageInv, AppendChunk
  <2> QED
    BY <2>1, <2>2, <2>3
<1>8. DiskOK(files, meta, phase, item) /\ CatalogOK(meta, log, durable)
  BY DEF StorageInv
<1>9. /\ DOMAIN meta.segments \subseteq DOMAIN files /\ DOMAIN files \subseteq Nat
      /\ files = [id \in DOMAIN files |-> files[id]]
      /\ \A id \in DOMAIN files : files[id] \in Seq(Nat) /\ Len(files[id]) \in Nat
  BY <1>8, DiskFiles DEF DiskOK
<1>10. meta.active # 0 /\ meta.active \in DOMAIN meta.segments /\ meta.active \in DOMAIN files
  BY <1>2, <1>8, <1>9 DEF DiskOK, CatalogOK, SegmentsOK
<1> DEFINE g == meta.active
           n == meta.segments[g].len
           w == WriteAt(files[g], n, Payload(x))
<1>11. n \in Nat /\ n <= Len(files[g]) /\ files[g] \in Seq(Nat)
  BY <1>8, <1>9, <1>10, CatalogFields DEF CatalogOK, DiskOK
<1>12. /\ Payload(x) \in Seq(Nat) /\ Len(Payload(x)) = x.last - x.first + 1
       /\ \A i \in 1 .. x.last - x.first + 1 : Payload(x)[i] = x.first + i - 1
  BY <1>5, PayloadElements
<1>13. /\ w \in Seq(Nat) /\ n + Len(Payload(x)) <= Len(w)
       /\ \A i \in 1 .. n : w[i] = files[g][i]
       /\ \A i \in 1 .. Len(Payload(x)) : w[n + i] = Payload(x)[i]
  <2>1. Payload(x) \in Seq(Nat)
    BY <1>12
  <2> HIDE DEF n, g
  <2> QED
    BY <1>11, <2>1, WriteAtElements
<1>14. files' = [files EXCEPT ![g] = w]
  BY <1>6, <1>10 DEF Active
<1> HIDE DEF g, n, w
<1>15. /\ DOMAIN files' = DOMAIN files /\ files'[g] = w
       /\ \A id \in DOMAIN files : id # g => files'[id] = files[id]
       /\ files' \in [DOMAIN files -> Seq(Nat)]
  <2>1. g \in DOMAIN files
    BY <1>10 DEF g
  <2> QED
    BY <1>9, <1>13, <1>14, <2>1
<1>16. files' \in UNION {[D -> Seq(Nat)] : D \in SUBSET Nat}
  BY <1>9, <1>15, DiskOf
<1>17. Holds(w, n, x.first, x.last)
  <2>1. n + x.last - x.first + 1 <= Len(w)
    BY <1>5, <1>11, <1>12, <1>13
  <2> QED
    BY <1>12, <1>13, <2>1 DEF Holds
<1>18. ASSUME NEW id \in DOMAIN meta.segments
       PROVE  /\ meta.segments[id].len <= Len(files'[id])
              /\ \A i \in 1 .. meta.segments[id].len : files'[id][i] = files[id][i]
  <2>1. CASE id = g
    <3>1. meta.segments[id].len = n /\ files'[id] = w
      BY <1>15, <2>1 DEF n
    <3>2. n <= Len(w)
      BY <1>5, <1>11, <1>12, <1>13
    <3> QED
      BY <1>13, <2>1, <3>1, <3>2
  <2>2. CASE id # g
    BY <1>8, <1>9, <1>15, <2>2 DEF DiskOK
  <2> QED
    BY <2>1, <2>2
<1>19. DiskOK(files', meta, phase', item')
  <2>1. \A id \in DOMAIN files' : id < meta.next_id \/ (id = meta.next_id /\ phase' \in {"created", "open"})
    BY <1>2, <1>8, <1>15 DEF DiskOK
  <2>2. DOMAIN meta.segments \subseteq DOMAIN files' /\ meta.active # 0
    BY <1>9, <1>10, <1>15
  <2>3. phase' # "created" /\ phase' # "deleting"
    BY <1>6
  <2>4. Holds(files'[meta.active], meta.segments[meta.active].len, item'.first, item'.last)
    BY <1>6, <1>15, <1>17 DEF n, g
  <2> QED
    BY <1>8, <1>16, <1>18, <2>1, <2>2, <2>3, <2>4, DiskRewritten
<1> QED
  BY <1>6, <1>7, <1>19, WriterMoves

\* DeleteFile keeps the invariant: what it deletes is not in the catalog.
LEMMA DeleteFileStep ==
    ASSUME StorageInv, DeleteFile
    PROVE  StorageInv'
<1>1. /\ phase = "deleting"
      /\ UNCHANGED <<log, senderVars, collectorVars, raw, busy, meta, durable>>
      /\ writer_seq' = writer_seq /\ compressed' = compressed /\ failed' = failed
  BY DEF DeleteFile
<1>2. failed' = FALSE
  BY DEF DeleteFile, StorageInv
<1>3. DiskOK(files, meta, phase, item) /\ CatalogOK(meta, log, durable)
  BY DEF StorageInv
<1>4. /\ DOMAIN meta.segments \subseteq DOMAIN files /\ DOMAIN files \subseteq Nat
      /\ files \in UNION {[D -> Seq(Nat)] : D \in SUBSET Nat}
      /\ \A id \in DOMAIN files : files[id] \in Seq(Nat)
  BY <1>3, DiskFiles DEF DiskOK
<1>5. /\ item \in Deleted /\ item.ids \cap DOMAIN meta.segments = {} /\ item.ids \in SUBSET Nat
      /\ meta.active # 0 /\ \A id \in DOMAIN files : id < meta.next_id
  BY <1>1, <1>3 DEF DiskOK, Deleted
<1>6. CASE item.ids = {}
  <2>1. phase' = "ready" /\ item' = NoItem /\ files' = files
    BY <1>6 DEF DeleteFile
  <2>2. Done' = Done /\ Written' /\ Phases'
    BY <1>1, <2>1 DEF Done, Written, Phases
  <2>3. DiskOK(files', meta, phase', item')
    BY <1>3, <1>5, <2>1 DEF DiskOK
  <2> QED
    BY <1>1, <1>2, <2>2, <2>3, WriterMoves
<1>7. CASE item.ids # {}
  <2> DEFINE a == Min(item.ids)
  <2>1. a \in item.ids /\ a \notin DOMAIN meta.segments
    BY <1>5, <1>7, MinOfNats
  <2>2. /\ files' = [id \in DOMAIN files \ {a} |-> files[id]]
        /\ item' = [item EXCEPT !.ids = item.ids \ {a}] /\ phase' = phase
    BY <1>7 DEF DeleteFile
  <2> HIDE DEF a
  <2>3. Done' = Done /\ Written' /\ Phases'
    BY <1>1, <2>2 DEF Done, Written, Phases
  <2>4. item' \in Deleted /\ item'.ids \subseteq item.ids
    BY <1>5, <2>2 DEF Deleted
  <2>5. /\ DOMAIN files' = DOMAIN files \ {a} /\ files' \in [DOMAIN files \ {a} -> Seq(Nat)]
        /\ \A id \in DOMAIN meta.segments : id \in DOMAIN files' /\ files'[id] = files[id]
    BY <1>4, <2>1, <2>2
  <2>6. files' \in UNION {[D -> Seq(Nat)] : D \in SUBSET Nat}
    BY <1>4, <2>5, DiskOf
  <2>7. DiskOK(files', meta, phase', item')
    <3>1. \A id \in DOMAIN files' : id < meta.next_id \/ (id = meta.next_id /\ phase' \in {"created", "open"})
      BY <1>5, <2>5
    <3>2. item'.ids \cap DOMAIN meta.segments = {}
      BY <1>5, <2>4
    <3>3. \A id \in DOMAIN meta.segments :
             /\ meta.segments[id].len <= Len(files'[id])
             /\ \A i \in 1 .. meta.segments[id].len : files'[id][i] = files[id][i]
      BY <1>3, <2>5 DEF DiskOK
    <3>4. phase' = "deleting" /\ DOMAIN meta.segments \subseteq DOMAIN files'
      BY <1>1, <2>2, <2>5
    <3> QED
      BY <1>3, <1>5, <2>4, <2>6, <3>1, <3>2, <3>3, <3>4, DiskRewritten
  <2> QED
    BY <1>1, <1>2, <2>3, <2>7, WriterMoves
<1> QED
  BY <1>6, <1>7

\* CommitSegment keeps the invariant.
LEMMA CommitSegmentStep ==
    ASSUME StorageInv, CommitSegment
    PROVE  StorageInv'
<1>1. /\ phase = "created" /\ phase' = "ready" /\ item' = item /\ files' = files
      /\ log' = log /\ index' = index /\ replay' = replay /\ slots' = slots
      /\ slot_finalized' = slot_finalized /\ taken' = taken /\ flushed' = flushed
      /\ collector_seq' = collector_seq /\ raw' = raw /\ busy' = busy /\ compressed' = compressed
      /\ writer_seq' = writer_seq /\ durable' = durable /\ failed' = failed
  BY DEF CommitSegment, senderVars, collectorVars
<1>2. DiskOK(files, meta, phase, item) /\ CatalogOK(meta, log, durable)
  BY DEF StorageInv
<1> DEFINE F == [id \in DOMAIN meta.segments \cup {meta.next_id} |->
                   IF id = meta.next_id
                   THEN [sealed |-> FALSE, last |-> 0, len |-> 0, count |-> 0]
                   ELSE IF id = meta.active THEN [Active EXCEPT !.sealed = TRUE]
                   ELSE meta.segments[id]]
<1>3. meta' = [meta EXCEPT !.segments = F, !.active = meta.next_id, !.next_id = meta.next_id + 1]
  BY DEF CommitSegment, NextId
<1>4. /\ DOMAIN meta.segments \subseteq Nat /\ meta.next_id \in Nat /\ meta.active \in Nat
      /\ \A id \in DOMAIN meta.segments : meta.segments[id] \in SegmentRow
  BY <1>2, CatalogFields DEF CatalogOK
<1>5. /\ meta.active < meta.next_id
      /\ \A id \in DOMAIN meta.segments : id < meta.next_id
      /\ \A id \in DOMAIN meta.segments : id # meta.active => meta.segments[id].sealed
  <2>1. SegmentsOK(meta)
    BY <1>2 DEF CatalogOK
  <2> QED
    BY <1>4, <2>1 DEF SegmentsOK
<1>6. meta.next_id \notin DOMAIN meta.segments
  BY <1>4, <1>5
<1>7. /\ DOMAIN F = DOMAIN meta.segments \cup {meta.next_id}
      /\ F[meta.next_id] = [sealed |-> FALSE, last |-> 0, len |-> 0, count |-> 0]
      /\ \A id \in DOMAIN meta.segments : F[id] =
            IF id = meta.active THEN [meta.segments[id] EXCEPT !.sealed = TRUE] ELSE meta.segments[id]
  BY <1>6 DEF Active
<1> HIDE DEF F
<1>8. \A id \in DOMAIN meta.segments :
         /\ F[id] \in SegmentRow /\ F[id].sealed
         /\ F[id].last = meta.segments[id].last /\ F[id].len = meta.segments[id].len
         /\ F[id].count = meta.segments[id].count
  <2>1. ASSUME NEW id \in DOMAIN meta.segments
        PROVE  /\ F[id] \in SegmentRow /\ F[id].sealed
               /\ F[id].last = meta.segments[id].last /\ F[id].len = meta.segments[id].len
               /\ F[id].count = meta.segments[id].count
    <3>1. CASE id = meta.active
      <4>1. meta.segments[id] \in SegmentRow /\ F[id] = [meta.segments[id] EXCEPT !.sealed = TRUE]
        BY <1>4, <1>7, <3>1
      <4> QED
        BY <4>1 DEF SegmentRow
    <3>2. CASE id # meta.active
      BY <1>4, <1>5, <1>7, <3>2
    <3> QED
      BY <3>1, <3>2
  <2> QED
    BY <2>1
<1>9. /\ F[meta.next_id] \in SegmentRow /\ F[meta.next_id].count = 0 /\ F[meta.next_id].len = 0
      /\ ~F[meta.next_id].sealed
  BY <1>7 DEF SegmentRow
<1>10. F \in UNION {[D -> SegmentRow] : D \in SUBSET Nat}
  <2>1. F = [id \in DOMAIN F |-> F[id]]
    BY DEF F
  <2>2. F \in [DOMAIN F -> SegmentRow]
    BY <1>7, <1>8, <1>9, <2>1
  <2>3. DOMAIN F \in SUBSET Nat
    BY <1>4, <1>7
  <2> QED
    BY <2>2, <2>3
<1>11. /\ CatalogType(meta') /\ meta'.slots = meta.slots /\ meta'.segments = F
       /\ meta'.chunks = meta.chunks /\ meta'.active = meta.next_id
       /\ meta'.next_id = meta.next_id + 1 /\ meta'.floor = meta.floor
  <2> DEFINE S == [Slot -> SlotRow]
             T == UNION {[D -> SegmentRow] : D \in SUBSET Nat}
             C == SUBSET ChunkRow
  <2>1. meta \in [slots : S, segments : T, chunks : C, next_id : Nat, active : Nat, floor : Nat]
    BY <1>2 DEF CatalogOK, CatalogType
  <2>2. F \in T /\ meta.next_id \in Nat /\ meta.next_id + 1 \in Nat
    BY <1>4, <1>10
  <2> HIDE DEF S, T, C
  <2>3. meta' \in [slots : S, segments : T, chunks : C, next_id : Nat, active : Nat, floor : Nat]
    BY <1>3, <2>1, <2>2
  <2>4. /\ meta'.slots = meta.slots /\ meta'.segments = F
        /\ meta'.chunks = meta.chunks /\ meta'.active = meta.next_id
        /\ meta'.next_id = meta.next_id + 1 /\ meta'.floor = meta.floor
    BY <1>3, <2>1
  <2> QED
    BY <2>3, <2>4 DEF CatalogType, S, T, C
<1>12. CatalogOK(meta', log, durable)
  <2>1. /\ DOMAIN meta'.segments = DOMAIN meta.segments \cup {meta.next_id}
        /\ meta'.segments[meta.next_id].count = 0 /\ ~meta'.segments[meta.next_id].sealed
        /\ \A id \in DOMAIN meta.segments :
              /\ meta'.segments[id].sealed
              /\ meta'.segments[id].last = meta.segments[id].last
              /\ meta'.segments[id].len = meta.segments[id].len
              /\ meta'.segments[id].count = meta.segments[id].count
    BY <1>7, <1>8, <1>9, <1>11
  <2> QED
    BY <1>2, <1>11, <2>1, CatalogRotates
<1>13. DiskOK(files, meta', "ready", item)
  <2>1. /\ files \in UNION {[D -> Seq(Nat)] : D \in SUBSET Nat} /\ DOMAIN files \subseteq Nat
        /\ DOMAIN meta.segments \subseteq DOMAIN files
        /\ \A id \in DOMAIN meta.segments : meta.segments[id].len <= Len(files[id])
        /\ \A id \in DOMAIN files : id < meta.next_id \/ id = meta.next_id
        /\ meta.next_id \in DOMAIN files /\ files[meta.next_id] = <<>>
        /\ \A c \in meta.chunks : Holds(files[c.segment], c.offset, c.first, c.last)
    BY <1>1, <1>2, DiskFiles DEF DiskOK
  <2>2. \A id \in DOMAIN meta'.segments : meta'.segments[id].len <= Len(files[id])
    <3>1. meta'.segments[meta.next_id].len <= Len(files[meta.next_id])
      BY <1>9, <1>11, <2>1
    <3> QED
      BY <1>7, <1>8, <1>11, <2>1, <3>1
  <2>3. \A id \in DOMAIN files : id < meta'.next_id
    <3>1. ASSUME NEW id \in DOMAIN files PROVE id < meta'.next_id
      <4>1. id \in Nat /\ meta.next_id \in Nat /\ (id < meta.next_id \/ id = meta.next_id)
        BY <1>4, <2>1
      <4>2. meta'.next_id = meta.next_id + 1
        BY <1>11
      <4> QED
        BY <4>1, <4>2
    <3> QED
      BY <3>1
  <2>4. meta'.active # 0 /\ DOMAIN meta'.segments \subseteq DOMAIN files
    BY <1>4, <1>5, <1>7, <1>11, <2>1
  <2> QED
    BY <1>11, <2>1, <2>2, <2>3, <2>4 DEF DiskOK
<1>14. \E cut : Pipe(cut)'
  BY <1>1 DEF StorageInv, Pipe, Done
<1>15. /\ Journaled' /\ CollectorOK(log, durable, flushed, taken)' /\ Pool' /\ ~failed'
       /\ slot_finalized' \in Slot \cup {0} /\ Written' /\ Phases'
  BY <1>1 DEF StorageInv, Journaled, Pool, Written, Phases
<1>16. (meta.floor <= index)'
  BY <1>1, <1>11 DEF StorageInv
<1> QED
  BY <1>1, <1>12, <1>13, <1>14, <1>15, <1>16 DEF StorageInv

\* The rows after a chunk: those of the slots that enter with it are new.
LEMMA RowsAfterChunk ==
    ASSUME CatalogOK(meta, log, durable), JournalOK(log, index), durable \in Nat, NEW x, NEW u,
           ChunkUpTo(x, u), NEW s \in Slot
    PROVE  /\ RowsAfter(x)[s] \in SlotRow
           /\ RowsAfter(x)[s].open =>
                \/ /\ RowsAfter(x)[s].segment = meta.active
                   /\ \E j \in durable + 1 .. u : RowsAfter(x)[s].head = log[j].index
                \/ /\ meta.slots[s].open /\ RowsAfter(x)[s].segment = meta.slots[s].segment
                   /\ RowsAfter(x)[s].head = meta.slots[s].head
<1> DEFINE r == RowsAfter(x)[s]
           H == {p.head : p \in {q \in x.pending_slots : q.slot = s}}
<1>1. meta.slots[s] \in SlotRow /\ meta.active \in Nat
  BY CatalogFields DEF CatalogOK
<1>2. CASE \E p \in x.pending_slots : p.slot = s
  <2>1. H # {}
    BY <1>2
  <2>2. \A p \in x.pending_slots : \E j \in durable + 1 .. u : p.head = log[j].index
    BY DEF ChunkUpTo
  <2>3. x.pending_slots \in SUBSET [slot : Slot, head : Nat]
    BY DEF ChunkUpTo, ChunkItem
  <2>4. H \in SUBSET Nat
    BY <2>3
  <2>5. x.last \in Nat /\ \A h \in H : h <= x.last
    <3>1. \A j \in durable + 1 .. u : log[j].index <= log[u].index
      BY RunAscends DEF ChunkUpTo
    <3> QED
      BY <2>2, <3>1 DEF ChunkUpTo
  <2>6. Max(H) \in H
    BY <2>1, <2>4, <2>5, MaxOfBounded
  <2>7. PICK j \in durable + 1 .. u : Max(H) = log[j].index
    BY <2>2, <2>6
  <2>8. r = [open |-> TRUE, segment |-> meta.active, finalized |-> s \in x.finalized, head |-> Max(H)]
    BY <1>2 DEF RowsAfter
  <2>9. Max(H) \in Nat
    BY <2>4, <2>6
  <2> HIDE DEF H, r
  <2>10. r \in SlotRow /\ r.segment = meta.active /\ r.head = Max(H)
    BY <1>1, <2>8, <2>9 DEF SlotRow
  <2> QED
    BY <2>7, <2>10 DEF r
<1>3. CASE ~\E p \in x.pending_slots : p.slot = s
  <2>1. CASE s \in x.finalized /\ meta.slots[s].open
    <3>1. r = [meta.slots[s] EXCEPT !.finalized = TRUE]
      BY <1>3, <2>1 DEF RowsAfter
    <3>2. meta.slots[s] \in [open : {TRUE}, segment : Nat, finalized : BOOLEAN, head : Nat]
      <4>1. meta.slots[s] # NoRow
        BY <2>1 DEF NoRow
      <4> QED
        BY <1>1, <4>1 DEF SlotRow
    <3> HIDE DEF r
    <3>3. /\ r \in [open : {TRUE}, segment : Nat, finalized : BOOLEAN, head : Nat]
          /\ r.segment = meta.slots[s].segment /\ r.head = meta.slots[s].head
      BY <3>1, <3>2
    <3> QED
      BY <2>1, <3>3 DEF SlotRow, r
  <2>2. CASE ~(s \in x.finalized /\ meta.slots[s].open)
    <3>1. r = meta.slots[s]
      BY <1>3, <2>2 DEF RowsAfter
    <3> QED
      BY <1>1, <3>1
  <2> QED
    BY <2>1, <2>2
<1> QED
  BY <1>2, <1>3

\* CommitChunk adds one chunk to the catalog.
LEMMA CommitChunkCatalog ==
    ASSUME StorageInv, CommitChunk, NEW u, ChunkUpTo(item, u)
    PROVE  ChunkAdded(meta, meta', log, durable, u, item.first, item.last)
           /\ meta'.floor = meta.floor /\ meta'.slots = RowsAfter(item)
<1> DEFINE g == meta.active
           size == item.last - item.first + 1
           G == [meta.segments[g] EXCEPT !.last = item.last, !.len = @ + size, !.count = @ + 1]
           F == [meta.segments EXCEPT ![g] = G]
           k == [segment |-> g, offset |-> meta.segments[g].len, size |-> size,
                 first |-> item.first, last |-> item.last]
<1>1. item.first \in Nat /\ item.last \in Nat /\ item.first <= item.last
  BY DEF ChunkUpTo
<1>2. Len(Payload(item)) = size /\ size \in Nat
  BY <1>1, PayloadElements
<1>3. phase = "written" /\ DiskOK(files, meta, phase, item) /\ CatalogOK(meta, log, durable)
      /\ JournalOK(log, index) /\ durable \in Nat
  BY DEF StorageInv, CommitChunk, Journaled, CollectorOK
<1>4. g # 0 /\ g \in DOMAIN meta.segments
  BY <1>3 DEF DiskOK, CatalogOK, SegmentsOK
<1>5. meta' = [meta EXCEPT !.slots = RowsAfter(item), !.segments = F, !.chunks = meta.chunks \cup {k}]
  <2>1. meta' = [meta EXCEPT
              !.slots = RowsAfter(item),
              !.segments[meta.active] = [Active EXCEPT !.last = item.last,
                                             !.len = @ + Len(Payload(item)), !.count = @ + 1],
              !.chunks = @ \cup {[segment |-> meta.active, offset |-> Active.len,
                                  size |-> Len(Payload(item)), first |-> item.first,
                                  last |-> item.last]}]
    BY DEF CommitChunk
  <2> QED
    BY <1>2, <2>1 DEF Active
<1>6. /\ DOMAIN meta.segments \subseteq Nat /\ g \in Nat
      /\ meta.segments = [id \in DOMAIN meta.segments |-> meta.segments[id]]
      /\ \A id \in DOMAIN meta.segments : meta.segments[id] \in SegmentRow
      /\ \A id \in DOMAIN meta.segments : meta.segments[id].len \in Nat
  BY <1>3, CatalogFields DEF CatalogOK
<1>7. /\ G \in SegmentRow /\ G.last = item.last /\ G.len = meta.segments[g].len + size
      /\ G.count = meta.segments[g].count + 1 /\ G.sealed = meta.segments[g].sealed
  <2>1. PICK row \in SegmentRow : row = meta.segments[g]
    BY <1>4, <1>6
  <2>2. G = [row EXCEPT !.last = item.last, !.len = row.len + size, !.count = row.count + 1]
    BY <2>1
  <2> HIDE DEF G, size
  <2> DEFINE L == row.len + size
             N == row.count + 1
             Z == item.last
  <2>a. L \in Nat /\ N \in Nat /\ Z \in Nat
    BY <1>1, <1>2 DEF SegmentRow
  <2>3. G \in SegmentRow
    <3>1. G = [row EXCEPT !.last = Z, !.len = L, !.count = N]
      BY <2>2
    <3> HIDE DEF L, N, Z
    <3> QED
      BY <2>a, <3>1 DEF SegmentRow
  <2>4. /\ G.last = item.last /\ G.len = row.len + size
        /\ G.count = row.count + 1 /\ G.sealed = row.sealed
    BY <2>2 DEF SegmentRow
  <2> QED
    BY <2>1, <2>3, <2>4
<1>8. k \in ChunkRow
  <2>1. meta.segments[g].len \in Nat /\ g \in Nat
    BY <1>4, <1>6
  <2> HIDE DEF size, g
  <2> QED
    BY <1>1, <1>2, <2>1 DEF ChunkRow
<1> HIDE DEF G, k
<1>9. /\ DOMAIN F = DOMAIN meta.segments /\ F[g] = G
      /\ \A id \in DOMAIN meta.segments : id # g => F[id] = meta.segments[id]
      /\ F \in [DOMAIN meta.segments -> SegmentRow]
  BY <1>4, <1>6, <1>7
<1> HIDE DEF F
<1>10. F \in UNION {[D -> SegmentRow] : D \in SUBSET Nat}
  BY <1>6, <1>9
<1>11. RowsAfter(item) \in [Slot -> SlotRow]
  <2>1. RowsAfter(item) = [s \in Slot |-> RowsAfter(item)[s]]
    BY DEF RowsAfter
  <2>2. \A s \in Slot : RowsAfter(item)[s] \in SlotRow
    BY <1>3, RowsAfterChunk
  <2> QED
    BY <2>1, <2>2
<1>12. /\ CatalogType(meta') /\ meta'.slots = RowsAfter(item) /\ meta'.segments = F
       /\ meta'.chunks = meta.chunks \cup {k} /\ meta'.active = g
       /\ meta'.next_id = meta.next_id /\ meta'.floor = meta.floor
  <2> DEFINE S == [Slot -> SlotRow]
             T == UNION {[D -> SegmentRow] : D \in SUBSET Nat}
             C == SUBSET ChunkRow
             R == RowsAfter(item)
             K == meta.chunks \cup {k}
  <2>1. meta \in [slots : S, segments : T, chunks : C, next_id : Nat, active : Nat, floor : Nat]
    BY <1>3 DEF CatalogOK, CatalogType
  <2>2. F \in T /\ R \in S
    BY <1>10, <1>11
  <2>3. K \in C
    <3>1. meta.chunks \in C
      BY <1>3, CatalogFields DEF CatalogOK
    <3> QED
      BY <1>8, <3>1
  <2>4. meta' = [meta EXCEPT !.slots = R, !.segments = F, !.chunks = K]
    BY <1>5
  <2> HIDE DEF S, T, C, R, K
  <2>5. meta' \in [slots : S, segments : T, chunks : C, next_id : Nat, active : Nat, floor : Nat]
    BY <2>1, <2>2, <2>3, <2>4
  <2>6. /\ meta'.slots = R /\ meta'.segments = F
        /\ meta'.chunks = K /\ meta'.active = meta.active
        /\ meta'.next_id = meta.next_id /\ meta'.floor = meta.floor
    BY <2>1, <2>4
  <2> QED
    BY <2>5, <2>6 DEF CatalogType, S, T, C, R, K
<1>13. \A s \in Slot : meta'.slots[s].open =>
          \/ /\ meta'.slots[s].segment = g
             /\ \E j \in durable + 1 .. u : meta'.slots[s].head = log[j].index
          \/ /\ meta.slots[s].open /\ meta'.slots[s].segment = meta.slots[s].segment
             /\ meta'.slots[s].head = meta.slots[s].head
  BY <1>3, <1>12, RowsAfterChunk
<1> QED
  BY <1>7, <1>9, <1>12, <1>13 DEF ChunkAdded, k

\* CommitChunk keeps the invariant.
LEMMA CommitChunkStep ==
    ASSUME StorageInv, CommitChunk
    PROVE  StorageInv'
<1>1. phase = "written" /\ item \in Done /\ item.seq = writer_seq /\ item.kind = "chunk"
      /\ item \notin compressed
  BY DEF StorageInv, Written, CommitChunk, Done
<1>2. PICK u \in Nat :
              /\ durable < u /\ u <= flushed /\ u <= Len(log) /\ Fits(log, durable, u)
              /\ item = ItemOf(log, writer_seq, durable, u) /\ writer_seq \in Nat
              /\ \E cut : PipeAt(cut, log, u, flushed, writer_seq + 1, collector_seq, raw, busy,
                                 Done \ {item})
  BY <1>1, NextOfPipe
<1>3. ChunkUpTo(item, u)
  BY <1>1, <1>2, ChunkOfItem
<1>4. /\ u <= Len(log) /\ EndsEvent(log[u]) /\ \A i \in durable + 1 .. u : IsPush(log[i])
      /\ item.upto = u /\ item.first = log[durable + 1].index /\ item.last = log[u].index
      /\ item.first \in Nat /\ item.last \in Nat /\ item.first <= item.last
  BY <1>3 DEF ChunkUpTo
<1>5. /\ durable' = u /\ writer_seq' = writer_seq + 1 /\ item' = NoItem
      /\ phase' \in {"rotate", "ready"} /\ files' = files
      /\ log' = log /\ index' = index /\ replay' = replay /\ slots' = slots
      /\ slot_finalized' = slot_finalized /\ taken' = taken /\ flushed' = flushed
      /\ collector_seq' = collector_seq /\ raw' = raw /\ busy' = busy /\ compressed' = compressed
      /\ failed' = failed
  BY <1>4 DEF CommitChunk, senderVars, collectorVars
<1>6. ChunkAdded(meta, meta', log, durable, u, item.first, item.last) /\ meta'.floor = meta.floor
  BY <1>3, CommitChunkCatalog
<1>7. /\ DiskOK(files, meta, "written", item) /\ CatalogOK(meta, log, durable)
      /\ JournalOK(log, index) /\ durable \in Nat
  BY <1>1 DEF StorageInv, Journaled, CollectorOK
<1>8. meta.active # 0 /\ meta.active \in DOMAIN meta.segments
  BY <1>7 DEF DiskOK, CatalogOK, SegmentsOK
<1>9. CatalogOK(meta', log, u)
  <2>1. ChunkAdded(meta, meta', log, durable, u, log[durable + 1].index, log[u].index)
    BY <1>4, <1>6
  <2> QED
    BY <1>2, <1>4, <1>7, <1>8, <2>1, CatalogAdds
<1>10. DiskOK(files, meta', phase', NoItem)
  <2> DEFINE g == meta.active
  <2>1. /\ files \in UNION {[D -> Seq(Nat)] : D \in SUBSET Nat}
        /\ \A id \in DOMAIN files : Len(files[id]) \in Nat
        /\ DOMAIN meta.segments \subseteq DOMAIN files
        /\ \A id \in DOMAIN meta.segments : meta.segments[id].len <= Len(files[id])
        /\ \A id \in DOMAIN files : id < meta.next_id
        /\ Holds(files[g], meta.segments[g].len, item.first, item.last)
        /\ \A c \in meta.chunks : Holds(files[c.segment], c.offset, c.first, c.last)
    BY <1>7, DiskFiles DEF DiskOK
  <2>2. /\ meta'.active = meta.active /\ meta'.next_id = meta.next_id
        /\ DOMAIN meta'.segments = DOMAIN meta.segments
        /\ \A id \in DOMAIN meta.segments : id # g => meta'.segments[id] = meta.segments[id]
        /\ meta'.segments[g].len = meta.segments[g].len + (item.last - item.first + 1)
        /\ meta'.chunks = meta.chunks \cup {[segment |-> g, offset |-> meta.segments[g].len,
                size |-> item.last - item.first + 1, first |-> item.first, last |-> item.last]}
    BY <1>6 DEF ChunkAdded
  <2>3. \A c \in meta'.chunks : Holds(files[c.segment], c.offset, c.first, c.last)
    BY <2>1, <2>2
  <2>4. meta'.segments[g].len <= Len(files[g])
    <3>1. meta.segments[g].len + item.last - item.first + 1 <= Len(files[g])
      BY <2>1 DEF Holds
    <3>2. meta.segments[g].len \in Nat /\ Len(files[g]) \in Nat
      BY <1>7, <1>8, <2>1, CatalogFields DEF CatalogOK
    <3> QED
      BY <1>4, <2>2, <3>1, <3>2
  <2>5. \A id \in DOMAIN meta'.segments : meta'.segments[id].len <= Len(files[id])
    BY <2>1, <2>2, <2>4
  <2>6. /\ phase' # "created" /\ phase' # "written" /\ phase' # "deleting"
    BY <1>5
  <2> QED
    BY <1>8, <2>1, <2>2, <2>3, <2>5, <2>6 DEF DiskOK
<1>11. CollectorOK(log, u, flushed, taken)
  BY <1>2, <1>4 DEF StorageInv, CollectorOK
<1>12. \E cut : Pipe(cut)'
  <2>1. Done' = Done \ {item}
    BY <1>1, <1>5 DEF Done
  <2> QED
    BY <1>2, <1>5, <2>1 DEF Pipe
<1>13. /\ Journaled' /\ Pool' /\ ~failed'
       /\ slot_finalized' \in Slot \cup {0} /\ Written' /\ Phases'
  BY <1>5 DEF StorageInv, Journaled, Pool, Written, Phases
<1>14. (meta.floor <= index)'
  BY <1>5, <1>6 DEF StorageInv
<1> QED
  BY <1>5, <1>9, <1>10, <1>11, <1>12, <1>13, <1>14 DEF StorageInv

\* CommitTrim takes the segments that are not needed out of the catalog.
LEMMA CommitTrimCatalog ==
    ASSUME CatalogOK(meta, log, durable), CommitTrim, NEW until, NextItem.until = until
    PROVE  Trimmed(meta, meta', until) /\ meta'.floor = meta.floor
           /\ item' = [kind |-> "deleted", ids |-> DeletedSegments(until)]
<1> DEFINE gone == DeletedSegments(until)
           F == [id \in DOMAIN meta.segments \ gone |-> meta.segments[id]]
           R == [s \in Slot |-> IF s = NextItem.slot \/ (meta.slots[s].open /\ meta.slots[s].segment \in gone)
                                THEN NoRow ELSE meta.slots[s]]
           K == {c \in meta.chunks : c.segment \notin gone}
<1>1. /\ meta' = [meta EXCEPT !.slots = R, !.segments = F, !.chunks = K]
      /\ item' = [kind |-> "deleted", ids |-> gone]
  BY DEF CommitTrim
<1>2. /\ DOMAIN meta.segments \subseteq Nat
      /\ \A id \in DOMAIN meta.segments : meta.segments[id] \in SegmentRow
      /\ meta.slots \in [Slot -> SlotRow] /\ meta.chunks \subseteq ChunkRow
  BY CatalogFields DEF CatalogOK
<1>3. /\ CatalogType(meta') /\ meta'.slots = R /\ meta'.segments = F
      /\ meta'.chunks = K /\ meta'.active = meta.active
      /\ meta'.next_id = meta.next_id /\ meta'.floor = meta.floor
  <2> DEFINE S == [Slot -> SlotRow]
             T == UNION {[D -> SegmentRow] : D \in SUBSET Nat}
             C == SUBSET ChunkRow
  <2>1. meta \in [slots : S, segments : T, chunks : C, next_id : Nat, active : Nat, floor : Nat]
    BY DEF CatalogOK, CatalogType
  <2>2. F \in T
    <3> DEFINE D == DOMAIN meta.segments \ gone
    <3>1. D \in SUBSET Nat /\ F \in [D -> SegmentRow]
      BY <1>2
    <3> HIDE DEF D, F
    <3> QED
      BY <3>1
  <2>3. R \in S
    BY <1>2 DEF SlotRow
  <2>4. K \in C
    BY <1>2
  <2> HIDE DEF S, T, C, R, K, F
  <2>5. meta' \in [slots : S, segments : T, chunks : C, next_id : Nat, active : Nat, floor : Nat]
    BY <1>1, <2>1, <2>2, <2>3, <2>4
  <2>6. /\ meta'.slots = R /\ meta'.segments = F
        /\ meta'.chunks = K /\ meta'.active = meta.active
        /\ meta'.next_id = meta.next_id /\ meta'.floor = meta.floor
    BY <1>1, <2>1
  <2> QED
    BY <2>5, <2>6 DEF CatalogType, S, T, C
<1>4. gone = {id \in DOMAIN meta.segments : /\ meta.segments[id].sealed
                                            /\ meta.segments[id].count > 0
                                            /\ meta.segments[id].last < until}
  BY DEF DeletedSegments
<1>5. \A s \in Slot : R[s].open =>
          meta.slots[s].open /\ R[s] = meta.slots[s] /\ meta.slots[s].segment \notin gone
  <2>1. ASSUME NEW s \in Slot, R[s].open
        PROVE  meta.slots[s].open /\ R[s] = meta.slots[s] /\ meta.slots[s].segment \notin gone
    <3>1. R[s] # NoRow
      BY <2>1 DEF NoRow
    <3>2. ~(s = NextItem.slot \/ (meta.slots[s].open /\ meta.slots[s].segment \in gone))
      BY <3>1
    <3> HIDE DEF gone
    <3>3. R[s] = meta.slots[s]
      BY <3>2
    <3> QED
      BY <2>1, <3>2, <3>3
  <2> QED
    BY <2>1
<1>6. DOMAIN F = DOMAIN meta.segments \ gone /\ \A id \in DOMAIN F : F[id] = meta.segments[id]
  OBVIOUS
<1> HIDE DEF gone, F, R
<1>7. Trimmed(meta, meta', until)
  BY <1>3, <1>4, <1>5, <1>6 DEF Trimmed
<1> QED
  BY <1>1, <1>3, <1>7 DEF gone

\* CommitTrim keeps the invariant: the files whose segments are gone are still there.
LEMMA CommitTrimStep ==
    ASSUME StorageInv, CommitTrim
    PROVE  StorageInv'
<1>1. PICK x \in compressed : x.seq = writer_seq /\ x.kind = "trim"
  BY DEF CommitTrim, Ready
<1>2. phase = "ready" /\ NextItem = x /\ x \in Done /\ Done = compressed
  BY <1>1, NextItemIs DEF CommitTrim, Ready
<1>3. PICK u \in Nat :
              /\ durable < u /\ u <= flushed /\ u <= Len(log) /\ Fits(log, durable, u)
              /\ x = ItemOf(log, writer_seq, durable, u) /\ writer_seq \in Nat
              /\ \E cut : PipeAt(cut, log, u, flushed, writer_seq + 1, collector_seq, raw, busy,
                                 Done \ {x})
  BY <1>1, <1>2, NextOfPipe
<1>4. /\ log \in Seq(Command) /\ durable \in Nat /\ CatalogOK(meta, log, durable)
      /\ DiskOK(files, meta, "ready", item) /\ JournalOK(log, index)
  BY <1>2 DEF StorageInv, CollectorOK, Journaled, JournalOK
<1>5. ~IsPush(log[u]) /\ x.upto = u /\ x.until = log[u].until
  <2>1. x.kind = (IF IsPush(log[u]) THEN "chunk" ELSE "trim") /\ x.upto = u
    BY <1>3, <1>4, ItemTyped
  <2>2. ~IsPush(log[u])
    BY <1>1, <2>1
  <2>3. x = [kind |-> "trim", seq |-> writer_seq, upto |-> u, slot |-> log[u].slot,
             until |-> log[u].until]
    BY <1>3, <2>2 DEF ItemOf
  <2> QED
    BY <2>1, <2>2, <2>3
<1>6. u = durable + 1
  <2>1. u \in durable + 1 .. u
    BY <1>3, <1>4
  <2> QED
    BY <1>3, <1>5, <2>1 DEF Fits
<1> DEFINE gone == DeletedSegments(log[u].until)
<1>7. /\ durable' = u /\ writer_seq' = writer_seq + 1 /\ phase' = "deleting" /\ files' = files
      /\ log' = log /\ index' = index /\ replay' = replay /\ slots' = slots
      /\ slot_finalized' = slot_finalized /\ taken' = taken /\ flushed' = flushed
      /\ collector_seq' = collector_seq /\ raw' = raw /\ busy' = busy
      /\ compressed' = compressed \ {x} /\ failed' = failed
  BY <1>2, <1>5 DEF CommitTrim, senderVars, collectorVars
<1>8. Trimmed(meta, meta', log[u].until) /\ meta'.floor = meta.floor
      /\ item' = [kind |-> "deleted", ids |-> gone]
  BY <1>2, <1>4, <1>5, CommitTrimCatalog
<1>9. CatalogOK(meta', log, u)
  BY <1>3, <1>4, <1>5, <1>6, <1>8, CatalogTrims
<1>10. DiskOK(files, meta', "deleting", item')
  <2>1. /\ files \in UNION {[D -> Seq(Nat)] : D \in SUBSET Nat}
        /\ DOMAIN meta.segments \subseteq DOMAIN files /\ DOMAIN meta.segments \subseteq Nat
        /\ \A id \in DOMAIN meta.segments : meta.segments[id].len <= Len(files[id])
        /\ \A id \in DOMAIN files : id < meta.next_id
        /\ meta.active # 0
        /\ \A c \in meta.chunks : Holds(files[c.segment], c.offset, c.first, c.last)
    BY <1>4, CatalogFields DEF DiskOK, CatalogOK
  <2>2. gone = {id \in DOMAIN meta.segments : /\ meta.segments[id].sealed
                                              /\ meta.segments[id].count > 0
                                              /\ meta.segments[id].last < log[u].until}
    BY DEF DeletedSegments
  <2>3. /\ meta'.active = meta.active /\ meta'.next_id = meta.next_id
        /\ DOMAIN meta'.segments = DOMAIN meta.segments \ gone
        /\ \A id \in DOMAIN meta'.segments : meta'.segments[id] = meta.segments[id]
        /\ meta'.chunks \subseteq meta.chunks
    BY <1>8, <2>2 DEF Trimmed
  <2>4. gone \subseteq DOMAIN meta.segments
    BY <2>2
  <2> HIDE DEF gone
  <2>5. item' \in Deleted /\ item'.ids = gone
    BY <1>8, <2>1, <2>4 DEF Deleted
  <2>6. item'.ids \cap DOMAIN meta'.segments = {}
    BY <2>3, <2>5
  <2> QED
    BY <2>1, <2>3, <2>5, <2>6 DEF DiskOK
<1>11. CollectorOK(log, u, flushed, taken)
  BY <1>3, <1>5 DEF StorageInv, CollectorOK, EndsEvent
<1>12. \E cut : Pipe(cut)'
  <2>1. Done' = Done \ {x}
    BY <1>2, <1>7 DEF Done
  <2> QED
    BY <1>3, <1>7, <2>1 DEF Pipe
<1>13. /\ Journaled' /\ Pool' /\ ~failed'
       /\ slot_finalized' \in Slot \cup {0} /\ Written' /\ Phases'
  BY <1>7 DEF StorageInv, Journaled, Pool, Written, Phases
<1>14. (meta.floor <= index)'
  BY <1>7, <1>8 DEF StorageInv
<1> QED
  BY <1>7, <1>9, <1>10, <1>11, <1>12, <1>13, <1>14 DEF StorageInv

-----------------------------------------------------------------------------
(* Crash *)

\* The next index of the disk is above the floor, the chunks and the durable records.
LEMMA NextOnDisk ==
    ASSUME StorageInv
    PROVE  /\ NextIndexOnDisk \in Nat /\ meta.floor <= NextIndexOnDisk
           /\ NextIndexOnDisk \in {meta.floor} \cup {c.last + 1 : c \in meta.chunks}
           /\ \A c \in meta.chunks : c.last < NextIndexOnDisk
           /\ \A i \in 1 .. durable : IsPush(log[i]) => log[i].index < NextIndexOnDisk
<1> DEFINE N == NextIndexOnDisk
           S == {meta.floor} \cup {c.last + 1 : c \in meta.chunks}
<1>1. /\ CatalogOK(meta, log, durable) /\ meta.floor <= index /\ index \in Nat
      /\ JournalOK(log, index) /\ log \in Seq(Command) /\ durable \in Nat /\ durable <= Len(log)
  BY DEF StorageInv, Journaled, SenderOK, JournalOK, CollectorOK
<1>2. meta.floor \in Nat /\ \A c \in meta.chunks : c.last \in Nat
  BY <1>1, CatalogFields DEF CatalogOK
<1>3. \A i \in 1 .. durable : IsPush(log[i]) => log[i].index \in Nat /\ log[i].index < index
  <2>1. ASSUME NEW i \in 1 .. durable, IsPush(log[i])
        PROVE  log[i].index \in Nat /\ log[i].index < index
    <3>1. i \in 1 .. Len(log) /\ log[i] \in Command
      BY <1>1
    <3>2. log[i] \in PushCommand
      BY <2>1, <3>1 DEF Command, TrimCommand, IsPush
    <3>3. log[i].index < index
      BY <1>1, <2>1, <3>1 DEF JournalOK
    <3> QED
      BY <3>2, <3>3 DEF PushCommand
  <2> QED
    BY <2>1
<1>4. \A c \in meta.chunks : c.last + 1 \in Nat /\ c.last + 1 <= index
  <2>1. ASSUME NEW c \in meta.chunks PROVE c.last + 1 \in Nat /\ c.last + 1 <= index
    <3>1. PICK j \in 1 .. durable : IsPush(log[j]) /\ log[j].index = c.last
      BY <1>1 DEF CatalogOK, ChunkOK
    <3>2. c.last \in Nat /\ c.last < index
      BY <1>3, <3>1
    <3> QED
      BY <1>1, <3>2
  <2> QED
    BY <2>1
<1>5. S \in SUBSET Nat /\ S # {} /\ \A x \in S : x <= index
  BY <1>1, <1>2, <1>4
<1>6. N = Max(S)
  BY DEF NextIndexOnDisk
<1> HIDE DEF N
<1>7. N \in S /\ \A x \in S : x <= N
  <2> HIDE DEF S
  <2> QED
    BY <1>1, <1>5, <1>6, MaxOfBounded
<1>8. N \in Nat /\ meta.floor <= N
  BY <1>5, <1>7
<1>9. \A c \in meta.chunks : c.last < N
  <2>1. ASSUME NEW c \in meta.chunks PROVE c.last < N
    <3>1. c.last + 1 <= N /\ c.last \in Nat
      BY <1>2, <1>7
    <3> QED
      BY <1>8, <3>1
  <2> QED
    BY <2>1
<1>10. \A i \in 1 .. durable : IsPush(log[i]) => log[i].index < N
  <2>1. ASSUME NEW i \in 1 .. durable, IsPush(log[i]) PROVE log[i].index < N
    <3>1. PICK c \in meta.chunks : log[i].index <= c.last
      BY <1>1, <2>1 DEF CatalogOK
    <3>2. c.last < N /\ c.last \in Nat /\ log[i].index \in Nat
      BY <1>2, <1>3, <1>9, <2>1
    <3> QED
      BY <1>8, <3>1, <3>2
  <2> QED
    BY <2>1
<1> QED
  BY <1>7, <1>8, <1>9, <1>10 DEF N

\* The rows of the disk have heads in the durable journal.
LEMMA HeadsOnDisk ==
    ASSUME StorageInv, NEW s \in Slot
    PROVE  /\ SlotOnDisk(s).open \in BOOLEAN
           /\ SlotOnDisk(s).open =>
                /\ meta.slots[s].open /\ SlotOnDisk(s).head = meta.slots[s].head
                /\ SlotOnDisk(s).head \in Nat /\ SlotOnDisk(s).head >= meta.floor
                /\ SlotOnDisk(s).finalized = meta.slots[s].finalized
                /\ \E j \in 1 .. durable : IsPush(log[j]) /\ log[j].index = SlotOnDisk(s).head
<1>1. CatalogOK(meta, log, durable)
  BY DEF StorageInv
<1>2. meta.slots[s].open => meta.slots[s].head \in Nat
  BY <1>1, CatalogFields DEF CatalogOK
<1>3. meta.slots[s].open =>
         \E j \in 1 .. durable : IsPush(log[j]) /\ log[j].index = meta.slots[s].head
  BY <1>1 DEF CatalogOK, RowOK
<1>4. CASE meta.slots[s].open /\ meta.slots[s].head >= meta.floor
  <2> DEFINE h == meta.slots[s].head
             z == meta.slots[s].finalized
  <2>1. SlotOnDisk(s) = [open |-> TRUE, head |-> h, finalized |-> z]
    BY <1>4 DEF SlotOnDisk
  <2>2. h \in Nat /\ h >= meta.floor
        /\ \E j \in 1 .. durable : IsPush(log[j]) /\ log[j].index = h
    BY <1>2, <1>3, <1>4
  <2> HIDE DEF h, z
  <2>3. SlotOnDisk(s).open = TRUE /\ SlotOnDisk(s).head = h /\ SlotOnDisk(s).finalized = z
    BY <2>1
  <2> QED
    BY <1>4, <2>2, <2>3 DEF h, z
<1>5. CASE ~(meta.slots[s].open /\ meta.slots[s].head >= meta.floor)
  <2>1. SlotOnDisk(s) = NoRow
    BY <1>5 DEF SlotOnDisk
  <2>2. SlotOnDisk(s).open = FALSE
    BY <2>1 DEF NoRow
  <2> QED
    BY <2>2
<1> QED
  BY <1>4, <1>5

\* A crash may cut the chunk that is written, and nothing of the catalog.
LEMMA CrashFiles ==
    ASSUME StorageInv, NEW fs \in FilesAfterCrash
    PROVE  DiskOK(fs, meta, "open", NoItem)
<1>1. DiskOK(files, meta, phase, item) /\ CatalogOK(meta, log, durable)
  BY DEF StorageInv
<1>2. /\ files \in UNION {[D -> Seq(Nat)] : D \in SUBSET Nat}
      /\ DOMAIN meta.segments \subseteq DOMAIN files
      /\ \A id \in DOMAIN meta.segments : meta.segments[id].len <= Len(files[id])
      /\ \A id \in DOMAIN files : id < meta.next_id \/ id = meta.next_id
  BY <1>1 DEF DiskOK
<1>3. DOMAIN files \subseteq Nat /\ files = [id \in DOMAIN files |-> files[id]]
      /\ \A id \in DOMAIN files : files[id] \in Seq(Nat) /\ Len(files[id]) \in Nat
  BY <1>2, DiskFiles
<1>4. /\ fs \in [DOMAIN files -> Seq(Nat)]
      /\ \A id \in DOMAIN meta.segments :
            /\ meta.segments[id].len <= Len(fs[id])
            /\ \A i \in 1 .. meta.segments[id].len : fs[id][i] = files[id][i]
  <2>1. CASE phase # "written"
    <3>1. fs = files
      BY <2>1 DEF FilesAfterCrash
    <3> QED
      BY <1>2, <1>3, <3>1
  <2>2. CASE phase = "written"
    <3> DEFINE g == meta.active
               len == meta.segments[g].len
    <3>1. PICK k \in 0 .. Len(Payload(item)) :
             fs = [files EXCEPT ![g] = SubSeq(files[g], 1, len + k)]
      BY <2>2 DEF FilesAfterCrash, Active
    <3>2. g \in DOMAIN meta.segments /\ g \in DOMAIN files /\ len \in Nat
          /\ Holds(files[g], len, item.first, item.last)
      <4>1. g # 0 /\ SegmentsOK(meta) /\ Holds(files[g], len, item.first, item.last)
        BY <1>1, <2>2 DEF DiskOK, CatalogOK
      <4>2. g \in DOMAIN meta.segments
        BY <4>1 DEF SegmentsOK
      <4>3. meta.segments[g].len \in Nat
        BY <1>1, <4>2, CatalogFields DEF CatalogOK
      <4> QED
        BY <1>2, <4>1, <4>2, <4>3
    <3>3. item.first \in Nat /\ item.last \in Nat /\ item.first <= item.last
      <4>1. item \in Done /\ item.seq = writer_seq /\ item.kind = "chunk"
        BY <2>2 DEF StorageInv, Written, Done
      <4>2. PICK u \in Nat :
                    /\ durable < u /\ u <= flushed /\ u <= Len(log) /\ Fits(log, durable, u)
                    /\ item = ItemOf(log, writer_seq, durable, u) /\ writer_seq \in Nat
        BY <4>1, NextOfPipe
      <4>3. ChunkUpTo(item, u)
        BY <4>1, <4>2, ChunkOfItem
      <4> QED
        BY <4>3 DEF ChunkUpTo
    <3>4. k \in Nat /\ k <= item.last - item.first + 1
      <4>1. Len(Payload(item)) = item.last - item.first + 1
        BY <3>3, PayloadElements
      <4> QED
        BY <3>3, <4>1
    <3>5. len + k <= Len(files[g]) /\ len + k \in Nat /\ files[g] \in Seq(Nat)
      <4>1. len + item.last - item.first + 1 <= Len(files[g])
        BY <3>2 DEF Holds
      <4>2. Len(files[g]) \in Nat /\ files[g] \in Seq(Nat)
        BY <1>3, <3>2
      <4> HIDE DEF len, g
      <4> QED
        BY <3>2, <3>3, <3>4, <4>1, <4>2
    <3> DEFINE y == SubSeq(files[g], 1, len + k)
    <3>6. y \in Seq(Nat) /\ Len(y) = len + k /\ \A i \in 1 .. len + k : y[i] = files[g][i]
      <4> DEFINE q == files[g]
                 n == len + k
      <4>1. q \in Seq(Nat) /\ n \in Nat /\ n <= Len(q)
        BY <3>5
      <4> HIDE DEF q, n
      <4>2. SubSeq(q, 1, n) \in Seq(Nat) /\ Len(SubSeq(q, 1, n)) = n
            /\ \A i \in 1 .. n : SubSeq(q, 1, n)[i] = q[i]
        BY <4>1
      <4> QED
        BY <4>2 DEF q, n
    <3> HIDE DEF y
    <3>7. fs = [files EXCEPT ![g] = y]
      BY <3>1 DEF y
    <3>8. fs \in [DOMAIN files -> Seq(Nat)] /\ fs[g] = y
          /\ \A id \in DOMAIN files : id # g => fs[id] = files[id]
      BY <1>3, <3>2, <3>6, <3>7
    <3>9. len <= Len(fs[g]) /\ \A i \in 1 .. len : fs[g][i] = files[g][i]
      <4>1. \A i \in 1 .. len : i \in 1 .. len + k
        <5> HIDE DEF len
        <5> QED
          BY <3>2, <3>4
      <4>2. len <= len + k
        BY <3>2, <3>4
      <4> QED
        BY <3>6, <3>8, <4>1, <4>2
    <3>10. ASSUME NEW id \in DOMAIN meta.segments
           PROVE  /\ meta.segments[id].len <= Len(fs[id])
                  /\ \A i \in 1 .. meta.segments[id].len : fs[id][i] = files[id][i]
      BY <1>2, <3>8, <3>9
    <3> QED
      BY <3>8, <3>10
  <2> QED
    BY <2>1, <2>2
<1>5. fs \in UNION {[D -> Seq(Nat)] : D \in SUBSET Nat} /\ DOMAIN fs = DOMAIN files
  BY <1>3, <1>4, DiskOf
<1> QED
  BY <1>1, <1>2, <1>4, <1>5, DiskRewritten

\* Crash keeps the invariant: the process comes back with the durable journal.
LEMMA CrashStep ==
    ASSUME StorageInv, Crash
    PROVE  StorageInv'
<1> DEFINE d == durable
           p == SubSeq(log, 1, durable)
<1>1. /\ log' = p /\ index' = NextIndexOnDisk /\ files' \in FilesAfterCrash
      /\ replay' = [s \in Slot |-> IF SlotOnDisk(s).open THEN SlotOnDisk(s).head ELSE None]
      /\ slots' = [s \in Slot |-> None]
      /\ slot_finalized' = Max({0} \cup {s \in Slot : SlotOnDisk(s).open /\ SlotOnDisk(s).finalized})
      /\ taken' = d /\ flushed' = d /\ collector_seq' = 0 /\ raw' = <<>> /\ busy' = {}
      /\ compressed' = {} /\ writer_seq' = 0 /\ phase' = "open" /\ item' = NoItem
      /\ failed' = FALSE /\ meta' = meta /\ durable' = d
  BY DEF Crash
<1>2. /\ d \in Nat /\ d <= Len(log) /\ (d > 0 => EndsEvent(log[d])) /\ JournalOK(log, index)
      /\ log \in Seq(Command) /\ CatalogOK(meta, log, d)
  BY DEF StorageInv, CollectorOK, Journaled, JournalOK
<1>3. p \in Seq(Command) /\ Len(p) = d /\ \A i \in 1 .. d : p[i] = log[i]
  BY <1>2
<1> HIDE DEF p
<1>4. JournalOK(p, NextIndexOnDisk)
  <2>1. d \in 0 .. Len(log)
    BY <1>2
  <2>2. \A i \in 1 .. d : IsPush(log[i]) => log[i].index < NextIndexOnDisk
    BY NextOnDisk
  <2> QED
    BY <1>2, <2>1, <2>2, JournalPrefix DEF p
<1>5. SenderOK(p, NextIndexOnDisk, replay', slots')
  <2>1. NextIndexOnDisk \in Nat
    BY NextOnDisk
  <2>2. \A s \in Slot : replay'[s] = (IF SlotOnDisk(s).open THEN SlotOnDisk(s).head ELSE None)
    BY <1>1
  <2>3. \A s \in Slot : SlotOnDisk(s).open =>
           /\ SlotOnDisk(s).head \in Nat
           /\ \E j \in 1 .. d : IsPush(log[j]) /\ log[j].index = SlotOnDisk(s).head
    BY HeadsOnDisk
  <2>4. replay' \in [Slot -> Nat \cup {None}]
    BY <1>1, <2>3
  <2>5. slots' \in [Slot -> Nat \cup {None}] /\ \A s \in Slot : slots'[s] = None
    BY <1>1
  <2>6. ASSUME NEW s \in Slot, replay'[s] # None
        PROVE  /\ replay'[s] < NextIndexOnDisk
               /\ \E j \in 1 .. Len(p) : IsPush(p[j]) /\ p[j].index >= replay'[s]
    <3>1. SlotOnDisk(s).open /\ replay'[s] = SlotOnDisk(s).head
      BY <2>2, <2>6
    <3>2. PICK j \in 1 .. d : IsPush(log[j]) /\ log[j].index = replay'[s]
      BY <2>3, <3>1
    <3>3. replay'[s] < NextIndexOnDisk
      BY <3>2, NextOnDisk
    <3>4. replay'[s] \in Nat
      BY <2>3, <3>1
    <3>5. j \in 1 .. Len(p) /\ IsPush(p[j]) /\ p[j].index = replay'[s]
      BY <1>3, <3>2
    <3>6. p[j].index >= replay'[s]
      BY <3>4, <3>5
    <3> QED
      BY <3>3, <3>5, <3>6
  <2> QED
    BY <2>1, <2>4, <2>5, <2>6 DEF SenderOK
<1>6. slot_finalized' \in Slot \cup {0}
  <2> DEFINE Z == {s \in Slot : SlotOnDisk(s).open /\ SlotOnDisk(s).finalized}
             S == {0} \cup Z
  <2>1. Z \subseteq Slot /\ IsFiniteSet(Slot) /\ Slot \subseteq Nat
    BY StorageAssumption
  <2> HIDE DEF Z
  <2>2. IsFiniteSet(Z) /\ IsFiniteSet({0})
    BY <2>1, FS_Subset, FS_Singleton
  <2>3. IsFiniteSet(S) /\ S \in SUBSET Nat /\ S # {}
    <3>1. IsFiniteSet(S)
      BY <2>2, FS_Union, Zenon
    <3> QED
      BY <2>1, <3>1
  <2> HIDE DEF S
  <2>4. Max(S) \in S
    BY <2>3, MaxOfFinite
  <2>5. slot_finalized' = Max(S)
    BY <1>1 DEF S, Z
  <2> QED
    BY <2>1, <2>4, <2>5 DEF S
<1>7. CollectorOK(p, d, d, d)
  BY <1>2, <1>3 DEF CollectorOK
<1>8. \E cut : Pipe(cut)'
  <2>1. \E cut : PipeAt(cut, p, d, d, 0, 0, <<>>, {}, {})
    BY <1>2, PipeStarts
  <2>2. Done' = {}
    BY <1>1 DEF Done
  <2> QED
    BY <1>1, <2>1, <2>2 DEF Pipe
<1>9. CatalogOK(meta, p, d)
  <2>1. CatalogType(meta)
    BY <1>2 DEF CatalogOK
  <2> QED
    BY <1>2, <1>3, <2>1, CatalogStays
<1>10. DiskOK(files', meta, "open", NoItem)
  BY <1>1, CrashFiles
<1>11. Written' /\ Phases' /\ ~failed'
  BY <1>1 DEF Written, Phases
<1>12. Pool'
  <2>1. IsFiniteSet({}) /\ Cardinality({}) = 0
    BY FS_EmptySet
  <2> QED
    BY <1>1, <2>1, StorageAssumption DEF Pool
<1>13. meta.floor <= NextIndexOnDisk
  BY NextOnDisk
<1>14. Journaled'
  BY <1>1, <1>4, <1>5 DEF Journaled
<1> QED
  BY <1>1, <1>6, <1>7, <1>8, <1>9, <1>10, <1>11, <1>12, <1>13, <1>14 DEF StorageInv

-----------------------------------------------------------------------------
(* The theorems *)

\* The invariant holds of an empty store.
LEMMA InitStep ==
    ASSUME Init
    PROVE  StorageInv
<1>1. /\ log = <<>> /\ index = 0 /\ slot_finalized = 0
      /\ replay = [s \in Slot |-> None] /\ slots = [s \in Slot |-> None]
      /\ taken = 0 /\ flushed = 0 /\ collector_seq = 0 /\ raw = <<>> /\ busy = {}
      /\ compressed = {} /\ writer_seq = 0 /\ phase = "open" /\ item = NoItem
      /\ durable = 0 /\ failed = FALSE /\ files = [id \in {} |-> <<>>]
  BY DEF Init
<1> DEFINE R == [s \in Slot |-> NoRow]
           F == [id \in {} |-> <<>>]
<1>2. meta = [slots |-> R, segments |-> F, chunks |-> {}, next_id |-> 1, active |-> 0, floor |-> 0]
  BY DEF Init
<1>3. DOMAIN F = {} /\ F \in [{} -> SegmentRow] /\ F \in [{} -> Seq(Nat)]
  OBVIOUS
<1>4. R \in [Slot -> SlotRow] /\ \A s \in Slot : R[s] = NoRow
  BY DEF SlotRow
<1> HIDE DEF F, R
<1>5. F \in UNION {[D -> SegmentRow] : D \in SUBSET Nat}
      /\ F \in UNION {[D -> Seq(Nat)] : D \in SUBSET Nat}
  BY <1>3
<1>6. CatalogType(meta)
  <2> DEFINE S == [Slot -> SlotRow]
             T == UNION {[D -> SegmentRow] : D \in SUBSET Nat}
             C == SUBSET ChunkRow
  <2>1. F \in T /\ R \in S /\ {} \in C
    BY <1>4, <1>5
  <2> HIDE DEF S, T, C
  <2>2. meta \in [slots : S, segments : T, chunks : C, next_id : Nat, active : Nat, floor : Nat]
    BY <1>2, <2>1
  <2> QED
    BY <2>2 DEF CatalogType, S, T, C
<1>7. meta.slots = R /\ meta.segments = F /\ meta.chunks = {} /\ meta.next_id = 1
      /\ meta.active = 0 /\ meta.floor = 0
  BY <1>2
<1>8. CatalogOK(meta, log, 0)
  <2>1. SegmentsOK(meta)
    BY <1>3, <1>7 DEF SegmentsOK
  <2>2. \A s \in Slot : ~meta.slots[s].open
    BY <1>4, <1>7 DEF NoRow
  <2> QED
    BY <1>3, <1>6, <1>7, <2>1, <2>2 DEF CatalogOK
<1>9. DiskOK(files, meta, "open", NoItem)
  <2>1. files = F
    BY <1>1 DEF F
  <2> QED
    BY <1>3, <1>5, <1>7, <2>1 DEF DiskOK
<1>10. JournalOK(<<>>, 0) /\ CollectorOK(<<>>, 0, 0, 0)
  BY DEF JournalOK, CollectorOK
<1>11. SenderOK(<<>>, 0, replay, slots)
  BY <1>1 DEF SenderOK
<1>12. \E cut : Pipe(cut)
  <2>1. \E cut : PipeAt(cut, <<>>, 0, 0, 0, 0, <<>>, {}, {})
    BY PipeStarts
  <2>2. Done = {}
    BY <1>1 DEF Done
  <2> QED
    BY <1>1, <2>1, <2>2 DEF Pipe
<1>13. Pool
  <2>1. IsFiniteSet({}) /\ Cardinality({}) = 0
    BY FS_EmptySet
  <2> QED
    BY <1>1, <2>1, StorageAssumption DEF Pool
<1>14. Written /\ Phases /\ meta.floor <= index
  BY <1>1, <1>7 DEF Written, Phases
<1> QED
  BY <1>1, <1>8, <1>9, <1>10, <1>11, <1>12, <1>13, <1>14 DEF StorageInv, Journaled

\* Every step keeps the invariant.
LEMMA StorageStep ==
    ASSUME StorageInv, [Next]_vars
    PROVE  StorageInv'
<1>1. CASE Next
  <2>1. CASE \E s \in Slot, h \in Higher, final \in BOOLEAN : Publish(s, h, final)
    BY <2>1, PublishStep
  <2>2. CASE BeginLiveEpoch
    BY <2>2, BeginLiveEpochStep
  <2>3. CASE Collect
    BY <2>3, CollectRecordStep, CollectTrimStep DEF Collect
  <2>4. CASE CollectTimeout
    BY <2>4, CollectTimeoutStep
  <2>5. CASE Compress
    BY <2>5, CompressStep
  <2>6. CASE Write
    BY <2>6, OpenStep, CreateSegmentStep, CommitSegmentStep, AppendChunkStep, CommitChunkStep,
       CommitTrimStep, DeleteFileStep DEF Write
  <2>7. CASE Crash
    BY <2>7, CrashStep
  <2> QED
    BY <1>1, <2>1, <2>2, <2>3, <2>4, <2>5, <2>6, <2>7 DEF Next
<1>2. CASE UNCHANGED vars
  BY <1>2 DEF vars, senderVars, collectorVars, writerVars, diskVars, StorageInv, Journaled, Pipe, Done,
     Written, Phases, Pool
<1> QED
  BY <1>1, <1>2

\* In every reachable state of sender, collector, compressors and writer, with a crash
\* at any moment, the journal is well formed, the items in flight are cut from it at
\* ends of source events, and catalog and files are those of the durable prefix.
THEOREM StorageInvariant == Spec => []StorageInv
<1>1. Init => StorageInv
  BY InitStep
<1>2. StorageInv /\ [Next]_vars => StorageInv'
  BY StorageStep
<1> QED
  BY <1>1, <1>2, PTL DEF Spec

\* The type invariant follows.
LEMMA StorageTyped ==
    ASSUME StorageInv
    PROVE  TypeOK
<1>1. /\ log \in Seq(Command) /\ CatalogOK(meta, log, durable)
  BY DEF StorageInv, Journaled, JournalOK
<1>2. \A i \in DOMAIN log : log[i].slot \in Slot /\ log[i].op \in {"push", "trim"}
  <2>1. ASSUME NEW i \in DOMAIN log PROVE log[i].slot \in Slot /\ log[i].op \in {"push", "trim"}
    <3>1. log[i] \in Command
      BY <1>1
    <3> QED
      BY <3>1 DEF Command, PushCommand, TrimCommand
  <2> QED
    BY <2>1
<1>3. /\ index \in Nat /\ slot_finalized \in Slot \cup {0}
      /\ replay \in [Slot -> Nat \cup {None}] /\ slots \in [Slot -> Nat \cup {None}]
      /\ Cardinality(busy) <= Threads
      /\ phase \in {"open", "ready", "rotate", "created", "written", "deleting"}
  BY DEF StorageInv, Journaled, SenderOK, Pool, Phases
<1>4. durable \in 0 .. flushed /\ flushed \in 0 .. taken /\ taken \in 0 .. Len(log)
  BY <1>1 DEF StorageInv, CollectorOK
<1>5. collector_seq \in Nat /\ writer_seq \in 0 .. collector_seq
  <2>1. PICK cut : Pipe(cut)
    BY DEF StorageInv
  <2> QED
    BY <2>1 DEF Pipe, PipeAt
<1>6. meta.next_id \in Nat /\ meta.floor \in Nat /\ meta.active \in Nat /\ DOMAIN meta.segments \subseteq Nat
  BY <1>1, CatalogFields DEF CatalogOK
<1>7. /\ meta.active < meta.next_id /\ meta.active \in DOMAIN meta.segments \cup {0}
      /\ \A id \in DOMAIN meta.segments : id <= meta.active
  BY <1>1 DEF CatalogOK, SegmentsOK
<1>8. meta.next_id \in Nat \ {0} /\ \A id \in DOMAIN meta.segments : id < meta.next_id
  BY <1>6, <1>7
<1> QED
  BY <1>2, <1>3, <1>4, <1>5, <1>6, <1>7, <1>8 DEF TypeOK

\* A chunk is the part of its file that the catalog says.
LEMMA StorageReadable ==
    ASSUME StorageInv
    PROVE  ChunksReadable
<1> SUFFICES ASSUME NEW c \in meta.chunks
             PROVE  /\ c.segment \in DOMAIN meta.segments \cap DOMAIN files
                    /\ SubSeq(files[c.segment], c.offset + 1, c.offset + c.size) = Payload(c)
  BY DEF ChunksReadable
<1>1. DiskOK(files, meta, phase, item) /\ CatalogOK(meta, log, durable)
  BY DEF StorageInv
<1>2. c.segment \in DOMAIN meta.segments /\ c.size = c.last - c.first + 1
  BY <1>1 DEF CatalogOK, ChunkOK
<1>3. c.offset \in Nat /\ c.first \in Nat /\ c.last \in Nat /\ c.size \in Nat
  BY <1>1, CatalogFields DEF CatalogOK
<1>4. c.segment \in DOMAIN files /\ files[c.segment] \in Seq(Nat)
  BY <1>1, <1>2, DiskFiles DEF DiskOK
<1>5. Holds(files[c.segment], c.offset, c.first, c.last)
  BY <1>1 DEF DiskOK
<1> DEFINE q == files[c.segment]
           o == c.offset
           a == c.first
           n == c.size
<1>6. /\ q \in Seq(Nat) /\ o \in Nat /\ a \in Nat /\ n \in Nat /\ o + n <= Len(q)
      /\ \A i \in 1 .. n : q[o + i] = a + i - 1
  <2>1. c.offset + c.last - c.first + 1 <= Len(q) /\ Len(q) \in Nat
    BY <1>4, <1>5 DEF Holds
  <2>2. o + n <= Len(q)
    BY <1>2, <1>3, <2>1
  <2>3. \A i \in 1 .. n : q[o + i] = a + i - 1
    BY <1>2, <1>5 DEF Holds
  <2> QED
    BY <1>3, <1>4, <2>2, <2>3
<1>7. Payload(c) = [i \in 1 .. n |-> a + i - 1]
  BY <1>2 DEF Payload
<1> HIDE DEF q, o, a, n
<1>8. SubSeq(q, o + 1, o + n) = [i \in 1 .. n |-> a + i - 1]
  <2>1. SubSeq(q, o + 1, o + n) = [i \in 1 .. n |-> q[o + i]]
    BY <1>6
  <2> QED
    BY <1>6, <2>1
<1> QED
  BY <1>2, <1>4, <1>7, <1>8 DEF q, o, a, n

\* The durable records from the head of a row on are in chunks.
LEMMA StorageRows ==
    ASSUME StorageInv
    PROVE  RowsReadable
  BY DEF StorageInv, CatalogOK, RowOK, RowsReadable

\* Whatever the sizes, the order in which the compressors finish and the moments at which
\* the process dies, each chunk of the catalog can be read from its file, every record
\* that a retained slot needs is in a chunk, and no storage thread stops with an error.
THEOREM FilesAndCatalogAgree == Spec => []FilesInv
<1>1. StorageInv => FilesInv
  BY StorageTyped, StorageReadable, StorageRows DEF FilesInv, NoThreadFails, StorageInv
<1> QED
  BY <1>1, StorageInvariant, PTL

-----------------------------------------------------------------------------
(* The rows and the journal *)

\* Record i enters slot s, above the floor f.
Enters(l, f, s, i) == IsPush(l[i]) /\ l[i].init /\ l[i].slot = s /\ l[i].index >= f

\* It does so in the first d commands, and none of them removes the slot.
Stands(l, d, f, s, i) ==
    /\ i \in 1 .. d /\ Enters(l, f, s, i)
    /\ \A j \in i + 1 .. d : IsPush(l[j]) \/ l[j].slot # s

\* Record j of the slot is the processed one of a finalized status.
Finalizes(l, s, j) == IsPush(l[j]) /\ l[j].slot = s /\ l[j].final

\* A slot is entered again only after it was removed.
Separated(l, f) ==
    \A s \in Slot : \A j \in 1 .. Len(l) : \A i \in 1 .. j - 1 :
        Enters(l, f, s, i) /\ Enters(l, f, s, j) => ~Stands(l, j - 1, f, s, i)

\* The sender knows where the slots of the journal were entered.
Known(l, f, rep) ==
    \A s \in Slot : \A i \in 1 .. Len(l) : Stands(l, Len(l), f, s, i) => rep[s] = l[i].index

\* A trim takes nothing that a slot of the journal needs.
TrimsSpare(l, f) ==
    \A k \in 1 .. Len(l) : ~IsPush(l[k]) =>
        \A s \in Slot : \A i \in 1 .. k : Stands(l, k, f, s, i) => l[i].index >= l[k].until

\* What is sent after a finalized status is about later slots, up to the end z.
FinalLast(l, d, z) ==
    \A i \in d + 1 .. Len(l) : IsPush(l[i]) /\ l[i].final =>
        /\ l[i].slot <= z
        /\ \A j \in i + 1 .. Len(l) : IsPush(l[j]) => l[j].slot > l[i].slot

\* The rows of the catalog are those of the first d commands, above the floor.
RowsOf(m, l, d) ==
    \A s \in Slot :
        LET r == m.slots[s]
        IN  /\ \A i \in 1 .. d : Stands(l, d, m.floor, s, i) =>
                  /\ r.open /\ r.head = l[i].index
                  /\ r.finalized = \E j \in i .. d : Finalizes(l, s, j)
            /\ r.open /\ r.head >= m.floor => \E i \in 1 .. d : Stands(l, d, m.floor, s, i)

SentOK(l, f, d, rep, z) == Separated(l, f) /\ Known(l, f, rep) /\ TrimsSpare(l, f) /\ FinalLast(l, d, z)

EntryInv == SentOK(log, meta.floor, durable, replay, slot_finalized) /\ RowsOf(meta, log, durable)

\* Whether a record stands depends only on the commands up to d.
LEMMA StandsSame ==
    ASSUME NEW l, NEW l2, NEW d \in Nat, \A i \in 1 .. d : l2[i] = l[i], NEW f, NEW s, NEW i
    PROVE  Stands(l2, d, f, s, i) <=> Stands(l, d, f, s, i)
<1>1. ASSUME NEW a, NEW b, \A k \in 1 .. d : b[k] = a[k], Stands(a, d, f, s, i)
      PROVE  Stands(b, d, f, s, i)
  <2>1. i \in 1 .. d /\ Enters(a, f, s, i) /\ \A j \in i + 1 .. d : IsPush(a[j]) \/ a[j].slot # s
    BY <1>1 DEF Stands
  <2>2. b[i] = a[i] /\ \A j \in i + 1 .. d : b[j] = a[j]
    BY <1>1, <2>1
  <2>3. Enters(b, f, s, i)
    BY <2>1, <2>2 DEF Enters
  <2> QED
    BY <2>1, <2>2, <2>3 DEF Stands
<1>2. ASSUME Stands(l2, d, f, s, i) PROVE Stands(l, d, f, s, i)
  BY <1>1, <1>2
<1>3. ASSUME Stands(l, d, f, s, i) PROVE Stands(l2, d, f, s, i)
  BY <1>1, <1>3
<1> QED
  BY <1>2, <1>3

\* A record that stands stood before.
LEMMA StoodBefore ==
    ASSUME NEW l, NEW d \in Nat, NEW f, NEW s, NEW i, Stands(l, d, f, s, i),
           NEW e \in Nat, i <= e, e <= d
    PROVE  Stands(l, e, f, s, i)
<1>1. i \in 1 .. d /\ Enters(l, f, s, i) /\ \A j \in i + 1 .. d : IsPush(l[j]) \/ l[j].slot # s
  BY DEF Stands
<1>2. i \in 1 .. e /\ \A j \in i + 1 .. e : j \in i + 1 .. d
  BY <1>1
<1> QED
  BY <1>1, <1>2 DEF Stands

\* It stands above every lower floor too.
LEMMA StandsLower ==
    ASSUME NEW l, NEW d, NEW f \in Nat, NEW g \in Nat, f <= g, NEW s, NEW i,
           Stands(l, d, g, s, i), l[i].index \in Nat
    PROVE  Stands(l, d, f, s, i)
  BY DEF Stands, Enters

\* One record at most stands for a slot.
LEMMA StandsOnce ==
    ASSUME NEW l, NEW f, Separated(l, f), NEW d \in Nat, d <= Len(l), Len(l) \in Nat,
           NEW s \in Slot, NEW i, NEW j, Stands(l, d, f, s, i), Stands(l, d, f, s, j)
    PROVE  i = j
<1>1. ASSUME NEW a, NEW b, Stands(l, d, f, s, a), Stands(l, d, f, s, b), a < b
      PROVE  FALSE
  <2>1. a \in 1 .. d /\ b \in 1 .. d /\ Enters(l, f, s, a) /\ Enters(l, f, s, b)
    BY <1>1 DEF Stands
  <2>2. b \in 1 .. Len(l) /\ a \in 1 .. b - 1 /\ b - 1 \in Nat /\ a <= b - 1 /\ b - 1 <= d
    BY <1>1, <2>1
  <2>3. Stands(l, b - 1, f, s, a)
    BY <1>1, <2>2, StoodBefore
  <2> QED
    BY <2>1, <2>2, <2>3 DEF Separated
<1>2. i \in 1 .. d /\ j \in 1 .. d
  BY DEF Stands
<1>3. i < j \/ j < i \/ i = j
  BY <1>2
<1> QED
  BY <1>1, <1>3

\* The slots of an order from oldest to newest are all slots of the set.
LEMMA OrderIsOnto ==
    ASSUME NEW S \in SUBSET Nat, IsFiniteSet(S), NEW order \in OldestFirst(S), NEW t \in S
    PROVE  \E k \in 1 .. Cardinality(S) : order[k] = t
<1> DEFINE n == Cardinality(S)
<1>1. n \in Nat
  BY FS_CardinalityType
<1>2. /\ order \in [1 .. n -> S]
      /\ \A i, j \in 1 .. n : i < j => order[i] < order[j]
  BY DEF OldestFirst
<1> HIDE DEF n
<1>3. \A i, j \in 1 .. n : order[i] = order[j] => i = j
  <2>1. ASSUME NEW i \in 1 .. n, NEW j \in 1 .. n, order[i] = order[j], i # j PROVE FALSE
    <3>0. order[i] \in S /\ order[j] \in S
      BY <1>2
    <3>1. order[i] \in Nat /\ order[j] \in Nat
      BY <3>0, Zenon
    <3>a. i < j \/ j < i
      BY <1>1, <2>1
    <3>2. order[i] < order[j] \/ order[j] < order[i]
      BY <1>2, <3>a
    <3> QED
      BY <2>1, <3>1, <3>2
  <2> QED
    BY <2>1
<1>4. order \in Injection(1 .. n, S)
  BY <1>2, <1>3 DEF Injection, IsInjective
<1>5. IsFiniteSet(1 .. n) /\ Cardinality(1 .. n) = n
  BY <1>1, FS_Interval
<1>6. Cardinality(1 .. n) = Cardinality(S)
  BY <1>5 DEF n
<1>7. order \in Surjection(1 .. n, S)
  BY <1>4, <1>6, FS_Injection
<1> QED
  BY <1>7 DEF Surjection, n

-----------------------------------------------------------------------------
(* Publish *)

\* What a publication of slot s appends: records l + 1 .. n of the slot, only the first
\* of which may enter it, and one trim for each slot of the set that leaves.
Appended(l2, len, n, s, final, leaves, rep) ==
    /\ \A i \in len + 1 .. n :
          /\ IsPush(l2[i]) /\ l2[i].slot = s /\ (l2[i].final => final /\ i = n)
          /\ l2[i].init => i = len + 1 /\ replay[s] = None /\ l2[i].index = rep[s]
    /\ \A i \in n + 1 .. Len(l2) :
          /\ ~IsPush(l2[i])
          /\ \A t \in OpenSlots(rep) : (\A k \in n + 1 .. i : l2[k].slot # t) => l2[i].until <= rep[t]
    /\ \A t \in leaves : \E k \in n + 1 .. Len(l2) : l2[k].slot = t

\* Publish appends that.
LEMMA PublishAppends ==
    ASSUME Journaled, NEW s \in Slot, NEW h \in Higher, NEW final \in BOOLEAN,
           Publish(s, h, final)
    PROVE  /\ Appended(log', Len(log), Len(log) + h + 1, s, final,
                       OutsideWindow(OpenSlots(Rep(s)), MaxSlots), Rep(s))
           /\ Len(log) + h + 1 <= Len(log') /\ Len(log') \in Nat
<1> DEFINE W == OutsideWindow(OpenSlots(Rep(s)), MaxSlots)
           L == Len(log)
           N == Len(log) + h + 1
<1>1. PICK order \in OldestFirst(W) :
         Sent(log, log', index, s, h, final, HeadOf(s), Rep(s), order)
  BY PublishSent
<1>2. JournalOK(log, index) /\ SenderOK(log, index, replay, slots)
  BY DEF Journaled
<1>3. h \in Nat /\ index \in Nat /\ L \in Nat /\ Len(order) \in Nat /\ N \in Nat
  BY <1>1, <1>2, StorageAssumption DEF JournalOK, SenderOK, Sent
<1>4. /\ Rep(s) \in [Slot -> Nat \cup {None}] /\ s \in OpenSlots(Rep(s))
      /\ HeadOf(s) \in Nat /\ Rep(s)[s] \in Nat /\ HeadOf(s) <= index
  BY <1>2, RepType
<1>5. /\ order \in Seq(Slot)
      /\ \A i \in 1 .. Len(order) : \A t \in Left(Rep(s), order, i) :
            Min({Rep(s)[u] : u \in Left(Rep(s), order, i)}) <= Rep(s)[t]
  BY <1>1, <1>4, Retained
<1>6. /\ Len(log') = N + Len(order)
      /\ \A i \in 1 .. h + 1 :
            /\ IsPush(log'[L + i]) /\ log'[L + i].slot = s
            /\ log'[L + i].final = (final /\ i = h + 1)
            /\ log'[L + i].index = index + i - 1
            /\ log'[L + i].init = (index + i - 1 = HeadOf(s))
      /\ \A i \in 1 .. Len(order) :
            /\ ~IsPush(log'[N + i])
            /\ log'[N + i].slot = order[i]
            /\ log'[N + i].until = Min({Rep(s)[t] : t \in Left(Rep(s), order, i)})
  BY <1>1 DEF Sent
<1> HIDE DEF W
<1>7. ASSUME NEW i \in L + 1 .. N
      PROVE  /\ IsPush(log'[i]) /\ log'[i].slot = s /\ (log'[i].final => final /\ i = N)
             /\ log'[i].init => i = L + 1 /\ replay[s] = None /\ log'[i].index = Rep(s)[s]
  <2>1. i - L \in 1 .. h + 1 /\ L + (i - L) = i
    BY <1>3
  <2>2. /\ IsPush(log'[i]) /\ log'[i].slot = s
        /\ log'[i].final = (final /\ i - L = h + 1)
        /\ log'[i].index = index + (i - L) - 1
        /\ log'[i].init = (index + (i - L) - 1 = HeadOf(s))
    BY <1>6, <2>1
  <2>3. i - L = h + 1 => i = N
    BY <1>3
  <2>4. ASSUME log'[i].init PROVE i = L + 1 /\ replay[s] = None /\ log'[i].index = Rep(s)[s]
    <3>1. index + (i - L) - 1 = HeadOf(s)
      BY <2>2, <2>4
    <3>2. i = L + 1 /\ HeadOf(s) = index
      BY <1>3, <1>4, <2>1, <3>1
    <3>3. slots[s] = None
      <4>1. slots[s] # None => slots[s] < index /\ HeadOf(s) = slots[s]
        BY <1>2 DEF SenderOK, HeadOf
      <4> QED
        BY <1>3, <3>2, <4>1
    <3>4. Rep(s)[s] = index
      BY <3>2, <3>3 DEF HeadOf
    <3>5. replay[s] = None
      <4>1. replay[s] # None => replay[s] < index /\ Rep(s)[s] = replay[s]
        BY <1>2 DEF SenderOK, Rep
      <4> QED
        BY <1>3, <3>4, <4>1
    <3>6. log'[i].index = index
      BY <1>3, <2>2, <3>2
    <3> QED
      BY <3>2, <3>4, <3>5, <3>6
  <2> QED
    BY <2>2, <2>3, <2>4
<1>8. ASSUME NEW i \in N + 1 .. Len(log')
      PROVE  /\ ~IsPush(log'[i])
             /\ \A t \in OpenSlots(Rep(s)) :
                   (\A k \in N + 1 .. i : log'[k].slot # t) => log'[i].until <= Rep(s)[t]
  <2> DEFINE j == i - N
  <2>1. j \in 1 .. Len(order) /\ N + j = i
    BY <1>3, <1>6
  <2>2. /\ ~IsPush(log'[i])
        /\ log'[i].until = Min({Rep(s)[t] : t \in Left(Rep(s), order, j)})
    BY <1>6, <2>1
  <2>3. ASSUME NEW t \in OpenSlots(Rep(s)), \A k \in N + 1 .. i : log'[k].slot # t
        PROVE  log'[i].until <= Rep(s)[t]
    <3>1. ASSUME NEW k \in 1 .. j PROVE order[k] # t
      <4>1. N + k \in N + 1 .. i /\ k \in 1 .. Len(order)
        BY <1>3, <2>1
      <4> QED
        BY <1>6, <2>3, <4>1
    <3>2. t \in Left(Rep(s), order, j)
      BY <3>1 DEF Left
    <3> QED
      BY <1>5, <2>1, <2>2, <3>2
  <2> QED
    BY <2>2, <2>3
<1>9. ASSUME NEW t \in W PROVE \E k \in N + 1 .. Len(log') : log'[k].slot = t
  <2>1. W \subseteq OpenSlots(Rep(s)) /\ W \subseteq Slot
    BY DEF W, OutsideWindow, OpenSlots
  <2>2. IsFiniteSet(W) /\ W \in SUBSET Nat
    BY <2>1, StorageAssumption, FS_Subset
  <2>3. Cardinality(W) = Len(order)
    <3> DEFINE K == Cardinality(W)
    <3>1. K \in Nat /\ order \in [1 .. K -> W]
      BY <1>1, <2>2, FS_CardinalityType DEF OldestFirst
    <3> HIDE DEF K
    <3>2. DOMAIN order = 1 .. K /\ DOMAIN order = 1 .. Len(order)
      BY <1>5, <3>1
    <3>3. K = Len(order)
      BY <1>3, <3>1, <3>2
    <3> QED
      BY <3>3 DEF K
  <2>4. PICK k \in 1 .. Len(order) : order[k] = t
    BY <1>1, <2>2, <2>3, OrderIsOnto
  <2>5. N + k \in N + 1 .. Len(log')
    BY <1>3, <1>6
  <2> QED
    BY <1>6, <2>4, <2>5
<1>10. Appended(log', L, N, s, final, W, Rep(s))
  <2> HIDE DEF L, N
  <2> QED
    BY <1>7, <1>8, <1>9 DEF Appended
<1> QED
  BY <1>3, <1>6, <1>10 DEF W

\* Publish keeps what is known of the journal.
LEMMA PublishSentOK ==
    ASSUME StorageInv, EntryInv, NEW s \in Slot, NEW h \in Higher, NEW final \in BOOLEAN,
           Publish(s, h, final)
    PROVE  SentOK(log', meta.floor, durable, replay', slot_finalized')
<1> DEFINE L == Len(log)
           N == Len(log) + h + 1
           M == Len(log')
           f == meta.floor
           W == OutsideWindow(OpenSlots(Rep(s)), MaxSlots)
<1>1. /\ Journaled /\ Separated(log, f) /\ Known(log, f, replay) /\ TrimsSpare(log, f)
      /\ FinalLast(log, durable, slot_finalized)
  BY DEF StorageInv, EntryInv, SentOK
<1>2. Appended(log', L, N, s, final, W, Rep(s)) /\ N <= M /\ M \in Nat
  BY <1>1, PublishAppends
<1>3. \A i \in 1 .. L : log'[i] = log[i]
  BY <1>1, PublishJournaled
<1>4. L \in Nat /\ N \in Nat /\ L < N /\ log \in Seq(Command)
  BY <1>1, StorageAssumption DEF Journaled, JournalOK
<1>5. /\ replay' = [t \in Slot |-> IF t \in W THEN None ELSE Rep(s)[t]]
      /\ slot_finalized' = (IF final THEN s ELSE slot_finalized) /\ s > slot_finalized
  BY DEF Publish, Rep
<1>6. /\ \A i \in L + 1 .. N :
            /\ IsPush(log'[i]) /\ log'[i].slot = s /\ (log'[i].final => final /\ i = N)
            /\ log'[i].init => i = L + 1 /\ replay[s] = None /\ log'[i].index = Rep(s)[s]
      /\ \A i \in N + 1 .. M :
            /\ ~IsPush(log'[i])
            /\ \A t \in OpenSlots(Rep(s)) :
                  (\A k \in N + 1 .. i : log'[k].slot # t) => log'[i].until <= Rep(s)[t]
      /\ \A t \in W : \E k \in N + 1 .. M : log'[k].slot = t
  BY <1>2 DEF Appended
<1>7. replay \in [Slot -> Nat \cup {None}] /\ Rep(s) \in [Slot -> Nat \cup {None}]
  BY <1>1, RepType DEF Journaled, SenderOK
<1>8. \A i \in 1 .. L : IsPush(log[i]) => log[i].index \in Nat
  <2>1. ASSUME NEW i \in 1 .. L, IsPush(log[i]) PROVE log[i].index \in Nat
    <3>1. log[i] \in Command
      BY <1>4
    <3> QED
      BY <2>1, <3>1 DEF Command, PushCommand, TrimCommand, IsPush
  <2> QED
    BY <2>1
<1> HIDE DEF L, N, M, W, f
<1>9. ASSUME NEW t \in Slot, NEW i \in 1 .. L, Stands(log', L, f, t, i)
      PROVE  replay[t] = log'[i].index /\ replay[t] # None
  <2>1. Stands(log, L, f, t, i)
    BY <1>3, <1>4, <1>9, StandsSame
  <2>2. replay[t] = log[i].index /\ IsPush(log[i])
    BY <1>1, <2>1 DEF Known, L, Stands, Enters
  <2> QED
    BY <1>3, <1>8, <2>2 DEF None
<1>10. ASSUME NEW e \in L .. M, NEW t \in Slot, NEW i \in 1 .. e, Stands(log', e, f, t, i)
       PROVE  /\ Rep(s)[t] = log'[i].index /\ t \in OpenSlots(Rep(s))
              /\ \A k \in N + 1 .. e : log'[k].slot # t
  <2>1. /\ IsPush(log'[i]) /\ log'[i].init /\ log'[i].slot = t
        /\ \A j \in i + 1 .. e : IsPush(log'[j]) \/ log'[j].slot # t
    BY <1>10 DEF Stands, Enters
  <2>2. i <= N
    <3>1. SUFFICES ASSUME i > N PROVE FALSE
      BY <1>4
    <3>2. i \in N + 1 .. M
      BY <1>2, <1>4, <3>1
    <3> QED
      BY <1>6, <2>1, <3>2
  <2>3. \A k \in N + 1 .. e : log'[k].slot # t
    <3>1. ASSUME NEW k \in N + 1 .. e PROVE log'[k].slot # t
      <4>1. k \in i + 1 .. e /\ k \in N + 1 .. M
        BY <1>2, <1>4, <2>2
      <4> QED
        BY <1>6, <2>1, <4>1
    <3> QED
      BY <3>1
  <2>4. CASE i <= L
    <3>1. i \in 1 .. L /\ e \in Nat /\ L <= e
      BY <1>2, <1>4, <2>4
    <3>2. Stands(log', L, f, t, i)
      BY <1>4, <1>10, <2>4, <3>1, StoodBefore
    <3>3. replay[t] = log'[i].index /\ replay[t] # None
      BY <1>9, <3>1, <3>2
    <3>4. Rep(s)[t] = replay[t]
      BY <1>7, <3>3 DEF Rep
    <3> QED
      BY <2>3, <3>3, <3>4 DEF OpenSlots
  <2>5. CASE i > L
    <3>1. i \in L + 1 .. N
      BY <1>4, <2>2, <2>5
    <3>2. t = s /\ log'[i].index = Rep(s)[s]
      BY <1>6, <2>1, <3>1
    <3>3. s \in OpenSlots(Rep(s))
      BY <1>1, RepType DEF Journaled
    <3> QED
      BY <2>3, <3>2, <3>3
  <2> QED
    BY <1>4, <2>4, <2>5
<1>11. Known(log', f, replay')
  <2>1. ASSUME NEW t \in Slot, NEW i \in 1 .. M, Stands(log', M, f, t, i)
        PROVE  replay'[t] = log'[i].index
    <3>1. M \in L .. M
      BY <1>2, <1>4
    <3>2. Rep(s)[t] = log'[i].index /\ \A k \in N + 1 .. M : log'[k].slot # t
      BY <1>10, <2>1, <3>1
    <3>3. t \notin W
      BY <1>6, <3>2
    <3> QED
      BY <1>5, <3>2, <3>3
  <2> QED
    BY <2>1 DEF Known, M
<1>12. TrimsSpare(log', f)
  <2>1. ASSUME NEW k \in 1 .. M, ~IsPush(log'[k]), NEW t \in Slot, NEW i \in 1 .. k,
               Stands(log', k, f, t, i)
        PROVE  log'[i].index >= log'[k].until
    <3>1. CASE k <= L
      <4>1. k \in 1 .. L /\ k \in Nat /\ i \in 1 .. L
        BY <1>2, <1>4, <3>1
      <4>2. \A j \in 1 .. k : log'[j] = log[j]
        BY <1>3, <1>4, <4>1
      <4>3. Stands(log, k, f, t, i)
        BY <2>1, <4>1, <4>2, StandsSame
      <4>4. ~IsPush(log[k])
        BY <1>3, <2>1, <4>1
      <4>5. log[i].index >= log[k].until
        BY <1>1, <4>1, <4>3, <4>4 DEF TrimsSpare, L
      <4> QED
        BY <1>3, <4>1, <4>5
    <3>2. CASE k > L
      <4>1. k \in L .. M /\ k \in Nat
        BY <1>2, <1>4, <3>2
      <4>2. k \in N + 1 .. M
        <5>1. SUFFICES ASSUME k <= N PROVE FALSE
          BY <1>2, <1>4, <4>1
        <5>2. k \in L + 1 .. N
          BY <1>4, <3>2, <4>1, <5>1
        <5> QED
          BY <1>6, <2>1, <5>2
      <4>3. /\ Rep(s)[t] = log'[i].index /\ t \in OpenSlots(Rep(s))
            /\ \A j \in N + 1 .. k : log'[j].slot # t
        BY <1>10, <2>1, <4>1
      <4>4. log'[k].until <= Rep(s)[t]
        BY <1>6, <4>2, <4>3
      <4> QED
        BY <4>3, <4>4
    <3> QED
      BY <1>2, <1>4, <3>1, <3>2
  <2> QED
    BY <2>1 DEF TrimsSpare, M
<1>13. Separated(log', f)
  <2>1. ASSUME NEW t \in Slot, NEW j \in 1 .. M, NEW i \in 1 .. j - 1,
               Enters(log', f, t, i), Enters(log', f, t, j), Stands(log', j - 1, f, t, i)
        PROVE  FALSE
    <3>0. j \in Nat /\ i \in Nat /\ j - 1 \in Nat
      BY <1>2
    <3>1. CASE j <= L
      <4>1. j \in 1 .. L /\ i \in 1 .. L /\ \A k \in 1 .. j - 1 : k \in 1 .. L
        BY <1>2, <1>4, <3>0, <3>1
      <4>2. \A k \in 1 .. j - 1 : log'[k] = log[k]
        BY <1>3, <4>1
      <4>3. Stands(log, j - 1, f, t, i)
        BY <2>1, <3>0, <4>2, StandsSame
      <4>4. Enters(log, f, t, i) /\ Enters(log, f, t, j)
        BY <1>3, <2>1, <4>1 DEF Enters
      <4> QED
        BY <1>1, <4>1, <4>3, <4>4 DEF Separated, L
    <3>2. CASE j > L
      <4>1. j \in L + 1 .. N
        <5>1. SUFFICES ASSUME j > N PROVE FALSE
          BY <1>4, <3>0, <3>2
        <5>2. j \in N + 1 .. M
          BY <1>2, <1>4, <5>1
        <5> QED
          BY <1>6, <2>1, <5>2 DEF Enters
      <4>2. j = L + 1 /\ replay[s] = None /\ t = s
        BY <1>6, <2>1, <4>1 DEF Enters
      <4>3. j - 1 = L /\ i \in 1 .. L
        BY <1>4, <4>2
      <4>4. Stands(log', L, f, t, i)
        BY <2>1, <4>3
      <4> QED
        BY <1>9, <4>2, <4>3, <4>4
    <3> QED
      BY <1>4, <3>0, <3>1, <3>2
  <2> QED
    BY <2>1 DEF Separated, M
<1>14. FinalLast(log', durable, slot_finalized')
  <2>0. /\ s \in Nat /\ slot_finalized \in Nat /\ slot_finalized' \in Nat
        /\ slot_finalized <= slot_finalized'
    BY <1>5, StorageAssumption DEF StorageInv
  <2>1. durable \in Nat /\ durable <= L
    BY <1>4 DEF StorageInv, CollectorOK, L
  <2>2. ASSUME NEW i \in durable + 1 .. M, IsPush(log'[i]), log'[i].final
        PROVE  /\ log'[i].slot <= slot_finalized'
               /\ \A j \in i + 1 .. M : IsPush(log'[j]) => log'[j].slot > log'[i].slot
    <3>1. CASE i <= L
      <4>1. i \in durable + 1 .. L /\ i \in 1 .. L /\ log'[i] = log[i]
        BY <1>2, <1>3, <1>4, <2>1, <3>1
      <4>2. /\ log[i].slot <= slot_finalized
            /\ \A j \in i + 1 .. L : IsPush(log[j]) => log[j].slot > log[i].slot
        BY <1>1, <2>2, <4>1 DEF FinalLast, L
      <4>3. log[i].slot \in Nat
        <5>1. log[i] \in Command
          BY <1>4, <4>1 DEF L
        <5> QED
          BY <5>1, StorageAssumption DEF Command, PushCommand, TrimCommand
      <4>4. ASSUME NEW j \in i + 1 .. M, IsPush(log'[j]) PROVE log'[j].slot > log'[i].slot
        <5>1. CASE j <= L
          <6>1. j \in i + 1 .. L /\ j \in 1 .. L
            BY <1>2, <1>4, <4>1, <5>1
          <6> QED
            BY <1>3, <4>1, <4>2, <4>4, <6>1
        <5>2. CASE j > L
          <6>1. j \in L + 1 .. N
            <7>1. SUFFICES ASSUME j > N PROVE FALSE
              BY <1>2, <1>4, <4>1, <5>2
            <7>2. j \in N + 1 .. M
              BY <1>2, <1>4, <4>1, <7>1
            <7> QED
              BY <1>6, <4>4, <7>2
          <6>2. log'[j].slot = s
            BY <1>6, <6>1
          <6> QED
            BY <1>5, <2>0, <4>1, <4>2, <4>3, <6>2
        <5> QED
          BY <1>2, <1>4, <4>1, <5>1, <5>2
      <4> QED
        BY <2>0, <4>1, <4>2, <4>3, <4>4
    <3>2. CASE i > L
      <4>1. i \in L + 1 .. N
        <5>1. SUFFICES ASSUME i > N PROVE FALSE
          BY <1>2, <1>4, <2>1, <3>2
        <5>2. i \in N + 1 .. M
          BY <1>2, <1>4, <2>1, <5>1
        <5> QED
          BY <1>6, <2>2, <5>2
      <4>2. final /\ i = N /\ log'[i].slot = s
        BY <1>6, <2>2, <4>1
      <4>3. \A j \in i + 1 .. M : ~IsPush(log'[j])
        BY <1>6, <4>2
      <4> QED
        BY <1>5, <2>0, <4>2, <4>3
    <3> QED
      BY <1>2, <1>4, <2>1, <3>1, <3>2
  <2> QED
    BY <2>2 DEF FinalLast, M
<1> QED
  BY <1>11, <1>12, <1>13, <1>14 DEF SentOK, f

-----------------------------------------------------------------------------
(* The commits *)

\* The row of slot s after the commit of chunk x, by the records of the chunk.
RowWritten(x, u, s, r) ==
    LET old == meta.slots[s]
    IN  IF \E j \in durable + 1 .. u : log[j].init /\ log[j].slot = s
        THEN /\ r.open /\ r.finalized \in BOOLEAN /\ (r.finalized <=> s \in x.finalized)
             /\ \E j \in durable + 1 .. u :
                   /\ log[j].init /\ log[j].slot = s /\ r.head = log[j].index
                   /\ \A i \in durable + 1 .. u :
                         log[i].init /\ log[i].slot = s => log[i].index <= r.head
        ELSE IF s \in x.finalized /\ old.open
        THEN r.open /\ r.head = old.head /\ r.finalized = TRUE
        ELSE r = old

\* The commit of a chunk writes that.
LEMMA ChunkWritesRow ==
    ASSUME CatalogOK(meta, log, durable), JournalOK(log, index), durable \in Nat, NEW x, NEW u,
           ChunkUpTo(x, u), NEW s \in Slot
    PROVE  RowWritten(x, u, s, RowsAfter(x)[s])
<1> DEFINE r == RowsAfter(x)[s]
           H == {p.head : p \in {q \in x.pending_slots : q.slot = s}}
<1>1. meta.slots[s] \in SlotRow /\ meta.active \in Nat
  BY CatalogFields DEF CatalogOK
<1>2. x.pending_slots = {[slot |-> log[i].slot, head |-> log[i].index] :
                            i \in {j \in durable + 1 .. u : log[j].init}}
  BY DEF ChunkUpTo
<1>3. ASSUME NEW i \in durable + 1 .. u, log[i].init, log[i].slot = s
      PROVE  log[i].index \in H
  <2> DEFINE p == [slot |-> log[i].slot, head |-> log[i].index]
  <2>1. p \in x.pending_slots
    BY <1>2, <1>3
  <2>2. p.slot = s /\ p.head = log[i].index
    BY <1>3
  <2> QED
    BY <2>1, <2>2
<1>4. ASSUME NEW y \in H
      PROVE  \E i \in durable + 1 .. u : log[i].init /\ log[i].slot = s /\ y = log[i].index
  <2>1. PICK p \in x.pending_slots : p.slot = s /\ y = p.head
    OBVIOUS
  <2>2. PICK i \in durable + 1 .. u : log[i].init /\ p = [slot |-> log[i].slot, head |-> log[i].index]
    BY <1>2, <2>1
  <2>3. p.slot = log[i].slot /\ p.head = log[i].index
    BY <2>2
  <2> QED
    BY <2>1, <2>2, <2>3
<1>5. (\E p \in x.pending_slots : p.slot = s) <=> H # {}
  OBVIOUS
<1>6. CASE \E j \in durable + 1 .. u : log[j].init /\ log[j].slot = s
  <2>1. H # {}
    BY <1>3, <1>6
  <2>2. H \in SUBSET Nat
    <3>1. x.pending_slots \in SUBSET [slot : Slot, head : Nat]
      BY DEF ChunkUpTo, ChunkItem
    <3> QED
      BY <3>1
  <2>3. x.last \in Nat /\ \A y \in H : y <= x.last
    <3>1. \A j \in durable + 1 .. u : log[j].index <= log[u].index
      BY RunAscends DEF ChunkUpTo
    <3> QED
      BY <1>4, <3>1 DEF ChunkUpTo
  <2> HIDE DEF H
  <2>4. Max(H) \in H /\ \A y \in H : y <= Max(H)
    BY <2>1, <2>2, <2>3, MaxOfBounded
  <2> DEFINE z == Max(H)
             b == s \in x.finalized
  <2>5. r = [open |-> TRUE, segment |-> meta.active, finalized |-> b, head |-> z]
    BY <1>5, <2>1 DEF RowsAfter, H
  <2>6. PICK j \in durable + 1 .. u : log[j].init /\ log[j].slot = s /\ z = log[j].index
    BY <1>4, <2>4
  <2>7. \A i \in durable + 1 .. u : log[i].init /\ log[i].slot = s => log[i].index <= z
    BY <1>3, <2>4
  <2> HIDE DEF r, z, b
  <2>a. r.open = TRUE /\ r.finalized = b /\ r.head = z
    BY <2>5
  <2>8. r.open /\ r.head = z /\ r.finalized \in BOOLEAN /\ (r.finalized <=> s \in x.finalized)
    <3>1. b \in BOOLEAN /\ (b <=> s \in x.finalized)
      BY DEF b
    <3> QED
      BY <2>a, <3>1
  <2>9. RowWritten(x, u, s, r)
    BY <1>6, <2>6, <2>7, <2>8 DEF RowWritten
  <2> QED
    BY <2>9 DEF r
<1>7. CASE ~\E j \in durable + 1 .. u : log[j].init /\ log[j].slot = s
  <2>1. H = {}
    BY <1>4, <1>7
  <2>2. ~\E p \in x.pending_slots : p.slot = s
    BY <1>5, <2>1
  <2>3. CASE s \in x.finalized /\ meta.slots[s].open
    <3>1. r = [meta.slots[s] EXCEPT !.finalized = TRUE]
      BY <2>2, <2>3 DEF RowsAfter
    <3>2. meta.slots[s] \in [open : {TRUE}, segment : Nat, finalized : BOOLEAN, head : Nat]
      <4>1. meta.slots[s] # NoRow
        BY <2>3 DEF NoRow
      <4> QED
        BY <1>1, <4>1 DEF SlotRow
    <3> HIDE DEF r
    <3>3. r.open /\ r.head = meta.slots[s].head /\ r.finalized = TRUE
      BY <3>1, <3>2
    <3>4. RowWritten(x, u, s, r)
      BY <1>7, <2>3, <3>3 DEF RowWritten
    <3> QED
      BY <3>4 DEF r
  <2>4. CASE ~(s \in x.finalized /\ meta.slots[s].open)
    <3>1. r = meta.slots[s]
      BY <2>2, <2>4 DEF RowsAfter
    <3> QED
      BY <1>7, <2>4, <3>1 DEF RowWritten
  <2> QED
    BY <2>3, <2>4
<1> QED
  BY <1>6, <1>7

\* The commit of a chunk keeps the rows those of the durable commands.
LEMMA ChunkKeepsRows ==
    ASSUME StorageInv, EntryInv, NEW x, NEW u, ChunkUpTo(x, u), NEW m,
           m.floor = meta.floor, m.slots = RowsAfter(x)
    PROVE  RowsOf(m, log, u)
<1> DEFINE d == durable
           f == meta.floor
<1>1. /\ CatalogOK(meta, log, d) /\ JournalOK(log, index) /\ d \in Nat /\ Len(log) \in Nat
      /\ Separated(log, f) /\ FinalLast(log, d, slot_finalized) /\ RowsOf(meta, log, d)
  BY DEF StorageInv, Journaled, CollectorOK, EntryInv, SentOK, JournalOK
<1>2. u \in Nat /\ d < u /\ u <= Len(log) /\ \A i \in d + 1 .. u : IsPush(log[i])
  BY DEF ChunkUpTo
<1>3. /\ \A j \in 1 .. Len(log) : IsPush(log[j]) => log[j].index \in Nat
      /\ \A j \in 1 .. d : IsPush(log[j]) => log[j].index < log[d + 1].index
      /\ \A j \in d + 1 .. u : log[d + 1].index <= log[j].index
      /\ \A i, j \in 1 .. u : IsPush(log[i]) /\ IsPush(log[j]) /\ log[i].index >= log[j].index => i >= j
  BY <1>1, <1>2, RunAscends
<1>4. f \in Nat
  BY <1>1, CatalogFields DEF CatalogOK
<1>5. \A s : s \in x.finalized <=> \E j \in d + 1 .. u : log[j].final /\ log[j].slot = s
  BY DEF ChunkUpTo
<1> SUFFICES ASSUME NEW s \in Slot
             PROVE  LET r == m.slots[s]
                    IN  /\ \A i \in 1 .. u : Stands(log, u, f, s, i) =>
                              /\ r.open /\ r.head = log[i].index
                              /\ r.finalized = \E j \in i .. u : Finalizes(log, s, j)
                        /\ r.open /\ r.head >= f => \E i \in 1 .. u : Stands(log, u, f, s, i)
  BY DEF RowsOf
<1> DEFINE r == m.slots[s]
           old == meta.slots[s]
<1>6. RowWritten(x, u, s, r)
  BY <1>1, ChunkWritesRow
<1>7. /\ \A i \in 1 .. d : Stands(log, d, f, s, i) =>
            /\ old.open /\ old.head = log[i].index
            /\ old.finalized = \E j \in i .. d : Finalizes(log, s, j)
      /\ old.open /\ old.head >= f => \E i \in 1 .. d : Stands(log, d, f, s, i)
  BY <1>1 DEF RowsOf
<1>8. \A j \in d + 1 .. u : j \in 1 .. u /\ j \in 1 .. Len(log)
  BY <1>1, <1>2
<1> HIDE DEF r, old, d, f
<1>9. CASE \E j \in d + 1 .. u : log[j].init /\ log[j].slot = s
  <2>1. PICK k \in d + 1 .. u :
           /\ log[k].init /\ log[k].slot = s /\ r.head = log[k].index
           /\ \A i \in d + 1 .. u : log[i].init /\ log[i].slot = s => log[i].index <= r.head
    BY <1>6, <1>9 DEF RowWritten, d
  <2>2. r.open /\ r.finalized \in BOOLEAN /\ (r.finalized <=> s \in x.finalized)
    BY <1>6, <1>9 DEF RowWritten, d
  <2>3. IsPush(log[k]) /\ log[k].index \in Nat /\ k \in 1 .. u /\ k \in Nat
    BY <1>1, <1>2, <1>3, <1>8
  <2>4. ASSUME log[k].index >= f PROVE Stands(log, u, f, s, k)
    <3>1. \A j \in k + 1 .. u : j \in d + 1 .. u
      BY <1>1, <1>2
    <3>2. Enters(log, f, s, k)
      BY <2>1, <2>3, <2>4 DEF Enters
    <3> QED
      BY <1>2, <2>3, <3>1, <3>2 DEF Stands
  <2>5. ASSUME NEW i \in 1 .. u, Stands(log, u, f, s, i) PROVE i = k
    <3>1. IsPush(log[i]) /\ log[i].init /\ log[i].slot = s /\ log[i].index >= f
      BY <2>5 DEF Stands, Enters
    <3>2. log[i].index \in Nat
      BY <1>1, <1>2, <1>3, <3>1
    <3>3. log[k].index >= log[i].index
      <4>1. CASE i <= d
        <5>1. i \in 1 .. d
          BY <1>1, <1>2, <4>1
        <5>2. log[i].index < log[d + 1].index /\ log[d + 1].index <= log[k].index
          BY <1>3, <3>1, <5>1
        <5>3. d + 1 \in d + 1 .. u
          BY <1>1, <1>2
        <5>4. log[d + 1].index \in Nat
          BY <1>2, <1>3, <1>8, <5>3
        <5> QED
          BY <2>3, <3>2, <5>2, <5>4
      <4>2. CASE i > d
        <5>1. i \in d + 1 .. u
          BY <1>1, <1>2, <4>2
        <5> QED
          BY <2>1, <2>3, <3>1, <3>2, <5>1
      <4> QED
        BY <1>1, <1>2, <4>1, <4>2
    <3>4. log[k].index >= f
      BY <1>4, <2>3, <3>1, <3>2, <3>3
    <3> QED
      BY <1>1, <1>2, <2>4, <2>5, <3>4, StandsOnce
  <2>6. ASSUME NEW i \in 1 .. u, Stands(log, u, f, s, i)
        PROVE  /\ r.open /\ r.head = log[i].index
               /\ r.finalized = \E j \in i .. u : Finalizes(log, s, j)
    <3>1. i = k
      BY <2>5, <2>6
    <3>2. ASSUME NEW j \in i .. u, Finalizes(log, s, j) PROVE s \in x.finalized
      <4>1. j \in d + 1 .. u
        BY <1>1, <1>2, <2>3, <3>1
      <4> QED
        BY <1>5, <3>2, <4>1 DEF Finalizes
    <3>3. ASSUME s \in x.finalized PROVE \E j \in i .. u : Finalizes(log, s, j)
      <4>1. PICK j \in d + 1 .. u : log[j].final /\ log[j].slot = s
        BY <1>5, <3>3
      <4>2. CASE j >= i
        <5>1. j \in i .. u
          BY <1>1, <1>2, <4>2
        <5> QED
          BY <1>2, <4>1, <5>1 DEF Finalizes
      <4>3. CASE j < i
        <5>1. j \in d + 1 .. Len(log) /\ i \in j + 1 .. Len(log)
          BY <1>1, <1>2, <2>3, <3>1, <4>3
        <5>2. log[i].slot > log[j].slot
          BY <1>1, <1>2, <2>3, <3>1, <4>1, <5>1 DEF FinalLast
        <5>3. s \in Nat
          BY StorageAssumption
        <5> QED
          BY <2>1, <3>1, <4>1, <5>2, <5>3
      <4> QED
        BY <1>1, <1>2, <4>2, <4>3
    <3>4. CASE s \in x.finalized
      <4>1. \E j \in i .. u : Finalizes(log, s, j)
        BY <3>3, <3>4
      <4> QED
        BY <2>1, <2>2, <3>1, <3>4, <4>1
    <3>5. CASE s \notin x.finalized
      <4>1. ~\E j \in i .. u : Finalizes(log, s, j)
        BY <3>2, <3>5
      <4>2. r.finalized = FALSE
        BY <2>2, <3>5
      <4>3. r.finalized = \E j \in i .. u : Finalizes(log, s, j)
        BY <4>1, <4>2, Zenon
      <4> QED
        BY <2>1, <2>2, <3>1, <4>3
    <3> QED
      BY <3>4, <3>5
  <2> QED
    BY <2>1, <2>3, <2>4, <2>6 DEF r, f
<1>10. CASE ~\E j \in d + 1 .. u : log[j].init /\ log[j].slot = s
  <2>1. ASSUME NEW i \in 1 .. u, Stands(log, u, f, s, i)
        PROVE  i \in 1 .. d /\ Stands(log, d, f, s, i)
    <3>1. i <= d
      <4>1. SUFFICES ASSUME i > d PROVE FALSE
        BY <1>1, <1>2
      <4>2. i \in d + 1 .. u
        BY <1>1, <1>2, <4>1
      <4> QED
        BY <1>10, <2>1, <4>2 DEF Stands, Enters
    <3>2. i \in 1 .. d /\ d <= u
      BY <1>1, <1>2, <3>1
    <3> QED
      BY <1>1, <1>2, <2>1, <3>1, <3>2, StoodBefore
  <2>2. ASSUME NEW i \in 1 .. d, Stands(log, d, f, s, i)
        PROVE  i \in 1 .. u /\ Stands(log, u, f, s, i)
    <3>1. i \in 1 .. u
      BY <1>1, <1>2
    <3>2. \A j \in i + 1 .. u : j \in i + 1 .. d \/ j \in d + 1 .. u
      BY <1>1, <1>2
    <3> QED
      BY <1>2, <2>2, <3>1, <3>2 DEF Stands
  <2>3. \/ s \in x.finalized /\ old.open /\ r.open /\ r.head = old.head /\ r.finalized = TRUE
        \/ ~(s \in x.finalized /\ old.open) /\ r = old
    BY <1>6, <1>10 DEF RowWritten, d, old
  <2>4. ASSUME NEW i \in 1 .. u, Stands(log, u, f, s, i)
        PROVE  /\ r.open /\ r.head = log[i].index
               /\ r.finalized = \E j \in i .. u : Finalizes(log, s, j)
    <3>1. i \in 1 .. d /\ Stands(log, d, f, s, i)
      BY <2>1, <2>4
    <3>2. /\ old.open /\ old.head = log[i].index
          /\ old.finalized = \E j \in i .. d : Finalizes(log, s, j)
      BY <1>7, <3>1
    <3>3. \A j \in d + 1 .. u : j \in i .. u
      BY <1>1, <1>2, <3>1
    <3>4. CASE s \in x.finalized
      <4>1. \E j \in i .. u : Finalizes(log, s, j)
        BY <1>2, <1>5, <3>3, <3>4 DEF Finalizes
      <4> QED
        BY <2>3, <3>2, <3>4, <4>1
    <3>5. CASE s \notin x.finalized
      <4>1. \A j \in i .. u : j \in i .. d \/ j \in d + 1 .. u
        BY <1>1, <1>2, <3>1
      <4>2. \A j \in i .. d : j \in i .. u
        BY <1>1, <1>2
      <4>3. \A j \in d + 1 .. u : ~Finalizes(log, s, j)
        BY <1>5, <3>5 DEF Finalizes
      <4>4. (\E j \in i .. u : Finalizes(log, s, j)) = (\E j \in i .. d : Finalizes(log, s, j))
        BY <4>1, <4>2, <4>3, Zenon
      <4> QED
        BY <2>3, <3>2, <3>5, <4>4
    <3> QED
      BY <3>4, <3>5
  <2>5. ASSUME r.open, r.head >= f PROVE \E i \in 1 .. u : Stands(log, u, f, s, i)
    <3>1. old.open /\ old.head >= f
      BY <2>3, <2>5
    <3> QED
      BY <1>7, <2>2, <3>1
  <2> QED
    BY <2>4, <2>5 DEF r, f
<1> QED
  BY <1>9, <1>10

\* The commit of a trim keeps the rows those of the durable commands: the rows that go
\* with a segment are not of this epoch, or their slot is the one removed.
LEMMA TrimKeepsRows ==
    ASSUME StorageInv, EntryInv, durable + 1 <= Len(log), ~IsPush(log[durable + 1]), NEW m,
           Trimmed(meta, m, log[durable + 1].until), m.floor = meta.floor,
           \A s \in Slot : IF s = log[durable + 1].slot
                           THEN ~m.slots[s].open
                           ELSE \/ m.slots[s] = meta.slots[s]
                                \/ meta.slots[s].open /\ meta.slots[s].segment \in
                                      DeletedSegments(log[durable + 1].until)
    PROVE  RowsOf(m, log, durable + 1)
<1> DEFINE d == durable
           u == durable + 1
           f == meta.floor
           gone == DeletedSegments(log[u].until)
<1>1. /\ CatalogOK(meta, log, d) /\ log \in Seq(Command) /\ d \in Nat /\ Len(log) \in Nat
      /\ TrimsSpare(log, f) /\ RowsOf(meta, log, d)
  BY DEF StorageInv, Journaled, CollectorOK, EntryInv, SentOK, JournalOK
<1> SUFFICES ASSUME NEW s \in Slot
             PROVE  LET r == m.slots[s]
                    IN  /\ \A i \in 1 .. u : Stands(log, u, f, s, i) =>
                              /\ r.open /\ r.head = log[i].index
                              /\ r.finalized = \E j \in i .. u : Finalizes(log, s, j)
                        /\ r.open /\ r.head >= f => \E i \in 1 .. u : Stands(log, u, f, s, i)
  BY DEF RowsOf
<1> DEFINE r == m.slots[s]
           old == meta.slots[s]
<1>2. /\ \A i \in 1 .. d : Stands(log, d, f, s, i) =>
            /\ old.open /\ old.head = log[i].index
            /\ old.finalized = \E j \in i .. d : Finalizes(log, s, j)
      /\ old.open /\ old.head >= f => \E i \in 1 .. d : Stands(log, d, f, s, i)
  BY <1>1 DEF RowsOf
<1>3. IF s = log[u].slot THEN ~r.open ELSE r = old \/ (old.open /\ old.segment \in gone)
  OBVIOUS
<1>4. r.open => r = old
  BY DEF Trimmed
<1>5. u \in Nat /\ d < u /\ u <= Len(log) /\ u \in 1 .. Len(log) /\ u \in 1 .. u
      /\ \A i \in 1 .. u : i \in 1 .. d \/ i = u
  BY <1>1
<1>6. ~IsPush(log[u]) /\ ~Enters(log, f, s, u) /\ ~Finalizes(log, s, u)
  BY DEF Enters, Finalizes
<1>7. ASSUME NEW i \in 1 .. u, Stands(log, u, f, s, i)
      PROVE  i \in 1 .. d /\ Stands(log, d, f, s, i) /\ s # log[u].slot
  <2>1. i \in 1 .. d
    BY <1>5, <1>6, <1>7 DEF Stands
  <2>2. i <= d /\ d <= u
    BY <1>1, <1>5, <2>1
  <2>3. Stands(log, d, f, s, i)
    BY <1>1, <1>5, <1>7, <2>2, StoodBefore
  <2>4. u \in i + 1 .. u
    BY <1>1, <1>5, <2>1
  <2> QED
    BY <1>6, <1>7, <2>1, <2>3, <2>4 DEF Stands
<1>8. ASSUME NEW i \in 1 .. d, Stands(log, d, f, s, i), s # log[u].slot
      PROVE  i \in 1 .. u /\ Stands(log, u, f, s, i)
  <2>1. i \in 1 .. u /\ \A j \in i + 1 .. u : j \in i + 1 .. d \/ j = u
    BY <1>1, <1>5
  <2> QED
    BY <1>8, <2>1 DEF Stands
<1>9. ASSUME NEW i \in 1 .. u, Stands(log, u, f, s, i) PROVE old.segment \notin gone
  <2>1. SUFFICES ASSUME old.segment \in gone PROVE FALSE
    OBVIOUS
  <2>2. i \in 1 .. d /\ old.open /\ old.head = log[i].index
    BY <1>2, <1>7, <1>9
  <2>3. log[i].index >= log[u].until
    BY <1>1, <1>5, <1>6, <1>9 DEF TrimsSpare
  <2>4. /\ old.segment \in DOMAIN meta.segments
        /\ meta.segments[old.segment].last < log[u].until
    BY <2>1 DEF DeletedSegments
  <2>5. old.head <= meta.segments[old.segment].last
    BY <1>1, <2>2 DEF CatalogOK, RowOK
  <2>6. old.head \in Nat /\ meta.segments[old.segment].last \in Nat
    BY <1>1, <2>2, <2>4, CatalogFields DEF CatalogOK
  <2>7. log[u].until \in Nat
    <3>1. log[u] \in Command
      BY <1>1, <1>5
    <3> QED
      BY <1>6, <3>1 DEF Command, PushCommand, TrimCommand, IsPush
  <2> QED
    BY <2>2, <2>3, <2>4, <2>5, <2>6, <2>7
<1> HIDE DEF r, old, d, u, f, gone
<1>10. ASSUME NEW i \in 1 .. u, Stands(log, u, f, s, i)
       PROVE  /\ r.open /\ r.head = log[i].index
              /\ r.finalized = \E j \in i .. u : Finalizes(log, s, j)
  <2>1. i \in 1 .. d /\ Stands(log, d, f, s, i) /\ s # log[u].slot /\ old.segment \notin gone
    BY <1>7, <1>9, <1>10
  <2>2. r = old
    BY <1>3, <2>1
  <2>3. /\ old.open /\ old.head = log[i].index
        /\ old.finalized = \E j \in i .. d : Finalizes(log, s, j)
    BY <1>2, <2>1
  <2>4. (\A j \in i .. u : j \in i .. d \/ j = u) /\ \A j \in i .. d : j \in i .. u
    BY <1>1, <1>5 DEF u, d
  <2>5. (\E j \in i .. u : Finalizes(log, s, j)) = (\E j \in i .. d : Finalizes(log, s, j))
    BY <1>6, <2>4, Zenon
  <2> QED
    BY <2>2, <2>3, <2>5
<1>11. ASSUME r.open, r.head >= f PROVE \E i \in 1 .. u : Stands(log, u, f, s, i)
  <2>1. r = old /\ s # log[u].slot
    BY <1>3, <1>4, <1>11
  <2> QED
    BY <1>2, <1>8, <1>11, <2>1
<1> QED
  BY <1>10, <1>11 DEF r, f, u

\* A commit leaves the sent part of the journal as it is.
LEMMA SentMoves ==
    ASSUME NEW l, NEW f, NEW d \in Nat, NEW rep, NEW z, SentOK(l, f, d, rep, z), NEW u \in Nat, d <= u
    PROVE  SentOK(l, f, u, rep, z)
<1>1. \A i \in u + 1 .. Len(l) : i \in d + 1 .. Len(l)
  OBVIOUS
<1> QED
  BY <1>1 DEF SentOK, FinalLast

\* The first d commands keep what is known of the journal, when the sender knows the rows.
LEMMA SentPrefix ==
    ASSUME NEW l, NEW f, NEW d \in Nat, NEW rep, NEW z, SentOK(l, f, d, rep, z), Len(l) \in Nat,
           d <= Len(l), NEW p, Len(p) = d, \A i \in 1 .. d : p[i] = l[i], NEW rep2, NEW z2,
           \A s \in Slot : \A i \in 1 .. d : Stands(l, d, f, s, i) => rep2[s] = l[i].index
    PROVE  SentOK(p, f, d, rep2, z2)
<1>1. Separated(l, f) /\ TrimsSpare(l, f)
  BY DEF SentOK
<1>2. ASSUME NEW e \in Nat, e <= d, NEW s, NEW i
      PROVE  Stands(p, e, f, s, i) <=> Stands(l, e, f, s, i)
  <2>1. \A k \in 1 .. e : p[k] = l[k]
    BY <1>2
  <2> QED
    BY <1>2, <2>1, StandsSame
<1>3. Separated(p, f)
  <2>1. ASSUME NEW s \in Slot, NEW j \in 1 .. d, NEW i \in 1 .. j - 1,
               Enters(p, f, s, i), Enters(p, f, s, j), Stands(p, j - 1, f, s, i)
        PROVE  FALSE
    <3>1. j - 1 \in Nat /\ j - 1 <= d /\ j \in 1 .. Len(l) /\ i \in 1 .. d
      OBVIOUS
    <3>2. Stands(l, j - 1, f, s, i)
      BY <1>2, <2>1, <3>1
    <3>3. Enters(l, f, s, i) /\ Enters(l, f, s, j)
      BY <2>1, <3>1 DEF Enters
    <3> QED
      BY <1>1, <3>1, <3>2, <3>3 DEF Separated
  <2> QED
    BY <2>1 DEF Separated
<1>4. TrimsSpare(p, f)
  <2>1. ASSUME NEW k \in 1 .. d, ~IsPush(p[k]), NEW s \in Slot, NEW i \in 1 .. k,
               Stands(p, k, f, s, i)
        PROVE  p[i].index >= p[k].until
    <3>1. k \in Nat /\ k <= d /\ k \in 1 .. Len(l) /\ i \in 1 .. d
      OBVIOUS
    <3>2. Stands(l, k, f, s, i)
      BY <1>2, <2>1, <3>1
    <3>3. p[k] = l[k] /\ p[i] = l[i]
      BY <3>1
    <3> QED
      BY <1>1, <2>1, <3>1, <3>2, <3>3 DEF TrimsSpare
  <2> QED
    BY <2>1 DEF TrimsSpare
<1>5. Known(p, f, rep2)
  <2>1. ASSUME NEW s \in Slot, NEW i \in 1 .. d, Stands(p, d, f, s, i) PROVE rep2[s] = p[i].index
    BY <1>2, <2>1
  <2> QED
    BY <2>1 DEF Known
<1>6. FinalLast(p, d, z2)
  <2>1. ~\E i : i \in d + 1 .. d
    OBVIOUS
  <2> QED
    BY <2>1 DEF FinalLast
<1> QED
  BY <1>3, <1>4, <1>5, <1>6 DEF SentOK

\* Above the last record nothing stands.
LEMMA NothingStands ==
    ASSUME NEW l, NEW n, JournalOK(l, n), n \in Nat, NEW d \in Nat, d <= Len(l), NEW s, NEW i,
           Stands(l, d, n, s, i)
    PROVE  FALSE
<1>1. i \in 1 .. Len(l) /\ IsPush(l[i]) /\ l[i].index >= n /\ l \in Seq(Command)
  BY DEF Stands, Enters, JournalOK
<1>2. l[i].index < n
  BY <1>1 DEF JournalOK
<1>3. l[i] \in PushCommand
  <2>1. l[i] \in Command
    BY <1>1
  <2> QED
    BY <1>1, <2>1 DEF Command, TrimCommand, IsPush
<1> QED
  BY <1>1, <1>2, <1>3 DEF PushCommand

-----------------------------------------------------------------------------
(* The invariant of the rows is inductive *)

\* Steps of collector, compressors and files do not touch it.
LEMMA EntryStays ==
    ASSUME EntryInv, log' = log, durable' = durable, replay' = replay,
           slot_finalized' = slot_finalized, meta'.slots = meta.slots, meta'.floor = meta.floor
    PROVE  EntryInv'
  BY DEF EntryInv, RowsOf

\* The rows are about the first d commands only.
LEMMA RowsOfPrefix ==
    ASSUME NEW m, NEW l, NEW l2, NEW d \in Nat, RowsOf(m, l, d), \A i \in 1 .. d : l2[i] = l[i]
    PROVE  RowsOf(m, l2, d)
<1>1. \A s, i : Stands(l2, d, m.floor, s, i) <=> Stands(l, d, m.floor, s, i)
  BY StandsSame
<1>2. \A s, i : Stands(l, d, m.floor, s, i) =>
         (\E j \in i .. d : Finalizes(l2, s, j)) = (\E j \in i .. d : Finalizes(l, s, j))
  <2>1. ASSUME NEW s, NEW i, Stands(l, d, m.floor, s, i)
        PROVE  (\E j \in i .. d : Finalizes(l2, s, j)) = (\E j \in i .. d : Finalizes(l, s, j))
    <3>1. i \in 1 .. d
      BY <2>1 DEF Stands
    <3>2. \A j \in i .. d : l2[j] = l[j]
      BY <3>1
    <3>3. \A j \in i .. d : Finalizes(l2, s, j) <=> Finalizes(l, s, j)
      BY <3>2 DEF Finalizes
    <3> QED
      BY <3>3, Zenon
  <2> QED
    BY <2>1
<1>3. ASSUME NEW s \in Slot
      PROVE  LET r == m.slots[s]
             IN  /\ \A i \in 1 .. d : Stands(l2, d, m.floor, s, i) =>
                       /\ r.open /\ r.head = l2[i].index
                       /\ r.finalized = \E j \in i .. d : Finalizes(l2, s, j)
                 /\ r.open /\ r.head >= m.floor => \E i \in 1 .. d : Stands(l2, d, m.floor, s, i)
  <2> DEFINE r == m.slots[s]
  <2>1. /\ \A i \in 1 .. d : Stands(l, d, m.floor, s, i) =>
              /\ r.open /\ r.head = l[i].index
              /\ r.finalized = \E j \in i .. d : Finalizes(l, s, j)
        /\ r.open /\ r.head >= m.floor => \E i \in 1 .. d : Stands(l, d, m.floor, s, i)
    BY DEF RowsOf
  <2> HIDE DEF r
  <2>2. ASSUME NEW i \in 1 .. d, Stands(l2, d, m.floor, s, i)
        PROVE  /\ r.open /\ r.head = l2[i].index
               /\ r.finalized = \E j \in i .. d : Finalizes(l2, s, j)
    <3>1. Stands(l, d, m.floor, s, i) /\ l2[i] = l[i]
      BY <1>1, <2>2
    <3>2. (\E j \in i .. d : Finalizes(l2, s, j)) = (\E j \in i .. d : Finalizes(l, s, j))
      BY <1>2, <3>1, Zenon
    <3>3. r.finalized = \E j \in i .. d : Finalizes(l2, s, j)
      BY <2>1, <3>1, <3>2, Zenon
    <3> QED
      BY <2>1, <3>1, <3>3
  <2>3. ASSUME r.open, r.head >= m.floor PROVE \E i \in 1 .. d : Stands(l2, d, m.floor, s, i)
    BY <1>1, <2>1, <2>3
  <2> QED
    BY <2>2, <2>3 DEF r
<1> QED
  BY <1>3 DEF RowsOf

\* BeginLiveEpoch: nothing stands above the new floor.
LEMMA EntryEpoch ==
    ASSUME StorageInv, EntryInv, BeginLiveEpoch
    PROVE  EntryInv'
<1>1. /\ log' = log /\ durable' = durable /\ slot_finalized' = slot_finalized
      /\ meta' = [meta EXCEPT !.floor = index]
  BY DEF BeginLiveEpoch
<1>2. /\ JournalOK(log, index) /\ index \in Nat /\ durable \in Nat /\ durable <= Len(log)
      /\ CatalogOK(meta, log, durable) /\ Len(log) \in Nat
      /\ FinalLast(log, durable, slot_finalized)
  BY DEF StorageInv, Journaled, SenderOK, CollectorOK, JournalOK, EntryInv, SentOK
<1>3. meta'.floor = index /\ meta'.slots = meta.slots
  BY <1>1, <1>2 DEF CatalogOK, CatalogType
<1>4. \A d \in Nat : \A s, i : d <= Len(log) => ~Stands(log, d, index, s, i)
  BY <1>2, NothingStands
<1>5. Separated(log, index)
  <2>1. \A j \in 1 .. Len(log) : j - 1 \in Nat /\ j - 1 <= Len(log)
    BY <1>2
  <2> QED
    BY <1>4, <2>1 DEF Separated
<1>6. TrimsSpare(log, index)
  <2>1. \A k \in 1 .. Len(log) : k \in Nat /\ k <= Len(log)
    BY <1>2
  <2> QED
    BY <1>4, <2>1 DEF TrimsSpare
<1>7. Known(log, index, replay')
  <2>1. Len(log) <= Len(log)
    BY <1>2
  <2> QED
    BY <1>2, <1>4, <2>1 DEF Known
<1>8. RowsOf(meta', log, durable)
  <2>1. ASSUME NEW s \in Slot, meta.slots[s].open PROVE ~(meta.slots[s].head >= index)
    <3>1. PICK j \in 1 .. durable : IsPush(log[j]) /\ log[j].index = meta.slots[s].head
      BY <1>2, <2>1 DEF CatalogOK, RowOK
    <3>2. j \in 1 .. Len(log)
      BY <1>2
    <3>3. meta.slots[s].head < index
      BY <1>2, <3>1, <3>2 DEF JournalOK
    <3>4. meta.slots[s].head \in Nat
      BY <1>2, <2>1, CatalogFields DEF CatalogOK
    <3> QED
      BY <1>2, <3>3, <3>4
  <2> QED
    BY <1>2, <1>3, <1>4, <2>1 DEF RowsOf
<1> QED
  BY <1>1, <1>2, <1>3, <1>5, <1>6, <1>7, <1>8 DEF EntryInv, SentOK

\* Publish does not touch the durable commands.
LEMMA EntryPublish ==
    ASSUME StorageInv, EntryInv, NEW s \in Slot, NEW h \in Higher, NEW final \in BOOLEAN,
           Publish(s, h, final)
    PROVE  EntryInv'
<1>1. SentOK(log', meta.floor, durable, replay', slot_finalized')
  BY PublishSentOK
<1>2. meta' = meta /\ durable' = durable
  BY DEF Publish, diskVars
<1>3. durable \in Nat /\ durable <= Len(log) /\ Len(log) \in Nat /\ Journaled /\ RowsOf(meta, log, durable)
  BY DEF StorageInv, CollectorOK, Journaled, JournalOK, EntryInv
<1>4. \A i \in 1 .. durable : log'[i] = log[i]
  <2>1. \A i \in 1 .. Len(log) : log'[i] = log[i]
    BY <1>3, PublishJournaled
  <2>2. \A i \in 1 .. durable : i \in 1 .. Len(log)
    BY <1>3
  <2> QED
    BY <2>1, <2>2
<1>5. RowsOf(meta, log', durable)
  BY <1>3, <1>4, RowsOfPrefix
<1> QED
  BY <1>1, <1>2, <1>5 DEF EntryInv

\* Crash: the sender comes back with the rows of the durable commands.
LEMMA EntryCrash ==
    ASSUME StorageInv, EntryInv, Crash
    PROVE  EntryInv'
<1> DEFINE p == SubSeq(log, 1, durable)
           f == meta.floor
<1>1. /\ log' = p /\ durable' = durable /\ meta' = meta
      /\ replay' = [s \in Slot |-> IF SlotOnDisk(s).open THEN SlotOnDisk(s).head ELSE None]
  BY DEF Crash
<1>2. /\ durable \in Nat /\ durable <= Len(log) /\ Len(log) \in Nat /\ log \in Seq(Command)
      /\ RowsOf(meta, log, durable) /\ SentOK(log, f, durable, replay, slot_finalized)
      /\ CatalogOK(meta, log, durable)
  BY DEF StorageInv, CollectorOK, Journaled, JournalOK, EntryInv
<1>3. Len(p) = durable /\ \A i \in 1 .. durable : p[i] = log[i]
  BY <1>2
<1> HIDE DEF p
<1>4. ASSUME NEW s \in Slot, NEW i \in 1 .. durable, Stands(log, durable, f, s, i)
      PROVE  replay'[s] = log[i].index
  <2>1. meta.slots[s].open /\ meta.slots[s].head = log[i].index
    BY <1>2, <1>4 DEF RowsOf
  <2>2. log[i].index >= f
    BY <1>4 DEF Stands, Enters
  <2>3. SlotOnDisk(s) = [open |-> TRUE, head |-> meta.slots[s].head,
                         finalized |-> meta.slots[s].finalized]
    BY <2>1, <2>2 DEF SlotOnDisk
  <2>4. SlotOnDisk(s).open = TRUE /\ SlotOnDisk(s).head = meta.slots[s].head
    BY <2>3
  <2> QED
    BY <1>1, <2>1, <2>4
<1>5. SentOK(p, f, durable, replay', slot_finalized')
  BY <1>2, <1>3, <1>4, SentPrefix
<1>6. RowsOf(meta, p, durable)
  BY <1>2, <1>3, RowsOfPrefix
<1> QED
  BY <1>1, <1>5, <1>6 DEF EntryInv

\* CommitChunk.
LEMMA EntryChunk ==
    ASSUME StorageInv, EntryInv, CommitChunk
    PROVE  EntryInv'
<1>1. item \in Done /\ item.seq = writer_seq /\ item.kind = "chunk"
  BY DEF StorageInv, Written, CommitChunk, Done
<1>2. PICK u \in Nat :
              /\ durable < u /\ u <= flushed /\ u <= Len(log) /\ Fits(log, durable, u)
              /\ item = ItemOf(log, writer_seq, durable, u) /\ writer_seq \in Nat
  BY <1>1, NextOfPipe
<1>3. ChunkUpTo(item, u)
  BY <1>1, <1>2, ChunkOfItem
<1>4. item.upto = u
  BY <1>3 DEF ChunkUpTo
<1>5. /\ durable' = u /\ log' = log /\ replay' = replay /\ slot_finalized' = slot_finalized
  BY <1>4 DEF CommitChunk, senderVars
<1>6. meta'.floor = meta.floor /\ meta'.slots = RowsAfter(item)
  BY <1>3, CommitChunkCatalog
<1>7. RowsOf(meta', log, u)
  BY <1>3, <1>6, ChunkKeepsRows
<1>8. durable \in Nat /\ durable <= u
  BY <1>2 DEF StorageInv, CollectorOK
<1>9. SentOK(log, meta.floor, u, replay, slot_finalized)
  BY <1>2, <1>8, SentMoves DEF EntryInv
<1> QED
  BY <1>5, <1>6, <1>7, <1>9 DEF EntryInv

\* CommitTrim.
LEMMA EntryTrim ==
    ASSUME StorageInv, EntryInv, CommitTrim
    PROVE  EntryInv'
<1>1. PICK x \in compressed : x.seq = writer_seq /\ x.kind = "trim"
  BY DEF CommitTrim, Ready
<1>2. NextItem = x /\ x \in Done
  BY <1>1, NextItemIs DEF CommitTrim, Ready
<1>3. PICK u \in Nat :
              /\ durable < u /\ u <= flushed /\ u <= Len(log) /\ Fits(log, durable, u)
              /\ x = ItemOf(log, writer_seq, durable, u) /\ writer_seq \in Nat
  BY <1>1, <1>2, NextOfPipe
<1>4. log \in Seq(Command) /\ durable \in Nat /\ CatalogOK(meta, log, durable)
  BY DEF StorageInv, CollectorOK, Journaled, JournalOK
<1>5. ~IsPush(log[u]) /\ x.upto = u /\ x.until = log[u].until /\ x.slot = log[u].slot
  <2>1. x.kind = (IF IsPush(log[u]) THEN "chunk" ELSE "trim") /\ x.upto = u
    BY <1>3, <1>4, ItemTyped
  <2>2. ~IsPush(log[u])
    BY <1>1, <2>1
  <2>3. x = [kind |-> "trim", seq |-> writer_seq, upto |-> u, slot |-> log[u].slot,
             until |-> log[u].until]
    BY <1>3, <2>2 DEF ItemOf
  <2> QED
    BY <2>1, <2>2, <2>3
<1>6. u = durable + 1
  <2>1. u \in durable + 1 .. u
    BY <1>3, <1>4
  <2> QED
    BY <1>3, <1>5, <2>1 DEF Fits
<1>7. Trimmed(meta, meta', log[u].until) /\ meta'.floor = meta.floor
  BY <1>2, <1>4, <1>5, CommitTrimCatalog
<1> DEFINE gone == DeletedSegments(log[u].until)
<1>8. \A s \in Slot : meta'.slots[s] =
         IF s = log[u].slot \/ (meta.slots[s].open /\ meta.slots[s].segment \in gone)
         THEN NoRow ELSE meta.slots[s]
  <2> DEFINE F == [id \in DOMAIN meta.segments \ gone |-> meta.segments[id]]
             R == [s \in Slot |-> IF s = log[u].slot \/ (meta.slots[s].open /\ meta.slots[s].segment \in gone)
                                  THEN NoRow ELSE meta.slots[s]]
             K == {c \in meta.chunks : c.segment \notin gone}
  <2>1. meta' = [meta EXCEPT !.slots = R, !.segments = F, !.chunks = K]
    BY <1>2, <1>5 DEF CommitTrim
  <2> HIDE DEF F, R, K
  <2>2. meta'.slots = R
    BY <1>4, <2>1 DEF CatalogOK, CatalogType
  <2> QED
    BY <2>2 DEF R
<1>9. \A s \in Slot : IF s = log[u].slot THEN ~meta'.slots[s].open
                      ELSE \/ meta'.slots[s] = meta.slots[s]
                           \/ meta.slots[s].open /\ meta.slots[s].segment \in gone
  <2> HIDE DEF gone
  <2> QED
    BY <1>8 DEF NoRow
<1>10. RowsOf(meta', log, u)
  BY <1>3, <1>5, <1>6, <1>7, <1>9, TrimKeepsRows
<1>11. durable' = u /\ log' = log /\ replay' = replay /\ slot_finalized' = slot_finalized
  BY <1>2, <1>5 DEF CommitTrim, senderVars
<1>12. durable <= u
  BY <1>3, <1>4
<1>13. SentOK(log, meta.floor, u, replay, slot_finalized)
  BY <1>3, <1>4, <1>12, SentMoves DEF EntryInv
<1> QED
  BY <1>7, <1>10, <1>11, <1>13 DEF EntryInv

\* Every step keeps the invariant of the rows.
LEMMA EntryStep ==
    ASSUME StorageInv, EntryInv, [Next]_vars
    PROVE  EntryInv'
<1>1. CASE Next
  <2>1. CASE \E s \in Slot, h \in Higher, final \in BOOLEAN : Publish(s, h, final)
    BY <2>1, EntryPublish
  <2>2. CASE BeginLiveEpoch
    BY <2>2, EntryEpoch
  <2>3. CASE Collect \/ CollectTimeout \/ Compress \/ Open \/ CreateSegment \/ AppendChunk \/ DeleteFile
    <3>1. /\ log' = log /\ durable' = durable /\ replay' = replay
          /\ slot_finalized' = slot_finalized /\ meta' = meta
      BY <2>3 DEF Collect, CollectRecord, CollectTrim, CollectTimeout, Compress, CompressorTake,
         CompressorDone, Open, CreateSegment, AppendChunk, DeleteFile, senderVars, diskVars
    <3> QED
      BY <3>1, EntryStays
  <2>4. CASE CommitSegment
    <3>1. /\ log' = log /\ durable' = durable /\ replay' = replay
          /\ slot_finalized' = slot_finalized
      BY <2>4 DEF CommitSegment, senderVars
    <3>2. meta'.slots = meta.slots /\ meta'.floor = meta.floor
      <4> DEFINE F == [id \in DOMAIN meta.segments \cup {meta.next_id} |->
                          IF id = meta.next_id
                          THEN [sealed |-> FALSE, last |-> 0, len |-> 0, count |-> 0]
                          ELSE IF id = meta.active THEN [Active EXCEPT !.sealed = TRUE]
                          ELSE meta.segments[id]]
      <4>1. meta' = [meta EXCEPT !.segments = F, !.active = meta.next_id, !.next_id = NextId]
        BY <2>4 DEF CommitSegment
      <4> HIDE DEF F
      <4>2. CatalogType(meta)
        BY DEF StorageInv, CatalogOK
      <4> QED
        BY <4>1, <4>2 DEF CatalogType
    <3> QED
      BY <3>1, <3>2, EntryStays
  <2>5. CASE CommitChunk
    BY <2>5, EntryChunk
  <2>6. CASE CommitTrim
    BY <2>6, EntryTrim
  <2>7. CASE Crash
    BY <2>7, EntryCrash
  <2> QED
    BY <1>1, <2>1, <2>2, <2>3, <2>4, <2>5, <2>6, <2>7 DEF Next, Write
<1>2. CASE UNCHANGED vars
  BY <1>2, EntryStays DEF vars, senderVars, diskVars
<1> QED
  BY <1>1, <1>2

\* It holds of an empty store.
LEMMA EntryInit ==
    ASSUME Init
    PROVE  EntryInv
<1>1. log = <<>> /\ durable = 0 /\ \A s \in Slot : meta.slots[s] = NoRow
  BY DEF Init
<1>2. Len(log) = 0
  BY <1>1
<1>3. \A s \in Slot : ~meta.slots[s].open
  BY <1>1 DEF NoRow
<1>4. ~\E i : i \in 1 .. 0
  OBVIOUS
<1>5. ~\E i : i \in 0 + 1 .. 0
  OBVIOUS
<1>6. SentOK(log, meta.floor, durable, replay, slot_finalized)
  BY <1>1, <1>2, <1>4, <1>5 DEF SentOK, Separated, Known, TrimsSpare, FinalLast
<1>7. RowsOf(meta, log, durable)
  BY <1>1, <1>3, <1>4 DEF RowsOf
<1> QED
  BY <1>6, <1>7 DEF EntryInv

\* The rows of the catalog are at every moment those of the durable commands.
THEOREM RowsAreOfTheJournal == Spec => [](StorageInv /\ EntryInv)
<1>1. Init => StorageInv /\ EntryInv
  BY InitStep, EntryInit
<1>2. StorageInv /\ EntryInv /\ [Next]_vars => StorageInv' /\ EntryInv'
  BY StorageStep, EntryStep
<1> QED
  BY <1>1, <1>2, PTL DEF Spec

-----------------------------------------------------------------------------
(* StoragePipeline implements DurableLog *)

\* The instance has the operators of Journal.
LEMMA SameJournal ==
    ASSUME NEW l, NEW f
    PROVE  /\ \A s : Durable!Row(l, f, s) = Row(l, f, s)
           /\ Durable!NextIndex(l, f) = NextIndex(l, f)
           /\ \A c : Durable!EndsEvent(c) <=> EndsEvent(c)
           /\ Durable!NoRow = NoRow
<1>1. ASSUME NEW s PROVE Durable!Row(l, f, s) = Row(l, f, s)
  BY DEF Durable!Row, Row, Durable!Entered, Entered, Durable!IsPush, IsPush, Durable!Max, Max,
     Durable!NoRow, NoRow
<1>2. Durable!NextIndex(l, f) = NextIndex(l, f)
  BY DEF Durable!NextIndex, NextIndex, Durable!IsPush, IsPush, Durable!Max, Max
<1>3. ASSUME NEW c PROVE Durable!EndsEvent(c) <=> EndsEvent(c)
  BY DEF Durable!EndsEvent, EndsEvent, Durable!IsPush, IsPush, Durable!Processed, Processed
<1>4. Durable!NoRow = NoRow
  BY DEF Durable!NoRow, NoRow
<1> QED
  BY <1>1, <1>2, <1>3, <1>4

\* What read_slots answers is the row of the durable commands.
LEMMA RowOnDisk ==
    ASSUME StorageInv, EntryInv, NEW s \in Slot
    PROVE  SlotOnDisk(s) = Row(SubSeq(log, 1, durable), meta.floor, s)
<1> DEFINE p == SubSeq(log, 1, durable)
           d == durable
           f == meta.floor
           r == meta.slots[s]
           E == Entered(p, f, s)
<1>1. /\ d \in Nat /\ d <= Len(log) /\ Len(log) \in Nat /\ log \in Seq(Command)
      /\ RowsOf(meta, log, d) /\ Separated(log, f)
  BY DEF StorageInv, CollectorOK, Journaled, JournalOK, EntryInv, SentOK
<1>2. Len(p) = d /\ DOMAIN p = 1 .. d /\ \A i \in 1 .. d : p[i] = log[i]
  BY <1>1
<1>3. /\ \A i \in 1 .. d : Stands(log, d, f, s, i) =>
            /\ r.open /\ r.head = log[i].index
            /\ r.finalized = \E j \in i .. d : Finalizes(log, s, j)
      /\ r.open /\ r.head >= f => \E i \in 1 .. d : Stands(log, d, f, s, i)
  BY <1>1 DEF RowsOf
<1> HIDE DEF p, d, f, r
<1>4. \A i : Stands(p, d, f, s, i) <=> Stands(log, d, f, s, i)
  BY <1>1, <1>2, StandsSame
<1>5. \A i : i \in E <=> Stands(p, d, f, s, i)
  BY <1>2 DEF Entered, Stands, Enters
<1> HIDE DEF E
<1>6. CASE E = {}
  <2>1. ~\E i \in 1 .. d : Stands(log, d, f, s, i)
    BY <1>4, <1>5, <1>6
  <2>2. ~(r.open /\ r.head >= f)
    BY <1>3, <2>1
  <2>3. SlotOnDisk(s) = NoRow
    BY <2>2 DEF SlotOnDisk, r, f
  <2>4. Row(p, f, s) = NoRow
    BY <1>6 DEF Row, E
  <2> QED
    BY <2>3, <2>4 DEF p, f, d
<1>7. CASE E # {}
  <2>1. PICK i : i \in E
    BY <1>7
  <2>2. Stands(log, d, f, s, i) /\ i \in 1 .. d
    BY <1>4, <1>5, <2>1 DEF Stands
  <2>3. E = {i}
    <3>1. \A j : j \in E => j = i
      BY <1>1, <1>4, <1>5, <2>2, StandsOnce
    <3> QED
      BY <2>1, <3>1
  <2>4. Max(E) = i
    <3>1. E \in SUBSET Nat /\ E # {} /\ i \in Nat /\ \A x \in E : x <= i
      BY <1>1, <2>2, <2>3
    <3>2. Max(E) \in E
      BY <3>1, MaxOfBounded
    <3> QED
      BY <2>3, <3>2
  <2>5. /\ r.open /\ r.head = log[i].index
        /\ r.finalized = \E j \in i .. d : Finalizes(log, s, j)
    BY <1>3, <2>2
  <2>6. log[i].index >= f
    BY <2>2 DEF Stands, Enters
  <2> DEFINE b == \E j \in i .. d : IsPush(p[j]) /\ p[j].slot = s /\ p[j].final
             z == r.finalized
             n == log[i].index
  <2>7. z = b
    <3>1. \A j \in i .. d : p[j] = log[j]
      BY <1>1, <1>2, <2>2
    <3>2. \A j \in i .. d : Finalizes(log, s, j) <=> IsPush(p[j]) /\ p[j].slot = s /\ p[j].final
      BY <3>1 DEF Finalizes
    <3>3. (\E j \in i .. d : Finalizes(log, s, j)) = b
      BY <3>2, Zenon
    <3> QED
      BY <2>5, <3>3, Zenon
  <2>8. Row(p, f, s) = [open |-> TRUE, head |-> n, finalized |-> b]
    <3>1. Row(p, f, s) = [open |-> TRUE, head |-> p[Max(E)].index,
                          finalized |-> \E j \in Max(E) .. Len(p) :
                                           IsPush(p[j]) /\ p[j].slot = s /\ p[j].final]
      BY <1>7 DEF Row, E
    <3>2. p[i].index = n
      BY <1>2, <2>2
    <3> QED
      BY <1>2, <2>4, <3>1, <3>2
  <2> HIDE DEF b
  <2>9. SlotOnDisk(s) = [open |-> TRUE, head |-> n, finalized |-> z]
    BY <2>5, <2>6 DEF SlotOnDisk, r, f
  <2>10. Row(p, f, s) = SlotOnDisk(s)
    BY <2>7, <2>8, <2>9
  <2> QED
    BY <2>10 DEF p, f, d
<1> QED
  BY <1>6, <1>7

\* What next_index answers is the next index of the durable commands.
LEMMA NextIsOfJournal ==
    ASSUME StorageInv
    PROVE  NextIndexOnDisk = NextIndex(SubSeq(log, 1, durable), meta.floor)
<1> DEFINE p == SubSeq(log, 1, durable)
           d == durable
           f == meta.floor
           N == NextIndexOnDisk
           S == {f} \cup {p[i].index + 1 : i \in {j \in DOMAIN p : IsPush(p[j])}}
<1>1. /\ d \in Nat /\ d <= Len(log) /\ Len(log) \in Nat /\ log \in Seq(Command)
      /\ CatalogOK(meta, log, d)
  BY DEF StorageInv, CollectorOK, Journaled, JournalOK
<1>2. DOMAIN p = 1 .. d /\ \A i \in 1 .. d : p[i] = log[i]
  BY <1>1
<1>3. f \in Nat
  BY <1>1, CatalogFields DEF CatalogOK
<1>4. /\ N \in Nat /\ f <= N /\ N \in {f} \cup {c.last + 1 : c \in meta.chunks}
      /\ \A i \in 1 .. d : IsPush(log[i]) => log[i].index < N
  BY NextOnDisk
<1>5. \A i \in 1 .. d : IsPush(log[i]) => log[i].index \in Nat
  <2>1. ASSUME NEW i \in 1 .. d, IsPush(log[i]) PROVE log[i].index \in Nat
    <3>1. log[i] \in Command
      BY <1>1
    <3> QED
      BY <2>1, <3>1 DEF Command, PushCommand, TrimCommand, IsPush
  <2> QED
    BY <2>1
<1> HIDE DEF p, N
<1>6. S \in SUBSET Nat /\ S # {} /\ \A x \in S : x <= N
  <2>1. ASSUME NEW x \in S PROVE x \in Nat /\ x <= N
    <3>1. CASE x = f
      BY <1>3, <1>4, <3>1
    <3>2. CASE x # f
      <4>1. PICK i \in 1 .. d : IsPush(p[i]) /\ x = p[i].index + 1
        BY <1>2, <3>2
      <4>2. log[i].index \in Nat /\ log[i].index < N /\ x = log[i].index + 1
        BY <1>2, <1>4, <1>5, <4>1
      <4> QED
        BY <1>4, <4>2
    <3> QED
      BY <3>1, <3>2
  <2> QED
    BY <2>1
<1>7. N \in S
  <2>1. CASE N = f
    BY <2>1
  <2>2. CASE N # f
    <3>1. PICK c \in meta.chunks : N = c.last + 1
      BY <1>4, <2>2
    <3>2. PICK j \in 1 .. d : IsPush(log[j]) /\ log[j].index = c.last
      BY <1>1 DEF CatalogOK, ChunkOK
    <3>3. IsPush(p[j]) /\ N = p[j].index + 1 /\ j \in DOMAIN p
      BY <1>2, <3>1, <3>2
    <3> QED
      BY <3>3
  <2> QED
    BY <2>1, <2>2
<1>8. NextIndex(p, f) = Max(S)
  BY DEF NextIndex
<1> HIDE DEF S
<1>9. Max(S) \in S /\ \A x \in S : x <= Max(S)
  BY <1>4, <1>6, MaxOfBounded
<1>10. Max(S) \in Nat /\ Max(S) <= N /\ N <= Max(S)
  BY <1>6, <1>7, <1>9
<1>11. NextIndex(p, f) = N
  BY <1>4, <1>8, <1>10
<1> QED
  BY <1>11 DEF p, f, N

\* Rows and next index are those of the durable commands.
DiskView ==
    LET p == SubSeq(log, 1, durable)
    IN  /\ [s \in Slot |-> SlotOnDisk(s)] = [s \in Slot |-> Row(p, meta.floor, s)]
        /\ NextIndexOnDisk = NextIndex(p, meta.floor)

\* The invariants give the view of the disk.
LEMMA ViewOfDisk == StorageInv /\ EntryInv => DiskView
<1> SUFFICES ASSUME StorageInv, EntryInv
             PROVE  DiskView
  OBVIOUS
<1>1. \A s \in Slot : SlotOnDisk(s) = Row(SubSeq(log, 1, durable), meta.floor, s)
  BY RowOnDisk
<1> QED
  BY <1>1, NextIsOfJournal DEF DiskView

\* The same of the next state.
LEMMA ViewOfDiskNext == StorageInv' /\ EntryInv' => DiskView'
  BY ViewOfDisk, PTL

\* Every step of the pipeline is a step of the durable log or none.
LEMMA StorageRefines ==
    ASSUME StorageInv, EntryInv, StorageInv', EntryInv', [Next]_vars
    PROVE  [Durable!Next]_(Durable!vars)
<1>1. DiskView'
  BY ViewOfDiskNext
<1> DEFINE rows == [s \in Slot |-> SlotOnDisk(s)]
<1>2. /\ rows' = [s \in Slot |-> Row(SubSeq(log', 1, durable'), meta'.floor, s)]
      /\ NextIndexOnDisk' = NextIndex(SubSeq(log', 1, durable'), meta'.floor)
  BY <1>1 DEF DiskView
<1>3. /\ log \in Seq(Command) /\ Len(log) \in Nat /\ durable \in Nat /\ durable <= Len(log)
      /\ log' \in Seq(Command) /\ Len(log') \in Nat /\ durable' \in Nat /\ durable' <= Len(log')
  BY DEF StorageInv, Journaled, JournalOK, CollectorOK
<1>4. ASSUME meta'.slots = meta.slots, meta'.floor = meta.floor
      PROVE  rows' = rows
  BY <1>4 DEF SlotOnDisk
<1>5. ASSUME meta'.chunks = meta.chunks, meta'.floor = meta.floor
      PROVE  NextIndexOnDisk' = NextIndexOnDisk
  BY <1>5 DEF NextIndexOnDisk
<1>6. ASSUME meta'.floor = meta.floor, log' = log, durable < durable'
      PROVE  Durable!Persist
  <2>1. durable' \in durable + 1 .. Len(log)
    BY <1>3, <1>6
  <2>2. EndsEvent(log[durable'])
    <3>1. durable' > 0
      BY <1>3, <1>6
    <3> QED
      BY <1>6, <3>1 DEF StorageInv, CollectorOK
  <2>3. Durable!EndsEvent(log[durable'])
    BY <2>2, SameJournal
  <2>4. Durable!View(SubSeq(log, 1, durable'), meta.floor)
    <3>1. \A s : Durable!Row(SubSeq(log, 1, durable'), meta.floor, s)
                   = Row(SubSeq(log, 1, durable'), meta.floor, s)
      BY SameJournal
    <3>2. Durable!NextIndex(SubSeq(log, 1, durable'), meta.floor)
            = NextIndex(SubSeq(log, 1, durable'), meta.floor)
      BY SameJournal
    <3> QED
      BY <1>2, <1>6, <3>1, <3>2 DEF Durable!View
  <2> QED
    BY <1>6, <2>1, <2>3, <2>4 DEF Durable!Persist
<1>7. CASE Next
  <2>1. CASE \E s \in Slot, h \in Higher, final \in BOOLEAN : Publish(s, h, final)
    <3>1. PICK s \in Slot, h \in Higher, final \in BOOLEAN : Publish(s, h, final)
      BY <2>1
    <3>2. Len(log) < Len(log') /\ \A i \in 1 .. Len(log) : log'[i] = log[i]
      BY <3>1, PublishJournaled DEF StorageInv
    <3>3. meta' = meta /\ durable' = durable
      BY <3>1 DEF Publish, diskVars
    <3>4. SubSeq(log', 1, Len(log)) = log
      <4> DEFINE n == Len(log)
      <4>1. n \in Nat /\ n <= Len(log') /\ log = [i \in 1 .. n |-> log[i]]
        BY <1>3, <3>2
      <4>2. SubSeq(log', 1, n) = [i \in 1 .. n |-> log'[i]]
        <5> HIDE DEF n
        <5> QED
          BY <1>3, <4>1
      <4> QED
        BY <3>2, <4>1, <4>2
    <3>5. EndsEvent(log'[Len(log')])
      <4>1. Len(log') > 0
        BY <1>3, <3>2
      <4> QED
        BY <4>1 DEF StorageInv, Journaled, JournalOK
    <3>6. Durable!EndsEvent(log'[Len(log')])
      BY <3>5, SameJournal
    <3>7. Durable!Send
      BY <1>3, <1>4, <1>5, <3>2, <3>3, <3>4, <3>6 DEF Durable!Send
    <3> QED
      BY <3>7 DEF Durable!Next
  <2>2. CASE BeginLiveEpoch
    <3>1. log' = log /\ durable' = durable /\ meta' = [meta EXCEPT !.floor = index]
      BY <2>2 DEF BeginLiveEpoch
    <3>2. meta'.floor = index /\ index \in Nat /\ meta.floor \in Nat /\ meta.floor <= index
      <4>1. CatalogType(meta)
        BY DEF StorageInv, CatalogOK
      <4>2. meta'.floor = index
        BY <3>1, <4>1 DEF CatalogType
      <4>3. meta.floor \in Nat
        BY <4>1, CatalogFields
      <4> QED
        BY <4>2, <4>3 DEF StorageInv, Journaled, SenderOK
    <3>3. Durable!View(SubSeq(log, 1, durable), meta'.floor)
      <4>1. \A s : Durable!Row(SubSeq(log, 1, durable), meta'.floor, s)
                     = Row(SubSeq(log, 1, durable), meta'.floor, s)
        BY SameJournal
      <4>2. Durable!NextIndex(SubSeq(log, 1, durable), meta'.floor)
              = NextIndex(SubSeq(log, 1, durable), meta'.floor)
        BY SameJournal
      <4> QED
        BY <1>2, <3>1, <4>1, <4>2 DEF Durable!View
    <3>4. Durable!RaiseFloor
      BY <3>1, <3>2, <3>3 DEF Durable!RaiseFloor
    <3> QED
      BY <3>4 DEF Durable!Next
  <2>3. CASE Collect \/ CollectTimeout \/ Compress \/ Open \/ CreateSegment \/ AppendChunk \/ DeleteFile
    <3>1. log' = log /\ durable' = durable /\ meta' = meta
      BY <2>3 DEF Collect, CollectRecord, CollectTrim, CollectTimeout, Compress, CompressorTake,
         CompressorDone, Open, CreateSegment, AppendChunk, DeleteFile, diskVars
    <3> QED
      BY <1>4, <1>5, <3>1 DEF Durable!vars
  <2>4. CASE CommitSegment
    <3>1. log' = log /\ durable' = durable
      BY <2>4 DEF CommitSegment
    <3>2. meta'.slots = meta.slots /\ meta'.floor = meta.floor /\ meta'.chunks = meta.chunks
      <4> DEFINE F == [id \in DOMAIN meta.segments \cup {meta.next_id} |->
                          IF id = meta.next_id
                          THEN [sealed |-> FALSE, last |-> 0, len |-> 0, count |-> 0]
                          ELSE IF id = meta.active THEN [Active EXCEPT !.sealed = TRUE]
                          ELSE meta.segments[id]]
      <4>1. meta' = [meta EXCEPT !.segments = F, !.active = meta.next_id, !.next_id = NextId]
        BY <2>4 DEF CommitSegment
      <4> HIDE DEF F
      <4>2. CatalogType(meta)
        BY DEF StorageInv, CatalogOK
      <4> QED
        BY <4>1, <4>2 DEF CatalogType
    <3> QED
      BY <1>4, <1>5, <3>1, <3>2 DEF Durable!vars
  <2>5. CASE CommitChunk
    <3>1. item \in Done /\ item.seq = writer_seq /\ item.kind = "chunk"
      BY <2>5 DEF StorageInv, Written, CommitChunk, Done
    <3>2. PICK u \in Nat :
                  /\ durable < u /\ u <= flushed /\ u <= Len(log) /\ Fits(log, durable, u)
                  /\ item = ItemOf(log, writer_seq, durable, u) /\ writer_seq \in Nat
      BY <3>1, NextOfPipe
    <3>3. ChunkUpTo(item, u)
      BY <3>1, <3>2, ChunkOfItem
    <3>4. log' = log /\ durable' = u /\ meta'.floor = meta.floor
      BY <2>5, <3>3, CommitChunkCatalog DEF CommitChunk, ChunkUpTo
    <3> QED
      BY <1>6, <3>2, <3>4 DEF Durable!Next
  <2>6. CASE CommitTrim
    <3>1. PICK x \in compressed : x.seq = writer_seq
      BY <2>6 DEF CommitTrim, Ready
    <3>2. NextItem = x /\ x \in Done
      BY <2>6, <3>1, NextItemIs DEF CommitTrim, Ready
    <3>3. PICK u \in Nat :
                  /\ durable < u /\ u <= flushed /\ u <= Len(log) /\ Fits(log, durable, u)
                  /\ x = ItemOf(log, writer_seq, durable, u) /\ writer_seq \in Nat
      BY <3>1, <3>2, NextOfPipe
    <3>4. x.upto = u
      BY <1>3, <3>3, ItemTyped
    <3>5. log' = log /\ durable' = u
      BY <2>6, <3>2, <3>4 DEF CommitTrim
    <3>6. meta'.floor = meta.floor
      <4>1. CatalogOK(meta, log, durable)
        BY DEF StorageInv
      <4> QED
        BY <2>6, <4>1, CommitTrimCatalog
    <3> QED
      BY <1>6, <3>3, <3>5, <3>6 DEF Durable!Next
  <2>7. CASE Crash
    <3>1. log' = SubSeq(log, 1, durable) /\ durable' = durable /\ meta' = meta
      BY <2>7 DEF Crash
    <3>2. Durable!Crash
      BY <1>4, <1>5, <3>1 DEF Durable!Crash
    <3> QED
      BY <3>2 DEF Durable!Next
  <2> QED
    BY <1>7, <2>1, <2>2, <2>3, <2>4, <2>5, <2>6, <2>7 DEF Next, Write
<1>8. CASE UNCHANGED vars
  <2>1. log' = log /\ durable' = durable /\ meta' = meta
    BY <1>8 DEF vars, diskVars
  <2> QED
    BY <1>4, <1>5, <2>1 DEF Durable!vars
<1> QED
  BY <1>7, <1>8

\* An empty store is an empty log.
LEMMA StorageStarts == Init => Durable!Init
<1> SUFFICES ASSUME Init
             PROVE  Durable!Init
  OBVIOUS
<1>1. log = <<>> /\ durable = 0
  BY DEF Init
<1>2. /\ meta.floor = 0 /\ meta.chunks = {} /\ meta.slots = [s \in Slot |-> NoRow]
  BY DEF Init
<1>3. \A s \in Slot : SlotOnDisk(s) = NoRow
  <2>1. \A s \in Slot : ~meta.slots[s].open
    BY <1>2 DEF NoRow
  <2> QED
    BY <2>1 DEF SlotOnDisk
<1>4. NextIndexOnDisk = 0
  <2>1. NextIndexOnDisk = Max({0})
    BY <1>2 DEF NextIndexOnDisk
  <2>2. {0} \in SUBSET Nat /\ {0} # {} /\ \A x \in {0} : x <= 0
    OBVIOUS
  <2>3. Max({0}) \in {0}
    BY <2>2, MaxOfBounded
  <2> QED
    BY <2>1, <2>3
<1>5. Durable!NoRow = NoRow
  BY DEF Durable!NoRow, NoRow
<1> QED
  BY <1>1, <1>2, <1>3, <1>4, <1>5 DEF Durable!Init

\* The storage keeps the promise of DurableLog: however the compressors reorder the
\* chunks and wherever a crash cuts them, the durable commands are a prefix of those sent
\* that ends with a source event, and read_slots and next_index answer for exactly these.
THEOREM StorageImplementsDurableLog == Spec => ImplementsDurableLog
<1>1. StorageInv /\ EntryInv /\ StorageInv' /\ EntryInv' /\ [Next]_vars
         => [Durable!Next]_(Durable!vars)
  BY StorageRefines
<1> QED
  BY <1>1, StorageStarts, RowsAreOfTheJournal, PTL DEF Spec, ImplementsDurableLog, Durable!Spec
=============================================================================
