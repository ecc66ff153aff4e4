------------------------ MODULE SourceRecoveryProofs ------------------------
(***************************************************************************)
(* For every set of sources, configuration, history that upstreams keep,   *)
(* channel size and finality: history is lost at an announced gap only     *)
(* (HistoryInv), and the gap is announced only when every source has       *)
(* refused the cursor as it is (EveryoneRefused).                          *)
(*                                                                         *)
(* Neither is inductive.  NoSilentGap says nothing of what is still in the *)
(* channels: FlowInv adds that the items of a channel are consecutive      *)
(* slots, and that what a current stream has passed and is not finalized   *)
(* was taken (Ahead).  AfterGapOnlyLive needs where a stream of the new    *)
(* epoch may be (GapInv).  EveryoneRefused needs that the refusals that    *)
(* were counted are refusals of the current cursor, and still the last     *)
(* answers of sources that are configured (CountInv).                      *)
(***************************************************************************)
EXTENDS SourceRecovery, RingLemmas

Records ==
    /\ setup.reconnect \subseteq Names
    /\ head \in FirstHead .. MaxSlot
    /\ left \in [faults : Nat, moves : Nat, edits : Nat]
    /\ replay \in [value : Nat, failed : SUBSET Names, epoch : Nat, total : Nat]
    /\ sink \in [got : SUBSET Nat, finalized : Nat]
    /\ live \in [start : Nat, gap : Nat]
    /\ refused \in [Names -> Nat \X Nat]
    /\ reload \in [file : Sources, valid : BOOLEAN, signal : BOOLEAN, busy : BOOLEAN,
                   remove : SUBSET Names, add : UNION {[S -> Upstreams] : S \in SUBSET Names}]

\* There is a source, and there is one after a prepared reload.
ReloadInv ==
    /\ DOMAIN src \in (SUBSET Names) \ {{}}
    /\ reload.busy => (DOMAIN src \ reload.remove) \cup DOMAIN reload.add # {}
    /\ reload.busy \/ reload.signal \/ left.edits > 0 => setup.reconnect = Names

\* The refusals that are counted are the last answers of sources that are configured, and
\* they are answers to the current cursor.
CountInv ==
    /\ replay.total = Cardinality(DOMAIN src)
    /\ replay.failed \subseteq DOMAIN src
    /\ \A n \in replay.failed : refused[n] = <<replay.value, replay.epoch>>

\* The cursor asks for nothing that is finalized, nor for anything from before the gap.
CursorInv ==
    /\ sink.finalized <= head
    /\ replay.value <= sink.finalized + 1
    /\ sink.got = {} /\ replay.value # None => live.start > sink.finalized
    /\ live.gap <= head
    /\ live.gap # 0 /\ replay.value # None => replay.value > live.gap - Finality

-----------------------------------------------------------------------------
(* What holds of the source n when its state is s *)

\* A source that was counted asks for nothing else.
Counted(n, s) ==
    /\ s.epoch <= replay.epoch
    /\ n \in replay.failed /\ s.phase # "idle" =>
          s.requested = replay.value /\ s.epoch = replay.epoch

\* The number of slots in a channel, and the slot that is taken next.
Waiting(queue) == IF Over(queue) THEN Len(queue) - 1 ELSE Len(queue)
Pos(s) == s.next - Waiting(s.queue)

\* A channel holds consecutive slots that the cluster has, within its size.
Channel(s) ==
    /\ Len(s.queue) <= ChannelSize
    /\ s.next <= head + 1 /\ s.requested <= head + 1
    /\ \A i \in 1 .. Waiting(s.queue) : s.queue[i] = Item("slot", Pos(s) + i - 1)

\* The stream belongs to the current epoch.
Current(s) == s.phase # "idle" /\ s.epoch = replay.epoch

\* What the stream has passed, and is not finalized, was taken.
Ahead(s) == \A m \in live.start .. Pos(s) - 1 : m > sink.finalized => m \in sink.got

Flows(s) ==
    Current(s) =>
        /\ s.requested <= sink.finalized + 1
        /\ s.phase = "open" => Ahead(s) /\ (sink.got = {} => live.start > sink.finalized)

\* Nobody asks for history from before the gap.
AfterGap(s) ==
    Current(s) =>
        /\ replay.value = None => s.requested = None
        /\ live.gap # 0 =>
              /\ s.requested # None => s.requested > live.gap - Finality
              /\ s.phase = "open" =>
                    Pos(s) > IF s.requested = None THEN live.gap ELSE live.gap - Finality

Good(n, s) == Counted(n, s) /\ Channel(s) /\ Flows(s) /\ AfterGap(s)

\* The inductive invariant.
RecoveryInv ==
    /\ Records /\ ReloadInv /\ CountInv /\ CursorInv
    /\ NoSilentGap /\ AfterGapOnlyLive
    /\ src \in [DOMAIN src -> SourceState]
    /\ \A n \in DOMAIN src : Good(n, src[n])

-----------------------------------------------------------------------------
(* Operators *)

\* The larger of two numbers, as Store, Take and Connected use it.
LEMMA MaxOfTwo ==
    ASSUME NEW a \in Int, NEW b \in Int
    PROVE  Max({a, b}) = IF a >= b THEN a ELSE b
<1> DEFINE M == IF a >= b THEN a ELSE b
<1>1. M \in {a, b} /\ \A y \in {a, b} : M >= y
  OBVIOUS
<1>2. ASSUME NEW x \in {a, b}, \A y \in {a, b} : x >= y PROVE x = M
  BY <1>2
<1> HIDE DEF M
<1>3. Max({a, b}) = M
  BY <1>1, <1>2 DEF Max
<1> QED
  BY <1>3 DEF M

Items == [kind : {"slot", "rejected", "closed", "error"}, slot : Nat]

\* forward appends to a channel whose stream has not ended.
LEMMA QueueAppend ==
    ASSUME NEW q \in Seq(Items), ~Over(q), NEW x \in Items
    PROVE  /\ Append(q, x) \in Seq(Items)
           /\ Len(Append(q, x)) = Len(q) + 1
           /\ Waiting(q) = Len(q)
           /\ Waiting(Append(q, x)) = IF x.kind = "slot" THEN Len(q) + 1 ELSE Len(q)
           /\ \A i \in 1 .. Len(q) : Append(q, x)[i] = q[i]
           /\ Append(q, x)[Len(q) + 1] = x
<1>1. /\ Append(q, x) \in Seq(Items) /\ Len(Append(q, x)) = Len(q) + 1 /\ Len(q) \in Nat
      /\ \A i \in 1 .. Len(q) : Append(q, x)[i] = q[i]
      /\ Append(q, x)[Len(q) + 1] = x
  OBVIOUS
<1>2. Append(q, x) # <<>> /\ Last(Append(q, x)) = x
  BY <1>1 DEF Last
<1> QED
  BY <1>1, <1>2 DEF Waiting, Over

\* recv takes the first message of a channel.
LEMMA QueueTail ==
    ASSUME NEW q \in Seq(Items), q # <<>>, Head(q).kind = "slot"
    PROVE  /\ Tail(q) \in Seq(Items)
           /\ Len(Tail(q)) = Len(q) - 1
           /\ Waiting(q) >= 1
           /\ Waiting(q) \in Nat
           /\ Waiting(Tail(q)) = Waiting(q) - 1
           /\ \A i \in 1 .. Waiting(Tail(q)) : Tail(q)[i] = q[i + 1]
<1>1. /\ Len(q) \in Nat \ {0} /\ Tail(q) \in Seq(Items) /\ Len(Tail(q)) = Len(q) - 1
      /\ \A i \in 1 .. Len(q) - 1 : Tail(q)[i] = q[i + 1]
      /\ Head(q) = q[1]
  OBVIOUS
<1>2. CASE Len(q) = 1
  <2>1. Last(q).kind = "slot" /\ Len(Tail(q)) = 0
    BY <1>1, <1>2 DEF Last
  <2>2. \A t \in Seq(Items) : Len(t) = 0 => t = <<>>
    OBVIOUS
  <2>3. ~Over(q) /\ ~Over(Tail(q))
    BY <1>1, <2>1, <2>2 DEF Over
  <2> QED
    BY <1>1, <1>2, <2>1, <2>3 DEF Waiting
<1>3. CASE Len(q) # 1
  <2>0. Len(<<>>) = 0
    OBVIOUS
  <2>3. Len(Tail(q)) # 0 /\ Last(Tail(q)) = Last(q)
    BY <1>1, <1>3 DEF Last
  <2>1. Tail(q) # <<>> /\ Last(Tail(q)) = Last(q)
    BY <2>0, <2>3
  <2>2. Over(Tail(q)) <=> Over(q)
    BY <2>1 DEF Over
  <2> QED
    BY <1>1, <1>3, <2>2 DEF Waiting
<1> QED
  BY <1>2, <1>3

\* An empty channel.
LEMMA QueueEmpty == Waiting(<<>>) = 0
  BY DEF Waiting, Over

\* The state of a source, field by field.
LEMMA StateFields ==
    ASSUME NEW s \in SourceState
    PROVE  /\ s.up \in Upstreams /\ s.phase \in {"idle", "dial", "open"}
           /\ s.requested \in 0 .. MaxSlot + 1 /\ s.requested \in Nat
           /\ s.epoch \in Nat
           /\ s.queue \in Seq(Items) /\ Len(s.queue) \in Nat
           /\ s.next \in 0 .. MaxSlot + 1 /\ s.next \in Nat
           /\ Waiting(s.queue) \in Nat /\ Waiting(s.queue) <= Len(s.queue)
           /\ Pos(s) \in Int
<1>1. /\ s.up \in Upstreams /\ s.phase \in {"idle", "dial", "open"}
      /\ s.requested \in 0 .. MaxSlot + 1
      /\ s.epoch \in Nat
      /\ s.queue \in Seq(Items)
      /\ s.next \in 0 .. MaxSlot + 1
  BY DEF SourceState, Items
<1>2. Len(s.queue) \in Nat /\ (s.queue # <<>> => Len(s.queue) >= 1)
  BY <1>1
<1>3. Waiting(s.queue) \in Nat /\ Waiting(s.queue) <= Len(s.queue)
  BY <1>2 DEF Waiting, Over
<1> QED
  BY <1>1, <1>2, <1>3, SourceRecoveryAssumption DEF Pos

\* What a configuration configures.
LEMMA SourcesDomain ==
    ASSUME NEW f \in Sources
    PROVE  DOMAIN f \in (SUBSET Names) \ {{}} /\ f \in [DOMAIN f -> Upstreams]
<1>1. PICK S \in (SUBSET Names) \ {{}} : f \in [S -> Upstreams]
  BY DEF Sources
<1> QED
  BY <1>1

\* The sources that are configured can be counted.
LEMMA SomeSources ==
    ASSUME NEW S \in (SUBSET Names) \ {{}}
    PROVE  /\ IsFiniteSet(S) /\ Cardinality(S) \in Nat
           /\ Cardinality(S) \in 1 .. Cardinality(Names)
<1>1. IsFiniteSet(Names) /\ S \subseteq Names
  BY SourceRecoveryAssumption
<1>2. IsFiniteSet(S) /\ Cardinality(S) <= Cardinality(Names)
  BY <1>1, FS_Subset
<1>3. Cardinality(S) \in Nat /\ Cardinality(Names) \in Nat
  BY <1>1, <1>2, FS_CardinalityType
<1>4. S # {}
  OBVIOUS
<1>5. Cardinality(S) # 0
  BY <1>2, <1>4, FS_EmptySet, Zenon
<1> QED
  BY <1>2, <1>3, <1>5

\* A source that was just configured, or that sleeps, is in no stream.
LEMMA IdleState ==
    ASSUME NEW s \in SourceState, s.phase = "idle", s.queue = <<>>, s.next = 0,
           Records, s.epoch <= replay.epoch, s.requested <= head + 1, NEW n
    PROVE  Good(n, s)
<1>1. Waiting(s.queue) = 0 /\ Len(s.queue) = 0
  BY QueueEmpty
<1>2. Counted(n, s) /\ Flows(s) /\ AfterGap(s)
  BY DEF Counted, Flows, AfterGap, Current
<1>3. Channel(s)
  <2>1. head \in Nat /\ ChannelSize \in Nat
    BY SourceRecoveryAssumption DEF Records
  <2> QED
    BY <1>1, <2>1 DEF Channel
<1> QED
  BY <1>2, <1>3 DEF Good

\* What create_subscriptions makes of a configured source.
LEMMA NewState ==
    ASSUME NEW u \in Upstreams, Records, NEW n
    PROVE  NewSource(u) \in SourceState /\ Good(n, NewSource(u))
<1>1. PICK s : s = NewSource(u)
  OBVIOUS
<1>2. /\ s.phase = "idle" /\ s.queue = <<>> /\ s.next = 0 /\ s.epoch = 0
      /\ s.requested = 0
  BY <1>1 DEF NewSource, None
<1>3. <<>> \in Seq(Items) /\ 0 \in 0 .. MaxSlot + 1
  BY SourceRecoveryAssumption
<1>4. s \in SourceState
  BY <1>1, <1>3 DEF NewSource, None, SourceState, Items
<1>5. s.epoch <= replay.epoch /\ s.requested <= head + 1
  BY <1>2, SourceRecoveryAssumption DEF Records
<1> HIDE DEF Records
<1> QED
  BY <1>1, <1>2, <1>4, <1>5, IdleState

\* What remains of a source whose stream is dropped.
LEMMA ClosedState ==
    ASSUME NEW s \in SourceState
    PROVE  /\ Closed(s) \in SourceState
           /\ Closed(s).phase = "idle" /\ Closed(s).queue = <<>> /\ Closed(s).next = 0
           /\ Closed(s).epoch = s.epoch /\ Closed(s).requested = s.requested
<1>1. <<>> \in Seq(Items) /\ 0 \in 0 .. MaxSlot + 1
  BY SourceRecoveryAssumption
<1> QED
  BY <1>1 DEF Closed, SourceState, Items, None

-----------------------------------------------------------------------------
(* The initial states *)

\* A server starts with a cursor at or before the slot the cluster is at, and no stream.
LEMMA RecoveryInit == Init => RecoveryInv
<1> SUFFICES ASSUME Init PROVE RecoveryInv
  OBVIOUS
<1>1. PICK s \in Setups :
       /\ setup = [reconnect |-> s.reconnect, exclude |-> s.exclude]
       /\ head = FirstHead
       /\ left = [faults |-> s.faults, moves |-> s.moves, edits |-> s.edits]
       /\ replay = [value |-> s.cursor, failed |-> {}, epoch |-> 0,
                    total |-> Cardinality(DOMAIN s.sources)]
       /\ src = [n \in DOMAIN s.sources |-> NewSource(s.sources[n])]
       /\ sink = [got |-> {}, finalized |-> IF s.cursor = None THEN 0 ELSE s.cursor - 1]
       /\ reload = [file |-> s.sources, valid |-> TRUE, signal |-> FALSE, busy |-> FALSE,
                    remove |-> {}, add |-> <<>>]
       /\ live = [start |-> IF s.cursor = None THEN 0 ELSE s.cursor, gap |-> 0]
       /\ refused = [n \in Names |-> <<None, 0>>]
  BY DEF Init
<1>2. /\ s.sources \in Sources /\ s.reconnect \subseteq Names
      /\ s.cursor \in 0 .. FirstHead /\ s.faults \in Nat /\ s.moves \in Nat /\ s.edits \in Nat
      /\ s.edits > 0 => s.reconnect = Names
      /\ FirstHead \in Nat \ {0} /\ MaxSlot \in Nat /\ FirstHead <= MaxSlot
  BY SourceRecoveryAssumption
<1>3. DOMAIN s.sources \in (SUBSET Names) \ {{}} /\ s.sources \in [DOMAIN s.sources -> Upstreams]
  BY <1>2, SourcesDomain
<1>4. Cardinality(DOMAIN s.sources) \in Nat
  BY <1>3, SomeSources, Zenon
<1>5. DOMAIN src = DOMAIN s.sources
  BY <1>1
<1>6. Records
  <2>1. <<>> \in [{} -> Upstreams] /\ {} \in SUBSET Names
    OBVIOUS
  <2>2. <<>> \in UNION {[S -> Upstreams] : S \in SUBSET Names}
    BY <2>1
  <2>3. reload \in [file : Sources, valid : BOOLEAN, signal : BOOLEAN, busy : BOOLEAN,
                   remove : SUBSET Names, add : UNION {[S -> Upstreams] : S \in SUBSET Names}]
    BY <1>1, <1>2, <2>2
  <2>4. sink \in [got : SUBSET Nat, finalized : Nat] /\ live \in [start : Nat, gap : Nat]
    BY <1>1, <1>2 DEF None
  <2>5. /\ replay \in [value : Nat, failed : SUBSET Names, epoch : Nat, total : Nat]
        /\ left \in [faults : Nat, moves : Nat, edits : Nat]
    BY <1>1, <1>2, <1>4
  <2>6. refused \in [Names -> Nat \X Nat]
    BY <1>1 DEF None
  <2>7. setup.reconnect \subseteq Names /\ head \in FirstHead .. MaxSlot
    BY <1>1, <1>2
  <2> QED
    BY <2>3, <2>4, <2>5, <2>6, <2>7 DEF Records
<1>7. ReloadInv
  BY <1>1, <1>2, <1>3, <1>5 DEF ReloadInv
<1>8. CountInv
  BY <1>1, <1>5 DEF CountInv
<1>9. CursorInv
  BY <1>1, <1>2 DEF CursorInv, None
<1>10. NoSilentGap /\ AfterGapOnlyLive
  BY <1>1 DEF NoSilentGap, AfterGapOnlyLive
<1>11. ASSUME NEW n \in DOMAIN src
       PROVE  src[n] \in SourceState /\ Good(n, src[n])
  <2>1. src[n] = NewSource(s.sources[n]) /\ s.sources[n] \in Upstreams
    BY <1>1, <1>3, <1>5, <1>11
  <2> QED
    BY <2>1, <1>6, NewState
<1>12. src \in [DOMAIN src -> SourceState]
  BY <1>1, <1>11
<1> QED
  BY <1>6, <1>7, <1>8, <1>9, <1>10, <1>11, <1>12 DEF RecoveryInv

-----------------------------------------------------------------------------
(* Steps that change one source *)

\* The numbers that the invariants compare.
LEMMA Numbers ==
    ASSUME Records
    PROVE  /\ head \in Nat /\ replay.value \in Nat /\ replay.epoch \in Nat
           /\ replay.total \in Nat /\ replay.failed \subseteq Names
           /\ sink.got \subseteq Nat /\ sink.finalized \in Nat
           /\ live.start \in Nat /\ live.gap \in Nat /\ Finality \in Nat \ {0}
           /\ head >= 1 /\ head <= MaxSlot /\ MaxSlot \in Nat
  BY SourceRecoveryAssumption DEF Records

\* A source that starts live moves the slot from which nothing may be missing.
Starts ==
    /\ live' \in [start : Nat, gap : Nat]
    /\ live'.gap = live.gap
    /\ live'.start >= live.start
    /\ live'.start = live.start \/ live'.start > sink.finalized

\* A step that changes one source only, and leaves that one in order.
LEMMA OneSource ==
    ASSUME RecoveryInv, NEW n \in DOMAIN src, NEW s \in SourceState,
           src' = [src EXCEPT ![n] = s],
           UNCHANGED <<setup, head, replay, sink, reload, refused>>,
           left' \in [faults : Nat, moves : Nat, edits : Nat], left'.edits = left.edits,
           Starts,
           Good(n, s)'
    PROVE  RecoveryInv'
<1>1. /\ Records /\ ReloadInv /\ CountInv /\ CursorInv
      /\ NoSilentGap /\ AfterGapOnlyLive
      /\ src \in [DOMAIN src -> SourceState]
      /\ \A k \in DOMAIN src : Good(k, src[k])
  BY DEF RecoveryInv
<1>2. DOMAIN src' = DOMAIN src /\ src'[n] = s
  OBVIOUS
<1>3. src' \in [DOMAIN src' -> SourceState]
  BY <1>1, <1>2
<1>4. Records'
  BY <1>1 DEF Records, Starts
<1>5. ReloadInv' /\ CountInv'
  BY <1>1, <1>2 DEF ReloadInv, CountInv
<1>6. /\ replay.value \in Nat /\ sink.finalized \in Nat /\ live.start \in Nat
      /\ live.gap \in Nat /\ sink.got \subseteq Nat /\ live'.start \in Nat
  BY <1>1, Numbers DEF Starts
<1>7. CursorInv' /\ AfterGapOnlyLive'
  <2>1. AfterGapOnlyLive'
    BY <1>1 DEF AfterGapOnlyLive, Starts
  <2>2. CursorInv'
    BY <1>1, <1>6 DEF CursorInv, Starts
  <2> QED
    BY <2>1, <2>2
<1>8. NoSilentGap'
  <2>1. /\ Max({live.start, 1}) = IF live.start >= 1 THEN live.start ELSE 1
        /\ Max({live'.start, 1}) = IF live'.start >= 1 THEN live'.start ELSE 1
    BY <1>6, MaxOfTwo
  <2>2. \A m \in Max({live'.start, 1}) .. sink.finalized : m \in Max({live.start, 1}) .. sink.finalized
    BY <1>6, <2>1 DEF Starts
  <2> QED
    BY <1>1, <2>2 DEF NoSilentGap
<1>9. ASSUME NEW k \in DOMAIN src' PROVE Good(k, src[k])'
  <2>1. CASE k = n
    BY <1>2, <2>1
  <2>2. CASE k # n
    <3>1. src'[k] = src[k] /\ Good(k, src[k]) /\ src[k] \in SourceState
      BY <1>1, <1>2, <1>9, <2>2
    <3>2. PICK t \in SourceState : t = src[k]
      BY <3>1
    <3>3. Counted(k, t)' /\ Channel(t)'
      BY <3>1, <3>2 DEF Good, Counted, Channel
    <3>4. Pos(t) \in Int
      BY StateFields
    <3>5. Flows(t)'
      BY <1>6, <3>1, <3>2, <3>4 DEF Good, Flows, Current, Ahead, Starts
    <3>6. AfterGap(t)'
      BY <3>1, <3>2 DEF Good, AfterGap, Current, Starts
    <3> QED
      BY <3>1, <3>2, <3>3, <3>5, <3>6 DEF Good
  <2> QED
    BY <2>1, <2>2
<1> QED
  BY <1>3, <1>4, <1>5, <1>7, <1>8, <1>9 DEF RecoveryInv

\* The step changes the state of n to s, and nothing else that the invariant speaks of.
Becomes(n, s) ==
    /\ src' = [src EXCEPT ![n] = s]
    /\ UNCHANGED <<setup, head, replay, sink, reload, refused, live>>
    /\ left' \in [faults : Nat, moves : Nat, edits : Nat] /\ left'.edits = left.edits

\* Such a step keeps the invariant when s is in order in the old state.
LEMMA SourceBecomes ==
    ASSUME RecoveryInv, NEW n \in DOMAIN src, NEW s \in SourceState, Becomes(n, s), Good(n, s)
    PROVE  RecoveryInv'
<1>1. Good(n, s)'
  BY DEF Good, Counted, Channel, Flows, AfterGap, Current, Ahead, Becomes
<1>2. Starts
  <2>1. live \in [start : Nat, gap : Nat]
    BY DEF RecoveryInv, Records
  <2> QED
    BY <2>1 DEF Starts, Becomes
<1> QED
  BY <1>1, <1>2, OneSource DEF Becomes

\* A stream is dropped and its source sleeps.
LEMMA SourceCloses ==
    ASSUME RecoveryInv, NEW n \in DOMAIN src, Becomes(n, Closed(src[n]))
    PROVE  RecoveryInv'
<1>1. /\ Records /\ src[n] \in SourceState /\ src[n].epoch <= replay.epoch
      /\ src[n].requested <= head + 1
  BY DEF RecoveryInv, Good, Counted, Channel
<1>2. PICK s : s = Closed(src[n])
  OBVIOUS
<1>3. s \in SourceState /\ Good(n, s)
  BY <1>1, <1>2, ClosedState, IdleState
<1> QED
  BY <1>2, <1>3, SourceBecomes

\* What the invariant says of one source and of the numbers.
LEMMA Facts ==
    ASSUME RecoveryInv, NEW n \in DOMAIN src
    PROVE  /\ Records /\ CursorInv /\ ReloadInv /\ CountInv
           /\ src[n] \in SourceState /\ Good(n, src[n]) /\ n \in Names
           /\ left \in [faults : Nat, moves : Nat, edits : Nat]
  BY DEF RecoveryInv, Records, ReloadInv

\* A source that subscribes asks for the cursor, in the current epoch.
LEMMA DialStep ==
    ASSUME RecoveryInv, NEW n, Dial(n)
    PROVE  RecoveryInv'
<1>1. n \in DOMAIN src
  BY DEF Dial
<1>2. /\ Records /\ CursorInv /\ src[n] \in SourceState /\ Good(n, src[n])
      /\ left \in [faults : Nat, moves : Nat, edits : Nat]
  BY <1>1, Facts
<1>3. /\ head \in Nat /\ replay.value \in Nat /\ replay.epoch \in Nat /\ sink.finalized \in Nat
      /\ head <= MaxSlot /\ MaxSlot \in Nat
  BY <1>2, Numbers
<1>4. PICK c : c = Closed(src[n])
  OBVIOUS
<1>5. c \in SourceState /\ c.phase = "idle" /\ c.queue = <<>> /\ c.next = 0 /\ c.epoch = src[n].epoch
  BY <1>2, <1>4, ClosedState
<1>6. PICK s : s = [c EXCEPT !.phase = "dial", !.requested = replay.value, !.epoch = replay.epoch]
  OBVIOUS
<1>7. replay.value \in 0 .. MaxSlot + 1
  BY <1>2, <1>3 DEF CursorInv
<1>8. s \in SourceState
  BY <1>3, <1>5, <1>6, <1>7 DEF SourceState
<1>9. /\ s.phase = "dial" /\ s.requested = replay.value /\ s.epoch = replay.epoch
      /\ s.queue = <<>> /\ s.next = 0
  BY <1>5, <1>6 DEF SourceState
<1>10. Becomes(n, s)
  BY <1>2, <1>4, <1>6 DEF Dial, Becomes, Outside
<1>11. Good(n, s)
  <2>1. Counted(n, s)
    BY <1>3, <1>9 DEF Counted
  <2>2. Channel(s)
    <3>1. Waiting(s.queue) = 0 /\ Len(s.queue) = 0 /\ ChannelSize \in Nat
      BY <1>9, QueueEmpty, SourceRecoveryAssumption
    <3>2. s.requested <= head + 1
      BY <1>2, <1>3, <1>9 DEF CursorInv
    <3> QED
      BY <1>3, <1>9, <3>1, <3>2 DEF Channel
  <2>3. Flows(s)
    BY <1>2, <1>9 DEF Flows, CursorInv
  <2>4. AfterGap(s)
    BY <1>2, <1>9 DEF AfterGap, CursorInv
  <2> QED
    BY <2>1, <2>2, <2>3, <2>4 DEF Good
<1> QED
  BY <1>1, <1>8, <1>10, <1>11, SourceBecomes

\* A stream begins at the cursor, where nothing is missing, or live, which moves the start.
LEMMA ConnectedStep ==
    ASSUME RecoveryInv, NEW n, Connected(n)
    PROVE  RecoveryInv'
<1>1. n \in DOMAIN src /\ src[n].phase = "dial"
  BY DEF Connected, Dialing
<1>2. /\ Records /\ CursorInv /\ src[n] \in SourceState /\ Good(n, src[n])
      /\ left \in [faults : Nat, moves : Nat, edits : Nat]
      /\ live \in [start : Nat, gap : Nat]
  BY <1>1, Facts DEF Records
<1>3. /\ head \in Nat /\ replay.value \in Nat /\ replay.epoch \in Nat /\ sink.finalized \in Nat
      /\ head <= MaxSlot /\ MaxSlot \in Nat /\ sink.finalized <= head
      /\ live.start \in Nat /\ live.gap \in Nat /\ live.gap <= head /\ Finality \in Nat
  BY <1>2, Numbers DEF CursorInv
<1>4. PICK c \in SourceState : c = src[n]
  BY <1>2
<1>5. PICK m : m = StartsAt(n)
  OBVIOUS
<1>6. /\ c.requested \in Nat /\ c.requested <= MaxSlot + 1 /\ c.epoch \in Nat
  BY <1>3, StateFields
<1>7. /\ m = IF c.requested = None THEN head + 1 ELSE c.requested
      /\ m \in 0 .. MaxSlot + 1 /\ m \in Nat
  BY <1>3, <1>4, <1>5, <1>6 DEF StartsAt
<1>8. PICK s : s = [c EXCEPT !.phase = "open", !.queue = <<>>, !.next = m]
  OBVIOUS
<1>9. /\ s \in SourceState
      /\ s.phase = "open" /\ s.queue = <<>> /\ s.next = m
      /\ s.requested = c.requested /\ s.epoch = c.epoch
  <2>1. <<>> \in Seq(Items)
    OBVIOUS
  <2>2. m \in 0 .. MaxSlot + 1
    BY <1>7
  <2>3. [c EXCEPT !.phase = "open", !.queue = <<>>, !.next = m] \in SourceState
    BY <2>1, <2>2 DEF SourceState, Items
  <2>4. /\ s.phase = "open" /\ s.queue = <<>> /\ s.next = m
        /\ s.requested = c.requested /\ s.epoch = c.epoch
    BY <1>8 DEF SourceState
  <2> QED
    BY <1>8, <2>3, <2>4
<1>10. src' = [src EXCEPT ![n] = s]
  BY <1>4, <1>5, <1>8 DEF Connected, Opened
<1>11. Max({live.start, m}) = IF live.start >= m THEN live.start ELSE m
  BY <1>3, <1>7, MaxOfTwo
<1>12. live' = IF c.requested = None /\ c.epoch = replay.epoch
               THEN [live EXCEPT !.start = Max({live.start, m})] ELSE live
  BY <1>4, <1>5 DEF Connected, Stale
<1>13. Starts
  BY <1>2, <1>3, <1>7, <1>11, <1>12 DEF Starts
<1>14. live'.start \in Nat /\ live'.gap = live.gap
  BY <1>13 DEF Starts
<1>15. UNCHANGED <<setup, head, replay, sink, reload, refused, left>>
  BY DEF Connected, Outside
<1>16. Waiting(s.queue) = 0 /\ Len(s.queue) = 0 /\ ChannelSize \in Nat /\ Pos(s) = m
  BY <1>7, <1>9, QueueEmpty, SourceRecoveryAssumption DEF Pos
<1>17. Counted(n, c) /\ Channel(c) /\ Flows(c) /\ AfterGap(c) /\ c.phase = "dial"
  BY <1>1, <1>2, <1>4 DEF Good
<1>18. Counted(n, s)' /\ Channel(s)'
  <2>1. Counted(n, s)'
    BY <1>9, <1>15, <1>17 DEF Counted
  <2>2. c.requested <= head + 1
    BY <1>17 DEF Channel
  <2>3. m <= head + 1
    BY <1>3, <1>6, <1>7, <2>2
  <2> QED
    BY <1>3, <1>9, <1>15, <1>16, <2>1, <2>2, <2>3 DEF Channel
<1>19. Flows(s)'
  <2> SUFFICES ASSUME Current(s) PROVE Flows(s)'
    BY <1>15 DEF Flows, Current
  <2>1. c.requested <= sink.finalized + 1
    BY <1>9, <1>17 DEF Flows, Current
  <2>2. CASE c.requested = None
    <3>2. live' = [live EXCEPT !.start = Max({live.start, m})]
      BY <1>9, <1>12, <2>2 DEF Current
    <3>3. live'.start = Max({live.start, m})
      BY <1>2, <3>2
    <3>1. live'.start >= m /\ live'.start > sink.finalized
      BY <1>3, <1>7, <1>11, <2>2, <3>3
    <3> QED
      BY <1>9, <1>14, <1>15, <1>16, <1>7, <2>1, <3>1 DEF Flows, Ahead
  <2>3. CASE c.requested # None
    <3>1. m <= sink.finalized + 1 /\ live' = live
      BY <1>7, <1>12, <2>1, <2>3
    <3>2. replay.value # None
      BY <1>9, <1>17, <2>3 DEF AfterGap, Current
    <3>3. sink.got = {} => live.start > sink.finalized
      BY <1>2, <3>2 DEF CursorInv
    <3> QED
      BY <1>3, <1>7, <1>9, <1>15, <1>16, <2>1, <3>1, <3>3 DEF Flows, Ahead
  <2> QED
    BY <2>2, <2>3
<1>20. AfterGap(s)'
  <2> SUFFICES ASSUME Current(s) PROVE AfterGap(s)'
    BY <1>15 DEF AfterGap, Current
  <2>1. Current(c)
    BY <1>9, <1>17 DEF Current
  <2> QED
    BY <1>3, <1>6, <1>7, <1>9, <1>14, <1>15, <1>16, <1>17, <2>1 DEF AfterGap
<1>21. Good(n, s)'
  BY <1>18, <1>19, <1>20 DEF Good
<1> QED
  BY <1>1, <1>2, <1>9, <1>10, <1>13, <1>15, <1>21, OneSource

\* A subscription whose stream begins with a refusal.
LEMMA RefusedInStreamStep ==
    ASSUME RecoveryInv, NEW n, RefusedInStream(n)
    PROVE  RecoveryInv'
<1>1. n \in DOMAIN src /\ src[n].phase = "dial" /\ src[n].requested # None
  BY DEF RefusedInStream, Dialing, Available
<1>2. /\ Records /\ CursorInv /\ src[n] \in SourceState /\ Good(n, src[n])
      /\ left \in [faults : Nat, moves : Nat, edits : Nat]
  BY <1>1, Facts
<1>3. /\ head \in Nat /\ sink.finalized \in Nat /\ MaxSlot \in Nat /\ sink.finalized <= head
      /\ live.start \in Nat /\ live.gap \in Nat /\ Finality \in Nat
  BY <1>2, Numbers DEF CursorInv
<1>4. PICK c \in SourceState : c = src[n]
  BY <1>2
<1>5. /\ c.requested \in Nat /\ c.requested \in 0 .. MaxSlot + 1 /\ c.epoch \in Nat
  BY StateFields
<1>6. PICK x : x = Item("rejected", None)
  OBVIOUS
<1>7. x \in Items /\ x.kind = "rejected"
  BY <1>6 DEF Item, Items, None
<1>8. PICK s : s = [c EXCEPT !.phase = "open", !.queue = <<x>>, !.next = c.requested]
  OBVIOUS
<1>9. /\ s \in SourceState
      /\ s.phase = "open" /\ s.queue = <<x>> /\ s.next = c.requested
      /\ s.requested = c.requested /\ s.epoch = c.epoch
  <2>1. <<x>> \in Seq(Items)
    BY <1>7
  <2>2. [c EXCEPT !.phase = "open", !.queue = <<x>>, !.next = c.requested] \in SourceState
    BY <1>5, <2>1 DEF SourceState, Items
  <2>3. /\ s.phase = "open" /\ s.queue = <<x>> /\ s.next = c.requested
        /\ s.requested = c.requested /\ s.epoch = c.epoch
    BY <1>8 DEF SourceState
  <2> QED
    BY <1>8, <2>2, <2>3
<1>10. Becomes(n, s)
  BY <1>1, <1>2, <1>4, <1>6, <1>8 DEF RefusedInStream, Opened, StartsAt, Becomes, Outside
<1>11. Waiting(s.queue) = 0 /\ Len(s.queue) = 1 /\ Pos(s) = c.requested
  <2>1. Waiting(<<x>>) = 0
    BY <1>7 DEF Waiting, Over, Last
  <2> QED
    BY <1>5, <1>9, <2>1 DEF Pos
<1>12. Counted(n, c) /\ Channel(c) /\ Flows(c) /\ AfterGap(c) /\ c.phase = "dial" /\ c.requested # None
  BY <1>1, <1>2, <1>4 DEF Good
<1>13. Counted(n, s) /\ Channel(s)
  <2>1. Counted(n, s)
    BY <1>9, <1>12 DEF Counted
  <2>2. c.requested <= head + 1 /\ ChannelSize >= 1
    BY <1>12, SourceRecoveryAssumption DEF Channel
  <2>3. Channel(s)
    BY <1>9, <1>11, <2>2 DEF Channel
  <2> QED
    BY <2>1, <2>3
<1>14. Flows(s)
  <2> SUFFICES ASSUME Current(s) PROVE Flows(s)
    BY DEF Flows
  <2>1. c.requested <= sink.finalized + 1 /\ replay.value # None
    BY <1>9, <1>12 DEF Flows, AfterGap, Current
  <2>2. sink.got = {} => live.start > sink.finalized
    BY <1>2, <2>1 DEF CursorInv
  <2> QED
    BY <1>3, <1>5, <1>9, <1>11, <2>1, <2>2 DEF Flows, Ahead
<1>15. AfterGap(s)
  BY <1>9, <1>11, <1>12 DEF AfterGap, Current
<1>16. Good(n, s)
  BY <1>13, <1>14, <1>15 DEF Good
<1> QED
  BY <1>1, <1>9, <1>10, <1>16, SourceBecomes

\* An item is appended to the channel: the next slot, or how the stream ended.
LEMMA ChannelGrows ==
    ASSUME RecoveryInv, NEW n \in DOMAIN src, CanSend(n), NEW x \in Items, NEW s,
           \/ /\ x = Item("slot", src[n].next) /\ src[n].next <= head
              /\ s = [src[n] EXCEPT !.queue = Append(@, x), !.next = @ + 1]
           \/ /\ x.kind # "slot"
              /\ s = [src[n] EXCEPT !.queue = Append(@, x)],
           Becomes(n, s)
    PROVE  RecoveryInv'
<1>1. /\ Records /\ src[n] \in SourceState /\ Good(n, src[n])
  BY Facts
<1>2. PICK c \in SourceState : c = src[n]
  BY <1>1
<1>3. /\ c.queue \in Seq(Items) /\ Len(c.queue) \in Nat /\ c.next \in Nat
      /\ c.next \in 0 .. MaxSlot + 1 /\ c.requested \in Nat /\ c.epoch \in Nat
      /\ ~Over(c.queue) /\ Len(c.queue) < ChannelSize /\ ChannelSize \in Nat
  BY <1>2, StateFields, SourceRecoveryAssumption DEF CanSend, Room
<1>4. PICK q : q = Append(c.queue, x)
  OBVIOUS
<1>5. /\ q \in Seq(Items)
      /\ Len(q) = Len(c.queue) + 1
      /\ Waiting(c.queue) = Len(c.queue)
      /\ Waiting(q) = IF x.kind = "slot" THEN Len(c.queue) + 1 ELSE Len(c.queue)
      /\ \A i \in 1 .. Len(c.queue) : q[i] = c.queue[i]
      /\ q[Len(c.queue) + 1] = x
  BY <1>3, <1>4, QueueAppend
<1>6. /\ head \in Nat /\ head <= MaxSlot /\ MaxSlot \in Nat
  BY <1>1, Numbers
<1>next. PICK m : m = IF x.kind = "slot" THEN c.next + 1 ELSE c.next
  OBVIOUS
<1>7.   /\ m \in Nat /\ m \in 0 .. MaxSlot + 1
        /\ s = [c EXCEPT !.queue = q, !.next = m]
        /\ x.kind = "slot" => c.next <= head /\ x = Item("slot", c.next)
  <2>1. CASE x.kind = "slot"
    <3>1. /\ x = Item("slot", c.next) /\ c.next <= head
          /\ s = [c EXCEPT !.queue = q, !.next = c.next + 1]
      BY <1>2, <1>4, <2>1
    <3> QED
      BY <1>3, <1>6, <1>next, <2>1, <3>1
  <2>2. CASE x.kind # "slot"
    <3>1. s = [c EXCEPT !.queue = q]
      BY <1>2, <1>4, <2>2 DEF Item
    <3>2. s = [c EXCEPT !.queue = q, !.next = c.next]
      BY <3>1 DEF SourceState
    <3> QED
      BY <1>3, <1>next, <2>2, <3>2
  <2> QED
    BY <2>1, <2>2
<1>8. /\ s \in SourceState
      /\ s.phase = c.phase /\ s.queue = q /\ s.next = m
      /\ s.requested = c.requested /\ s.epoch = c.epoch
  <2>1. [c EXCEPT !.queue = q, !.next = m] \in SourceState
    BY <1>5, <1>7 DEF SourceState, Items
  <2>2. /\ s.phase = c.phase /\ s.queue = q /\ s.next = m
        /\ s.requested = c.requested /\ s.epoch = c.epoch
    BY <1>7 DEF SourceState
  <2> QED
    BY <1>7, <2>1, <2>2
<1>9. Pos(s) = Pos(c) /\ Pos(c) = c.next - Len(c.queue)
  BY <1>3, <1>5, <1>next, <1>8 DEF Pos
<1>10. Counted(n, c) /\ Channel(c) /\ Flows(c) /\ AfterGap(c)
  BY <1>1, <1>2 DEF Good
<1>11. Channel(s)
  <2>1. \A i \in 1 .. Len(c.queue) : q[i] = Item("slot", Pos(s) + i - 1)
    BY <1>5, <1>9, <1>10 DEF Channel
  <2>2. x.kind = "slot" => x = Item("slot", Pos(s) + (Len(c.queue) + 1) - 1)
    BY <1>3, <1>7, <1>9
  <2>3. \A i \in 1 .. Waiting(q) : q[i] = Item("slot", Pos(s) + i - 1)
    BY <1>3, <1>5, <2>1, <2>2
  <2>4. c.next <= head + 1 /\ c.requested <= head + 1
    BY <1>10 DEF Channel
  <2> QED
    BY <1>3, <1>5, <1>6, <1>7, <1>8, <1>next, <2>3, <2>4 DEF Channel
<1>12. Counted(n, s) /\ Flows(s) /\ AfterGap(s)
  BY <1>8, <1>9, <1>10 DEF Counted, Flows, AfterGap, Current, Ahead
<1> QED
  BY <1>8, <1>11, <1>12, SourceBecomes DEF Good

\* The upstream sends its next slot, or an error when it does not keep it any more.
LEMMA ForwardStep ==
    ASSUME RecoveryInv, NEW n, Forward(n)
    PROVE  RecoveryInv'
<1>1. n \in DOMAIN src /\ CanSend(n) /\ src[n].next <= head
  BY DEF Forward, CanSend, Open
<1>2. src[n] \in SourceState /\ left \in [faults : Nat, moves : Nat, edits : Nat]
  BY <1>1, Facts
<1>3. src[n].next \in Nat
  BY <1>2, StateFields
<1>6. src' = [src EXCEPT ![n] = Forwarded(src[n])]
  BY DEF Forward
<1>4. CASE floor[src[n].up] <= src[n].next
  <2>1. PICK x : x = Item("slot", src[n].next)
    OBVIOUS
  <2>2. x \in Items
    BY <1>3, <2>1 DEF Item, Items
  <2>3. PICK s : s = [src[n] EXCEPT !.queue = Append(@, x), !.next = @ + 1]
    OBVIOUS
  <2>5. src' = [src EXCEPT ![n] = s]
    BY <1>4, <1>6, <2>1, <2>3 DEF Forwarded
  <2>4. Becomes(n, s)
    BY <1>2, <2>5 DEF Forward, Becomes, Outside
  <2> QED
    BY <1>1, <2>1, <2>2, <2>3, <2>4, ChannelGrows
<1>5. CASE ~(floor[src[n].up] <= src[n].next)
  <2>1. PICK x : x = Item("rejected", None)
    OBVIOUS
  <2>2. x \in Items /\ x.kind # "slot"
    BY <2>1 DEF Item, Items, None
  <2>3. PICK s : s = [src[n] EXCEPT !.queue = Append(@, x)]
    OBVIOUS
  <2>5. src' = [src EXCEPT ![n] = s]
    BY <1>5, <1>6, <2>1, <2>3 DEF Forwarded
  <2>4. Becomes(n, s)
    BY <1>2, <2>5 DEF Forward, Becomes, Outside
  <2> QED
    BY <1>1, <2>2, <2>3, <2>4, ChannelGrows
<1> QED
  BY <1>4, <1>5

\* The upstream ends the stream or fails.
LEMMA LoseStep ==
    ASSUME RecoveryInv, NEW n, Lose(n)
    PROVE  RecoveryInv'
<1>1. n \in DOMAIN src /\ CanSend(n) /\ left.faults > 0
  BY DEF Lose, CanSend, Open
<1>2. src[n] \in SourceState /\ left \in [faults : Nat, moves : Nat, edits : Nat]
  BY <1>1, Facts
<1>3. left' \in [faults : Nat, moves : Nat, edits : Nat] /\ left'.edits = left.edits
  BY <1>1, <1>2 DEF Lose
<1>4. PICK kind \in {"closed", "error"} : src' = [src EXCEPT ![n].queue = Append(@, Item(kind, None))]
  BY DEF Lose
<1>5. PICK x : x = Item(kind, None)
  OBVIOUS
<1>6. x \in Items /\ x.kind # "slot"
  BY <1>5 DEF Item, Items, None
<1>7. PICK s : s = [src[n] EXCEPT !.queue = Append(@, x)]
  OBVIOUS
<1>8. Becomes(n, s)
  BY <1>3, <1>4, <1>5, <1>7 DEF Lose, Becomes, Outside
<1> QED
  BY <1>1, <1>6, <1>7, <1>8, ChannelGrows

\* A step that changes nothing the invariant speaks of.
Idles ==
    /\ UNCHANGED <<setup, head, replay, src, sink, reload, refused, live>>
    /\ left' \in [faults : Nat, moves : Nat, edits : Nat] /\ left'.edits = left.edits

\* Such a step keeps the invariant.
LEMMA IdleStep ==
    ASSUME RecoveryInv, Idles
    PROVE  RecoveryInv'
<1>1. /\ Records /\ ReloadInv /\ CountInv /\ CursorInv
      /\ NoSilentGap /\ AfterGapOnlyLive
      /\ src \in [DOMAIN src -> SourceState]
      /\ \A k \in DOMAIN src : Good(k, src[k])
  BY DEF RecoveryInv
<1>2. Records' /\ ReloadInv' /\ CountInv' /\ CursorInv' /\ NoSilentGap' /\ AfterGapOnlyLive'
  BY <1>1 DEF Idles, Records, ReloadInv, CountInv, CursorInv, NoSilentGap, AfterGapOnlyLive
<1>3. ASSUME NEW k \in DOMAIN src' PROVE Good(k, src[k])'
  <2>1. Good(k, src[k]) /\ k \in DOMAIN src
    BY <1>1, <1>3 DEF Idles
  <2> QED
    BY <2>1 DEF Idles, Good, Counted, Channel, Flows, AfterGap, Current, Ahead
<1> QED
  BY <1>1, <1>2, <1>3 DEF RecoveryInv, Idles

\* A connection that was lost is tried again, or ends the process.
LEMMA RetryStep ==
    ASSUME RecoveryInv, NEW n \in DOMAIN src, NEW verdict, Retry(n, verdict), UNCHANGED Outside,
           left' \in [faults : Nat, moves : Nat, edits : Nat], left'.edits = left.edits
    PROVE  RecoveryInv'
<1>1. CASE Reconnects(n)
  <2>1. Becomes(n, Closed(src[n]))
    BY <1>1 DEF Retry, Becomes, Outside
  <2> QED
    BY <2>1, SourceCloses
<1>2. CASE ~Reconnects(n)
  <2>1. Idles
    BY <1>2 DEF Retry, Idles, Outside
  <2> QED
    BY <2>1, IdleStep
<1> QED
  BY <1>1, <1>2

\* A subscription that fails is tried again, or ends the process.
LEMMA DialFailsStep ==
    ASSUME RecoveryInv, NEW n, DialFails(n)
    PROVE  RecoveryInv'
<1>1. n \in DOMAIN src /\ left.faults > 0
  BY DEF DialFails, Dialing
<1>2. left \in [faults : Nat, moves : Nat, edits : Nat]
  BY <1>1, Facts
<1>3. left' \in [faults : Nat, moves : Nat, edits : Nat] /\ left'.edits = left.edits
  BY <1>1, <1>2 DEF DialFails
<1> QED
  BY <1>1, <1>3, RetryStep DEF DialFails

\* The history that an upstream keeps is nothing the server knows of.
LEMMA MoveStep ==
    ASSUME RecoveryInv, NEW u, Move(u)
    PROVE  RecoveryInv'
<1>1. left \in [faults : Nat, moves : Nat, edits : Nat] /\ left.moves > 0
  BY DEF RecoveryInv, Records, Move
<1>2. Idles
  BY <1>1 DEF Idles, Move
<1> QED
  BY <1>2, IdleStep

\* The cluster goes on.
LEMMA AdvanceStep ==
    ASSUME RecoveryInv, Advance
    PROVE  RecoveryInv'
<1>1. /\ Records /\ ReloadInv /\ CountInv /\ CursorInv
      /\ NoSilentGap /\ AfterGapOnlyLive
      /\ src \in [DOMAIN src -> SourceState]
      /\ \A k \in DOMAIN src : Good(k, src[k])
  BY DEF RecoveryInv
<1>2. /\ head \in Nat /\ sink.finalized \in Nat /\ live.gap \in Nat /\ head' = head + 1
      /\ UNCHANGED <<setup, left, replay, src, sink, reload, live, refused>>
  BY <1>1, Numbers DEF Advance
<1>3. Records'
  BY <1>1, SourceRecoveryAssumption DEF Advance, Records
<1>4. ReloadInv' /\ CountInv' /\ NoSilentGap' /\ AfterGapOnlyLive'
  BY <1>1, <1>2 DEF ReloadInv, CountInv, NoSilentGap, AfterGapOnlyLive
<1>5. CursorInv'
  BY <1>1, <1>2 DEF CursorInv
<1>6. ASSUME NEW k \in DOMAIN src' PROVE Good(k, src[k])'
  <2>1. Good(k, src[k]) /\ k \in DOMAIN src /\ src[k] \in SourceState
    BY <1>1, <1>2, <1>6
  <2>2. src[k].next \in Nat /\ src[k].requested \in Nat
    BY <2>1, StateFields
  <2>3. Channel(src[k])'
    BY <1>2, <2>1, <2>2 DEF Good, Channel, Pos
  <2>4. Counted(k, src[k])' /\ Flows(src[k])' /\ AfterGap(src[k])'
    BY <1>2, <2>1 DEF Good, Counted, Flows, AfterGap, Current, Ahead
  <2> QED
    BY <2>3, <2>4 DEF Good
<1> QED
  BY <1>1, <1>2, <1>3, <1>4, <1>5, <1>6 DEF RecoveryInv

-----------------------------------------------------------------------------
(* Sender::push *)

\* What the sender and the cursor become when slot m is taken.
Takes(m) ==
    /\ sink' \in [got : SUBSET Nat, finalized : Nat]
    /\ sink'.got = IF m > sink.finalized THEN sink.got \cup {m} ELSE sink.got
    /\ replay' \in [value : Nat, failed : SUBSET Names, epoch : Nat, total : Nat]
    /\ replay'.epoch = replay.epoch /\ replay'.total = replay.total
    /\ \/ m - Finality <= sink.finalized /\ sink'.finalized = sink.finalized /\ replay' = replay
       \/ /\ m - Finality > sink.finalized /\ sink'.finalized = m - Finality
          /\ replay'.value = m - Finality + 1 /\ replay'.failed = {}

\* Sender::push and Store: the cursor moves with the last finalized slot.
LEMMA PushTakes ==
    ASSUME Records, CursorInv, NEW m \in Nat, sink' = Take(sink, m),
           replay' = Cursor(replay, sink, sink')
    PROVE  Takes(m)
<1>1. /\ sink.finalized \in Nat /\ sink.got \subseteq Nat /\ replay.value \in Nat /\ Finality \in Nat \ {0}
      /\ replay.value <= sink.finalized + 1
      /\ replay \in [value : Nat, failed : SUBSET Names, epoch : Nat, total : Nat]
  BY Numbers DEF CursorInv, Records
<1>2. Max({sink.finalized, m - Finality})
        = IF sink.finalized >= m - Finality THEN sink.finalized ELSE m - Finality
  BY <1>1, MaxOfTwo
<1>3. /\ sink' \in [got : SUBSET Nat, finalized : Nat]
      /\ sink'.got = IF m > sink.finalized THEN sink.got \cup {m} ELSE sink.got
      /\ sink'.finalized = IF sink.finalized >= m - Finality THEN sink.finalized ELSE m - Finality
  BY <1>1, <1>2 DEF Take
<1>4. CASE m - Finality <= sink.finalized
  BY <1>1, <1>3, <1>4 DEF Takes, Cursor
<1>5. CASE m - Finality > sink.finalized
  <2>1. sink'.finalized = m - Finality /\ replay' = Store(replay, m - Finality + 1)
    BY <1>1, <1>3, <1>5 DEF Cursor
  <2>2. PICK a \in Nat : a = m - Finality + 1
    BY <1>1, <1>5
  <2>3. Max({replay.value, a}) = a /\ ~(a <= replay.value)
    BY <1>1, <1>5, <2>2, MaxOfTwo
  <2>4. replay' = [replay EXCEPT !.failed = {}, !.value = a]
    BY <2>1, <2>2, <2>3 DEF Store
  <2>5. /\ replay' \in [value : Nat, failed : SUBSET Names, epoch : Nat, total : Nat]
        /\ replay'.epoch = replay.epoch /\ replay'.total = replay.total
        /\ replay'.value = a /\ replay'.failed = {}
    BY <1>1, <2>2, <2>4
  <2> QED
    BY <1>3, <1>5, <2>1, <2>2, <2>5 DEF Takes
<1> QED
  BY <1>1, <1>4, <1>5

\* A stream that does not take m keeps its place.
LEMMA OtherStream ==
    ASSUME Records, CursorInv, NEW m \in Nat, Takes(m), UNCHANGED <<head, live>>,
           NEW k, NEW t \in SourceState, Good(k, t)
    PROVE  Good(k, t)'
<1>1. /\ sink.finalized \in Nat /\ sink.got \subseteq Nat /\ replay.value \in Nat /\ Finality \in Nat \ {0}
      /\ replay.value <= sink.finalized + 1 /\ live.start \in Nat
      /\ t.requested \in Nat /\ Pos(t) \in Int /\ sink'.finalized \in Nat
  BY Numbers, StateFields DEF CursorInv, Takes
<1>2. Counted(k, t)'
  BY <1>1 DEF Good, Counted, Takes
<1>3. Channel(t)'
  BY DEF Good, Channel
<1>4. sink'.finalized >= sink.finalized /\ sink.got \subseteq sink'.got
  BY <1>1 DEF Takes
<1>5. sink'.got = {} => sink.got = {} /\ sink'.finalized = sink.finalized
  BY <1>1 DEF Takes
<1>6. Flows(t)'
  <2> SUFFICES ASSUME Current(t) PROVE Flows(t)'
    BY DEF Flows, Current, Takes
  <2>1. /\ t.requested <= sink.finalized + 1
        /\ t.phase = "open" => Ahead(t) /\ (sink.got = {} => live.start > sink.finalized)
    BY DEF Good, Flows
  <2> QED
    BY <1>1, <1>4, <1>5, <2>1 DEF Flows, Ahead
<1>7. AfterGap(t)'
  <2> SUFFICES ASSUME Current(t) PROVE AfterGap(t)'
    BY DEF AfterGap, Current, Takes
  <2>1. replay'.value = None => replay.value = None
    BY <1>1 DEF Takes, None
  <2> QED
    BY <2>1 DEF Good, AfterGap
<1> QED
  BY <1>2, <1>3, <1>6, <1>7 DEF Good

\* The sender takes the slot at which the stream is: no slot before it is missing.
LEMMA PushStep ==
    ASSUME RecoveryInv, NEW n, Push(n)
    PROVE  RecoveryInv'
<1>1. /\ n \in DOMAIN src /\ src[n].phase = "open" /\ src[n].epoch = replay.epoch
      /\ src[n].queue # <<>> /\ Head(src[n].queue).kind = "slot"
  BY DEF Push, Ready, Open, Stale
<1>2. /\ Records /\ ReloadInv /\ CountInv /\ CursorInv
      /\ NoSilentGap /\ AfterGapOnlyLive
      /\ src \in [DOMAIN src -> SourceState]
      /\ \A k \in DOMAIN src : Good(k, src[k])
  BY DEF RecoveryInv
<1>3. PICK c \in SourceState : c = src[n]
  BY <1>1, <1>2
<1>4. /\ c.queue \in Seq(Items) /\ Len(c.queue) \in Nat /\ c.next \in Nat /\ c.requested \in Nat
      /\ Pos(c) \in Int
  BY StateFields
<1>5. /\ Tail(c.queue) \in Seq(Items) /\ Len(Tail(c.queue)) = Len(c.queue) - 1
      /\ Waiting(c.queue) >= 1 /\ Waiting(c.queue) \in Nat
      /\ Waiting(Tail(c.queue)) = Waiting(c.queue) - 1
      /\ \A i \in 1 .. Waiting(Tail(c.queue)) : Tail(c.queue)[i] = c.queue[i + 1]
  BY <1>1, <1>3, <1>4, QueueTail
<1>6. Counted(n, c) /\ Channel(c) /\ Flows(c) /\ AfterGap(c) /\ Current(c) /\ c.phase = "open"
  BY <1>1, <1>2, <1>3 DEF Good, Current
<1>7. PICK m : m = Head(c.queue).slot
  OBVIOUS
<1>8. m = Pos(c) /\ m \in Nat
  <2>1. Head(c.queue) = c.queue[1] /\ Head(c.queue) \in Items
    BY <1>1, <1>3, <1>4
  <2>2. c.queue[1] = Item("slot", Pos(c) + 1 - 1)
    BY <1>5, <1>6 DEF Channel
  <2> QED
    BY <1>4, <1>7, <2>1, <2>2 DEF Item, Items
<1>9. UNCHANGED <<setup, head, reload, left, live, refused>>
  BY DEF Push, Outside
<1>10. Takes(m)
  <2>1. sink' = Take(sink, m) /\ replay' = Cursor(replay, sink, sink')
    BY <1>3, <1>7 DEF Push
  <2> QED
    BY <1>2, <1>8, <2>1, PushTakes
<1>11. /\ head \in Nat /\ replay.value \in Nat /\ sink.finalized \in Nat /\ sink.got \subseteq Nat
       /\ live.start \in Nat /\ live.gap \in Nat /\ Finality \in Nat \ {0}
       /\ sink.finalized <= head /\ replay.value <= sink.finalized + 1
       /\ sink'.finalized \in Nat
  BY <1>2, <1>10, Numbers DEF CursorInv, Takes
<1>12. m <= head
  BY <1>4, <1>5, <1>6, <1>8, <1>11 DEF Channel, Pos
<1>13. /\ sink'.finalized >= sink.finalized /\ sink.got \subseteq sink'.got
       /\ sink'.got = {} => sink.got = {} /\ sink'.finalized = sink.finalized /\ replay' = replay
  BY <1>8, <1>10, <1>11 DEF Takes
<1>14. PICK s : s = [c EXCEPT !.queue = Tail(c.queue)]
  OBVIOUS
<1>15. /\ s \in SourceState
       /\ s.phase = c.phase /\ s.queue = Tail(c.queue) /\ s.next = c.next
       /\ s.requested = c.requested /\ s.epoch = c.epoch
  <2>1. [c EXCEPT !.queue = Tail(c.queue)] \in SourceState
    BY <1>5 DEF SourceState, Items
  <2>2. /\ s.phase = c.phase /\ s.queue = Tail(c.queue) /\ s.next = c.next
        /\ s.requested = c.requested /\ s.epoch = c.epoch
    BY <1>14 DEF SourceState
  <2> QED
    BY <1>14, <2>1, <2>2
<1>16. src' = [src EXCEPT ![n] = s] /\ DOMAIN src' = DOMAIN src
  BY <1>3, <1>14 DEF Push
<1>17. Records' /\ ReloadInv'
  <2>1. Records'
    BY <1>2, <1>9, <1>10 DEF Records, Takes
  <2> QED
    BY <1>2, <1>9, <1>16, <2>1 DEF ReloadInv
<1>18. CountInv'
  BY <1>2, <1>9, <1>10, <1>16 DEF CountInv, Takes
<1>19. replay.value = None => c.requested = None
  BY <1>6 DEF AfterGap
<1>20. live.gap # 0 => m > live.gap - Finality /\ (c.requested = None => m > live.gap)
  BY <1>6, <1>8, <1>11 DEF AfterGap
<1>21. CursorInv'
  <2>1. sink'.finalized <= head /\ replay'.value <= sink'.finalized + 1
    BY <1>8, <1>10, <1>11, <1>12 DEF Takes
  <2>2. sink'.got = {} /\ replay'.value # None => live.start > sink'.finalized
    BY <1>2, <1>13 DEF CursorInv
  <2>3. live.gap # 0 /\ replay'.value # None => replay'.value > live.gap - Finality
    BY <1>2, <1>8, <1>10, <1>11, <1>19, <1>20 DEF CursorInv, Takes, None
  <2> QED
    BY <1>2, <1>9, <2>1, <2>2, <2>3 DEF CursorInv
<1>22. AfterGapOnlyLive'
  BY <1>2, <1>9, <1>10, <1>20 DEF AfterGapOnlyLive, Takes
<1>23. NoSilentGap'
  <2>1. Max({live.start, 1}) = IF live.start >= 1 THEN live.start ELSE 1
    BY <1>11, MaxOfTwo
  <2>2. PICK b \in Nat : b = Max({live.start, 1}) /\ b >= live.start
    BY <1>11, <2>1
  <2>3. ASSUME NEW k \in b .. sink'.finalized PROVE k \in sink'.got
    <3>1. k \in Nat /\ k >= live.start /\ k <= sink'.finalized /\ k >= b
      BY <1>11, <2>2, <2>3
    <3>2. CASE k > sink.finalized
      <4>1. k < Pos(c)
        BY <1>8, <1>10, <1>11, <3>1, <3>2 DEF Takes
      <4>2. k \in live.start .. Pos(c) - 1
        BY <1>4, <1>11, <3>1, <4>1
      <4> QED
        BY <1>6, <1>13, <3>2, <4>2 DEF Flows, Ahead
    <3>3. CASE ~(k > sink.finalized)
      <4>1. sink.got # {}
        BY <1>6, <1>11, <3>1, <3>3 DEF Flows
      <4>2. k \in Max({live.start, 1}) .. sink.finalized
        BY <1>11, <2>2, <3>1, <3>3
      <4> QED
        BY <1>2, <1>13, <4>1, <4>2 DEF NoSilentGap
    <3> QED
      BY <3>2, <3>3
  <2> QED
    BY <1>9, <2>2, <2>3 DEF NoSilentGap
<1>24. Good(n, s)'
  <2>1. Pos(s) = Pos(c) + 1
    BY <1>4, <1>5, <1>15 DEF Pos
  <2>2. Good(n, c)'
    BY <1>2, <1>3, <1>1, <1>8, <1>9, <1>10, OtherStream
  <2>3. Counted(n, s)'
    BY <1>15, <2>2 DEF Good, Counted
  <2>4. Channel(s)'
    <3>1. \A i \in 1 .. Waiting(Tail(c.queue)) : Tail(c.queue)[i] = Item("slot", Pos(s) + i - 1)
      <4>1. \A i \in 1 .. Waiting(c.queue) : c.queue[i] = Item("slot", Pos(c) + i - 1)
        BY <1>6 DEF Channel
      <4>3. PICK v \in Nat, w \in Nat, p \in Int :
              /\ v = Waiting(Tail(c.queue)) /\ w = Waiting(c.queue) /\ p = Pos(c)
              /\ v = w - 1 /\ Pos(s) = p + 1
        BY <1>4, <1>5, <2>1
      <4>4. \A i \in 1 .. v : i + 1 \in 1 .. w /\ p + (i + 1) - 1 = (p + 1) + i - 1
        BY <4>3
      <4>2. \A i \in 1 .. Waiting(Tail(c.queue)) :
              /\ i + 1 \in 1 .. Waiting(c.queue)
              /\ Pos(c) + (i + 1) - 1 = Pos(s) + i - 1
        BY <4>3, <4>4
      <4> QED
        BY <1>5, <4>1, <4>2
    <3>2. Len(c.queue) <= ChannelSize /\ c.next <= head + 1 /\ c.requested <= head + 1
      BY <1>6 DEF Channel
    <3>3. Len(Tail(c.queue)) <= ChannelSize
      BY <1>4, <1>5, <3>2, SourceRecoveryAssumption
    <3> QED
      BY <1>9, <1>15, <3>1, <3>2, <3>3 DEF Channel
  <2>5. Flows(s)'
    <3>1. Ahead(s)'
      <4> SUFFICES ASSUME NEW k \in live.start .. Pos(s) - 1, k > sink'.finalized
                   PROVE  k \in sink'.got
        BY <1>9 DEF Ahead
      <4>1. CASE k = m
        BY <1>10, <1>11, <1>8, <1>13, <4>1 DEF Takes
      <4>2. CASE k # m
        <5>1. k \in live.start .. Pos(c) - 1 /\ k > sink.finalized
          BY <1>4, <1>8, <1>11, <1>13, <2>1, <4>2
        <5> QED
          BY <1>6, <1>13, <5>1 DEF Flows, Ahead
      <4> QED
        BY <4>1, <4>2
    <3> QED
      BY <1>15, <2>2, <3>1 DEF Good, Flows, Current
  <2>6. AfterGap(s)'
    BY <1>4, <1>11, <1>9, <1>15, <2>1, <2>2 DEF Good, AfterGap, Current
  <2> QED
    BY <2>3, <2>4, <2>5, <2>6 DEF Good
<1>25. ASSUME NEW k \in DOMAIN src' PROVE Good(k, src[k])'
  <2>1. CASE k = n
    BY <1>1, <1>16, <1>24, <2>1
  <2>2. CASE k # n
    <3>1. PICK t \in SourceState : t = src[k] /\ src'[k] = t /\ Good(k, t)
      BY <1>2, <1>16, <1>25, <2>2
    <3>2. Good(k, t)'
      BY <1>2, <1>8, <1>9, <1>10, <3>1, OtherStream
    <3> QED
      BY <3>1, <3>2
  <2> QED
    BY <2>1, <2>2
<1>26. src' \in [DOMAIN src' -> SourceState]
  BY <1>2, <1>15, <1>16
<1> QED
  BY <1>17, <1>18, <1>21, <1>22, <1>23, <1>25, <1>26 DEF RecoveryInv

-----------------------------------------------------------------------------
(* fallback_to_live *)

\* A refusal that does not end the epoch: it is counted when it refuses the current cursor.
LEMMA RefusalHeard ==
    ASSUME RecoveryInv, NEW n \in DOMAIN src, src[n].phase # "idle",
           src' = [src EXCEPT ![n] = Closed(src[n])],
           refused' = [refused EXCEPT ![n] = <<src[n].requested, src[n].epoch>>],
           UNCHANGED <<setup, head, reload, left, sink, live>>,
           \/ replay' = replay
           \/ /\ replay' = Refuse(replay, n)
              /\ Counts(replay, src[n].requested, src[n].epoch)
    PROVE  RecoveryInv'
<1>1. /\ Records /\ ReloadInv /\ CountInv /\ CursorInv
      /\ NoSilentGap /\ AfterGapOnlyLive
      /\ src \in [DOMAIN src -> SourceState]
      /\ \A k \in DOMAIN src : Good(k, src[k])
      /\ replay \in [value : Nat, failed : SUBSET Names, epoch : Nat, total : Nat]
      /\ refused \in [Names -> Nat \X Nat]
  BY DEF RecoveryInv, Records
<1>2. n \in Names /\ DOMAIN src \subseteq Names
  BY <1>1 DEF ReloadInv
<1>3. PICK c \in SourceState : c = src[n]
  BY <1>1
<1>4. c.requested \in Nat /\ c.epoch \in Nat
  BY StateFields
<1>5. /\ replay' \in [value : Nat, failed : SUBSET Names, epoch : Nat, total : Nat]
      /\ replay'.value = replay.value /\ replay'.epoch = replay.epoch
      /\ replay'.total = replay.total
      /\ \/ replay'.failed = replay.failed
         \/ /\ replay'.failed = replay.failed \cup {n}
            /\ c.requested = replay.value /\ c.epoch = replay.epoch
  <2>1. CASE replay' = replay
    BY <1>1, <2>1
  <2>2. CASE /\ replay' = Refuse(replay, n)
             /\ Counts(replay, src[n].requested, src[n].epoch)
    <3>1. c.requested = replay.value /\ c.epoch = replay.epoch
      BY <1>3, <2>2 DEF Counts
    <3>2. replay' = [replay EXCEPT !.failed = replay.failed \cup {n}]
      BY <2>2 DEF Refuse
    <3> QED
      BY <1>1, <1>2, <3>1, <3>2
  <2> QED
    BY <2>1, <2>2
<1>6. DOMAIN src' = DOMAIN src
  OBVIOUS
<1>7. refused' \in [Names -> Nat \X Nat]
  BY <1>1, <1>3, <1>4
<1>8. Records' /\ ReloadInv'
  <2>1. Records'
    BY <1>1, <1>5, <1>7 DEF Records
  <2> QED
    BY <1>1, <1>6, <2>1 DEF ReloadInv
<1>9. CountInv'
  <2>1. replay'.failed \subseteq DOMAIN src' /\ replay'.total = Cardinality(DOMAIN src')
    BY <1>1, <1>5, <1>6 DEF CountInv
  <2>2. ASSUME NEW k \in replay'.failed PROVE refused'[k] = <<replay'.value, replay'.epoch>>
    <3>1. CASE k = n
      <4>1. refused'[n] = <<c.requested, c.epoch>>
        BY <1>1, <1>2, <1>3
      <4>2. Counted(n, c) /\ c.phase # "idle"
        BY <1>1, <1>3 DEF Good
      <4>3. c.requested = replay.value /\ c.epoch = replay.epoch
        BY <1>5, <2>2, <3>1, <4>2 DEF Counted
      <4> QED
        BY <1>5, <3>1, <4>1, <4>3
    <3>2. CASE k # n
      <4>1. k \in replay.failed
        BY <1>5, <2>2, <3>2
      <4>2. refused[k] = <<replay.value, replay.epoch>> /\ k \in Names
        BY <1>1, <1>2, <4>1 DEF CountInv
      <4> QED
        BY <1>1, <1>5, <3>2, <4>2
    <3> QED
      BY <3>1, <3>2
  <2> QED
    BY <2>1, <2>2 DEF CountInv
<1>10. CursorInv' /\ NoSilentGap' /\ AfterGapOnlyLive'
  BY <1>1, <1>5 DEF CursorInv, NoSilentGap, AfterGapOnlyLive
<1>11. ASSUME NEW k \in DOMAIN src' PROVE src'[k] \in SourceState /\ Good(k, src[k])'
  <2>1. CASE k = n
    <3>1. PICK t : t = Closed(c)
      OBVIOUS
    <3>2. c.epoch <= replay.epoch /\ c.requested <= head + 1
      BY <1>1, <1>3 DEF Good, Counted, Channel
    <3>3. /\ t \in SourceState /\ t.phase = "idle" /\ t.queue = <<>> /\ t.next = 0
          /\ t.epoch <= replay.epoch /\ t.requested <= head + 1
      BY <3>1, <3>2, ClosedState
    <3>4. Good(k, t)
      BY <1>1, <3>3, IdleState
    <3>5. Good(k, t)'
      BY <1>5, <3>3, <3>4 DEF Good, Counted, Channel, Flows, AfterGap, Current
    <3>6. src'[k] = t
      BY <1>3, <2>1, <3>1
    <3> QED
      BY <3>3, <3>5, <3>6
  <2>2. CASE k # n
    <3>1. PICK t \in SourceState : t = src[k] /\ src'[k] = t /\ Good(k, t)
      BY <1>1, <1>6, <1>11, <2>2
    <3>2. Good(k, t)'
      BY <1>5, <2>2, <3>1 DEF Good, Counted, Channel, Flows, AfterGap, Current, Ahead
    <3> QED
      BY <3>1, <3>2
  <2> QED
    BY <2>1, <2>2
<1> QED
  BY <1>6, <1>8, <1>9, <1>10, <1>11 DEF RecoveryInv

\* The last refusal: a new epoch begins, to which no stream belongs.
LEMMA EpochBegins ==
    ASSUME RecoveryInv, NEW n \in DOMAIN src,
           src' = [src EXCEPT ![n] = Closed(src[n])],
           refused' = [refused EXCEPT ![n] = <<src[n].requested, src[n].epoch>>],
           UNCHANGED <<setup, head, reload, left>>,
           replay' = GoLive(Refuse(replay, n)),
           sink' = BeginLiveEpoch(sink), live' = [start |-> 0, gap |-> head]
    PROVE  RecoveryInv'
<1>1. /\ Records /\ ReloadInv /\ CountInv /\ CursorInv
      /\ src \in [DOMAIN src -> SourceState]
      /\ \A k \in DOMAIN src : Good(k, src[k])
      /\ replay \in [value : Nat, failed : SUBSET Names, epoch : Nat, total : Nat]
      /\ sink \in [got : SUBSET Nat, finalized : Nat] /\ head \in Nat
      /\ refused \in [Names -> Nat \X Nat]
  BY SourceRecoveryAssumption DEF RecoveryInv, Records
<1>2. n \in Names /\ DOMAIN src \subseteq Names
  BY <1>1 DEF ReloadInv
<1>3. PICK c \in SourceState : c = src[n]
  BY <1>1
<1>4. c.requested \in Nat /\ c.epoch \in Nat
  BY StateFields
<1>5. /\ replay' \in [value : Nat, failed : SUBSET Names, epoch : Nat, total : Nat]
      /\ replay'.value = 0 /\ replay'.epoch = replay.epoch + 1
      /\ replay'.total = replay.total /\ replay'.failed = {}
  <2>1. PICK r : r = Refuse(replay, n)
    OBVIOUS
  <2>2. /\ r \in [value : Nat, failed : SUBSET Names, epoch : Nat, total : Nat]
        /\ r.epoch = replay.epoch /\ r.total = replay.total
    BY <1>1, <1>2, <2>1 DEF Refuse
  <2>3. replay' = [r EXCEPT !.value = 0, !.epoch = r.epoch + 1, !.failed = {}]
    BY <2>1 DEF GoLive, None
  <2>4. PICK e \in Nat : e = r.epoch + 1 /\ e = replay.epoch + 1
    BY <1>1, <2>2
  <2>5. replay' = [r EXCEPT !.value = 0, !.epoch = e, !.failed = {}]
    BY <2>3, <2>4
  <2>6. /\ replay'.value = 0 /\ replay'.epoch = e
        /\ replay'.total = r.total /\ replay'.failed = {}
    BY <2>2, <2>5
  <2>7. replay' \in [value : Nat, failed : SUBSET Names, epoch : Nat, total : Nat]
    <3>1. replay' = [value |-> 0, failed |-> {}, epoch |-> e, total |-> r.total]
      BY <2>2, <2>5
    <3>2. r.total \in Nat /\ e \in Nat /\ {} \in SUBSET Names
      BY <2>2, <2>4
    <3> QED
      BY <3>1, <3>2
  <2> QED
    BY <2>2, <2>4, <2>6, <2>7
<1>6. DOMAIN src' = DOMAIN src
  OBVIOUS
<1>7. /\ sink' \in [got : SUBSET Nat, finalized : Nat]
      /\ sink'.got = {} /\ sink'.finalized = sink.finalized
  BY <1>1 DEF BeginLiveEpoch
<1>8. live' \in [start : Nat, gap : Nat] /\ live'.gap = head
  BY <1>1
<1>9. refused' \in [Names -> Nat \X Nat]
  BY <1>1, <1>3, <1>4
<1>10. Records' /\ ReloadInv'
  <2>1. Records'
    BY <1>1, <1>5, <1>7, <1>8, <1>9 DEF Records
  <2> QED
    BY <1>1, <1>6, <2>1 DEF ReloadInv
<1>11. CountInv'
  BY <1>1, <1>5, <1>6 DEF CountInv
<1>12. CursorInv'
  BY <1>1, <1>5, <1>7, <1>8 DEF CursorInv, None
<1>13. NoSilentGap' /\ AfterGapOnlyLive'
  BY <1>7 DEF NoSilentGap, AfterGapOnlyLive
<1>14. ASSUME NEW k, NEW t \in SourceState, t.epoch <= replay.epoch, Channel(t) PROVE Good(k, t)'
  <2>1. t.epoch \in Nat /\ replay.epoch \in Nat
    BY <1>1, StateFields
  <2>2. Counted(k, t)'
    BY <1>5, <1>14, <2>1 DEF Counted
  <2>3. Channel(t)'
    BY <1>14 DEF Channel
  <2>4. Flows(t)' /\ AfterGap(t)'
    BY <1>5, <1>14, <2>1 DEF Flows, AfterGap, Current
  <2> QED
    BY <2>2, <2>3, <2>4 DEF Good
<1>15. ASSUME NEW k \in DOMAIN src' PROVE src'[k] \in SourceState /\ Good(k, src[k])'
  <2>1. CASE k = n
    <3>1. PICK t : t = Closed(c)
      OBVIOUS
    <3>2. c.epoch <= replay.epoch /\ c.requested <= head + 1
      BY <1>1, <1>3 DEF Good, Counted, Channel
    <3>3. /\ t \in SourceState /\ t.phase = "idle" /\ t.queue = <<>> /\ t.next = 0
          /\ t.epoch <= replay.epoch /\ t.requested <= head + 1
      BY <3>1, <3>2, ClosedState
    <3>4. Channel(t)
      BY <1>1, <3>3, IdleState DEF Good
    <3>5. Good(k, t)'
      BY <1>14, <3>3, <3>4
    <3>6. src'[k] = t
      BY <1>3, <2>1, <3>1
    <3> QED
      BY <3>3, <3>5, <3>6
  <2>2. CASE k # n
    <3>1. PICK t \in SourceState : t = src[k] /\ src'[k] = t /\ Good(k, t)
      BY <1>1, <1>6, <1>15, <2>2
    <3>2. Good(k, t)'
      BY <1>14, <3>1 DEF Good, Counted
    <3> QED
      BY <3>1, <3>2
  <2> QED
    BY <2>1, <2>2
<1> QED
  BY <1>6, <1>10, <1>11, <1>12, <1>13, <1>15 DEF RecoveryInv

\* A refusal, and what it may end: every source has refused the cursor as it is.
LEMMA RefusalStep ==
    ASSUME RecoveryInv, NEW n \in DOMAIN src, src[n].phase # "idle",
           Refusal(n, Refuse(replay, n)), UNCHANGED <<Outside, left>>
    PROVE  /\ RecoveryInv'
           /\ replay'.epoch # replay.epoch =>
                 \A k \in DOMAIN src : refused'[k] = <<replay.value, replay.epoch>>
<1>1. /\ refused' = [refused EXCEPT ![n] = <<src[n].requested, src[n].epoch>>]
      /\ src' = [src EXCEPT ![n] = Closed(src[n])]
      /\ UNCHANGED <<setup, head, reload, left>>
  BY DEF Refusal, Outside
<1>2. CASE Counts(replay, src[n].requested, src[n].epoch) /\ AllRefused(Refuse(replay, n))
  <2>1. /\ replay' = GoLive(Refuse(replay, n))
        /\ sink' = BeginLiveEpoch(sink) /\ live' = [start |-> 0, gap |-> head]
    BY <1>2 DEF Refusal
  <2>2. RecoveryInv'
    BY <1>1, <2>1, EpochBegins
  <2>3. /\ CountInv /\ ReloadInv /\ refused \in [Names -> Nat \X Nat]
        /\ replay \in [value : Nat, failed : SUBSET Names, epoch : Nat, total : Nat]
    BY DEF RecoveryInv, Records
  <2>4. PICK F : F = replay.failed \cup {n}
    OBVIOUS
  <2>5. F \subseteq DOMAIN src /\ DOMAIN src \in (SUBSET Names) \ {{}}
    BY <2>3, <2>4 DEF CountInv, ReloadInv
  <2>6. Cardinality(F) >= Cardinality(DOMAIN src)
    BY <1>2, <2>3, <2>4 DEF AllRefused, Refuse, CountInv
  <2>7. IsFiniteSet(DOMAIN src) /\ Cardinality(DOMAIN src) \in Nat
    BY <2>5, SomeSources
  <2>8. F = DOMAIN src
    <3>1. Cardinality(F) <= Cardinality(DOMAIN src) /\ IsFiniteSet(F)
          /\ (Cardinality(F) = Cardinality(DOMAIN src) => F = DOMAIN src)
      BY <2>5, <2>7, FS_Subset
    <3>2. Cardinality(F) \in Nat
      BY <3>1, FS_CardinalityType
    <3> QED
      BY <2>6, <2>7, <3>1, <3>2
  <2>9. ASSUME NEW k \in DOMAIN src PROVE refused'[k] = <<replay.value, replay.epoch>>
    <3>1. k \in Names /\ n \in Names
      BY <2>5
    <3>2. CASE k = n
      BY <1>1, <1>2, <2>3, <3>1, <3>2 DEF Counts
    <3>3. CASE k # n
      <4>1. k \in replay.failed
        BY <2>4, <2>8, <3>3
      <4> QED
        BY <1>1, <2>3, <3>1, <3>3, <4>1 DEF CountInv
    <3> QED
      BY <3>2, <3>3
  <2> QED
    BY <2>2, <2>9
<1>3. CASE ~(Counts(replay, src[n].requested, src[n].epoch) /\ AllRefused(Refuse(replay, n)))
  <2>1. /\ UNCHANGED <<sink, live>>
        /\ replay' = IF Counts(replay, src[n].requested, src[n].epoch)
                     THEN Refuse(replay, n) ELSE replay
    BY <1>3 DEF Refusal
  <2>2. \/ replay' = replay
        \/ /\ replay' = Refuse(replay, n)
           /\ Counts(replay, src[n].requested, src[n].epoch)
    BY <2>1
  <2>3. RecoveryInv'
    BY <1>1, <2>1, <2>2, RefusalHeard
  <2>4. replay'.epoch = replay.epoch
    <3>1. replay \in [value : Nat, failed : SUBSET Names, epoch : Nat, total : Nat]
      BY DEF RecoveryInv, Records
    <3> QED
      BY <2>2, <3>1 DEF Refuse
  <2> QED
    BY <2>3, <2>4
<1> QED
  BY <1>2, <1>3

\* The upstream refuses the cursor when the source subscribes.
LEMMA RefusedAtOnceStep ==
    ASSUME RecoveryInv, NEW n, RefusedAtOnce(n)
    PROVE  /\ RecoveryInv'
           /\ replay'.epoch # replay.epoch =>
                 \A k \in DOMAIN src : refused'[k] = <<replay.value, replay.epoch>>
<1>1. /\ n \in DOMAIN src /\ src[n].phase # "idle"
      /\ Refusal(n, Refuse(replay, n)) /\ UNCHANGED <<Outside, left>>
  BY DEF RefusedAtOnce, Dialing
<1> QED
  BY <1>1, RefusalStep

-----------------------------------------------------------------------------
(* update_sources *)

\* Sources are removed or replaced: refusals are counted anew, and a stream that goes on
\* keeps its place.
LEMMA SourcesReplaced ==
    ASSUME RecoveryInv, UNCHANGED <<setup, head, sink, live>>, Records', ReloadInv',
           src' = [k \in DOMAIN src' |-> src'[k]],
           \A k \in DOMAIN src' : \E t \in SourceState : src'[k] = t /\ Good(k, t),
           replay' = UpdateSources(replay, Cardinality(DOMAIN src'))
    PROVE  RecoveryInv'
<1>1. /\ CursorInv /\ NoSilentGap /\ AfterGapOnlyLive
      /\ replay \in [value : Nat, failed : SUBSET Names, epoch : Nat, total : Nat]
  BY DEF RecoveryInv, Records
<1>2. /\ replay'.value = replay.value /\ replay'.epoch = replay.epoch
      /\ replay'.failed = {} /\ replay'.total = Cardinality(DOMAIN src')
  BY <1>1 DEF UpdateSources
<1>3. CountInv'
  BY <1>2 DEF CountInv
<1>4. CursorInv' /\ NoSilentGap' /\ AfterGapOnlyLive'
  BY <1>1, <1>2 DEF CursorInv, NoSilentGap, AfterGapOnlyLive
<1>5. ASSUME NEW k \in DOMAIN src' PROVE src'[k] \in SourceState /\ Good(k, src[k])'
  <2>1. PICK t \in SourceState : src'[k] = t /\ Good(k, t)
    BY <1>5
  <2>2. Good(k, t)'
    BY <1>2, <2>1 DEF Good, Counted, Channel, Flows, AfterGap, Current, Ahead
  <2> QED
    BY <2>1, <2>2
<1>6. src' \in [DOMAIN src' -> SourceState]
  BY <1>5
<1> QED
  BY <1>3, <1>4, <1>5, <1>6 DEF RecoveryInv

\* A source that does not reconnect ends: it is removed, or the process ends.
LEMMA FinishStep ==
    ASSUME RecoveryInv, NEW n \in DOMAIN src, ~Reconnects(n), Finish(n),
           UNCHANGED <<Outside, left, sink, live, refused>>
    PROVE  RecoveryInv' /\ replay'.epoch = replay.epoch
<1>1. /\ Records /\ ReloadInv /\ CountInv
      /\ src \in [DOMAIN src -> SourceState]
      /\ \A k \in DOMAIN src : Good(k, src[k])
      /\ left \in [faults : Nat, moves : Nat, edits : Nat]
      /\ replay \in [value : Nat, failed : SUBSET Names, epoch : Nat, total : Nat]
  BY DEF RecoveryInv, Records
<1>2. CASE n \in setup.exclude /\ DOMAIN src # {n}
  <2>1. /\ src' = Remaining(n)
        /\ replay' = UpdateSources(replay, Cardinality(DOMAIN src) - 1)
    BY <1>2 DEF Finish
  <2>2. DOMAIN src' = DOMAIN src \ {n} /\ src' = [k \in DOMAIN src' |-> src'[k]]
    BY <2>1 DEF Remaining
  <2>3. DOMAIN src \in (SUBSET Names) \ {{}} /\ DOMAIN src' \in (SUBSET Names) \ {{}}
    BY <1>1, <1>2, <2>2 DEF ReloadInv
  <2>4. IsFiniteSet(DOMAIN src) /\ Cardinality(DOMAIN src) \in Nat
    BY <2>3, SomeSources
  <2>5. Cardinality(DOMAIN src') = Cardinality(DOMAIN src) - 1
    BY <2>2, <2>4, FS_RemoveElement
  <2>6. Cardinality(DOMAIN src') \in Nat
    BY <2>3, SomeSources
  <2>7. \A k \in DOMAIN src' : \E t \in SourceState : src'[k] = t /\ Good(k, t)
    BY <1>1, <2>1, <2>2 DEF Remaining
  <2>8. /\ replay' \in [value : Nat, failed : SUBSET Names, epoch : Nat, total : Nat]
        /\ replay'.epoch = replay.epoch
    BY <1>1, <2>1, <2>5, <2>6 DEF UpdateSources
  <2>9. Records'
    BY <1>1, <2>8 DEF Records, Outside
  <2>10. n \in Names /\ setup.reconnect # Names
    BY <2>3 DEF Reconnects
  <2>11. ReloadInv'
    BY <1>1, <2>3, <2>10 DEF ReloadInv, Outside
  <2>12. RecoveryInv'
    BY <2>1, <2>2, <2>5, <2>7, <2>9, <2>11, SourcesReplaced DEF Outside
  <2> QED
    BY <2>8, <2>12
<1>3. CASE ~(n \in setup.exclude /\ DOMAIN src # {n})
  <2>1. Idles
    BY <1>1, <1>3 DEF Finish, Idles, Outside
  <2> QED
    BY <2>1, IdleStep DEF Idles
<1> QED
  BY <1>2, <1>3

\* A stream fails: the source is retried or removed, or its refusal is counted.
LEMMA FailStep ==
    ASSUME RecoveryInv, NEW n, Fail(n)
    PROVE  /\ RecoveryInv'
           /\ replay'.epoch # replay.epoch =>
                 \A k \in DOMAIN src : refused'[k] = <<replay.value, replay.epoch>>
<1>1. /\ n \in DOMAIN src /\ src[n].phase # "idle" /\ UNCHANGED <<Outside, left>>
      /\ left \in [faults : Nat, moves : Nat, edits : Nat]
  BY DEF Fail, Ready, Open, RecoveryInv, Records
<1>2. PICK kind : Failed(n, kind)
  BY DEF Fail
<1>3. CASE kind = "closed" /\ ~Reconnects(n)
  <2>1. Finish(n) /\ UNCHANGED <<sink, live, refused>>
    BY <1>2, <1>3 DEF Failed
  <2> QED
    BY <1>1, <1>3, <2>1, FinishStep
<1>4. CASE ~(kind = "closed" /\ ~Reconnects(n)) /\ kind = "rejected" /\ src[n].requested # None
  <2>1. Refusal(n, Refuse(replay, n))
    BY <1>2, <1>4 DEF Failed
  <2> QED
    BY <1>1, <2>1, RefusalStep
<1>5. CASE ~(kind = "closed" /\ ~Reconnects(n)) /\ ~(kind = "rejected" /\ src[n].requested # None)
  <2>1. PICK verdict : Retry(n, verdict)
    BY <1>2, <1>5 DEF Failed
  <2>2. RecoveryInv'
    BY <1>1, <2>1, RetryStep
  <2>3. replay' = replay
    BY <2>1 DEF Retry
  <2> QED
    BY <2>2, <2>3
<1> QED
  BY <1>3, <1>4, <1>5

-----------------------------------------------------------------------------
(* SIGHUP *)

ReloadState ==
    [file : Sources, valid : BOOLEAN, signal : BOOLEAN, busy : BOOLEAN,
     remove : SUBSET Names, add : UNION {[S -> Upstreams] : S \in SUBSET Names}]

\* A step of the reload that leaves the sources alone.
LEMMA ReloadOnly ==
    ASSUME RecoveryInv, UNCHANGED <<setup, head, replay, src, sink, refused, live>>,
           left' \in [faults : Nat, moves : Nat, edits : Nat], reload' \in ReloadState, ReloadInv'
    PROVE  RecoveryInv'
<1>1. /\ Records /\ CountInv /\ CursorInv
      /\ NoSilentGap /\ AfterGapOnlyLive
      /\ src \in [DOMAIN src -> SourceState]
      /\ \A k \in DOMAIN src : Good(k, src[k])
  BY DEF RecoveryInv
<1>2. Records' /\ CountInv' /\ CursorInv' /\ NoSilentGap' /\ AfterGapOnlyLive'
  BY <1>1 DEF Records, CountInv, CursorInv, NoSilentGap, AfterGapOnlyLive, ReloadState
<1>3. ASSUME NEW k \in DOMAIN src' PROVE Good(k, src[k])'
  <2>1. Good(k, src[k]) /\ k \in DOMAIN src
    BY <1>1, <1>3
  <2> QED
    BY <2>1 DEF Good, Counted, Channel, Flows, AfterGap, Current, Ahead
<1> QED
  BY <1>1, <1>2, <1>3 DEF RecoveryInv

\* The file is edited: SIGHUP is only for sources that reconnect.
LEMMA EditStep ==
    ASSUME RecoveryInv, Edit
    PROVE  RecoveryInv'
<1>1. /\ ReloadInv /\ reload \in ReloadState
      /\ left \in [faults : Nat, moves : Nat, edits : Nat] /\ left.edits > 0
  BY DEF RecoveryInv, Records, ReloadState, Edit
<1>2. left' \in [faults : Nat, moves : Nat, edits : Nat]
  BY <1>1 DEF Edit
<1>3. PICK file \in Files, valid \in BOOLEAN :
         reload' = Notify([reload EXCEPT !.file = file, !.valid = valid])
  BY DEF Edit
<1>4. file \in Sources
  BY SourceRecoveryAssumption
<1>5. reload' \in ReloadState /\ reload'.remove = reload.remove /\ reload'.add = reload.add
  BY <1>1, <1>3, <1>4 DEF Notify, ReloadState
<1>6. UNCHANGED <<setup, head, replay, src, sink, refused, live>> /\ reload'.busy = reload.busy
  BY <1>1, <1>3 DEF Edit, Reloading, Notify, ReloadState
<1>7. ReloadInv'
  BY <1>1, <1>5, <1>6 DEF ReloadInv
<1> QED
  BY <1>2, <1>5, <1>6, <1>7, ReloadOnly

\* prepare_reload: what is kept and what is added are together the sources of the file.
LEMMA PrepareReloadStep ==
    ASSUME RecoveryInv, PrepareReload
    PROVE  RecoveryInv'
<1>1. /\ ReloadInv /\ reload \in ReloadState /\ reload.signal
      /\ left \in [faults : Nat, moves : Nat, edits : Nat]
      /\ UNCHANGED <<setup, head, replay, src, sink, refused, live, left>>
  BY DEF RecoveryInv, Records, ReloadState, PrepareReload, Reloading
<1>2. CASE reload.valid
  <2>1. PICK R, A : R = Changed(reload.file) /\ A = [n \in Added(reload.file) |-> reload.file[n]]
    OBVIOUS
  <2>2. /\ DOMAIN reload.file \in (SUBSET Names) \ {{}} /\ DOMAIN src \subseteq Names
        /\ reload.file \in [DOMAIN reload.file -> Upstreams]
    BY <1>1, SourcesDomain DEF ReloadState, ReloadInv
  <2>3. R \in SUBSET Names /\ DOMAIN A \in SUBSET Names /\ A \in [DOMAIN A -> Upstreams]
    BY <2>1, <2>2 DEF Changed, Added
  <2>4. A \in UNION {[S -> Upstreams] : S \in SUBSET Names}
    BY <2>3
  <2>5. (DOMAIN src \ R) \cup DOMAIN A # {}
    <3>1. PICK n \in DOMAIN reload.file : TRUE
      BY <2>2
    <3>2. n \in DOMAIN A \/ n \in DOMAIN src \ R
      BY <2>1 DEF Changed, Added
    <3> QED
      BY <3>2
  <2>6. reload' = [reload EXCEPT !.signal = FALSE, !.busy = TRUE, !.remove = R, !.add = A]
    BY <1>2, <2>1 DEF PrepareReload
  <2>7. reload' \in ReloadState /\ reload'.remove = R /\ reload'.add = A
    BY <1>1, <2>3, <2>4, <2>6 DEF ReloadState
  <2>8. ReloadInv'
    BY <1>1, <2>5, <2>7 DEF ReloadInv
  <2> QED
    BY <1>1, <2>7, <2>8, ReloadOnly
<1>3. CASE ~reload.valid
  <2>1. reload' = [reload EXCEPT !.signal = FALSE]
    BY <1>3 DEF PrepareReload
  <2>2. /\ reload' \in ReloadState /\ reload'.remove = reload.remove /\ reload'.add = reload.add
        /\ reload'.busy = reload.busy
    BY <1>1, <2>1 DEF ReloadState
  <2>3. ReloadInv'
    BY <1>1, <2>2 DEF ReloadInv
  <2> QED
    BY <1>1, <2>2, <2>3, ReloadOnly
<1> QED
  BY <1>2, <1>3

\* apply_reload
LEMMA ApplyReloadStep ==
    ASSUME RecoveryInv, ApplyReload
    PROVE  RecoveryInv' /\ replay'.epoch = replay.epoch
<1>1. /\ Records /\ ReloadInv /\ reload \in ReloadState /\ reload.busy
      /\ src \in [DOMAIN src -> SourceState]
      /\ \A k \in DOMAIN src : Good(k, src[k])
      /\ refused \in [Names -> Nat \X Nat]
      /\ replay \in [value : Nat, failed : SUBSET Names, epoch : Nat, total : Nat]
      /\ UNCHANGED <<setup, head, sink, live, left>>
  BY DEF RecoveryInv, Records, ReloadState, ApplyReload
<1>2. PICK kept, A : kept = DOMAIN src \ reload.remove /\ A = reload.add
  OBVIOUS
<1>3. /\ src' = [n \in kept \cup DOMAIN A |-> IF n \in DOMAIN A THEN NewSource(A[n]) ELSE src[n]]
      /\ refused' = [n \in Names |-> IF n \in kept THEN refused[n] ELSE <<None, 0>>]
      /\ replay' = UpdateSources(replay, Cardinality(DOMAIN src'))
      /\ reload' = [reload EXCEPT !.busy = FALSE, !.remove = {}, !.add = <<>>]
  BY <1>2 DEF ApplyReload
<1>4. PICK S \in SUBSET Names : A \in [S -> Upstreams]
  BY <1>1, <1>2 DEF ReloadState
<1>5. DOMAIN A = S
  BY <1>4
<1>6. /\ DOMAIN src' = kept \cup DOMAIN A /\ DOMAIN src' \in (SUBSET Names) \ {{}}
      /\ src' = [k \in DOMAIN src' |-> src'[k]]
  BY <1>1, <1>2, <1>3, <1>5 DEF ReloadInv
<1>7. Cardinality(DOMAIN src') \in Nat
  BY <1>6, SomeSources
<1>8. /\ replay' \in [value : Nat, failed : SUBSET Names, epoch : Nat, total : Nat]
      /\ replay'.epoch = replay.epoch
  BY <1>1, <1>3, <1>7 DEF UpdateSources
<1>9. reload' \in ReloadState /\ ~reload'.busy /\ reload'.signal = reload.signal
  <2>1. <<>> \in [{} -> Upstreams] /\ {} \in SUBSET Names
    OBVIOUS
  <2>2. PICK E \in UNION {[X -> Upstreams] : X \in SUBSET Names} : E = <<>>
    BY <2>1
  <2>3. reload' = [reload EXCEPT !.busy = FALSE, !.remove = {}, !.add = E]
    BY <1>3, <2>2
  <2> QED
    BY <1>1, <2>1, <2>3 DEF ReloadState
<1>10. refused' \in [Names -> Nat \X Nat]
  BY <1>1, <1>3 DEF None
<1>11. Records'
  BY <1>1, <1>8, <1>9, <1>10 DEF Records, ReloadState
<1>12. ReloadInv'
  BY <1>1, <1>6, <1>9 DEF ReloadInv
<1>13. ASSUME NEW k \in DOMAIN src'
       PROVE  \E t \in SourceState : src'[k] = t /\ Good(k, t)
  <2>1. CASE k \in DOMAIN A
    <3>1. src'[k] = NewSource(A[k]) /\ A[k] \in Upstreams
      BY <1>3, <1>4, <1>6, <2>1
    <3> QED
      BY <1>1, <3>1, NewState
  <2>2. CASE k \notin DOMAIN A
    <3>1. src'[k] = src[k] /\ k \in DOMAIN src
      BY <1>2, <1>3, <1>6, <1>13, <2>2
    <3> QED
      BY <1>1, <3>1
  <2> QED
    BY <2>1, <2>2
<1>14. RecoveryInv'
  BY <1>1, <1>3, <1>6, <1>11, <1>12, <1>13, SourcesReplaced
<1> QED
  BY <1>8, <1>14

-----------------------------------------------------------------------------
(* The theorems *)

\* Every step keeps the invariant, and ends the epoch only when every source has refused.
LEMMA RecoveryStep ==
    ASSUME RecoveryInv, [Next]_vars
    PROVE  /\ RecoveryInv'
           /\ replay'.epoch # replay.epoch =>
                 \A k \in DOMAIN src : refused'[k] = <<replay.value, replay.epoch>>
<1> DEFINE Goal == /\ RecoveryInv'
                   /\ replay'.epoch # replay.epoch =>
                         \A k \in DOMAIN src : refused'[k] = <<replay.value, replay.epoch>>
<1>1. ASSUME UNCHANGED vars PROVE Goal
  <2>1. left \in [faults : Nat, moves : Nat, edits : Nat]
    BY DEF RecoveryInv, Records
  <2>2. Idles
    BY <1>1, <2>1 DEF Idles, vars
  <2> QED
    BY <2>2, IdleStep DEF Idles
<1>2. ASSUME NEW n \in Names, Dial(n) PROVE Goal
  <2>1. RecoveryInv'
    BY <1>2, DialStep
  <2> QED
    BY <1>2, <2>1 DEF Dial
<1>3. ASSUME NEW n \in Names, Connected(n) PROVE Goal
  <2>1. RecoveryInv'
    BY <1>3, ConnectedStep
  <2> QED
    BY <1>3, <2>1 DEF Connected
<1>4. ASSUME NEW n \in Names, RefusedInStream(n) PROVE Goal
  <2>1. RecoveryInv'
    BY <1>4, RefusedInStreamStep
  <2> QED
    BY <1>4, <2>1 DEF RefusedInStream
<1>5. ASSUME NEW n \in Names, RefusedAtOnce(n) PROVE Goal
  BY <1>5, RefusedAtOnceStep
<1>6. ASSUME NEW n \in Names, DialFails(n) PROVE Goal
  <2>1. RecoveryInv'
    BY <1>6, DialFailsStep
  <2> QED
    BY <1>6, <2>1 DEF DialFails, Retry
<1>7. ASSUME NEW n \in Names, Push(n) PROVE Goal
  <2>1. RecoveryInv'
    BY <1>7, PushStep
  <2>2. replay \in [value : Nat, failed : SUBSET Names, epoch : Nat, total : Nat]
    BY DEF RecoveryInv, Records
  <2>3. replay'.epoch = replay.epoch
    BY <1>7, <2>2 DEF Push, Cursor, Store
  <2> QED
    BY <2>1, <2>3
<1>8. ASSUME NEW n \in Names, Fail(n) PROVE Goal
  BY <1>8, FailStep
<1>9. ASSUME NEW n \in Names, Forward(n) PROVE Goal
  <2>1. RecoveryInv'
    BY <1>9, ForwardStep
  <2> QED
    BY <1>9, <2>1 DEF Forward
<1>10. ASSUME NEW n \in Names, Lose(n) PROVE Goal
  <2>1. RecoveryInv'
    BY <1>10, LoseStep
  <2> QED
    BY <1>10, <2>1 DEF Lose
<1>11. ASSUME Edit PROVE Goal
  <2>1. RecoveryInv'
    BY <1>11, EditStep
  <2> QED
    BY <1>11, <2>1 DEF Edit
<1>12. ASSUME PrepareReload PROVE Goal
  <2>1. RecoveryInv'
    BY <1>12, PrepareReloadStep
  <2> QED
    BY <1>12, <2>1 DEF PrepareReload
<1>13. ASSUME ApplyReload PROVE Goal
  BY <1>13, ApplyReloadStep
<1>14. ASSUME Advance PROVE Goal
  <2>1. RecoveryInv'
    BY <1>14, AdvanceStep
  <2> QED
    BY <1>14, <2>1 DEF Advance
<1>15. ASSUME NEW u \in Upstreams, Move(u) PROVE Goal
  <2>1. RecoveryInv'
    BY <1>15, MoveStep
  <2> QED
    BY <1>15, <2>1 DEF Move
<1> HIDE DEF Goal
<1>16. Goal
  BY <1>1, <1>2, <1>3, <1>4, <1>5, <1>6, <1>7, <1>8, <1>9, <1>10, <1>11, <1>12, <1>13, <1>14,
     <1>15 DEF Next, SourceStep
<1> QED
  BY <1>16 DEF Goal

\* The inductive invariant holds.
THEOREM RecoveryInvariant == Spec => []RecoveryInv
<1>1. RecoveryInv /\ [Next]_vars => RecoveryInv'
  BY RecoveryStep
<1> QED
  BY RecoveryInit, <1>1, PTL DEF Spec

\* Whatever sources fail, reconnect, are replaced or fall back, the state is well typed, no
\* slot is missing between the last live start and the last finalized slot, and after an
\* announced gap only live slots are taken (HistoryInv of SourceRecovery).
THEOREM HistoryIsKept == Spec => []HistoryInv
<1>1. RecoveryInv => HistoryInv
  <2> SUFFICES ASSUME RecoveryInv PROVE HistoryInv
    OBVIOUS
  <2>1. /\ Records /\ ReloadInv /\ CountInv /\ CursorInv /\ NoSilentGap /\ AfterGapOnlyLive
        /\ src \in [DOMAIN src -> SourceState]
        /\ \A n \in DOMAIN src : Good(n, src[n])
    BY DEF RecoveryInv
  <2>2. \A n \in DOMAIN src : Len(src[n].queue) <= ChannelSize
    BY <2>1 DEF Good, Channel
  <2>3. /\ replay.total \in 1 .. Cardinality(Names)
        /\ replay.failed \subseteq Names /\ DOMAIN src \subseteq Names
    <3>1. DOMAIN src \in (SUBSET Names) \ {{}} /\ replay.total = Cardinality(DOMAIN src)
      BY <2>1 DEF ReloadInv, CountInv
    <3>2. Cardinality(DOMAIN src) \in 1 .. Cardinality(Names)
      BY <3>1, SomeSources
    <3> QED
      BY <2>1, <3>1, <3>2, Numbers
  <2>4. replay.value \in 0 .. MaxSlot + 1
    BY <2>1, Numbers DEF CursorInv
  <2> QED
    BY <2>1, <2>2, <2>3, <2>4 DEF HistoryInv, TypeOK
<1> QED
  BY RecoveryInvariant, <1>1, PTL

\* fallback_to_live announces a gap only when the upstream of every configured source has
\* refused the cursor as it is now, in the current epoch (EveryoneRefused).
THEOREM GapNeedsEveryone == Spec => EveryoneRefused
<1>1. RecoveryInv /\ [Next]_vars =>
         [replay'.epoch # replay.epoch =>
            \A n \in DOMAIN src : refused'[n] = <<replay.value, replay.epoch>>]_vars
  BY RecoveryStep
<1> QED
  BY RecoveryInvariant, <1>1, PTL DEF Spec, EveryoneRefused
=============================================================================
