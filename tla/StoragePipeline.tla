--------------------------- MODULE StoragePipeline ---------------------------
(***************************************************************************)
(* The write path of richat's storage (richat/src/storage): the sender     *)
(* sends commands to one collector thread, which cuts them into numbered   *)
(* chunks; a pool of compressor threads handles the chunks in any order;   *)
(* one writer thread puts them back in order, appends them to segment      *)
(* files and commits each to the metadata database.  The process may die   *)
(* between any two of these steps.                                         *)
(*                                                                         *)
(* A record takes one unit of a file, so a file is the sequence of the     *)
(* indexes of the records written to it.  The rows of chunks are keyed by  *)
(* first_index and listed in that order, which is the order of commits;    *)
(* the last one has the highest indexes, so a set stands for the list.     *)
(***************************************************************************)
EXTENDS Journal, SequencesExt

CONSTANTS
    Slot,             \* slot numbers
    Higher,           \* how many records of higher commitments an event may have
    MaxSlots,         \* storage.max_slots
    SegmentTarget,    \* segment_target_size
    Threads,          \* compressor_threads
    MaxRecords,       \* bound: records of the journal
    MaxCrashes,       \* bound: restarts of the process
    MaxEpochs         \* bound: live epochs

ASSUME StorageAssumption ==
    /\ Slot \subseteq Nat /\ IsFiniteSet(Slot) /\ Higher \subseteq Nat
    /\ MaxSlots \in Nat \ {0} /\ SegmentTarget \in Nat \ {0} /\ Threads \in Nat \ {0}

None == -1

VARIABLES
    log,         \* commands sent and not lost, the input of the collector
    index, replay, slots, slot_finalized,   \* the sender's part in them
    taken, flushed, collector_seq,          \* the collector: commands received, commands flushed
    raw,         \* queue from the collector to the compressors
    busy,        \* what the compressor threads hold
    compressed,  \* what waits for the writer, in its queue or in its pending map
    writer_seq, phase, item,                \* the writer
    files,       \* the segment files
    meta,        \* the metadata database and its mirror
    durable,     \* commands committed
    failed,      \* a thread stopped with an error
    crashes, epochs

senderVars    == <<index, replay, slots, slot_finalized>>
collectorVars == <<taken, flushed, collector_seq>>
writerVars    == <<writer_seq, phase, item>>
diskVars      == <<files, meta, durable>>
bounds        == <<crashes, epochs>>
vars == <<log, senderVars, collectorVars, raw, busy, compressed, writerVars, diskVars,
          failed, bounds>>

NoItem == [kind |-> "none"]
OpenSlots(f) == {s \in Slot : f[s] # None}

(***************************************************************************)
(* The sender: push_stored and the retention of Sender::push               *)
(***************************************************************************)

\* The records of one source event of slot s, higher commitments first.
Records(s, higher, final, head) ==
    [i \in 1 .. higher + 1 |->
        [op |-> "push", c |-> IF i <= higher THEN Confirmed ELSE Processed, slot |-> s,
         final |-> final /\ i = higher + 1, index |-> index + i - 1,
         init |-> index + i - 1 = head]]

\* The slots of a set, oldest first.
OldestFirst(set) ==
    {order \in [1 .. Cardinality(set) -> set] :
        \A i, j \in DOMAIN order : i < j => order[i] < order[j]}

\* One trim for each slot that leaves the window, in that order, with the oldest head
\* that is still needed once it is gone.
Trims(rep, order) ==
    LET left(i) == OpenSlots(rep) \ {order[j] : j \in 1 .. i}
    IN  [i \in DOMAIN order |->
           [op |-> "trim", slot |-> order[i], until |-> Min({rep[s] : s \in left(i)})]]

Publish(s, higher, final) ==
    LET rep == IF replay[s] = None THEN [replay EXCEPT ![s] = index] ELSE replay
        head == IF slots[s] = None THEN rep[s] ELSE slots[s]
        removed == OutsideWindow(OpenSlots(rep), MaxSlots)
    IN  /\ s > slot_finalized
        /\ index + higher + 1 <= MaxRecords
        /\ \E order \in OldestFirst(removed) :
              log' = log \o Records(s, higher, final, head) \o Trims(rep, order)
        /\ index' = index + higher + 1
        /\ replay' = [t \in Slot |-> IF t \in removed THEN None ELSE rep[t]]
        /\ slots' = [t \in Slot |-> IF final /\ t <= s THEN None
                                    ELSE IF t = s THEN head ELSE slots[t]]
        /\ slot_finalized' = IF final THEN s ELSE slot_finalized
        /\ UNCHANGED <<collectorVars, raw, busy, compressed, writerVars, diskVars, failed, bounds>>

\* Sender::begin_live_epoch
BeginLiveEpoch ==
    /\ epochs < MaxEpochs
    /\ epochs' = epochs + 1
    /\ meta' = [meta EXCEPT !.floor = index]
    /\ replay' = [s \in Slot |-> None]
    /\ slots' = [s \in Slot |-> None]
    /\ UNCHANGED <<log, index, slot_finalized, collectorVars, raw, busy, compressed, writerVars,
                   files, durable, failed, crashes>>

(***************************************************************************)
(* run_collector                                                           *)
(***************************************************************************)
Pending(last) == SubSeq(log, flushed + 1, last)

\* The chunk of the commands that wait, up to position last of the log.
Chunk(seq, last) ==
    LET records == Pending(last)
    IN  [kind |-> "chunk", seq |-> seq, upto |-> last,
         first |-> records[1].index, last |-> records[Len(records)].index,
         pending_slots |-> {[slot |-> r.slot, head |-> r.index] :
                              r \in {x \in Range(records) : x.init}},
         finalized |-> {r.slot : r \in {x \in Range(records) : x.final}}]

TrimItem(seq, last) ==
    [kind |-> "trim", seq |-> seq, upto |-> last, slot |-> log[last].slot,
     until |-> log[last].until]

\* A record is received; it may complete a chunk only if it ends its source event.
CollectRecord ==
    /\ ~failed /\ taken < Len(log) /\ IsPush(log[taken + 1])
    /\ taken' = taken + 1
    /\ \/ UNCHANGED <<flushed, collector_seq, raw>>
       \/ /\ EndsEvent(log[taken + 1])
          /\ raw' = Append(raw, Chunk(collector_seq, taken + 1))
          /\ collector_seq' = collector_seq + 1
          /\ flushed' = taken + 1
    /\ UNCHANGED <<log, senderVars, busy, compressed, writerVars, diskVars, failed, bounds>>

\* Mutant: what waits is flushed wherever the timeout finds it.
FlushAnything == taken > flushed

\* Mutant: only a full chunk is flushed.
NeverFlushes == FALSE

\* Nothing was received for 100 ms, possibly in the middle of a source event.
TimeoutFlushes == taken > flushed /\ EndsEvent(log[taken])

CollectTimeout ==
    /\ ~failed /\ TimeoutFlushes
    /\ raw' = Append(raw, Chunk(collector_seq, taken))
    /\ collector_seq' = collector_seq + 1
    /\ flushed' = taken
    /\ UNCHANGED <<log, senderVars, taken, busy, compressed, writerVars, diskVars, failed, bounds>>

\* A trim is received: what waits is flushed before it.
CollectTrim ==
    /\ ~failed /\ taken < Len(log) /\ ~IsPush(log[taken + 1])
    /\ IF taken > flushed /\ ~EndsEvent(log[taken])
       THEN /\ failed' = TRUE
            /\ UNCHANGED <<taken, flushed, collector_seq, raw>>
       ELSE LET chunk == IF taken > flushed THEN <<Chunk(collector_seq, taken)>> ELSE <<>>
                seq == collector_seq + Len(chunk)
            IN  /\ raw' = raw \o Append(chunk, TrimItem(seq, taken + 1))
                /\ collector_seq' = seq + 1
                /\ taken' = taken + 1
                /\ flushed' = taken + 1
                /\ UNCHANGED failed
    /\ UNCHANGED <<log, senderVars, busy, compressed, writerVars, diskVars, bounds>>

(***************************************************************************)
(* run_compressor: the threads of the pool take turns on one queue         *)
(***************************************************************************)
CompressorTake ==
    /\ raw # <<>> /\ Cardinality(busy) < Threads
    /\ busy' = busy \cup {Head(raw)}
    /\ raw' = Tail(raw)
    /\ UNCHANGED <<log, senderVars, collectorVars, compressed, writerVars, diskVars, failed, bounds>>

CompressorDone(x) ==
    /\ busy' = busy \ {x}
    /\ compressed' = compressed \cup {x}
    /\ UNCHANGED <<log, senderVars, collectorVars, raw, writerVars, diskVars, failed, bounds>>

(***************************************************************************)
(* SegmentWriter                                                           *)
(***************************************************************************)
Active == meta.segments[meta.active]

\* Mutant: the file is appended to, garbage of an earlier process included.
AppendAtEnd(content, offset, data) == content \o data

\* What a file holds after data was written at the offset.
WriteAt(content, offset, data) ==
    SubSeq(content, 1, offset) \o data
    \o SubSeq(content, offset + Len(data) + 1, Len(content))

NextItem == CHOOSE x \in compressed : x.seq = writer_seq
Ready(kind) == /\ phase = "ready" /\ ~failed
               /\ \E x \in compressed : x.seq = writer_seq /\ x.kind = kind

Payload(x) == [i \in 1 .. x.last - x.first + 1 |-> x.first + i - 1]

\* Mutant: files that nothing references stay.
KeepOrphans == files

\* remove_orphan_segments
WithoutOrphans == [id \in DOMAIN files \cap DOMAIN meta.segments |-> files[id]]

\* SegmentWriter::open
Open ==
    /\ phase = "open"
    /\ files' = WithoutOrphans
    /\ phase' = IF meta.active = 0 THEN "rotate" ELSE "ready"
    /\ UNCHANGED <<log, senderVars, collectorVars, raw, busy, compressed, writer_seq, item, meta,
                   durable, failed, bounds>>

\* rotate_segment, and open on an empty store: the file first, then the metadata.
CreateSegment ==
    /\ phase = "rotate" /\ ~failed
    /\ IF meta.next_id \in DOMAIN files
       THEN failed' = TRUE /\ UNCHANGED <<files, phase>>
       ELSE /\ files' = [id \in DOMAIN files \cup {meta.next_id} |->
                           IF id = meta.next_id THEN <<>> ELSE files[id]]
            /\ phase' = "created"
            /\ UNCHANGED failed
    /\ UNCHANGED <<log, senderVars, collectorVars, raw, busy, compressed, writer_seq, item, meta,
                   durable, bounds>>

\* Mutant: the id is not used up.
SameId == meta.next_id

NextId == meta.next_id + 1

CommitSegment ==
    /\ phase = "created"
    /\ phase' = "ready"
    /\ meta' = [meta EXCEPT
          !.segments = [id \in DOMAIN meta.segments \cup {meta.next_id} |->
                          IF id = meta.next_id
                          THEN [sealed |-> FALSE, last |-> 0, len |-> 0, count |-> 0]
                          ELSE IF id = meta.active THEN [Active EXCEPT !.sealed = TRUE]
                          ELSE meta.segments[id]],
          !.active = meta.next_id,
          !.next_id = NextId]
    /\ UNCHANGED <<log, senderVars, collectorVars, raw, busy, compressed, writer_seq, item, files,
                   durable, failed, bounds>>

\* append_chunk, up to sync_data
AppendChunk ==
    /\ Ready("chunk")
    /\ item' = NextItem
    /\ compressed' = compressed \ {NextItem}
    /\ files' = [files EXCEPT ![meta.active] = WriteAt(@, Active.len, Payload(NextItem))]
    /\ phase' = "written"
    /\ UNCHANGED <<log, senderVars, collectorVars, raw, busy, writer_seq, meta, durable, failed,
                   bounds>>

\* The slot rows after the commit of a chunk (build_chunk_commit).
RowsAfter(x) ==
    [s \in Slot |->
        IF \E p \in x.pending_slots : p.slot = s
        THEN [open |-> TRUE, segment |-> meta.active, finalized |-> s \in x.finalized,
              head |-> Max({p.head : p \in {q \in x.pending_slots : q.slot = s}})]
        ELSE IF s \in x.finalized /\ meta.slots[s].open
        THEN [meta.slots[s] EXCEPT !.finalized = TRUE]
        ELSE meta.slots[s]]

\* append_chunk, the commit
CommitChunk ==
    LET size == Len(Payload(item))
    IN  /\ phase = "written"
        /\ meta' = [meta EXCEPT
              !.slots = RowsAfter(item),
              !.segments[meta.active] = [Active EXCEPT !.last = item.last, !.len = @ + size,
                                                       !.count = @ + 1],
              !.chunks = @ \cup {[segment |-> meta.active, offset |-> Active.len,
                                  size |-> size, first |-> item.first, last |-> item.last]}]
        /\ durable' = item.upto
        /\ writer_seq' = writer_seq + 1
        /\ item' = NoItem
        /\ phase' = IF Active.len + size >= SegmentTarget THEN "rotate" ELSE "ready"
        /\ UNCHANGED <<log, senderVars, collectorVars, raw, busy, compressed, files, failed, bounds>>

\* Mutant: a segment goes although the oldest needed record is its last one.
DeletedWithNeeded(until) ==
    {id \in DOMAIN meta.segments : LET g == meta.segments[id]
                                  IN  g.sealed /\ g.count > 0 /\ g.last <= until}

\* The segments that no retained slot needs (build_trim_commit).
DeletedSegments(until) ==
    {id \in DOMAIN meta.segments : LET g == meta.segments[id]
                                  IN  g.sealed /\ g.count > 0 /\ g.last < until}

\* handle_trim, the commit: the metadata first, then the files.
CommitTrim ==
    LET gone == DeletedSegments(NextItem.until)
    IN  /\ Ready("trim")
        /\ meta' = [meta EXCEPT
              !.slots = [s \in Slot |-> IF s = NextItem.slot \/ (@[s].open /\ @[s].segment \in gone)
                                        THEN NoRow ELSE @[s]],
              !.segments = [id \in DOMAIN @ \ gone |-> @[id]],
              !.chunks = {c \in @ : c.segment \notin gone}]
        /\ item' = [kind |-> "deleted", ids |-> gone]
        /\ compressed' = compressed \ {NextItem}
        /\ durable' = NextItem.upto
        /\ writer_seq' = writer_seq + 1
        /\ phase' = "deleting"
        /\ UNCHANGED <<log, senderVars, collectorVars, raw, busy, files, failed, bounds>>

\* handle_trim, one file; one that is already gone is no error.
DeleteFile ==
    /\ phase = "deleting"
    /\ IF item.ids = {}
       THEN phase' = "ready" /\ item' = NoItem /\ UNCHANGED files
       ELSE /\ files' = [id \in DOMAIN files \ {Min(item.ids)} |-> files[id]]
            /\ item' = [item EXCEPT !.ids = @ \ {Min(@)}]
            /\ UNCHANGED phase
    /\ UNCHANGED <<log, senderVars, collectorVars, raw, busy, compressed, writer_seq, meta, durable,
                   failed, bounds>>

(***************************************************************************)
(* Restart                                                                 *)
(***************************************************************************)

\* Storage::next_index and Storage::read_slots
NextIndexOnDisk ==
    Max({meta.floor} \cup {c.last + 1 : c \in meta.chunks})
SlotOnDisk(s) ==
    IF meta.slots[s].open /\ meta.slots[s].head >= meta.floor
    THEN [open |-> TRUE, head |-> meta.slots[s].head, finalized |-> meta.slots[s].finalized]
    ELSE NoRow

\* What a crash leaves of the files: all of a chunk only when sync_data returned.
FilesAfterCrash ==
    IF phase # "written" THEN {files}
    ELSE {[files EXCEPT ![meta.active] = SubSeq(@, 1, Active.len + k)] :
            k \in 0 .. Len(Payload(item))}

Crash ==
    /\ crashes < MaxCrashes
    /\ crashes' = crashes + 1
    /\ log' = SubSeq(log, 1, durable)
    /\ files' \in FilesAfterCrash
    /\ index' = NextIndexOnDisk
    /\ replay' = [s \in Slot |-> IF SlotOnDisk(s).open THEN SlotOnDisk(s).head ELSE None]
    /\ slots' = [s \in Slot |-> None]
    /\ slot_finalized' = Max({0} \cup {s \in Slot : SlotOnDisk(s).open /\ SlotOnDisk(s).finalized})
    /\ taken' = durable /\ flushed' = durable /\ collector_seq' = 0
    /\ raw' = <<>> /\ busy' = {} /\ compressed' = {}
    /\ writer_seq' = 0 /\ phase' = "open" /\ item' = NoItem
    /\ failed' = FALSE
    /\ UNCHANGED <<meta, durable, epochs>>

Init ==
    /\ log = <<>> /\ index = 0 /\ slot_finalized = 0
    /\ replay = [s \in Slot |-> None] /\ slots = [s \in Slot |-> None]
    /\ taken = 0 /\ flushed = 0 /\ collector_seq = 0
    /\ raw = <<>> /\ busy = {} /\ compressed = {}
    /\ writer_seq = 0 /\ phase = "open" /\ item = NoItem
    /\ files = [id \in {} |-> <<>>]
    /\ meta = [slots |-> [s \in Slot |-> NoRow], segments |-> [id \in {} |-> <<>>],
               chunks |-> {}, next_id |-> 1, active |-> 0, floor |-> 0]
    /\ durable = 0 /\ failed = FALSE /\ crashes = 0 /\ epochs = 0

Collect == CollectRecord \/ CollectTrim
Compress == CompressorTake \/ \E x \in busy : CompressorDone(x)
Write == \/ Open \/ CreateSegment \/ CommitSegment \/ AppendChunk \/ CommitChunk
         \/ CommitTrim \/ DeleteFile

Next ==
    \/ \E s \in Slot, h \in Higher, final \in BOOLEAN : Publish(s, h, final)
    \/ BeginLiveEpoch
    \/ Collect \/ CollectTimeout \/ Compress \/ Write
    \/ Crash

Spec == Init /\ [][Next]_vars

\* The threads of the storage run; a receive without a command times out.
FairSpec ==
    /\ Spec
    /\ WF_vars(Collect) /\ WF_vars(CollectTimeout) /\ WF_vars(Compress) /\ WF_vars(Write)

(***************************************************************************)
(* Properties                                                              *)
(***************************************************************************)

TypeOK ==
    /\ \A i \in DOMAIN log : log[i].slot \in Slot /\ log[i].op \in {"push", "trim"}
    /\ index \in Nat /\ slot_finalized \in Slot \cup {0}
    /\ replay \in [Slot -> Nat \cup {None}] /\ slots \in [Slot -> Nat \cup {None}]
    /\ durable \in 0 .. flushed /\ flushed \in 0 .. taken /\ taken \in 0 .. Len(log)
    /\ collector_seq \in Nat /\ writer_seq \in 0 .. collector_seq
    /\ Cardinality(busy) <= Threads
    /\ phase \in {"open", "ready", "rotate", "created", "written", "deleting"}
    /\ meta.next_id \in Nat \ {0} /\ meta.floor \in Nat
    /\ meta.active \in DOMAIN meta.segments \cup {0}
    /\ \A id \in DOMAIN meta.segments : id < meta.next_id

\* At every moment, and so after a crash at any moment, the metadata and the files
\* agree: every chunk of the catalog lies in a segment of the catalog whose file
\* exists and holds the records of the chunk, whatever an earlier process left
\* behind in the file.
ChunksReadable ==
    \A c \in meta.chunks :
        /\ c.segment \in DOMAIN meta.segments \cap DOMAIN files
        /\ SubSeq(files[c.segment], c.offset + 1, c.offset + c.size) = Payload(c)

\* Retention never takes what a retained slot needs: from the head of every slot row
\* on, all durable records are in a chunk of the catalog.
RowsReadable ==
    \A s \in Slot : meta.slots[s].open =>
        \A i \in 1 .. durable :
            (IsPush(log[i]) /\ log[i].index >= meta.slots[s].head) =>
                \E c \in meta.chunks : log[i].index \in c.first .. c.last

\* No thread of the storage stops: a segment file that is created never exists, in
\* spite of crashes between file and metadata (the comment of SegmentWriter::open),
\* and a trim never finds a source event of which only a part was received.
NoThreadFails == ~failed

\* Reordered by the compressors or cut by a crash, the journal is what DurableLog
\* promises: the durable commands are a prefix of those sent and end with a source
\* event, and rows and next index are those of the prefix.
Durable == INSTANCE DurableLog WITH
    rows <- [s \in Slot |-> SlotOnDisk(s)], next <- NextIndexOnDisk, floor <- meta.floor
ImplementsDurableLog == Durable!Spec

\* Everything that was sent gets durable, unless a crash loses it: no record waits
\* in the collector and no chunk in the writer's map for ever.
EverythingDurable == <>[](durable = Len(log))

\* Files and metadata agree, nothing that a retained slot needs is gone, and no thread fails.
FilesInv == TypeOK /\ ChunksReadable /\ RowsReadable /\ NoThreadFails
=============================================================================
