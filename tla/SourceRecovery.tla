--------------------------- MODULE SourceRecovery ---------------------------
(***************************************************************************)
(* The sources of the server (richat/src/source.rs, GlobalReplayFromSlot   *)
(* of channel.rs, the source loop of bin/richat.rs): each source keeps a   *)
(* subscription to an upstream, reconnects from the common cursor, and     *)
(* when every source refuses the cursor they give up the missing history   *)
(* together and go live.  SIGHUP replaces sources while they run.          *)
(*                                                                         *)
(* Sources are polled by one task, so a step is what one poll does up to   *)
(* its next await.  A message n stands for all messages of slot n and for  *)
(* the finalized status of slot n - Finality, which follow each other in a *)
(* stream.  Slot 0 stands for None.                                        *)
(***************************************************************************)
EXTENDS Integers, Sequences, FiniteSets, SequencesExt, FiniteSetsExt

CONSTANTS Names,        \* names of sources
          Upstreams,    \* what a source may be configured to connect to
          Setups,       \* initial configurations, each with its bounds: the number of failed
                        \* dials and lost connections (faults), of changes of what upstreams
                        \* keep (moves) and of edits of the file (edits)
          Files,        \* the sources that an edit may configure
          Finality,     \* slots between a slot and its finalized status
          FirstHead,    \* the slot the cluster is at when the server starts
          Floors,       \* the slots from which an upstream may keep history
          MaxSlot,      \* bound: the last slot of the cluster
          ChannelSize   \* channel_size of a source

\* What a configuration file may say: deserialize_sources wants at least one source, and
\* every name once.
Sources == UNION {[S -> Upstreams] : S \in (SUBSET Names) \ {{}}}

ASSUME SourceRecoveryAssumption ==
    /\ Finality \in Nat \ {0} /\ FirstHead \in Nat \ {0} /\ MaxSlot \in Nat
    /\ FirstHead <= MaxSlot
    /\ ChannelSize \in Nat \ {0}
    /\ IsFiniteSet(Names) /\ Files \subseteq Sources
    /\ \A s \in Setups :
          /\ s.sources \in Sources
          /\ s.reconnect \subseteq Names
          /\ s.cursor \in 0 .. FirstHead
          /\ s.faults \in Nat /\ s.moves \in Nat /\ s.edits \in Nat
          \* ensure_sources_have_reconnect, at the start and on every reload
          /\ s.edits > 0 => s.reconnect = Names

VARIABLES
    setup,   \* who reconnects, who is excluded on finish
    head,    \* the slot the cluster is at
    floor,   \* per upstream: the first slot it can replay from
    left,    \* the faults, moves and edits that are left
    replay,  \* GlobalReplayFromSlot: value, sources_replay_failed, sources_total, epoch
    src,     \* Subscriptions: per name the configuration and the state of its stream
    sink,    \* the Sender: slots it has since the last gap, and the last finalized one
    reload,  \* the configuration file, a pending SIGHUP, and a prepared reload
    stop,    \* why the process ended
    live,    \* history: the last slot a source started live at since the last gap, and the
             \* slot the cluster was at when that gap was announced
    refused  \* history: per name, the last cursor and epoch its upstream refused

vars == <<setup, head, floor, left, replay, src, sink, reload, stop, live, refused>>

None == 0
Running == "no"

-----------------------------------------------------------------------------
(* GlobalReplayFromSlot *)

Store(r, slot) ==
    [r EXCEPT !.failed = IF slot <= r.value THEN @ ELSE {},
              !.value = Max({@, slot})]

\* fallback_to_live counts a refusal of the current cursor in the current epoch only.
\* Mutant: any refusal counts.
CountsAny(r, requested, epoch) == requested # None
Counts(r, requested, epoch) == requested # None /\ r.value = requested /\ r.epoch = epoch
Refuse(r, name) == [r EXCEPT !.failed = @ \cup {name}]
AllRefused(r) == Cardinality(r.failed) >= r.total
GoLive(r) == [r EXCEPT !.value = None, !.epoch = @ + 1, !.failed = {}]

UpdateSources(r, n) == [r EXCEPT !.total = n, !.failed = {}]

-----------------------------------------------------------------------------
(* A source *)

NewSource(upstream) ==
    [up |-> upstream, phase |-> "idle", requested |-> None, epoch |-> 0,
     queue |-> <<>>, next |-> None]
Item(kind, n) == [kind |-> kind, slot |-> n]
Closed(s) == [s EXCEPT !.phase = "idle", !.queue = <<>>, !.next = None]
Reconnects(name) == name \in setup.reconnect

Init ==
    \E s \in Setups :
       /\ setup = [reconnect |-> s.reconnect, exclude |-> s.exclude]
       /\ head = FirstHead
       /\ floor = s.floor
       /\ left = [faults |-> s.faults, moves |-> s.moves, edits |-> s.edits]
       /\ replay = [value |-> s.cursor, failed |-> {}, epoch |-> 0,
                    total |-> Cardinality(DOMAIN s.sources)]
       /\ src = [n \in DOMAIN s.sources |-> NewSource(s.sources[n])]
       /\ sink = [got |-> {}, finalized |-> IF s.cursor = None THEN 0 ELSE s.cursor - 1]
       /\ reload = [file |-> s.sources, valid |-> TRUE, signal |-> FALSE, busy |-> FALSE,
                    remove |-> {}, add |-> <<>>]
       /\ stop = Running
       /\ live = [start |-> IF s.cursor = None THEN 0 ELSE s.cursor, gap |-> 0]
       /\ refused = [n \in Names |-> <<None, 0>>]

\* What only a source's step changes.
Outside == <<setup, head, floor, reload>>

\* A stream of an older epoch is dropped when its source is polled.
\* Mutant: the epoch is not checked.
StaleNever(n) == FALSE
Stale(n) == src[n].epoch # replay.epoch

\* A poll with no stream, at first, after a yield, or when the sleep is over: the cursor is
\* read and the subscription begins.
Dial(n) ==
    /\ stop = Running /\ n \in DOMAIN src
    /\ src[n].phase = "idle" \/ (src[n].phase = "open" /\ Stale(n))
    /\ src' = [src EXCEPT ![n] = [Closed(@) EXCEPT !.phase = "dial", !.requested = replay.value,
                                                  !.epoch = replay.epoch]]
    /\ UNCHANGED <<Outside, left, replay, sink, stop, live, refused>>

-----------------------------------------------------------------------------
(* The failure of a source: how source_stream, Subscriptions::poll_next    *)
(* and the loop of bin/richat.rs go on.                                    *)

Remaining(n) == [k \in DOMAIN src \ {n} |-> src[k]]

\* The stream ends: the source is removed, or the process ends.
\* Mutant: the number of sources stays.
FinishKeepsTotal(n) ==
    IF n \in setup.exclude /\ DOMAIN src # {n}
    THEN src' = Remaining(n) /\ UNCHANGED <<replay, stop>>
    ELSE stop' = "source stream finished" /\ UNCHANGED <<src, replay>>
Finish(n) ==
    IF n \in setup.exclude /\ DOMAIN src # {n}
    THEN /\ src' = Remaining(n)
         /\ replay' = UpdateSources(replay, Cardinality(DOMAIN src) - 1)
         /\ UNCHANGED stop
    ELSE /\ stop' = "source stream finished"
         /\ UNCHANGED <<src, replay>>

\* sender.begin_live_epoch: nothing from before the gap is continued.
\* Mutant: what the server has stays.
BeginLiveEpochKeeps(s) == s
BeginLiveEpoch(s) == [s EXCEPT !.got = {}]

\* A refusal of the cursor: the last source to refuse it announces the gap.
Refusal(n, r) ==
    /\ refused' = [refused EXCEPT ![n] = <<src[n].requested, src[n].epoch>>]
    /\ IF Counts(replay, src[n].requested, src[n].epoch) /\ AllRefused(r)
       THEN /\ replay' = GoLive(r)
            /\ src' = [src EXCEPT ![n] = Closed(@)]
            /\ sink' = BeginLiveEpoch(sink)
            /\ live' = [start |-> 0, gap |-> head]
       ELSE /\ replay' = IF Counts(replay, src[n].requested, src[n].epoch) THEN r ELSE replay
            /\ src' = [src EXCEPT ![n] = Closed(@)]
            /\ UNCHANGED <<sink, live>>
    /\ UNCHANGED stop

Retry(n, verdict) ==
    /\ IF Reconnects(n)
       THEN src' = [src EXCEPT ![n] = Closed(@)] /\ UNCHANGED stop
       ELSE stop' = verdict /\ UNCHANGED src
    /\ UNCHANGED <<replay, sink, live, refused>>

Failed(n, kind) ==
    IF kind = "closed" /\ ~Reconnects(n)
    THEN Finish(n) /\ UNCHANGED <<sink, live, refused>>
    ELSE IF kind = "rejected" /\ src[n].requested # None
    THEN Refusal(n, Refuse(replay, n))
    ELSE Retry(n, IF kind = "rejected" THEN "exit 2" ELSE "error")

-----------------------------------------------------------------------------
(* Subscription::subscribe returns *)

\* A slot that the upstream does not keep is refused at once, or by the stream.
Available(n) == src[n].requested = None \/ floor[src[n].up] <= src[n].requested
StartsAt(n) == IF src[n].requested = None THEN head + 1 ELSE src[n].requested
Opened(n, queue) ==
    [src EXCEPT ![n] = [@ EXCEPT !.phase = "open", !.queue = queue, !.next = StartsAt(n)]]

Dialing(n) == stop = Running /\ n \in DOMAIN src /\ src[n].phase = "dial"

Connected(n) ==
    /\ Dialing(n) /\ Available(n)
    /\ src' = Opened(n, <<>>)
    /\ live' = IF src[n].requested = None /\ ~Stale(n)
               THEN [live EXCEPT !.start = Max({@, StartsAt(n)})] ELSE live
    /\ UNCHANGED <<Outside, left, replay, sink, stop, refused>>

RefusedInStream(n) ==
    /\ Dialing(n) /\ ~Available(n)
    /\ src' = Opened(n, <<Item("rejected", None)>>)
    /\ UNCHANGED <<Outside, left, replay, sink, stop, live, refused>>

RefusedAtOnce(n) ==
    /\ Dialing(n) /\ ~Available(n)
    /\ Refusal(n, Refuse(replay, n))
    /\ UNCHANGED <<Outside, left>>

DialFails(n) ==
    /\ Dialing(n) /\ left.faults > 0
    /\ left' = [left EXCEPT !.faults = @ - 1]
    /\ Retry(n, "error")
    /\ UNCHANGED Outside

-----------------------------------------------------------------------------
(* Subscription::forward: from the upstream into the channel of the source *)

Open(n) == stop = Running /\ n \in DOMAIN src /\ src[n].phase = "open"
Over(queue) == queue # <<>> /\ Last(queue).kind # "slot"
\* Mutant: one message too many.
RoomLate(queue) == Len(queue) <= ChannelSize
Room(queue) == Len(queue) < ChannelSize
CanSend(n) == Open(n) /\ ~Over(src[n].queue) /\ Room(src[n].queue)

Forwarded(s) ==
    IF floor[s.up] <= s.next
    THEN [s EXCEPT !.queue = Append(@, Item("slot", s.next)), !.next = @ + 1]
    ELSE [s EXCEPT !.queue = Append(@, Item("rejected", None))]

Forward(n) ==
    /\ CanSend(n) /\ src[n].next <= head
    /\ src' = [src EXCEPT ![n] = Forwarded(@)]
    /\ UNCHANGED <<Outside, left, replay, sink, stop, live, refused>>

\* The upstream ends the stream, sends an error, or is silent for idle_timeout.
Lose(n) ==
    /\ CanSend(n) /\ left.faults > 0
    /\ left' = [left EXCEPT !.faults = @ - 1]
    /\ \E kind \in {"closed", "error"} :
          src' = [src EXCEPT ![n].queue = Append(@, Item(kind, None))]
    /\ UNCHANGED <<Outside, replay, sink, stop, live, refused>>

-----------------------------------------------------------------------------
(* stream.recv returns *)

\* Sender::push: slots up to the last finalized one are ignored.
Take(s, n) ==
    [got |-> IF n > s.finalized THEN s.got \cup {n} ELSE s.got,
     finalized |-> Max({s.finalized, n - Finality})]
Cursor(r, before, after) ==
    IF after.finalized > before.finalized THEN Store(r, after.finalized + 1) ELSE r

Ready(n) == Open(n) /\ ~Stale(n) /\ src[n].queue # <<>>

Push(n) ==
    /\ Ready(n) /\ Head(src[n].queue).kind = "slot"
    /\ sink' = Take(sink, Head(src[n].queue).slot)
    /\ replay' = Cursor(replay, sink, sink')
    /\ src' = [src EXCEPT ![n].queue = Tail(@)]
    /\ UNCHANGED <<Outside, left, stop, live, refused>>

Fail(n) ==
    /\ Ready(n) /\ Head(src[n].queue).kind # "slot"
    /\ Failed(n, Head(src[n].queue).kind)
    /\ UNCHANGED <<Outside, left>>

-----------------------------------------------------------------------------
(* SIGHUP.  The select is biased: a reload waits until no source is ready. *)

Quiet == stop = Running /\ \A n \in DOMAIN src : ~Ready(n)
Reloading == <<setup, head, floor, sink, live, refused, stop>>

\* The operator edits the file and sends SIGHUP; notify_one keeps one permit.
\* Mutant: a signal during a reload is lost.
NotifyIdle(r) == [r EXCEPT !.signal = ~r.busy]
Notify(r) == [r EXCEPT !.signal = TRUE]
Edit ==
    /\ stop = Running /\ left.edits > 0
    /\ left' = [left EXCEPT !.edits = @ - 1]
    /\ \E file \in Files : \E valid \in BOOLEAN :
          /\ file # reload.file
          /\ reload' = Notify([reload EXCEPT !.file = file, !.valid = valid])
    /\ UNCHANGED <<Reloading, replay, src>>

\* load_config_for_reloading and prepare_reload
Changed(file) == {n \in DOMAIN src : n \notin DOMAIN file \/ file[n] # src[n].up}
Added(file) == {n \in DOMAIN file : n \notin DOMAIN src \/ file[n] # src[n].up}
PrepareReload ==
    /\ Quiet /\ reload.signal /\ ~reload.busy
    /\ reload' = IF reload.valid
                 THEN [reload EXCEPT !.signal = FALSE, !.busy = TRUE,
                                     !.remove = Changed(reload.file),
                                     !.add = [n \in Added(reload.file) |-> reload.file[n]]]
                 ELSE [reload EXCEPT !.signal = FALSE]
    /\ UNCHANGED <<Reloading, left, replay, src>>

\* apply_reload
ApplyReload ==
    /\ Quiet /\ reload.busy
    /\ LET kept == DOMAIN src \ reload.remove
       IN  /\ src' = [n \in kept \cup DOMAIN reload.add |->
                         IF n \in DOMAIN reload.add THEN NewSource(reload.add[n]) ELSE src[n]]
           /\ refused' = [n \in Names |-> IF n \in kept THEN refused[n] ELSE <<None, 0>>]
    /\ replay' = UpdateSources(replay, Cardinality(DOMAIN src'))
    /\ reload' = [reload EXCEPT !.busy = FALSE, !.remove = {}, !.add = <<>>]
    /\ UNCHANGED <<setup, head, floor, sink, live, stop, left>>

-----------------------------------------------------------------------------
(* The cluster and what upstreams keep.  An upstream may also come to keep *)
(* more, when another node answers under its address.                      *)

Advance ==
    /\ head < MaxSlot
    /\ head' = head + 1
    /\ UNCHANGED <<setup, floor, left, replay, src, sink, reload, stop, live, refused>>

Move(u) ==
    /\ left.moves > 0
    /\ \E f \in Floors : f # floor[u] /\ floor' = [floor EXCEPT ![u] = f]
    /\ left' = [left EXCEPT !.moves = @ - 1]
    /\ UNCHANGED <<setup, head, replay, src, sink, reload, stop, live, refused>>

SourceStep(n) ==
    \/ Dial(n)
    \/ Connected(n) \/ RefusedInStream(n) \/ RefusedAtOnce(n) \/ DialFails(n)
    \/ Push(n) \/ Fail(n)

Next ==
    \/ \E n \in Names : SourceStep(n) \/ Forward(n) \/ Lose(n)
    \/ Edit \/ PrepareReload \/ ApplyReload
    \/ Advance
    \/ \E u \in Upstreams : Move(u)

Spec == Init /\ [][Next]_vars

\* Tokio polls every ready source; a dial ends, a sleep ends, and an upstream that is connected
\* sends what it has.  A poll that finds no source ready goes on to the reload.
FairSpec ==
    /\ Spec
    /\ \A n \in Names : WF_vars(SourceStep(n)) /\ WF_vars(Forward(n))
    /\ SF_vars(PrepareReload) /\ SF_vars(ApplyReload)

-----------------------------------------------------------------------------
(* Properties *)

SourceState ==
    [up : Upstreams, phase : {"idle", "dial", "open"}, requested : 0 .. MaxSlot + 1,
     epoch : Nat, queue : Seq([kind : {"slot", "rejected", "closed", "error"}, slot : Nat]),
     next : 0 .. MaxSlot + 1]

\* Every variable has its type.
TypeOK ==
    /\ DOMAIN src \subseteq Names /\ \A n \in DOMAIN src : src[n] \in SourceState
    /\ \A n \in DOMAIN src : Len(src[n].queue) <= ChannelSize
    /\ replay.failed \subseteq Names /\ replay.total \in 1 .. Cardinality(Names)
    /\ replay.value \in 0 .. MaxSlot + 1

\* Whatever sources fail, reconnect, are replaced or fall back, no slot is missing between
\* the last slot at which a source started live and the last finalized slot: history is lost
\* at an announced gap only.
NoSilentGap ==
    sink.got # {} => \A n \in Max({live.start, 1}) .. sink.finalized : n \in sink.got

\* After an announced gap the server takes live slots only: no stream of the history that
\* was given up goes on beyond the gap, where what it has would look complete.
AfterGapOnlyLive ==
    live.gap # 0 => \A n \in sink.got : n > live.gap - Finality

\* The sources give up history only when the upstream of each of them has refused the cursor
\* as it is now: a refusal of an older cursor, of an older epoch, or by a source that is no
\* longer configured does not count.
EveryoneRefused ==
    [][replay'.epoch # replay.epoch =>
         \A n \in DOMAIN src : refused'[n] = <<replay.value, replay.epoch>>]_vars

Receiving(n) == src[n].phase = "open" /\ ~Stale(n) /\ ~Over(src[n].queue)

\* Again and again some source has a stream that is not refused: sources never wait for one
\* another's refusals for ever, whoever was removed or replaced meanwhile.
SomeoneReceives == []<>(stop # Running \/ \E n \in DOMAIN src : Receiving(n))

AsInFile ==
    /\ \A n \in DOMAIN src : n \in DOMAIN reload.file /\ src[n].up = reload.file[n]
    /\ DOMAIN reload.file \ DOMAIN src \subseteq setup.exclude

\* The sources that run are in the end those of the file, unless it is invalid, less those
\* excluded because they ended: a SIGHUP that arrives during a reload is not lost.
ReloadTakesEffect == <>[](stop # Running \/ ~reload.valid \/ AsInFile)

\* History is lost at an announced gap only, and goes on live after it.
HistoryInv == TypeOK /\ NoSilentGap /\ AfterGapOnlyLive
=============================================================================
