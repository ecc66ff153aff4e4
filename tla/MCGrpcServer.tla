----------------------------- MODULE MCGrpcServer -----------------------------
(* Instances of GrpcServer for TLC.                                        *)
EXTENDS GrpcServer

Data(slot, key) == [kind |-> "data", slot |-> slot, key |-> key]
Rec(level, m) == [level |-> level, m |-> m]
OnDisk(level, m, payload) == [level |-> level, m |-> m, payload |-> payload]
Meta(slot, bank, hash, height) ==
    [kind |-> "meta", slot |-> slot, bank |-> bank, hash |-> hash, height |-> height]
StatusOf(slot, bank, status) == [kind |-> "slot", slot |-> slot, bank |-> bank, status |-> status]
Cleared(slot, bank) == [kind |-> "update_parent", slot |-> slot, bank |-> bank]

Filter(level, from) ==
    [type |-> "filter", ok |-> TRUE, level |-> level, from |-> from, blocks |-> FALSE]
BadFilter == [Filter(Processed, NoSlot) EXCEPT !.ok = FALSE]
Blocks(r) == [r EXCEPT !.blocks = TRUE]
PingMsg == [type |-> "ping"]

Plain == [levels |-> Level, written |-> Level, blocks |-> TRUE, disk |-> <<>>, script |-> <<>>,
          clients |-> {"c1"}, workers |-> {"w1"}, threads |-> {"t1"}, asks |-> {},
          frames |-> 1, drops |-> FALSE, stops |-> FALSE,
          epochs |-> 0, unary |-> FALSE]

\* One slot on disk, with a record and its finalized reference; two more to come.
History == <<OnDisk(Processed, Data(1, "a"), 1), OnDisk(Finalized, Data(1, "a"), 1)>>
ToCome == <<Rec(Processed, Data(2, "a")), Rec(Processed, Data(2, "b")),
            Rec(Finalized, Data(2, "a")), Rec(Processed, Data(3, "a"))>>

FromDisk == [Plain EXCEPT !.disk = History, !.script = ToCome,
                          !.asks = {Filter(Processed, 1), Filter(Finalized, 1)}]
Resubscribe == [Plain EXCEPT !.disk = History, !.script = SubSeq(ToCome, 1, 1), !.frames = 3,
                             !.threads = Thread,
                             !.asks = {Filter(Processed, 1), Filter(Processed, NoSlot), PingMsg}]
Leaving == [Plain EXCEPT !.disk = History, !.frames = 2, !.drops = TRUE,
                         !.asks = {Filter(Processed, 1), BadFilter}]
Crowd == [Plain EXCEPT !.disk = History, !.script = SubSeq(ToCome, 1, 1),
                       !.clients = Client, !.threads = Thread, !.frames = 2,
                       !.asks = {Filter(Processed, 1)}]
Gap == [Plain EXCEPT !.disk = History, !.script = SubSeq(ToCome, 1, 2), !.epochs = 1,
                     !.asks = {Filter(Processed, 1), Filter(Processed, 2)}]
Live == [Plain EXCEPT !.levels = {}, !.script = SubSeq(ToCome, 1, 3), !.clients = Client,
                      !.frames = 2, !.asks = {Filter(Processed, NoSlot)}]
TwoWorkers == [Plain EXCEPT !.script = ToCome, !.workers = Worker,
                            !.asks = {Filter(Processed, NoSlot), Filter(Processed, 2)}]
OldDisk == [Plain EXCEPT !.disk = History, !.written = {Processed}, !.blocks = FALSE,
                         !.asks = {Blocks(Filter(Processed, 1)), Filter(Finalized, 1),
                                   Filter(Confirmed, 3), Filter(Processed, 0)}]
Stopping == [Plain EXCEPT !.disk = History, !.stops = TRUE, !.asks = {Filter(Processed, 1)}]

\* The unary methods: two slots, and two banks of one slot in every order that the sender
\* lets through: nothing of a bank that was cleared, nothing of a slot that is finalized.
Answering(messages) ==
    [Plain EXCEPT !.levels = {}, !.clients = {}, !.unary = TRUE,
                  !.script = [i \in DOMAIN messages |-> Rec(Processed, messages[i])]]
TwoSlots == <<Meta(1, 1, "h1", 1), Meta(1, 2, "h2", 1), Cleared(1, 2), StatusOf(1, 1, Confirmed),
              Meta(2, 3, "h3", 2), StatusOf(1, 1, Finalized), Meta(2, 4, "h4", 2),
              StatusOf(2, 3, Finalized)>>
NextSlot == <<Meta(1, 1, "h1", 1), StatusOf(1, 1, Confirmed), Meta(1, 2, "h2", 1), Cleared(1, 2),
              Meta(4, 5, "h5", 4), Cleared(4, 5), StatusOf(1, 1, Finalized)>>
Banks == {NoBank, 1, 2}
Metas == {{Meta(1, 1, "h1", 1)}, {Meta(1, 1, "h1", 1), Meta(1, 2, "h2", 1)}}
Confirming == {{}} \cup {{StatusOf(1, b, Confirmed)} : b \in Banks}
Finalizing == {{StatusOf(1, b, Finalized)} : b \in Banks}
PassesSender(o) ==
    \A i, j \in DOMAIN o : i < j =>
        /\ ~(o[i].kind = "slot" /\ o[i].status = Finalized)
        /\ o[i].kind = "update_parent" => o[j].bank # o[i].bank
OneSlot == UNION {{o \in SetToSeqs(metas \cup cleared \cup c \cup f) : PassesSender(o)} :
                     metas \in Metas, cleared \in {{}, {Cleared(1, 2)}}, c \in Confirming, f \in Finalizing}
MCUnary == {Answering(o) : o \in {TwoSlots, NextSlot} \cup OneSlot}

MCScenarios ==
    MCUnary \cup {FromDisk, Resubscribe, Leaving, Crowd, Gap, Live, TwoWorkers, OldDisk, Stopping}
=============================================================================
