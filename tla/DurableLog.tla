------------------------------ MODULE DurableLog ------------------------------
(***************************************************************************)
(* What the storage of richat promises its writer: the commands of the     *)
(* sender become durable in the order they were sent, whole source events  *)
(* at a time, and after a crash the slots and the next index it reports    *)
(* are those of exactly the durable commands.                              *)
(***************************************************************************)
EXTENDS Journal

CONSTANT Slot

VARIABLES
    log,       \* the commands sent and not lost in a crash
    durable,   \* how many of them are durable
    floor,     \* replay_floor
    rows,      \* what read_slots answers
    next       \* what next_index answers

vars == <<log, durable, floor, rows, next>>

View(commands, from) ==
    /\ rows' = [s \in Slot |-> Row(commands, from, s)]
    /\ next' = NextIndex(commands, from)

Init ==
    /\ log = <<>> /\ durable = 0 /\ floor = 0
    /\ rows = [s \in Slot |-> NoRow] /\ next = 0

\* The sender publishes source events.
Send ==
    /\ Len(log') > Len(log)
    /\ SubSeq(log', 1, Len(log)) = log
    /\ EndsEvent(log'[Len(log')])
    /\ UNCHANGED <<durable, floor, rows, next>>

Persist ==
    /\ \E n \in durable + 1 .. Len(log) :
          /\ EndsEvent(log[n])
          /\ durable' = n
          /\ View(SubSeq(log, 1, n), floor)
    /\ UNCHANGED <<log, floor>>

\* The sender starts a live epoch: nothing older is replayed, at once and durably.
RaiseFloor ==
    /\ floor' \in Nat /\ floor' >= floor
    /\ View(SubSeq(log, 1, durable), floor')
    /\ UNCHANGED <<log, durable>>

Crash ==
    /\ log' = SubSeq(log, 1, durable)
    /\ UNCHANGED <<durable, floor, rows, next>>

Next == Send \/ Persist \/ RaiseFloor \/ Crash

Spec == Init /\ [][Next]_vars
=============================================================================
