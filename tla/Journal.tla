------------------------------- MODULE Journal -------------------------------
(***************************************************************************)
(* What the commands sent to the storage mean, by themselves: the view     *)
(* that Storage::read_slots and Storage::next_index give of a sequence of  *)
(* them (richat/src/storage).  A command is either                         *)
(*                                                                         *)
(*   [op |-> "push", c, slot, final, index, init]  WriterCommand::PushMessage *)
(*   [op |-> "trim", slot, until]                  WriterCommand::RemoveReplay *)
(*                                                                         *)
(* where c is the commitment, final marks the processed record of a        *)
(* finalized status, and init the record that enters its slot.             *)
(***************************************************************************)
EXTENDS Integers, Sequences, FiniteSets, FiniteSetsExt

Processed == "processed"
Confirmed == "confirmed"
Finalized == "finalized"
Commitment == {Processed, Confirmed, Finalized}

NoRow == [open |-> FALSE]

IsPush(command) == command.op = "push"

\* The records of one source event end with the processed one, and a trim is an
\* event of its own: between two events a journal may be cut.
EndsEvent(command) == IsPush(command) => command.c = Processed

\* Positions of the record that entered the slot, when nothing removed the slot
\* since and the replay floor is not above it.
Entered(commands, floor, s) ==
    {i \in DOMAIN commands :
        /\ IsPush(commands[i]) /\ commands[i].init /\ commands[i].slot = s
        /\ commands[i].index >= floor
        /\ \A j \in i + 1 .. Len(commands) : IsPush(commands[j]) \/ commands[j].slot # s}

\* Storage::read_slots: where the replay of a retained slot starts, and whether it
\* is finalized.
Row(commands, floor, s) ==
    LET entered == Entered(commands, floor, s)
        first == Max(entered)
    IN  IF entered = {} THEN NoRow
        ELSE [open |-> TRUE, head |-> commands[first].index,
              finalized |-> \E j \in first .. Len(commands) :
                                IsPush(commands[j]) /\ commands[j].slot = s /\ commands[j].final]

\* Storage::next_index
NextIndex(commands, floor) ==
    Max({floor} \cup {commands[i].index + 1 : i \in {j \in DOMAIN commands : IsPush(commands[j])}})

\* The retained slots that a trim of a push removes: all that fall out of the window
\* of slot numbers behind the newest one (Sender::push).
OutsideWindow(open, window) == {s \in open : s < Max(open) - window + 1}
=============================================================================
