---------------------------- MODULE BroadcastLog ----------------------------
(***************************************************************************)
(* What a broadcast ring promises to its readers, whatever its capacity:   *)
(* there is one log, and a reader is handed the entries of the log one     *)
(* after the other from the place it subscribed at, except those it asked  *)
(* not to see, until it is told that it lagged or that the channel closed. *)
(* A reader may be stopped at any time and is never resumed.               *)
(*                                                                         *)
(* Implemented by SharedChannel (richat) and PluginChannel (plugin-agave). *)
(***************************************************************************)
EXTENDS Naturals, Sequences

CONSTANTS
    Readers,  \* readers
    Entries,  \* entries of the log
    Hidden    \* Hidden[r] are the entries reader r asked not to see

VARIABLES
    log,      \* every entry published so far
    phase,    \* "new", "reading" or "stopped", per reader
    cursor,   \* the number of the entry a reader gets next
    got       \* what a reader was handed

vars == <<log, phase, cursor, got>>

Init ==
    /\ log = <<>>
    /\ phase = [r \in Readers |-> "new"]
    /\ cursor = [r \in Readers |-> 0]
    /\ got = [r \in Readers |-> <<>>]

Publish ==
    /\ \E e \in Entries : log' = Append(log, e)
    /\ UNCHANGED <<phase, cursor, got>>

\* A reader starts at an entry of the log, or before the first one.
Subscribe(r) ==
    /\ phase[r] = "new"
    /\ phase' = [phase EXCEPT ![r] = "reading"]
    /\ \E c \in 0 .. Len(log) : cursor' = [cursor EXCEPT ![r] = c]
    /\ UNCHANGED <<log, got>>

Receive(r) ==
    /\ phase[r] = "reading"
    /\ cursor[r] \in 1 .. Len(log)
    /\ cursor' = [cursor EXCEPT ![r] = @ + 1]
    /\ got' = [got EXCEPT ![r] =
                 IF log[cursor[r]] \in Hidden[r] THEN @ ELSE Append(@, log[cursor[r]])]
    /\ UNCHANGED <<log, phase>>

\* The cursor of a reader that was stopped means nothing any more.
Stop(r) ==
    /\ phase[r] = "reading"
    /\ phase' = [phase EXCEPT ![r] = "stopped"]
    /\ \E c \in {cursor[r], cursor[r] + 1} : cursor' = [cursor EXCEPT ![r] = c]
    /\ UNCHANGED <<log, got>>

Next ==
    \/ Publish
    \/ \E r \in Readers : Subscribe(r) \/ Receive(r) \/ Stop(r)

Spec == Init /\ [][Next]_vars
=============================================================================
