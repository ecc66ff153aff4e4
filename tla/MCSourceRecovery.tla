-------------------------- MODULE MCSourceRecovery --------------------------
(* Instances of SourceRecovery for TLC.                                    *)
EXTENDS SourceRecovery

Both == [n \in {"a", "b"} |-> IF n = "a" THEN "u1" ELSE "u2"]
One == [n \in {"a"} |-> "u1"]

MCFiles == {Both, One, [n \in {"a", "b"} |-> "u2"]}

Usual == [sources |-> Both, cursor |-> 2, reconnect |-> Names, exclude |-> {},
          floor |-> [u \in Upstreams |-> 1], faults |-> 1, moves |-> 2, edits |-> 0]

\* A server with a cursor; a new server; SIGHUP, which needs sources that reconnect; a source
\* that is excluded when it ends; a single source that does not reconnect;
\* upstreams that do not keep the cursor.
MCSetups ==
    {Usual,
     [Usual EXCEPT !.cursor = 0, !.moves = 1],
     [Usual EXCEPT !.sources = One, !.faults = 0, !.moves = 1, !.edits = 2],
     [Usual EXCEPT !.reconnect = {"a"}, !.exclude = {"b"}, !.moves = 1],
     [Usual EXCEPT !.sources = One, !.reconnect = {}],
     [Usual EXCEPT !.floor = [u \in Upstreams |-> 3], !.faults = 0, !.moves = 1]}
=============================================================================
