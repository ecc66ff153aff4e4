-------------------------- MODULE MCQuicTransport --------------------------
(* Instances of QuicTransport for TLC.                                     *)
EXTENDS QuicTransport

\* A request that passes every check.
Good(streams, backlog, count, ending) ==
    [streams |-> streams, backlog |-> backlog, size |-> 1, token |-> "good", tokens |-> TRUE,
     decodes |-> TRUE, channel |-> "ready", messages |-> count, ending |-> ending]

Simple == Good(1, NoBacklog, 1, "none")

\* One request per check of handle_request.
MCRefused ==
    {[Simple EXCEPT !.size = MaxRequestSize + 1],
     [Simple EXCEPT !.decodes = FALSE],
     [Simple EXCEPT !.token = "bad"],
     [Simple EXCEPT !.token = "none"],
     [Simple EXCEPT !.streams = 0],
     [Simple EXCEPT !.streams = MaxRecvStreams + 1],
     [Simple EXCEPT !.channel = "NotInitialized"],
     [Simple EXCEPT !.channel = "SlotNotAvailable"]}

MCScenarios ==
    MCRefused \cup
    {[Simple EXCEPT !.tokens = FALSE, !.token = "none"],
     Good(2, 1, 3, "Closed"), Good(2, NoBacklog, 4, "none"),
     Good(2, 2, 3, "Lagged"), Good(3, 2, 3, "none"), Good(3, NoBacklog, 2, "Lagged"),
     Good(2, 0, 1, "none")}

\* Fewer messages than streams.
MCFewMessages == {Good(3, NoBacklog, 2, "none")}
=============================================================================
