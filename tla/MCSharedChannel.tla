-------------------------- MODULE MCSharedChannel --------------------------
(***************************************************************************)
(* Small instances of SharedChannel for TLC.                               *)
(***************************************************************************)
EXTENDS SharedChannel

MCSize == [m \in Message |-> IF m = "small" THEN 1 ELSE 2]

\* The first reader reads everything, every other one skips "small".
MCDisabled == [r \in Receiver |-> IF r = "rx1" THEN {} ELSE {"small"}]
=============================================================================
