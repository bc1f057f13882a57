-------------------------- MODULE MCSessionCommands --------------------------
(* Small instances of SessionCommands for TLC. *)
EXTENDS SessionCommands

CONSTANTS callerA, callerB, play1, ai1

MCCallers   == {callerA, callerB}
MCClientIds == {play1}
MCAiIds     == {ai1}
MCVersions  == 1..2

=============================================================================
