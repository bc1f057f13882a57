--------------------------- MODULE MCEventStream ---------------------------
(* Small instances of EventStream for TLC: all constants are numbers, given in *)
(* the configurations.                                                         *)
EXTENDS EventStream

=============================================================================
