---------------------------- MODULE MCPlayerTurn ----------------------------
(* Small instances of PlayerTurn for TLC. *)
EXTENDS PlayerTurn, TLC

CONSTANTS seatA, seatB, build1, build2

MCActors   == {seatA, seatB}
MCOneActor == {seatA}
MCConfigs  == {build1, build2}
MCOneBuild == {build1}

\* Seats and builds are interchangeable; used by safety runs only.
Symmetry == Permutations(MCActors) \cup Permutations(MCConfigs)

=============================================================================
