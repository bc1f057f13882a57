---------------------------- MODULE TurnDecision ----------------------------
(***************************************************************************)
(* What the Player machinery promises to the table, with the runs, leases  *)
(* and processes hidden.  A turn is open, being thought about, paused or   *)
(* over; a turn of an AI seat is decided once, by that seat, out of the    *)
(* thinking state; a paused turn is thought about again or given up with   *)
(* the session.  Nothing else moves the state version.                     *)
(***************************************************************************)
EXTENDS Naturals

CONSTANTS Actors, User, NoActor

VARIABLES
  version,   \* the state version of the table
  seat,      \* who is to act at that version
  phase,     \* "open", "thinking", "paused" or "over"
  decisions  \* the decisions AI seats have taken: <<version, seat>>

vars == <<version, seat, phase, decisions>>

Init ==
  /\ version = 0 /\ seat \in Actors \cup {User, NoActor}
  /\ phase = "open" /\ decisions = {}

NextTurn == /\ version' = version + 1
            /\ seat' \in Actors \cup {User, NoActor}
            /\ phase' = "open"

\* The human acts, or the table moves between hands.
TableMoves == /\ phase = "open" /\ seat \notin Actors
              /\ NextTurn /\ UNCHANGED decisions

StartThinking == /\ phase = "open" /\ seat \in Actors
                 /\ phase' = "thinking" /\ UNCHANGED <<version, seat, decisions>>

Decide == /\ phase = "thinking"
          /\ NextTurn /\ decisions' = decisions \cup {<<version, seat>>}

GiveUp == /\ phase = "thinking"
          /\ phase' = "paused" /\ UNCHANGED <<version, seat, decisions>>

ThinkAgain == /\ phase = "paused"
              /\ phase' = "thinking" /\ UNCHANGED <<version, seat, decisions>>

EndBetweenHands == /\ phase = "open" /\ seat = NoActor
                   /\ phase' = "over" /\ UNCHANGED <<version, seat, decisions>>

EndPaused == /\ phase = "paused"
             /\ phase' = "over" /\ seat' = NoActor /\ version' = version + 1
             /\ UNCHANGED decisions

Next == \/ TableMoves \/ StartThinking \/ Decide \/ GiveUp \/ ThinkAgain
        \/ EndBetweenHands \/ EndPaused

Spec == Init /\ [][Next]_vars

=============================================================================
