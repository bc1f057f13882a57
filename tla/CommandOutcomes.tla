--------------------------- MODULE CommandOutcomes ---------------------------
(***************************************************************************)
(* What the command executor promises its clients: a command id is decided *)
(* once, an applied command moves the session exactly from the version it  *)
(* was meant for, and every answer to the id reports that one decision.    *)
(***************************************************************************)
EXTENDS Naturals

CONSTANTS CommandIds, Payloads

VARIABLES
  version,   \* state version of the session
  open,      \* does the session still accept commands?
  outcome,   \* the decision on each command id
  reported   \* decisions reported to clients: <<id, payload, outcome>>

tableVars == <<version, open, outcome, reported>>

Undecided == [kind |-> "none"]
Applied(payload, v) == [kind |-> "completed", payload |-> payload, version |-> v]
Refused(payload, v) == [kind |-> "failed", payload |-> payload, version |-> v]

Init == /\ version = 1 /\ open = TRUE /\ reported = {}
        /\ outcome = [id \in CommandIds |-> Undecided]

Apply(id, payload) ==
  /\ payload.expectedStateVersion = version
  /\ version' \in {version, version + 1}
  /\ open' \in BOOLEAN
  /\ outcome' = [outcome EXCEPT ![id] = Applied(payload, version')]

Refuse(id, payload) ==
  /\ outcome' = [outcome EXCEPT ![id] = Refused(payload, version)]
  /\ UNCHANGED <<version, open>>

\* A transaction decides a command, and its answer may go out with it.
Report(id) == reported' = reported \cup {<<id, outcome'[id]>>}

Decide ==
  /\ open
  /\ \E id \in CommandIds :
       /\ outcome[id] = Undecided
       /\ \E payload \in Payloads : Apply(id, payload) \/ Refuse(id, payload)
       /\ UNCHANGED reported \/ Report(id)

Answer == \E id \in CommandIds :
            /\ outcome[id] # Undecided
            /\ UNCHANGED <<version, open, outcome>> /\ Report(id)

Next == Decide \/ Answer

Spec == Init /\ [][Next]_tableVars

=============================================================================
