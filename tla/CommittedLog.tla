---------------------------- MODULE CommittedLog ----------------------------
(***************************************************************************)
(* What the writers of a session promise to the readers of its events.     *)
(*                                                                         *)
(* The log is the session_events table: the event at index i has sequence  *)
(* number i - 1, and carries the version and the lifecycle of the snapshot *)
(* it was committed with.  A committed batch is handed to the in-memory hub *)
(* afterwards: batches of commands one at a time and in order, batches of   *)
(* the coordinator whenever it gets to it, and no batch at all when the     *)
(* process dies or does not learn that its transaction was committed.       *)
(***************************************************************************)
EXTENDS Naturals, Sequences, SequencesExt

CONSTANTS MaxBatch, MaxSafeInteger

VARIABLES log, unpublished

logVars == <<log, unpublished>>

LogEvents == [version: Nat, ended: BOOLEAN]
Batches   == [first: Nat, last: Nat, ordered: BOOLEAN]

\* Session creation commits its two events together.
LogInit == /\ log = [i \in 1..2 |-> [version |-> 1, ended |-> FALSE]]
           /\ unpublished = {}

LastSeq == Len(log) - 1

\* The session row is locked from the first read to the commit, so batches
\* never interleave, and nothing follows the end of the session.
AppendBatch(size, version, ends) ==
  /\ ~Last(log).ended /\ Len(log) + size <= MaxSafeInteger
  /\ log' = log \o [i \in 1..size |-> [version |-> version, ended |-> ends]]

HandOver(size, ordered) ==
  unpublished' = unpublished \cup
    {[first |-> LastSeq + 1, last |-> LastSeq + size, ordered |-> ordered]}

\* Only a command changes the version or ends the session.
CommandBatch(size) ==
  \E version \in {Last(log).version, Last(log).version + 1}, ends \in BOOLEAN :
    AppendBatch(size, version, ends)

CoordinatorBatch == AppendBatch(1, Last(log).version, FALSE)

CommandCommits ==
  /\ \A b \in unpublished : ~b.ordered
  /\ \E size \in 1..MaxBatch : HandOver(size, TRUE) /\ CommandBatch(size)

CoordinatorCommits == HandOver(1, FALSE) /\ CoordinatorBatch

\* The event of a correction is committed and handed to nobody.
CorrectionStarts == UNCHANGED unpublished /\ CoordinatorBatch

\* The connection breaks on COMMIT: committed, but nobody knows.
CommitUnlearnt == UNCHANGED unpublished /\ \E size \in 1..MaxBatch : CommandBatch(size)

Commit == CommandCommits \/ CoordinatorCommits \/ CorrectionStarts \/ CommitUnlearnt

Publish(batch) ==
  /\ batch \in unpublished
  /\ unpublished' = unpublished \ {batch}
  /\ UNCHANGED log

LoseUnpublished == unpublished' = {} /\ UNCHANGED log

LogNext == (\E b \in unpublished : Publish(b)) \/ LoseUnpublished \/ Commit

LogSpec == LogInit /\ [][LogNext]_logVars

=============================================================================
