--------------------------- MODULE MCSqliteStorage ---------------------------
(* Instances of SqliteStorage for TLC: uids u1 and u2, recurrence id 0 for a *)
(* whole incidence.                                                          *)
EXTENDS SqliteStorage

OneKey == {[uid |-> "u1", recurrenceId |-> 0]}
TwoKeys == OneKey \cup {[uid |-> "u2", recurrenceId |-> 0]}

\* The second content is the newer revision.
Revisions == [c \in Content |-> c]

NoFaults == {}
RowFault == {"row"}
CommitFault == {"commit"}
Nobody == {}
=============================================================================
