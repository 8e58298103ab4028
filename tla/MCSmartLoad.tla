----------------------------- MODULE MCSmartLoad -----------------------------
(* Instances of SmartLoad for TLC. *)
EXTENDS SmartLoad

Times(s, e) == [start |-> s, end |-> e]
StartOf(t) == [r \in DOMAIN t |-> t[r].start]
EndOf(t) == [r \in DOMAIN t |-> t[r].end]

\* A calendar of days that begin at 1 and 3: an event in the first day, one that
\* goes on into the second, and one that takes all of the first day, whose end
\* the table has one day later.
Days == {1, 3}
Plain == <<Times(2, 2), Times(2, 4), Times(1, 3)>>
PlainStart == StartOf(Plain)
PlainEnd == EndOf(Plain)

\* loadIncidences(hasDate) by end date, whose date for the all-day event is the
\* day it takes; loadFutureIncidences from the first day on;
\* loadUncompletedTodos.
PlainMatches == [dates |-> {1, 2, 3}, future |-> {1, 2, 3}, todos |-> {2}]
PlainColumn == [dates |-> PlainEnd, future |-> PlainStart]
PlainDate == [dates |-> <<2, 4, 1>>, future |-> PlainStart]
PlainCursor == [dates |-> NoDate, future |-> 1]

\* One series, and several.
PlainSelections == {{1}, {2, 3}}

NoLock == {"acquire"}
=============================================================================
