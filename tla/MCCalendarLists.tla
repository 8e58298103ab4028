--------------------------- MODULE MCCalendarLists ---------------------------
(* An instance of CalendarLists for TLC: a series and its exception, another  *)
(* event, and a to-do in two revisions, of which the older recurs and may     *)
(* have an exception too.  A day has four hours; an event takes a part of a   *)
(* day or goes over one or two midnights.                                     *)
EXTENDS CalendarLists

Once(start, end) ==
  [start |-> start, end |-> end, recurs |-> FALSE, times |-> {}, until |-> Invalid,
   created |-> 5, recurrenceId |-> Invalid]
Series(start, end, times) ==
  [Once(start, end) EXCEPT !.recurs = TRUE, !.times = times, !.until = Max(times)]

mcKind == [o \in Object |-> IF o \in {"series", "exception", "event"} THEN "Event" ELSE "Todo"]
mcUid == [o \in Object |-> CASE o \in {"series", "exception"} -> "u1" [] o = "event" -> "u2" [] OTHER -> "u3"]
mcRevision == [o \in Object |-> IF o = "newer" THEN 1 ELSE 0]
mcSummary == [o \in Object |-> IF o \in {"series", "event"} THEN "s1" ELSE o]
mcTimings ==
  [o \in Object |->
     CASE o = "series" -> {Series(7, 9, {7, 15}), Series(5, 7, {9, 17}),
                             Series(3, 9, {3, 7, 11, 15}), Series(8, 8, {8, 12})}
       [] o = "event" -> {Once(3, 8), Once(16, 16)}
       [] o = "exception" -> {Once(5, 6)}
       [] o = "older" -> {Series(5, 6, {9})}
       [] OTHER -> {Once(5, Invalid)}]
mcDetails ==
  [o \in Object |->
     CASE o = "series" -> {[people |-> {"ann"}, geo |-> TRUE], [people |-> {"bob"}, geo |-> FALSE]}
       [] o = "newer" -> {[people |-> {"bob"}, geo |-> FALSE]}
       [] OTHER -> {[people |-> {"ann"}, geo |-> TRUE]}]
=============================================================================
