--------------------------- MODULE CalendarQueries ---------------------------
(***************************************************************************)
(* What src/src/extendedcalendar.cpp computes from the times of the        *)
(* incidences: the next date with an event, the events of a range of days, *)
(* one entry for each occurrence and each of its days.                     *)
(*                                                                         *)
(* Times are read in one time zone.  An event is not all-day; an event     *)
(* that recurs has a finite set of times, the excluded ones taken out, and *)
(* its rule's last time (until), Invalid for a rule without an end.        *)
(***************************************************************************)
EXTENDS Integers, Sequences, FiniteSets, FiniteSetsExt, SequencesExt

CONSTANT DayLength

ASSUME DayAssumption == DayLength \in Nat \ {0}

DayOf(t) == t \div DayLength
Midnight(d) == d * DayLength
OnDays(t, first, last) == first <= DayOf(t) /\ DayOf(t) <= last

\* An invalid QDateTime, which is before every other when it is compared.
Invalid == -1

-----------------------------------------------------------------------------
(* KCalendarCore's Event and Recurrence. *)

Length(e) == e.end - e.start
IsMultiDay(e) == e.start < e.end /\ DayOf(e.start) # DayOf(e.end)
Times(e) == IF e.recurs THEN e.times ELSE {e.start}

GetNextDateTime(e, t) ==
  LET later == {u \in e.times : u > t} IN IF later = {} THEN Invalid ELSE Min(later)
GetPreviousDateTime(e, t) ==
  LET earlier == {u \in e.times : u < t} IN IF earlier = {} THEN Invalid ELSE Max(earlier)
RecursOn(e, d) == \E t \in e.times : DayOf(t) = d

-----------------------------------------------------------------------------
(* nextEventsDate, previousEventsDate *)

AtMidnight(t) == IF t = Invalid THEN Invalid ELSE Midnight(DayOf(t))
Better(new, old, isBetter) == IF old = Invalid \/ isBetter THEN new ELSE old
DateOrInvalid(t) == IF t = Invalid THEN Invalid ELSE DayOf(t)

\* Mutant: a series that goes on tomorrow is not noticed.
NextAfterNewOnly(rv, e, date) ==
  LET today == Midnight(date)
      next == AtMidnight(GetNextDateTime(e, Midnight(date + 1) - 1))
      start == AtMidnight(e.start)
  IN  IF e.recurs THEN Better(next, rv, next < rv)
      ELSE IF start > today THEN Better(start, rv, start < rv) ELSE rv

\* One event.  A series that has ended gives an invalid date, which replaces
\* what was found so far.
NextAfter(rv, e, date) ==
  LET today == Midnight(date)
      tomorrow == Midnight(date + 1)
      next == AtMidnight(GetNextDateTime(e, tomorrow - 1))
      start == AtMidnight(e.start)
  IN  CASE rv = tomorrow -> rv
        [] /\ rv # tomorrow /\ e.recurs /\ IsMultiDay(e)
           /\ \E i \in 0 .. DayOf(e.end) - DayOf(e.start) : RecursOn(e, date + 1 - i) -> tomorrow
        [] OTHER ->
             IF e.recurs THEN Better(next, rv, next < rv)
             ELSE IF start > today THEN Better(start, rv, start < rv)
             ELSE IF IsMultiDay(e) /\ AtMidnight(e.end) > today THEN tomorrow
             ELSE rv

NextEventsDate(events, date) ==
  DateOrInvalid(FoldLeft(LAMBDA rv, e : NextAfter(rv, e, date), Invalid, events))

PreviousBefore(rv, e, date) ==
  LET today == Midnight(date)
      yesterday == Midnight(date - 1)
      previous == AtMidnight(GetPreviousDateTime(e, today))
      last == IF previous # Invalid /\ IsMultiDay(e)
              THEN previous + Midnight(DayOf(e.end) - DayOf(e.start)) ELSE previous
      end == AtMidnight(IF IsMultiDay(e) THEN e.end ELSE e.start)
  IN  CASE rv = yesterday -> rv
        [] rv # yesterday /\ e.recurs ->
             IF last >= today THEN yesterday ELSE Better(last, rv, last > rv)
        [] OTHER ->
             IF end < today THEN Better(end, rv, end > rv)
             ELSE IF IsMultiDay(e) /\ AtMidnight(e.start) < today THEN yesterday
             ELSE rv

PreviousEventsDate(events, date) ==
  DateOrInvalid(FoldLeft(LAMBDA rv, e : PreviousBefore(rv, e, date), Invalid, events))

-----------------------------------------------------------------------------
(* rawExpandedEvents: the starts of the occurrences of e on some days. *)

RawExpanded(e, first, last, startInclusive, endInclusive) ==
  LET from == Midnight(first)
      to == Midnight(last + 1)
      extra == IF IsMultiDay(e) /\ ~startInclusive THEN DayOf(e.end) - DayOf(e.start) ELSE 0
      earliest == from - Midnight(extra)
  IN  IF e.recurs
      THEN {t \in e.times :
              /\ earliest <= t /\ t < to
              /\ t + Length(e) > earliest
              /\ endInclusive => t + Length(e) <= to}
      ELSE IF IsMultiDay(e)
      THEN {t \in {e.start} :
              /\ startInclusive => t >= from
              /\ t <= to /\ e.end >= from
              /\ endInclusive => e.end <= to}
      ELSE {t \in {e.start} : from <= t /\ t <= to}

-----------------------------------------------------------------------------
(* expandRecurrences, expandMultiDay *)

\* The n first of the times S.
Earliest(S, n) == {t \in S : Cardinality({u \in S : u < t}) < n}

\* The starts of the occurrences of e between two times, and whether there may
\* be more.  The first one is found by itself; for a series the search goes
\* on behind it or, if it is not there, behind the last but one before.  The
\* loop's bound of 100 skipped occurrences is out of reach from there.
ExpandRecurrences(e, from, to, maxExpand) ==
  LET broken == e.end <= e.start
      first == /\ e.start < to
               /\ IF broken THEN e.start > from - 1 ELSE e.end > from
               /\ e.recurs => e.start \in e.times
      previous == GetPreviousDateTime(e, from)
      before == GetPreviousDateTime(e, previous)
      behind == CASE first \/ previous = Invalid -> e.start
                  [] ~first /\ previous # Invalid /\ before = Invalid -> previous
                  [] OTHER -> before
      length == IF broken THEN 1 ELSE Length(e)
      appended == IF first THEN {e.start} ELSE {}
      later == {t \in e.times : behind < t /\ t < to /\ t > from - length}
      found == IF e.recurs
               THEN appended \cup Earliest(later, maxExpand - Cardinality(appended))
               ELSE appended
  IN  [starts |-> found, limitHit |-> e.recurs /\ Cardinality(found) = maxExpand]

\* incidenceEndTime of an entry: the end of the occurrence it belongs to or, on
\* another day, the end of that day.
IncidenceEndTime(e, t) ==
  LET start == IF e.recurs THEN GetPreviousDateTime(e, t + 1) ELSE e.start
      end == start + Length(e)
  IN  IF DayOf(end) = DayOf(t) THEN end ELSE Midnight(DayOf(end) + 1) - 1

\* Mutant: the loop's counter begins at 0.
DaysBetween(e) == DayOf(e.end - 1) - DayOf(e.start)

Days(e) == 1 + DayOf(e.end - 1) - DayOf(e.start)

\* The entries of an occurrence that starts at t, merged into the list.  One
\* more than maxExpand is made before the loop ends.
ExpandMultiDay(e, t, firstDay, lastDay, maxExpand) ==
  LET entry(d) == IF d = DayOf(t) THEN Midnight(d) + (e.start % DayLength) ELSE Midnight(d)
      days == {d \in DayOf(t) .. DayOf(t) + Days(e) - 1 : firstDay <= d /\ d <= lastDay}
      starts == IF IsMultiDay(e)
                THEN Earliest({entry(d) : d \in days}, maxExpand + 1)
                ELSE {u \in {t} : OnDays(u, firstDay, lastDay)}
  IN  [entries  |-> {[start |-> u, end |-> IncidenceEndTime(e, u)] : u \in starts},
       limitHit |-> IsMultiDay(e) /\ Cardinality(starts) = maxExpand + 1]

-----------------------------------------------------------------------------
(* isEventInRange, isTodoInRange, isJournalInRange: hasDate is -1 where it   *)
(* does not matter, and a range may be open.                                 *)

IsDateSpanInRange(start, end, from, to) ==
  /\ from # Invalid => from <= end
  /\ to # Invalid => to >= start

\* What the range is compared with: a todo has its due date, a journal its start.
Span(i) == CASE i.kind = "Event" -> <<i.start, i.end>>
             [] i.kind = "Todo" -> <<i.end, i.end>>
             [] OTHER -> <<i.start, i.start>>

Dated(i) == Invalid \notin {Span(i)[1], Span(i)[2]}

\* A series counts with its end only, unless it has none.
IsInRange(i, hasDate, from, to) ==
  IF Dated(i)
  THEN /\ hasDate # 0
       /\ IF i.recurs
          THEN i.until = Invalid \/ IsDateSpanInRange(i.until, i.until, from, to)
          ELSE IsDateSpanInRange(Span(i)[1], Span(i)[2], from, to)
  ELSE hasDate < 1 /\ IsDateSpanInRange(i.created, i.created, from, to)
=============================================================================
