---------------------------- MODULE CalendarLists ----------------------------
(***************************************************************************)
(* The lists an ExtendedCalendar keeps beside the incidences                *)
(* (src/src/extendedcalendar.cpp): who takes part in what, and what has a  *)
(* place.  They follow the incidences through additions, replacements,     *)
(* deletions and changes, and through the observer calls incidenceUpdate() *)
(* and incidenceUpdated() that surround a change.                          *)
(*                                                                         *)
(* An object is an Incidence the application holds, in the calendar or     *)
(* not.  A list is modelled as the set of its entries.                     *)
(***************************************************************************)
EXTENDS CalendarQueries

CONSTANTS
  Object,     \* the incidences
  Slot,       \* those made by dissociating an occurrence
  Kind,       \* of each object: "Event", "Todo" or "Journal"
  Uid,        \* of each object
  Revision,   \* of each object
  Summary,    \* of each object
  Email,      \* the addresses people have
  Timings,    \* of each object: the times it may have
  Details,    \* of each object: its people and whether it has a place
  LastDay,    \* the last day somebody asks for
  Limit,      \* how many occurrences somebody has expanded at most
  MaxEditing  \* how many incidences are being changed at once

ASSUME ObjectAssumption ==
  /\ IsFiniteSet(Object) /\ Slot \subseteq Object /\ LastDay \in Nat /\ Limit \subseteq Nat \ {0}
  /\ \A o \in Object : Kind[o] \in {"Event", "Todo", "Journal"} /\ Revision[o] \in Nat

\* An event ends at or after its start, and a series recurs finitely often, at
\* the time of day it began at and not before.
EventTiming(t) ==
  /\ {"start", "end", "recurs", "times", "until", "recurrenceId"} \subseteq DOMAIN t
  /\ t.start \in Nat /\ t.end \in Nat /\ t.start <= t.end
  /\ t.recurs \in BOOLEAN
  /\ t.times \subseteq Nat /\ IsFiniteSet(t.times)
  /\ \A u \in t.times : t.start <= u /\ u % DayLength = t.start % DayLength

ASSUME TimingAssumption ==
  \A o \in Object : Kind[o] = "Event" => \A t \in Timings[o] : EventTiming(t)

VARIABLES
  made,       \* the objects there are
  timing,     \* of each object
  details,    \* of each object
  editing,    \* the objects between startUpdates() and endUpdates()
  cal         \* the calendar: its incidences and the two lists

vars == <<made, timing, details, editing, cal>>

EmptyCalendar == [incidences |-> {}, mAttendeeIncidences |-> {}, mGeoIncidences |-> {}]

Init ==
  /\ made = Object \ Slot
  /\ timing \in {f \in [Object -> UNION {Timings[o] : o \in Object}] : \A o \in Object : f[o] \in Timings[o]}
  /\ details \in {f \in [Object -> UNION {Details[o] : o \in Object}] : \A o \in Object : f[o] \in Details[o]}
  /\ editing = {}
  /\ cal = EmptyCalendar

-----------------------------------------------------------------------------
(* The lists. *)

Listed(o) == details[o].people \X {o}

AddIncidenceToLists(c, o) ==
  [c EXCEPT !.mAttendeeIncidences = @ \cup Listed(o),
            !.mGeoIncidences = IF details[o].geo THEN @ \cup {o} ELSE @]

\* Mutant: the people of the incidences stay listed.
RemovePlaceOnly(c, S) ==
  [c EXCEPT !.mGeoIncidences = @ \ {o \in S : details[o].geo}]

\* For each incidence of S, in whatever order.  It goes by what the incidence
\* says now, not by what is listed.
RemoveIncidenceFromLists(c, S) ==
  [c EXCEPT !.mAttendeeIncidences = @ \ UNION {Listed(o) : o \in S},
            !.mGeoIncidences = @ \ {o \in S : details[o].geo}]

-----------------------------------------------------------------------------
(* Looking for incidences.  An exception has a recurrence id. *)

SameInstance(o, p) ==
  /\ Kind[o] = Kind[p]
  /\ Uid[o] = Uid[p]
  /\ timing[o].recurrenceId = timing[p].recurrenceId

Old(c, o) == {p \in c.incidences : SameInstance(o, p)}

\* KCalendarCore's Calendar::duplicates().
Duplicates(c, o) ==
  {p \in c.incidences : /\ Kind[p] = Kind[o]
                        /\ Summary[p] = Summary[o]
                        /\ timing[p].start = timing[o].start}

\* An incidence is removed with its exceptions (MemoryCalendar).
WithExceptions(c, o) ==
  {o} \cup {p \in c.incidences : /\ timing[o].recurrenceId = Invalid
                                 /\ Kind[p] = Kind[o]
                                 /\ Uid[p] = Uid[o]}

-----------------------------------------------------------------------------
(* addEvent, addTodo, addJournal, deleteEvent and so on. *)

\* The incidences S of c one after the other, whose exceptions an earlier one
\* may have taken along.
DeleteIncidences(c, S) ==
  LET gone == UNION {WithExceptions(c, o) : o \in S}
  IN  RemoveIncidenceFromLists([c EXCEPT !.incidences = @ \ gone], gone)

Insert(c, o) == AddIncidenceToLists([c EXCEPT !.incidences = @ \cup {o}], o)

\* An event that is there already is refused; an old to-do or journal is
\* deleted if the new one has a higher revision.
AddIncidence(c, o) ==
  LET newer == Kind[o] # "Event" /\ \A p \in Old(c, o) : Revision[o] > Revision[p]
  IN  IF Old(c, o) = {} \/ newer
      THEN Insert(DeleteIncidences(c, Old(c, o)), o)
      ELSE c

\* One incidence of the list.  Its duplicates are deleted first; it is added
\* to the default notebook, if there is one.
AddIncidences(c, o, duplicateRemovalEnabled, hasDefaultNotebook) ==
  LET cleaned == DeleteIncidences(c, Duplicates(c, o))
  IN  CASE Duplicates(c, o) # {} /\ ~duplicateRemovalEnabled -> c
        [] OTHER -> IF hasDefaultNotebook THEN AddIncidence(cleaned, o) ELSE cleaned

-----------------------------------------------------------------------------
(* Actions.  An application adds an incidence when it is not changing it:   *)
(* startUpdates() before the incidence is added is not seen by the calendar. *)

Add(o) ==
  /\ o \in made \ editing
  /\ cal' = AddIncidence(cal, o)
  /\ UNCHANGED <<made, timing, details, editing>>

AddList(o) ==
  /\ o \in made \ editing
  /\ \E duplicateRemovalEnabled, hasDefaultNotebook \in BOOLEAN :
       cal' = AddIncidences(cal, o, duplicateRemovalEnabled, hasDefaultNotebook)
  /\ UNCHANGED <<made, timing, details, editing>>

Delete(o) ==
  /\ o \in cal.incidences
  /\ cal' = DeleteIncidences(cal, {o})
  /\ UNCHANGED <<made, timing, details, editing>>

IncidenceUpdate(c, o) == IF o \in c.incidences THEN RemoveIncidenceFromLists(c, {o}) ELSE c
IncidenceUpdated(c, o) == IF o \in c.incidences THEN AddIncidenceToLists(c, o) ELSE c

StartUpdates(o) ==
  /\ o \in made \ editing /\ Cardinality(editing) < MaxEditing
  /\ editing' = editing \cup {o}
  /\ cal' = IncidenceUpdate(cal, o)
  /\ UNCHANGED <<made, timing, details>>

Change(o) ==
  /\ o \in editing
  /\ \E d \in Details[o] : details' = [details EXCEPT ![o] = d]
  /\ UNCHANGED <<made, timing, editing, cal>>

EndUpdates(o) ==
  /\ o \in editing
  /\ editing' = editing \ {o}
  /\ cal' = IncidenceUpdated(cal, o)
  /\ UNCHANGED <<made, timing, details>>

\* An occurrence of its own at t: a to-do that is due somewhen is moved there with
\* its due date, anything else with its start.  An event has an end date.
Single(kind, series, t) ==
  LET from == IF kind = "Todo" /\ series.end # Invalid THEN series.end ELSE series.start
      Moved(date) == IF date = Invalid THEN Invalid ELSE date + (t - from)
  IN  [series EXCEPT !.start = Moved(@), !.end = Moved(@), !.recurs = FALSE,
                     !.times = {}, !.until = Invalid, !.recurrenceId = t]

\* The occurrence at t becomes an incidence of its own, which the application
\* adds afterwards; the series loses t, perhaps its last, and is changed like any
\* other incidence.
DissociateSingleOccurrence(o, t, new) ==
  /\ o \in made \ editing /\ timing[o].recurs
  /\ t \in timing[o].times
  /\ new \in Slot \ made /\ Kind[new] = Kind[o] /\ Uid[new] = Uid[o]
  /\ made' = made \cup {new}
  /\ timing' = [timing EXCEPT ![o].times = @ \ {t}, ![new] = Single(Kind[o], timing[o], t)]
  /\ details' = [details EXCEPT ![new] = details[o]]
  /\ cal' = IncidenceUpdated(IncidenceUpdate(cal, o), o)
  /\ UNCHANGED editing

\* deleteAllIncidences, storageModified and close.
Close ==
  /\ cal' = EmptyCalendar
  /\ UNCHANGED <<made, timing, details, editing>>

Next ==
  \/ \E o \in Object : Add(o) \/ AddList(o) \/ Delete(o)
  \/ \E o \in Object : StartUpdates(o) \/ Change(o) \/ EndUpdates(o)
  \/ \E o \in Object, new \in Slot : \E t \in timing[o].times : DissociateSingleOccurrence(o, t, new)
  \/ Close

Spec == Init /\ [][Next]_vars

-----------------------------------------------------------------------------
(* Queries. *)

Full(o) ==
  [f \in DOMAIN timing[o] \cup {"kind"} |-> IF f = "kind" THEN Kind[o] ELSE timing[o][f]]

AttendeeIncidences(email) == {o \in Object : <<email, o>> \in cal.mAttendeeIncidences}

ContactIncidences(email, from, to) ==
  {o \in AttendeeIncidences(email) : IsInRange(Full(o), -1, from, to)}

GeoIncidences(hasDate, from, to) ==
  {o \in cal.mGeoIncidences : Kind[o] # "Journal" /\ IsInRange(Full(o), hasDate, from, to)}

Incidences(hasDate, from, to) == {o \in cal.incidences : IsInRange(Full(o), hasDate, from, to)}

RawEvents == {Full(o) : o \in {p \in cal.incidences : Kind[p] = "Event"}}

-----------------------------------------------------------------------------
(* Properties. *)

Window == {Invalid} \cup {Midnight(d) : d \in 1 .. LastDay}

\* Asking for somebody's incidences, or for those with a place, gives what a
\* search of the whole calendar for the same time gives: nobody is left in the
\* lists after a deletion, a replacement or a change, and nobody is missing but
\* while the incidence is being changed.
ListsAreCurrent ==
  \A from, to \in Window :
    LET dated == Incidences(1, from, to) \ editing
        dateless == Incidences(0, from, to) \ editing
        placed(S) == {o \in S : details[o].geo /\ Kind[o] # "Journal"}
    IN  /\ \A email \in Email :
             ContactIncidences(email, from, to) = {o \in dated \cup dateless : email \in details[o].people}
        /\ GeoIncidences(1, from, to) = placed(dated)
        /\ GeoIncidences(0, from, to) = placed(dateless)

\* The days on which an occurrence that starts at t goes on.
DaysOf(e, t) == DayOf(t) .. DayOf(t + Length(e))
EventDays(events) == UNION {UNION {DaysOf(e, t) : t \in Times(e)} : e \in events}

Ended(e, date) == e.recurs /\ GetNextDateTime(e, Midnight(date + 1) - 1) = Invalid

\* nextEventsDate() gives the first later date with an event, and
\* previousEventsDate() the last earlier one, in whatever order the events come
\* and wherever they begin.  The former is told of no series that has ended.
NearestDates ==
  \A date \in 1 .. LastDay, events \in SetToAllKPermutations(RawEvents) :
    LET later == {d \in EventDays(RawEvents) : d > date}
        earlier == {d \in EventDays(RawEvents) : d < date}
    IN  Len(events) = Cardinality(RawEvents) =>
          /\ (\A e \in RawEvents : ~Ended(e, date)) =>
               NextEventsDate(events, date) = (IF later = {} THEN Invalid ELSE Min(later))
          /\ PreviousEventsDate(events, date) = (IF earlier = {} THEN Invalid ELSE Max(earlier))

\* The occurrences of e that rawExpandedEvents() is asked for.
Wanted(e, first, last, startInclusive, endInclusive) ==
  {t \in Times(e) :
     /\ IF startInclusive THEN DayOf(t) >= first ELSE DayOf(t + Length(e)) >= first
     /\ DayOf(t) <= last
     /\ endInclusive => t + Length(e) <= Midnight(last + 1)}

\* An occurrence that starts at t takes some of these days: the midnight it ends
\* at belongs to the day before.
DaysTaken(e, t) == DayOf(t) .. DayOf(IF Length(e) = 0 THEN t ELSE t + Length(e) - 1)

\* expandRecurrences() goes back to the last occurrence before the window only,
\* and not even there if none is left before that one, unless the series' own
\* first one reaches into the window.
Overlooked(e, t, first) ==
  LET before == {u \in e.times : u < Midnight(first)}
  IN  /\ e.recurs /\ t \in before
      /\ t = Min(e.times) \/ t # Max(before)
      /\ ~(e.start \in e.times /\ e.end > Midnight(first))

\* rawExpandedEvents() gives each wanted occurrence, but for a series without
\* length at the midnight it begins with, and otherwise only an event at the
\* midnight it ends with.  Unless its limit is hit, expandMultiDay(), behind
\* expandRecurrences(), gives each day of an occurrence that is not overlooked one
\* entry, and the last of them ends with the occurrence if no other began since.
DaysAreExpanded ==
  \A e \in RawEvents, first, last \in 1 .. LastDay, maxExpand \in Limit :
    LET all == ExpandRecurrences(e, Midnight(first), Midnight(last + 1), maxExpand)
        expanded(t) == ExpandMultiDay(e, t, first, last, maxExpand)
        edge == IF ~e.recurs THEN {Midnight(last + 1)} ELSE IF Length(e) = 0 THEN {Midnight(first)} ELSE {}
    IN  /\ \A startInclusive, endInclusive \in BOOLEAN :
             RawExpanded(e, first, last, startInclusive, endInclusive) \ edge
               = Wanted(e, first, last, startInclusive, endInclusive) \ edge
        /\ \A t \in Times(e) : \A d \in first .. last :
             LET there == {x \in IF t \in all.starts THEN expanded(t).entries ELSE {} : DayOf(x.start) = d}
             IN  /\ ~all.limitHit /\ ~expanded(t).limitHit =>
                      Cardinality(there) = IF d \in DaysTaken(e, t) /\ ~Overlooked(e, t, first) THEN 1 ELSE 0
                 /\ \A x \in there :
                      /\ x.start <= x.end
                      /\ d = DayOf(t + Length(e)) /\ ~(\E u \in Times(e) : t < u /\ u <= x.start) =>
                           x.end = t + Length(e)
=============================================================================
