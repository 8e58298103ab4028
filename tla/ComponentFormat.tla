--------------------------- MODULE ComponentFormat ---------------------------
(***************************************************************************)
(* How src/src/sqliteformat.cpp turns an incidence into columns and back:  *)
(* one row of Components, and the rows of Customproperties, Attendee,      *)
(* Alarm, Recursive, Rdates and Attachments that carry its ComponentId.    *)
(* Columns that are copied as they are stand together as one value, the    *)
(* summary; times are wall clock readings in a time zone.  The column      *)
(* Duration (1354-1357) and the flag that a recurrence is all-day (1668)   *)
(* are left out.                                                           *)
(***************************************************************************)
EXTENDS Integers, Sequences, SequencesExt

CONSTANTS
  DayLength,  \* the length of a day
  Zone,       \* ids of time zones, "UTC" among them
  Known,      \* those the device knows when it reads
  Offset      \* [Zone -> Int], what a zone's clock is ahead of UTC

ASSUME DayAssumption == DayLength \in Nat \ {0}
ASSUME ZoneAssumption ==
  /\ "UTC" \in Known /\ Known \subseteq Zone
  /\ Zone \cap {"", "local", "none", "FloatingDate"} = {}
  /\ Offset \in [Zone -> Int] /\ Offset["UTC"] = 0

\* A QDateTime: its reading, and the zone it is read in or Qt::LocalTime.
DateTime == [spec : Zone \cup {"local"}, wall : Int]
NoTime == [spec |-> "none", wall |-> 0]
Local(w) == [spec |-> "local", wall |-> w]

Midnight(w) == w % DayLength = 0
DateOf(w) == w - (w % DayLength)
AddDays(dt, n) == [dt EXCEPT !.wall = @ + n * DayLength]

ZoneOf(dt, system) == IF dt.spec = "local" THEN system ELSE dt.spec

\* toOriginTime
Instant(dt, system) == dt.wall - Offset[ZoneOf(dt, system)]

-----------------------------------------------------------------------------
(* Date and time: three columns. *)

DateColumns == [utc : Int, clock : Int, zone : Zone \cup {"", "FloatingDate"}]

SetDateTime(dt, allDay, system) ==
  IF dt = NoTime THEN [utc |-> 0, clock |-> 0, zone |-> ""]
  ELSE [utc   |-> Instant(dt, system),
        clock |-> dt.wall,
        zone  |-> IF allDay THEN "FloatingDate" ELSE ZoneOf(dt, system)]

\* The clock is used when the zone is missing or not known.
GetDateTime(c) ==
  CASE c.zone = "" ->
         IF c.utc = 0 /\ c.clock = 0 THEN NoTime ELSE Local(c.clock)
    [] c.zone = "FloatingDate" -> Local(DateOf(c.clock))
    [] c.zone \in Known -> [spec |-> c.zone, wall |-> c.utc + Offset[c.zone]]
    [] OTHER -> Local(c.clock)

\* getDateTime's isDate.
IsDate(c) ==
  \/ c.zone = "FloatingDate"
  \/ c.zone = "" /\ GetDateTime(c) # NoTime /\ Midnight(c.clock)

\* Events are stored with the day after their last one, for old databases.
EventColumns(e, system) ==
  [start |-> SetDateTime(e.start, e.allDay, system),
   end   |-> SetDateTime(IF e.allDay /\ e.end # NoTime THEN AddDays(e.end, 1) ELSE e.end,
                         e.allDay, system)]

\* Mutant: the added day is not taken off again.
EventTimesLonger(c) ==
  [allDay |-> IsDate(c.start) /\ (GetDateTime(c.end) = NoTime \/ IsDate(c.end)),
   start |-> GetDateTime(c.start), end |-> GetDateTime(c.end)]

EventTimes(c) ==
  LET start == GetDateTime(c.start)
      end == GetDateTime(c.end)
      allDay == IsDate(c.start) /\ (end = NoTime \/ IsDate(c.end))
      last == AddDays(end, -1)
  IN  [allDay |-> allDay,
       start  |-> IF start = NoTime THEN [spec |-> "UTC", wall |-> 0] ELSE start,
       end    |-> IF ~allDay \/ end = NoTime THEN end
                  ELSE IF last = start THEN NoTime ELSE last]

\* The end of a to-do is its due date.
TodoColumns(t, system) ==
  [start |-> SetDateTime(t.start, t.allDay, system),
   end   |-> SetDateTime(t.end, t.allDay, system)]

TodoTimes(c) ==
  LET start == GetDateTime(c.start)
      due == GetDateTime(c.end)
  IN  [allDay |-> /\ IsDate(c.start)
                  /\ due = NoTime \/ (IsDate(c.end) /\ due.wall > start.wall),
       start  |-> start,
       end    |-> due]

JournalTimes(c) ==
  [allDay |-> IsDate(c.start), start |-> GetDateTime(c.start), end |-> NoTime]

TimeColumns(i, system) ==
  CASE i.kind = "Event" -> EventColumns(i, system)
    [] i.kind = "Todo" -> TodoColumns(i, system)
    [] OTHER -> [start |-> SetDateTime(i.start, i.allDay, system),
                 end   |-> SetDateTime(NoTime, FALSE, system)]

Times(kind, c) ==
  CASE kind = "Event" -> EventTimes(c)
    [] kind = "Todo" -> TodoTimes(c)
    [] OTHER -> JournalTimes(c)

-----------------------------------------------------------------------------
(* The row of Components. *)

\* Mutant: a recurrence id is stored as a date if the incidence is all-day.
FloatingRecurrence(i, system) == SetDateTime(i.recurrenceId, i.allDay, system)

\* The comparisons of recurrence ids need the instant, never a date.
RecurrenceColumns(i, system) == SetDateTime(i.recurrenceId, FALSE, system)

\* Lists of texts are joined with spaces, a text is a sequence of words.
ComponentRow(i, system) ==
  [kind     |-> i.kind,
   time     |-> TimeColumns(i, system),
   summary  |-> i.summary,
   comments |-> FlattenSeq(i.comments),
   recur    |-> RecurrenceColumns(i, system)]

\* What selectRowId compares with RecurId.
RecurId(i, system) ==
  IF i.recurrenceId = NoTime THEN 0 ELSE Instant(i.recurrenceId, system)

-----------------------------------------------------------------------------
(* The rows of an incidence in the other tables. *)

Table == {"Customproperties", "Attendee", "Alarm", "Recursive", "Rdates", "Attachments"}

Map(s, Op(_)) == [n \in DOMAIN s |-> Op(s[n])]

\* The elements of a sequence that are in S.
Kept(s, S) == FoldLeft(LAMBDA kept, x : IF x \in S THEN Append(kept, x) ELSE kept, <<>>, s)

\* A text that is empty.
Empty == ""

CustompropertyRows(i) == i.properties

\* The organizer comes first, with the role an attendee has by default.  Those
\* without email and the organizer's own entry are skipped.
AttendeeRows(i) ==
  (IF i.organizer = Empty THEN <<>>
   ELSE << [email |-> i.organizer, organizer |-> TRUE, role |-> "REQ-PARTICIPANT"] >>)
  \o Map(Kept(i.attendees, {a \in ToSet(i.attendees) : a.email \notin {Empty, i.organizer}}),
         LAMBDA a : [email |-> a.email, organizer |-> FALSE, role |-> a.role])

\* No repetition, no snooze; a trigger is an offset or a time.
AlarmRow(a, system) ==
  [action   |-> a.action,
   text     |-> a.text,
   address  |-> IF a.action = "Email" THEN FlattenSeq(a.recipients) ELSE <<>>,
   repeat   |-> a.repeat,
   snooze   |-> IF a.repeat = 0 THEN 0 ELSE a.snooze,
   relation |-> IF a.trigger = "time" THEN Empty ELSE a.trigger,
   offset   |-> IF a.trigger = "time" THEN 0 ELSE a.offset,
   time     |-> SetDateTime(IF a.trigger = "time" THEN a.time ELSE NoTime, FALSE, system),
   enabled  |-> a.enabled]

AlarmRows(i, system) == Map(i.alarms, LAMBDA a : AlarmRow(a, system))

RecursiveRow(r, allDay, system) ==
  [type  |-> r.type, by |-> r.by, count |-> r.count,
   until |-> SetDateTime(r.until, allDay, system)]

\* The rules, then the exclusions.
RecursiveRows(i, system) ==
  LET OfType(t) == Kept(i.rules, {r \in ToSet(i.rules) : r.type = t})
  IN  Map(OfType("RRULE") \o OfType("EXRULE"),
          LAMBDA r : RecursiveRow(r, i.allDay, system))

\* Dates float; date-times do when they are the local midnight of an all-day
\* incidence.
Floats(d, allDay) ==
  \/ d.type \in {"RDate", "XDate"}
  \/ allDay /\ d.at.spec = "local" /\ Midnight(d.at.wall)

RdateRow(d, allDay, system) ==
  [type |-> d.type, at |-> SetDateTime(d.at, Floats(d, allDay), system)]

RdateRows(i, system) ==
  LET OfType(t) == Kept(i.rdates, {d \in ToSet(i.rdates) : d.type = t})
  IN  Map(OfType("RDate") \o OfType("XDate") \o OfType("RDateTime") \o OfType("XDateTime"),
          LAMBDA d : RdateRow(d, i.allDay, system))

\* A uri is bound as SQLITE_STATIC from a buffer that is gone when the row is
\* inserted: what is stored is the uri or what the memory holds by then.
AttachmentRows(i, freed) ==
  Map(Kept(i.attachments, {a \in ToSet(i.attachments) : a.form \in {"binary", "uri"}}),
      LAMBDA a : IF freed /\ a.form = "uri" THEN [a EXCEPT !.value = "freed"] ELSE a)

Rows(t, i, system, freed) ==
  CASE t = "Customproperties" -> CustompropertyRows(i)
    [] t = "Attendee" -> AttendeeRows(i)
    [] t = "Alarm" -> AlarmRows(i, system)
    [] t = "Recursive" -> RecursiveRows(i, system)
    [] t = "Rdates" -> RdateRows(i, system)
    [] OTHER -> AttachmentRows(i, freed)

-----------------------------------------------------------------------------
(* Reading them back. *)

\* The addresses are split at commas, the row has spaces.
ReadAlarm(r) ==
  LET time == GetDateTime(r.time)
  IN  [action     |-> r.action,
       text       |-> r.text,
       recipients |-> IF r.action # "Email" \/ r.address = <<>> THEN <<>> ELSE <<r.address>>,
       repeat     |-> r.repeat,
       snooze     |-> r.snooze,
       trigger    |-> IF time # NoTime THEN "time" ELSE r.relation,
       offset     |-> IF time # NoTime THEN 0 ELSE r.offset,
       time       |-> time,
       enabled    |-> r.enabled]

\* A count has no end date; neither of them is a rule without end.
ReadRule(r) ==
  LET until == GetDateTime(r.until)
  IN  [type  |-> r.type, by |-> r.by,
       until |-> IF r.count > 0 THEN NoTime ELSE until,
       count |-> IF r.count = 0 /\ until = NoTime THEN -1 ELSE r.count]

ReadRdate(r) ==
  LET at == GetDateTime(r.at)
  IN  [type |-> r.type,
       at   |-> IF r.type \in {"RDate", "XDate"} THEN Local(DateOf(at.wall)) ELSE at]

\* The organizer is an attendee from now on.
ReadAttendee(r) == [email |-> r.email, role |-> r.role]

ReadOrganizer(rows) ==
  LET organizers == {n \in DOMAIN rows : rows[n].organizer}
  IN  IF organizers = {} THEN Empty ELSE rows[CHOOSE n \in organizers : TRUE].email

\* sub[t] are the rows of table t with the row's id.
ReadComponent(row, sub) ==
  LET times == Times(row.kind, row.time)
  IN  [kind         |-> row.kind,
       allDay       |-> times.allDay,
       start        |-> times.start,
       end          |-> times.end,
       recurrenceId |-> GetDateTime(row.recur),
       summary      |-> row.summary,
       comments     |-> Map(row.comments, LAMBDA word : <<word>>),
       properties   |-> sub["Customproperties"],
       organizer    |-> ReadOrganizer(sub["Attendee"]),
       attendees    |-> Map(sub["Attendee"], ReadAttendee),
       alarms       |-> Map(sub["Alarm"], ReadAlarm),
       rules        |-> Map(sub["Recursive"], ReadRule),
       rdates       |-> Map(sub["Rdates"], ReadRdate),
       attachments  |-> LET rows == sub["Attachments"]
                        IN  Kept(rows, {a \in ToSet(rows) : a.value # Empty})]
=============================================================================
