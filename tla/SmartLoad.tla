------------------------------ MODULE SmartLoad ------------------------------
(***************************************************************************)
(* Smart loading: one storage loads the rows of the Components table into  *)
(* its calendar piece by piece, and notes what it has so that it need not  *)
(* ask again: the range of dates (getLoadDates and setLoadDates of         *)
(* src/src/extendedstorage.cpp), and a flag for each kind of load with a   *)
(* limit (the load... methods of src/src/sqlitestorage.cpp), of which the  *)
(* application keeps a cursor.  Other processes write the table meanwhile. *)
(*                                                                         *)
(* A row stands for one version of an incidence; times are ticks and the   *)
(* dates of a range are the ticks at which days begin.  How a save writes  *)
(* is in SqliteStorage: here it is one step.                               *)
(***************************************************************************)
EXTENDS Integers, FiniteSets

CONSTANTS
  Row,        \* the rows that may be in the table
  Start,      \* DateStart of a row, 0 if it has none
  End,        \* DateEndDue of a row, 0 if it has none
  Day,        \* the ticks at which days begin
  FirstDay,   \* 0001-01-01
  LastDay,    \* 9999-12-31
  Paged,      \* the kinds of load with a limit and a cursor
  Whole,      \* the kinds of load that have a flag and no limit
  Ascending,  \* those of Paged that go forwards in time
  Matches,    \* the rows a kind of load selects
  Selections, \* the sets of rows that the loads that note nothing select
  Column,     \* the column a paged load is ordered by, of each row
  Date,       \* the date loadIncidences takes of the incidence it has read
  Cursor0,    \* the cursor an application starts a paged load with
  Limits,     \* the limits the application passes
  Faults      \* a subset of {"acquire"}: the lock may be refused

NoDate == 0
Kind == Paged \cup Whole

ASSUME RowAssumption ==
  /\ IsFiniteSet(Row)
  /\ Start \in [Row -> Nat] /\ End \in [Row -> Nat]
  /\ \A r \in Row : End[r] # NoDate => Start[r] <= End[r]
ASSUME DayAssumption ==
  /\ Day \subseteq Nat \ {NoDate}
  /\ FirstDay \in Day /\ LastDay \in Day
  /\ \A d \in Day : FirstDay <= d /\ d <= LastDay
  /\ \A r \in Row : Start[r] <= LastDay
  /\ \A r \in Row : End[r] # NoDate => FirstDay <= End[r]
ASSUME KindAssumption ==
  /\ Ascending \subseteq Paged /\ Paged \cap Whole = {}
  /\ Matches \in [Kind -> SUBSET Row]
  /\ Column \in [Paged -> [Row -> Nat \ {NoDate}]]
  /\ Date \in [Paged -> [Row -> Nat \ {NoDate}]]
  /\ Cursor0 \in [Paged -> Nat]
ASSUME SelectionsAssumption == Selections \subseteq SUBSET Row
ASSUME LimitsAssumption == Limits \subseteq Nat
ASSUME FaultsAssumption == Faults \subseteq {"acquire"}

VARIABLES
  db,      \* the live rows of the table
  event,   \* a signal of the file watcher waits for the event loop
  cal,     \* the rows whose incidences are in the calendar
  pending, \* the incidences of mIncidencesToUpdate and mIncidencesToDelete
  from,    \* mStart
  to,      \* mEnd
  loaded,  \* the flags mIs...Loaded
  last,    \* the cursor of each paged load, as the application keeps it
  blind,   \* history: the flags set by a load that did not get the lock
  page     \* a load with a limit in its loop: the rows left to read, the date
           \* of the last one, the incidences added

range == <<from, to>>
flags == <<loaded, last, blind>>
vars == <<db, event, cal, pending, range, flags, page>>

Page == [kind : Paged, limit : Limits, rest : SUBSET Row, previous : Nat, count : Nat]
NoPage == [kind |-> "none"]
Idle == page = NoPage

TypeOK ==
  /\ db \subseteq Row
  /\ event \in BOOLEAN
  /\ cal \subseteq Row
  /\ pending \subseteq Row
  /\ from \in Day \cup {NoDate}
  /\ to \in Day \cup {NoDate}
  /\ loaded \in [Kind -> BOOLEAN]
  /\ last \in [Paged -> Nat]
  /\ blind \subseteq Kind
  /\ page \in Page \cup {NoPage}

\* clearLoaded, and an application that begins its lists anew.
Cleared ==
  /\ from' = NoDate /\ to' = NoDate
  /\ loaded' = [k \in Kind |-> FALSE]
  /\ last' = Cursor0
  /\ blind' = {}

Init ==
  /\ db \in SUBSET Row
  /\ event = FALSE
  /\ cal = {} /\ pending = {}
  /\ from = NoDate /\ to = NoDate
  /\ loaded = [k \in Kind |-> FALSE]
  /\ last = Cursor0
  /\ blind = {}
  /\ page = NoPage

\* addIncidence takes a row unless the calendar has the incidence, or a change
\* or deletion of it is not yet saved.
Taken(S) == S \ (cal \cup pending)

-----------------------------------------------------------------------------
(* The range of dates *)

\* The three queries by date: both bounds, the start only, the end only.
ByDate(T, a, b) ==
  {r \in T :
     /\ b # NoDate => Start[r] <= b
     /\ a # NoDate => End[r] >= a \/ (b # NoDate /\ End[r] = NoDate)}

IsLoaded(a, b) ==
  /\ a # NoDate /\ from # NoDate /\ a >= from
  /\ b # NoDate /\ to # NoDate /\ b <= to

\* Mutant: only what was asked for is loaded, not what lies between it and the
\* range.
LoadStartAsked(a) == a

LoadStart(a) == IF a # NoDate /\ from # NoDate /\ a >= from THEN to ELSE a
LoadEnd(b) == IF b # NoDate /\ to # NoDate /\ b <= to THEN from ELSE b

\* Mutant: the end of a range counts as part of it.
SetLoadDatesInclusive(a, b) ==
  /\ from' = IF a # NoDate /\ (from = NoDate \/ a < from) THEN a ELSE from
  /\ to' = IF b # NoDate /\ (to = NoDate \/ b > to) THEN b + 1 ELSE to

SetLoadDates(a, b) ==
  /\ from' = IF a # NoDate /\ (from = NoDate \/ a < from) THEN a ELSE from
  /\ to' = IF b # NoDate /\ (to = NoDate \/ b > to) THEN b ELSE to

\* load(start, end) when the range is not loaded yet; load(date) is the range
\* of one day.  Nothing is noted if nothing was added.  The lock refused is no
\* step: 0 is returned and nothing changes.
LoadDates(a, b) ==
  LET s == LoadStart(a)
      e == LoadEnd(b)
      got == Taken(ByDate(db, s, e))
  IN  /\ Idle
      /\ ~IsLoaded(a, b)
      /\ a # NoDate /\ b # NoDate => a <= b
      /\ got # {}
      /\ cal' = cal \cup got
      /\ IF s = NoDate /\ e = NoDate THEN UNCHANGED range
         ELSE SetLoadDates(IF s = NoDate THEN FirstDay ELSE s,
                           IF e = NoDate THEN LastDay ELSE e)
      /\ UNCHANGED <<db, event, pending, flags, page>>

\* The loads that note nothing: all, one incidence, a series, a notebook,
\* journals, plain, recurring, geo and attendee incidences, a contact's.
LoadSome(S) ==
  /\ Idle
  /\ Taken(S \cap db) # {}
  /\ cal' = cal \cup Taken(S \cap db)
  /\ UNCHANGED <<db, event, pending, range, flags, page>>

-----------------------------------------------------------------------------
(* Loads with a limit *)

\* Is r after s in the order of the query.
After(k, r, s) ==
  IF k \in Ascending THEN Column[k][r] > Column[k][s]
  ELSE Column[k][r] < Column[k][s]

\* The rows of a query from a cursor on.  A cursor that is not valid is taken
\* for the largest time, whatever the direction.
Selected(T, k, cursor) ==
  {r \in T \cap Matches[k] :
     IF k \in Ascending THEN cursor # NoDate /\ Column[k][r] >= cursor
     ELSE cursor = NoDate \/ Column[k][r] <= cursor}

\* A call of a load with a limit, with the lock taken, up to its loop.
LoadPage(k, l) ==
  /\ Idle
  /\ ~loaded[k]
  /\ page' = [kind |-> k, limit |-> l, rest |-> Selected(db, k, last[k]),
              previous |-> NoDate, count |-> 0]
  /\ UNCHANGED <<db, event, cal, pending, range, flags>>

\* The rows SQLite may return next.
Heads == {r \in page.rest : \A s \in page.rest : ~After(page.kind, r, s)}

\* Mutant: the limit divides a date.
StopsAnywhere(r) == page.limit > 0 /\ page.count > page.limit

\* The loop stops before a row that has a new date once the limit is exceeded.
Stops(r) ==
  /\ page.previous \notin {NoDate, Date[page.kind][r]}
  /\ page.limit > 0 /\ page.count > page.limit

\* Mutant: an incidence counts that was there before.
CountedRead(r) == 1

\* What counts is an incidence that is added.
Counted(r) == IF r \in Taken(page.rest) THEN 1 ELSE 0

ReadRow(r) ==
  /\ ~Idle
  /\ r \in Heads
  /\ ~Stops(r)
  /\ cal' = cal \cup Taken({r})
  /\ page' = [page EXCEPT !.rest = @ \ {r}, !.previous = Date[page.kind][r],
                          !.count = @ + Counted(r)]
  /\ UNCHANGED <<db, event, pending, range, flags>>

\* The cursor becomes the date of the last row read, invalid if there is none;
\* the flag is set if fewer incidences were added than the limit.
EndPage ==
  /\ ~Idle
  /\ page.rest = {} \/ \E r \in Heads : Stops(r)
  /\ last' = [last EXCEPT ![page.kind] = page.previous]
  /\ loaded' = [loaded EXCEPT ![page.kind] = page.count < page.limit]
  /\ page' = NoPage
  /\ UNCHANGED <<db, event, cal, pending, range, blind>>

\* loadUncompletedTodos and loadUnreadInvitationIncidences.
LoadWhole(k) ==
  /\ Idle
  /\ ~loaded[k]
  /\ cal' = cal \cup Taken(db \cap Matches[k])
  /\ loaded' = [loaded EXCEPT ![k] = TRUE]
  /\ UNCHANGED <<db, event, pending, range, last, blind, page>>

\* The lock is refused: loadIncidences returns false, that is 0, which is less
\* than the limit and not negative.
LoadRefused(k, l) ==
  /\ Idle
  /\ "acquire" \in Faults
  /\ ~loaded[k]
  /\ k \in Paged => l > 0
  /\ loaded' = [loaded EXCEPT ![k] = TRUE]
  /\ blind' = blind \cup {k}
  /\ UNCHANGED <<db, event, cal, pending, range, last, page>>

-----------------------------------------------------------------------------

\* The application deletes an incidence.
Delete(r) ==
  /\ Idle
  /\ r \in cal
  /\ cal' = cal \ {r} /\ pending' = pending \cup {r}
  /\ UNCHANGED <<db, event, range, flags, page>>

\* The application changes an incidence, but not the row's columns that matter
\* here.
Edit(r) ==
  /\ Idle
  /\ r \in cal
  /\ r \notin pending
  /\ pending' = pending \cup {r}
  /\ UNCHANGED <<db, event, cal, range, flags, page>>

\* save() whose COMMITs work: deletions that fail or have lost their notebook
\* stay; the lists are cleared and the save signals itself too.
Save(kept) ==
  /\ Idle
  /\ pending # {}
  /\ db' = db \ (pending \ (cal \cup kept)) /\ pending' = {}
  /\ event' = TRUE
  /\ UNCHANGED <<cal, range, flags, page>>

\* Another process saves and signals.
OthersSave(T) ==
  /\ Idle
  /\ T # db
  /\ db' = T
  /\ event' = TRUE
  /\ UNCHANGED <<cal, pending, range, flags, page>>

\* Mutant: the flags survive.
FileChangedKeepsFlags ==
  /\ Idle
  /\ event
  /\ event' = FALSE
  /\ cal' = {}
  /\ from' = NoDate /\ to' = NoDate
  /\ UNCHANGED <<db, pending, flags, page>>

\* fileChanged: clearLoaded, and storageModified empties the calendar.
FileChanged ==
  /\ Idle
  /\ event
  /\ event' = FALSE
  /\ cal' = {}
  /\ Cleared
  /\ UNCHANGED <<db, pending, page>>

Next ==
  \/ \E a, b \in Day \cup {NoDate} : LoadDates(a, b)
  \/ \E S \in Selections : LoadSome(S)
  \/ \E k \in Paged, l \in Limits : LoadPage(k, l)
  \/ \E r \in Row : ReadRow(r)
  \/ EndPage
  \/ \E k \in Whole : LoadWhole(k)
  \/ \E k \in Kind, l \in Limits : LoadRefused(k, l)
  \/ \E r \in Row : Delete(r) \/ Edit(r)
  \/ \E kept \in SUBSET pending : Save(kept)
  \/ \E T \in SUBSET Row : OthersSave(T)
  \/ FileChanged

Spec == Init /\ [][Next]_vars

\* The loop of a load is synchronous; the application goes on asking for the
\* next page of each list, with a limit.
FairSpec ==
  /\ Spec
  /\ WF_vars((\E r \in Row : ReadRow(r)) \/ EndPage)
  /\ \A k \in Paged : WF_vars(\E l \in Limits \ {0} : LoadPage(k, l))

-----------------------------------------------------------------------------
(* Properties.  They speak of a storage that no signal waits for, and of the *)
(* incidences without a pending change.                                      *)

\* The rows of T are in the calendar, or about to be changed in the table.
Present(T) == T \ pending \subseteq cal

Ended == {r \in Row : End[r] # NoDate}

\* What load(start, end) takes for loaded is in the calendar, as far as it has
\* an end: no gap is left between ranges that were loaded in any order, with
\* any bound left open (extendedstorage.cpp:138-179).  The query with the start
\* bound alone passes over rows without an end.
RangeLoaded ==
  ~event /\ from # NoDate => Present(ByDate(db, from, to) \cap Ended)

\* The rows whose date is not their column: all-day events in a list by end
\* date, where the table has one day more (sqliteformat.cpp:336-340, 1282-1288).
Converted(k) == {s \in Matches[k] : Date[k][s] # Column[k][s]}

\* The rows a page may pass over because it ended with such an event: the next
\* one begins at its date, beyond the rows that lie between it and its column.
Overtaken(k, r) ==
  \E s \in Converted(k) \ {r} :
    \/ Column[k][s] <= Column[k][r] /\ Column[k][r] < Date[k][s]
    \/ Date[k][s] < Column[k][r] /\ Column[k][r] <= Column[k][s]

\* A list whose flag says that it is loaded has been loaded to its end, from
\* where the application began it, page by page, whatever other processes and
\* other loads did in between (sqlitestorage.cpp:821-827 and the like).  Not so
\* in two cases: a flag that was set by a load that did not get the lock
\* (blind), and the rows next to an all-day event in a list by end date
\* (Overtaken).
FlagsHonest ==
  ~event => \A k \in Kind \ blind : loaded[k] =>
    Present(IF k \in Paged
            THEN {r \in Selected(db, k, Cursor0[k]) : ~Overtaken(k, r)}
            ELSE db \cap Matches[k])

\* Has a cursor moved beyond a row, or is the row one of those at its date.
Passed(k, r) ==
  \/ Column[k][r] = last[k] /\ \A s \in Converted(k) : s # r /\ Date[k][s] # last[k]
  \/ IF k \in Ascending THEN Column[k][r] < last[k] ELSE Column[k][r] > last[k]

\* Everything up to and at the date a page returned is in the calendar: a date
\* is never divided between two pages (sqlitestorage.cpp:1304-1315).  Not so for
\* the rows next to an all-day event in a list by end date (Overtaken), for that
\* event itself, and for those at the date a page that ended with it returned.
CursorCovers ==
  ~event => \A k \in Paged : last[k] \notin {NoDate, Cursor0[k]} =>
    Present({r \in Selected(db, k, Cursor0[k]) : Passed(k, r) /\ ~Overtaken(k, r)})

\* An application that asks for page after page comes to the end of its list,
\* once the table no longer changes.
PagingEnds == (<>[]~event) => \A k \in Paged : <>[]loaded[k]
=============================================================================
