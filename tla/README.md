# A verification model of mkcal

mkcal is the calendar library of Sailfish OS: applications keep an
`ExtendedCalendar` in memory, an `SqliteStorage` loads incidences into it from a
SQLite database that all processes of the user share, tracks what the application
changes, and saves it. This directory holds TLA+ modules of the parts of mkcal whose
behaviour depends on order, failure and concurrency, TLC configurations that check
them on small instances, and TLAPS proofs for any number of processes, incidences
and contents. Line numbers refer to `src/src/` of this repository unless a path says
otherwise.

## The system

| component | state | operations | interacts with |
|---|---|---|---|
| `Semaphore`, `ProcessMutex` (semaphore_p.cpp) | a System V semaphore set of three: ownership, connections, write access; the kernel's undo values | constructor (creates or attaches, counts the connection), `acquire`, `release` | all processes with the same database directory; the kernel at the end of a process |
| `SqliteStorage` (sqlitestorage.cpp) | the database handle, `mIsOpened`, `mIsLoading`, `mIsSaved`, three lists of pending incidences, the file watcher and `mPreWatcherDbTime` | `open`, `close`, `save`, the `load...` family, `purgeDeletedIncidences`, the queries, `modifyNotebook`, `fileChanged`, the observer methods | takes the lock around every access; observes the calendar; signals other processes through a file |
| `SqliteFormat` (sqliteformat.cpp) | none of its own; rows of `Components` and of the tables of properties, alarms, attendees, recurrences, dates, attachments | insert, update, mark deleted, delete, purge, select | called by `SqliteStorage` inside a transaction |
| `ExtendedStorage` (extendedstorage.cpp) | notebooks, the default notebook, the loaded date range and the flags of what is loaded, observers | notebook operations, range bookkeeping, alarms | `SqliteStorage` below, `ExtendedCalendar` and observers above, the `timed` daemon |
| `ExtendedCalendar` (extendedcalendar.cpp) | incidences, their notebooks, lists by attendee and location | add, delete, update, sort, expand | notifies the storage of each change, is emptied when the storage is modified |
| `Notebook` (notebook.cpp) | attributes and custom properties | setters | held by `ExtendedStorage` |
| `ServiceHandler`, plugins (servicehandler.cpp, plugins/) | the loaded plugins, the error of the last call | invitations, downloads, sharing | notebooks choose a plugin by name |
| mkcaltool, `DummyStorage` | none | reset alarms; nothing | |

### What is hard

* Processes create, use and abandon the semaphore set at any moment; the kernel
  undoes their operations, but `SETVAL` forgets what there is to undo.
* The lock is not recursive and knows no owner: a `release()` too many lets a second
  process in, one too few keeps everybody out. Error labels in `SqliteStorage` are
  shared by paths that hold the lock and paths that do not.
* A save is up to three transactions (inserts, updates, deletions), whatever the order
  of the changes; each list is cleared even if rows failed, before COMMIT is tried.
* Another process may have changed or deleted what this one has loaded, and a signal
  may empty the calendar while changes are pending.
* A storage notes which dates and lists it has loaded and never reads them again, while
  other processes change the table, signals empty the calendar, and pages with a limit
  continue from a cursor that the application keeps.
* Notebook operations and alarms are several steps outside one transaction.
* An incidence is one row and the rows of six tables beside it; failures in those are
  logged, not counted. Times are kept three ways, and the device may change its zone
  between writing and reading.
* The calendar keeps lists beside its incidences, and computes dates and occurrences
  from events in any order.

`PROJECT.json` lists these hazards at their lines, with the properties that watch
over them or the reason why none does yet.

### What makes each component correct

* **ProcessMutex**: mutual exclusion however processes come and go; the lock's unit
  and the connection count survive crashes; whoever asks is served; one owner.
* **SqliteStorage and the lock**: at most one user of the database, each path gives
  back what it took.
* **SqliteStorage and the table**: no incidence twice; a save that returns true has
  stored what it was asked; no change lost unnoticed; a transaction that failed is never
  committed by what follows; the table changes by whole lists.
* **Notebooks**: storage and calendar have the same ones, at most one row is the
  default, no incidence outlives its notebook, alarms follow the visibility.
* **SqliteFormat**: what is read is what was written, in any time zone, at any number
  of rounds; it is found again; a new row inherits nothing.
* **ExtendedCalendar**: what the lists and the queries give is what a search of all
  incidences gives.
* **Smart loading**: what is noted as loaded is in the calendar, whatever was loaded in
  whatever order; paging with a limit divides no date and comes to an end.

## The modules

| module | models |
|---|---|
| `Semaphore` | a System V semaphore set as the code uses it: `Up` and `Down` of one unit with `SEM_UNDO`, `SETVAL`, the undo at the end of a process. |
| `Lock` | abstract: a section for one process at a time. |
| `ProcessMutex` | instantiates `Semaphore`. `Get`, `Create`, `CreateLost` and `SetInitialValue` are `semaphoreInit` (60-103), one system call a step; `TakeOwnership`, `ReadConnections`, `CountConnection`, `DropOwnership` the constructor (209-228); `Acquire`, `Release`; `End` is an exit or a crash at any point, after which the process may start again. |
| `StorageLock` | the write-access semaphore as the methods of `SqliteStorage` use it. `open()`, `loadTimezones()`, `loadNotebooks()`, `fileChanged()` and `incidenceDeletedDate()` are followed from acquire to release with each error path; the methods that take the lock first and release it once on every path (`loadIncidences`, `selectIncidences`, `selectCount`, `purgeDeletedIncidences`, `modifyNotebook`, `save`) are one bracketed call. The constant `Faults` says which calls of SQLite may fail, and the history `skew` counts the units a process has too many or too few because one of the mistaken paths was taken. |
| `ComponentStore` | abstract: the life cycle of a row of Components (absent, live, deleted and kept as a tombstone, purged), changed by batches of one kind. |
| `SqliteStorage` | the observer methods, `save()` with `saveIncidences()`, loading, `purgeDeletedIncidences()`, `fileChanged()`, for any number of processes over one table, using `Lock` for the section that `ProcessMutex` implements. |
| `SmartLoad` | one storage that loads rows into its calendar by date range, by pages with a limit, by whole lists, and notes what it has; edits, deletions, saves, saves of others and the signal that empties it. |
| `ComponentFormat` | what `SqliteFormat` turns an incidence into and back: the columns of Components and the rows of Customproperties, Attendee, Alarm, Recursive, Rdates and Attachments. Operators only. |
| `ComponentTables` | `save()` with `modifyComponents` statement by statement over these tables: insertion with the purge of deleted rows, update, marking, deletion, `purgeDeletedIncidences()`; a statement of any of them may fail; a new process may read in another time zone. |
| `Notebooks` | the notebooks of `ExtendedStorage` and `SqliteStorage`, their rows, their incidences and the alarms in the `timed` daemon; each call in its transactions, with failures, an end of the process and calls of others in between. |
| `CalendarQueries` | `nextEventsDate`, `previousEventsDate`, `rawExpandedEvents`, `expandRecurrences`, `expandMultiDay`, and the tests of `incidences(...)`. Operators only. |
| `CalendarLists` | the lists by person and place that `ExtendedCalendar` keeps, through additions, replacements, changes, dissociations and deletions (of a set, for a series takes its exceptions with it and `addIncidences()` deletes every duplicate), with the queries of `CalendarQueries` over what is in the calendar. |
| `MC...` | instances for TLC. |
| `...Proofs` | theorems about the module they are named after. |

`ProcessMutex` implements `Lock` (`ImplementsLock`, checked and proved), which
`SqliteStorage` composes with the table; `SqliteStorage` implements `ComponentStore`
(`ImplementsStore`, checked and proved). `ComponentTables` is the inside of what is one row in
`SqliteStorage`, and extends `ComponentFormat`; `CalendarLists` extends
`CalendarQueries`; `SmartLoad` and `Notebooks` look at the same storage from other
sides, with the save as one step.

### SqliteStorage: state and code

| variable | code |
|---|---|
| `inside` | the process between `acquire()` and `release()` of a save |
| `db`, `img`, `writer` | the committed table, the table inside the open transaction, who has it open. A table is a set of live rows and a number of tombstones (rows with `DateDeleted` set) per key. |
| `cal`, `content`, `filed` | the calendar's incidence objects, their content, the uids it has a notebook for |
| `pend` | `mIncidencesToInsert`, `mIncidencesToUpdate`, `mIncidencesToDelete` |
| `pc`, `looping`, `work`, `deleteAction`, `errors`, `isSaved` | where `save()` is, its loop over a list, its argument and its counters |
| `event` | the watcher's signal in the event loop's queue |
| `asked`, `failed` | history, for the properties only |

A key is a uid with a recurrence id; an object is a pointer, told apart from others
with its key by `copy`. Content stands for all columns, with its revision. There is
one writable notebook. The calls of an application happen between calls of the
storage, as the code is synchronous: a process is `Idle` or in `save()`. A load takes
the lock and gives it back in one step, for all it changes is the memory of its
process. SQLite is assumed to isolate an open transaction, to roll it back when its
process ends, and to enforce the unique index on (UID, RecurId, DateDeleted) of
sqlitestorage.h:568. BEGIN fails after the busy timeout when another connection has
a transaction open.

### SmartLoad: state and code

| variable | code |
|---|---|
| `from`, `to` | `mStart`, `mEnd`: the range of dates that is loaded; `NoDate` is an invalid date |
| `loaded` | the flags `mIs...Loaded`, one for each kind of load that has one |
| `last` | the `QDateTime *last` an application passes to a load with a limit and gets back |
| `page` | `loadIncidences()` in its loop: the rows SQLite has still to return, `previous`, `count`. The rows come in the order of the query, those at equal dates in any order. |
| `cal`, `pending` | the incidences in the calendar; those in `mIncidencesToUpdate` or `mIncidencesToDelete`, which `addIncidence()` refuses |
| `db`, `event` | the live rows; a signal in the event loop's queue |
| `blind` | history: the flags set by a load whose `acquire()` was refused |

A row is one version of one incidence with `DateStart` and `DateEndDue` (0 if it has
none). The constants say which rows a kind of load selects (`Matches`), by which column
it is ordered (`Column`), and which date `loadIncidences()` computes from the incidence
it has read (`Date`). `Column` and `Date` differ for all-day events in a list by end date, where the
table has one day more; neither the model nor the theorems assume that they agree. A save is one step
here, `SqliteStorage` has its parts. A load of a range is one step too, because nothing
can happen between its rows: the code is synchronous and the lock is held. A load with a
limit is followed row by row for its stop condition. The calendar is only emptied by a
signal, so every storage of this module watches.

### ComponentFormat and ComponentTables: state and code

| variable | code |
|---|---|
| `zone` | the system's time zone, another one perhaps after a reload |
| `obj`, `state` | the incidence of each key, and which of the three lists it is in |
| `rows`, `lastId` | Components, and `AUTOINCREMENT` of its ComponentId (sqlitestorage.h:541) |
| `sub` | the six tables, the rows of each ComponentId; `Null` is where unbound values go |
| `phase`, `deleteAction` | the list `save()` is at, its argument |
| `leftover` | `query2` to `query13` of an earlier list of the same save are still there |
| `stuck` | the statement that selects deleted rows was left in use by a failed purge (sqliteformat.cpp:183-204) |
| `faults`, `failed`, `written` | bound and history |

A time is a wall clock reading and the zone it is read in. A stored time has the
columns of the code: seconds of UTC, seconds of the clock, and the zone's name,
`FloatingDate` or nothing. `GetDateTime` uses the clock where the zone is missing or not
known to the device. Columns that are copied without conversion stand together as
`summary`. One process writes; `SqliteStorage` has the concurrency and the order of
changes to one incidence.

### Notebooks: state and code

| variable | code |
|---|---|
| `rows`, `stored` | Calendars and the incidences in Components |
| `timed` | how many events the alarm daemon has for an incidence |
| `listed`, `object`, `default` | `mNotebooks`, the `Notebook` objects an application shares with it, `mDefaultNotebook` |
| `known`, `shown` | the notebooks of the calendar, those visible |
| `pending` | `mIncidencesToInsert` |
| `call` | the step at which a call is: `default`, `chosen` (setDefaultNotebook), `clear`, `set` (the alarms of updateNotebook), `incidences` (deleteNotebook), `initialize` (open of an empty database) |
| `event`, `misread` | a change of another process that is not reported yet, a reload that did not read every row |
| `blind` | history: something was done while `event` or `misread` |
| `left` | history: the incidences that the deletion of their notebook did not reach, or that were saved when its row was gone |
| `stale` | history: the incidences whose alarms a call did not bring into line with the row of their notebook; the next save or switch that does takes them out again |

The histories are the exceptions of the properties: `blind` of `OneDefaultRow` only, `left`
of `NoOrphans`, `left` and `stale` of `AlarmsFollowVisibility`. They name single incidences,
so a failure or a call of another process excuses only what it left behind; the section on
what the runs found says what that is. `unread` in `DeleteIncidences` are the incidences
whose `load()` fails in `deleteNotebook()` (430-436). An application is assumed to leave
the flag `isDefault` to `setDefaultNotebook()`, though `Notebook::setIsDefault()` is public
(notebook.h:318) and `addNotebook()` would store what it set.

### CalendarLists: state and code

| variable | code |
|---|---|
| `made`, `timing`, `details`, `editing` | the incidences an application holds, their times, their people and place, those between `startUpdates()` and `endUpdates()` |
| `cal` | the calendar's incidences, `mAttendeeIncidences`, `mGeoIncidences` |

Queries change nothing, so they are operators, and the properties compare them with a
reference definition in every reachable calendar, for every order of the events and
every range of days. The lists are sets: that a person is entered twice, as an organizer who
also attends may be, is not seen. `Single` is the incidence that dissociating an occurrence
makes: a to-do that is due is moved with its due date, anything else with its start
(extendedcalendar.cpp:212-242). An event is taken to have an end of its own.

## The runs

Properties named here are defined and commented at the end of each module.

| run | instance | shows |
|---|---|---|
| `mutex_fresh` | 3 processes, no set at first | `MutualExclusion` and `ImplementsLock` through every race to create the set, with crashes and restarts at any step; under fairness `ConstructorTerminates`, unless the creator died before it set a value |
| `mutex_attached` | 3 processes, the set exists | `LockConserved`, `ConnectionsCounted`, `OneInitialProcess`; `AcquireTerminates` under fairness |
| `lock_handled` | 3 storages, failures whose path releases once | `OneUser`, and under fairness `CallsProceed` |
| `lock_faults` | 2 storages, every failure | `Balanced`: only the named failures leak a unit or give one too many; `NotLostForGood`: a unit that is missing is missing only as long as some process lives |
| `store_single` | 1 process, 1 key, 2 objects, 2 contents, every failure | `CleanIsStored`, `SaveKeepsPromise`, `StrandedForGood` |
| `store_shared` | 2 processes, one of them watching, 1 key, 2 contents, rows may fail | `OneRowPerKey`, `SaveKeepsPromise` of the one that does not watch |
| `store_batches` | 1 process, 2 keys, 2 contents, COMMIT may fail | `ImplementsStore`, and under fairness `SavesReturn` |
| `store_readded` | 1 process, 1 key, 2 objects | `ReAddedIsStored` fails: a finding |
| `smart_pages` | 3 rows, one of an all-day event, 2 days, 2 kinds of pages (one each way), a whole list, the lock may be refused | `RangeLoaded`, `FlagsHonest`, `CursorCovers`, and under fairness `PagingEnds` |
| `tables` | 2 keys of one uid, 3 contents, 2 time zones and one the device does not know, 1 failing statement | `LoadedIsWritten`, `LoadedIsFound`, `RoundTripStable`, `NoTombBesideLive`, `NewRowStartsEmpty` |
| `notebooks` | 2 notebooks, 2 incidences of one of them, 1 failure or call of another process | `RegistryAgrees`, `OneDefaultRow`, `NoOrphans`, `AlarmsFollowVisibility` |
| `lists` | a series, an event, a to-do in 2 revisions of which one recurs, an exception of either, 4 days | `ListsAreCurrent`, `NearestDates`, `DaysAreExpanded` |

**Bounds.** Processes are symmetric and interact through one semaphore set or one
table; three processes in the mutex give a creator, a loser of the race and one that
finds the set, or a holder, a waiter and a process that ends. Two objects of one key
give an incidence that is deleted and added again; two keys give a batch. Two contents are an older
and a newer revision. `MaxTombs = 2` bounds the deleted rows of one key and
`MaxUnits = 2` the surplus of the lock, both by guards that are marked as bounds;
a third unit or tombstone meets no condition in the code that a second does not. The
rows of `smart_pages` are one that begins and ends between the two days, in the gap a
careless range would leave, one that goes on after, and an all-day event whose end the
table has a day later: by column it comes between the others, by date before them, so a
page that ends with it passes over the first. In the order of the future two rows have the
same date, so that with a limit of one a date can be divided. Its days give ranges apart,
joined and open; that ranges may overlap in any way, and rows without end, are in the
theorems only.

In `tables` an all-day meeting has every kind of row (rules, exclusions, dates, alarms,
binary attachments, an organizer who is also an attendee, an e-mail to two recipients), its
exception is a whole day, and a to-do with times replaces it in an edit, due in a zone the
device does not know (events and journals with times are in the theorems only). `MaxRowId = 2`
gives a row whose id a later one must not reuse, a deleted row beside a new one, and a series
beside its exception; one failure (`MaxFaults`) is one uncounted statement in the middle of a save, in Attachments, the only
table whose loop ends at a failure (in the others one row is lost); the proofs let any of
them fail. `stuck` would need a third insertion in a save to keep a deleted row that a later
insertion should have purged, so here it only shows in `failed`. In `notebooks` the one
trouble, a failure or a call of another process, may fall between any two steps and ends of
the process are not bounded; its two incidences are interchangeable (symmetry); read-only notebooks are in the module and its
proofs, and not in the instance. A day has four hours in `lists`, so
that an event may take part of a day, several days, begin or end at midnight, or take no time
at all, and its series have occurrences that overlap, that are excluded, or that have no length;
every occurrence may be dissociated, the last one too;
it is expanded with a limit that is reached and one that is not (`Limit`). At most one incidence
is being changed at once.

**Deadlock** is checked except in `lock_faults`, where a leaked lock may leave
processes that wait; they may still end, so nothing rests on the exception.

**Fairness.** In `ProcessMutex` and `StorageLock` a running process is scheduled
(weak fairness of its own steps, the code between acquire and release has no loop
that waits) and the kernel serves the sleepers of a semaphore in turn (strong
fairness of the blocking decrements). In `SqliteStorage` only `save()` is fair, once
it has the lock: it is synchronous code. No process has to start, call, end, or
receive a signal. In `SmartLoad` the loop of a load with a limit is fair for the same
reason, and so is the application that asks for page after page, the use the cursor is
made for; `PagingEnds` supposes that the table no longer changes.

## What the runs found

* **Deleted and added again in one save** (`store_readded`). The insert meets the old
  row and fails, the old row is then marked deleted, both lists are cleared (1488-1598).

The modules show more of the kind when a constant is changed or an exception is taken out
of a property; these have no run:

* A second release. `StorageLock` with `Faults = {"tzStep"}`: `open()` releases before
  `loadTimezones()`, which releases on failure, after which `open()` releases again at its
  label (sqlitestorage.cpp:2557-2562, 303). The unit given back is another process's, two
  storages are inside, and `OneUser` fails.
* A save that returns true and stores nothing. `SaveKeepsPromise` without its exception of
  `Watching`: after the signal of another process the pending incidences have no notebook; `save()` skips
  them without an error and clears the list (1743-1746, 1809), where extendedstorage.h:354
  says "@return True if successful; false otherwise".
* A page that skips rows. All-day events are stored with an end one day late, read back
  without that day, and the date read back is the cursor that the next page compares with
  the column (1297-1325, sqliteformat.cpp:336-340, 1282-1288, sqlitestorage.h:695-696). The
  rows between the two are passed over and the list is yet flagged as loaded: in
  `smart_pages` the event of the afternoon, after a page that ended with the all-day event of
  the same day. `Overtaken` names these rows, in `FlagsHonest` and `CursorCovers`; without
  it both fail.
* `StorageLock` with `Faults = {"sqlite3_open"}`: `open()` leaves the lock taken (176-182)
  and `CallsProceed` fails. With `{"notOpened"}`: `incidenceDeletedDate()` on a closed
  storage releases a lock it never took (2229-2256) and `OneUser` fails. A unit too many
  may outlive the process that gave it: the kernel takes nothing back. `Balanced` counts
  these failures in `skew` and holds of all the others.
* `ProcessMutex` from a fresh set: the creator sets ownership before the connection
  count; who connects in between is counted, then `SETVAL` sets the count back to zero
  and the creator too takes itself for the first (semaphore_p.cpp:89-100, 219-220), so
  `OneInitialProcess` fails. A creator that ends before it has set the ownership
  semaphore leaves it at zero, and every later constructor waits until the set is
  removed or the device boots again: `Orphaned`, the one exception of `ConstructorTerminates`. A later death of the
  creator stops no constructor.
* `SqliteStorage` with `"commit"` or `"prepare"` in `Faults`: the transaction outlives the
  lock, of a save (1677-1688, 1849) as of a purge (1399-1428), and nothing rolls it back. A
  later list of the same process cannot begin inside it and those of the others run into
  the busy timeout, so it lasts until its process ends (or closes the database, which is not
  modelled), and what it wrote is lost: `StrandedForGood`. `purgeDeletedIncidences()` returns
  true if its COMMIT fails, for `error` is 0 already (1424), where extendedstorage.h says
  "True on success, false otherwise".
* With three keys, two of them of one uid, a load passes over an incidence
  that has no local changes: `isContaining()` runs past the entries of the uid
  (1196-1205; `SeemsPending` against `IsPending`).
* `SmartLoad`: a refused `acquire()` returns 0 where the header promises -1
  (1276-1279, extendedstorage.h:230): the flag is set and nothing was read, which is why
  `FlagsHonest` makes an exception of `blind`. A load with a start and no end reads no
  row without an end (sqlitestorage.h:677-678) and yet notes the range up to 9999: without
  `Ended`, `RangeLoaded` fails. An invalid cursor stands for the largest time forwards
  too, so `loadFutureIncidences()` that begins with one selects nothing and sets its
  flag (955-970): `Cursor0` of `future` is therefore a date.
* `ComponentTables`: a save that inserts or updates and then marks incidences as deleted
  runs the old list's insertions again, because `MarkDeleted` sets `query1` only
  (1584-1588): rows with no ComponentId, which nothing ever reads or removes, and the
  attachments of the deleted incidence a second time. `LoadedIsWritten` is stated for
  deleted rows up to the attachments added behind. A purge that fails leaves its select
  statement unreset, and none of the later ones of the list works (sqliteformat.cpp:183-204).
* `ComponentFormat`: the e-mail addresses of an alarm are joined with spaces and split at
  commas (sqliteformat.cpp:719, 1833), so several recipients come back as one, and the
  properties compare the text they make; a to-do that is due on the day it starts comes back as not all-day; the organizer is an attendee
  after the first round; comments come back one per word; the uri of an attachment is bound
  from memory that is gone when it is read (1040-1042). A time in a zone the device does not know
  is loaded as one of the local clock, and the next save stores it as one of the zone the device
  is then in (1228-1238, 219-244): `RoundTripStable` says so. The to-do is outside the
  assumptions on the contents, and the properties compare the rest accordingly.
* `Notebooks`, the exceptions. Left without a notebook (`left`; `NoOrphans`): what
  `deleteNotebook()` cannot find or load, all of it if its save fails or the process ends
  between row and incidences, all of a read-only notebook, whose row goes nonetheless, and
  what is saved when the row is gone: by another process's deletion, or by the very save of
  this one's, which first inserts what is pending in the notebook. Alarms that disagree with
  the row of the notebook (`stale`; `AlarmsFollowVisibility`): where timed failed or the
  process ended before it; where a save or `updateNotebook()` went by the visibility in the
  calendar, which is not the row's if another process has switched the notebook or the
  row could not be written, so a retry of `updateNotebook()` finds nothing to do; where
  `setDefaultNotebook()`, which writes all columns, stored a visibility; and where another
  process switched the notebook between the row and the alarms. Alarms are reset before COMMIT and for
  rows that failed. Two processes that open an empty database both create a default
  notebook, and a default chosen on rows that were not read leaves two default rows
  (`blind`; `OneDefaultRow`). `createDefaultNotebook()` returns a notebook even if it could
  not be added; `addNotebook()` dereferences its argument before it tests it;
  `deleteNotebook(nb, true)` deletes the row as well, where extendedstorage.h:560 says
  "only from memory but not from database".
* `CalendarQueries`, the exceptions: a series that has ended gives `nextEventsDate()` an
  invalid date that replaces what was found (extendedcalendar.cpp:494-498; `Ended`).
  `expandRecurrences()` searches from the last occurrence but one before the window, so of
  three that overlap it finds two, and it overlooks the first occurrence left when the
  series' own first one is excluded and it began before the window (1006-1014; `Overlooked`).
  `rawExpandedEvents()` includes an event that begins exactly at the midnight after the last
  day (458) and leaves out an occurrence without length at the midnight the window begins with,
  if it is one of a series (443). `expandMultiDay()` makes `maxExpand + 1` entries (1134). The
  entry of the first of several days ends with the day the event ends on (864), where the comment
  at 127 says that it ends on its own; of an event that ends at a midnight, which has no entry on
  the day that begins there, the last one ends a day later. `nextEventsDate()` does count that day.
* `CalendarLists`: an incidence that is added between its `startUpdates()` and
  `endUpdates()` is listed by what it said before the change and again by what it says
  after. `addIncidences()` deletes duplicates even if the new incidence is then refused
  (1474-1483).

Reading the parts that have no module showed: `getServicePlugin()` tests `mServices`
before the plugins are loaded, `mError` is never reset, and `downloadAttachment()` returns
an id when it fails (servicehandler.cpp:158-315); the invitation plugin's `sendResponse()`
does not call `uninit()`; a copied `Notebook` loses its custom properties and its
`operator==` ignores two attributes.

## What is proved

TLAPS proves these for every value of the constants that satisfies their named
assumptions: any set of processes, keys, contents, rows, notebooks, any bound.

| theorem | assumption | argument |
|---|---|---|
| `ProcessMutexProofs!TypeCorrect`, `Exclusion`, `Refinement` | none | `MutexInvariant`: before the write semaphore is set its value is 0 and nobody can be past the constructor; after, its value plus the number of processes inside is at most one, and a process outside owes it nothing. The clamp of the kernel's undo never adds a unit. |
| `LockKept`, `CountExact`, `OneOwner` | the set exists at the start, finitely many processes | `AttachedInvariant`: each undo value equals what the process's position says, so values are sums over positions. Without the assumption all three fail (see above). |
| `StorageLockProofs!TypeCorrect` | none | one step per action |
| `LockBalanced` (`Balanced`) | none | inductive with the type: every step changes the undo value of its process, `skew` and where the process is in agreement |
| `Exclusion` (`OneUser`) | `Faults` within `HandledFaults` | `LockInvariant`: the one process inside, or at the label of a failed `open()`, is the one with an undo value of 1, and the semaphore is 0 exactly then. |
| `LockComesBack` (`NotLostForGood`) | none | `UnitsKept`: the value of the semaphore and the units the kernel owes (`Owed`, pairs of a process and a number, minus `Due`, what it would take back) never sum to less than the one unit of the start. The processes that are owed anything are finitely many at any time, so there may be infinitely many in all. |
| `SqliteStorageProofs!TypeCorrect` | none | not inductive alone: needs that a loop runs over one of the three lists (`SavingOK`) |
| `RowsUnique` (`OneRowPerKey`) | purging does not fail | inductive with the type, over the committed table and the open transaction's alike (`SingleStatements`) |
| `SqliteStorageSaveProofs!BatchesOnly` (`ImplementsStore`) | purging does not fail | `Isolation`: only who holds the lock runs a loop, in a transaction of its own, and without a transaction the image is the table. `Batches`: the open transaction has left each key as it was or changed it in the one way of its list. COMMIT of that is a step of the store, every other step a stutter. |
| `PromiseKept` (`SaveKeepsPromise`) | none | `OnTheWay`: until an error is counted, what was asked to be written is still in its list, alone with its key, or in the image that the save has reached, and what was asked to be erased is still to be deleted or has no row. Needs `Isolation`, and `StaysFiled`: without signals nothing loses its notebook. |
| `NeverCommitted` (`StrandedForGood`) | none | a stranded transaction blocks every BEGIN, its own process's too; COMMIT needs a list in its loop, and the one writer has none |
| `NothingUntracked` (`CleanIsStored`) | one process, as the property says: another one may change the table at any time | `Clean`, until something fails: what is in the calendar and in no list is in the image as it is, what is to be updated or deleted has a row, and no two pending objects of one list have the same key (`Tidy`). The calendar has one object of a key (`CalendarOK`). |
| `SmartLoadProofs!TypeCorrect` | none | one step per action |
| `RangeHasNoGap` (`RangeLoaded`) | none | `RangeInvariant`: a range has both bounds or none, in order; a row within the extended range was in the old one or is among those read |
| `FlagsAreHonest` (`FlagsHonest`), `CursorsCover` (`CursorCovers`) | none; dates and columns may differ in any way | `ListInvariant`, of `CursorInvariant` and `PageInvariant`: what lies behind a cursor and was not overtaken is present; while a page is read, what has been read of it is present and the rest is not before the last row's column, so a page that stops leaves only rows strictly after its cursor or between it and that column, and one that is left with no rows has reached the end |
| `NotebooksProofs!TypeCorrect`, `RegistryCorrect` (`RegistryAgrees`) | none | inductive together: a visible notebook is one of the calendar's because storage and calendar have the same (`Registered`); besides, the flag in memory is on the default notebook only (`FlagIsDefault`) |
| `DefaultCorrect` (`OneDefaultRow`) | none | `DefaultInvariant`: as long as the process has read every row, a default row can only be that of its own default notebook (`DefaultIsKnown`), there is none between the two transactions of a change, and the row of a notebook that is being deleted is gone |
| `NoOrphansEver` (`NoOrphans`) | none | the first part of `AlarmInvariant` (`Housed`): a stored incidence has a notebook, or is of the one being deleted, or in `left` |
| `AlarmsAreRight` (`AlarmsFollowVisibility`) | none | `AlarmInvariant`, the second part (`Followed`): the alarms of a stored incidence that is neither `left` nor `stale` follow the visibility in the row of its notebook, or the one that the call in its second step is about to switch. Each step changes the row of one notebook at most, and a step that changes the row, or the alarms, without the other puts the incidences it passes by in `stale`. |
| `ComponentTablesProofs!NewRowsEmpty` (`NewRowStartsEmpty`) | none | `IInv`: under an id that was not given yet nothing is stored in any table; every action is `Confined`, it adds rows beside Components only under ids that have been given |
| `ComponentTablesProofs!TypeCorrect` | the contents' assumptions below | `Progress` of the save, and `Room`: each incidence still to be inserted has an id left |
| `FoundAgain` (`LoadedIsFound`), `TombsPurged` (`NoTombBesideLive`) | the same | `IdentityInv`: each row carries the instant of its key's recurrence id, in a zone the device knows (`RowsSound`), so has each incidence in memory (`MemorySound`), each key has at most one live row and none while it is to be inserted (`OneLiveRow`). What is stored of a recurrence id is loaded as the same instant in any zone (`StoredRecur`, `LoadedRecur`). |
| `TimesComeBack`, `NoDrift` | the same | `WrittenInv`: each row is what `ComponentRow` makes of what was last written, in the zone of then. That a row gives the incidence back is `RowReturns`, from `EventReturns`, `TodoReturns` and `JournalReturns`, and these from what a date and a time come back as (`DateStored`, `TimeStored`) and from arithmetic of days (`NextDay`). |
| `TablesKept` | the same | `TablesAreWritten` is inductive with `IInv` (an insertion finds its tables empty) and `IdentityInv` (only live rows are marked, so attachments are added behind their own): what a table holds is `Accepted` of `Rows` of what was last written, whatever these are |
| `WrittenComesBack` (`LoadedIsWritten`) | the same | `ListsInv` beside `WrittenInv` and `TablesAreWritten`: what is in memory and what was last written have lists that rows can carry (`ListsOf`), and every table holds only rows that `Rows` could have made (`Made`). Then each table gives its list back (`TableReturns`): `AttendeesBack`, `AlarmsBack`, `RulesBack`, `RdatesBack` and `AttachmentsBack` follow a list through the loop that writes it (`KeptPicks`, `RulesOrdered`), the rows the table accepts (`AcceptedAll`) and the loop that reads it. Of a deleted row the attachments are those of the rows and more behind them (`FirstCut`). |
| `RoundTrips` (`RoundTripStable`) | the same | `ListsReturn`: what any tables of `Made` rows are read as has again lists that rows can carry, so the second round is an instance of the first; with `RowReturns` for the row of Components and `EndStays` for the end |
| `CalendarListsProofs!ListsCurrent` (`ListsAreCurrent`) | finitely many incidences, each with a kind and a revision; nothing is assumed of duplicates, exceptions or details | `ListInv`: the two lists are exactly what the calendar's incidences say, those between `startUpdates()` and `endUpdates()` left out. Every call is a composition of two operations that keep it, adding a new incidence and deleting a set (`Calendar`). |
| `NearestFound` (`NearestDates`) | `TimingAssumption`, see below | `TimingInv`: to dissociate an occurrence leaves events with such times. One turn of each loop keeps that what was found is the nearest day of the events seen so far (`NextFound`, `PreviousFound`), so the loop's end does, whatever the order and number of the events (`SearchFinds`) |
| `DaysExpanded` (`DaysAreExpanded`) | `TimingAssumption` | Which occurrences the search finds (`StartsFound`, with `EarliestAll` for the limit), which entries it makes of one of them (`EntriesOfDay`) and when these end (`EntryEnds`); of `rawExpandedEvents()`, `RawIsWanted` |

The assumptions on the contents of `ComponentTables` say what the code needs from its
callers. `RecurrenceAssumption`: a recurrence id is in a zone the device knows or in local
time, for what is in another zone is found by its instant in one session and by its clock in
the next. `IdentityAssumption`: two incidences of one uid never have their recurrence ids at
the same instant, wherever the device is when either is saved; that leaves out two exceptions
of which one is in local time and falls on the other after a change of zone, and a recurrence
id at the very origin of time, which selects the row of the series. `TimesAssumption`: an event
or a journal has a start, and an all-day to-do has one that is days before it is due; others
come back changed (1273-1276, 1316-1318 of sqliteformat.cpp): an event without start begins at
the origin of time, an all-day to-do that is due the day it starts or has no start comes back
with times. `ListsAssumption`: no two attendees share an address, for the table has one row
of each (the FIXME at 931); an alarm that is not repeated has no time to wait, for the code
stores 0 (733-735), and recipients only if it is an e-mail; a rule ends by its count, at a
date, or never; an attachment with content is not empty, for what is empty is not read
(1936-1944). `TimingAssumption` is about the events of `CalendarLists`: one does not end before it
starts, and a series has finitely many occurrences, not before its start and at the same time of
day. An hourly rule or a further date at another time may go over a midnight that the first
occurrence does not, and the code counts the days of the first. A rule without end is not
modelled. TLC evaluates all of these on the instances.

Two proofs found the model wrong. `RoundTripStable` claimed that an end is stored again as it
was, which is false for a zone the device does not know (see above; the instance had none).
And `EventTimes` and `ListAfter` had a CASE whose arms overlapped, so that their value was not
determined; they now follow the order of the tests in the code.

The prover has no induction that could be applied to the folds over events, rows and words.
Where something is claimed for any number of them, the proof takes the least number for which it
fails, which exists because `<` on the natural numbers is well-founded (`LeastNat`), and shows
that the one before it fails as well; that the function a fold is defined with exists at all is
shown in the same way (`SearchExists`, `FoldExists`, `FlattenExists`). The loops that skip
elements are such a fold, `Kept`, and not `SelectSeq`, whose definition the prover does not open.

Two properties were false beyond the instance as it was, which the proofs showed: an event that
ends at a midnight has no entry on the day that begins there, a series without length is left out
at the first midnight of `rawExpandedEvents()`, and `expandRecurrences()` overlooks more than the
first occurrence that is left. `DaysTaken`, `Wanted` and `Overlooked` now say so exactly, and the
instance has such events.

Only model-checked: liveness (`AcquireTerminates`, `ConstructorTerminates`, `CallsProceed`,
`SavesReturn`, `PagingEnds`), which the prover does not handle under fairness. Every
other property of the runs that pass is a theorem, within the assumptions above; the runs
show that these do not empty them.

## Not modelled

* Of the lock: system calls that fail for lack of memory or permission, and the
  timeouts that no caller passes.
* Of `SqliteStorage`: closing and opening again (the lists survive it, as do the range, the
  flags and the calendar of smart loading, while the signals sent meanwhile are missed),
  moving an incidence to another notebook, the replacement of uids shorter than seven
  characters, and a failing `acquire()` in the calls that make a save. `mPreWatcherDbTime`
  (2568) would need a clock and the granularity of the file system.
* Of smart loading: a save whose COMMIT fails (it forgets its lists and tells nobody, see
  `SqliteStorage`), changes that move an incidence to other dates before the save, and
  incidences that have not been saved yet.
* Of `SqliteFormat`: the properties of calendars, the contacts, and the copy of columns
  without conversion: the column Duration (1354-1357) and the flag that makes a recurrence
  all-day, set from the rule's end or the incidence's own flag when a rule is read (1668), are
  left out of `ReadComponent`. Of the contents of `tables`, see the bounds.
* Of `Notebooks`: the columns besides the two flags, the calendar's own default notebook
  (KCalendarCore's), an application that sets `isDefault` by itself, the time an alarm is set
  for, and others' calls in parts.
* Of `ExtendedCalendar`: all-day events in the queries, the visibility of notebooks, sorting,
  the counts, the selections of to-dos and invitations by state, the dissociation of all
  future occurrences, the creation date it gives to one occurrence, events without an end of
  their own, series without end.
* `ServiceHandler` and the plugins: a table that is filled once and calls that are passed on;
  the one state is the error of the last call. The invitation plugin calls the modelled
  operations; the rest of it is iCalendar text and e-mail. `DummyStorage` and mkcaltool keep
  no state.

## Plan

Done: the lock and its users, the pending changes and the save, smart loading, the tables of
an incidence, notebooks and alarms, the calendar's lists and queries.

1. All-day events and the visibility of notebooks in `CalendarQueries`; read-only notebooks in
   the instance of `Notebooks`.
2. `Signals`: the changed file, `mChanged.resize(0)`, `mPreWatcherDbTime` and the event loop,
   with a process that ends between release and signal, and a storage that is closed and opened
   again.
3. Proofs: the same theorems for what the two items above add, among them the expansion of
   all-day events.
