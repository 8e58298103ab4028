---------------------------- MODULE SqliteStorage ----------------------------
(***************************************************************************)
(* The tracking and saving of local changes in src/src/sqlitestorage.cpp:  *)
(* each process has a calendar in memory and three lists of pending        *)
(* incidences that the calendar's notifications fill; save() writes them   *)
(* to the Components table in up to three transactions under the lock of   *)
(* ProcessMutex; load() and fileChanged() bring in what others wrote.      *)
(*                                                                         *)
(* An incidence object is a pointer: the lists hold objects, so a deleted  *)
(* object and a new one with the same uid and recurrence id are distinct.  *)
(* There is one writable notebook; a uid is filed in it or in none.        *)
(***************************************************************************)
EXTENDS Integers

CONSTANTS
  Proc,        \* the processes, each with one storage and one calendar
  Watching,    \* those whose event loop delivers the file watcher's signal
  Key,         \* identities of incidences: records with uid and recurrenceId
  Copies,      \* distinguishes the objects that have the same key
  FirstCopy,   \* the copy a load creates
  Content,     \* what the application can write into an incidence
  Revision,    \* [Content -> Nat]
  Validate,    \* validateNotebooks of the storage
  HasZone,     \* the calendar has a valid time zone
  Faults,      \* the calls of SQLite that may fail, a subset of AllFaults
  MaxTombs     \* bound on the tombstones of one key

AllFaults == {"timezone", "begin", "prepare", "row", "purge", "commit"}

ASSUME WatchingAssumption == Watching \subseteq Proc
ASSUME CopiesAssumption == FirstCopy \in Copies /\ Content # {}
ASSUME RevisionAssumption == Revision \in [Content -> Nat]
ASSUME SwitchAssumption == Validate \in BOOLEAN /\ HasZone \in BOOLEAN
ASSUME FaultsAssumption == Faults \subseteq AllFaults
ASSUME MaxTombsAssumption == MaxTombs \in Nat \ {0}

VARIABLES
  inside,    \* the lock, see Lock
  db,        \* the committed Components table
  img,       \* the table as the open transaction has it, db if none is open
  writer,    \* the process with an open transaction, as a set
  cal,       \* the objects in each calendar
  content,   \* the content of each process's objects
  filed,     \* the uids each calendar associates with the notebook
  pend,      \* mIncidencesToInsert, mIncidencesToUpdate, mIncidencesToDelete
  pc,        \* the point of save() a process has reached
  looping,   \* is it between BEGIN and COMMIT
  work,      \* the incidences its loop has left
  deleteAction,
  errors,    \* has the running save() counted an error
  isSaved,   \* mIsSaved
  event,     \* a signal of the file watcher waits for the event loop
  asked,     \* history: what the running save() was asked to write and erase
  failed     \* history: has a save() of this process returned false

table == <<db, img, writer>>
memory == <<cal, content, filed>>
saving == <<pc, looping, work, deleteAction, errors, isSaved>>
history == <<asked, failed>>
vars == <<inside, table, memory, pend, saving, event, history>>

Obj == [key : Key, copy : Copies]
Uid == {k.uid : k \in Key}
Row == [key : Key, content : Content, filed : BOOLEAN]
Table == [live : SUBSET Row, tombs : [Key -> Nat]]
Phase == {"insert", "update", "delete"}
Action == {"MarkDeleted", "PurgeDeleted"}

Point == Phase \cup {"idle", "unlock", "signal"}
Asked == [write : SUBSET Obj, again : SUBSET Obj, erase : SUBSET Key]
NothingAsked == [write |-> {}, again |-> {}, erase |-> {}]

Mutex == INSTANCE Lock

TypeOK ==
  /\ inside \subseteq Proc
  /\ db \in Table /\ img \in Table
  /\ writer \subseteq Proc
  /\ cal \in [Proc -> SUBSET Obj]
  /\ content \in [Proc -> [Obj -> Content]]
  /\ filed \in [Proc -> SUBSET Uid]
  /\ pend \in [Proc -> [Phase -> SUBSET Obj]]
  /\ pc \in [Proc -> Point]
  /\ looping \in [Proc -> BOOLEAN]
  /\ work \in [Proc -> SUBSET Obj]
  /\ deleteAction \in [Proc -> Action]
  /\ errors \in [Proc -> BOOLEAN]
  /\ isSaved \in [Proc -> BOOLEAN]
  /\ event \in [Proc -> BOOLEAN]
  /\ asked \in [Proc -> Asked]
  /\ failed \in [Proc -> BOOLEAN]

EmptyTable == [live |-> {}, tombs |-> [k \in Key |-> 0]]

\* The content of objects nobody has filled in yet is of no account.
Blank == [o \in Obj |-> CHOOSE c \in Content : TRUE]

NoPending == [ph \in Phase |-> {}]

Init ==
  /\ Mutex!LockInit
  /\ db = EmptyTable /\ img = EmptyTable
  /\ writer = {}
  /\ cal = [p \in Proc |-> {}]
  /\ content = [p \in Proc |-> Blank]
  /\ filed = [p \in Proc |-> {}]
  /\ pend = [p \in Proc |-> NoPending]
  /\ pc = [p \in Proc |-> "idle"]
  /\ looping = [p \in Proc |-> FALSE]
  /\ work = [p \in Proc |-> {}]
  /\ deleteAction = [p \in Proc |-> "MarkDeleted"]
  /\ errors = [p \in Proc |-> FALSE]
  /\ isSaved = [p \in Proc |-> FALSE]
  /\ event = [p \in Proc |-> FALSE]
  /\ asked = [p \in Proc |-> NothingAsked]
  /\ failed = [p \in Proc |-> FALSE]

Idle(p) == pc[p] = "idle"
OfKey(S, k) == {x \in S : x.key = k}
Keys(S) == {x.key : x \in S}

-----------------------------------------------------------------------------
(* The calendar: what the application does between calls of the storage,   *)
(* with the notification each change makes.                                *)

\* calendarIncidenceAdded
Added(lists, o) == [lists EXCEPT !["insert"] = @ \cup {o}]

\* calendarIncidenceChanged
Changed(lists, o) ==
  IF o \in lists["insert"] THEN lists ELSE [lists EXCEPT !["update"] = @ \cup {o}]

\* calendarIncidenceDeleted
Deleted(lists, o) ==
  IF o \in lists["insert"] THEN [lists EXCEPT !["insert"] = @ \ {o}]
  ELSE [lists EXCEPT !["delete"] = @ \cup {o}]

\* addEvent, addTodo and addJournal with a new object, or one that was deleted
\* before.  setNotebook notifies a change that the insertion absorbs.
Add(p, o, c) ==
  /\ Idle(p)
  /\ OfKey(cal[p], o.key) = {}
  /\ cal' = [cal EXCEPT ![p] = @ \cup {o}]
  /\ content' = [content EXCEPT ![p][o] = c]
  /\ filed' = [filed EXCEPT ![p] = @ \cup {o.key.uid}]
  /\ pend' = [pend EXCEPT ![p] = Added(@, o)]
  /\ UNCHANGED <<inside, table, saving, event, history>>

\* addTodo and addJournal when the calendar has an older revision: it is
\* deleted first.  Other duplicates are refused.
Replace(p, o, c) ==
  /\ Idle(p)
  /\ o \notin cal[p]
  /\ \E old \in OfKey(cal[p], o.key) :
       /\ Revision[c] > Revision[content[p][old]]
       /\ cal' = [cal EXCEPT ![p] = (@ \ {old}) \cup {o}]
       /\ pend' = [pend EXCEPT ![p] = Added(Deleted(@, old), o)]
  /\ content' = [content EXCEPT ![p][o] = c]
  /\ filed' = [filed EXCEPT ![p] = @ \cup {o.key.uid}]
  /\ UNCHANGED <<inside, table, saving, event, history>>

\* A setter of the incidence, between startUpdates and endUpdates.
Edit(p, o, c) ==
  /\ Idle(p)
  /\ o \in cal[p] /\ content[p][o] # c
  /\ content' = [content EXCEPT ![p][o] = c]
  /\ pend' = [pend EXCEPT ![p] = Changed(@, o)]
  /\ UNCHANGED <<inside, table, cal, filed, saving, event, history>>

\* deleteIncidence; the uid keeps its notebook.
Delete(p, o) ==
  /\ Idle(p)
  /\ o \in cal[p]
  /\ cal' = [cal EXCEPT ![p] = @ \ {o}]
  /\ pend' = [pend EXCEPT ![p] = Deleted(@, o)]
  /\ UNCHANGED <<inside, table, content, filed, saving, event, history>>

-----------------------------------------------------------------------------
(* Loading.  It takes the lock, reads and releases it in one step here: all *)
(* it changes is the memory of the process.                                *)

\* The table as the process sees it: through its own open transaction.
View(p) == IF p \in writer THEN img ELSE db

IsPending(p, k) == \E ph \in Phase : OfKey(pend[p][ph], k) # {}

\* isContaining() starts at an entry with the uid and walks to the end of the
\* hash: entries of other uids with the same recurrence id may be met too.
MayContain(S, k) ==
  /\ \E o \in S : o.key.uid = k.uid
  /\ \E o \in S : o.key.recurrenceId = k.recurrenceId

SeemsPending(p, k) == \E ph \in Phase : MayContain(pend[p][ph], k)

Newer(p, r) ==
  \A o \in OfKey(cal[p], r.key) : Revision[r.content] > Revision[content[p][o]]

\* loadIncidences and addIncidence, for any query that selects the keys K; the
\* keys in skip are taken for local changes.  A row without notebook is refused
\* by the check of the notebooks or else by addEvent.
Load(p, K, skip) ==
  LET got == {r \in View(p).live :
                /\ r.key \in K \ skip
                /\ ~IsPending(p, r.key)
                /\ r.filed
                /\ Newer(p, r)}
  IN  /\ Idle(p)
      /\ inside = {}
      /\ \A k \in skip : SeemsPending(p, k)
      /\ got # {}
      /\ cal' = [cal EXCEPT ![p] =
                   {o \in @ : o.key \notin Keys(got)}
                   \cup {[key |-> k, copy |-> FirstCopy] : k \in Keys(got)}]
      /\ content' = [content EXCEPT ![p] =
                       [o \in Obj |->
                          IF o.copy = FirstCopy /\ o.key \in Keys(got)
                          THEN (CHOOSE r \in got : r.key = o.key).content
                          ELSE @[o]]]
      /\ filed' = [filed EXCEPT ![p] = @ \cup {k.uid : k \in Keys(got)}]
      /\ UNCHANGED <<inside, table, pend, saving, event, history>>

\* fileChanged: storageModified empties the calendar and its associations; the
\* lists of pending incidences stay.
FileChanged(p) ==
  /\ Idle(p)
  /\ event[p]
  /\ inside = {}
  /\ event' = [event EXCEPT ![p] = FALSE]
  /\ cal' = [cal EXCEPT ![p] = {}]
  /\ filed' = [filed EXCEPT ![p] = {}]
  /\ UNCHANGED <<inside, table, content, pend, saving, history>>

-----------------------------------------------------------------------------
(* save() *)

\* saveTimezones updates a row of another table and marks the save as having
\* something to signal.
ZoneSaved(p) ==
  IF HasZone /\ writer \subseteq {p}
  THEN {TRUE} \cup {b \in {FALSE} : "timezone" \in Faults}
  ELSE {FALSE}

\* What the lists ask of a save: to write an incidence that is their only
\* object with its key, to insert one again whose predecessor is still in the
\* lists, to erase the keys of deleted ones.
Request(lists) ==
  LET others(o) == OfKey(UNION {lists[ph] : ph \in Phase}, o.key) \ {o}
      alone(o) == others(o) = {} /\ o \notin lists["delete"]
  IN  [write |-> {o \in lists["insert"] \cup lists["update"] : alone(o)},
       again |-> {o \in lists["insert"] : ~alone(o)},
       erase |-> Keys(lists["delete"]) \ Keys(lists["insert"])]

SaveBegin(p, action) ==
  /\ Idle(p)
  /\ Mutex!Enter(p)
  /\ \E zone \in ZoneSaved(p) :
       isSaved' = [isSaved EXCEPT ![p] = zone]
  /\ pc' = [pc EXCEPT ![p] = "insert"]
  /\ deleteAction' = [deleteAction EXCEPT ![p] = action]
  /\ asked' = [asked EXCEPT ![p] = Request(pend[p])]
  /\ UNCHANGED <<table, memory, pend, looping, work, errors, event, failed>>

After == [insert |-> "update", update |-> "delete", delete |-> "unlock"]

\* saveIncidences returns and save() goes on with the next list.
NextList(p, ok, committed) ==
  /\ pc' = [pc EXCEPT ![p] = After[@]]
  /\ looping' = [looping EXCEPT ![p] = FALSE]
  /\ errors' = [errors EXCEPT ![p] = @ \/ ~ok]
  /\ isSaved' = [isSaved EXCEPT ![p] = @ \/ committed]
  /\ UNCHANGED <<work, deleteAction>>

\* saveIncidences is about to begin with a list that is not empty.
AtList(p) ==
  /\ pc[p] \in Phase /\ ~looping[p]
  /\ pend[p][pc[p]] # {}

EnterLoop(p) ==
  /\ looping' = [looping EXCEPT ![p] = TRUE]
  /\ work' = [work EXCEPT ![p] = pend[p][pc[p]]]
  /\ UNCHANGED <<pc, deleteAction, errors, isSaved>>

\* An empty list starts no transaction.
SkipList(p) ==
  /\ pc[p] \in Phase /\ ~looping[p]
  /\ pend[p][pc[p]] = {}
  /\ NextList(p, TRUE, FALSE)
  /\ UNCHANGED <<inside, table, memory, pend, event, history>>

\* Mutant: a transaction that is open already is used again.
BeginNested(p) ==
  /\ AtList(p)
  /\ writer \subseteq {p}
  /\ writer' = {p}
  /\ EnterLoop(p)
  /\ UNCHANGED <<inside, db, img, memory, pend, event, history>>

\* BEGIN IMMEDIATE and the preparation of the statements.
BeginList(p) ==
  /\ AtList(p)
  /\ writer = {}
  /\ writer' = {p}
  /\ EnterLoop(p)
  /\ UNCHANGED <<inside, db, img, memory, pend, event, history>>

\* Mutant: no busy timeout, BEGIN waits for an open transaction to end.
BeginWaits(p) ==
  /\ AtList(p)
  /\ writer = {} /\ "begin" \in Faults
  /\ NextList(p, FALSE, FALSE)
  /\ UNCHANGED <<inside, table, memory, pend, event, history>>

\* BEGIN fails, when the busy timeout finds a transaction still open or for
\* another reason: the list is kept.
BeginFails(p) ==
  /\ AtList(p)
  /\ writer # {} \/ "begin" \in Faults
  /\ NextList(p, FALSE, FALSE)
  /\ UNCHANGED <<inside, table, memory, pend, event, history>>

\* A statement cannot be prepared: the transaction stays open.
PrepareFails(p) ==
  /\ "prepare" \in Faults
  /\ AtList(p)
  /\ writer = {}
  /\ writer' = {p}
  /\ NextList(p, FALSE, FALSE)
  /\ UNCHANGED <<inside, db, img, memory, pend, event, history>>

\* One incidence of the list, in any order: the list is a hash.
TakeRow(p, o) ==
  /\ looping[p]
  /\ o \in work[p]
  /\ UNCHANGED <<inside, db, writer, memory, pend, event, history>>

RowDone(p, o, ok) ==
  /\ work' = [work EXCEPT ![p] = @ \ {o}]
  /\ errors' = [errors EXCEPT ![p] = @ \/ ~ok]
  /\ UNCHANGED <<pc, looping, deleteAction, isSaved>>

\* isValidNotebook of the notebook the calendar has for the uid, if any.
IsFiled(p, o) == o.key.uid \in filed[p] \/ ~Validate

\* "invalid notebook - not saving incidence": no error, no change.
SkipRow(p, o) ==
  /\ TakeRow(p, o)
  /\ ~IsFiled(p, o)
  /\ RowDone(p, o, TRUE)
  /\ UNCHANGED img

RowOf(p, o) ==
  [key |-> o.key, content |-> content[p][o], filed |-> o.key.uid \in filed[p]]

Without(S, k) == {r \in S : r.key # k}
HasLive(T, k) == OfKey(T.live, k) # {}

\* Mutant: the deleted incidences of the key are not purged.
InsertUnpurged(p, o) ==
  /\ TakeRow(p, o)
  /\ pc[p] = "insert"
  /\ IsFiled(p, o)
  /\ ~HasLive(img, o.key)
  /\ RowDone(p, o, TRUE)
  /\ img' = [live |-> img.live \cup {RowOf(p, o)}, tombs |-> img.tombs]

\* Mutant: purging subtracts a tombstone, also when there is none.
InsertMiscounted(p, o) ==
  /\ TakeRow(p, o)
  /\ pc[p] = "insert"
  /\ IsFiled(p, o)
  /\ ~HasLive(img, o.key)
  /\ RowDone(p, o, TRUE)
  /\ img' = [live |-> img.live \cup {RowOf(p, o)},
             tombs |-> [img.tombs EXCEPT ![o.key] = @ - 1]]

\* modifyComponents with DBInsert, then purgeDeletedComponents, which may fail
\* and leave the tombstones.
InsertRow(p, o) ==
  /\ TakeRow(p, o)
  /\ pc[p] = "insert"
  /\ IsFiled(p, o)
  /\ ~HasLive(img, o.key)
  /\ \E purged \in {TRUE} \cup {b \in {FALSE} : "purge" \in Faults} :
       /\ RowDone(p, o, purged)
       /\ img' = [live |-> img.live \cup {RowOf(p, o)},
                  tombs |-> IF purged THEN [img.tombs EXCEPT ![o.key] = 0]
                            ELSE img.tombs]

\* modifyComponents with DBUpdate.
UpdateRow(p, o) ==
  /\ TakeRow(p, o)
  /\ pc[p] = "update"
  /\ IsFiled(p, o)
  /\ HasLive(img, o.key)
  /\ RowDone(p, o, TRUE)
  /\ img' = [live |-> Without(img.live, o.key) \cup {RowOf(p, o)}, tombs |-> img.tombs]

\* modifyComponents with DBMarkDeleted or DBDelete; the last guard only bounds
\* the model.
DeleteRow(p, o) ==
  /\ TakeRow(p, o)
  /\ pc[p] = "delete"
  /\ IsFiled(p, o)
  /\ HasLive(img, o.key)
  /\ RowDone(p, o, TRUE)
  /\ IF deleteAction[p] = "MarkDeleted"
     THEN /\ img.tombs[o.key] < MaxTombs
          /\ img' = [live |-> Without(img.live, o.key),
                     tombs |-> [img.tombs EXCEPT ![o.key] = @ + 1]]
     ELSE img' = [live |-> Without(img.live, o.key), tombs |-> img.tombs]

\* The unique index refuses the row, there is no live row to change, or the
\* statement fails for another reason.
Refused(p, o) ==
  \/ "row" \in Faults
  \/ HasLive(img, o.key) <=> pc[p] = "insert"

\* Mutant: a constraint violation is not an error, as in the sqlite3_exec macro.
RowIgnored(p, o) ==
  /\ TakeRow(p, o)
  /\ IsFiled(p, o)
  /\ Refused(p, o)
  /\ RowDone(p, o, TRUE)
  /\ UNCHANGED img

\* modifyComponents returns false: counted, the loop goes on.
RowFails(p, o) ==
  /\ TakeRow(p, o)
  /\ IsFiled(p, o)
  /\ Refused(p, o)
  /\ RowDone(p, o, FALSE)
  /\ UNCHANGED img

\* The list is cleared whatever the rows did, then COMMIT.
Committing(p) ==
  /\ looping[p]
  /\ work[p] = {}
  /\ pend' = [pend EXCEPT ![p][pc[p]] = {}]
  /\ UNCHANGED <<inside, memory, event, history>>

CommitList(p) ==
  /\ Committing(p)
  /\ NextList(p, TRUE, TRUE)
  /\ db' = img /\ writer' = {}
  /\ UNCHANGED img

\* COMMIT fails: SQLite keeps the transaction open or has rolled it back.
CommitFails(p) ==
  /\ "commit" \in Faults
  /\ Committing(p)
  /\ NextList(p, FALSE, FALSE)
  /\ UNCHANGED db
  /\ \/ UNCHANGED <<img, writer>>
     \/ img' = db /\ writer' = {}

\* The local variables of save() are gone.
NoSave(p) ==
  /\ pc' = [pc EXCEPT ![p] = "idle"]
  /\ looping' = [looping EXCEPT ![p] = FALSE]
  /\ work' = [work EXCEPT ![p] = {}]
  /\ deleteAction' = [deleteAction EXCEPT ![p] = "MarkDeleted"]
  /\ errors' = [errors EXCEPT ![p] = FALSE]
  /\ isSaved' = [isSaved EXCEPT ![p] = FALSE]

Unlock(p) ==
  /\ pc[p] = "unlock"
  /\ Mutex!Leave(p)
  /\ pc' = [pc EXCEPT ![p] = "signal"]
  /\ asked' = [asked EXCEPT ![p] = NothingAsked]
  /\ UNCHANGED <<table, memory, pend, looping, work, deleteAction, errors, isSaved,
                 event, failed>>

\* mChanged.resize(0) wakes the watchers of all processes, also its own; then
\* save() returns.
Signal(p) ==
  /\ pc[p] = "signal"
  /\ NoSave(p)
  /\ event' = [q \in Proc |-> event[q] \/ (isSaved[p] /\ q \in Watching)]
  /\ failed' = [failed EXCEPT ![p] = @ \/ errors[p]]
  /\ UNCHANGED <<inside, table, memory, pend, asked>>

-----------------------------------------------------------------------------

\* purgeDeletedIncidences, under the lock in a transaction of its own: K are the
\* keys of the list whose tombstones it could erase.  COMMIT ends it, or a
\* statement that cannot be prepared or a failing COMMIT leaves it open.
PurgeDeleted(p, K) ==
  /\ Idle(p)
  /\ inside = {} /\ writer = {}
  /\ \/ /\ img' = [live |-> img.live,
                   tombs |-> [k \in Key |-> IF k \in K THEN 0 ELSE img.tombs[k]]]
        /\ \/ db' = img' /\ UNCHANGED writer
           \/ "commit" \in Faults /\ writer' = {p} /\ UNCHANGED db
     \/ "prepare" \in Faults /\ writer' = {p} /\ UNCHANGED <<db, img>>
  /\ UNCHANGED <<inside, memory, pend, saving, event, history>>

\* The process ends anywhere: SQLite rolls back, the kernel gives back the
\* lock; the program may start again with an empty calendar.
End(p) ==
  /\ inside' = inside \ {p}
  /\ writer' = writer \ {p}
  /\ img' = IF p \in writer THEN db ELSE img
  /\ cal' = [cal EXCEPT ![p] = {}]
  /\ content' = [content EXCEPT ![p] = Blank]
  /\ filed' = [filed EXCEPT ![p] = {}]
  /\ pend' = [pend EXCEPT ![p] = NoPending]
  /\ NoSave(p)
  /\ event' = [event EXCEPT ![p] = FALSE]
  /\ asked' = [asked EXCEPT ![p] = NothingAsked]
  /\ failed' = [failed EXCEPT ![p] = FALSE]
  /\ UNCHANGED db

\* What save() does by itself once it has the lock.
SaveStep(p) ==
  \/ SkipList(p) \/ BeginList(p) \/ BeginFails(p) \/ PrepareFails(p)
  \/ \E o \in Obj : \/ SkipRow(p, o) \/ InsertRow(p, o) \/ UpdateRow(p, o)
                    \/ DeleteRow(p, o) \/ RowFails(p, o)
  \/ CommitList(p) \/ CommitFails(p) \/ Unlock(p) \/ Signal(p)

\* What the application or the event loop calls.
Call(p) ==
  \/ \E o \in Obj, c \in Content :
       Add(p, o, c) \/ Replace(p, o, c) \/ Edit(p, o, c)
  \/ \E o \in Obj : Delete(p, o)
  \/ \E K, skip \in SUBSET Key : skip \subseteq K /\ Load(p, K, skip)
  \/ FileChanged(p)
  \/ \E action \in Action : SaveBegin(p, action)
  \/ \E K \in SUBSET Key : PurgeDeleted(p, K)

Next == \E p \in Proc : Call(p) \/ SaveStep(p) \/ End(p)

Spec == Init /\ [][Next]_vars

\* save() is synchronous: once it has the lock it runs to its end.
FairSpec == Spec /\ \A p \in Proc : WF_vars(SaveStep(p))

-----------------------------------------------------------------------------
(* Properties *)

\* Deleted events are not left beside a live one with the same UID and
\* recurrence id, and there is at most one of them (sqlitestorage.cpp:1765),
\* in the committed table and in any open transaction.
OneRowPerKey ==
  \A T \in {db, img}, k \in Key :
    /\ \A r, s \in OfKey(T.live, k) : r = s
    /\ T.tombs[k] <= 1
    /\ HasLive(T, k) => T.tombs[k] = 0

\* The transaction of p that no list is writing any more: a statement could not
\* be prepared or COMMIT failed, and p went on without a ROLLBACK.
Stranded(p) == p \in writer /\ ~looping[p]

\* A stranded transaction (sqlitestorage.cpp:1399-1428, 1677-1688, 1849) stays
\* one until its process ends: what it has written never reaches the table, not
\* with a later list of the same process either, and until then the table does
\* not change, whoever saves or purges.
StrandedForGood ==
  [][\A p \in Proc : Stranded(p) => db' = db /\ (Stranded(p)' \/ End(p))]_vars

\* When a save is about to return true, every incidence it was asked to write
\* is in the table as the calendar has it, and what it was asked to erase is
\* gone (extendedstorage.h:354).  Incidences that were deleted and added again
\* since the last save are left to ReAddedIsStored.
Promise(p) ==
  pc[p] = "unlock" /\ ~errors[p] =>
    /\ \A o \in asked[p].write :
         \E r \in db.live : r.key = o.key /\ r.content = content[p][o]
    /\ asked[p].erase \cap Keys(db.live) = {}

\* Promise, for the storages whose calendar no signal of others empties: save()
\* passes over incidences whose notebook fileChanged() has forgotten.
SaveKeepsPromise == \A p \in Proc \ Watching : Promise(p)

\* One can re-create an event after its deletion using the same UID
\* (tests/tst_storage.cpp:1302): the save writes the new one, or keeps it for
\* the next save.
ReAddedIsStored ==
  \A p \in Proc : pc[p] = "unlock" =>
    \A o \in asked[p].again : HasLive(db, o.key) \/ o \in pend[p]["insert"]

\* With one process and until a save has returned false, whatever the calendar
\* holds that is not pending is in the table: no change goes untracked and no
\* list is cleared unsaved (the notifications, sqlitestorage.cpp:1892-1951).
CleanIsStored ==
  \A p \in Proc : Idle(p) /\ ~failed[p] =>
    \A o \in cal[p] \ (pend[p]["insert"] \cup pend[p]["update"]) :
      RowOf(p, o) \in db.live

\* A save that has the lock returns: the others are not kept out for ever.
SavesReturn == \A p \in Proc : ~Idle(p) ~> Idle(p)

\* Every change of the committed table is a batch of one list.
Store == INSTANCE ComponentStore
ImplementsStore == Store!StoreSpec
=============================================================================
