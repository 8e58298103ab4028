--------------------------- MODULE ComponentTables ---------------------------
(***************************************************************************)
(* The rows of an incidence in all its tables, as save() of                *)
(* src/src/sqlitestorage.cpp has src/src/sqliteformat.cpp write them: one  *)
(* row of Components and, under its ComponentId, the rows of six tables    *)
(* whose statements may fail one by one without the save noticing.         *)
(*                                                                         *)
(* One process at a time; transactions, other processes and the order of   *)
(* changes to one incidence are in SqliteStorage.                          *)
(***************************************************************************)
EXTENDS ComponentFormat, FiniteSets

CONSTANTS
  Key,       \* the incidences: records with uid and n
  Contents,  \* [Key -> a set of incidences], what the application makes of them
  Failing,   \* the tables whose statements may fail
  MaxRowId,  \* bound on the rows ever inserted
  MaxFaults  \* bound on the statements that fail

ASSUME FailingAssumption == Failing \subseteq Table
ASSUME MaxRowIdAssumption == MaxRowId \in Nat \ {0}
ASSUME MaxFaultsAssumption == MaxFaults \in Nat
\* An application gives a recurrence id in a zone the device knows, and no two
\* incidences of one uid have theirs at the same instant: that is what tells
\* them apart in the calendar.  The series itself has 0.
ASSUME RecurrenceAssumption ==
  \A k \in Key : \A i \in Contents[k] :
    /\ "recurrenceId" \in DOMAIN i
    /\ i.recurrenceId \in {NoTime} \cup [spec : Known \cup {"local"}, wall : Int]
ASSUME IdentityAssumption ==
  \A k, l \in Key : k # l /\ k.uid = l.uid =>
    \A i \in Contents[k], j \in Contents[l], y, z \in Known : RecurId(i, y) # RecurId(j, z)

\* The times an incidence may have for the row to bring them back.  Events and
\* journals begin, journals do not end; an all-day to-do has a start, and is due
\* on a later day (selectComponents takes another for one with times).
SomeTime == {NoTime} \cup DateTime

TimesOf(kind, t) ==
  /\ t.allDay \in BOOLEAN /\ t.start \in SomeTime /\ t.end \in SomeTime
  /\ kind # "Todo" => t.start # NoTime
  /\ kind = "Journal" => t.end = NoTime
  /\ kind = "Todo" /\ t.allDay =>
       t.start # NoTime /\ (t.end = NoTime \/ DateOf(t.start.wall) < DateOf(t.end.wall))

ASSUME TimesAssumption ==
  \A k \in Key : \A i \in Contents[k] :
    /\ {"kind", "allDay", "start", "end"} \subseteq DOMAIN i
    /\ i.kind \in {"Event", "Todo", "Journal"}
    /\ TimesOf(i.kind, i)

\* The lists an incidence may have for the rows to bring them back.  The table of
\* attendees has room for one of each address (src/src/sqliteformat.cpp:931),
\* organizers and empty addresses aside; an alarm that is not repeated has no
\* time to wait, and only one by e-mail has recipients; a rule ends by its
\* count, at a date, or never.
IsSeq(s) == s \in Seq(ToSet(s))

AlarmOf(a) ==
  /\ a.trigger \in {"start", "end", "time"}
  /\ IF a.trigger = "time" THEN a.time \in DateTime /\ a.offset = 0 ELSE a.time = NoTime
  /\ a.repeat = 0 => a.snooze = 0
  /\ a.action # "Email" => a.recipients = <<>>

RuleOf(r) ==
  /\ r.type \in {"RRULE", "EXRULE"}
  /\ r.count \in Int /\ r.until \in SomeTime
  /\ IF r.until = NoTime THEN r.count = -1 \/ r.count > 0 ELSE r.count = 0

RdateOf(d) == d.type \in {"RDate", "XDate", "RDateTime", "XDateTime"} /\ d.at \in DateTime

AttachmentOf(a) ==
  /\ {"form", "value"} \subseteq DOMAIN a
  /\ a.form \in {"binary", "uri", "none"} /\ (a.form # "none" => a.value # Empty)

ListsOf(i) ==
  /\ IsSeq(i.comments) /\ \A n \in DOMAIN i.comments : IsSeq(i.comments[n])
  /\ IsSeq(i.properties)
  /\ IsSeq(i.attendees)
  /\ \A m, n \in DOMAIN i.attendees :
       i.attendees[m].email = i.attendees[n].email
         => m = n \/ i.attendees[n].email \in {Empty, i.organizer}
  /\ IsSeq(i.alarms) /\ \A n \in DOMAIN i.alarms : AlarmOf(i.alarms[n])
  /\ IsSeq(i.rules) /\ \A n \in DOMAIN i.rules : RuleOf(i.rules[n])
  /\ IsSeq(i.rdates) /\ \A n \in DOMAIN i.rdates : RdateOf(i.rdates[n])
  /\ IsSeq(i.attachments) /\ \A n \in DOMAIN i.attachments : AttachmentOf(i.attachments[n])

ASSUME ListsAssumption ==
  \A k \in Key : \A i \in Contents[k] :
    /\ {"comments", "properties", "organizer", "attendees", "alarms", "rules", "rdates",
        "attachments"} \subseteq DOMAIN i
    /\ ListsOf(i)

VARIABLES
  zone,      \* the system's time zone
  obj,       \* the incidences in memory
  state,     \* clean, in one of the three lists of changes, or not in the calendar
  rows,      \* Components by ComponentId
  lastId,    \* the greatest ComponentId given so far
  sub,       \* the other tables: the rows of each ComponentId, or of NULL
  phase,     \* the list save() is at
  deleteAction,
  leftover,  \* query2 to query13 hold the statements of an earlier list
  stuck,     \* the statement that looks for deleted rows was not reset
  faults,    \* how many statements have failed
  failed,    \* history: a save or a purge has returned false
  written    \* history: what was last written of each row

memory == <<zone, obj, state>>
tables == <<rows, lastId, sub>>
saving == <<phase, deleteAction, leftover, stuck>>
history == <<faults, failed, written>>
vars == <<memory, tables, saving, history>>

RowId == 1 .. MaxRowId
Null == 0
NoRow == [uid |-> "none"]
NotWritten == [zone |-> "none"]
NoObject == [kind |-> "none"]
State == {"gone", "clean", "insert", "update", "delete"}
Phase == {"idle", "insert", "update", "delete"}
Uid == {k.uid : k \in Key}

TypeOK ==
  /\ zone \in Known
  /\ DOMAIN obj = Key
  /\ state \in [Key -> State]
  /\ DOMAIN rows = RowId
  /\ \A id \in RowId : rows[id].uid \in Uid \cup {"none"}
  /\ lastId \in 0 .. MaxRowId
  /\ DOMAIN sub = Table
  /\ \A t \in Table : DOMAIN sub[t] = RowId \cup {Null}
  /\ \A id \in RowId : id > lastId => rows[id] = NoRow /\ \A t \in Table : sub[t][id] = <<>>
  /\ phase \in Phase
  /\ deleteAction \in {"MarkDeleted", "PurgeDeleted"}
  /\ faults \in 0 .. MaxFaults
  /\ leftover \in BOOLEAN /\ stuck \in BOOLEAN /\ failed \in BOOLEAN
  /\ stuck => phase = "insert"
  /\ leftover => phase # "idle"
  /\ DOMAIN written = RowId

Init ==
  /\ zone \in Known
  /\ obj = [k \in Key |-> NoObject]
  /\ state = [k \in Key |-> "gone"]
  /\ rows = [id \in RowId |-> NoRow]
  /\ lastId = 0
  /\ sub = [t \in Table |-> [id \in RowId \cup {Null} |-> <<>>]]
  /\ phase = "idle" /\ deleteAction = "MarkDeleted"
  /\ leftover = FALSE /\ stuck = FALSE
  /\ faults = 0 /\ failed = FALSE
  /\ written = [id \in RowId |-> NotWritten]

Live(id) == rows[id] # NoRow /\ ~rows[id].deleted
Tomb(id) == rows[id] # NoRow /\ rows[id].deleted

\* The rows with a uid and a recurrence id.
WithIdentity(uid, recurId) ==
  {id \in RowId : rows[id] # NoRow /\ rows[id].uid = uid /\ rows[id].row.recur.utc = recurId}

\* selectRowId
FoundRows(k) == {id \in WithIdentity(k.uid, RecurId(obj[k], zone)) : ~rows[id].deleted}

\* selectComponents
Loaded(id) == ReadComponent(rows[id].row, [t \in Table |-> sub[t][id]])

-----------------------------------------------------------------------------
(* What may go wrong while an incidence is written: nothing, the statement  *)
(* on its row, or in one table the deletion or an insertion.                *)

NoFault == [at |-> "none", table |-> "none", nth |-> 0]
RowFault == [NoFault EXCEPT !.at = "row"]
TableFault == [at : {"delete"}, table : Failing, nth : {0}]
              \cup [at : {"insert"}, table : Failing, nth : 1 .. 2]
Fault == {NoFault, RowFault} \cup TableFault

\* Bounded: at most MaxFaults statements fail.
Count(fault, others) ==
  LET n == faults + (IF fault = NoFault THEN 0 ELSE 1) + others
  IN  n <= MaxFaults /\ faults' = n

Hits(fault, t, at) == fault.table = t /\ fault.at = at

\* The unique index of Attendee on ComponentId and Email refuses a second one.
Accepted(t, old, new) ==
  IF t # "Attendee" THEN old \o new
  ELSE LET Offer(s, r) == IF \E n \in DOMAIN s : s[n].email = r.email THEN s ELSE Append(s, r)
       IN  FoldLeft(Offer, old, new)

\* One insertion that fails loses its row; of the attachments it loses all that
\* follow.
Inserted(t, new, fault) ==
  IF ~Hits(fault, t, "insert") \/ fault.nth > Len(new) THEN new
  ELSE IF t = "Attachments" THEN SubSeq(new, 1, fault.nth - 1)
  ELSE RemoveAt(new, fault.nth)

\* Mutant: an update inserts without deleting first.
UpdateAppends(old, t, i, freed, fault) ==
  Accepted(t, old, Inserted(t, Rows(t, i, zone, freed), fault))

\* The rows of an incidence that is inserted or updated.  If the old ones
\* cannot be deleted they stay, and no new one is inserted.
Replaced(old, t, i, freed, fault) ==
  IF Hits(fault, t, "delete") THEN old
  ELSE Accepted(t, <<>>, Inserted(t, Rows(t, i, zone, freed), fault))

Written(i, fault) ==
  [zone |-> zone, value |-> i,
   but |-> IF fault.table = "none" THEN {} ELSE {fault.table}]

-----------------------------------------------------------------------------
(* The calendar, between two saves. *)

Idle == phase = "idle"

\* mIncidencesToInsert, mIncidencesToUpdate, mIncidencesToDelete
List(ph) == {k \in Key : state[k] = ph}

\* Bounded: MaxRowId insertions.  An incidence whose deletion failed is not
\* added again.
Add(k, i) ==
  /\ Idle
  /\ state[k] = "gone"
  /\ ~\E id \in RowId : Live(id) /\ rows[id].key = k
  /\ lastId + Cardinality(List("insert")) < MaxRowId
  /\ obj' = [obj EXCEPT ![k] = i]
  /\ state' = [state EXCEPT ![k] = "insert"]
  /\ UNCHANGED <<zone, tables, saving, history>>

Edit(k, i) ==
  /\ Idle
  /\ state[k] \in {"clean", "insert", "update"}
  /\ i.recurrenceId = NoTime <=> obj[k].recurrenceId = NoTime
  /\ obj' = [obj EXCEPT ![k] = [i EXCEPT !.recurrenceId = obj[k].recurrenceId]]
  /\ state' = [state EXCEPT ![k] = IF @ = "clean" THEN "update" ELSE @]
  /\ UNCHANGED <<zone, tables, saving, history>>

Forget(k) ==
  /\ state' = [state EXCEPT ![k] = "gone"]
  /\ obj' = [obj EXCEPT ![k] = NoObject]

Delete(k) ==
  /\ Idle
  /\ state[k] \in {"clean", "insert", "update"}
  /\ IF state[k] = "insert" THEN Forget(k)
     ELSE state' = [state EXCEPT ![k] = "delete"] /\ UNCHANGED obj
  /\ UNCHANGED <<zone, tables, saving, history>>

\* A new process, perhaps elsewhere, loads everything.
Reload(z) ==
  /\ Idle
  /\ zone' = z
  /\ LET live(k) == {id \in RowId : Live(id) /\ rows[id].key = k}
     IN  /\ state' = [k \in Key |-> IF live(k) = {} THEN "gone" ELSE "clean"]
         /\ obj' = [k \in Key |->
                      IF live(k) = {} THEN NoObject
                      ELSE Loaded(CHOOSE id \in live(k) : TRUE)]
  /\ UNCHANGED <<tables, saving, history>>

-----------------------------------------------------------------------------
(* save() *)

\* An empty list is passed over.
ListAfter(ph) ==
  IF ph = "idle" /\ List("insert") # {} THEN "insert"
  ELSE IF ph \in {"idle", "insert"} /\ List("update") # {} THEN "update"
  ELSE IF ph # "delete" /\ List("delete") # {} THEN "delete"
  ELSE "idle"

SaveBegin(action) ==
  /\ Idle
  /\ ListAfter("idle") # "idle"
  /\ phase' = ListAfter("idle")
  /\ deleteAction' = action
  /\ leftover' = FALSE
  /\ UNCHANGED <<memory, tables, stuck, history>>

\* The list of this phase is cleared whatever became of its incidences.
Done(k) ==
  IF phase = "delete" THEN Forget(k)
  ELSE state' = [state EXCEPT ![k] = "clean"] /\ UNCHANGED obj

\* Mutant: without AUTOINCREMENT SQLite gives the id after the greatest in use.
ReusedId == 1 + Max({0} \cup {id \in RowId : rows[id] # NoRow})

NewId == lastId + 1

\* purgeDeletedComponents for the deleted rows D; nothing is remembered of them.
Purged(R, D, none) == [id \in RowId |-> IF id \in D THEN none ELSE R[id]]
SubPurged(S, D, fault) ==
  [t \in Table |->
     [id \in RowId \cup {Null} |->
        IF id \in D /\ ~Hits(fault, t, "delete") THEN <<>> ELSE S[t][id]]]

\* Mutant: deleted rows with the same identity are left.
NoDeadRows(k) == {}

DeadRows(k) ==
  {id \in WithIdentity(k.uid, RecurId(obj[k], zone)) : rows[id].deleted}

\* DBInsert, then the deleted rows of the same identity are purged.  A failure
\* there, purge = FALSE, leaves the select statement in use: none of the
\* purges that follow in this list works.
SaveInsert(k, freed, fault, purge) ==
  LET gone == IF stuck \/ ~purge THEN {} ELSE DeadRows(k)
      inserted == [rows EXCEPT ![NewId] =
                     [uid |-> k.uid, key |-> k, deleted |-> FALSE,
                      row |-> ComponentRow(obj[k], zone)]]
      filled == [t \in Table |->
                   [sub[t] EXCEPT ![NewId] =
                      Accepted(t, @, Inserted(t, Rows(t, obj[k], zone, freed), fault))]]
  IN  /\ phase = "insert" /\ state[k] = "insert"
      /\ DeadRows(k) = {} => purge
      /\ Count(fault, IF purge THEN 0 ELSE 1)
      /\ Done(k)
      /\ leftover' = TRUE
      /\ IF fault.at = "row"
         THEN /\ UNCHANGED <<tables, stuck, written>>
              /\ failed' = TRUE
         ELSE /\ lastId' = NewId
              /\ rows' = Purged(inserted, gone, NoRow)
              /\ sub' = SubPurged(filled, gone, fault)
              /\ written' = Purged([written EXCEPT ![NewId] = Written(obj[k], fault)], gone, NotWritten)
              /\ stuck' = (stuck \/ ~purge)
              /\ failed' = (failed \/ stuck \/ ~purge)
      /\ UNCHANGED <<zone, phase, deleteAction>>

\* DBUpdate
SaveUpdate(k, freed, fault) ==
  /\ phase = "update" /\ state[k] = "update"
  /\ Count(fault, 0)
  /\ Done(k)
  /\ leftover' = TRUE
  /\ IF FoundRows(k) = {} \/ fault.at = "row"
     THEN UNCHANGED <<tables, written>> /\ failed' = TRUE
     ELSE \E id \in FoundRows(k) :
            /\ rows' = [rows EXCEPT ![id].row = ComponentRow(obj[k], zone)]
            /\ sub' = [t \in Table |->
                         [sub[t] EXCEPT ![id] = Replaced(@, t, obj[k], freed, fault)]]
            /\ written' = [written EXCEPT ![id] = Written(obj[k], fault)]
            /\ UNCHANGED <<lastId, failed>>
  /\ UNCHANGED <<zone, phase, deleteAction, stuck>>

\* DBMarkDeleted sets query1 only.  If a list was written before in this save,
\* its insertions are run again: with no value bound, not even the ComponentId,
\* but for the attachments, which are bound in any case.
Marked(t, id, i, freed, fault) ==
  LET new == Inserted(t, Rows(t, i, zone, freed), fault)
  IN  IF ~leftover THEN sub[t]
      ELSE IF t = "Attachments" THEN [sub[t] EXCEPT ![id] = @ \o new]
      ELSE [sub[t] EXCEPT ![Null] = @ \o Map(new, LAMBDA r : "unbound")]

SaveMark(k, freed, fault) ==
  /\ phase = "delete" /\ deleteAction = "MarkDeleted" /\ state[k] = "delete"
  /\ Count(fault, 0)
  /\ Done(k)
  /\ IF FoundRows(k) = {} \/ fault.at = "row"
     THEN UNCHANGED <<tables, written>> /\ failed' = TRUE
     ELSE \E id \in FoundRows(k) :
            /\ rows' = [rows EXCEPT ![id].deleted = TRUE]
            /\ sub' = [t \in Table |-> Marked(t, id, obj[k], freed, fault)]
            /\ UNCHANGED <<lastId, failed, written>>
  /\ UNCHANGED <<zone, phase, deleteAction, leftover, stuck>>

\* DBDelete
SaveDelete(k, fault) ==
  /\ phase = "delete" /\ deleteAction = "PurgeDeleted" /\ state[k] = "delete"
  /\ Count(fault, 0)
  /\ Done(k)
  /\ IF FoundRows(k) = {} \/ fault.at = "row"
     THEN UNCHANGED <<tables, written>> /\ failed' = TRUE
     ELSE \E id \in FoundRows(k) :
            /\ rows' = Purged(rows, {id}, NoRow)
            /\ written' = Purged(written, {id}, NotWritten)
            /\ sub' = SubPurged(sub, {id}, fault)
            /\ UNCHANGED <<lastId, failed>>
  /\ UNCHANGED <<zone, phase, deleteAction, leftover, stuck>>

\* Mutant: the statement stays in use.
NotFinalized(inUse) == inUse

\* The statements of a list are finalized with it.
Finalized(inUse) == FALSE

NextPhase ==
  /\ ~Idle
  /\ List(phase) = {}
  /\ phase' = ListAfter(phase)
  /\ stuck' = Finalized(stuck)
  /\ leftover' = (leftover /\ phase' # "idle")
  /\ deleteAction' = IF phase' = "idle" THEN "MarkDeleted" ELSE deleteAction
  /\ UNCHANGED <<memory, tables, history>>

\* purgeDeletedIncidences with the identities of the deleted rows D.  A failure
\* ends it for the rows not in gone: at most one identity is left half done.
Purge(D, gone, fault) ==
  LET Identity(id) == <<rows[id].uid, rows[id].row.recur.utc>>
      whole(I) == {id \in RowId : Tomb(id) /\ Identity(id) \in I}
      half == {Identity(id) : id \in D \ gone} \cap {Identity(id) : id \in gone}
  IN  /\ Idle
      /\ D # {} /\ D = whole({Identity(id) : id \in D})
      /\ gone \subseteq D
      /\ Cardinality(half) <= 1
      /\ Count(fault, IF gone = D THEN 0 ELSE 1)
      /\ rows' = Purged(rows, gone, NoRow)
      /\ written' = Purged(written, gone, NotWritten)
      /\ sub' = SubPurged(sub, gone, fault)
      /\ failed' = (failed \/ gone # D)
      /\ UNCHANGED <<memory, lastId, saving>>

Next ==
  \/ \E k \in Key : \E i \in Contents[k] : Add(k, i) \/ Edit(k, i)
  \/ \E k \in Key : Delete(k)
  \/ \E z \in Known : Reload(z)
  \/ \E action \in {"MarkDeleted", "PurgeDeleted"} : SaveBegin(action)
  \/ \E k \in Key, freed \in BOOLEAN, fault \in Fault :
       \/ \E purge \in BOOLEAN : SaveInsert(k, freed, fault, purge)
       \/ SaveUpdate(k, freed, fault)
       \/ SaveMark(k, freed, fault)
  \/ \E k \in Key, fault \in Fault : SaveDelete(k, fault)
  \/ NextPhase
  \/ \E D \in SUBSET {id \in RowId : Tomb(id)} : \E gone \in SUBSET D :
       \E fault \in {f \in Fault : f.at # "row"} : Purge(D, gone, fault)

Spec == Init /\ [][Next]_vars

-----------------------------------------------------------------------------
(* What it means that an incidence i is what was written as w in a zone. *)

SameTime(t, w, z) ==
  IF w = NoTime THEN t = NoTime
  ELSE IF ZoneOf(w, z) \in Known THEN t.spec \in Known /\ Instant(t, z) = Instant(w, z)
  ELSE t = Local(w.wall)

SameDate(t, w) == IF w = NoTime THEN t = NoTime ELSE t = Local(DateOf(w.wall))

LastDate(i) == DateOf(IF i.end = NoTime THEN i.start.wall ELSE i.end.wall)

SameTimes(i, w, z) ==
  /\ i.allDay = w.allDay
  /\ IF w.allDay THEN SameDate(i.start, w.start) /\ LastDate(i) = LastDate(w)
     ELSE SameTime(i.start, w.start, z) /\ SameTime(i.end, w.end, z)

SameRule(r, w, allDay, z) ==
  /\ r.type = w.type /\ r.by = w.by /\ r.count = w.count
  /\ IF allDay THEN SameDate(r.until, w.until) ELSE SameTime(r.until, w.until, z)

SameRdate(d, w, allDay, z) ==
  /\ d.type = w.type
  /\ IF \/ w.type \in {"RDate", "XDate"}
        \/ allDay /\ w.at = Local(DateOf(w.at.wall))
     THEN SameDate(d.at, w.at)
     ELSE SameTime(d.at, w.at, z)

\* Of its recipients, the same addresses.
SameAlarm(a, w, z) ==
  /\ SameTime(a.time, w.time, z)
  /\ FlattenSeq(a.recipients) = FlattenSeq(w.recipients)
  /\ \A f \in {"action", "text", "repeat", "snooze", "trigger", "offset", "enabled"} : a[f] = w[f]

\* The same elements up to Op, as many of them.
SameAll(s, t, Op(_, _)) ==
  /\ Len(s) = Len(t)
  /\ \A n \in DOMAIN t : \E m \in DOMAIN s : Op(s[m], t[n])

Invited(i) ==
  {[email |-> a.email, role |-> a.role] :
     a \in {b \in ToSet(i.attendees) : b.email \notin {Empty, i.organizer}}}
  \cup {[email |-> e, role |-> "REQ-PARTICIPANT"] : e \in {i.organizer} \ {Empty}}

\* The attachments that have a row.
WithContent(i) == Kept(i.attachments, {a \in ToSet(i.attachments) : a.form # "none"})

\* What the rows of table t carry; of a uri only that there is one, and nothing
\* of an attachment without content.
SameIn(t, i, w, z) ==
  CASE t = "Customproperties" -> i.properties = w.properties
    [] t = "Attendee" -> i.organizer = w.organizer /\ Invited(i) = Invited(w)
    [] t = "Alarm" -> SameAll(i.alarms, w.alarms, LAMBDA a, b : SameAlarm(a, b, z))
    [] t = "Recursive" ->
         SameAll(i.rules, w.rules, LAMBDA r, q : SameRule(r, q, w.allDay, z))
    [] t = "Rdates" ->
         SameAll(i.rdates, w.rdates, LAMBDA d, e : SameRdate(d, e, w.allDay, z))
    [] OTHER -> SameAll(i.attachments, WithContent(w),
                        LAMBDA a, b : a.form = b.form /\ (a.form = "uri" \/ a.value = b.value))

\* The same in the row of Components, and the same comments in the end.
SameRow(i, w, z) ==
  /\ i.kind = w.kind /\ i.summary = w.summary
  /\ SameTimes(i, w, z)
  /\ SameTime(i.recurrenceId, w.recurrenceId, z)

Same(i, w, z) ==
  /\ SameRow(i, w, z)
  /\ FlattenSeq(i.comments) = FlattenSeq(w.comments)

-----------------------------------------------------------------------------
(* Properties. *)

\* The attachments w had, without those that were added behind them.
FirstAttachments(i, w) ==
  IF Len(i.attachments) <= Len(WithContent(w)) THEN i
  ELSE [i EXCEPT !.attachments = SubSeq(@, 1, Len(WithContent(w)))]

\* A row and its rows in the other tables load as the incidence that was last
\* written to it: all-day ones on the same dates, others at the same instants,
\* whatever zone the device has moved to.  A statement that failed (logged, not
\* counted) costs its own table and no other, until the next successful update.
\* A row marked as deleted keeps all that ("Deleted events are marked as deleted
\* but remains in the DB", tests/tst_storage.cpp), though the statements left
\* over from the insertions and updates of the same save run again for it: they
\* add its attachments once more, behind those it has.  (save, modifyComponents,
\* selectComponents)
LoadedIsWritten ==
  \A id \in RowId : rows[id] # NoRow =>
    LET w == written[id]
        i == IF Live(id) THEN Loaded(id) ELSE FirstAttachments(Loaded(id), w.value)
    IN  /\ Same(i, w.value, w.zone)
        /\ \A t \in Table \ w.but : SameIn(t, i, w.value, w.zone)

\* An incidence that was loaded is found again when it is updated or deleted,
\* in any zone the system may be in by then, all-day or not: its recurrence id
\* comes back as the same instant.  (selectRowId)
LoadedIsFound ==
  \A id \in RowId : Live(id) =>
    \A z \in Known : RecurId(Loaded(id), z) = rows[id].row.recur.utc

\* What was loaded and is saved again unchanged, from any zone, is stored as
\* it would have been from any other and loads as the same incidence: no
\* drift by a day, an hour or an attendee at each round.  Only a time in a zone
\* the device does not know is loaded as one of its clock, and saved as one of
\* the zone it is then in.
RoundTripStable ==
  \A id \in RowId : Live(id) =>
    LET i == Loaded(id)
    IN  \A z \in Known :
          LET again == ReadComponent(ComponentRow(i, z),
                                     [t \in Table |-> Accepted(t, <<>>, Rows(t, i, z, FALSE))])
          IN  /\ Same(again, i, z)
              /\ i.allDay \/ i.end.spec # "local" => again.end = i.end
              /\ \A t \in Table : SameIn(t, again, i, z)

\* Whatever rows failed deletions have left behind, a new incidence does not
\* inherit them: no row has its ComponentId before it is inserted.
NewRowStartsEmpty ==
  [][\A id \in RowId : rows[id] = NoRow /\ rows'[id] # NoRow =>
       \A t \in Table : sub[t][id] = <<>>]_vars

\* "Don't leave deleted events with the same UID/recID"
\* (src/src/sqlitestorage.cpp:1764): as long as every save and purge has
\* returned true, no deleted row stands beside a live one.
NoTombBesideLive ==
  failed \/ \A live, tomb \in RowId :
    Live(live) /\ Tomb(tomb) /\ rows[live].uid = rows[tomb].uid
      => rows[live].row.recur.utc # rows[tomb].row.recur.utc

=============================================================================
