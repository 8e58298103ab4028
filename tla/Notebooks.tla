------------------------------ MODULE Notebooks ------------------------------
(***************************************************************************)
(* The notebooks of a storage and the alarms of their incidences:          *)
(* src/src/extendedstorage.cpp with the notebook functions of              *)
(* src/src/sqlitestorage.cpp and sqliteformat.cpp.                         *)
(*                                                                         *)
(* A notebook is a row of Calendars, an object in mNotebooks and a name    *)
(* with a visibility in the calendar; its incidences are rows of           *)
(* Components, their alarms belong to the timed daemon.  Every call below  *)
(* is several transactions, and a process may end between two of them.     *)
(*                                                                         *)
(* One process is followed step by step; the calls of the others happen at *)
(* once, between two of its steps.  Of a notebook's columns only the two   *)
(* flags others depend on are kept; the calendar's own default notebook,   *)
(* KCalendarCore's, is left out.  An application is taken to leave the      *)
(* flag isDefault to setDefaultNotebook(), though Notebook::setIsDefault()  *)
(* is public and addNotebook() would store what it set.                     *)
(***************************************************************************)
EXTENDS Naturals, FiniteSets

CONSTANTS
  Notebook,    \* uids of notebooks
  ReadOnly,    \* those with the flag of that name
  Incidence,   \* incidences, each with one alarm
  NotebookOf,  \* [Incidence -> Notebook]
  None,        \* no notebook
  MaxTroubles  \* bound on the calls to SQLite and timed that fail, together with
               \* the calls of other processes

ASSUME NotebookAssumption ==
  /\ None \notin Notebook
  /\ ReadOnly \subseteq Notebook
  /\ NotebookOf \in [Incidence -> Notebook]
ASSUME BoundAssumption == MaxTroubles \in Nat

VARIABLES
  rows,      \* Calendars
  stored,    \* Components
  timed,     \* how many alarms timed has for each incidence
  listed,    \* mNotebooks
  object,    \* the Notebook objects
  known,     \* the notebooks of the calendar
  shown,     \* those that are visible in it
  default,   \* mDefaultNotebook
  pending,   \* mIncidencesToInsert
  call,      \* the step a call is at, and its notebook
  event,     \* a change by another process has not been reported yet
  misread,   \* the last reload did not read every row
  troubles,
  blind,     \* history: something was done while event or misread
  left,      \* history: incidences that the deletion of their notebook did not
             \* reach, or that were saved after it
  stale      \* history: incidences whose alarms a call did not bring into line

shared == <<rows, stored, timed>>
registry == <<listed, object, known, shown, default>>
history == <<blind, left, stale>>
vars == <<shared, registry, pending, call, event, misread, troubles, history>>

Row == [visible : BOOLEAN, isDefault : BOOLEAN]
NoObject == [visible |-> FALSE, isDefault |-> FALSE]
NoRow == [visible |-> FALSE, isDefault |-> FALSE, absent |-> TRUE]
Has(n) == rows[n] # NoRow
Idle == [step |-> "idle", nb |-> None]
At(step, n) == call = [step |-> step, nb |-> n]

In(n) == {i \in Incidence : NotebookOf[i] = n}
Stored(n) == stored \cap In(n)
Behind == event \/ misread

TypeOK ==
  /\ rows \in [Notebook -> Row \cup {NoRow}]
  /\ stored \subseteq Incidence /\ pending \subseteq Incidence
  /\ timed \in [Incidence -> 0 .. 2]
  /\ object \in [Notebook -> Row]
  /\ listed \subseteq Notebook /\ known \subseteq Notebook /\ shown \subseteq known
  /\ default \in listed \cup {None}
  /\ \/ call = Idle
     \/ At("initialize", None)
     \/ \E n \in listed, step \in {"default", "chosen", "clear", "set", "incidences"} : At(step, n)
  /\ troubles \in 0 .. MaxTroubles
  /\ event \in BOOLEAN /\ misread \in BOOLEAN /\ blind \in BOOLEAN
  /\ left \subseteq stored /\ stale \subseteq stored

-----------------------------------------------------------------------------
(* loadNotebooks: memory after the rows L were read.  Of several default    *)
(* rows the last one keeps its flag.                                        *)

Load(L) ==
  LET defaults == {n \in L : rows[n].isDefault}
  IN  /\ listed' = L /\ known' = L
      /\ shown' = {n \in L : rows[n].visible}
      /\ \E d \in (IF defaults = {} THEN {None} ELSE defaults) :
           /\ default' = d
           /\ object' = [n \in Notebook |->
                           [visible   |-> n \in L /\ rows[n].visible,
                            isDefault |-> n = d]]

Init ==
  /\ rows \in {[n \in Notebook |-> r] : r \in {NoRow, [visible |-> TRUE, isDefault |-> FALSE]}}
  /\ stored \in SUBSET {i \in Incidence : Has(NotebookOf[i])}
  /\ timed = [i \in Incidence |-> IF i \in stored THEN 1 ELSE 0]
  /\ listed = {} /\ known = {} /\ shown = {} /\ default = None
  /\ object = [n \in Notebook |-> NoObject]
  /\ pending = {}
  /\ call = Idle
  /\ event = FALSE /\ misread = TRUE  \* not yet open
  /\ troubles = 0
  /\ blind = FALSE /\ left = {} /\ stale = {}

\* open() in a new process, after the one before closed or ended anywhere.  An
\* empty database is initialized.
Open ==
  /\ Load({n \in Notebook : Has(n)})
  /\ call' = IF listed' = {} THEN [step |-> "initialize", nb |-> None] ELSE Idle
  /\ pending' = {}
  /\ event' = FALSE /\ misread' = FALSE
  /\ left' = IF call.step = "incidences" THEN left \cup Stored(call.nb) ELSE left
  /\ stale' = IF call.step \in {"set", "clear"} THEN stale \cup Stored(call.nb) ELSE stale
  /\ UNCHANGED <<shared, troubles, blind>>

\* Bounded: MaxTroubles.
Trouble(n) == troubles' = troubles + n /\ troubles' <= MaxTroubles
Fails(b) == IF b THEN 1 ELSE 0

\* fileChanged(): the notebooks are read anew, none if the lock is refused and
\* not all if SQLite fails.  The calendar is emptied, and what is pending is
\* in no notebook any more, so that save() will pass over it.
FileChanged(L) ==
  /\ call = Idle
  /\ L \subseteq {n \in Notebook : Has(n)}
  /\ misread' = (L # {n \in Notebook : Has(n)})
  /\ Trouble(Fails(misread'))
  /\ Load(L)
  /\ pending' = {}
  /\ event' = FALSE
  /\ UNCHANGED <<shared, call, history>>

\* A step of a call, of which failed parts fail.
Step(failed) ==
  /\ Trouble(failed)
  /\ blind' = (blind \/ Behind)
  /\ UNCHANGED <<event, misread>>

\* modifyNotebook with DBUpdate: all columns, of a row that may not be there.
Updated(n, o) == IF Has(n) THEN [rows EXCEPT ![n] = o] ELSE rows

-----------------------------------------------------------------------------
(* The alarms of the incidences S. *)

Cleared(t, S) == [i \in Incidence |-> IF i \in S THEN 0 ELSE t[i]]

\* Alarms are added to those that are there.  Bounded: two of an incidence.
Added(t, S) == [i \in Incidence |-> IF i \in S /\ t[i] < 2 THEN t[i] + 1 ELSE t[i]]

\* The calendar has not the visibility of the row: the row could not be written,
\* or another process has changed it.
OutOfStep(n) == (n \in shown) # rows[n].visible

Visible(S) == {i \in S : NotebookOf[i] \in shown}

Reset(S) == Added(Cleared(timed, S), Visible(S))

-----------------------------------------------------------------------------
(* addNotebook, createDefaultNotebook *)

\* Mutant: a failed insertion leaves the notebook in the calendar.
KnownAnyway(n, inserted) == known \cup {n}

KnownAfter(n, inserted) == IF inserted THEN known \cup {n} ELSE known

\* The insertion fails if there is a row, which this process need not know of.
Add(n, visible, inserted) ==
  /\ n \notin listed /\ n \notin known
  /\ inserted => ~Has(n)
  /\ Step(Fails(~inserted /\ ~Has(n)))
  /\ known' = KnownAfter(n, inserted)
  /\ shown' = IF n \in known' /\ visible THEN shown \cup {n} ELSE shown
  /\ IF inserted
     THEN /\ listed' = listed \cup {n}
          /\ object' = [object EXCEPT ![n] = [visible |-> visible, isDefault |-> FALSE]]
          /\ rows' = [rows EXCEPT ![n] = object'[n]]
     ELSE UNCHANGED <<listed, object, rows>>

AddNotebook(n, visible, inserted) ==
  /\ call = Idle
  /\ Add(n, visible, inserted)
  /\ UNCHANGED <<stored, timed, default, pending, call, left, stale>>

CreateDefaultNotebook(n, inserted) ==
  /\ call \in {Idle, [step |-> "initialize", nb |-> None]}
  /\ Add(n, TRUE, inserted)
  /\ call' = IF inserted THEN [step |-> "default", nb |-> n] ELSE Idle
  /\ UNCHANGED <<stored, timed, default, pending, left, stale>>

-----------------------------------------------------------------------------
(* setDefaultNotebook: the old one loses the flag, then the new one gets it. *)

SetDefaultNotebook(n) ==
  /\ call = Idle
  /\ n \in listed
  /\ call' = [step |-> "default", nb |-> n]
  /\ UNCHANGED <<shared, registry, pending, event, misread, troubles, history>>

\* All columns are written: a visibility that updateNotebook should have stored
\* gets into the row, and no alarm is set or cleared for it.
Carries(n) == Has(n) /\ rows[n].visible # object[n].visible

Carried(n, written) == IF written /\ Carries(n) THEN stale \cup Stored(n) ELSE stale

Flagged(n, b) == [object EXCEPT ![n].isDefault = b]

\* Mutant: the old default is not written.
ClearedOnlyInMemory == rows

ClearedRows == Updated(default, Flagged(default, FALSE)[default])

ClearDefault(n, written) ==
  /\ At("default", n)
  /\ Step(Fails(~written))
  /\ IF default = None THEN written /\ UNCHANGED <<object, rows, stale>>
     ELSE /\ object' = Flagged(default, FALSE)
          /\ rows' = IF written THEN ClearedRows ELSE rows
          /\ stale' = Carried(default, written)
  /\ call' = IF written THEN [step |-> "chosen", nb |-> n] ELSE Idle
  /\ UNCHANGED <<stored, timed, listed, known, shown, default, pending, left>>

ChooseDefault(n, written) ==
  /\ At("chosen", n)
  /\ Step(Fails(~written))
  /\ default' = n
  /\ object' = Flagged(n, TRUE)
  /\ rows' = IF written THEN Updated(n, object'[n]) ELSE rows
  /\ stale' = Carried(n, written)
  /\ call' = Idle
  /\ UNCHANGED <<stored, timed, listed, known, shown, pending, left>>

-----------------------------------------------------------------------------
(* updateNotebook *)

\* The application has the same object.
SetIsVisible(n) ==
  /\ call = Idle
  /\ n \in listed
  /\ object' = [object EXCEPT ![n].visible = ~@]
  /\ UNCHANGED <<shared, listed, known, shown, default, pending, call, event, misread,
                 troubles, history>>

\* Mutant: the visibility before is asked after the calendar was updated.
WasVisibleLate(n) == object[n].visible

WasVisible(n) == n \in shown

\* The alarms are switched if the visibility is not the calendar's, whatever the
\* row has.  If the row cannot be written the calendar has the new one already.
UpdateNotebook(n, written) ==
  LET visible == object[n].visible
  IN  /\ call = Idle
      /\ n \in listed
      /\ Step(Fails(~written))
      /\ shown' = IF visible THEN shown \cup {n} ELSE shown \ {n}
      /\ rows' = IF written THEN Updated(n, object[n]) ELSE rows
      /\ call' = IF ~written \/ WasVisible(n) = visible THEN Idle
                 ELSE [step |-> IF visible THEN "set" ELSE "clear", nb |-> n]
      /\ stale' = IF written /\ OutOfStep(n) THEN stale \cup Stored(n) ELSE stale
      /\ UNCHANGED <<stored, timed, listed, object, known, default, pending, left>>

\* clearAlarms of a notebook, or setAlarmsForNotebook with what allIncidences finds.
UpdateAlarms(n, done) ==
  /\ At("clear", n) \/ At("set", n)
  /\ Step(Fails(~done))
  /\ timed' = CASE ~done -> timed
                [] done /\ At("clear", n) -> Cleared(timed, In(n))
                [] OTHER -> Added(timed, Stored(n))
  /\ stale' = CASE ~done -> stale \cup Stored(n)
                [] done /\ At("clear", n) /\ ~rows[n].visible -> stale \ In(n)
                [] OTHER -> stale
  /\ call' = Idle
  /\ UNCHANGED <<rows, stored, registry, pending, left>>

-----------------------------------------------------------------------------
(* Incidences. *)

AddIncidence(i) ==
  /\ call = Idle
  /\ NotebookOf[i] \in listed
  /\ i \notin stored \cup pending
  /\ pending' = pending \cup {i}
  /\ UNCHANGED <<shared, registry, call, event, misread, troubles, history>>

\* isValidNotebook
Valid(S) == {i \in S : NotebookOf[i] \in listed \ ReadOnly}

\* Those of S whose notebook has no row (any more).
Homeless(S) == {i \in S : ~Has(NotebookOf[i])}

\* Those of S whose alarms could not be reset, or not as the rows would have it.
Missed(S, alarms) == {i \in S : ~alarms \/ OutOfStep(NotebookOf[i])}

\* save(): alarms are reset before COMMIT, and for rows that failed as well.
Save(committed, alarms) ==
  /\ call = Idle
  /\ pending # {}
  /\ Step(Fails(~committed) + Fails(~alarms))
  /\ stored' = IF committed THEN stored \cup Valid(pending) ELSE stored
  /\ timed' = IF alarms THEN Reset(Valid(pending)) ELSE timed
  /\ pending' = {}
  /\ left' = stored' \cap (left \cup Homeless(Valid(pending)))
  /\ stale' = stored' \cap ((stale \ Valid(pending)) \cup Missed(Valid(pending), alarms))
  /\ UNCHANGED <<rows, registry, call>>

-----------------------------------------------------------------------------
(* deleteNotebook: first its row, then its incidences, then its name. *)

DeleteNotebook(n, written) ==
  /\ call = Idle
  /\ n \in listed
  /\ Step(Fails(~written))
  /\ IF written
     THEN rows' = [rows EXCEPT ![n] = NoRow] /\ call' = [step |-> "incidences", nb |-> n]
     ELSE UNCHANGED <<rows, call>>
  /\ UNCHANGED <<stored, timed, registry, pending, left, stale>>

\* Mutant: the incidences are only taken out of the calendar.
NoneErased(n, found) == {}

\* What save(PurgeDeleted) erases of the incidences that were found and loaded.
Erased(n, found) == Valid(found)

\* Mutant: a deleted notebook stays the default one.
ForgetName(n) ==
  /\ listed' = listed \ {n} /\ known' = known \ {n} /\ shown' = shown \ {n}
  /\ object' = [object EXCEPT ![n] = NoObject]
  /\ UNCHANGED default

Forget(n) ==
  /\ listed' = listed \ {n} /\ known' = known \ {n} /\ shown' = shown \ {n}
  /\ default' = IF default = n THEN None ELSE default
  /\ object' = [object EXCEPT ![n] = NoObject]

\* allIncidences fails: the notebook stays in memory.
KeepIncidences(n) ==
  /\ At("incidences", n)
  /\ Step(1)
  /\ call' = Idle
  /\ left' = left \cup Stored(n)
  /\ UNCHANGED <<shared, registry, pending, stale>>

\* Those that cannot be loaded are passed over.  The save that deletes the others
\* first inserts what is pending, in the notebook that is being deleted too.
DeleteIncidences(n, unread, committed, alarms) ==
  LET saved == Valid(pending)
      gone == Erased(n, Stored(n) \ unread)
  IN  /\ At("incidences", n)
      /\ unread \subseteq Stored(n)
      /\ Step(Fails(unread # {}) + Fails(~committed) + Fails(~alarms))
      /\ IF Stored(n) = {}
         THEN committed /\ alarms /\ UNCHANGED <<stored, timed, pending, left, stale>>
         ELSE /\ stored' = IF committed THEN (stored \cup saved) \ gone ELSE stored
              /\ timed' = IF alarms THEN Cleared(Reset(saved), gone) ELSE timed
              /\ pending' = {}
              /\ left' = stored' \cap (left \cup Homeless(saved) \cup unread \cup
                           (IF ~committed \/ n \in ReadOnly THEN Stored(n) ELSE {}))
              /\ stale' = stored' \cap ((stale \ saved) \cup Missed(saved, alarms))
      /\ Forget(n)
      /\ call' = Idle
      /\ UNCHANGED rows

-----------------------------------------------------------------------------
(* The whole calls of another process that knows every row. *)

Other ==
  /\ Trouble(1)
  /\ event' = TRUE
  /\ UNCHANGED <<registry, pending, call, misread, blind>>

OtherShows(n) ==
  /\ Other /\ Has(n)
  /\ rows' = [rows EXCEPT ![n].visible = ~@]
  /\ timed' = IF rows'[n].visible THEN Added(timed, Stored(n))
              ELSE Cleared(timed, In(n))
  /\ stale' = CASE At("set", n) \/ At("clear", n) -> stale \cup Stored(n)
                [] OTHER -> IF rows'[n].visible THEN stale ELSE stale \ In(n)
  /\ UNCHANGED <<stored, left>>

OtherChooses(n) ==
  /\ Other /\ Has(n)
  /\ rows' = [m \in Notebook |->
                IF Has(m) THEN [rows[m] EXCEPT !.isDefault = (m = n)] ELSE NoRow]
  /\ UNCHANGED <<stored, timed, left, stale>>

OtherDeletes(n) ==
  /\ Other /\ Has(n) /\ n \notin ReadOnly
  /\ rows' = [rows EXCEPT ![n] = NoRow]
  /\ stored' = stored \ In(n)
  /\ timed' = Cleared(timed, Stored(n))
  /\ left' = left \ In(n) /\ stale' = stale \ In(n)

\* It finds the database empty as well.
OtherInitializes(n) ==
  /\ Other /\ \A m \in Notebook : ~Has(m)
  /\ rows' = [rows EXCEPT ![n] = [visible |-> TRUE, isDefault |-> TRUE]]
  /\ UNCHANGED <<stored, timed, left, stale>>

-----------------------------------------------------------------------------
Next ==
  \/ Open
  \/ \E L \in SUBSET Notebook : FileChanged(L)
  \/ \E n \in Notebook, ok \in BOOLEAN :
       \/ \E visible \in BOOLEAN : AddNotebook(n, visible, ok)
       \/ CreateDefaultNotebook(n, ok)
       \/ ClearDefault(n, ok)
       \/ ChooseDefault(n, ok)
       \/ UpdateNotebook(n, ok)
       \/ UpdateAlarms(n, ok)
       \/ DeleteNotebook(n, ok)
       \/ \E alarms \in BOOLEAN, unread \in SUBSET Incidence : DeleteIncidences(n, unread, ok, alarms)
  \/ \E n \in Notebook :
       \/ SetDefaultNotebook(n)
       \/ SetIsVisible(n)
       \/ KeepIncidences(n)
       \/ OtherShows(n)
       \/ OtherChooses(n)
       \/ OtherDeletes(n)
       \/ OtherInitializes(n)
  \/ \E i \in Incidence : AddIncidence(i)
  \/ \E committed, alarms \in BOOLEAN : Save(committed, alarms)

Spec == Init /\ [][Next]_vars

-----------------------------------------------------------------------------
\* mNotebooks and the calendar have the same notebooks, whatever call has
\* failed in between, and only the default notebook has the flag.
RegistryAgrees ==
  /\ listed = known
  /\ \A n \in listed : object[n].isDefault => n = default

\* At most one row is the default one, wherever a change of the default fails
\* or ends, unless this process has acted on rows it had not read.
OneDefaultRow ==
  blind \/ \A m, n \in Notebook : rows[m].isDefault /\ rows[n].isDefault => m = n

\* An incidence is without notebook ("delete all notebook incidences from
\* calendar", src/src/extendedstorage.cpp:424) only while the deletion of that
\* notebook is at its second step, or if it is one of those which that step did
\* not reach (left): it failed or was cut short, could not load the incidence,
\* the notebook is read-only, or the incidence was saved when the row was gone
\* already.  A deletion of the notebook that is repeated erases it.
NoOrphans ==
  \A i \in stored \ left : Has(NotebookOf[i]) \/ At("incidences", NotebookOf[i])

\* A call is between the row of a notebook and the alarms of its incidences.
Busy(n) == \E step \in {"set", "clear", "incidences"} : At(step, n)

\* An incidence has one alarm if the row of its notebook is visible and none if
\* not ("Switching the notebook to non visible should deactivate all alarms.",
\* tests/tst_storage.cpp), whatever else has failed or another process does.  Not
\* so while a call that changes this notebook is between the row and the alarms,
\* and for the incidences a call has not brought into line (stale): timed failed
\* or the process ended before it, a save or an update went by a visibility that
\* the row had not, a change of the default stored one, or another process
\* changed it between the row and the alarms.  Nor for what a deletion left.
AlarmsFollowVisibility ==
  \A i \in stored \ (left \cup stale) :
    LET n == NotebookOf[i]
    IN  Has(n) /\ ~Busy(n) => timed[i] = IF rows[n].visible THEN 1 ELSE 0
=============================================================================
