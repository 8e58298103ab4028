--------------------------- MODULE NotebooksProofs ---------------------------
(* Type correctness of Notebooks, that its two registries of notebooks agree, *)
(* that there is one default row, that no incidence outlives its notebook, and *)
(* that the alarms follow the visibility of the notebooks.                     *)
EXTENDS Notebooks, TLAPS

USE DEF Behind, At, Has, Idle

\* What the records of a notebook are.
LEMMA Rows ==
  /\ NoObject \in Row /\ NoObject.isDefault = FALSE
  /\ NoRow \notin Row /\ NoRow.isDefault = FALSE
  /\ \A r \in Row : [r EXCEPT !.visible = ~@] \in Row /\ [r EXCEPT !.visible = ~@].isDefault = r.isDefault
  /\ \A r \in Row, b \in BOOLEAN : [r EXCEPT !.isDefault = b] \in Row /\ [r EXCEPT !.isDefault = b].isDefault = b
<1>1. NoObject \in Row /\ NoObject.isDefault = FALSE
  BY DEF Row, NoObject
<1>2. NoRow.isDefault = FALSE
  BY DEF NoRow
<1>5. NoRow \notin Row
  <2>1. "absent" \in DOMAIN NoRow
    BY DEF NoRow
  <2>2. \A r \in Row : "absent" \notin DOMAIN r
    BY DEF Row
  <2> QED BY <2>1, <2>2
<1>3. ASSUME NEW r \in Row
      PROVE  [r EXCEPT !.visible = ~@] \in Row /\ [r EXCEPT !.visible = ~@].isDefault = r.isDefault
  BY DEF Row
<1>4. ASSUME NEW r \in Row, NEW b \in BOOLEAN
      PROVE  [r EXCEPT !.isDefault = b] \in Row /\ [r EXCEPT !.isDefault = b].isDefault = b
  BY DEF Row
<1> QED BY <1>1, <1>2, <1>3, <1>4, <1>5

\* What a call without a notebook says.
LEMMA Calls ==
  \A s, t, m, n : [step |-> s, nb |-> m] = [step |-> t, nb |-> n] <=> s = t /\ m = n
OBVIOUS

\* The initial states have the types.
LEMMA TypeInit == Init => TypeOK
<1> SUFFICES ASSUME Init PROVE TypeOK
  OBVIOUS
<1>1. rows \in [Notebook -> Row \cup {NoRow}]
  <2> DEFINE shownRow == [visible |-> TRUE, isDefault |-> FALSE]
  <2>1. PICK r \in {NoRow, shownRow} : rows = [n \in Notebook |-> r]
    BY DEF Init
  <2>2. shownRow \in Row
    BY DEF Row
  <2>3. r \in Row \cup {NoRow}
    BY <2>1, <2>2
  <2> HIDE DEF shownRow
  <2> QED BY <2>1, <2>3
<1>2. object \in [Notebook -> Row]
  BY Rows DEF Init
<1>3. timed \in [Incidence -> 0 .. 2] /\ stored \subseteq Incidence
  BY DEF Init
<1>4. troubles \in 0 .. MaxTroubles
  BY BoundAssumption DEF Init
<1> QED BY <1>1, <1>2, <1>3, <1>4 DEF Init, TypeOK

-----------------------------------------------------------------------------
(* Types *)

\* Reading the rows L.
LEMMA LoadTypes ==
  ASSUME TypeOK, NEW L \in SUBSET Notebook, \A n \in L : Has(n), Load(L)
  PROVE  /\ listed' = L /\ known' = L /\ shown' \subseteq L
         /\ default' \in L \cup {None}
         /\ object' \in [Notebook -> Row]
         /\ \A n \in L : object'[n].isDefault <=> n = default'
         /\ \A n \in L : rows[n].isDefault => \E m \in L : rows[m].isDefault /\ m = default'
<1> DEFINE defaults == {n \in L : rows[n].isDefault}
<1>1. PICK d \in (IF defaults = {} THEN {None} ELSE defaults) :
        /\ default' = d
        /\ object' = [n \in Notebook |-> [visible |-> n \in L /\ rows[n].visible, isDefault |-> n = d]]
  BY DEF Load
<1>2. \A n \in L : rows[n].visible \in BOOLEAN
  BY DEF TypeOK, Row
<1>3. object' \in [Notebook -> Row]
  BY <1>1, <1>2 DEF Row
<1>4. \A n \in L : object'[n].isDefault <=> n = default'
  BY <1>1
<1>5. default' \in L \cup {None}
  BY <1>1
<1>6. \A n \in L : rows[n].isDefault => \E m \in L : rows[m].isDefault /\ m = default'
  BY <1>1
<1> QED BY <1>3, <1>4, <1>5, <1>6 DEF Load

\* A step of a call keeps the types of what it counts.
LEMMA StepTypes ==
  ASSUME TypeOK, NEW n \in 0 .. 3, Step(n)
  PROVE  /\ troubles' \in 0 .. MaxTroubles
         /\ blind' \in BOOLEAN /\ event' \in BOOLEAN /\ misread' \in BOOLEAN
BY BoundAssumption DEF TypeOK, Step, Trouble

\* What a failure counts.
LEMMA FailsCount ==
  \A b, c, d \in BOOLEAN : /\ Fails(b) \in 0 .. 3 /\ Fails(b) + Fails(c) \in 0 .. 3
                          /\ Fails(b) + Fails(c) + Fails(d) \in 0 .. 3
BY DEF Fails

\* The alarms of timed.
LEMMA TimedTypes ==
  ASSUME NEW t \in [Incidence -> 0 .. 2], NEW S
  PROVE  Cleared(t, S) \in [Incidence -> 0 .. 2] /\ Added(t, S) \in [Incidence -> 0 .. 2]
BY DEF Cleared, Added

\* A row that is written.
LEMMA UpdatedTypes ==
  ASSUME TypeOK, NEW n \in Notebook \cup {None}, NEW o \in Row
  PROVE  Updated(n, o) \in [Notebook -> Row \cup {NoRow}]
BY DEF TypeOK, Updated

\* The flag of an object.
LEMMA FlaggedTypes ==
  ASSUME TypeOK, NEW n \in Notebook, NEW b \in BOOLEAN
  PROVE  /\ Flagged(n, b) \in [Notebook -> Row]
         /\ Flagged(n, b)[n].isDefault = b
         /\ \A m \in Notebook : m # n => Flagged(n, b)[m] = object[m]
BY Rows DEF TypeOK, Flagged

\* A notebook that is added.
LEMMA AddTypes ==
  ASSUME TypeOK, NEW n \in Notebook, NEW visible \in BOOLEAN, NEW ok \in BOOLEAN, Add(n, visible, ok)
  PROVE  /\ rows' \in [Notebook -> Row \cup {NoRow}]
         /\ object' \in [Notebook -> Row]
         /\ listed' = IF ok THEN listed \cup {n} ELSE listed
         /\ known' = IF ok THEN known \cup {n} ELSE known
         /\ listed' \subseteq Notebook /\ known' \subseteq Notebook /\ shown' \subseteq known'
         /\ \A m \in Notebook : ~(ok /\ m = n) => rows'[m] = rows[m] /\ object'[m] = object[m]
         /\ ok => rows'[n] \in Row /\ ~rows'[n].isDefault /\ ~object'[n].isDefault /\ ~Has(n)
         /\ n \notin listed /\ n \notin known
         /\ Step(Fails(~ok /\ ~Has(n)))
<1> DEFINE o == [visible |-> visible, isDefault |-> FALSE]
<1>1. o \in Row /\ ~o.isDefault
  BY DEF Row
<1>2. CASE ok
  <2>1. object' = [object EXCEPT ![n] = o] /\ rows' = [rows EXCEPT ![n] = object'[n]]
    BY <1>2 DEF Add
  <2> HIDE DEF o
  <2>2. /\ object' \in [Notebook -> Row]
        /\ rows' \in [Notebook -> Row \cup {NoRow}]
        /\ object'[n] = o /\ rows'[n] = o
        /\ \A m \in Notebook : m # n => rows'[m] = rows[m] /\ object'[m] = object[m]
    BY <1>1, <2>1 DEF TypeOK
  <2> QED BY <1>1, <1>2, <2>2 DEF Add, KnownAfter, TypeOK
<1>3. CASE ~ok
  BY <1>3 DEF Add, KnownAfter, TypeOK
<1> QED BY <1>2, <1>3

\* The histories are of stored incidences.
HistoryTypes == left \subseteq stored /\ stale \subseteq stored

LEMMA HistoryStep == TypeOK /\ [Next]_vars => HistoryTypes'
<1> SUFFICES ASSUME HistoryTypes, [Next]_vars PROVE HistoryTypes'
  BY DEF TypeOK, HistoryTypes
<1> USE DEF HistoryTypes, Stored
<1>1. CASE Open
  BY <1>1 DEF Open, shared
<1>2. ASSUME NEW n \in Notebook, NEW ok \in BOOLEAN,
             ClearDefault(n, ok) \/ ChooseDefault(n, ok) \/ UpdateNotebook(n, ok) \/ UpdateAlarms(n, ok)
      PROVE  HistoryTypes'
  <2>1. UNCHANGED <<left, stored>>
    BY <1>2 DEF ClearDefault, ChooseDefault, UpdateNotebook, UpdateAlarms
  <2>2. stale' \subseteq stale \/ \E m : stale' = stale \cup Stored(m)
    BY <1>2 DEF ClearDefault, ChooseDefault, UpdateNotebook, UpdateAlarms, Carried
  <2> QED BY <2>1, <2>2
<1>3. ASSUME NEW ok \in BOOLEAN, NEW alarms \in BOOLEAN, Save(ok, alarms) PROVE HistoryTypes'
  BY <1>3 DEF Save
<1>4. ASSUME NEW n \in Notebook, KeepIncidences(n) PROVE HistoryTypes'
  BY <1>4 DEF KeepIncidences, shared
<1>5. ASSUME NEW n \in Notebook, NEW ok \in BOOLEAN, NEW alarms \in BOOLEAN,
             NEW unread \in SUBSET Incidence, DeleteIncidences(n, unread, ok, alarms)
      PROVE  HistoryTypes'
  BY <1>5 DEF DeleteIncidences
<1>6. ASSUME NEW n \in Notebook, OtherShows(n) PROVE HistoryTypes'
  BY <1>6 DEF OtherShows
<1>7. ASSUME NEW n \in Notebook, OtherDeletes(n) PROVE HistoryTypes'
  BY <1>7 DEF OtherDeletes
<1>8. ASSUME UNCHANGED <<stored, left, stale>> PROVE HistoryTypes'
  BY <1>8
<1> QED
  BY <1>1, <1>2, <1>3, <1>4, <1>5, <1>6, <1>7, <1>8
  DEF Next, FileChanged, AddNotebook, CreateDefaultNotebook, SetDefaultNotebook, SetIsVisible,
      AddIncidence, DeleteNotebook, OtherChooses, OtherInitializes, vars, shared, history

\* The two registries have the same notebooks.
Registered == listed = known

\* Every action keeps the types: a notebook is only shown if it is known.
LEMMA TypeStep == TypeOK /\ Registered /\ [Next]_vars => TypeOK'
<1> SUFFICES ASSUME TypeOK, Registered, [Next]_vars PROVE TypeOK'
  OBVIOUS
<1>0. left' \subseteq stored' /\ stale' \subseteq stored'
  BY HistoryStep DEF HistoryTypes
<1> USE NotebookAssumption, FailsCount, StepTypes, <1>0 DEF Stored, history
<1>1. CASE Open
  <2>1. {n \in Notebook : Has(n)} \in SUBSET Notebook
    OBVIOUS
  <2>2. Load({n \in Notebook : Has(n)})
    BY <1>1 DEF Open
  <2>3. /\ listed' \subseteq Notebook /\ known' = listed' /\ shown' \subseteq known'
        /\ default' \in listed' \cup {None} /\ object' \in [Notebook -> Row]
    BY <2>1, <2>2, LoadTypes
  <2> QED BY <1>1, <2>3 DEF Open, TypeOK, shared
<1>2. ASSUME NEW L \in SUBSET Notebook, FileChanged(L) PROVE TypeOK'
  <2>1. /\ listed' \subseteq Notebook /\ known' = listed' /\ shown' \subseteq known'
        /\ default' \in listed' \cup {None} /\ object' \in [Notebook -> Row]
    BY <1>2, LoadTypes DEF FileChanged
  <2>2. troubles' \in 0 .. MaxTroubles
    <3>1. misread' \in BOOLEAN
      BY <1>2 DEF FileChanged
    <3>2. Fails(misread') \in 0 .. 3
      BY <3>1
    <3> QED BY <1>2, <3>2, BoundAssumption DEF FileChanged, Trouble, TypeOK
  <2> QED BY <1>2, <2>1, <2>2 DEF FileChanged, TypeOK, shared
<1>3. ASSUME NEW n \in Notebook, NEW ok \in BOOLEAN, NEW visible \in BOOLEAN, AddNotebook(n, visible, ok)
      PROVE  TypeOK'
  <2>1. Add(n, visible, ok)
    BY <1>3 DEF AddNotebook
  <2>2. /\ troubles' \in 0 .. MaxTroubles
        /\ blind' \in BOOLEAN /\ event' \in BOOLEAN /\ misread' \in BOOLEAN
    BY <2>1, AddTypes DEF TypeOK
  <2>3. listed' \subseteq Notebook /\ known' \subseteq Notebook /\ listed \subseteq listed'
    BY <2>1, AddTypes
  <2>4. /\ shown' \subseteq known' /\ object' \in [Notebook -> Row]
        /\ rows' \in [Notebook -> Row \cup {NoRow}]
    BY <2>1, AddTypes
  <2> QED BY <1>3, <2>2, <2>3, <2>4 DEF AddNotebook, TypeOK
<1>4. ASSUME NEW n \in Notebook, NEW ok \in BOOLEAN, CreateDefaultNotebook(n, ok) PROVE TypeOK'
  <2>1. Add(n, TRUE, ok)
    BY <1>4 DEF CreateDefaultNotebook
  <2>2. /\ troubles' \in 0 .. MaxTroubles
        /\ blind' \in BOOLEAN /\ event' \in BOOLEAN /\ misread' \in BOOLEAN
    BY <2>1, AddTypes DEF TypeOK
  <2>3. /\ listed' \subseteq Notebook /\ known' \subseteq Notebook /\ listed \subseteq listed'
        /\ ok => n \in listed'
    BY <2>1, AddTypes
  <2>4. /\ shown' \subseteq known' /\ object' \in [Notebook -> Row]
        /\ rows' \in [Notebook -> Row \cup {NoRow}]
    BY <2>1, AddTypes
  <2>5. (call' = [step |-> "default", nb |-> n] /\ ok) \/ call' = Idle
    BY <1>4 DEF CreateDefaultNotebook
  <2> QED BY <1>4, <2>2, <2>3, <2>4, <2>5 DEF CreateDefaultNotebook, TypeOK
<1>5. ASSUME NEW n \in Notebook, SetDefaultNotebook(n) PROVE TypeOK'
  BY <1>5 DEF SetDefaultNotebook, TypeOK, shared, registry
<1>6. ASSUME NEW n \in Notebook, NEW ok \in BOOLEAN, ClearDefault(n, ok) PROVE TypeOK'
  <2>1. CASE default = None
    <3>1. Step(Fails(~ok)) /\ UNCHANGED <<object, rows, stale>> /\ call' = [step |-> "chosen", nb |-> n]
      BY <1>6, <2>1 DEF ClearDefault
    <3>2. /\ troubles' \in 0 .. MaxTroubles
          /\ blind' \in BOOLEAN /\ event' \in BOOLEAN /\ misread' \in BOOLEAN
      BY <3>1
    <3>3. n \in listed
      BY <1>6 DEF ClearDefault, TypeOK
    <3> QED BY <1>6, <3>1, <3>2, <3>3 DEF ClearDefault, TypeOK
  <2>2. CASE default # None
    <3>1. default \in Notebook
      BY <2>2 DEF TypeOK
    <3>2. object' \in [Notebook -> Row]
      BY <1>6, <2>2, <3>1, FlaggedTypes DEF ClearDefault
    <3>3. ClearedRows \in [Notebook -> Row \cup {NoRow}]
      <4>1. Flagged(default, FALSE)[default] \in Row
        BY <3>1, FlaggedTypes
      <4> QED BY <3>1, <4>1, UpdatedTypes DEF ClearedRows
    <3>4. rows' \in [Notebook -> Row \cup {NoRow}]
      BY <1>6, <2>2, <3>3 DEF ClearDefault, TypeOK
    <3>5. Step(Fails(~ok))
      BY <1>6, <2>2 DEF ClearDefault
    <3>6. call' = Idle \/ (call' = [step |-> "chosen", nb |-> n] /\ n \in listed)
      BY <1>6 DEF ClearDefault, TypeOK
    <3> QED BY <1>6, <3>1, <3>2, <3>4, <3>5, <3>6 DEF ClearDefault, TypeOK
  <2> QED BY <2>1, <2>2
<1>7. ASSUME NEW n \in Notebook, NEW ok \in BOOLEAN, ChooseDefault(n, ok) PROVE TypeOK'
  <2>1. n \in listed
    BY <1>7 DEF ChooseDefault, TypeOK
  <2>2. object' \in [Notebook -> Row]
    BY <1>7, FlaggedTypes DEF ChooseDefault
  <2>3. rows' \in [Notebook -> Row \cup {NoRow}]
    BY <1>7, <2>2, UpdatedTypes DEF ChooseDefault, TypeOK
  <2> QED BY <1>7, <2>1, <2>2, <2>3 DEF ChooseDefault, TypeOK
<1>8. ASSUME NEW n \in Notebook, SetIsVisible(n) PROVE TypeOK'
  <2>1. object' \in [Notebook -> Row]
    <3>1. [object[n] EXCEPT !.visible = ~@] \in Row
      BY Rows DEF TypeOK
    <3> QED BY <1>8, <3>1 DEF SetIsVisible, TypeOK
  <2> QED BY <1>8, <2>1 DEF SetIsVisible, TypeOK, shared
<1>9. ASSUME NEW n \in Notebook, NEW ok \in BOOLEAN, UpdateNotebook(n, ok) PROVE TypeOK'
  <2>1. rows' \in [Notebook -> Row \cup {NoRow}]
    BY <1>9, UpdatedTypes DEF UpdateNotebook, TypeOK
  <2>2. Step(Fails(~ok)) /\ n \in listed
    BY <1>9 DEF UpdateNotebook
  <2>3. /\ troubles' \in 0 .. MaxTroubles
        /\ blind' \in BOOLEAN /\ event' \in BOOLEAN /\ misread' \in BOOLEAN
    BY <2>2 DEF TypeOK
  <2>4. shown' \subseteq known'
    BY <1>9 DEF UpdateNotebook, TypeOK, Registered
  <2>5. \/ call' = Idle
        \/ \E step \in {"set", "clear"} : call' = [step |-> step, nb |-> n]
    BY <1>9 DEF UpdateNotebook
  <2> QED BY <1>9, <2>1, <2>2, <2>3, <2>4, <2>5 DEF UpdateNotebook, TypeOK
<1>10. ASSUME NEW n \in Notebook, NEW ok \in BOOLEAN, UpdateAlarms(n, ok) PROVE TypeOK'
  <2>1. timed' \in [Incidence -> 0 .. 2]
    BY <1>10, TimedTypes DEF UpdateAlarms, TypeOK
  <2> QED BY <1>10, <2>1 DEF UpdateAlarms, TypeOK, registry
<1>11. ASSUME NEW i \in Incidence, AddIncidence(i) PROVE TypeOK'
  BY <1>11 DEF AddIncidence, TypeOK, shared, registry
<1>12. ASSUME NEW ok \in BOOLEAN, NEW alarms \in BOOLEAN, Save(ok, alarms) PROVE TypeOK'
  <2>1. timed' \in [Incidence -> 0 .. 2]
    BY <1>12, TimedTypes DEF Save, Reset, TypeOK
  <2> QED BY <1>12, <2>1 DEF Save, Valid, TypeOK, registry
<1>13. ASSUME NEW n \in Notebook, NEW ok \in BOOLEAN, DeleteNotebook(n, ok) PROVE TypeOK'
  BY <1>13 DEF DeleteNotebook, TypeOK, registry
<1>14. ASSUME NEW n \in Notebook, KeepIncidences(n) PROVE TypeOK'
  <2>1. Step(1)
    BY <1>14 DEF KeepIncidences
  <2>2. /\ troubles' \in 0 .. MaxTroubles
        /\ blind' \in BOOLEAN /\ event' \in BOOLEAN /\ misread' \in BOOLEAN
    BY <2>1, 1 \in 0 .. 3
  <2> QED BY <1>14, <2>2 DEF KeepIncidences, TypeOK, shared, registry
<1>15. ASSUME NEW n \in Notebook, NEW ok \in BOOLEAN, NEW alarms \in BOOLEAN,
             NEW unread \in SUBSET Incidence, DeleteIncidences(n, unread, ok, alarms)
       PROVE  TypeOK'
  <2>1. timed' \in [Incidence -> 0 .. 2]
    <3>1. Reset(Valid(pending)) \in [Incidence -> 0 .. 2]
      BY TimedTypes DEF Reset, TypeOK
    <3>2. \/ timed' = timed
          \/ timed' = Cleared(Reset(Valid(pending)), Erased(n, Stored(n) \ unread))
      BY <1>15 DEF DeleteIncidences
    <3> QED BY <3>1, <3>2, TimedTypes DEF TypeOK
  <2>2. stored' \subseteq Incidence /\ pending' \subseteq Incidence
    BY <1>15 DEF DeleteIncidences, Valid, TypeOK
  <2>3. /\ listed' \subseteq Notebook /\ known' \subseteq Notebook /\ shown' \subseteq known'
        /\ default' \in listed' \cup {None}
    BY <1>15 DEF DeleteIncidences, Forget, TypeOK
  <2>4. object' \in [Notebook -> Row]
    BY <1>15, Rows DEF DeleteIncidences, Forget, TypeOK
  <2>5. Step(Fails(unread # {}) + Fails(~ok) + Fails(~alarms))
    BY <1>15 DEF DeleteIncidences
  <2>6. /\ troubles' \in 0 .. MaxTroubles
        /\ blind' \in BOOLEAN /\ event' \in BOOLEAN /\ misread' \in BOOLEAN
    <3>1. Fails(unread # {}) + Fails(~ok) + Fails(~alarms) \in 0 .. 3
      OBVIOUS
    <3> QED BY <2>5, <3>1
  <2> QED BY <1>15, <2>1, <2>2, <2>3, <2>4, <2>6 DEF DeleteIncidences, TypeOK
<1>16. ASSUME NEW n \in Notebook, OtherShows(n) PROVE TypeOK'
  <2>1. [rows[n] EXCEPT !.visible = ~@] \in Row
    BY <1>16, Rows DEF TypeOK, OtherShows
  <2>2. timed' \in [Incidence -> 0 .. 2]
    BY <1>16, TimedTypes DEF OtherShows, TypeOK
  <2>3. troubles' \in 0 .. MaxTroubles
    BY <1>16, BoundAssumption DEF OtherShows, Other, Trouble, TypeOK
  <2>4. rows' \in [Notebook -> Row \cup {NoRow}]
    BY <1>16, <2>1 DEF OtherShows, TypeOK
  <2> QED BY <1>16, <2>2, <2>3, <2>4 DEF OtherShows, Other, TypeOK, registry
<1>17. ASSUME NEW n \in Notebook, OtherChooses(n) PROVE TypeOK'
  <2>1. \A m \in Notebook : Has(m) => [rows[m] EXCEPT !.isDefault = (m = n)] \in Row
    BY Rows DEF TypeOK
  <2>2. rows' \in [Notebook -> Row \cup {NoRow}]
    BY <1>17, <2>1 DEF OtherChooses
  <2> QED BY <1>17, <2>2, BoundAssumption DEF OtherChooses, Other, Trouble, TypeOK, registry
<1>18. ASSUME NEW n \in Notebook, OtherDeletes(n) PROVE TypeOK'
  <2>1. timed' \in [Incidence -> 0 .. 2]
    BY <1>18, TimedTypes DEF OtherDeletes, TypeOK
  <2>2. troubles' \in 0 .. MaxTroubles
    BY <1>18, BoundAssumption DEF OtherDeletes, Other, Trouble, TypeOK
  <2>3. rows' \in [Notebook -> Row \cup {NoRow}]
    BY <1>18 DEF OtherDeletes, TypeOK
  <2> QED BY <1>18, <2>1, <2>2, <2>3 DEF OtherDeletes, Other, TypeOK, registry
<1>19. ASSUME NEW n \in Notebook, OtherInitializes(n) PROVE TypeOK'
  <2>1. [visible |-> TRUE, isDefault |-> TRUE] \in Row
    BY DEF Row
  <2> QED BY <1>19, <2>1, BoundAssumption DEF OtherInitializes, Other, Trouble, TypeOK, registry
<1>20. CASE UNCHANGED vars
  BY <1>20 DEF vars, shared, registry, TypeOK
<1> QED
  BY <1>1, <1>2, <1>3, <1>4, <1>5, <1>6, <1>7, <1>8, <1>9, <1>10, <1>11, <1>12, <1>13, <1>14,
     <1>15, <1>16, <1>17, <1>18, <1>19, <1>20
  DEF Next

\* Every action keeps the registries together.
LEMMA RegisteredStep == TypeOK /\ Registered /\ [Next]_vars => Registered'
<1> SUFFICES ASSUME TypeOK, Registered, [Next]_vars PROVE Registered'
  OBVIOUS
<1> USE DEF Registered
<1>1. ASSUME NEW L \in SUBSET Notebook, Load(L) PROVE Registered'
  BY <1>1 DEF Load
<1>2. ASSUME NEW n \in Notebook, NEW ok \in BOOLEAN, NEW visible \in BOOLEAN, Add(n, visible, ok)
      PROVE  Registered'
  BY <1>2 DEF Add, KnownAfter
<1>3. CASE UNCHANGED <<listed, known>>
  BY <1>3
<1>4. CASE Open
  BY <1>1, <1>4 DEF Open
<1>5. ASSUME NEW L \in SUBSET Notebook, FileChanged(L) PROVE Registered'
  BY <1>1, <1>5 DEF FileChanged
<1>6. ASSUME NEW n \in Notebook, NEW ok \in BOOLEAN, NEW alarms \in BOOLEAN,
             NEW unread \in SUBSET Incidence, DeleteIncidences(n, unread, ok, alarms)
      PROVE  Registered'
  BY <1>6 DEF DeleteIncidences, Forget
<1>7. ASSUME NEW n \in Notebook, NEW ok \in BOOLEAN,
             \/ \E visible \in BOOLEAN : AddNotebook(n, visible, ok)
             \/ CreateDefaultNotebook(n, ok)
      PROVE  Registered'
  BY <1>2, <1>7 DEF AddNotebook, CreateDefaultNotebook
<1>8. ASSUME NEW n \in Notebook, NEW ok \in BOOLEAN, ClearDefault(n, ok) \/ ChooseDefault(n, ok)
      PROVE  Registered'
  BY <1>3, <1>8 DEF ClearDefault, ChooseDefault
<1>9. ASSUME NEW n \in Notebook, NEW ok \in BOOLEAN,
             UpdateNotebook(n, ok) \/ UpdateAlarms(n, ok) \/ DeleteNotebook(n, ok)
      PROVE  Registered'
  BY <1>3, <1>9 DEF UpdateNotebook, UpdateAlarms, DeleteNotebook, registry
<1>10. ASSUME NEW n \in Notebook, SetDefaultNotebook(n) \/ SetIsVisible(n) \/ KeepIncidences(n)
       PROVE  Registered'
  BY <1>3, <1>10 DEF SetDefaultNotebook, SetIsVisible, KeepIncidences, registry
<1>11. ASSUME NEW n \in Notebook,
              OtherShows(n) \/ OtherChooses(n) \/ OtherDeletes(n) \/ OtherInitializes(n)
       PROVE  Registered'
  BY <1>3, <1>11 DEF OtherShows, OtherChooses, OtherDeletes, OtherInitializes, Other, registry
<1>12. ASSUME NEW i \in Incidence, AddIncidence(i) PROVE Registered'
  BY <1>3, <1>12 DEF AddIncidence, registry
<1>13. ASSUME NEW ok \in BOOLEAN, NEW alarms \in BOOLEAN, Save(ok, alarms) PROVE Registered'
  BY <1>3, <1>13 DEF Save, registry
<1>14. CASE UNCHANGED vars
  BY <1>3, <1>14 DEF vars, registry
<1> QED
  BY <1>4, <1>5, <1>6, <1>7, <1>8, <1>9, <1>10, <1>11, <1>12, <1>13, <1>14 DEF Next

\* Every state of the rows, the registries and the running call has its type.
THEOREM TypeCorrect == Spec => []TypeOK
<1>1. Init => TypeOK /\ Registered
  BY TypeInit DEF Init, Registered
<1>2. TypeOK /\ Registered /\ [Next]_vars => TypeOK' /\ Registered'
  BY TypeStep, RegisteredStep
<1> QED BY <1>1, <1>2, PTL DEF Spec

-----------------------------------------------------------------------------
(* The default notebook *)

\* Only the default notebook has the flag, and none while the new default has
\* not got it yet.
FlagIsDefault == \A n \in listed : object[n].isDefault => n = default /\ call.step # "chosen"

\* Every action keeps the flags right.
LEMMA FlagStep == TypeOK /\ Registered /\ FlagIsDefault /\ [Next]_vars => FlagIsDefault'
<1> SUFFICES ASSUME TypeOK, Registered, FlagIsDefault, [Next]_vars PROVE FlagIsDefault'
  OBVIOUS
<1> USE NotebookAssumption DEF FlagIsDefault
<1>0. listed \subseteq Notebook /\ default \in listed \cup {None} /\ object \in [Notebook -> Row]
  BY DEF TypeOK
<1>1. ASSUME NEW L \in SUBSET Notebook, \A n \in L : Has(n), Load(L), call'.step # "chosen"
      PROVE  FlagIsDefault'
  <2>1. listed' = L /\ \A n \in L : object'[n].isDefault <=> n = default'
    BY <1>1, LoadTypes
  <2> QED BY <1>1, <2>1
<1>2. ASSUME NEW n \in Notebook, NEW ok \in BOOLEAN, NEW visible \in BOOLEAN, Add(n, visible, ok),
             default' = default, call'.step # "chosen"
      PROVE  FlagIsDefault'
  <2>1. listed' = IF ok THEN listed \cup {n} ELSE listed
    BY <1>2, AddTypes
  <2>2. /\ \A m \in Notebook : ~(ok /\ m = n) => object'[m] = object[m]
        /\ ok => ~object'[n].isDefault
    BY <1>2, AddTypes
  <2> QED BY <1>0, <1>2, <2>1, <2>2
<1>3. ASSUME UNCHANGED <<listed, object, default>>, call' = call \/ call'.step # "chosen"
      PROVE  FlagIsDefault'
  BY <1>3
<1>4. CASE Open
  <2>1. Load({n \in Notebook : Has(n)}) /\ call'.step # "chosen"
    BY <1>4 DEF Open
  <2> QED BY <1>1, <2>1
<1>5. ASSUME NEW L \in SUBSET Notebook, FileChanged(L) PROVE FlagIsDefault'
  BY <1>1, <1>5 DEF FileChanged
<1>6. ASSUME NEW n \in Notebook, NEW ok \in BOOLEAN, NEW visible \in BOOLEAN, AddNotebook(n, visible, ok)
      PROVE  FlagIsDefault'
  BY <1>2, <1>6 DEF AddNotebook
<1>7. ASSUME NEW n \in Notebook, NEW ok \in BOOLEAN, CreateDefaultNotebook(n, ok) PROVE FlagIsDefault'
  <2>1. Add(n, TRUE, ok) /\ default' = default /\ call'.step # "chosen"
    BY <1>7 DEF CreateDefaultNotebook
  <2> QED BY <1>2, <2>1
<1>8. ASSUME NEW n \in Notebook, NEW ok \in BOOLEAN, ClearDefault(n, ok) PROVE FlagIsDefault'
  <2>1. CASE default = None
    BY <1>0, <1>8, <2>1 DEF ClearDefault
  <2>2. CASE default # None
    <3>1. object' = Flagged(default, FALSE) /\ UNCHANGED <<listed, default>>
      BY <1>8, <2>2 DEF ClearDefault
    <3>2. ~object'[default].isDefault /\ \A m \in Notebook : m # default => object'[m] = object[m]
      BY <1>0, <2>2, <3>1, FlaggedTypes
    <3> QED BY <1>0, <3>1, <3>2
  <2> QED BY <2>1, <2>2
<1>9. ASSUME NEW n \in Notebook, NEW ok \in BOOLEAN, ChooseDefault(n, ok) PROVE FlagIsDefault'
  <2>1. object' = Flagged(n, TRUE) /\ default' = n /\ listed' = listed /\ call' = Idle /\ call.step = "chosen"
    BY <1>9 DEF ChooseDefault
  <2>2. \A m \in Notebook : m # n => object'[m] = object[m]
    BY <2>1, FlaggedTypes
  <2> QED BY <1>0, <2>1, <2>2
<1>10. ASSUME NEW n \in Notebook, SetIsVisible(n) PROVE FlagIsDefault'
  <2>1. object' = [object EXCEPT ![n] = [object[n] EXCEPT !.visible = ~@]]
    BY <1>10 DEF SetIsVisible
  <2>2. \A m \in Notebook : object'[m].isDefault = object[m].isDefault
    BY <1>0, <2>1, Rows
  <2> QED BY <1>0, <1>10, <2>2 DEF SetIsVisible
<1>11. ASSUME NEW n \in Notebook, NEW ok \in BOOLEAN, NEW alarms \in BOOLEAN,
             NEW unread \in SUBSET Incidence, DeleteIncidences(n, unread, ok, alarms)
       PROVE  FlagIsDefault'
  <2>1. Forget(n) /\ call' = Idle
    BY <1>11 DEF DeleteIncidences
  <2> QED BY <1>0, <2>1 DEF Forget
<1>12. ASSUME NEW n \in Notebook, NEW ok \in BOOLEAN,
              UpdateNotebook(n, ok) \/ UpdateAlarms(n, ok) \/ DeleteNotebook(n, ok)
       PROVE  FlagIsDefault'
  <2>1. UNCHANGED <<listed, object, default>>
    BY <1>12 DEF UpdateNotebook, UpdateAlarms, DeleteNotebook, registry
  <2>2. call' = call \/ call'.step # "chosen"
    BY <1>12 DEF UpdateNotebook, UpdateAlarms, DeleteNotebook
  <2> QED BY <1>3, <2>1, <2>2
<1>13. ASSUME NEW n \in Notebook, SetDefaultNotebook(n) \/ KeepIncidences(n) PROVE FlagIsDefault'
  BY <1>3, <1>13 DEF SetDefaultNotebook, KeepIncidences, registry
<1>14. ASSUME NEW n \in Notebook,
              OtherShows(n) \/ OtherChooses(n) \/ OtherDeletes(n) \/ OtherInitializes(n)
       PROVE  FlagIsDefault'
  BY <1>3, <1>14 DEF OtherShows, OtherChooses, OtherDeletes, OtherInitializes, Other, registry
<1>15. ASSUME NEW i \in Incidence, AddIncidence(i) PROVE FlagIsDefault'
  BY <1>3, <1>15 DEF AddIncidence, registry
<1>16. ASSUME NEW ok \in BOOLEAN, NEW alarms \in BOOLEAN, Save(ok, alarms) PROVE FlagIsDefault'
  BY <1>3, <1>16 DEF Save, registry
<1>17. CASE UNCHANGED vars
  BY <1>3, <1>17 DEF vars, registry
<1> QED
  BY <1>4, <1>5, <1>6, <1>7, <1>8, <1>9, <1>10, <1>11, <1>12, <1>13, <1>14, <1>15, <1>16, <1>17
  DEF Next

\* The types, the registries and the flags.
RegistryInvariant == TypeOK /\ Registered /\ FlagIsDefault

\* Every state has them.
LEMMA RegistryInvariantHolds == Spec => []RegistryInvariant
<1>1. Init => RegistryInvariant
  BY TypeInit DEF Init, RegistryInvariant, Registered, FlagIsDefault
<1>2. RegistryInvariant /\ [Next]_vars => RegistryInvariant'
  BY TypeStep, RegisteredStep, FlagStep DEF RegistryInvariant
<1> QED BY <1>1, <1>2, PTL DEF Spec

\* The storage and its calendar have the same notebooks, and only the default
\* notebook has the flag, whatever fails and wherever a process ends.
THEOREM RegistryCorrect == Spec => []RegistryAgrees
<1>1. RegistryInvariant => RegistryAgrees
  BY DEF RegistryInvariant, Registered, FlagIsDefault, RegistryAgrees
<1> QED BY <1>1, RegistryInvariantHolds, PTL

-----------------------------------------------------------------------------
(* The default row *)

DefaultRows == {n \in Notebook : rows[n].isDefault}
Present == {n \in Notebook : Has(n)}

\* What this process knows of the default row as long as it has read every row:
\* it is its own default, not while the new one has not got the flag, and a row
\* that is being deleted is gone.
DefaultIsKnown ==
  /\ DefaultRows \subseteq {default}
  /\ call.step = "chosen" => DefaultRows = {}
  /\ call.step = "incidences" => call.nb \notin Present

DefaultInvariant ==
  blind \/ ((\A m, n \in DefaultRows : m = n) /\ (Behind \/ DefaultIsKnown))

\* A step of a call, taken with every row read.
LEMMA SeenStep ==
  ASSUME NEW n, Step(n), ~blind'
  PROVE  ~blind /\ ~Behind /\ ~Behind'
BY DEF Step

\* The default rows are there.
LEMMA DefaultIsPresent ==
  ASSUME TypeOK PROVE DefaultRows \subseteq Present
BY Rows DEF TypeOK, DefaultRows, Present

\* A row that is written from its object.
LEMMA UpdatedRow ==
  ASSUME TypeOK, NEW n \in Notebook, NEW o \in Row, rows' = Updated(n, o)
  PROVE  /\ Present' = Present
         /\ o.isDefault => DefaultRows' \subseteq DefaultRows \cup {n}
         /\ ~o.isDefault => DefaultRows' \subseteq DefaultRows \ {n}
<1>1. CASE ~Has(n)
  BY <1>1, Rows DEF TypeOK, Updated, DefaultRows, Present
<1>2. CASE Has(n)
  <2>1. rows'[n] = o /\ \A m \in Notebook : m # n => rows'[m] = rows[m]
    BY <1>2 DEF TypeOK, Updated
  <2> QED BY <1>2, <2>1, Rows DEF DefaultRows, Present
<1> QED BY <1>1, <1>2

\* What becomes of the default rows when the rows stay.
LEMMA SameRows == UNCHANGED rows => UNCHANGED <<DefaultRows, Present>>
BY DEF DefaultRows, Present

\* What another process does to them.
LEMMA OthersRows ==
  ASSUME TypeOK, NEW n \in Notebook,
         OtherShows(n) \/ OtherChooses(n) \/ OtherDeletes(n) \/ OtherInitializes(n)
  PROVE  DefaultRows' \subseteq DefaultRows \/ DefaultRows' \subseteq {n}
<1>1. CASE OtherShows(n)
  <2>1. /\ rows' = [rows EXCEPT ![n] = [rows[n] EXCEPT !.visible = ~@]]
        /\ rows[n] \in Row /\ rows \in [Notebook -> Row \cup {NoRow}]
    BY <1>1 DEF OtherShows, TypeOK
  <2>2. \A m \in Notebook : rows'[m].isDefault = rows[m].isDefault
    BY <2>1, Rows
  <2> QED BY <2>2 DEF DefaultRows
<1>2. CASE OtherChooses(n)
  <2>1. \A m \in Notebook : Has(m) => rows[m] \in Row
    BY DEF TypeOK
  <2>2. ASSUME NEW m \in Notebook, m # n PROVE rows'[m].isDefault = FALSE
    <3>1. CASE Has(m)
      <4>1. rows'[m] = [rows[m] EXCEPT !.isDefault = FALSE]
        BY <1>2, <2>2, <3>1 DEF OtherChooses
      <4> QED BY <2>1, <3>1, <4>1, Rows
    <3>2. CASE ~Has(m)
      BY <1>2, <3>2, Rows DEF OtherChooses
    <3> QED BY <3>1, <3>2
  <2> QED BY <2>2 DEF DefaultRows
<1>3. CASE OtherDeletes(n)
  <2>1. \A m \in Notebook : rows'[m] = rows[m] \/ rows'[m] = NoRow
    BY <1>3 DEF OtherDeletes, TypeOK
  <2> QED BY <2>1, Rows DEF DefaultRows
<1>4. CASE OtherInitializes(n)
  <2>1. \A m \in Notebook : m # n => rows'[m] = rows[m]
    BY <1>4 DEF OtherInitializes, TypeOK
  <2>2. \A m \in Notebook : rows[m] = NoRow
    BY <1>4 DEF OtherInitializes
  <2> QED BY <2>1, <2>2, Rows DEF DefaultRows
<1> QED BY <1>1, <1>2, <1>3, <1>4

\* Every action keeps one default row.
LEMMA DefaultStep == RegistryInvariant /\ DefaultInvariant /\ [Next]_vars => DefaultInvariant'
<1> SUFFICES ASSUME RegistryInvariant, DefaultInvariant, [Next]_vars, ~blind'
             PROVE  DefaultInvariant'
  BY DEF DefaultInvariant
<1> USE NotebookAssumption DEF DefaultInvariant, DefaultIsKnown
<1>0. /\ TypeOK /\ Registered /\ FlagIsDefault
      /\ listed \subseteq Notebook /\ default \in listed \cup {None}
      /\ DefaultRows \subseteq Present /\ Present \subseteq Notebook
  BY DefaultIsPresent DEF RegistryInvariant, TypeOK, Present
<1>1. ASSUME NEW L \in SUBSET Notebook, L \subseteq Present, Load(L), UNCHANGED <<rows, blind>>,
             ~Behind' => L = Present,
             call'.step \notin {"chosen", "incidences"}
      PROVE  DefaultInvariant'
  <2>1. \A n \in L : rows[n].isDefault => \E m \in L : rows[m].isDefault /\ m = default'
    BY <1>0, <1>1, LoadTypes DEF Present
  <2>2. DefaultRows \cap L # {} => default' \in DefaultRows
    BY <1>0, <1>1, <2>1 DEF DefaultRows
  <2> QED BY <1>0, <1>1, <2>2, SameRows
<1>2. ASSUME NEW n \in Notebook, NEW ok \in BOOLEAN, NEW visible \in BOOLEAN, Add(n, visible, ok),
             default' = default, call.step # "incidences", call'.step \notin {"chosen", "incidences"}
      PROVE  DefaultInvariant'
  <2>1. ~blind /\ ~Behind
    <3>1. Step(Fails(~ok /\ ~Has(n)))
      BY <1>2 DEF Add, Step
    <3> QED BY <3>1, SeenStep
  <2>2. /\ \A m \in Notebook : ~(ok /\ m = n) => rows'[m] = rows[m]
        /\ ok => ~rows'[n].isDefault
    BY <1>0, <1>2, AddTypes
  <2>3. DefaultRows' \subseteq DefaultRows
    BY <2>2 DEF DefaultRows
  <2> QED BY <1>2, <2>1, <2>3
<1>3. ASSUME DefaultRows' \subseteq DefaultRows, Present' \subseteq Present,
             UNCHANGED default, ~blind, Behind => Behind',
             call' = call \/ call'.step \notin {"chosen", "incidences"}
      PROVE  DefaultInvariant'
  <2>1. \A m, n \in DefaultRows' : m = n
    BY <1>3
  <2>2. Behind' \/ DefaultIsKnown'
    BY <1>3
  <2> QED BY <2>1, <2>2
<1>4. CASE Open
  <2>1. Load(Present) /\ UNCHANGED <<rows, blind>>
    BY <1>4 DEF Open, shared, Present
  <2>2. call'.step \notin {"chosen", "incidences"}
    BY <1>4 DEF Open
  <2> QED BY <1>0, <1>1, <2>1, <2>2
<1>5. ASSUME NEW L \in SUBSET Notebook, FileChanged(L) PROVE DefaultInvariant'
  <2>1. Load(L) /\ UNCHANGED <<rows, blind, call>> /\ call = Idle
    BY <1>5 DEF FileChanged, shared, history
  <2>2. L \subseteq Present /\ (~Behind' => L = Present)
    BY <1>5 DEF FileChanged, Present
  <2> QED BY <1>1, <2>1, <2>2
<1>6. ASSUME NEW n \in Notebook, NEW ok \in BOOLEAN, NEW visible \in BOOLEAN, AddNotebook(n, visible, ok)
      PROVE  DefaultInvariant'
  BY <1>2, <1>6 DEF AddNotebook
<1>7. ASSUME NEW n \in Notebook, NEW ok \in BOOLEAN, CreateDefaultNotebook(n, ok)
      PROVE  DefaultInvariant'
  <2>1. Add(n, TRUE, ok) /\ default' = default
    BY <1>7 DEF CreateDefaultNotebook
  <2>2. call.step # "incidences"
    BY <1>7 DEF CreateDefaultNotebook
  <2>3. call'.step \notin {"chosen", "incidences"}
    BY <1>7 DEF CreateDefaultNotebook
  <2> QED BY <1>2, <2>1, <2>2, <2>3
<1>8. ASSUME NEW n \in Notebook, NEW ok \in BOOLEAN, ClearDefault(n, ok) PROVE DefaultInvariant'
  <2>1. ~blind /\ ~Behind /\ ~Behind'
    BY <1>8, SeenStep DEF ClearDefault, Step
  <2>2. /\ default' = default
        /\ call' = IF ok THEN [step |-> "chosen", nb |-> n] ELSE Idle
    BY <1>8 DEF ClearDefault
  <2>3. CASE default = None
    <3>1. ok /\ rows' = rows
      BY <1>8, <2>3 DEF ClearDefault
    <3> QED BY <1>0, <2>1, <2>2, <2>3, <3>1, SameRows
  <2>4. CASE default # None /\ ~ok
    <3>1. rows' = rows
      BY <1>8, <2>4 DEF ClearDefault
    <3> QED BY <1>3, <2>1, <2>2, <2>4, <3>1, SameRows
  <2>5. CASE default # None /\ ok
    <3> DEFINE o == Flagged(default, FALSE)[default]
    <3>1. rows' = Updated(default, o)
      BY <1>8, <2>5 DEF ClearDefault, ClearedRows
    <3>2. default \in Notebook
      BY <1>0, <2>5
    <3>3. o \in Row /\ ~o.isDefault
      BY <1>0, <3>2, FlaggedTypes
    <3> HIDE DEF o
    <3>4. DefaultRows' \subseteq DefaultRows \ {default}
      BY <1>0, <3>1, <3>2, <3>3, UpdatedRow
    <3> QED BY <2>1, <2>2, <2>5, <3>4
  <2> QED BY <2>3, <2>4, <2>5
<1>9. ASSUME NEW n \in Notebook, NEW ok \in BOOLEAN, ChooseDefault(n, ok) PROVE DefaultInvariant'
  <2>1. ~blind /\ ~Behind /\ call.step = "chosen" /\ call' = Idle /\ default' = n
    BY <1>9, SeenStep DEF ChooseDefault
  <2>2. object' = Flagged(n, TRUE) /\ rows' = IF ok THEN Updated(n, object'[n]) ELSE rows
    BY <1>9 DEF ChooseDefault
  <2>3. object'[n] \in Row /\ object'[n].isDefault
    <3>1. Flagged(n, TRUE) \in [Notebook -> Row]
      BY <1>0, FlaggedTypes
    <3>2. Flagged(n, TRUE)[n].isDefault = TRUE
      BY <1>0, FlaggedTypes
    <3> QED BY <2>2, <3>1, <3>2
  <2>4. DefaultRows' \subseteq DefaultRows \cup {n}
    BY <1>0, <2>2, <2>3, UpdatedRow, SameRows
  <2> QED BY <2>1, <2>4
<1>10. ASSUME NEW n \in Notebook, NEW ok \in BOOLEAN, UpdateNotebook(n, ok) PROVE DefaultInvariant'
  <2>1. ~blind /\ ~Behind
    BY <1>10, SeenStep DEF UpdateNotebook, Step
  <2>2. n \in listed /\ default' = default /\ call'.step \notin {"chosen", "incidences"} /\ call.step = "idle"
    BY <1>10 DEF UpdateNotebook
  <2>3. rows' = IF ok THEN Updated(n, object[n]) ELSE rows
    BY <1>10 DEF UpdateNotebook
  <2>4. object[n] \in Row /\ (object[n].isDefault => n = default)
    BY <1>0, <2>2 DEF FlagIsDefault, TypeOK
  <2>5. DefaultRows' \subseteq {default}
    BY <1>0, <2>1, <2>3, <2>4, UpdatedRow, SameRows
  <2> QED BY <2>1, <2>2, <2>5
<1>11. ASSUME NEW n \in Notebook, NEW ok \in BOOLEAN, DeleteNotebook(n, ok) PROVE DefaultInvariant'
  <2>1. ~blind /\ ~Behind /\ default' = default /\ call.step = "idle"
    BY <1>11, SeenStep DEF DeleteNotebook, Step, registry
  <2>2. CASE ok
    <3>1. rows' = [rows EXCEPT ![n] = NoRow] /\ call' = [step |-> "incidences", nb |-> n]
      BY <1>11, <2>2 DEF DeleteNotebook
    <3>2. DefaultRows' \subseteq DefaultRows /\ n \notin Present'
      BY <1>0, <3>1, Rows DEF DefaultRows, Present, TypeOK
    <3> QED BY <2>1, <3>1, <3>2
  <2>3. CASE ~ok
    <3>1. UNCHANGED <<rows, call>>
      BY <1>11, <2>3 DEF DeleteNotebook
    <3> QED BY <1>3, <2>1, <3>1, SameRows
  <2> QED BY <2>2, <2>3
<1>12. ASSUME NEW n \in Notebook, NEW ok \in BOOLEAN, NEW alarms \in BOOLEAN,
             NEW unread \in SUBSET Incidence, DeleteIncidences(n, unread, ok, alarms)
       PROVE  DefaultInvariant'
  <2>1. ~blind /\ ~Behind
    BY <1>12, SeenStep DEF DeleteIncidences, Step
  <2>2. call = [step |-> "incidences", nb |-> n] /\ Forget(n) /\ call' = Idle /\ rows' = rows
    BY <1>12 DEF DeleteIncidences
  <2>3. n \notin DefaultRows
    BY <1>0, <2>1, <2>2
  <2>4. DefaultRows' \subseteq {default'}
    BY <1>0, <2>1, <2>2, <2>3, SameRows DEF Forget
  <2> QED BY <2>1, <2>2, <2>4
<1>13. ASSUME NEW n \in Notebook, NEW ok \in BOOLEAN, UpdateAlarms(n, ok) PROVE DefaultInvariant'
  <2>1. ~blind /\ UNCHANGED <<rows, default>> /\ ~Behind /\ call' = Idle
    BY <1>13, SeenStep DEF UpdateAlarms, Step, registry
  <2> QED BY <1>3, <2>1, SameRows
<1>14. ASSUME NEW n \in Notebook, KeepIncidences(n) PROVE DefaultInvariant'
  <2>1. ~blind /\ UNCHANGED <<rows, default>> /\ ~Behind /\ call' = Idle
    BY <1>14, SeenStep DEF KeepIncidences, Step, registry, shared
  <2> QED BY <1>3, <2>1, SameRows
<1>15. ASSUME NEW n \in Notebook, SetDefaultNotebook(n) \/ SetIsVisible(n) PROVE DefaultInvariant'
  <2>1. UNCHANGED <<rows, default, blind, event, misread>>
    BY <1>15 DEF SetDefaultNotebook, SetIsVisible, registry, shared, history
  <2>2. call' = call \/ call'.step \notin {"chosen", "incidences"}
    BY <1>15 DEF SetDefaultNotebook, SetIsVisible
  <2> QED BY <1>3, <2>1, <2>2, SameRows
<1>16. ASSUME NEW i \in Incidence, AddIncidence(i) PROVE DefaultInvariant'
  BY <1>3, <1>16, SameRows DEF AddIncidence, registry, shared, history
<1>17. ASSUME NEW ok \in BOOLEAN, NEW alarms \in BOOLEAN, Save(ok, alarms) PROVE DefaultInvariant'
  <2>1. ~blind /\ UNCHANGED <<rows, default, call>> /\ ~Behind
    BY <1>17, SeenStep DEF Save, Step, registry
  <2> QED BY <1>3, <2>1, SameRows
<1>18. ASSUME NEW n \in Notebook,
              OtherShows(n) \/ OtherChooses(n) \/ OtherDeletes(n) \/ OtherInitializes(n)
       PROVE  DefaultInvariant'
  <2>1. Behind' /\ ~blind
    BY <1>18 DEF OtherShows, OtherChooses, OtherDeletes, OtherInitializes, Other
  <2> QED BY <1>0, <1>18, <2>1, OthersRows
<1>19. CASE UNCHANGED vars
  BY <1>3, <1>19, SameRows DEF vars, registry, shared, history
<1> QED
  BY <1>4, <1>5, <1>6, <1>7, <1>8, <1>9, <1>10, <1>11, <1>12, <1>13, <1>14, <1>15, <1>16, <1>17,
     <1>18, <1>19
  DEF Next

\* The rows have at most one default notebook, wherever setDefaultNotebook()
\* fails or ends between its two transactions, and whatever the other calls and
\* processes do, unless this process acted on rows it had not read.
THEOREM DefaultCorrect == Spec => []OneDefaultRow
<1>1. Init => DefaultInvariant
  <2>1. SUFFICES ASSUME Init PROVE DefaultRows = {}
    BY <2>1 DEF Init, DefaultInvariant
  <2>2. \A n \in Notebook : rows[n].isDefault = FALSE
    BY <2>1, Rows DEF Init
  <2> QED BY <2>2 DEF DefaultRows
<1>2. RegistryInvariant /\ DefaultInvariant /\ [Next]_vars => DefaultInvariant'
  BY DefaultStep
<1>3. DefaultInvariant => OneDefaultRow
  BY DEF DefaultInvariant, OneDefaultRow, DefaultRows
<1> QED BY <1>1, <1>2, <1>3, RegistryInvariantHolds, PTL DEF Spec

-----------------------------------------------------------------------------
(* Incidences, their notebooks and their alarms *)

\* How many alarms an incidence of n has according to its row.
AlarmsOf(n) == IF rows[n].visible THEN 1 ELSE 0

\* The notebook of an incidence has a row, unless its deletion is under way.
Housed(i) == Has(NotebookOf[i]) \/ At("incidences", NotebookOf[i])

\* The alarms of an incidence follow the row of its notebook.  While the
\* visibility changes, timed is still as it was for the old one.
Followed(i) ==
  LET n == NotebookOf[i]
  IN  Has(n) =>
        /\ At("set", n) => rows[n].visible /\ timed[i] = 0
        /\ At("clear", n) => ~rows[n].visible
        /\ ~Busy(n) => timed[i] = AlarmsOf(n)

Right(i) == Housed(i) /\ (i \notin stale => Followed(i))

AlarmInvariant == \A i \in stored \ left : Right(i)

\* The steps between the row of a notebook and the alarms.
Between == {"set", "clear", "incidences"}

\* A step that keeps the row of the notebook and the alarms of an incidence, and
\* does not begin or end what lies between them.
LEMMA Untouched ==
  ASSUME NEW i \in Incidence, Right(i), i \in stale => i \in stale', timed'[i] = timed[i],
         rows[NotebookOf[i]] = NoRow <=> rows'[NotebookOf[i]] = NoRow,
         rows'[NotebookOf[i]].visible = rows[NotebookOf[i]].visible,
         call' = call \/ (call.step \notin Between /\ call'.step \notin Between)
  PROVE  Right(i)'
<1>1. ASSUME NEW n, NEW step \in Between PROVE At(step, n)' <=> At(step, n)
  BY <1>1 DEF Between
<1>2. Busy(NotebookOf[i])' <=> Busy(NotebookOf[i])
  BY <1>1 DEF Busy, Between
<1>3. Housed(i)'
  BY <1>1 DEF Right, Housed, Between
<1>4. i \notin stale' => Followed(i)'
  BY <1>1, <1>2 DEF Right, Followed, AlarmsOf, Between
<1> QED BY <1>3, <1>4 DEF Right

\* So does a step that keeps rows and alarms altogether.
LEMMA AllUntouched ==
  ASSUME TypeOK, AlarmInvariant, UNCHANGED <<rows, stored, timed>>,
         left \subseteq left', stale \subseteq stale',
         call' = call \/ (call.step \notin Between /\ call'.step \notin Between)
  PROVE  AlarmInvariant'
<1> SUFFICES ASSUME NEW i \in stored', i \notin left' PROVE Right(i)'
  BY DEF AlarmInvariant
<1>1. i \in Incidence /\ Right(i)
  BY DEF AlarmInvariant, TypeOK
<1> QED BY <1>1, Untouched

\* What save() makes of the alarms.
LEMMA ResetAlarms ==
  ASSUME TypeOK, NEW S, NEW i \in Incidence
  PROVE  /\ i \in S => Reset(S)[i] = IF NotebookOf[i] \in shown THEN 1 ELSE 0
         /\ i \notin S => Reset(S)[i] = timed[i]
<1>1. Reset(S)[i] = IF i \in Visible(S) /\ Cleared(timed, S)[i] < 2
                    THEN Cleared(timed, S)[i] + 1 ELSE Cleared(timed, S)[i]
  BY DEF Reset, Added
<1>2. Cleared(timed, S)[i] = IF i \in S THEN 0 ELSE timed[i]
  BY DEF Cleared
<1>3. i \in Visible(S) <=> i \in S /\ NotebookOf[i] \in shown
  BY DEF Visible
<1> QED BY <1>1, <1>2, <1>3

\* A row that is written: the other rows stay, none is added.
LEMMA WrittenRow ==
  ASSUME TypeOK, NEW n \in Notebook, NEW o \in Row
  PROVE  /\ \A m \in Notebook : Updated(n, o)[m] = NoRow <=> rows[m] = NoRow
         /\ \A m \in Notebook : m # n => Updated(n, o)[m] = rows[m]
         /\ Has(n) => Updated(n, o)[n] = o
         /\ ~Has(n) => Updated(n, o)[n] = rows[n]
<1>1. rows \in [Notebook -> Row \cup {NoRow}] /\ o # NoRow
  BY Rows DEF TypeOK
<1> QED BY <1>1 DEF Updated

\* setDefaultNotebook writes the row of n: what it stores of the visibility is
\* noted.
LEMMA FlagWritten ==
  ASSUME TypeOK, AlarmInvariant, NEW n \in Notebook, NEW b \in BOOLEAN, NEW ok \in BOOLEAN,
         rows' = IF ok THEN Updated(n, Flagged(n, b)[n]) ELSE rows,
         stale' = Carried(n, ok), UNCHANGED <<stored, timed, left>>,
         call.step \notin Between, call'.step \notin Between
  PROVE  AlarmInvariant'
<1> SUFFICES ASSUME NEW i \in stored', i \notin left' PROVE Right(i)'
  BY DEF AlarmInvariant
<1> DEFINE m == NotebookOf[i]
           o == Flagged(n, b)[n]
<1>1. i \in Incidence /\ i \in stored /\ Right(i) /\ m \in Notebook
  BY NotebookAssumption DEF AlarmInvariant, TypeOK
<1>2. o \in Row /\ o.visible = object[n].visible
  <2>1. o = [object[n] EXCEPT !.isDefault = b] /\ object[n] \in Row
    BY DEF Flagged, TypeOK
  <2> QED BY <2>1 DEF Row
<1> HIDE DEF o
<1>3. rows' = IF ok THEN Updated(n, o) ELSE rows
  BY DEF o
<1>4. rows[m] = NoRow <=> rows'[m] = NoRow
  BY <1>1, <1>2, <1>3, WrittenRow
<1>5. CASE rows'[m].visible = rows[m].visible
  <2>1. stale \subseteq stale'
    BY DEF Carried
  <2> QED BY <1>1, <1>4, <1>5, <2>1, Untouched
<1>6. CASE rows'[m].visible # rows[m].visible
  <2>1. ok /\ m = n /\ Has(n) /\ Carries(n)
    BY <1>1, <1>2, <1>3, <1>6, WrittenRow DEF Carries
  <2>2. i \in stale'
    BY <1>1, <2>1 DEF Carried, Stored, In
  <2>3. Has(m)' /\ Right(i)'
    BY <1>4, <2>1, <2>2 DEF Right, Housed
  <2> QED BY <2>3
<1> QED BY <1>5, <1>6

\* The end of a process: what lay between a row and its alarms is noted.
LEMMA OpenStep ==
  ASSUME TypeOK, AlarmInvariant, Open
  PROVE  AlarmInvariant'
<1> SUFFICES ASSUME NEW i \in stored', i \notin left' PROVE Right(i)'
  BY DEF AlarmInvariant
<1> DEFINE m == NotebookOf[i]
<1>1. UNCHANGED <<rows, stored, timed>> /\ call'.step \notin Between
  BY DEF Open, shared, Between
<1>2. /\ left' = IF call.step = "incidences" THEN left \cup Stored(call.nb) ELSE left
      /\ stale' = IF call.step \in {"set", "clear"} THEN stale \cup Stored(call.nb) ELSE stale
  BY DEF Open
<1>3. i \in Incidence /\ i \in stored /\ Right(i) /\ i \in Stored(m)
  BY <1>1, <1>2 DEF AlarmInvariant, TypeOK, Stored, In
<1>4. ~At("incidences", m)
  BY <1>2, <1>3
<1>5. Housed(i)'
  BY <1>1, <1>3, <1>4 DEF Right, Housed
<1>6. ASSUME i \notin stale' PROVE Followed(i)'
  <2>1. ~At("set", m) /\ ~At("clear", m)
    BY <1>2, <1>3, <1>6
  <2>2. ~Busy(m) /\ i \notin stale
    BY <1>2, <1>4, <1>6, <2>1 DEF Busy
  <2>3. \A step \in Between : ~At(step, m)'
    BY <1>1
  <2> QED BY <1>1, <1>3, <2>2, <2>3 DEF Right, Followed, AlarmsOf, Between
<1> QED BY <1>5, <1>6 DEF Right

\* A new row is that of a notebook without incidences, but for what was left.
LEMMA AddStep ==
  ASSUME TypeOK, AlarmInvariant, NEW n \in Notebook, NEW visible \in BOOLEAN, NEW ok \in BOOLEAN,
         Add(n, visible, ok), UNCHANGED <<stored, timed, left, stale>>,
         call.step \notin Between, call'.step \notin Between
  PROVE  AlarmInvariant'
<1> SUFFICES ASSUME NEW i \in stored', i \notin left' PROVE Right(i)'
  BY DEF AlarmInvariant
<1> DEFINE m == NotebookOf[i]
<1>1. i \in Incidence /\ i \in stored /\ Right(i) /\ m \in Notebook
  BY NotebookAssumption DEF AlarmInvariant, TypeOK
<1>2. Has(m)
  BY <1>1 DEF Right, Housed, Between
<1>3. ok => ~Has(n)
  BY DEF Add
<1>4. rows'[m] = rows[m]
  BY <1>1, <1>2, <1>3, AddTypes
<1> QED BY <1>1, <1>4, Untouched

\* updateNotebook: the alarms are still as the old row had it.
LEMMA UpdateStep ==
  ASSUME TypeOK, AlarmInvariant, NEW n \in Notebook, NEW ok \in BOOLEAN, UpdateNotebook(n, ok)
  PROVE  AlarmInvariant'
<1> SUFFICES ASSUME NEW i \in stored', i \notin left' PROVE Right(i)'
  BY DEF AlarmInvariant
<1> DEFINE m == NotebookOf[i]
           visible == object[n].visible
<1>1. /\ call = Idle /\ UNCHANGED <<stored, timed, left>>
      /\ rows' = IF ok THEN Updated(n, object[n]) ELSE rows
      /\ stale' = IF ok /\ OutOfStep(n) THEN stale \cup Stored(n) ELSE stale
      /\ call' = IF ~ok \/ WasVisible(n) = visible THEN Idle
                 ELSE [step |-> IF visible THEN "set" ELSE "clear", nb |-> n]
  BY DEF UpdateNotebook
<1>2. i \in Incidence /\ i \in stored /\ Right(i) /\ m \in Notebook
  BY <1>1, NotebookAssumption DEF AlarmInvariant, TypeOK
<1>3. object[n] \in Row /\ visible \in BOOLEAN
  BY DEF TypeOK, Row
<1>4. /\ rows[m] = NoRow <=> rows'[m] = NoRow
      /\ ~(ok /\ m = n) => rows'[m] = rows[m]
      /\ ok /\ m = n /\ Has(n) => rows'[m] = object[n]
  BY <1>1, <1>2, <1>3, WrittenRow
<1>5. Has(m) /\ ~Busy(m) /\ (i \notin stale => timed[i] = AlarmsOf(m))
  <2>1. Has(m) /\ ~Busy(m)
    BY <1>1, <1>2 DEF Right, Housed, Busy
  <2> QED BY <1>2, <2>1 DEF Right, Followed
<1>6. Housed(i)'
  BY <1>4, <1>5 DEF Housed
<1>7. ASSUME i \notin stale' PROVE Followed(i)'
  <2>1. i \notin stale /\ timed'[i] = AlarmsOf(m)
    BY <1>1, <1>5, <1>7
  <2>2. CASE ~(ok /\ m = n)
    <3>1. rows'[m] = rows[m] /\ ~Busy(m)' /\ \A step \in Between : ~At(step, m)'
      BY <1>1, <1>4, <2>2 DEF Busy, Between
    <3> QED BY <2>1, <3>1 DEF Followed, AlarmsOf, Between
  <2>3. CASE ok /\ m = n
    <3>1. i \in Stored(n)
      BY <1>2, <2>3 DEF Stored, In
    <3>2. (n \in shown) = rows[n].visible
      BY <1>1, <1>7, <2>3, <3>1 DEF OutOfStep
    <3>3. rows'[n].visible = visible
      BY <1>4, <1>5, <2>3
    <3>4. CASE (n \in shown) = visible
      <4>1. call' = Idle
        BY <1>1, <3>4 DEF WasVisible
      <4>2. ~Busy(n)' /\ ~At("set", n)' /\ ~At("clear", n)'
        BY <4>1 DEF Busy
      <4>3. AlarmsOf(n)' = AlarmsOf(n)
        BY <3>2, <3>3, <3>4 DEF AlarmsOf
      <4> QED BY <2>1, <2>3, <4>2, <4>3 DEF Followed
    <3>5. CASE (n \in shown) # visible
      <4>1. call' = [step |-> IF visible THEN "set" ELSE "clear", nb |-> n]
        BY <1>1, <2>3, <3>5 DEF WasVisible
      <4>2. CASE visible
        <5>1. At("set", n)' /\ ~At("clear", n)'
          BY <4>1, <4>2
        <5>2. Busy(n)'
          BY <5>1 DEF Busy
        <5>3. timed'[i] = 0
          BY <2>1, <2>3, <3>2, <3>5, <4>2 DEF AlarmsOf
        <5> QED BY <2>3, <3>3, <4>2, <5>1, <5>2, <5>3 DEF Followed
      <4>3. CASE ~visible
        <5>1. At("clear", n)' /\ ~At("set", n)'
          BY <4>1, <4>3
        <5>2. Busy(n)'
          BY <5>1 DEF Busy
        <5> QED BY <2>3, <3>3, <4>3, <5>1, <5>2 DEF Followed
      <4> QED BY <4>2, <4>3
    <3> QED BY <3>4, <3>5
  <2> QED BY <2>2, <2>3
<1> QED BY <1>6, <1>7 DEF Right

\* The alarms of a notebook that has changed its visibility.
LEMMA SwitchStep ==
  ASSUME TypeOK, AlarmInvariant, NEW n \in Notebook, NEW ok \in BOOLEAN, UpdateAlarms(n, ok)
  PROVE  AlarmInvariant'
<1> SUFFICES ASSUME NEW i \in stored', i \notin left' PROVE Right(i)'
  BY DEF AlarmInvariant
<1> DEFINE m == NotebookOf[i]
<1>1. /\ At("clear", n) \/ At("set", n)
      /\ call' = Idle /\ UNCHANGED <<rows, stored, left>>
      /\ timed' = CASE ~ok -> timed
                    [] ok /\ At("clear", n) -> Cleared(timed, In(n))
                    [] OTHER -> Added(timed, Stored(n))
      /\ stale' = CASE ~ok -> stale \cup Stored(n)
                    [] ok /\ At("clear", n) /\ ~rows[n].visible -> stale \ In(n)
                    [] OTHER -> stale
  BY DEF UpdateAlarms
<1>2. i \in Incidence /\ i \in stored /\ Right(i) /\ m \in Notebook /\ timed[i] \in 0 .. 2
  BY <1>1, NotebookAssumption DEF AlarmInvariant, TypeOK
<1>3. ~At("incidences", m) /\ \A step \in Between : ~At(step, m)'
  BY <1>1 DEF Between
<1>4. Has(m)
  BY <1>2, <1>3 DEF Right, Housed
<1>5. ASSUME i \notin stale' PROVE timed'[i] = AlarmsOf(m)
  <2>1. CASE m # n
    <3>1. i \notin In(n) /\ i \notin Stored(n)
      BY <2>1 DEF In, Stored
    <3>2. i \notin stale /\ timed'[i] = timed[i]
      BY <1>1, <1>2, <1>5, <3>1 DEF Cleared, Added
    <3>3. ~Busy(m)
      BY <1>1, <2>1 DEF Busy
    <3> QED BY <1>2, <1>4, <3>2, <3>3 DEF Right, Followed
  <2>2. CASE m = n
    <3>1. i \in In(n) /\ i \in Stored(n) /\ ok
      BY <1>1, <1>2, <1>5, <2>2 DEF In, Stored
    <3>2. CASE At("clear", n)
      <4>1. timed'[i] = 0
        BY <1>1, <1>2, <3>1, <3>2 DEF Cleared
      <4>2. ~rows[n].visible
        BY <1>1, <1>2, <1>4, <1>5, <2>2, <3>1, <3>2 DEF Right, Followed
      <4> QED BY <2>2, <4>1, <4>2 DEF AlarmsOf
    <3>3. CASE At("set", n)
      <4>1. ~At("clear", n)
        BY <3>3
      <4>2. timed' = Added(timed, Stored(n)) /\ stale' = stale
        BY <1>1, <3>1, <4>1
      <4>3. rows[n].visible /\ timed[i] = 0
        BY <1>2, <1>4, <1>5, <2>2, <3>3, <4>2 DEF Right, Followed
      <4>4. timed'[i] = 1
        BY <1>2, <3>1, <4>2, <4>3 DEF Added
      <4> QED BY <2>2, <4>3, <4>4 DEF AlarmsOf
    <3> QED BY <1>1, <3>2, <3>3
  <2> QED BY <2>1, <2>2
<1> QED BY <1>1, <1>3, <1>4, <1>5 DEF Right, Housed, Followed, AlarmsOf, Between

\* A save goes by the calendar, which has the visibility of the row unless noted.
LEMMA ResetFollows ==
  ASSUME TypeOK, NEW S, NEW i \in S, i \in Incidence, ~OutOfStep(NotebookOf[i])
  PROVE  Reset(S)[i] = AlarmsOf(NotebookOf[i])
<1>1. Reset(S)[i] = IF NotebookOf[i] \in shown THEN 1 ELSE 0
  BY ResetAlarms
<1> QED BY <1>1 DEF AlarmsOf, OutOfStep

\* A save: what it stores has a row, and alarms that follow it, unless noted.
LEMMA SaveStep ==
  ASSUME TypeOK, AlarmInvariant, NEW ok \in BOOLEAN, NEW alarms \in BOOLEAN, Save(ok, alarms)
  PROVE  AlarmInvariant'
<1> SUFFICES ASSUME NEW i \in stored', i \notin left' PROVE Right(i)'
  BY DEF AlarmInvariant
<1> DEFINE m == NotebookOf[i]
           saved == Valid(pending)
<1>1. /\ call = Idle /\ UNCHANGED <<rows, call>>
      /\ stored' = IF ok THEN stored \cup saved ELSE stored
      /\ timed' = IF alarms THEN Reset(saved) ELSE timed
      /\ left' = stored' \cap (left \cup Homeless(saved))
      /\ stale' = stored' \cap ((stale \ saved) \cup Missed(saved, alarms))
  BY DEF Save, registry
<1>2. saved \subseteq Incidence /\ stored \subseteq Incidence
  BY DEF TypeOK, Valid
<1>3. i \in Incidence /\ i \notin left /\ i \notin Homeless(saved) /\ (i \in stored \/ i \in saved)
  BY <1>1, <1>2
<1>4. \A step : ~At(step, m) \/ step = "idle"
  BY <1>1
<1>5. Has(m)
  <2>1. CASE i \in saved
    BY <1>3, <2>1 DEF Homeless
  <2>2. CASE i \in stored
    <3>1. Right(i)
      BY <1>3, <2>2 DEF AlarmInvariant
    <3> QED BY <1>4, <3>1 DEF Right, Housed
  <2> QED BY <1>3, <2>1, <2>2
<1>6. ASSUME i \notin stale' PROVE timed'[i] = AlarmsOf(m)
  <2>1. CASE i \in saved
    <3>1. alarms /\ ~OutOfStep(m)
      BY <1>1, <1>6, <2>1 DEF Missed
    <3> QED BY <1>1, <1>3, <2>1, <3>1, ResetFollows
  <2>2. CASE i \notin saved
    <3>1. i \notin stale /\ i \in stored
      BY <1>1, <1>3, <1>6, <2>2
    <3>2. timed[i] = AlarmsOf(m)
      <4>1. Right(i) /\ ~Busy(m)
        BY <1>3, <1>4, <3>1 DEF AlarmInvariant, Busy
      <4> QED BY <1>5, <3>1, <4>1 DEF Right, Followed
    <3> QED BY <1>1, <1>3, <2>2, <3>2, ResetAlarms
  <2> QED BY <2>1, <2>2
<1>7. \A step \in Between : ~At(step, m)'
  BY <1>1 DEF Between
<1>8. Followed(i)' \/ i \in stale'
  BY <1>1, <1>6, <1>7 DEF Followed, AlarmsOf, Between
<1> QED BY <1>1, <1>5, <1>8 DEF Right, Housed

\* The row of a notebook that is deleted goes before its incidences.
LEMMA DeleteRowStep ==
  ASSUME TypeOK, AlarmInvariant, NEW n \in Notebook, NEW ok \in BOOLEAN, DeleteNotebook(n, ok)
  PROVE  AlarmInvariant'
<1>1. call = Idle /\ UNCHANGED <<stored, timed, left, stale>>
  BY DEF DeleteNotebook
<1>2. CASE ~ok
  BY <1>1, <1>2, AllUntouched DEF DeleteNotebook
<1>3. CASE ok
  <2> SUFFICES ASSUME NEW i \in stored', i \notin left' PROVE Right(i)'
    BY DEF AlarmInvariant
  <2>1. rows' = [rows EXCEPT ![n] = NoRow] /\ call' = [step |-> "incidences", nb |-> n]
    BY <1>3 DEF DeleteNotebook
  <2>2. /\ i \in Incidence /\ Right(i) /\ NotebookOf[i] \in Notebook
        /\ rows \in [Notebook -> Row \cup {NoRow}]
    BY <1>1, NotebookAssumption DEF AlarmInvariant, TypeOK
  <2>3. CASE NotebookOf[i] = n
    <3>1. At("incidences", NotebookOf[i])' /\ ~Has(NotebookOf[i])'
      BY <2>1, <2>2, <2>3
    <3> QED BY <3>1 DEF Right, Housed, Followed
  <2>4. CASE NotebookOf[i] # n
    <3>1. rows'[NotebookOf[i]] = rows[NotebookOf[i]]
      BY <2>1, <2>2, <2>4
    <3>2. \A step \in Between : ~At(step, NotebookOf[i])' /\ ~At(step, NotebookOf[i])
      BY <1>1, <2>1, <2>4 DEF Between
    <3>3. ~Busy(NotebookOf[i])' /\ ~Busy(NotebookOf[i])
      BY <3>2 DEF Busy, Between
    <3> QED BY <1>1, <2>2, <3>1, <3>2, <3>3 DEF Right, Housed, Followed, AlarmsOf, Between
  <2> QED BY <2>3, <2>4
<1> QED BY <1>2, <1>3

\* The notebook stays in memory if its incidences could not be read.
LEMMA KeepStep ==
  ASSUME TypeOK, AlarmInvariant, NEW n \in Notebook, KeepIncidences(n)
  PROVE  AlarmInvariant'
<1> SUFFICES ASSUME NEW i \in stored', i \notin left' PROVE Right(i)'
  BY DEF AlarmInvariant
<1>1. /\ At("incidences", n) /\ call' = Idle
      /\ UNCHANGED <<rows, stored, timed, stale>> /\ left' = left \cup Stored(n)
  BY DEF KeepIncidences, shared
<1>2. i \in Incidence /\ Right(i) /\ NotebookOf[i] # n
  BY <1>1 DEF AlarmInvariant, TypeOK, Stored, In
<1>3. \A step \in Between : ~At(step, NotebookOf[i])' /\ ~At(step, NotebookOf[i])
  BY <1>1, <1>2 DEF Between
<1>4. ~Busy(NotebookOf[i])' /\ ~Busy(NotebookOf[i])
  BY <1>3 DEF Busy, Between
<1> QED BY <1>1, <1>2, <1>3, <1>4 DEF Right, Housed, Followed, AlarmsOf, Between

\* What the deletion of the incidences of n leaves of them is noted, and so is
\* what its save does to others.
LEMMA DeleteStep ==
  ASSUME TypeOK, AlarmInvariant, NEW n \in Notebook, NEW ok \in BOOLEAN, NEW alarms \in BOOLEAN,
         NEW unread \in SUBSET Incidence, DeleteIncidences(n, unread, ok, alarms)
  PROVE  AlarmInvariant'
<1> SUFFICES ASSUME NEW i \in stored', i \notin left' PROVE Right(i)'
  BY DEF AlarmInvariant
<1> DEFINE m == NotebookOf[i]
           saved == Valid(pending)
           gone == Erased(n, Stored(n) \ unread)
<1>1. At("incidences", n) /\ call' = Idle /\ UNCHANGED rows /\ n \in listed
  BY DEF DeleteIncidences, TypeOK
<1>2. saved \subseteq Incidence /\ stored \subseteq Incidence
  BY DEF TypeOK, Valid
<1>3. \A step \in Between : ~At(step, m)'
  BY <1>1 DEF Between
<1>4. CASE Stored(n) = {}
  <2>1. UNCHANGED <<stored, timed, left, stale>>
    BY <1>4 DEF DeleteIncidences
  <2>2. i \in Incidence /\ Right(i) /\ m # n
    BY <1>2, <1>4, <2>1 DEF AlarmInvariant, Stored, In
  <2>3. \A step \in Between : ~At(step, m)
    BY <1>1, <2>2 DEF Between
  <2>4. ~Busy(m)' /\ ~Busy(m)
    BY <1>3, <2>3 DEF Busy, Between
  <2> QED BY <1>1, <1>3, <2>1, <2>2, <2>3, <2>4 DEF Right, Housed, Followed, AlarmsOf, Between
<1>5. CASE Stored(n) # {}
  <2>1. /\ stored' = IF ok THEN (stored \cup saved) \ gone ELSE stored
        /\ timed' = IF alarms THEN Cleared(Reset(saved), gone) ELSE timed
        /\ left' = stored' \cap (left \cup Homeless(saved) \cup unread \cup
                     (IF ~ok \/ n \in ReadOnly THEN Stored(n) ELSE {}))
        /\ stale' = stored' \cap ((stale \ saved) \cup Missed(saved, alarms))
    BY <1>5 DEF DeleteIncidences
  <2>2. /\ i \in Incidence /\ i \notin left /\ i \notin Homeless(saved)
        /\ i \in stored \/ i \in saved
    BY <1>2, <2>1
  <2>3. i \notin Stored(n)
    <3> SUFFICES ASSUME i \in Stored(n) PROVE FALSE
      OBVIOUS
    <3>1. i \notin unread /\ ok /\ n \notin ReadOnly
      BY <2>1
    <3>2. i \in gone
      BY <1>1, <3>1 DEF Erased, Valid, Stored, In
    <3> QED BY <2>1, <3>1, <3>2
  <2>4. i \notin gone
    BY <2>3 DEF Erased, Valid
  <2>5. i \in saved \/ (i \in stored /\ m # n)
    BY <2>2, <2>3 DEF Stored, In
  <2>6. i \in stored /\ m # n => Right(i) /\ ~Busy(m) /\ ~At("incidences", m)
    BY <1>1, <2>2 DEF AlarmInvariant, Busy
  <2>7. Has(m)
    BY <2>2, <2>5, <2>6 DEF Homeless, Right, Housed
  <2>8. ASSUME i \notin stale' PROVE timed'[i] = AlarmsOf(m)
    <3>1. alarms => timed'[i] = Reset(saved)[i]
      BY <2>1, <2>2, <2>4 DEF Cleared
    <3>2. CASE i \in saved
      <4>1. alarms /\ ~OutOfStep(m)
        BY <2>1, <2>8, <3>2 DEF Missed
      <4> QED BY <2>2, <3>1, <3>2, <4>1, ResetFollows
    <3>3. CASE i \notin saved
      <4>1. i \notin stale /\ i \in stored /\ m # n
        BY <2>1, <2>5, <2>8, <3>3
      <4>2. timed[i] = AlarmsOf(m)
        BY <2>6, <2>7, <4>1 DEF Right, Followed
      <4>3. Reset(saved)[i] = timed[i]
        BY <2>2, <3>3, ResetAlarms
      <4> QED BY <2>1, <3>1, <4>2, <4>3
    <3> QED BY <3>2, <3>3
  <2> QED BY <1>1, <1>3, <2>7, <2>8 DEF Right, Housed, Followed, AlarmsOf, Between
<1> QED BY <1>4, <1>5

\* What another process does: it deletes a notebook with its incidences, and
\* tells timed itself what it changes.
LEMMA OthersStep ==
  ASSUME TypeOK, AlarmInvariant, NEW n \in Notebook,
         OtherShows(n) \/ OtherChooses(n) \/ OtherDeletes(n) \/ OtherInitializes(n)
  PROVE  AlarmInvariant'
<1> SUFFICES ASSUME NEW i \in stored', i \notin left' PROVE Right(i)'
  BY DEF AlarmInvariant
<1> DEFINE m == NotebookOf[i]
<1>0. call' = call /\ rows \in [Notebook -> Row \cup {NoRow}] /\ timed \in [Incidence -> 0 .. 2]
      /\ stored \subseteq Incidence
  BY DEF OtherShows, OtherChooses, OtherDeletes, OtherInitializes, Other, TypeOK
<1>1. CASE OtherShows(n)
  <2>1. /\ Has(n) /\ UNCHANGED <<stored, left>>
        /\ rows' = [rows EXCEPT ![n] = [rows[n] EXCEPT !.visible = ~@]]
        /\ timed' = IF rows'[n].visible THEN Added(timed, Stored(n)) ELSE Cleared(timed, In(n))
        /\ stale' = CASE At("set", n) \/ At("clear", n) -> stale \cup Stored(n)
                      [] OTHER -> IF rows'[n].visible THEN stale ELSE stale \ In(n)
    BY <1>1 DEF OtherShows
  <2>2. rows[n] \in Row /\ rows[n].visible \in BOOLEAN
        /\ [rows[n] EXCEPT !.visible = ~@] # NoRow
        /\ [rows[n] EXCEPT !.visible = ~@].visible = ~rows[n].visible
    BY <1>0, <2>1, Rows DEF Row
  <2>3. rows'[n] # NoRow /\ rows'[n].visible = ~rows[n].visible
    BY <1>0, <2>1, <2>2
  <2>4. i \in Incidence /\ i \in stored /\ Right(i) /\ m \in Notebook
    BY <1>0, <2>1, NotebookAssumption DEF AlarmInvariant
  <2>5. CASE m # n
    <3>1. rows'[m] = rows[m] /\ i \notin In(n) /\ i \notin Stored(n)
      BY <1>0, <2>1, <2>4, <2>5 DEF In, Stored
    <3>2. timed'[i] = timed[i] /\ (i \in stale => i \in stale')
      BY <1>0, <2>1, <2>4, <3>1 DEF Added, Cleared
    <3> QED BY <1>0, <2>4, <3>1, <3>2, Untouched
  <2>6. CASE m = n
    <3>1. i \in In(n) /\ i \in Stored(n)
      BY <2>4, <2>6 DEF In, Stored
    <3>2. CASE At("set", n) \/ At("clear", n)
      BY <2>1, <2>3, <2>6, <3>1, <3>2 DEF Right, Housed
    <3>3. CASE ~(At("set", n) \/ At("clear", n))
      <4>1. ~At("set", n)' /\ ~At("clear", n)'
        BY <1>0, <3>3
      <4>2. ASSUME i \notin stale', ~Busy(n)' PROVE timed'[i] = AlarmsOf(n)'
        <5>1. ~Busy(n)
          BY <1>0, <4>2 DEF Busy
        <5>2. CASE rows'[n].visible
          <6>1. i \notin stale /\ timed' = Added(timed, Stored(n))
            BY <2>1, <3>3, <4>2, <5>2
          <6>2. timed[i] = 0
            BY <2>1, <2>2, <2>3, <2>4, <2>6, <5>1, <5>2, <6>1 DEF Right, Followed, AlarmsOf
          <6>3. timed'[i] = 1
            BY <1>0, <2>4, <3>1, <6>1, <6>2 DEF Added
          <6> QED BY <5>2, <6>3 DEF AlarmsOf
        <5>3. CASE ~rows'[n].visible
          <6>1. timed'[i] = 0
            BY <1>0, <2>1, <2>4, <3>1, <5>3 DEF Cleared
          <6> QED BY <5>3, <6>1 DEF AlarmsOf
        <5> QED BY <5>2, <5>3
      <4> QED BY <2>3, <2>6, <4>1, <4>2 DEF Right, Housed, Followed
    <3> QED BY <3>2, <3>3
  <2> QED BY <2>5, <2>6
<1>2. CASE OtherChooses(n)
  <2>1. /\ UNCHANGED <<stored, timed, left, stale>>
        /\ rows' = [k \in Notebook |-> IF Has(k) THEN [rows[k] EXCEPT !.isDefault = (k = n)] ELSE NoRow]
    BY <1>2 DEF OtherChooses
  <2>2. i \in Incidence /\ Right(i) /\ m \in Notebook
    BY <1>0, <2>1, NotebookAssumption DEF AlarmInvariant
  <2>3. rows[m] = NoRow <=> rows'[m] = NoRow
    <3>1. CASE Has(m)
      <4>1. rows[m] \in Row /\ rows'[m] = [rows[m] EXCEPT !.isDefault = (m = n)]
        BY <1>0, <2>1, <2>2, <3>1
      <4>2. PICK b \in BOOLEAN : rows'[m] = [rows[m] EXCEPT !.isDefault = b]
        BY <4>1
      <4>3. rows'[m] # NoRow
        BY <4>1, <4>2, Rows
      <4> QED BY <3>1, <4>3
    <3>2. CASE ~Has(m)
      BY <2>1, <2>2, <3>2
    <3> QED BY <3>1, <3>2
  <2>4. rows'[m].visible = rows[m].visible
    <3>1. CASE Has(m)
      <4>1. rows[m] \in Row /\ rows'[m] = [rows[m] EXCEPT !.isDefault = (m = n)]
        BY <1>0, <2>1, <2>2, <3>1
      <4> QED BY <4>1 DEF Row
    <3>2. CASE ~Has(m)
      BY <2>1, <2>2, <3>2
    <3> QED BY <3>1, <3>2
  <2> QED BY <1>0, <2>1, <2>2, <2>3, <2>4, Untouched
<1>3. CASE OtherDeletes(n)
  <2>1. /\ rows' = [rows EXCEPT ![n] = NoRow] /\ timed' = Cleared(timed, Stored(n))
        /\ stored' = stored \ In(n) /\ left' = left \ In(n) /\ stale' = stale \ In(n)
    BY <1>3 DEF OtherDeletes
  <2>2. i \in Incidence /\ i \in stored /\ i \notin In(n) /\ Right(i) /\ m \in Notebook /\ m # n
    BY <1>0, <2>1, NotebookAssumption DEF AlarmInvariant, In
  <2>3. rows'[m] = rows[m] /\ timed'[i] = timed[i]
    BY <1>0, <2>1, <2>2 DEF Cleared, Stored
  <2> QED BY <1>0, <2>1, <2>2, <2>3, Untouched
<1>4. CASE OtherInitializes(n)
  <2>1. /\ UNCHANGED <<stored, timed, left, stale>> /\ \A k \in Notebook : ~Has(k)
    BY <1>4 DEF OtherInitializes
  <2>2. i \in Incidence /\ Right(i) /\ m \in Notebook
    BY <1>0, <2>1, NotebookAssumption DEF AlarmInvariant
  <2>3. At("incidences", m)'
    BY <1>0, <2>1, <2>2 DEF Right, Housed
  <2>4. Busy(m)' /\ ~At("set", m)' /\ ~At("clear", m)'
    BY <2>3 DEF Busy
  <2> QED BY <2>3, <2>4 DEF Right, Housed, Followed
<1> QED BY <1>1, <1>2, <1>3, <1>4

\* Every action keeps the incidences in notebooks and their alarms with the rows.
LEMMA AlarmStep == TypeOK /\ AlarmInvariant /\ [Next]_vars => AlarmInvariant'
<1> SUFFICES ASSUME TypeOK, AlarmInvariant, [Next]_vars PROVE AlarmInvariant'
  OBVIOUS
<1>1. CASE Open
  BY <1>1, OpenStep
<1>2. ASSUME NEW L \in SUBSET Notebook, FileChanged(L) PROVE AlarmInvariant'
  BY <1>2, AllUntouched DEF FileChanged, shared, history
<1>3. ASSUME NEW n \in Notebook, NEW ok \in BOOLEAN, NEW visible \in BOOLEAN, AddNotebook(n, visible, ok)
      PROVE  AlarmInvariant'
  <2>1. call.step \notin Between /\ call'.step \notin Between
    BY <1>3 DEF AddNotebook, Between
  <2> QED BY <1>3, <2>1, AddStep DEF AddNotebook
<1>4. ASSUME NEW n \in Notebook, NEW ok \in BOOLEAN, CreateDefaultNotebook(n, ok) PROVE AlarmInvariant'
  <2>1. call.step \notin Between /\ call'.step \notin Between
    BY <1>4 DEF CreateDefaultNotebook, Between
  <2> QED BY <1>4, <2>1, AddStep DEF CreateDefaultNotebook
<1>5. ASSUME NEW n \in Notebook, SetDefaultNotebook(n) \/ SetIsVisible(n) PROVE AlarmInvariant'
  <2>1. call' = call \/ (call.step \notin Between /\ call'.step \notin Between)
    BY <1>5 DEF SetDefaultNotebook, SetIsVisible, Between
  <2>2. UNCHANGED <<rows, stored, timed, left, stale>>
    BY <1>5 DEF SetDefaultNotebook, SetIsVisible, shared, history
  <2> QED BY <2>1, <2>2, AllUntouched
<1>6. ASSUME NEW n \in Notebook, NEW ok \in BOOLEAN, ClearDefault(n, ok) PROVE AlarmInvariant'
  <2>1. call.step \notin Between /\ call'.step \notin Between /\ UNCHANGED <<stored, timed, left>>
    BY <1>6 DEF ClearDefault, Between
  <2>2. CASE default = None
    BY <1>6, <2>1, <2>2, AllUntouched DEF ClearDefault
  <2>3. CASE default # None
    <3>1. default \in Notebook
      BY <2>3 DEF TypeOK
    <3>2. /\ rows' = IF ok THEN Updated(default, Flagged(default, FALSE)[default]) ELSE rows
          /\ stale' = Carried(default, ok)
      BY <1>6, <2>3 DEF ClearDefault, ClearedRows
    <3> QED BY <2>1, <3>1, <3>2, FlagWritten
  <2> QED BY <2>2, <2>3
<1>7. ASSUME NEW n \in Notebook, NEW ok \in BOOLEAN, ChooseDefault(n, ok) PROVE AlarmInvariant'
  <2>1. call.step \notin Between /\ call'.step \notin Between /\ UNCHANGED <<stored, timed, left>>
    BY <1>7 DEF ChooseDefault, Between
  <2>2. /\ rows' = IF ok THEN Updated(n, Flagged(n, TRUE)[n]) ELSE rows
        /\ stale' = Carried(n, ok)
    BY <1>7 DEF ChooseDefault
  <2> QED BY <2>1, <2>2, FlagWritten
<1>8. ASSUME NEW n \in Notebook, NEW ok \in BOOLEAN, UpdateNotebook(n, ok) PROVE AlarmInvariant'
  BY <1>8, UpdateStep
<1>9. ASSUME NEW n \in Notebook, NEW ok \in BOOLEAN, UpdateAlarms(n, ok) PROVE AlarmInvariant'
  BY <1>9, SwitchStep
<1>10. ASSUME NEW i \in Incidence, AddIncidence(i) PROVE AlarmInvariant'
  BY <1>10, AllUntouched DEF AddIncidence, shared, history
<1>11. ASSUME NEW ok \in BOOLEAN, NEW alarms \in BOOLEAN, Save(ok, alarms) PROVE AlarmInvariant'
  BY <1>11, SaveStep
<1>12. ASSUME NEW n \in Notebook, NEW ok \in BOOLEAN, DeleteNotebook(n, ok) PROVE AlarmInvariant'
  BY <1>12, DeleteRowStep
<1>13. ASSUME NEW n \in Notebook, KeepIncidences(n) PROVE AlarmInvariant'
  BY <1>13, KeepStep
<1>14. ASSUME NEW n \in Notebook, NEW ok \in BOOLEAN, NEW alarms \in BOOLEAN,
              NEW unread \in SUBSET Incidence, DeleteIncidences(n, unread, ok, alarms)
       PROVE  AlarmInvariant'
  BY <1>14, DeleteStep
<1>15. ASSUME NEW n \in Notebook,
              OtherShows(n) \/ OtherChooses(n) \/ OtherDeletes(n) \/ OtherInitializes(n)
       PROVE  AlarmInvariant'
  BY <1>15, OthersStep
<1>16. CASE UNCHANGED vars
  BY <1>16, AllUntouched DEF vars, shared, history
<1> QED
  BY <1>1, <1>2, <1>3, <1>4, <1>5, <1>6, <1>7, <1>8, <1>9, <1>10, <1>11, <1>12, <1>13, <1>14,
     <1>15, <1>16
  DEF Next

\* It holds in every state.
LEMMA AlarmInvariantHolds == Spec => []AlarmInvariant
<1>1. Init => AlarmInvariant
  <2> SUFFICES ASSUME Init, NEW i \in stored PROVE Right(i)
    BY DEF AlarmInvariant
  <2>1. i \in Incidence /\ Has(NotebookOf[i]) /\ timed[i] = 1 /\ call = Idle
    BY DEF Init
  <2>2. rows[NotebookOf[i]].visible
    <3>1. PICK r \in {NoRow, [visible |-> TRUE, isDefault |-> FALSE]} : rows = [n \in Notebook |-> r]
      BY DEF Init
    <3>2. rows[NotebookOf[i]] = r
      BY <2>1, <3>1, NotebookAssumption
    <3> QED BY <2>1, <3>2
  <2> QED BY <2>1, <2>2 DEF Right, Housed, Followed, AlarmsOf
<1>2. TypeOK /\ AlarmInvariant /\ [Next]_vars => AlarmInvariant'
  BY AlarmStep
<1> QED BY <1>1, <1>2, TypeCorrect, PTL DEF Spec

\* No incidence outlives its notebook but those that were left, each for a reason
\* of its own; whatever other processes do, and after any failure.
THEOREM NoOrphansEver == Spec => []NoOrphans
<1>1. AlarmInvariant => NoOrphans
  BY DEF AlarmInvariant, Right, Housed, NoOrphans
<1> QED BY <1>1, AlarmInvariantHolds, PTL

\* The alarms of an incidence follow the row of its notebook, but for those that
\* a call has not brought into line; likewise.
THEOREM AlarmsAreRight == Spec => []AlarmsFollowVisibility
<1>1. AlarmInvariant => AlarmsFollowVisibility
  BY DEF AlarmInvariant, Right, Followed, AlarmsOf, AlarmsFollowVisibility
<1> QED BY <1>1, AlarmInvariantHolds, PTL
=============================================================================
