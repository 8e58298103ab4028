------------------------- MODULE CalendarListsProofs -------------------------
(***************************************************************************)
(* What is proved of CalendarLists for any incidences, whatever their      *)
(* times, people, places and revisions, and any number of them being       *)
(* changed at once: the two lists never disagree with the incidences, the  *)
(* nearest dates with an event are found in whatever order the events      *)
(* come, and each day of an occurrence is given.                           *)
(*                                                                         *)
(* The searches are folds and the limit of an expansion counts.  What is   *)
(* said of them for any number of events is shown for the least one for    *)
(* which it would fail (LeastNat).                                         *)
(***************************************************************************)
EXTENDS CalendarLists, FiniteSetTheorems, WellFoundedInduction, TLAPS

\* What the lists have to be for the incidences S.
People(S) == UNION {Listed(o) : o \in S}
Places(S) == {o \in S : details[o].geo}

\* A calendar with the incidences I, those being changed left out of its lists.
Calendar(I) ==
  [incidences |-> I,
   mAttendeeIncidences |-> People(I \ editing),
   mGeoIncidences |-> Places(I \ editing)]

Known == made \subseteq Object /\ editing \subseteq Object /\ DOMAIN details = Object

ListInv == Known /\ \E I \in SUBSET made : cal = Calendar(I)

\* Each entry of the list by person tells whose it is.
LEMMA Entries ==
  \A S, x : x \in People(S) <=> \E o \in S : \E e \in details[o].people : x = <<e, o>>
BY DEF People, Listed

LEMMA PeopleLeft == \A S, T : People(S) \ People(T) = People(S \ T)
<1> SUFFICES ASSUME NEW S, NEW T, NEW x
             PROVE  x \in People(S) \ People(T) <=> x \in People(S \ T)
  OBVIOUS
<1>1. ASSUME x \in People(S), x \notin People(T) PROVE x \in People(S \ T)
  <2>1. PICK o \in S : \E e \in details[o].people : x = <<e, o>>
    BY <1>1, Entries
  <2>2. o \notin T
    BY <1>1, <2>1, Entries
  <2> QED
    BY <2>1, <2>2, Entries
<1>2. ASSUME x \in People(S \ T) PROVE x \in People(S) /\ x \notin People(T)
  <2>1. PICK o \in S \ T : \E e \in details[o].people : x = <<e, o>>
    BY <1>2, Entries
  <2>2. \A p, f : x = <<f, p>> => p = o
    BY <2>1
  <2>3. x \notin People(T)
    BY <2>1, <2>2, Entries
  <2> QED
    BY <2>1, <2>3, Entries
<1> QED
  BY <1>1, <1>2

LEMMA PeopleAdded == \A S, o : People(S) \cup Listed(o) = People(S \cup {o})
BY DEF People

LEMMA PlacesLeft == \A S, T : Places(S) \ Places(T) = Places(S \ T)
BY DEF Places

LEMMA PlacesAdded ==
  \A S, o : (IF details[o].geo THEN Places(S) \cup {o} ELSE Places(S)) = Places(S \cup {o})
BY DEF Places

LEMMA ListsWithout ==
  ASSUME NEW I, NEW A, NEW P, NEW S
  PROVE  RemoveIncidenceFromLists([incidences |-> I, mAttendeeIncidences |-> A, mGeoIncidences |-> P], S) =
           [incidences |-> I, mAttendeeIncidences |-> A \ People(S), mGeoIncidences |-> P \ Places(S)]
<1> DEFINE c == [incidences |-> I, mAttendeeIncidences |-> A, mGeoIncidences |-> P]
<1>1. RemoveIncidenceFromLists(c, S) =
        [c EXCEPT !.mAttendeeIncidences = @ \ People(S), !.mGeoIncidences = @ \ Places(S)]
  BY DEF RemoveIncidenceFromLists, People, Places
<1> QED
  BY <1>1

LEMMA ListsWith ==
  ASSUME NEW I, NEW S, NEW o
  PROVE  AddIncidenceToLists([incidences |-> I, mAttendeeIncidences |-> People(S),
                              mGeoIncidences |-> Places(S)], o) =
           [incidences |-> I, mAttendeeIncidences |-> People(S \cup {o}),
            mGeoIncidences |-> Places(S \cup {o})]
<1>1. People(S) \cup Listed(o) = People(S \cup {o})
  BY PeopleAdded
<1>2. (IF details[o].geo THEN Places(S) \cup {o} ELSE Places(S)) = Places(S \cup {o})
  BY PlacesAdded
<1> DEFINE c == [incidences |-> I, mAttendeeIncidences |-> People(S), mGeoIncidences |-> Places(S)]
<1>3. AddIncidenceToLists(c, o) =
        [c EXCEPT !.mAttendeeIncidences = People(S) \cup Listed(o),
                  !.mGeoIncidences = IF details[o].geo THEN Places(S) \cup {o} ELSE Places(S)]
  BY DEF AddIncidenceToLists
<1>4. AddIncidenceToLists(c, o) =
        [c EXCEPT !.mAttendeeIncidences = People(S \cup {o}), !.mGeoIncidences = Places(S \cup {o})]
  BY <1>1, <1>2, <1>3
<1> QED
  BY <1>4

\* Deleting leaves a calendar whose lists are right, editing or not: an
\* incidence that is being changed is in no list it could be left in.
LEMMA DeletedCalendar ==
  ASSUME NEW I, NEW S
  PROVE  \E J \in SUBSET I : DeleteIncidences(Calendar(I), S) = Calendar(J)
<1> DEFINE gone == UNION {WithExceptions(Calendar(I), o) : o \in S}
<1>1. DeleteIncidences(Calendar(I), S) =
        RemoveIncidenceFromLists([Calendar(I) EXCEPT !.incidences = @ \ gone], gone)
  BY DEF DeleteIncidences, Calendar
<1> HIDE DEF gone
<1>2. [Calendar(I) EXCEPT !.incidences = @ \ gone] =
        [incidences |-> I \ gone, mAttendeeIncidences |-> People(I \ editing),
         mGeoIncidences |-> Places(I \ editing)]
  BY DEF Calendar
<1>3. DeleteIncidences(Calendar(I), S) =
        [incidences |-> I \ gone,
         mAttendeeIncidences |-> People(I \ editing) \ People(gone),
         mGeoIncidences |-> Places(I \ editing) \ Places(gone)]
  BY <1>1, <1>2, ListsWithout
<1>4. (I \ editing) \ gone = (I \ gone) \ editing
  OBVIOUS
<1>5. People(I \ editing) \ People(gone) = People((I \ gone) \ editing)
  BY <1>4, PeopleLeft
<1>6. Places(I \ editing) \ Places(gone) = Places((I \ gone) \ editing)
  BY <1>4, PlacesLeft
<1>7. DeleteIncidences(Calendar(I), S) = Calendar(I \ gone)
  BY <1>3, <1>5, <1>6 DEF Calendar
<1> QED
  BY <1>7

LEMMA InsertedCalendar ==
  ASSUME NEW I, NEW o, o \notin editing
  PROVE  Insert(Calendar(I), o) = Calendar(I \cup {o})
<1>1. [Calendar(I) EXCEPT !.incidences = @ \cup {o}] =
        [incidences |-> I \cup {o}, mAttendeeIncidences |-> People(I \ editing),
         mGeoIncidences |-> Places(I \ editing)]
  BY DEF Calendar
<1>2. (I \ editing) \cup {o} = (I \cup {o}) \ editing
  OBVIOUS
<1>3. Insert(Calendar(I), o) =
        [incidences |-> I \cup {o}, mAttendeeIncidences |-> People((I \ editing) \cup {o}),
         mGeoIncidences |-> Places((I \ editing) \cup {o})]
  BY <1>1, ListsWith DEF Insert
<1> QED
  BY <1>2, <1>3 DEF Calendar

LEMMA AddedCalendar ==
  ASSUME NEW I, NEW o, o \notin editing
  PROVE  \E J \in SUBSET (I \cup {o}) : AddIncidence(Calendar(I), o) = Calendar(J)
<1>1. PICK J \in SUBSET I : DeleteIncidences(Calendar(I), Old(Calendar(I), o)) = Calendar(J)
  BY DeletedCalendar
<1>2. AddIncidence(Calendar(I), o) \in {Insert(Calendar(J), o), Calendar(I)}
  BY <1>1 DEF AddIncidence
<1>3. AddIncidence(Calendar(I), o) \in {Calendar(J \cup {o}), Calendar(I)}
  BY <1>2, InsertedCalendar
<1> QED
  BY <1>3

LEMMA AddedListCalendar ==
  ASSUME NEW I, NEW o, o \notin editing, NEW remove, NEW default
  PROVE  \E J \in SUBSET (I \cup {o}) : AddIncidences(Calendar(I), o, remove, default) = Calendar(J)
<1>1. PICK J \in SUBSET I : DeleteIncidences(Calendar(I), Duplicates(Calendar(I), o)) = Calendar(J)
  BY DeletedCalendar
<1>2. PICK K \in SUBSET (J \cup {o}) : AddIncidence(Calendar(J), o) = Calendar(K)
  BY AddedCalendar
<1>3. AddIncidences(Calendar(I), o, remove, default) \in {Calendar(I), Calendar(J), Calendar(K)}
  BY <1>1, <1>2 DEF AddIncidences
<1> QED
  BY <1>3

\* The observer calls around a change, by what the incidence says at the time.
LEMMA UpdateCalendar ==
  ASSUME NEW I, NEW o
  PROVE  IncidenceUpdate(Calendar(I), o) =
           [incidences |-> I,
            mAttendeeIncidences |-> People((I \ editing) \ {o}),
            mGeoIncidences |-> Places((I \ editing) \ {o})]
<1>1. CASE o \in I
  <2>1. IncidenceUpdate(Calendar(I), o) = RemoveIncidenceFromLists(Calendar(I), {o})
    BY <1>1 DEF IncidenceUpdate, Calendar
  <2>2. RemoveIncidenceFromLists(Calendar(I), {o}) =
          [incidences |-> I,
           mAttendeeIncidences |-> People(I \ editing) \ People({o}),
           mGeoIncidences |-> Places(I \ editing) \ Places({o})]
    BY ListsWithout DEF Calendar
  <2>3. People(I \ editing) \ People({o}) = People((I \ editing) \ {o})
    BY PeopleLeft
  <2>4. Places(I \ editing) \ Places({o}) = Places((I \ editing) \ {o})
    BY PlacesLeft
  <2> QED
    BY <2>1, <2>2, <2>3, <2>4
<1>2. CASE o \notin I
  <2>1. (I \ editing) \ {o} = I \ editing
    BY <1>2
  <2>2. IncidenceUpdate(Calendar(I), o) = Calendar(I)
    BY <1>2 DEF IncidenceUpdate, Calendar
  <2> QED
    BY <2>1, <2>2 DEF Calendar
<1> QED
  BY <1>1, <1>2

LEMMA UpdatedCalendar ==
  ASSUME NEW I, NEW S, NEW o
  PROVE  IncidenceUpdated([incidences |-> I, mAttendeeIncidences |-> People(S),
                           mGeoIncidences |-> Places(S)], o) =
           [incidences |-> I,
            mAttendeeIncidences |-> People(S \cup ({o} \cap I)),
            mGeoIncidences |-> Places(S \cup ({o} \cap I))]
<1> DEFINE c == [incidences |-> I, mAttendeeIncidences |-> People(S), mGeoIncidences |-> Places(S)]
<1>1. CASE o \in I
  <2>1. IncidenceUpdated(c, o) = AddIncidenceToLists(c, o)
    BY <1>1 DEF IncidenceUpdated
  <2>2. {o} \cap I = {o}
    BY <1>1
  <2> QED
    BY <2>1, <2>2, ListsWith
<1>2. CASE o \notin I
  <2>1. S \cup ({o} \cap I) = S
    BY <1>2
  <2>2. IncidenceUpdated(c, o) = c
    BY <1>2 DEF IncidenceUpdated
  <2> QED
    BY <2>1, <2>2
<1> QED
  BY <1>1, <1>2

\* Only incidences that are in no list may have changed.
LEMMA CalendarKept ==
  ASSUME NEW I, \A o \in I \ editing' : details'[o] = details[o]
  PROVE  Calendar(I)' = [incidences |-> I,
                         mAttendeeIncidences |-> People(I \ editing'),
                         mGeoIncidences |-> Places(I \ editing')]
<1>1. People(I \ editing)' = People(I \ editing')
  BY DEF People, Listed
<1>2. Places(I \ editing)' = Places(I \ editing')
  BY DEF Places
<1> QED
  BY <1>1, <1>2 DEF Calendar

LEMMA ListStep == ListInv /\ [Next]_vars => ListInv'
<1> SUFFICES ASSUME ListInv, [Next]_vars PROVE ListInv'
  OBVIOUS
<1>1. PICK I \in SUBSET made : cal = Calendar(I)
  BY DEF ListInv
<1>2. Known
  BY DEF ListInv
<1>3. ASSUME UNCHANGED <<made, details, editing>>, \E J \in SUBSET made : cal' = Calendar(J)
      PROVE  ListInv'
  <2>1. PICK J \in SUBSET made : cal' = Calendar(J)
    BY <1>3
  <2>2. Calendar(J)' = Calendar(J)
    BY <1>3, CalendarKept DEF Calendar
  <2> QED
    BY <1>2, <1>3, <2>1, <2>2 DEF ListInv, Known
<1>4. ASSUME NEW o \in Object, Add(o) PROVE ListInv'
  <2>1. o \in made \ editing /\ cal' = AddIncidence(cal, o) /\ UNCHANGED <<made, details, editing>>
    BY <1>4 DEF Add
  <2>2. PICK J \in SUBSET (I \cup {o}) : AddIncidence(Calendar(I), o) = Calendar(J)
    BY <2>1, AddedCalendar
  <2> QED
    BY <1>1, <1>3, <2>1, <2>2
<1>5. ASSUME NEW o \in Object, AddList(o) PROVE ListInv'
  <2>1. PICK remove, default \in BOOLEAN :
          /\ o \in made \ editing /\ cal' = AddIncidences(cal, o, remove, default)
          /\ UNCHANGED <<made, details, editing>>
    BY <1>5 DEF AddList
  <2>2. PICK J \in SUBSET (I \cup {o}) : AddIncidences(Calendar(I), o, remove, default) = Calendar(J)
    BY <2>1, AddedListCalendar
  <2> QED
    BY <1>1, <1>3, <2>1, <2>2
<1>6. ASSUME NEW o \in Object, Delete(o) PROVE ListInv'
  <2>1. cal' = DeleteIncidences(cal, {o}) /\ UNCHANGED <<made, details, editing>>
    BY <1>6 DEF Delete
  <2>2. PICK J \in SUBSET I : DeleteIncidences(Calendar(I), {o}) = Calendar(J)
    BY DeletedCalendar
  <2> QED
    BY <1>1, <1>3, <2>1, <2>2
<1>7. ASSUME NEW o \in Object, StartUpdates(o) PROVE ListInv'
  <2>1. /\ o \in made \ editing /\ editing' = editing \cup {o}
        /\ cal' = IncidenceUpdate(cal, o) /\ UNCHANGED <<made, details>>
    BY <1>7 DEF StartUpdates
  <2>2. (I \ editing) \ {o} = I \ editing'
    BY <2>1
  <2>3. IncidenceUpdate(Calendar(I), o) =
          [incidences |-> I, mAttendeeIncidences |-> People(I \ editing'),
           mGeoIncidences |-> Places(I \ editing')]
    BY <2>2, UpdateCalendar
  <2>4. cal' = Calendar(I)'
    BY <1>1, <2>1, <2>3, CalendarKept
  <2> QED
    BY <1>1, <1>2, <2>1, <2>4 DEF ListInv, Known
<1>8. ASSUME NEW o \in Object, Change(o) PROVE ListInv'
  <2>1. /\ o \in editing /\ UNCHANGED <<made, editing, cal>>
        /\ \E d \in Details[o] : details' = [details EXCEPT ![o] = d]
    BY <1>8 DEF Change
  <2>2. DOMAIN details' = Object /\ \A p \in Object \ {o} : details'[p] = details[p]
    BY <1>2, <2>1 DEF Known
  <2>3. Calendar(I)' = Calendar(I)
    <3>1. \A p \in I \ editing' : details'[p] = details[p]
      BY <1>2, <2>1, <2>2 DEF Known
    <3> QED
      BY <2>1, <3>1, CalendarKept DEF Calendar
  <2> QED
    BY <1>1, <1>2, <2>1, <2>2, <2>3 DEF ListInv, Known
<1>9. ASSUME NEW o \in Object, EndUpdates(o) PROVE ListInv'
  <2>1. /\ o \in editing /\ editing' = editing \ {o}
        /\ cal' = IncidenceUpdated(cal, o) /\ UNCHANGED <<made, details>>
    BY <1>9 DEF EndUpdates
  <2>2. (I \ editing) \cup ({o} \cap I) = I \ editing'
    BY <2>1
  <2>3. IncidenceUpdated(Calendar(I), o) =
          [incidences |-> I, mAttendeeIncidences |-> People(I \ editing'),
           mGeoIncidences |-> Places(I \ editing')]
    BY <2>2, UpdatedCalendar DEF Calendar
  <2>4. cal' = Calendar(I)'
    BY <1>1, <2>1, <2>3, CalendarKept
  <2> QED
    BY <1>1, <1>2, <2>1, <2>4 DEF ListInv, Known
<1>10. ASSUME NEW o \in Object, NEW new \in Slot, NEW t, DissociateSingleOccurrence(o, t, new)
       PROVE  ListInv'
  <2>1. /\ o \in made \ editing /\ new \in Slot \ made
        /\ made' = made \cup {new} /\ details' = [details EXCEPT ![new] = details[o]]
        /\ cal' = IncidenceUpdated(IncidenceUpdate(cal, o), o)
        /\ UNCHANGED editing
    BY <1>10 DEF DissociateSingleOccurrence
  <2>2. DOMAIN details' = Object /\ \A p \in made : details'[p] = details[p]
    BY <1>2, <2>1 DEF Known
  <2>3. ((I \ editing) \ {o}) \cup ({o} \cap I) = I \ editing
    BY <2>1
  <2>4. cal' = Calendar(I)
    <3>1. IncidenceUpdate(Calendar(I), o) =
            [incidences |-> I, mAttendeeIncidences |-> People((I \ editing) \ {o}),
             mGeoIncidences |-> Places((I \ editing) \ {o})]
      BY UpdateCalendar
    <3>2. IncidenceUpdated(IncidenceUpdate(Calendar(I), o), o) =
            [incidences |-> I,
             mAttendeeIncidences |-> People(((I \ editing) \ {o}) \cup ({o} \cap I)),
             mGeoIncidences |-> Places(((I \ editing) \ {o}) \cup ({o} \cap I))]
      BY <3>1, UpdatedCalendar
    <3> QED
      BY <1>1, <2>1, <2>3, <3>2 DEF Calendar
  <2>5. Calendar(I)' = Calendar(I)
    BY <2>1, <2>2, CalendarKept DEF Calendar
  <2>6. made' \subseteq Object
    BY <1>2, <2>1, ObjectAssumption DEF Known
  <2> QED
    BY <1>1, <1>2, <2>1, <2>2, <2>4, <2>5, <2>6 DEF ListInv, Known
<1>11. CASE Close
  <2>1. cal' = EmptyCalendar /\ UNCHANGED <<made, details, editing>>
    BY <1>11 DEF Close
  <2>2. EmptyCalendar = Calendar({})
    BY DEF EmptyCalendar, Calendar, People, Places
  <2> QED
    BY <1>3, <2>1, <2>2
<1>12. CASE UNCHANGED vars
  BY <1>1, <1>3, <1>12 DEF vars
<1> QED
  BY <1>4, <1>5, <1>6, <1>7, <1>8, <1>9, <1>10, <1>11, <1>12 DEF Next

\* Dated or not, an incidence is asked for.
LEMMA ListInit == Init => ListInv
<1> SUFFICES ASSUME Init PROVE ListInv
  OBVIOUS
<1>1. Known
  BY ObjectAssumption DEF Init, Known
<1>2. cal = Calendar({})
  BY DEF Init, EmptyCalendar, Calendar, People, Places
<1> QED
  BY <1>1, <1>2 DEF ListInv

LEMMA EitherRange ==
  \A i, from, to : IsInRange(i, -1, from, to) <=> IsInRange(i, 1, from, to) \/ IsInRange(i, 0, from, to)
BY DEF IsInRange

\* Whoever asks for somebody's incidences, or for those with a place, gets what
\* a search of the whole calendar would give, however the incidences were added,
\* replaced, changed, dissociated and deleted (addIncidenceToLists,
\* removeIncidenceFromLists and those who call them).
THEOREM ListsCurrent == Spec => []ListsAreCurrent
<1>1. Init => ListInv
  BY ListInit
<1>2. ListInv => ListsAreCurrent
  <2> SUFFICES ASSUME ListInv, NEW from \in Window, NEW to \in Window
               PROVE  LET dated == Incidences(1, from, to) \ editing
                          dateless == Incidences(0, from, to) \ editing
                          placed(S) == {o \in S : details[o].geo /\ Kind[o] # "Journal"}
                      IN  /\ \A email \in Email :
                               ContactIncidences(email, from, to)
                                 = {o \in dated \cup dateless : email \in details[o].people}
                          /\ GeoIncidences(1, from, to) = placed(dated)
                          /\ GeoIncidences(0, from, to) = placed(dateless)
    BY DEF ListsAreCurrent
  <2>1. PICK I \in SUBSET made : cal = Calendar(I)
    BY DEF ListInv
  <2>2. /\ cal.incidences = I /\ I \subseteq Object
        /\ cal.mAttendeeIncidences = People(I \ editing)
        /\ cal.mGeoIncidences = Places(I \ editing)
    BY <2>1 DEF Calendar, ListInv, Known
  <2>3. \A email, o : <<email, o>> \in cal.mAttendeeIncidences
                        <=> o \in I \ editing /\ email \in details[o].people
    BY <2>2, Entries
  <2>4. ASSUME NEW email
        PROVE  ContactIncidences(email, from, to) =
                 {o \in (Incidences(1, from, to) \ editing) \cup (Incidences(0, from, to) \ editing) :
                    email \in details[o].people}
    BY <2>2, <2>3, EitherRange DEF ContactIncidences, AttendeeIncidences, Incidences
  <2>5. \A h : GeoIncidences(h, from, to) =
                 {o \in Incidences(h, from, to) \ editing : details[o].geo /\ Kind[o] # "Journal"}
    BY <2>2 DEF GeoIncidences, Incidences, Places
  <2> QED
    BY <2>4, <2>5
<1> QED
  BY <1>1, <1>2, ListStep, PTL DEF Spec

-----------------------------------------------------------------------------
(* Days and times.  A recurring event begins at the same time of every day. *)

\* A day begins so many hours after the first one, and each is as long as another.
LEMMA Product ==
  ASSUME NEW a \in Int, NEW b \in Int
  PROVE  /\ Midnight(a) \in Int
         /\ Midnight(a + b) = Midnight(a) + Midnight(b)
         /\ Midnight(a - b) = Midnight(a) - Midnight(b)
         /\ a < b <=> Midnight(a) < Midnight(b)
         /\ Midnight(1) = DayLength /\ Midnight(0) = 0
<1>1. DayLength \in Int /\ DayLength >= 1
  BY DayAssumption
<1>2. \A x, y \in Int : (x + y) * DayLength = x * DayLength + y * DayLength
  BY <1>1
<1>3. \A x, y \in Int : (x - y) * DayLength = x * DayLength - y * DayLength
  BY <1>1
<1>4. \A x, y \in Int : x < y => x * DayLength < y * DayLength
  BY <1>1
<1>5. \A x \in Int : x * DayLength \in Int
  BY <1>1
<1>6. a < b <=> a * DayLength < b * DayLength
  BY <1>4, <1>5
<1> QED
  BY <1>1, <1>2, <1>3, <1>5, <1>6 DEF Midnight

\* A time is in the day that began at the midnight before.
LEMMA DayBegins ==
  ASSUME NEW t \in Int
  PROVE  /\ DayOf(t) \in Int
         /\ Midnight(DayOf(t)) = t - (t % DayLength)
         /\ t % DayLength \in Int /\ 0 <= t % DayLength /\ t % DayLength < DayLength
<1>1. DayLength \in Int /\ DayLength >= 1
  BY DayAssumption
<1>2. t \div DayLength \in Int /\ t % DayLength \in 0 .. (DayLength - 1)
  BY <1>1
<1>3. t = DayLength * (t \div DayLength) + (t % DayLength)
  BY <1>1
<1>4. (t \div DayLength) * DayLength = t - (t % DayLength)
  BY <1>1, <1>2, <1>3
<1> QED
  BY <1>1, <1>2, <1>4 DEF DayOf, Midnight

\* Days and the times they begin at are ordered alike.
LEMMA DayOrder == \A t, d \in Int : d <= DayOf(t) <=> Midnight(d) <= t
<1> SUFFICES ASSUME NEW t \in Int, NEW d \in Int
             PROVE  d <= DayOf(t) <=> Midnight(d) <= t
  OBVIOUS
<1> DEFINE day == DayOf(t)
<1>1. day \in Int /\ Midnight(day) \in Int /\ Midnight(day) = t - (t % DayLength)
  BY DayBegins, Product
<1>2. t % DayLength \in Int /\ 0 <= t % DayLength /\ t % DayLength < DayLength /\ DayLength \in Int
  BY DayBegins, DayAssumption
<1> HIDE DEF day
<1>3. Midnight(day + 1) = Midnight(day) + DayLength
  BY <1>1, Product
<1>4. Midnight(d) \in Int /\ (day + 1 < d <=> Midnight(day + 1) < Midnight(d))
      /\ (d < day <=> Midnight(d) < Midnight(day))
  <2>1. day + 1 \in Int
    BY <1>1
  <2> QED
    BY <1>1, <2>1, Product
<1>5. Midnight(day) <= t /\ t < Midnight(day + 1)
  BY <1>1, <1>2, <1>3
<1>6. d < day \/ d = day \/ d = day + 1 \/ day + 1 < d
  BY <1>1
<1>7. d <= day <=> Midnight(d) <= t
  BY <1>1, <1>2, <1>3, <1>4, <1>5, <1>6
<1> QED
  BY <1>7 DEF day

\* A day is the one that its midnight is in.
LEMMA MidnightDay == \A d \in Int : DayOf(Midnight(d)) = d
<1> SUFFICES ASSUME NEW d \in Int PROVE DayOf(Midnight(d)) = d
  OBVIOUS
<1> DEFINE m == Midnight(d)
<1>1. m \in Int /\ d + 1 \in Int /\ DayLength \in Int /\ DayLength > 0
  BY Product, DayAssumption
<1>2. Midnight(d + 1) = m + DayLength
  BY Product
<1>3. DayOf(m) \in Int
  BY <1>1, DayBegins
<1>4. (d <= DayOf(m) <=> Midnight(d) <= m) /\ (d + 1 <= DayOf(m) <=> Midnight(d + 1) <= m)
  BY <1>1, DayOrder
<1> QED
  BY <1>1, <1>2, <1>3, <1>4

\* So many days later.
LEMMA DayShift ==
  ASSUME NEW t \in Int, NEW d \in Int
  PROVE  DayOf(t + Midnight(d)) = DayOf(t) + d
<1> DEFINE later == t + Midnight(d)
<1>1. later \in Int /\ DayOf(later) \in Int /\ DayOf(t) \in Int /\ Midnight(d) \in Int
  <2>1. Midnight(d) \in Int /\ DayOf(t) \in Int
    BY Product, DayBegins
  <2>2. later \in Int
    BY <2>1
  <2> HIDE DEF later
  <2> QED
    BY <2>1, <2>2, DayBegins
<1> HIDE DEF later
<1>2. \A x \in Int : x <= DayOf(later) <=> x - d <= DayOf(t)
  <2> TAKE x \in Int
  <2>1. Midnight(x - d) = Midnight(x) - Midnight(d) /\ Midnight(x) \in Int
    BY Product
  <2>2. x <= DayOf(later) <=> Midnight(x) <= later
    BY <1>1, DayOrder
  <2>3. x - d <= DayOf(t) <=> Midnight(x - d) <= t
    BY <1>1, DayOrder
  <2> QED
    BY <1>1, <2>1, <2>2, <2>3 DEF later
<1>3. DayOf(later) - d <= DayOf(t)
  BY <1>1, <1>2
<1>4. DayOf(t) + d <= DayOf(later)
  <2>1. DayOf(t) + d \in Int /\ (DayOf(t) + d) - d <= DayOf(t)
    BY <1>1
  <2> QED
    BY <1>2, <2>1
<1> QED
  BY <1>1, <1>3, <1>4 DEF later

\* An occurrence at the same time of day lasts as many days.
LEMMA SameSpan ==
  ASSUME NEW s \in Int, NEW t \in Int, NEW e \in Int, s % DayLength = t % DayLength
  PROVE  DayOf(t + (e - s)) = DayOf(t) + (DayOf(e) - DayOf(s))
<1>1. DayOf(s) \in Int /\ DayOf(t) \in Int /\ DayOf(e) \in Int
  BY DayBegins
<1>2. t - s = Midnight(DayOf(t) - DayOf(s))
  <2>1. Midnight(DayOf(t) - DayOf(s)) = Midnight(DayOf(t)) - Midnight(DayOf(s))
    BY <1>1, Product
  <2> QED
    BY <2>1, DayBegins
<1>3. t + (e - s) = e + Midnight(DayOf(t) - DayOf(s))
  BY <1>2
<1>4. DayOf(t + (e - s)) = DayOf(e) + (DayOf(t) - DayOf(s))
  BY <1>1, <1>3, DayShift
<1> QED
  BY <1>1, <1>4

\* Some number is the least: what this file uses in the place of induction.
LEMMA LeastNat ==
  ASSUME NEW S, S \subseteq Nat, S # {}
  PROVE  \E m \in S : \A n \in S : m <= n
<1> DEFINE R == OpToRel(<, Nat)
<1>1. IsWellFoundedOn(R, Nat)
  BY NatLessThanWellFounded
<1>2. \A x, y \in Nat : y < x => <<y, x>> \in R
  BY DEF OpToRel
<1> HIDE DEF R
<1>3. PICK m \in S : \A n \in S : ~(<<n, m>> \in R)
  BY <1>1, WFMin
<1>4. ASSUME NEW n \in S PROVE m <= n
  <2>1. m \in Nat /\ n \in Nat
    OBVIOUS
  <2>2. ~(n < m)
    BY <1>2, <1>3, <2>1
  <2> QED
    BY <2>1, <2>2
<1> QED
  BY <1>4

\* What Min() and Max() choose.
LEMMA MinLeast ==
  ASSUME NEW S, S \subseteq Nat, S # {}
  PROVE  Min(S) \in S /\ \A n \in S : Min(S) <= n
<1>1. \E m \in S : \A n \in S : m <= n
  BY LeastNat
<1> QED
  BY <1>1 DEF Min

LEMMA MinIs ==
  ASSUME NEW S, S \subseteq Nat, NEW m \in S, \A n \in S : m <= n
  PROVE  Min(S) = m
<1>1. Min(S) \in S /\ \A n \in S : Min(S) <= n
  BY DEF Min
<1>2. Min(S) <= m /\ m <= Min(S) /\ m \in Nat /\ Min(S) \in Nat
  BY <1>1
<1> QED
  BY <1>2

LEMMA MaxIs ==
  ASSUME NEW S, S \subseteq Nat, NEW m \in S, \A n \in S : n <= m
  PROVE  Max(S) = m
<1>1. \A n \in S : m >= n
  OBVIOUS
<1>2. Max(S) \in S /\ \A n \in S : Max(S) >= n
  BY <1>1 DEF Max
<1>3. Max(S) <= m /\ m <= Max(S) /\ m \in Nat /\ Max(S) \in Nat
  BY <1>2
<1> QED
  BY <1>3

LEMMA MaxGreatest ==
  ASSUME NEW S, S \subseteq Nat, S # {}, NEW bound \in Nat, \A n \in S : n <= bound
  PROVE  Max(S) \in S /\ \A n \in S : n <= Max(S)
<1> DEFINE T == {k \in Nat : \E n \in S : k = bound - n}
<1>1. T \subseteq Nat /\ T # {}
  <2>1. PICK n \in S : TRUE
    OBVIOUS
  <2>2. n \in Nat /\ n <= bound
    OBVIOUS
  <2>3. bound - n \in Nat
    BY <2>2
  <2> QED
    BY <2>3
<1>2. PICK k \in T : \A l \in T : k <= l
  BY <1>1, LeastNat
<1>3. PICK m \in S : k = bound - m
  OBVIOUS
<1>4. ASSUME NEW n \in S PROVE n <= m
  <2>1. n \in Nat /\ m \in Nat /\ n <= bound
    OBVIOUS
  <2>2. bound - n \in T
    BY <2>1
  <2>3. k <= bound - n
    BY <1>2, <2>2
  <2> QED
    BY <1>3, <2>1, <2>3
<1> QED
  BY <1>4, MaxIs

-----------------------------------------------------------------------------
ExtraDays(e) == DayOf(e.end) - DayOf(e.start)

\* Each occurrence takes as many days beyond its first as the event itself.
LEMMA Spans ==
  ASSUME NEW e, EventTiming(e)
  PROVE  /\ ExtraDays(e) \in Nat /\ Times(e) \subseteq Nat
         /\ IsMultiDay(e) \/ ExtraDays(e) = 0
         /\ \A t \in Times(e) : DayOf(t + Length(e)) = DayOf(t) + ExtraDays(e)
<1>1. /\ e.start \in Nat /\ e.end \in Nat /\ e.start <= e.end
      /\ e.start \in Int /\ e.end \in Int
      /\ \A t \in Times(e) : t \in Nat /\ t \in Int /\ t % DayLength = e.start % DayLength
  BY DEF EventTiming, Times
<1>2. DayOf(e.start) \in Int /\ DayOf(e.end) \in Int /\ DayOf(e.start) <= DayOf(e.end)
  <2>1. DayOf(e.start) \in Int /\ DayOf(e.end) \in Int
    BY <1>1, DayBegins
  <2>2. Midnight(DayOf(e.start)) <= e.start /\ Midnight(DayOf(e.start)) \in Int
    <3>1. DayOf(e.start) <= DayOf(e.start) <=> Midnight(DayOf(e.start)) <= e.start
      BY <1>1, <2>1, DayOrder
    <3> QED
      BY <2>1, <3>1, Product
  <2>3. Midnight(DayOf(e.start)) <= e.end
    BY <1>1, <2>2
  <2> QED
    BY <1>1, <2>1, <2>3, DayOrder
<1>3. ExtraDays(e) \in Nat
  BY <1>2 DEF ExtraDays
<1>4. IsMultiDay(e) \/ ExtraDays(e) = 0
  <2>1. CASE e.start = e.end
    BY <1>2, <2>1 DEF ExtraDays
  <2>2. CASE e.start # e.end
    BY <1>1, <1>2, <2>2 DEF ExtraDays, IsMultiDay
  <2> QED
    BY <2>1, <2>2
<1>5. \A t \in Times(e) : DayOf(t + Length(e)) = DayOf(t) + ExtraDays(e)
  BY <1>1, SameSpan DEF ExtraDays, Length
<1> QED
  BY <1>1, <1>3, <1>4, <1>5

\* The days of one event, and those of events together.
LEMMA InEventDays ==
  ASSUME NEW e, EventTiming(e), NEW d
  PROVE  d \in EventDays({e}) <=>
           /\ d \in Int
           /\ \E t \in Times(e) : DayOf(t) <= d /\ d <= DayOf(t) + ExtraDays(e)
<1>1. \A t \in Times(e) : DaysOf(e, t) = DayOf(t) .. (DayOf(t) + ExtraDays(e))
  BY Spans DEF DaysOf
<1>2. \A t \in Times(e) : DayOf(t) \in Int /\ ExtraDays(e) \in Int
  BY Spans, DayBegins
<1>3. d \in EventDays({e}) <=> \E t \in Times(e) : d \in DaysOf(e, t)
  BY DEF EventDays
<1> QED
  BY <1>1, <1>2, <1>3

LEMMA MoreDays == \A S, e : EventDays(S \cup {e}) = EventDays(S) \cup EventDays({e})
  BY DEF EventDays

-----------------------------------------------------------------------------
Later(S, date) == {d \in EventDays(S) : d > date}
Earlier(S, date) == {d \in EventDays(S) : d < date}

\* rv is the midnight of the first, or the last, of the days D.
IsFirst(rv, D) ==
  IF D = {} THEN rv = Invalid ELSE \E m \in D : rv = Midnight(m) /\ \A d \in D : m <= d
IsLast(rv, D) ==
  IF D = {} THEN rv = Invalid ELSE \E m \in D : rv = Midnight(m) /\ \A d \in D : d <= m

\* The midnights of days on or after the first are no invalid dates.
LEMMA MidnightOrder ==
  /\ \A a, b \in Int : a < b <=> Midnight(a) < Midnight(b)
  /\ \A a \in Int : Midnight(a) \in Int
  /\ \A a \in Nat : Midnight(a) >= 0 /\ Midnight(a) # Invalid
<1>1. \A a, b \in Int : a < b <=> Midnight(a) < Midnight(b)
  BY Product
<1>2. \A a \in Int : Midnight(a) \in Int
  BY Product
<1>3. ASSUME NEW a \in Nat PROVE Midnight(a) >= 0
  <2>1. Midnight(0) = 0 /\ (a < 0 <=> Midnight(a) < Midnight(0)) /\ Midnight(a) \in Int
    BY Product
  <2> QED
    BY <2>1
<1>4. \A a \in Nat : Midnight(a) # Invalid
  BY <1>2, <1>3 DEF Invalid
<1> QED
  BY <1>1, <1>2, <1>3, <1>4

\* The better of two dates is the nearest of both sets of days.
LEMMA FirstOfBoth ==
  ASSUME NEW A, NEW B, A \subseteq Nat, B \subseteq Nat, B # {}, NEW rv, IsFirst(rv, A),
         NEW n, IsFirst(n, B)
  PROVE  IsFirst(Better(n, rv, n < rv), A \cup B)
<1>1. PICK b \in B : n = Midnight(b) /\ \A d \in B : b <= d
  BY DEF IsFirst
<1>2. CASE A = {}
  BY <1>1, <1>2 DEF IsFirst, Better
<1>3. CASE A # {}
  <2>1. PICK a \in A : rv = Midnight(a) /\ \A d \in A : a <= d
    BY <1>3 DEF IsFirst
  <2>2. a \in Nat /\ b \in Nat /\ rv # Invalid /\ (b < a <=> n < rv)
    <3>1. a \in Nat /\ b \in Nat /\ a \in Int /\ b \in Int
      OBVIOUS
    <3> QED
      BY <1>1, <2>1, <3>1, MidnightOrder
  <2>3. CASE b < a
    <3>1. \A d \in A \cup B : d \in Nat /\ b <= d
      BY <1>1, <2>1, <2>2, <2>3
    <3> QED
      BY <1>1, <2>2, <2>3, <3>1 DEF IsFirst, Better
  <2>4. CASE ~(b < a)
    <3>1. \A d \in A \cup B : d \in Nat /\ a <= d
      BY <1>1, <2>1, <2>2, <2>4
    <3> QED
      BY <2>1, <2>2, <2>4, <3>1 DEF IsFirst, Better
  <2> QED
    BY <2>3, <2>4
<1> QED
  BY <1>2, <1>3

LEMMA LastOfBoth ==
  ASSUME NEW A, NEW B, A \subseteq Nat, B \subseteq Nat, NEW rv, IsLast(rv, A),
         NEW n, IsLast(n, B)
  PROVE  IsLast(Better(n, rv, n > rv), A \cup B)
<1>1. CASE B = {}
  <2>1. n = Invalid
    BY <1>1 DEF IsLast
  <2>2. CASE A = {}
    BY <1>1, <2>1, <2>2 DEF IsLast, Better
  <2>3. CASE A # {}
    <3>1. PICK a \in A : rv = Midnight(a)
      BY <2>3 DEF IsLast
    <3>2. rv >= 0 /\ rv # Invalid /\ rv \in Int
      BY <3>1, MidnightOrder
    <3>3. ~(n > rv) /\ rv # Invalid
      BY <2>1, <3>2 DEF Invalid
    <3>4. Better(n, rv, n > rv) = rv
      BY <3>3 DEF Better
    <3> QED
      BY <1>1, <3>4
  <2> QED
    BY <2>2, <2>3
<1>2. CASE B # {}
  <2>1. PICK b \in B : n = Midnight(b) /\ \A d \in B : d <= b
    BY <1>2 DEF IsLast
  <2>2. CASE A = {}
    BY <2>1, <2>2 DEF IsLast, Better
  <2>3. CASE A # {}
    <3>1. PICK a \in A : rv = Midnight(a) /\ \A d \in A : d <= a
      BY <2>3 DEF IsLast
    <3>2. a \in Nat /\ b \in Nat /\ rv # Invalid /\ (a < b <=> rv < n) /\ n \in Int /\ rv \in Int
      <4>1. a \in Nat /\ b \in Nat /\ a \in Int /\ b \in Int
        OBVIOUS
      <4> QED
        BY <2>1, <3>1, <4>1, MidnightOrder
    <3>3. CASE a < b
      <4>1. \A d \in A \cup B : d \in Nat /\ d <= b
        BY <2>1, <3>1, <3>2, <3>3
      <4>2. n > rv
        BY <3>2, <3>3
      <4> QED
        BY <2>1, <3>2, <4>1, <4>2 DEF IsLast, Better
    <3>4. CASE ~(a < b)
      <4>1. \A d \in A \cup B : d \in Nat /\ d <= a
        BY <2>1, <3>1, <3>2, <3>4
      <4>2. ~(n > rv)
        BY <3>2, <3>4
      <4> QED
        BY <3>1, <3>2, <4>1, <4>2 DEF IsLast, Better
    <3> QED
      BY <3>3, <3>4
  <2> QED
    BY <2>2, <2>3
<1> QED
  BY <1>1, <1>2

\* No occurrence begins before the first day.
LEMMA DaysNat ==
  ASSUME NEW e, EventTiming(e)
  PROVE  EventDays({e}) \subseteq Nat
<1> SUFFICES ASSUME NEW d \in EventDays({e}) PROVE d \in Nat
  OBVIOUS
<1>1. PICK t \in Times(e) : DayOf(t) <= d /\ d \in Int
  BY InEventDays
<1>2. t \in Int /\ Midnight(0) <= t
  BY Spans, Product
<1>3. DayOf(t) \in Int /\ 0 <= DayOf(t)
  BY <1>2, DayBegins, DayOrder
<1> QED
  BY <1>1, <1>3

\* No later day is nearer than tomorrow.
LEMMA Tomorrow ==
  ASSUME NEW S, EventDays(S) \subseteq Nat, NEW date \in Nat, date + 1 \in EventDays(S)
  PROVE  IsFirst(Midnight(date + 1), Later(S, date))
<1>1. date + 1 \in Later(S, date) /\ \A d \in Later(S, date) : date + 1 <= d
  BY DEF Later
<1> QED
  BY <1>1 DEF IsFirst

\* One turn of the loop of nextEventsDate(): what is found is the first day after
\* date of the events seen so far, whatever kind of event comes next.
LEMMA NextFound ==
  ASSUME NEW S, EventDays(S) \subseteq Nat, NEW e, EventTiming(e), NEW date \in Nat,
         ~Ended(e, date), NEW rv, IsFirst(rv, Later(S, date))
  PROVE  IsFirst(NextAfter(rv, e, date), Later(S \cup {e}, date))
<1> DEFINE A == Later(S, date)
           B == Later({e}, date)
           today == Midnight(date)
           tomorrow == Midnight(date + 1)
           first == GetNextDateTime(e, tomorrow - 1)
           goesOn == /\ e.recurs /\ IsMultiDay(e)
                     /\ \E i \in 0 .. DayOf(e.end) - DayOf(e.start) : RecursOn(e, date + 1 - i)
           next == AtMidnight(first)
           start == AtMidnight(e.start)
           end == AtMidnight(e.end)
<1>1. /\ e.start \in Nat /\ e.end \in Nat /\ e.recurs \in BOOLEAN /\ e.times \subseteq Nat
      /\ ExtraDays(e) \in Nat /\ Times(e) \subseteq Nat
      /\ IsMultiDay(e) \/ ExtraDays(e) = 0
  BY Spans DEF EventTiming
<1>2. /\ Later(S \cup {e}, date) = A \cup B
      /\ A \subseteq Nat /\ B \subseteq Nat
      /\ EventDays(S \cup {e}) \subseteq Nat
  <2>1. EventDays({e}) \subseteq Nat
    BY DaysNat
  <2>2. EventDays(S \cup {e}) = EventDays(S) \cup EventDays({e})
    BY MoreDays
  <2> QED
    BY <2>1, <2>2 DEF Later
<1>3. \A d : d \in B <=> /\ d \in Int /\ d > date
                         /\ \E t \in Times(e) : DayOf(t) <= d /\ d <= DayOf(t) + ExtraDays(e)
  BY InEventDays DEF Later
<1>4. \A t \in Times(e) : DayOf(t) \in Int
  BY <1>1, DayBegins
<1>5. today \in Int /\ tomorrow \in Int /\ tomorrow # Invalid /\ date + 1 \in Nat
  BY MidnightOrder
<1>6. date + 1 \in B => IsFirst(tomorrow, A \cup B)
  <2>1. date + 1 \in B => date + 1 \in EventDays(S \cup {e})
    BY MoreDays DEF Later
  <2> QED
    BY <1>2, <2>1, Tomorrow
<1>7. NextAfter(rv, e, date) =
        IF rv = tomorrow THEN rv
        ELSE IF goesOn THEN tomorrow
        ELSE IF e.recurs THEN Better(next, rv, next < rv)
        ELSE IF start > today THEN Better(start, rv, start < rv)
        ELSE IF IsMultiDay(e) /\ end > today THEN tomorrow
        ELSE rv
  BY DEF NextAfter
<1> HIDE DEF goesOn
<1>8. CASE rv = tomorrow
  <2>1. PICK m \in A : rv = Midnight(m)
    BY <1>5, <1>8 DEF IsFirst
  <2>2. m = date + 1
    <3>1. m \in Int /\ date + 1 \in Int /\ (m < date + 1 <=> Midnight(m) < tomorrow)
          /\ (date + 1 < m <=> tomorrow < Midnight(m))
      BY <1>2, <2>1, MidnightOrder
    <3> QED
      BY <1>5, <1>8, <2>1, <3>1
  <2>3. date + 1 \in EventDays(S \cup {e})
    BY <2>2, MoreDays DEF Later
  <2> QED
    BY <1>2, <1>7, <1>8, <2>3, Tomorrow
<1>9. CASE rv # tomorrow /\ goesOn
  <2>1. PICK i \in 0 .. ExtraDays(e) : \E t \in e.times : DayOf(t) = date + 1 - i
    BY <1>9 DEF goesOn, RecursOn, ExtraDays
  <2>2. PICK t \in Times(e) : DayOf(t) = date + 1 - i
    BY <1>9, <2>1 DEF goesOn, Times
  <2>3. DayOf(t) <= date + 1 /\ date + 1 <= DayOf(t) + ExtraDays(e)
    BY <1>1, <2>1, <2>2
  <2>4. date + 1 \in B
    <3>1. date + 1 \in Int /\ date + 1 > date
      OBVIOUS
    <3> HIDE DEF B
    <3> QED
      BY <1>3, <2>2, <2>3, <3>1
  <2> QED
    BY <1>2, <1>6, <1>7, <1>9, <2>4
<1>10. CASE rv # tomorrow /\ ~goesOn /\ e.recurs
  <2> DEFINE U == {u \in e.times : u > tomorrow - 1}
  <2>1. U # {} /\ first = Min(U) /\ Times(e) = e.times
    BY <1>10 DEF Ended, GetNextDateTime, Times
  <2>2. first \in U /\ \A u \in U : first <= u
    BY <1>1, <2>1, MinLeast
  <2>3. next = Midnight(DayOf(first)) /\ first \in Nat /\ DayOf(first) \in Int
    BY <1>1, <2>2, DayBegins DEF AtMidnight, Invalid
  <2>4. \A u \in e.times : DayOf(u) > date <=> u \in U
    <3> TAKE u \in e.times
    <3>1. u \in Int /\ date + 1 \in Int /\ DayOf(u) \in Int
      BY <1>1, DayBegins
    <3>2. date + 1 <= DayOf(u) <=> tomorrow <= u
      BY <3>1, DayOrder
    <3> QED
      BY <1>5, <3>1, <3>2
  <2>5. DayOf(first) \in B
    <3>1. DayOf(first) > date
      BY <2>2, <2>4
    <3>2. DayOf(first) <= DayOf(first) /\ DayOf(first) <= DayOf(first) + ExtraDays(e)
      BY <1>1, <2>3
    <3>3. \E t \in Times(e) : DayOf(t) <= DayOf(first) /\ DayOf(first) <= DayOf(t) + ExtraDays(e)
      BY <2>1, <2>2, <3>2
    <3> HIDE DEF B, first
    <3> QED
      BY <1>3, <2>3, <3>1, <3>3
  <2>6. ASSUME NEW d \in B PROVE DayOf(first) <= d
    <3>1. PICK t \in e.times : DayOf(t) <= d /\ d <= DayOf(t) + ExtraDays(e) /\ d \in Int /\ d > date
      BY <1>3, <2>1
    <3>2. t \in Int /\ DayOf(t) \in Int /\ first \in Int
      BY <1>1, <2>3, DayBegins
    <3>3. DayOf(t) > date
      <4> SUFFICES ASSUME DayOf(t) <= date PROVE FALSE
        BY <3>2
      <4>1. date + 1 - DayOf(t) \in 0 .. ExtraDays(e)
        BY <1>1, <3>1, <3>2
      <4>2. DayOf(t) = date + 1 - (date + 1 - DayOf(t))
        BY <3>2
      <4>3. ExtraDays(e) # 0
        BY <1>1, <3>1, <3>2
      <4>4. IsMultiDay(e)
        BY <1>1, <4>3
      <4>5. RecursOn(e, date + 1 - (date + 1 - DayOf(t)))
        BY <4>2 DEF RecursOn
      <4> QED
        BY <1>10, <4>1, <4>4, <4>5 DEF goesOn, ExtraDays
    <3>4. first <= t
      BY <2>2, <2>4, <3>3
    <3>5. DayOf(first) <= DayOf(t)
      <4>1. DayOf(first) <= DayOf(first) <=> Midnight(DayOf(first)) <= first
        BY <2>3, <3>2, DayOrder
      <4>2. DayOf(first) <= DayOf(t) <=> Midnight(DayOf(first)) <= t
        BY <2>3, <3>2, DayOrder
      <4>3. Midnight(DayOf(first)) \in Int
        BY <2>3, MidnightOrder
      <4> QED
        BY <2>3, <3>2, <3>4, <4>1, <4>2, <4>3
    <3> QED
      BY <2>3, <3>1, <3>2, <3>5
  <2>7. IsFirst(next, B)
    BY <2>3, <2>5, <2>6 DEF IsFirst
  <2>8. IsFirst(Better(next, rv, next < rv), A \cup B)
    <3> HIDE DEF A, B, next
    <3> QED
      BY <1>2, <2>5, <2>7, FirstOfBoth DEF A
  <2> QED
    BY <1>2, <1>7, <1>10, <2>8
<1>11. CASE rv # tomorrow /\ ~goesOn /\ ~e.recurs
  <2>1. /\ Times(e) = {e.start}
        /\ start = Midnight(DayOf(e.start)) /\ end = Midnight(DayOf(e.end))
        /\ DayOf(e.start) \in Int /\ DayOf(e.end) \in Int
        /\ DayOf(e.end) = DayOf(e.start) + ExtraDays(e)
    BY <1>1, <1>11, DayBegins DEF Times, AtMidnight, Invalid, ExtraDays
  <2>2. \A d : d \in B <=> d \in Int /\ d > date /\ DayOf(e.start) <= d /\ d <= DayOf(e.end)
    BY <1>3, <2>1
  <2>3. (date < DayOf(e.start) <=> today < start) /\ (date < DayOf(e.end) <=> today < end)
        /\ start \in Int /\ end \in Int
    BY <2>1, MidnightOrder
  <2>4. CASE start > today
    <3>1. DayOf(e.start) > date
      BY <1>5, <2>1, <2>3, <2>4
    <3>2. DayOf(e.start) \in B /\ \A d \in B : DayOf(e.start) <= d
      <4>1. DayOf(e.start) <= DayOf(e.start) /\ DayOf(e.start) <= DayOf(e.end)
        BY <1>1, <2>1
      <4>2. DayOf(e.start) \in B
        BY <2>1, <2>2, <3>1, <4>1
      <4>3. \A d \in B : DayOf(e.start) <= d
        BY <2>2
      <4> QED
        BY <4>2, <4>3
    <3>3. IsFirst(start, B)
      BY <2>1, <3>2 DEF IsFirst
    <3>4. IsFirst(Better(start, rv, start < rv), A \cup B)
      <4> HIDE DEF A, B, start
      <4> QED
        BY <1>2, <3>2, <3>3, FirstOfBoth DEF A
    <3> QED
      BY <1>2, <1>7, <1>11, <2>4, <3>4
  <2>5. CASE ~(start > today) /\ IsMultiDay(e) /\ end > today
    <3>1. DayOf(e.start) <= date /\ date < DayOf(e.end)
      BY <1>5, <2>1, <2>3, <2>5
    <3>2. date + 1 \in B
      BY <2>1, <2>2, <3>1
    <3> QED
      BY <1>2, <1>6, <1>7, <1>11, <2>5, <3>2
  <2>6. CASE ~(start > today) /\ ~(IsMultiDay(e) /\ end > today)
    <3>1. DayOf(e.start) <= date
      BY <1>5, <2>1, <2>3, <2>6
    <3>2. DayOf(e.end) <= date
      BY <1>1, <1>5, <2>1, <2>3, <2>6, <3>1
    <3>3. B = {}
      BY <2>1, <2>2, <3>2
    <3>4. NextAfter(rv, e, date) = rv
      BY <1>7, <1>11, <2>6
    <3> QED
      BY <1>2, <3>3, <3>4
  <2> QED
    BY <2>4, <2>5, <2>6
<1> QED
  BY <1>1, <1>8, <1>9, <1>10, <1>11

\* No earlier day is nearer than yesterday.
LEMMA Yesterday ==
  ASSUME NEW S, EventDays(S) \subseteq Nat, NEW date \in Nat, date - 1 \in EventDays(S)
  PROVE  IsLast(Midnight(date - 1), Earlier(S, date))
<1>1. date - 1 \in Earlier(S, date) /\ \A d \in Earlier(S, date) : d <= date - 1
  BY DEF Earlier
<1> QED
  BY <1>1 DEF IsLast

\* One turn of the loop of previousEventsDate().
LEMMA PreviousFound ==
  ASSUME NEW S, EventDays(S) \subseteq Nat, NEW e, EventTiming(e), NEW date \in Nat \ {0},
         NEW rv, IsLast(rv, Earlier(S, date))
  PROVE  IsLast(PreviousBefore(rv, e, date), Earlier(S \cup {e}, date))
<1> DEFINE A == Earlier(S, date)
           B == Earlier({e}, date)
           today == Midnight(date)
           yesterday == Midnight(date - 1)
           final == GetPreviousDateTime(e, today)
           previous == AtMidnight(final)
           last == IF previous # Invalid /\ IsMultiDay(e)
                   THEN previous + Midnight(DayOf(e.end) - DayOf(e.start)) ELSE previous
           start == AtMidnight(e.start)
           end == AtMidnight(IF IsMultiDay(e) THEN e.end ELSE e.start)
<1>1. /\ e.start \in Nat /\ e.end \in Nat /\ e.recurs \in BOOLEAN /\ e.times \subseteq Nat
      /\ ExtraDays(e) \in Nat /\ Times(e) \subseteq Nat
      /\ IsMultiDay(e) \/ ExtraDays(e) = 0
  BY Spans DEF EventTiming
<1>2. /\ Earlier(S \cup {e}, date) = A \cup B
      /\ A \subseteq Nat /\ B \subseteq Nat
      /\ EventDays(S \cup {e}) \subseteq Nat
  <2>1. EventDays({e}) \subseteq Nat
    BY DaysNat
  <2>2. EventDays(S \cup {e}) = EventDays(S) \cup EventDays({e})
    BY MoreDays
  <2> QED
    BY <2>1, <2>2 DEF Earlier
<1>3. \A d : d \in B <=> /\ d \in Int /\ d < date
                         /\ \E t \in Times(e) : DayOf(t) <= d /\ d <= DayOf(t) + ExtraDays(e)
  BY InEventDays DEF Earlier
<1>4. \A t \in Times(e) : DayOf(t) \in Int
  BY <1>1, DayBegins
<1>5. today \in Int /\ yesterday \in Int /\ yesterday # Invalid /\ date - 1 \in Nat /\ today >= 0
  BY MidnightOrder
<1>6. date - 1 \in B => IsLast(yesterday, A \cup B)
  <2>1. date - 1 \in B => date - 1 \in EventDays(S \cup {e})
    BY MoreDays DEF Earlier
  <2> QED
    BY <1>2, <2>1, Yesterday
<1>7. PreviousBefore(rv, e, date) =
        IF rv = yesterday THEN rv
        ELSE IF e.recurs THEN IF last >= today THEN yesterday ELSE Better(last, rv, last > rv)
        ELSE IF end < today THEN Better(end, rv, end > rv)
        ELSE IF IsMultiDay(e) /\ start < today THEN yesterday
        ELSE rv
  BY DEF PreviousBefore
<1>8. CASE rv = yesterday
  <2>1. PICK m \in A : rv = Midnight(m)
    BY <1>5, <1>8 DEF IsLast
  <2>2. m = date - 1
    <3>1. m \in Int /\ date - 1 \in Int /\ (m < date - 1 <=> Midnight(m) < yesterday)
          /\ (date - 1 < m <=> yesterday < Midnight(m))
      BY <1>2, <2>1, MidnightOrder
    <3> QED
      BY <1>5, <1>8, <2>1, <3>1
  <2>3. date - 1 \in EventDays(S \cup {e})
    BY <2>2, MoreDays DEF Earlier
  <2> QED
    BY <1>2, <1>7, <1>8, <2>3, Yesterday
<1>9. CASE rv # yesterday /\ e.recurs
  <2> DEFINE U == {u \in e.times : u < today}
  <2>1. /\ final = IF U = {} THEN Invalid ELSE Max(U)
        /\ Times(e) = e.times
    BY <1>9 DEF GetPreviousDateTime, Times
  <2>2. \A u \in e.times : /\ u \in Int /\ DayOf(u) \in Int
                           /\ DayOf(u) < date <=> u \in U
    <3> TAKE u \in e.times
    <3>1. u \in Int /\ date \in Int /\ DayOf(u) \in Int
      BY <1>1, DayBegins
    <3>2. date <= DayOf(u) <=> today <= u
      BY <3>1, DayOrder
    <3> QED
      BY <1>5, <3>1, <3>2
  <2>3. CASE U = {}
    <3>1. previous = Invalid /\ last = Invalid
      BY <2>1, <2>3 DEF AtMidnight
    <3>2. ~(last >= today)
      BY <1>5, <3>1 DEF Invalid
    <3>3. B = {}
      <4> SUFFICES ASSUME NEW d \in B PROVE FALSE
        OBVIOUS
      <4>1. PICK t \in e.times : DayOf(t) <= d /\ d \in Int /\ d < date
        BY <1>3, <2>1
      <4>2. DayOf(t) < date
        BY <2>2, <4>1
      <4> QED
        BY <2>2, <2>3, <4>2
    <3>4. IsLast(last, B)
      BY <3>1, <3>3 DEF IsLast
    <3>5. IsLast(Better(last, rv, last > rv), A \cup B)
      <4> HIDE DEF A, B, last
      <4> QED
        BY <1>2, <3>4, LastOfBoth DEF A
    <3> QED
      BY <1>2, <1>7, <1>9, <3>2, <3>5
  <2>4. CASE U # {}
    <3>1. final \in U /\ \A u \in U : u <= final
      <4>1. U \subseteq Nat /\ today \in Nat /\ \A u \in U : u <= today
        BY <1>1, <1>5
      <4>2. final = Max(U)
        BY <2>1, <2>4
      <4> QED
        BY <2>4, <4>1, <4>2, MaxGreatest
    <3>2. /\ final \in e.times /\ final \in Nat /\ final \in Int /\ DayOf(final) \in Int
          /\ DayOf(final) < date /\ DayOf(final) \in Nat
      <4>1. final \in e.times /\ final \in Int /\ DayOf(final) \in Int /\ DayOf(final) < date
            /\ final >= 0
        BY <1>1, <2>2, <3>1
      <4>2. Midnight(0) = 0 /\ (0 <= DayOf(final) <=> Midnight(0) <= final)
        BY <4>1, DayOrder, Product
      <4> QED
        BY <4>1, <4>2
    <3>3. previous = Midnight(DayOf(final)) /\ previous # Invalid
      BY <3>2, MidnightOrder DEF AtMidnight, Invalid
    <3>4. last = Midnight(DayOf(final) + ExtraDays(e))
      <4>1. Midnight(DayOf(final) + ExtraDays(e)) = Midnight(DayOf(final)) + Midnight(ExtraDays(e))
        BY <1>1, <3>2, Product
      <4>2. CASE IsMultiDay(e)
        BY <3>3, <4>1, <4>2 DEF ExtraDays
      <4>3. CASE ~IsMultiDay(e)
        BY <1>1, <3>2, <3>3, <4>3
      <4> QED
        BY <4>2, <4>3
    <3> HIDE DEF last, final
    <3>5. \A u \in U : DayOf(u) <= DayOf(final)
      <4> TAKE u \in U
      <4>1. u \in Int /\ DayOf(u) \in Int /\ u <= final
        BY <2>2, <3>1
      <4>2. DayOf(u) <= DayOf(u) <=> Midnight(DayOf(u)) <= u
        BY <4>1, DayOrder
      <4>3. DayOf(u) <= DayOf(final) <=> Midnight(DayOf(u)) <= final
        BY <3>2, <4>1, DayOrder
      <4>4. Midnight(DayOf(u)) \in Int
        BY <4>1, MidnightOrder
      <4> QED
        BY <3>2, <4>1, <4>2, <4>3, <4>4
    <3>6. date <= DayOf(final) + ExtraDays(e) <=> today <= last
      <4>1. DayOf(final) + ExtraDays(e) \in Int /\ date \in Int
        BY <1>1, <3>2
      <4>2. (DayOf(final) + ExtraDays(e) < date <=> last < today) /\ last \in Int
        BY <3>4, <4>1, MidnightOrder
      <4> QED
        BY <1>5, <4>1, <4>2
    <3>7. CASE last >= today
      <4>1. date <= DayOf(final) + ExtraDays(e)
        BY <1>1, <1>5, <3>2, <3>4, <3>6, <3>7, MidnightOrder
      <4>2. DayOf(final) <= date - 1 /\ date - 1 <= DayOf(final) + ExtraDays(e)
        BY <1>1, <3>2, <4>1
      <4>3. date - 1 \in Int /\ date - 1 < date
        BY <1>5
      <4>4. \E t \in Times(e) : DayOf(t) <= date - 1 /\ date - 1 <= DayOf(t) + ExtraDays(e)
        BY <2>1, <3>2, <4>2
      <4>5. date - 1 \in B
        <5> HIDE DEF B
        <5> QED
          BY <1>3, <4>3, <4>4
      <4> QED
        BY <1>2, <1>6, <1>7, <1>9, <3>7, <4>5
    <3>8. CASE ~(last >= today)
      <4>1. DayOf(final) + ExtraDays(e) < date
        <5>1. DayOf(final) + ExtraDays(e) \in Int /\ last \in Int
          BY <1>1, <3>2, <3>4, MidnightOrder
        <5> QED
          BY <1>5, <3>6, <3>8, <5>1
      <4>2. DayOf(final) + ExtraDays(e) \in B
        BY <1>1, <1>3, <2>1, <3>2, <4>1
      <4>3. ASSUME NEW d \in B PROVE d <= DayOf(final) + ExtraDays(e)
        <5>1. PICK t \in e.times : DayOf(t) <= d /\ d <= DayOf(t) + ExtraDays(e) /\ d \in Int /\ d < date
          BY <1>3, <2>1
        <5>2. DayOf(t) < date /\ DayOf(t) \in Int
          BY <2>2, <5>1
        <5>3. DayOf(t) <= DayOf(final)
          BY <2>2, <3>5, <5>2
        <5> QED
          BY <1>1, <3>2, <5>1, <5>2, <5>3
      <4>4. IsLast(last, B)
        BY <3>4, <4>2, <4>3 DEF IsLast
      <4>5. IsLast(Better(last, rv, last > rv), A \cup B)
        <5> HIDE DEF A, B
        <5> QED
          BY <1>2, <4>4, LastOfBoth DEF A
      <4> QED
        BY <1>2, <1>7, <1>9, <3>8, <4>5
    <3> QED
      BY <3>7, <3>8
  <2> QED
    BY <2>3, <2>4
<1>10. CASE rv # yesterday /\ ~e.recurs
  <2>1. /\ Times(e) = {e.start}
        /\ DayOf(e.start) \in Int /\ DayOf(e.end) \in Int
        /\ DayOf(e.end) = DayOf(e.start) + ExtraDays(e)
    BY <1>1, <1>10, DayBegins DEF Times, ExtraDays
  <2>2. start = Midnight(DayOf(e.start)) /\ end = Midnight(DayOf(e.end))
    <3>1. CASE IsMultiDay(e)
      BY <1>1, <3>1 DEF AtMidnight, Invalid
    <3>2. CASE ~IsMultiDay(e)
      <4>1. DayOf(e.start) = DayOf(e.end)
        BY <1>1, <2>1, <3>2
      <4> QED
        BY <1>1, <3>2, <4>1 DEF AtMidnight, Invalid
    <3> QED
      BY <3>1, <3>2
  <2>3. \A d : d \in B <=> d \in Int /\ d < date /\ DayOf(e.start) <= d /\ d <= DayOf(e.end)
    BY <1>3, <2>1
  <2> HIDE DEF start, end
  <2>4. (DayOf(e.start) < date <=> start < today) /\ (DayOf(e.end) < date <=> end < today)
        /\ start \in Int /\ end \in Int
    BY <2>1, <2>2, MidnightOrder
  <2>5. CASE end < today
    <3>1. DayOf(e.end) < date
      BY <2>4, <2>5
    <3>2. DayOf(e.end) \in B /\ \A d \in B : d <= DayOf(e.end)
      <4>1. DayOf(e.start) <= DayOf(e.end) /\ DayOf(e.end) <= DayOf(e.end)
        BY <1>1, <2>1
      <4>2. DayOf(e.end) \in B
        BY <2>1, <2>3, <3>1, <4>1
      <4>3. \A d \in B : d <= DayOf(e.end)
        BY <2>3
      <4> QED
        BY <4>2, <4>3
    <3>3. IsLast(end, B)
      BY <2>2, <3>2 DEF IsLast
    <3>4. IsLast(Better(end, rv, end > rv), A \cup B)
      <4> HIDE DEF A, B
      <4> QED
        BY <1>2, <3>3, LastOfBoth DEF A
    <3> QED
      BY <1>2, <1>7, <1>10, <2>5, <3>4
  <2>6. CASE ~(end < today) /\ IsMultiDay(e) /\ start < today
    <3>1. DayOf(e.start) < date /\ ~(DayOf(e.end) < date)
      BY <2>4, <2>6
    <3>2. DayOf(e.start) <= date - 1 /\ date - 1 <= DayOf(e.end)
      BY <2>1, <3>1
    <3>3. date - 1 \in B
      BY <1>5, <2>3, <3>2
    <3> QED
      BY <1>2, <1>6, <1>7, <1>10, <2>6, <3>3
  <2>7. CASE ~(end < today) /\ ~(IsMultiDay(e) /\ start < today)
    <3>1. ~(DayOf(e.start) < date)
      <4>1. CASE IsMultiDay(e)
        BY <2>4, <2>7, <4>1
      <4>2. CASE ~IsMultiDay(e)
        <5>1. DayOf(e.end) = DayOf(e.start)
          BY <1>1, <2>1, <4>2
        <5> QED
          BY <2>4, <2>7, <5>1
      <4> QED
        BY <4>1, <4>2
    <3>2. B = {}
      BY <2>1, <2>3, <3>1
    <3>3. PreviousBefore(rv, e, date) = rv
      BY <1>7, <1>10, <2>7
    <3> QED
      BY <1>2, <3>2, <3>3
  <2> QED
    BY <2>5, <2>6, <2>7
<1> QED
  BY <1>1, <1>8, <1>9, <1>10

-----------------------------------------------------------------------------
(* The searches for the nearest dates. *)

\* What one of the two searches finds in the events, the last of which is taken
\* last: the function MapThenFoldSet() chooses, on the sets of their places.
Toward(which, rv, e, date) ==
  IF which = "next" THEN NextAfter(rv, e, date) ELSE PreviousBefore(rv, e, date)

Search(it, which, events, S, date) ==
  it = [s \in SUBSET S |-> IF s = {} THEN Invalid
                           ELSE Toward(which, it[s \ {Max(s)}], events[Max(s)], date)]

\* rv is what the search has to find in the events S.
Found(which, rv, S, date) ==
  IF which = "next" THEN IsFirst(rv, Later(S, date)) ELSE IsLast(rv, Earlier(S, date))

\* A fold takes the elements in the order of their places.
LEMMA MaxNext ==
  ASSUME NEW k \in Nat, NEW s \in SUBSET (1 .. k+1), k + 1 \in s
  PROVE  Max(s) = k + 1
<1>1. \A x \in s : x \in Nat /\ x <= k + 1
  OBVIOUS
<1> QED
  BY <1>1, MaxIs

\* A fold over k events goes on to the next one, so there is one over any number.
LEMMA SearchFurther ==
  ASSUME NEW k \in Nat, NEW which, NEW events, NEW date, NEW it, Search(it, which, events, 1 .. k, date)
  PROVE  \E new : Search(new, which, events, 1 .. k+1, date)
<1> DEFINE val(f, s) == IF s = {} THEN Invalid ELSE Toward(which, f[s \ {Max(s)}], events[Max(s)], date)
           new == [s \in SUBSET (1 .. k+1) |-> val(it, s)]
           again == [s \in SUBSET (1 .. k+1) |-> val(new, s)]
<1>1. 1 .. k \subseteq 1 .. k+1
  OBVIOUS
<1>2. \A s \in SUBSET (1 .. k) : new[s] = it[s]
  BY <1>1 DEF Search
<1>3. ASSUME NEW s \in SUBSET (1 .. k+1), s # {}
      PROVE  s \ {Max(s)} \in SUBSET (1 .. k)
  <2>1. \A x \in s : x \in Nat /\ x >= 1 /\ x <= k + 1
    OBVIOUS
  <2>2. CASE k + 1 \in s
    <3>1. Max(s) = k + 1
      BY <2>2, MaxNext
    <3> QED
      BY <2>1, <3>1
  <2>3. CASE k + 1 \notin s
    <3>1. \A x \in s : x \in 1 .. k
      BY <2>1, <2>3
    <3> QED
      BY <3>1
  <2> QED
    BY <2>2, <2>3
<1>4. ASSUME NEW s \in SUBSET (1 .. k+1) PROVE new[s] = again[s]
  <2>1. CASE s = {}
    BY <2>1
  <2>2. CASE s # {}
    <3>1. new[s \ {Max(s)}] = it[s \ {Max(s)}]
      BY <1>2, <1>3, <2>2
    <3>2. new[s] = val(it, s) /\ again[s] = val(new, s)
      OBVIOUS
    <3> HIDE DEF new, again
    <3> QED
      BY <2>2, <3>1, <3>2
  <2> QED
    BY <2>1, <2>2
<1>5. new = again
  <2>1. new = [s \in SUBSET (1 .. k+1) |-> new[s]] /\ again = [s \in SUBSET (1 .. k+1) |-> again[s]]
    OBVIOUS
  <2> HIDE DEF new, again
  <2> QED
    BY <1>4, <2>1
<1> HIDE DEF new
<1> QED
  BY <1>5 DEF Search

LEMMA SearchExists ==
  ASSUME NEW which, NEW events, NEW date, NEW n \in Nat
  PROVE  \E it : Search(it, which, events, 1 .. n, date)
<1> DEFINE Bad == {k \in Nat : ~\E it : Search(it, which, events, 1 .. k, date)}
<1>1. \E it : Search(it, which, events, 1 .. 0, date)
  <2>1. 1 .. 0 = {} /\ SUBSET {} = {{}}
    OBVIOUS
  <2>2. Search([s \in {{}} |-> Invalid], which, events, {}, date)
    BY <2>1 DEF Search
  <2> QED
    BY <2>1, <2>2
<1>2. SUFFICES ASSUME Bad # {} PROVE FALSE
  OBVIOUS
<1>3. PICK k \in Bad : \A j \in Bad : k <= j
  BY <1>2, LeastNat
<1>4. k # 0 /\ k - 1 \in Nat /\ k - 1 \notin Bad /\ (k - 1) + 1 = k
  BY <1>1, <1>3
<1>5. PICK it : Search(it, which, events, 1 .. (k - 1), date)
  BY <1>4
<1>6. \E new : Search(new, which, events, 1 .. (k-1)+1, date)
  BY <1>4, <1>5, SearchFurther
<1> QED
  BY <1>3, <1>4, <1>6

\* No event takes a day before the first.
LEMMA AllDaysNat == \A S : (\A e \in S : EventTiming(e)) => EventDays(S) \subseteq Nat
<1> SUFFICES ASSUME NEW S, \A e \in S : EventTiming(e), NEW d \in EventDays(S)
             PROVE  d \in Nat
  OBVIOUS
<1>1. PICK e \in S : d \in EventDays({e})
  BY DEF EventDays
<1> QED
  BY <1>1, DaysNat

\* One turn of either loop.
LEMMA FoundNext ==
  ASSUME NEW which, NEW S, EventDays(S) \subseteq Nat, NEW e, EventTiming(e), NEW date \in Nat \ {0},
         which = "next" => ~Ended(e, date), NEW rv, Found(which, rv, S, date)
  PROVE  Found(which, Toward(which, rv, e, date), S \cup {e}, date)
BY NextFound, PreviousFound DEF Found, Toward

\* What the search has found after the first events is right for these.
LEMMA SearchFinds ==
  ASSUME NEW which, NEW events, NEW date \in Nat \ {0}, NEW n \in Nat,
         \A k \in 1 .. n : EventTiming(events[k]),
         which = "next" => \A k \in 1 .. n : ~Ended(events[k], date),
         NEW it, Search(it, which, events, 1 .. n, date)
  PROVE  Found(which, it[1 .. n], {events[k] : k \in 1 .. n}, date)
<1> DEFINE Taken(k) == {events[j] : j \in 1 .. k}
           Bad == {k \in 0 .. n : ~Found(which, it[1 .. k], Taken(k), date)}
<1>1. Found(which, it[1 .. 0], Taken(0), date)
  <2>1. 1 .. 0 = {} /\ Taken(0) = {}
    OBVIOUS
  <2>2. {} \in SUBSET (1 .. n)
    OBVIOUS
  <2>3. it[{}] = Invalid
    BY <2>2 DEF Search
  <2>4. EventDays({}) = {}
    BY DEF EventDays
  <2> HIDE DEF Taken
  <2> QED
    BY <2>1, <2>3, <2>4 DEF Found, IsFirst, IsLast, Later, Earlier
<1>2. SUFFICES ASSUME Bad # {} PROVE FALSE
  <2>1. n \notin Bad
    BY <1>2
  <2> QED
    BY <2>1
<1>3. PICK k \in Bad : \A j \in Bad : k <= j
  <2>1. Bad \subseteq Nat
    OBVIOUS
  <2> HIDE DEF Bad
  <2> QED
    BY <1>2, <2>1, LeastNat
<1>4. k \in 1 .. n /\ k - 1 \in 0 .. n /\ k - 1 \notin Bad /\ (k - 1) + 1 = k /\ k - 1 \in Nat
  <2>1. k \in 0 .. n /\ k # 0
    BY <1>1
  <2>2. k \in 1 .. n /\ k - 1 \in 0 .. n /\ (k - 1) + 1 = k /\ k - 1 \in Nat /\ ~(k <= k - 1)
    BY <2>1
  <2> HIDE DEF Bad
  <2> QED
    BY <1>3, <2>2
<1>5. Found(which, it[1 .. k-1], Taken(k-1), date)
  BY <1>4
<1>6. it[1 .. k] = Toward(which, it[1 .. k-1], events[k], date)
  <2>1. 1 .. k \in SUBSET (1 .. n) /\ 1 .. k # {} /\ k \in 1 .. k
    BY <1>4
  <2>2. Max(1 .. k) = k
    <3>1. 1 .. k \subseteq Nat /\ \A x \in 1 .. k : x <= k
      BY <1>4
    <3> QED
      BY <2>1, <3>1, MaxIs
  <2>3. (1 .. k) \ {k} = 1 .. k-1
    BY <1>4
  <2> QED
    BY <2>1, <2>2, <2>3 DEF Search
<1>7. Taken(k) = Taken(k-1) \cup {events[k]}
  <2>1. 1 .. k = (1 .. k-1) \cup {k}
    BY <1>4
  <2> QED
    BY <2>1
<1>8. EventDays(Taken(k-1)) \subseteq Nat
  <2>1. \A e \in Taken(k-1) : EventTiming(e)
    BY <1>4
  <2> HIDE DEF Taken
  <2> QED
    BY <2>1, AllDaysNat
<1>9. EventTiming(events[k]) /\ (which = "next" => ~Ended(events[k], date))
  BY <1>4
<1>10. Found(which, Toward(which, it[1 .. k-1], events[k], date), Taken(k-1) \cup {events[k]}, date)
  <2> HIDE DEF Taken, Bad
  <2> QED
    BY <1>5, <1>8, <1>9, FoundNext
<1> QED
  BY <1>3, <1>6, <1>7, <1>10

\* The two operators return what such a fold has at its end.
LEMMA SearchIsFold ==
  ASSUME NEW events, NEW n \in Nat, DOMAIN events = 1 .. n, NEW date
  PROVE  /\ \E it : /\ Search(it, "next", events, 1 .. n, date)
                    /\ NextEventsDate(events, date) = DateOrInvalid(it[1 .. n])
         /\ \E it : /\ Search(it, "previous", events, 1 .. n, date)
                    /\ PreviousEventsDate(events, date) = DateOrInvalid(it[1 .. n])
<1> DEFINE Next1(it) == it = [s \in SUBSET (1 .. n) |-> IF s = {} THEN Invalid
                              ELSE NextAfter(it[s \ {Max(s)}], events[Max(s)], date)]
           Previous1(it) == it = [s \in SUBSET (1 .. n) |-> IF s = {} THEN Invalid
                              ELSE PreviousBefore(it[s \ {Max(s)}], events[Max(s)], date)]
<1>1. \A it : Next1(it) <=> Search(it, "next", events, 1 .. n, date)
  BY DEF Search, Toward
<1>2. \A it : Previous1(it) <=> Search(it, "previous", events, 1 .. n, date)
  BY DEF Search, Toward
<1>3. NextEventsDate(events, date) = DateOrInvalid((CHOOSE it : Next1(it))[1 .. n])
  BY Zenon DEF NextEventsDate, FoldLeft, MapThenFoldSet
<1>4. PreviousEventsDate(events, date) = DateOrInvalid((CHOOSE it : Previous1(it))[1 .. n])
  BY Zenon DEF PreviousEventsDate, FoldLeft, MapThenFoldSet
<1>5. (\E it : Next1(it)) /\ (\E it : Previous1(it))
  BY <1>1, <1>2, SearchExists
<1> HIDE DEF Next1, Previous1
<1>6. Next1(CHOOSE it : Next1(it)) /\ Previous1(CHOOSE it : Previous1(it))
  BY Zenon, <1>5
<1> QED
  BY <1>1, <1>2, <1>3, <1>4, <1>6

\* Whatever was dissociated, the events end after they start and recur at the
\* time of day they began at.
TimingInv ==
  /\ DOMAIN timing = Object
  /\ \A o \in Object : Kind[o] = "Event" => EventTiming(timing[o])

\* To dissociate an occurrence leaves both events with such times.
LEMMA TimingStep == ListInv /\ TimingInv /\ [Next]_vars => TimingInv'
<1> SUFFICES ASSUME ListInv, TimingInv, [Next]_vars PROVE TimingInv'
  OBVIOUS
<1>1. CASE UNCHANGED timing
  BY <1>1 DEF TimingInv, EventTiming
<1>2. ASSUME NEW o \in Object, NEW new \in Slot, NEW t \in timing[o].times,
             DissociateSingleOccurrence(o, t, new)
      PROVE  TimingInv'
  <2> DEFINE left == [timing[o] EXCEPT !.times = @ \ {t}]
             single == Single(Kind[o], timing[o], t)
             moved == [timing[o] EXCEPT !.start = t, !.end = t + (timing[o].end - timing[o].start),
                                        !.recurs = FALSE, !.times = {}, !.until = Invalid,
                                        !.recurrenceId = t]
  <2>1. /\ timing' = [timing EXCEPT ![o] = left, ![new] = single]
        /\ new \in Object /\ o # new /\ Kind[new] = Kind[o]
    BY <1>2, ObjectAssumption DEF DissociateSingleOccurrence
  <2>2. ASSUME Kind[o] = "Event" PROVE EventTiming(left) /\ EventTiming(single)
    <3>1. EventTiming(timing[o])
      BY <2>2 DEF TimingInv
    <3> DEFINE rest == timing[o].times \ {t}
    <3>5. rest \subseteq timing[o].times /\ IsFiniteSet(rest)
      <4>1. IsFiniteSet(timing[o].times)
        BY <3>1 DEF EventTiming
      <4> QED
        BY <4>1, FS_RemoveElement
    <3>2. EventTiming(left)
      <4>1. left = [timing[o] EXCEPT !.times = rest]
        OBVIOUS
      <4> HIDE DEF rest, left
      <4> QED
        BY <3>1, <3>5, <4>1 DEF EventTiming
    <3>3. t \in Nat /\ t + (timing[o].end - timing[o].start) \in Nat
          /\ t <= t + (timing[o].end - timing[o].start)
      BY <1>2, <3>1 DEF EventTiming
    <3>6. single = moved
      <4>1. /\ timing[o].start \in Nat /\ timing[o].end \in Nat /\ t \in Nat
            /\ {"start", "end"} \subseteq DOMAIN timing[o]
        BY <3>1, <3>3 DEF EventTiming
      <4>2. /\ timing[o].start + (t - timing[o].start) = t
            /\ timing[o].end + (t - timing[o].start) = t + (timing[o].end - timing[o].start)
            /\ timing[o].start # Invalid /\ timing[o].end # Invalid
        BY <4>1 DEF Invalid
      <4> QED
        BY <2>2, <4>1, <4>2 DEF Single
    <3>4. EventTiming(single)
      <4>1. EventTiming(moved)
        BY <3>1, <3>3, FS_EmptySet DEF EventTiming
      <4> QED
        BY Zenon, <3>6, <4>1
    <3> QED
      BY <3>2, <3>4
  <2> HIDE DEF left, single, moved
  <2>3. DOMAIN timing' = Object
    BY <2>1 DEF TimingInv
  <2>4. ASSUME NEW p \in Object, Kind[p] = "Event" PROVE EventTiming(timing'[p])
    <3>1. CASE p = new
      BY <2>1, <2>2, <2>4, <3>1 DEF TimingInv
    <3>2. CASE p = o
      BY <2>1, <2>2, <2>4, <3>2 DEF TimingInv
    <3>3. CASE p # new /\ p # o
      BY <2>1, <2>4, <3>3 DEF TimingInv
    <3> QED
      BY <3>1, <3>2, <3>3
  <2> QED
    BY <2>3, <2>4 DEF TimingInv, EventTiming
<1>3. UNCHANGED timing \/ \E o \in Object, new \in Slot : \E t \in timing[o].times : DissociateSingleOccurrence(o, t, new)
  BY DEF Next, vars, Add, AddList, Delete, StartUpdates, Change, EndUpdates, Close
<1> QED
  BY <1>1, <1>2, <1>3

LEMMA TimingInit == Init => TimingInv
BY TimingAssumption DEF Init, TimingInv

\* What the queries see of an event has the times of the event.
LEMMA FullTiming ==
  ASSUME NEW o \in Object, EventTiming(timing[o])
  PROVE  EventTiming(Full(o))
<1>1. \A f \in {"start", "end", "recurs", "times", "until", "recurrenceId"} :
         f \in DOMAIN timing[o] /\ f # "kind"
  BY DEF EventTiming
<1>2. \A f \in {"start", "end", "recurs", "times", "until", "recurrenceId"} :
         f \in DOMAIN Full(o) /\ Full(o)[f] = timing[o][f]
  BY <1>1 DEF Full
<1> QED
  BY <1>2 DEF EventTiming

\* There are finitely many events, whatever their times.
LEMMA RawEventsFinite ==
  ASSUME ListInv, TimingInv
  PROVE  IsFiniteSet(RawEvents) /\ \A e \in RawEvents : EventTiming(e)
<1> DEFINE P == {p \in cal.incidences : Kind[p] = "Event"}
           f == [o \in P |-> Full(o)]
<1>1. P \subseteq Object
  BY DEF ListInv, Known, Calendar
<1>2. IsFiniteSet(P)
  BY <1>1, ObjectAssumption, FS_Subset
<1>3. f \in Surjection(P, RawEvents)
  BY DEF Surjection, RawEvents
<1>4. IsFiniteSet(RawEvents)
  <2> HIDE DEF f, P
  <2> QED
    BY <1>2, <1>3, FS_Surjection
<1>5. \A e \in RawEvents : EventTiming(e)
  BY <1>1, FullTiming DEF RawEvents, TimingInv
<1> QED
  BY <1>4, <1>5

\* A list of all the events gives each of them a place.
LEMMA Listing ==
  ASSUME NEW S, IsFiniteSet(S), NEW events \in SetToAllKPermutations(S), Len(events) = Cardinality(S)
  PROVE  /\ Cardinality(S) \in Nat
         /\ DOMAIN events = 1 .. Cardinality(S)
         /\ S = {events[k] : k \in 1 .. Cardinality(S)}
<1>1. PICK s \in SUBSET S : events \in SetToSeqs(s)
  BY DEF SetToAllKPermutations
<1>2. IsFiniteSet(s) /\ (Cardinality(S) = Cardinality(s) => S = s)
  BY FS_Subset
<1>3. Cardinality(s) \in Nat /\ Cardinality(S) \in Nat
  BY <1>2, FS_CardinalityType
<1> DEFINE n == Cardinality(s)
<1>4. /\ events \in [1 .. n -> s]
      /\ \A i, j \in 1 .. n : i # j => events[i] # events[j]
  BY <1>1 DEF SetToSeqs
<1>5. Len(events) = n
  <2> HIDE DEF n
  <2>1. n \in Nat
    BY <1>3 DEF n
  <2> QED
    BY <1>4, <2>1
<1>6. S = s
  BY <1>2, <1>5
<1>7. events \in Injection(1 .. n, s)
  BY <1>4 DEF Injection, IsInjective
<1>8. Cardinality(1 .. n) = n
  <2>1. n \in Nat
    BY <1>3
  <2> HIDE DEF n
  <2>2. Cardinality(1 .. n) = IF 1 > n THEN 0 ELSE n - 1 + 1
    BY <2>1, FS_Interval
  <2> QED
    BY <2>1, <2>2
<1>9. events \in Surjection(1 .. n, s)
  <2>1. Cardinality(1 .. n) = Cardinality(s) <=> events \in Surjection(1 .. n, s)
    BY <1>2, <1>7, FS_Injection
  <2> QED
    BY <1>8, <2>1
<1>10. s = {events[k] : k \in 1 .. n}
  BY <1>4, <1>9 DEF Surjection
<1> QED
  BY <1>3, <1>4, <1>6, <1>10

\* A midnight that is found is returned as its date.
LEMMA FirstDate ==
  ASSUME NEW D, D \subseteq Nat, NEW rv, IsFirst(rv, D)
  PROVE  DateOrInvalid(rv) = IF D = {} THEN Invalid ELSE Min(D)
<1>1. CASE D = {}
  BY <1>1 DEF IsFirst, DateOrInvalid
<1>2. CASE D # {}
  <2>1. PICK m \in D : rv = Midnight(m) /\ \A d \in D : m <= d
    BY <1>2 DEF IsFirst
  <2>2. rv # Invalid /\ DayOf(rv) = m
    BY <2>1, MidnightOrder, MidnightDay
  <2>3. Min(D) = m
    BY <2>1, MinIs
  <2> QED
    BY <1>2, <2>2, <2>3 DEF DateOrInvalid
<1> QED
  BY <1>1, <1>2

LEMMA LastDate ==
  ASSUME NEW D, D \subseteq Nat, NEW rv, IsLast(rv, D)
  PROVE  DateOrInvalid(rv) = IF D = {} THEN Invalid ELSE Max(D)
<1>1. CASE D = {}
  BY <1>1 DEF IsLast, DateOrInvalid
<1>2. CASE D # {}
  <2>1. PICK m \in D : rv = Midnight(m) /\ \A d \in D : d <= m
    BY <1>2 DEF IsLast
  <2>2. rv # Invalid /\ DayOf(rv) = m
    BY <2>1, MidnightOrder, MidnightDay
  <2>3. Max(D) = m
    BY <2>1, MaxIs
  <2> QED
    BY <1>2, <2>2, <2>3 DEF DateOrInvalid
<1> QED
  BY <1>1, <1>2

\* Both searches are right in each state with such events.
LEMMA NearestInState == ListInv /\ TimingInv => NearestDates
<1> SUFFICES ASSUME ListInv, TimingInv,
                    NEW date \in 1 .. LastDay, NEW events \in SetToAllKPermutations(RawEvents),
                    Len(events) = Cardinality(RawEvents)
             PROVE  /\ (\A e \in RawEvents : ~Ended(e, date)) =>
                          NextEventsDate(events, date) =
                            (IF Later(RawEvents, date) = {} THEN Invalid ELSE Min(Later(RawEvents, date)))
                    /\ PreviousEventsDate(events, date) =
                         (IF Earlier(RawEvents, date) = {} THEN Invalid ELSE Max(Earlier(RawEvents, date)))
  BY DEF NearestDates, Later, Earlier
<1> DEFINE n == Cardinality(RawEvents)
<1>1. IsFiniteSet(RawEvents) /\ \A e \in RawEvents : EventTiming(e)
  BY RawEventsFinite
<1>2. n \in Nat /\ DOMAIN events = 1 .. n /\ RawEvents = {events[k] : k \in 1 .. n}
  BY <1>1, Listing
<1> HIDE DEF n
<1>3. \A k \in 1 .. n : events[k] \in RawEvents /\ EventTiming(events[k])
  BY <1>1, <1>2
<1>4. date \in Nat \ {0}
  BY ObjectAssumption
<1>5. Later(RawEvents, date) \subseteq Nat /\ Earlier(RawEvents, date) \subseteq Nat
  BY <1>1, AllDaysNat DEF Later, Earlier
<1>6. \A k \in 1 .. n : EventTiming(events[k])
  BY <1>3
<1>7. ASSUME \A e \in RawEvents : ~Ended(e, date)
      PROVE  NextEventsDate(events, date) =
               (IF Later(RawEvents, date) = {} THEN Invalid ELSE Min(Later(RawEvents, date)))
  <2>1. PICK it : /\ Search(it, "next", events, 1 .. n, date)
                  /\ NextEventsDate(events, date) = DateOrInvalid(it[1 .. n])
    BY <1>2, SearchIsFold
  <2>2. \A k \in 1 .. n : ~Ended(events[k], date)
    BY <1>3, <1>7
  <2>3. Found("next", it[1 .. n], {events[k] : k \in 1 .. n}, date)
    <3>1. "next" = "next" => \A k \in 1 .. n : ~Ended(events[k], date)
      BY <2>2
    <3> QED
      BY <1>2, <1>4, <1>6, <2>1, <3>1, SearchFinds
  <2>4. IsFirst(it[1 .. n], Later(RawEvents, date))
    BY <1>2, <2>3 DEF Found
  <2> QED
    BY <1>5, <2>1, <2>4, FirstDate
<1>8. PreviousEventsDate(events, date) =
        (IF Earlier(RawEvents, date) = {} THEN Invalid ELSE Max(Earlier(RawEvents, date)))
  <2>1. PICK it : /\ Search(it, "previous", events, 1 .. n, date)
                  /\ PreviousEventsDate(events, date) = DateOrInvalid(it[1 .. n])
    BY <1>2, SearchIsFold
  <2>2. Found("previous", it[1 .. n], {events[k] : k \in 1 .. n}, date)
    <3>1. "previous" = "next" => \A k \in 1 .. n : ~Ended(events[k], date)
      OBVIOUS
    <3> QED
      BY <1>2, <1>4, <1>6, <2>1, <3>1, SearchFinds
  <2>3. IsLast(it[1 .. n], Earlier(RawEvents, date))
    BY <1>2, <2>2 DEF Found
  <2> QED
    BY <1>5, <2>1, <2>3, LastDate
<1> QED
  BY <1>7, <1>8

\* nextEventsDate() and previousEventsDate() return the first later and the last
\* earlier date with an event, for any events in any order: however many, single
\* or recurring, with occurrences taken out, going over any number of midnights.
THEOREM NearestFound == Spec => []NearestDates
<1>1. Init => ListInv /\ TimingInv
  BY ListInit, TimingInit
<1>2. (ListInv /\ TimingInv) /\ [Next]_vars => (ListInv /\ TimingInv)'
  BY ListStep, TimingStep
<1>3. ListInv /\ TimingInv => NearestDates
  BY NearestInState
<1> QED
  BY <1>1, <1>2, <1>3, PTL DEF Spec

-----------------------------------------------------------------------------
(* The expansion of the events by days. *)

\* The days of an event and the times of a window.
LEMMA InWindow ==
  ASSUME NEW t \in Int, NEW first \in Int, NEW last \in Int
  PROVE  /\ DayOf(t) \in Int /\ Midnight(first) \in Int /\ Midnight(last + 1) \in Int
         /\ DayOf(t) >= first <=> t >= Midnight(first)
         /\ DayOf(t) <= last <=> t < Midnight(last + 1)
<1>1. DayOf(t) \in Int /\ Midnight(first) \in Int /\ Midnight(last + 1) \in Int /\ last + 1 \in Int
  BY DayBegins, Product
<1>2. first <= DayOf(t) <=> Midnight(first) <= t
  BY DayOrder
<1>3. last + 1 <= DayOf(t) <=> Midnight(last + 1) <= t
  BY <1>1, DayOrder
<1> QED
  BY <1>1, <1>2, <1>3

\* rawExpandedEvents() takes the wanted occurrences, but for those at the edges.
LEMMA RawIsWanted ==
  ASSUME NEW e, EventTiming(e), NEW first \in Nat, NEW last \in Nat,
         NEW startInclusive \in BOOLEAN, NEW endInclusive \in BOOLEAN,
         NEW t,
         e.recurs => ~(Length(e) = 0 /\ t = Midnight(first)),
         ~e.recurs => t # Midnight(last + 1)
  PROVE  t \in RawExpanded(e, first, last, startInclusive, endInclusive)
           <=> t \in Wanted(e, first, last, startInclusive, endInclusive)
<1> DEFINE from == Midnight(first)
           to == Midnight(last + 1)
           extra == IF IsMultiDay(e) /\ ~startInclusive THEN DayOf(e.end) - DayOf(e.start) ELSE 0
           earliest == from - Midnight(extra)
           early == IF startInclusive THEN DayOf(t) >= first ELSE DayOf(t + Length(e)) >= first
           late == endInclusive => t + Length(e) <= to
<1>1. /\ e.start \in Nat /\ e.end \in Nat /\ e.recurs \in BOOLEAN /\ e.times \subseteq Nat
      /\ ExtraDays(e) \in Nat /\ Times(e) \subseteq Nat
      /\ IsMultiDay(e) \/ ExtraDays(e) = 0
      /\ \A u \in Times(e) : DayOf(u + Length(e)) = DayOf(u) + ExtraDays(e)
      /\ Length(e) \in Nat /\ Length(e) = e.end - e.start
  BY Spans DEF EventTiming, Length
<1>2. SUFFICES ASSUME t \in Times(e)
               PROVE  t \in RawExpanded(e, first, last, startInclusive, endInclusive)
                        <=> t \in Wanted(e, first, last, startInclusive, endInclusive)
  BY DEF RawExpanded, Wanted, Times
<1>3. /\ t \in Int /\ t + Length(e) \in Int /\ from \in Int /\ to \in Int /\ DayOf(t) \in Int
      /\ DayOf(t) >= first <=> t >= from
      /\ DayOf(t) <= last <=> t < to
      /\ DayOf(t + Length(e)) \in Int
      /\ DayOf(t + Length(e)) >= first <=> t + Length(e) >= from
      /\ DayOf(t + Length(e)) <= last <=> t + Length(e) < to
  <2>1. t \in Int /\ t + Length(e) \in Int /\ first \in Int /\ last \in Int
    BY <1>1, <1>2
  <2>2. /\ DayOf(t) \in Int /\ from \in Int /\ to \in Int
        /\ DayOf(t) >= first <=> t >= from
        /\ DayOf(t) <= last <=> t < to
    BY <2>1, InWindow
  <2> DEFINE end == t + Length(e)
  <2>3. end \in Int
    BY <2>1
  <2> HIDE DEF end
  <2>4. /\ DayOf(end) \in Int
        /\ DayOf(end) >= first <=> end >= from
        /\ DayOf(end) <= last <=> end < to
    BY <2>1, <2>3, InWindow
  <2> QED
    BY <2>1, <2>2, <2>4 DEF end
<1>4. DayOf(t + Length(e)) = DayOf(t) + ExtraDays(e)
  BY <1>1, <1>2
<1>5. t \in Wanted(e, first, last, startInclusive, endInclusive) <=> early /\ t < to /\ late
  BY <1>2, <1>3 DEF Wanted
<1>6. CASE e.recurs
  <2>1. t \in RawExpanded(e, first, last, startInclusive, endInclusive) <=>
          earliest <= t /\ t < to /\ t + Length(e) > earliest /\ late
    BY <1>2, <1>6 DEF RawExpanded, Times
  <2>2. early <=> earliest <= t
    <3>1. CASE IsMultiDay(e) /\ ~startInclusive
      <4>1. extra = ExtraDays(e)
        BY <3>1 DEF ExtraDays
      <4>2. Midnight(first - ExtraDays(e)) = from - Midnight(ExtraDays(e)) /\ first - ExtraDays(e) \in Int
        <5>1. first \in Int /\ ExtraDays(e) \in Int
          BY <1>1
        <5>2. \A x \in Int : Midnight(first - x) = Midnight(first) - Midnight(x)
          BY <5>1, Product
        <5> QED
          BY <5>1, <5>2
      <4>3. first - ExtraDays(e) <= DayOf(t) <=> Midnight(first - ExtraDays(e)) <= t
        BY <1>3, <4>2, DayOrder
      <4>4. early <=> DayOf(t) + ExtraDays(e) >= first
        BY <1>4, <3>1
      <4> HIDE DEF early, extra, from
      <4>5. DayOf(t) + ExtraDays(e) >= first <=> first - ExtraDays(e) <= DayOf(t)
        BY <1>1, <1>3
      <4> QED
        BY <4>1, <4>2, <4>3, <4>4, <4>5
    <3>2. CASE ~(IsMultiDay(e) /\ ~startInclusive)
      <4>1. earliest = from
        BY <1>3, <3>2, Product
      <4>2. early <=> DayOf(t) >= first
        BY <1>1, <1>3, <1>4, <3>2
      <4> HIDE DEF early, earliest, from
      <4> QED
        BY <1>3, <4>1, <4>2
    <3> QED
      BY <3>1, <3>2
  <2>3. earliest <= t => t + Length(e) > earliest
    <3>1. CASE Length(e) = 0
      <4>1. ~IsMultiDay(e)
        BY <1>1, <3>1 DEF IsMultiDay
      <4>2. earliest = from
        BY <1>3, <4>1, Product
      <4>3. t # from
        BY <1>6, <3>1
      <4> HIDE DEF earliest, from
      <4> QED
        BY <1>3, <3>1, <4>2, <4>3
    <3>2. CASE Length(e) # 0
      <4>1. extra \in Int
        BY <1>1 DEF ExtraDays
      <4>2. Midnight(extra) \in Int
        BY <4>1, Product
      <4>3. earliest \in Int
        BY <1>3, <4>2
      <4> HIDE DEF earliest
      <4> QED
        BY <1>1, <1>3, <3>2, <4>3
    <3> QED
      BY <3>1, <3>2
  <2> HIDE DEF early, late, earliest, to
  <2> QED
    BY <1>5, <2>1, <2>2, <2>3
<1>7. CASE ~e.recurs
  <2>1. t = e.start /\ t # to /\ t + Length(e) = e.end
    BY <1>1, <1>2, <1>7 DEF Times
  <2>2. CASE IsMultiDay(e)
    <3>1. t \in RawExpanded(e, first, last, startInclusive, endInclusive) <=>
            /\ startInclusive => t >= from
            /\ t <= to /\ e.end >= from
            /\ endInclusive => e.end <= to
      BY <1>7, <2>1, <2>2 DEF RawExpanded
    <3>2. late <=> (endInclusive => e.end <= to)
      BY <2>1
    <3>3. early <=> (startInclusive => t >= from) /\ e.end >= from
      <4>1. CASE startInclusive
        BY <1>1, <1>3, <2>1, <4>1
      <4>2. CASE ~startInclusive
        BY <1>1, <1>3, <2>1, <4>2
      <4> QED
        BY <4>1, <4>2
    <3>4. t <= to <=> t < to
      BY <1>3, <2>1
    <3> HIDE DEF early, late, to, from
    <3> QED
      BY <1>5, <3>1, <3>2, <3>3, <3>4
  <2>3. CASE ~IsMultiDay(e)
    <3>1. t \in RawExpanded(e, first, last, startInclusive, endInclusive) <=> from <= t /\ t <= to
      BY <1>7, <2>1, <2>3 DEF RawExpanded
    <3>2. early <=> from <= t
      BY <1>1, <1>3, <1>4, <2>3
    <3>3. t <= to <=> t < to
      BY <1>3, <2>1
    <3>4. t < to => late
      BY <1>1, <1>3, <1>4, <2>3
    <3> HIDE DEF early, late, to, from
    <3> QED
      BY <1>5, <3>1, <3>2, <3>3, <3>4
  <2> QED
    BY <2>2, <2>3
<1> QED
  BY <1>1, <1>6, <1>7

\* If there is room for more than the first n, these are all.
LEMMA EarliestAll ==
  ASSUME NEW S, S \subseteq Nat, IsFiniteSet(S), NEW n \in Nat, Cardinality(Earliest(S, n)) # n
  PROVE  Earliest(S, n) = S
<1> DEFINE E == Earliest(S, n)
           Before(t) == {u \in S : u < t}
<1>1. E \subseteq S /\ \A t \in S : t \in E <=> Cardinality(Before(t)) < n
  BY DEF Earliest
<1>2. IsFiniteSet(E) /\ Cardinality(E) \in Nat
  BY <1>1, FS_Subset, FS_CardinalityType
<1>3. \A t : IsFiniteSet(Before(t)) /\ Cardinality(Before(t)) \in Nat
  <2> TAKE t
  <2>1. Before(t) \subseteq S
    OBVIOUS
  <2> HIDE DEF Before
  <2> QED
    BY <2>1, FS_Subset, FS_CardinalityType
<1>4. SUFFICES ASSUME S \ E # {} PROVE FALSE
  BY <1>1
<1>5. PICK t \in S \ E : \A u \in S \ E : t <= u
  <2>1. S \ E \subseteq Nat
    OBVIOUS
  <2> QED
    BY <1>4, <2>1, LeastNat
<1>6. \A u \in S : u \in Nat
  OBVIOUS
<1>7. Before(t) \subseteq E
  <2> SUFFICES ASSUME NEW u \in S, u < t, u \notin E PROVE FALSE
    OBVIOUS
  <2>1. t <= u /\ t \in Nat /\ u \in Nat
    BY <1>5, <1>6
  <2> QED
    BY <2>1
<1>8. ~(Cardinality(Before(t)) < n)
  BY <1>1, <1>5
<1>9. \A u \in E : u < t
  <2> SUFFICES ASSUME NEW u \in E, ~(u < t) PROVE FALSE
    OBVIOUS
  <2>1. u \in S /\ Cardinality(Before(u)) < n
    BY <1>1
  <2>2. t < u
    BY <1>5, <1>6, <2>1
  <2>3. Before(t) \subseteq Before(u)
    <3> SUFFICES ASSUME NEW v \in S, v < t PROVE v < u
      OBVIOUS
    <3>1. v \in Nat /\ t \in Nat /\ u \in Nat
      BY <1>5, <1>6, <2>1
    <3> QED
      BY <2>2, <3>1
  <2>4. Cardinality(Before(t)) <= Cardinality(Before(u))
    <3> HIDE DEF Before
    <3> QED
      BY <1>3, <2>3, FS_Subset
  <2> HIDE DEF Before
  <2> QED
    BY <1>3, <1>8, <2>1, <2>4
<1>10. Cardinality(Before(t)) <= Cardinality(E)
  <2> HIDE DEF Before, E
  <2> QED
    BY <1>2, <1>7, FS_Subset
<1>11. Cardinality(E) > n
  <2> HIDE DEF Before
  <2>1. Cardinality(E) # n
    OBVIOUS
  <2> HIDE DEF E
  <2> QED
    BY <1>2, <1>3, <1>8, <1>10, <2>1
<1>12. E # {}
  <2> HIDE DEF E
  <2> QED
    BY <1>11, FS_EmptySet
<1>13. PICK m \in E : \A u \in E : u <= m
  <2>1. E \subseteq Nat /\ t \in Nat
    BY <1>1, <1>5, <1>6
  <2>2. \A u \in E : u <= t
    <3> TAKE u \in E
    <3>1. u \in Nat /\ u < t
      BY <1>9, <2>1
    <3> QED
      BY <2>1, <3>1
  <2> HIDE DEF E
  <2> QED
    BY <1>12, <2>1, <2>2, MaxGreatest
<1>14. E \ {m} \subseteq Before(m)
  <2> SUFFICES ASSUME NEW u \in E, u # m PROVE u \in S /\ u < m
    OBVIOUS
  <2>1. u \in S /\ u \in Nat /\ m \in Nat /\ u <= m
    BY <1>1, <1>6, <1>13
  <2> QED
    BY <2>1
<1>15. Cardinality(Before(m)) < n
  BY <1>1, <1>13
<1> HIDE DEF E, Before
<1>16. Cardinality(E \ {m}) = Cardinality(E) - 1
  BY <1>2, <1>13, FS_RemoveElement
<1>17. Cardinality(E \ {m}) <= Cardinality(Before(m))
  BY <1>3, <1>14, FS_Subset
<1> QED
  BY <1>2, <1>3, <1>11, <1>15, <1>16, <1>17

\* The last occurrence before a time.
LEMMA Previous ==
  ASSUME NEW e, EventTiming(e), NEW x \in Nat
  PROVE  \/ GetPreviousDateTime(e, x) = Invalid /\ \A u \in e.times : ~(u < x)
         \/ /\ GetPreviousDateTime(e, x) \in e.times
            /\ GetPreviousDateTime(e, x) < x
            /\ \A u \in e.times : u < x => u <= GetPreviousDateTime(e, x)
            /\ GetPreviousDateTime(e, x) = Max({u \in e.times : u < x})
<1> DEFINE U == {u \in e.times : u < x}
<1>1. U \subseteq Nat /\ \A u \in U : u <= x
  BY DEF EventTiming
<1>2. GetPreviousDateTime(e, x) = IF U = {} THEN Invalid ELSE Max(U)
  BY DEF GetPreviousDateTime
<1>3. CASE U = {}
  BY <1>2, <1>3
<1>4. CASE U # {}
  <2>1. Max(U) \in U /\ \A u \in U : u <= Max(U)
    <3> HIDE DEF U
    <3> QED
      BY <1>1, <1>4, MaxGreatest
  <2> QED
    BY <1>2, <1>4, <2>1
<1> QED
  BY <1>3, <1>4

\* What takes one of the days of a window begins before the end of the window
\* and ends after its begin.
LEMMA TakenInWindow ==
  ASSUME NEW e, EventTiming(e), NEW t \in Times(e), NEW first \in Nat, NEW last \in Nat,
         NEW d \in first .. last, d \in DaysTaken(e, t)
  PROVE  /\ t < Midnight(last + 1)
         /\ Length(e) = 0 => t >= Midnight(first)
         /\ Length(e) # 0 => t + Length(e) > Midnight(first)
<1> DEFINE z == IF Length(e) = 0 THEN t ELSE t + Length(e) - 1
<1>1. t \in Nat /\ Length(e) \in Nat
  BY Spans DEF EventTiming, Length
<1>2. t \in Int /\ z \in Int /\ first \in Int /\ last \in Int
  BY <1>1
<1>3. /\ DayOf(t) \in Int /\ DayOf(z) \in Int
      /\ DayOf(z) >= first <=> z >= Midnight(first)
      /\ DayOf(t) <= last <=> t < Midnight(last + 1)
  <2> HIDE DEF z
  <2> QED
    BY <1>2, InWindow
<1>4. DayOf(t) <= d /\ d <= DayOf(z) /\ d \in Nat /\ first <= d /\ d <= last
  BY <1>3 DEF DaysTaken
<1>5. t < Midnight(last + 1) /\ z >= Midnight(first)
  <2> HIDE DEF z
  <2> QED
    BY <1>2, <1>3, <1>4
<1>6. Midnight(first) \in Int
  BY <1>2, Product
<1> QED
  BY <1>1, <1>5, <1>6

\* expandRecurrences() finds each occurrence that takes a day of the window and is
\* not overlooked, and those that are overlooked really are.
LEMMA StartsFound ==
  ASSUME NEW e, EventTiming(e), NEW t \in Times(e), NEW first \in Nat, NEW last \in Nat,
         NEW d \in first .. last, NEW maxExpand \in Nat \ {0},
         ~ExpandRecurrences(e, Midnight(first), Midnight(last + 1), maxExpand).limitHit
  PROVE  LET starts == ExpandRecurrences(e, Midnight(first), Midnight(last + 1), maxExpand).starts
         IN  /\ d \in DaysTaken(e, t) /\ ~Overlooked(e, t, first) => t \in starts
             /\ Overlooked(e, t, first) => t \notin starts
<1> DEFINE from == Midnight(first)
           to == Midnight(last + 1)
           all == ExpandRecurrences(e, from, to, maxExpand)
           broken == e.end <= e.start
           begins == /\ e.start < to
                     /\ IF broken THEN e.start > from - 1 ELSE e.end > from
                     /\ e.recurs => e.start \in e.times
           previous == GetPreviousDateTime(e, from)
           before == GetPreviousDateTime(e, previous)
           behind == CASE begins \/ previous = Invalid -> e.start
                       [] ~begins /\ previous # Invalid /\ before = Invalid -> previous
                       [] OTHER -> before
           length == IF broken THEN 1 ELSE Length(e)
           appended == IF begins THEN {e.start} ELSE {}
           later == {u \in e.times : behind < u /\ u < to /\ u > from - length}
           found == IF e.recurs
                    THEN appended \cup Earliest(later, maxExpand - Cardinality(appended))
                    ELSE appended
           Taken == d \in DaysTaken(e, t)
<1>1. /\ e.start \in Nat /\ e.end \in Nat /\ e.start <= e.end /\ e.recurs \in BOOLEAN
      /\ e.times \subseteq Nat /\ IsFiniteSet(e.times) /\ \A u \in e.times : e.start <= u
      /\ Length(e) \in Nat /\ Length(e) = e.end - e.start
      /\ broken <=> Length(e) = 0
      /\ t \in Nat /\ length \in Nat
  BY Spans DEF EventTiming, Length
<1>2. from \in Nat /\ to \in Int
  <2>1. first \in Nat /\ last + 1 \in Int
    OBVIOUS
  <2>2. from \in Int /\ from >= 0 /\ to \in Int
    BY <2>1, MidnightOrder
  <2> HIDE DEF from, to
  <2> QED
    BY <2>2
<1>3. all.starts = found /\ (all.limitHit <=> e.recurs /\ Cardinality(found) = maxExpand)
  BY DEF ExpandRecurrences
<1>4. Taken => t < to /\ t > from - length
  <2>1. Taken => /\ t < to
                 /\ Length(e) = 0 => t >= from
                 /\ Length(e) # 0 => t + Length(e) > from
    BY TakenInWindow
  <2> HIDE DEF Taken, to, from
  <2> QED
    BY <1>1, <1>2, <2>1
<1>5. ASSUME e.recurs PROVE all.starts = appended \cup later
  <2>1. later \subseteq e.times /\ (begins => e.start \notin later)
    BY <1>1
  <2>2. later \subseteq Nat /\ IsFiniteSet(later)
    <3> HIDE DEF later
    <3> QED
      BY <1>1, <2>1, FS_Subset
  <2> DEFINE n == maxExpand - Cardinality(appended)
             E == Earliest(later, n)
  <2>3. E \subseteq later /\ IsFiniteSet(E)
    <3>1. E \subseteq later
      BY DEF Earliest
    <3> HIDE DEF E, later
    <3> QED
      BY <2>2, <3>1, FS_Subset
  <2>4. n \in Nat /\ Cardinality(E) # n
    <3>1. Cardinality(found) # maxExpand
      BY <1>3, <1>5
    <3>2. found = appended \cup E
      BY <1>5
    <3> HIDE DEF found
    <3>3. CASE begins
      <4>1. appended = {e.start} /\ e.start \notin E
        BY <2>1, <2>3, <3>3
      <4>2. Cardinality(appended) = 1
        BY <4>1, FS_Singleton
      <4>3. Cardinality(E \cup {e.start}) = Cardinality(E) + 1
        <5> HIDE DEF E
        <5> QED
          BY <2>3, <4>1, FS_AddElement
      <4>4. found = E \cup {e.start}
        BY <3>2, <4>1
      <4>5. Cardinality(E) \in Nat
        BY <2>3, FS_CardinalityType
      <4>6. n = maxExpand - 1
        BY <4>2
      <4> HIDE DEF E, n
      <4> QED
        BY <3>1, <4>3, <4>4, <4>5, <4>6
    <3>4. CASE ~begins
      <4>1. appended = {}
        BY <3>4
      <4>2. Cardinality(appended) = 0 /\ found = E
        BY <3>2, <4>1, FS_EmptySet
      <4>3. n = maxExpand
        BY <4>2
      <4> HIDE DEF E, n
      <4> QED
        BY <3>1, <4>2, <4>3
    <3> QED
      BY <3>3, <3>4
  <2>5. E = later
    <3> HIDE DEF n, later
    <3> QED
      BY <2>2, <2>4, EarliestAll
  <2> QED
    BY <1>3, <1>5, <2>5
<1> HIDE DEF all
<1>6. CASE ~e.recurs
  <2>1. t = e.start /\ ~Overlooked(e, t, first)
    BY <1>6 DEF Times, Overlooked
  <2>2. all.starts = appended
    BY <1>3, <1>6
  <2>3. Taken => begins
    BY <1>1, <1>2, <1>4, <1>6, <2>1
  <2> QED
    BY <2>1, <2>2, <2>3 DEF all
<1>7. CASE e.recurs /\ begins
  <2>1. all.starts = {e.start} \cup later /\ behind = e.start /\ t \in e.times
    BY <1>5, <1>7 DEF Times
  <2>2. Taken => t \in all.starts
    BY <1>1, <1>4, <2>1
  <2>3. ~Overlooked(e, t, first)
    <3> SUFFICES ASSUME Overlooked(e, t, first) PROVE FALSE
      OBVIOUS
    <3>1. t < from /\ ~(e.start \in e.times /\ e.end > from)
      BY DEF Overlooked
    <3>2. e.start <= t
      BY <1>1, <2>1
    <3> QED
      BY <1>1, <1>2, <1>7, <3>1, <3>2
  <2> QED
    BY <2>2, <2>3 DEF all
<1>8. CASE e.recurs /\ ~begins /\ previous = Invalid
  <2>1. /\ all.starts = later /\ behind = e.start /\ t \in e.times
        /\ e.start <= t
    BY <1>1, <1>5, <1>8 DEF Times
  <2>2. \A u \in e.times : ~(u < from)
    <3>1. \A u \in e.times : u \in Nat /\ u # Invalid
      BY <1>1 DEF Invalid
    <3> QED
      BY <1>2, <1>8, <3>1, Previous
  <2>3. Taken => t # e.start
    BY <1>1, <1>2, <1>4, <1>8, <2>1, <2>2
  <2>4. Taken => t \in all.starts
    BY <1>1, <1>4, <2>1, <2>3
  <2>5. ~Overlooked(e, t, first)
    BY <2>1, <2>2 DEF Overlooked
  <2> QED
    BY <2>4, <2>5 DEF all
<1>9. CASE e.recurs /\ ~begins /\ previous # Invalid
  <2>1. all.starts = later /\ t \in e.times /\ e.start <= t
    BY <1>1, <1>5, <1>9 DEF Times
  <2>2. /\ previous \in e.times /\ previous < from /\ previous \in Nat
        /\ \A u \in e.times : u < from => u <= previous
        /\ previous = Max({u \in e.times : u < from})
    BY <1>1, <1>2, <1>9, Previous
  <2>3. \/ before = Invalid /\ \A u \in e.times : ~(u < previous)
        \/ before \in e.times /\ before < previous /\ \A u \in e.times : u < previous => u <= before
    <3> HIDE DEF previous
    <3> QED
      BY <2>2, Previous
  <2>4. behind = IF before = Invalid THEN previous ELSE before
    BY <1>9
  <2>5. before # Invalid => before \in e.times /\ before \in Nat /\ before < previous
                            /\ \A u \in e.times : u < previous => u <= before
    BY <1>1, <2>3
  <2>6. before = Invalid => \A u \in e.times : ~(u < previous)
    <3>1. \A u \in e.times : u \in Nat /\ u # Invalid
      BY <1>1 DEF Invalid
    <3> QED
      BY <2>3, <3>1
  <2>7. Overlooked(e, t, first) <=> /\ t < from /\ (t = Min(e.times) \/ t # previous)
                                    /\ ~(e.start \in e.times /\ e.end > from)
    BY <1>9, <2>1, <2>2 DEF Overlooked
  <2>8. t = Min(e.times) <=> \A u \in e.times : t <= u
    <3>1. (\A u \in e.times : t <= u) => t = Min(e.times)
      BY <1>1, <2>1, MinIs
    <3>2. \A u \in e.times : Min(e.times) <= u
      BY <1>1, <2>1, MinLeast
    <3> QED
      BY <3>1, <3>2
  <2> HIDE DEF previous, before, behind
  <2>9. ASSUME Taken, ~Overlooked(e, t, first) PROVE t \in all.starts
    <3>1. CASE t >= from
      <4>1. behind < t
        BY <1>1, <1>2, <2>1, <2>2, <2>4, <2>5, <3>1
      <4> QED
        BY <1>4, <2>1, <2>9, <4>1
    <3>2. CASE t < from
      <4>1. ~(e.start \in e.times /\ e.end > from)
        BY <1>1, <1>2, <1>4, <1>9, <2>1, <2>9, <3>2
      <4>2. t = previous /\ t # Min(e.times)
        BY <2>7, <2>9, <3>2, <4>1
      <4>3. PICK u \in e.times : ~(t <= u)
        BY <2>8, <4>2
      <4>4. u < previous
        BY <1>1, <4>2, <4>3
      <4>5. behind = before /\ before < t
        BY <2>4, <2>5, <2>6, <4>2, <4>4
      <4> QED
        BY <1>4, <2>1, <2>9, <4>5
    <3> QED
      BY <1>1, <1>2, <3>1, <3>2
  <2>10. ASSUME Overlooked(e, t, first) PROVE t \notin all.starts
    <3>1. t < from /\ (t = Min(e.times) \/ t # previous) /\ t <= previous
      BY <2>1, <2>2, <2>7, <2>10
    <3>2. t <= behind
      <4>1. CASE before = Invalid
        BY <2>4, <3>1, <4>1
      <4>2. CASE before # Invalid
        <5>1. t < previous => t <= before
          BY <2>1, <2>5, <4>2
        <5>2. t = Min(e.times) => t <= before
          BY <2>5, <2>8, <4>2
        <5>3. t < previous \/ t = previous
          BY <1>1, <2>2, <3>1
        <5> QED
          BY <2>4, <3>1, <4>2, <5>1, <5>2, <5>3
      <4> QED
        BY <4>1, <4>2
    <3>3. behind \in Int
      BY <2>2, <2>4, <2>5
    <3> QED
      BY <1>1, <2>1, <3>2, <3>3
  <2> QED
    BY <2>9, <2>10 DEF all
<1> QED
  BY <1>1, <1>6, <1>7, <1>8, <1>9

\* expandMultiDay() counts the days of the event, each occurrence takes as many.
LEMMA DaysTakenAre ==
  ASSUME NEW e, EventTiming(e), NEW t \in Times(e)
  PROVE  /\ DayOf(t) \in Int /\ DayOf(t + Length(e)) \in Int
         /\ IsMultiDay(e) => DaysTaken(e, t) = DayOf(t) .. DayOf(t) + Days(e) - 1
         /\ ~IsMultiDay(e) => DaysTaken(e, t) = {DayOf(t)}
         /\ \A d \in DaysTaken(e, t) : d \in Int /\ d >= DayOf(t) /\ Midnight(d) <= t + Length(e)
<1> DEFINE z == IF Length(e) = 0 THEN t ELSE t + Length(e) - 1
<1>1. /\ e.start \in Nat /\ e.end \in Nat /\ e.start <= e.end
      /\ t \in Nat /\ t \in Int /\ Length(e) \in Nat /\ Length(e) = e.end - e.start
      /\ t % DayLength = e.start % DayLength
      /\ z \in Int /\ z <= t + Length(e) /\ t <= z
  BY Spans DEF EventTiming, Length, Times
<1>2. DayOf(t) \in Int /\ DayOf(z) \in Int /\ DayOf(t + Length(e)) \in Int
  <2>1. t + Length(e) \in Int
    BY <1>1
  <2> DEFINE end == t + Length(e)
  <2> HIDE DEF z, end
  <2>2. DayOf(t) \in Int /\ DayOf(z) \in Int
    BY <1>1, DayBegins
  <2>3. DayOf(end) \in Int
    BY <2>1, DayBegins DEF end
  <2> QED
    BY <2>2, <2>3 DEF end
<1>3. DaysTaken(e, t) = DayOf(t) .. DayOf(z)
  BY DEF DaysTaken
<1>4. ASSUME IsMultiDay(e) PROVE DayOf(z) = DayOf(t) + Days(e) - 1
  <2>1. e.start < e.end
    BY <1>4 DEF IsMultiDay
  <2>2. z = t + ((e.end - 1) - e.start) /\ e.end - 1 \in Int /\ e.start \in Int
    BY <1>1, <2>1
  <2>3. DayOf(t + ((e.end - 1) - e.start)) = DayOf(t) + (DayOf(e.end - 1) - DayOf(e.start))
    BY <1>1, <2>2, SameSpan
  <2>4. DayOf(e.end - 1) \in Int /\ DayOf(e.start) \in Int
    BY <2>2, DayBegins
  <2> HIDE DEF z
  <2> QED
    BY <1>2, <2>2, <2>3, <2>4 DEF Days
<1>5. ASSUME ~IsMultiDay(e) PROVE DayOf(z) = DayOf(t)
  <2>1. DayOf(t + Length(e)) = DayOf(t) + ExtraDays(e) /\ ExtraDays(e) = 0
    BY <1>5, Spans
  <2>2. DayOf(t + Length(e)) = DayOf(t)
    BY <1>2, <2>1
  <2>3. DayOf(t) <= DayOf(z)
    <3>1. DayOf(t) <= DayOf(t) <=> Midnight(DayOf(t)) <= t
      BY <1>1, <1>2, DayOrder
    <3>2. DayOf(t) <= DayOf(z) <=> Midnight(DayOf(t)) <= z
      BY <1>1, <1>2, DayOrder
    <3>3. Midnight(DayOf(t)) \in Int
      BY <1>2, Product
    <3> HIDE DEF z
    <3> QED
      BY <1>1, <1>2, <3>1, <3>2, <3>3
  <2>4. DayOf(z) <= DayOf(t + Length(e))
    <3> DEFINE end == t + Length(e)
    <3>1. end \in Int /\ z <= end /\ DayOf(end) \in Int
      BY <1>1, <1>2
    <3> HIDE DEF z, end
    <3>2. DayOf(z) <= DayOf(z) <=> Midnight(DayOf(z)) <= z
      BY <1>1, <1>2, DayOrder
    <3>3. DayOf(z) <= DayOf(end) <=> Midnight(DayOf(z)) <= end
      BY <1>2, <3>1, DayOrder
    <3>4. Midnight(DayOf(z)) \in Int
      BY <1>2, Product
    <3>5. DayOf(z) <= DayOf(end)
      BY <1>1, <1>2, <3>1, <3>2, <3>3, <3>4
    <3> QED
      BY <3>5 DEF end
  <2> HIDE DEF z
  <2> QED
    BY <1>2, <2>2, <2>3, <2>4
<1>6. ASSUME NEW d \in DaysTaken(e, t) PROVE d \in Int /\ d >= DayOf(t) /\ Midnight(d) <= t + Length(e)
  <2> HIDE DEF z
  <2>1. d \in Int /\ DayOf(t) <= d /\ d <= DayOf(z)
    BY <1>2, <1>3
  <2>2. d <= DayOf(z) <=> Midnight(d) <= z
    BY <1>1, <2>1, DayOrder
  <2>3. Midnight(d) \in Int
    BY <2>1, Product
  <2> QED
    BY <1>1, <2>1, <2>2, <2>3
<1>7. ~IsMultiDay(e) => DaysTaken(e, t) = {DayOf(t)}
  BY <1>2, <1>3, <1>5
<1> QED
  BY <1>2, <1>3, <1>4, <1>6, <1>7

\* When the entry of day d begins.
EntryStart(t, d) == IF d = DayOf(t) THEN t ELSE Midnight(d)

\* A day that an occurrence takes has one entry, another day has none.
LEMMA EntriesOfDay ==
  ASSUME NEW e, EventTiming(e), NEW t \in Times(e), NEW first \in Nat, NEW last \in Nat,
         NEW d \in first .. last, NEW maxExpand \in Nat \ {0}
  PROVE  LET expanded == ExpandMultiDay(e, t, first, last, maxExpand)
             there == {x \in expanded.entries : DayOf(x.start) = d}
             entry == [start |-> EntryStart(t, d), end |-> IncidenceEndTime(e, EntryStart(t, d))]
         IN  /\ there \subseteq {entry}
             /\ there # {} => d \in DaysTaken(e, t)
             /\ ~expanded.limitHit /\ d \in DaysTaken(e, t) => there = {entry}
<1> DEFINE entry(x) == IF x = DayOf(t) THEN Midnight(x) + (e.start % DayLength) ELSE Midnight(x)
           days == {x \in DayOf(t) .. DayOf(t) + Days(e) - 1 : first <= x /\ x <= last}
           begins == {entry(x) : x \in days}
           starts == IF IsMultiDay(e) THEN Earliest(begins, maxExpand + 1)
                     ELSE {u \in {t} : OnDays(u, first, last)}
           expanded == ExpandMultiDay(e, t, first, last, maxExpand)
           there == {x \in expanded.entries : DayOf(x.start) = d}
           entryAt(u) == [start |-> u, end |-> IncidenceEndTime(e, u)]
<1>1. /\ expanded.entries = {entryAt(u) : u \in starts}
      /\ expanded.limitHit <=> IsMultiDay(e) /\ Cardinality(starts) = maxExpand + 1
  BY DEF ExpandMultiDay
<1>2. t \in Nat /\ t \in Int /\ DayOf(t) \in Int /\ DayOf(t) >= 0
  <2>1. t \in Nat /\ t \in Int
    BY Spans
  <2>2. DayOf(t) \in Int /\ (0 <= DayOf(t) <=> Midnight(0) <= t) /\ Midnight(0) = 0
    BY <2>1, DayBegins, DayOrder, Product
  <2> QED
    BY <2>1, <2>2
<1>3. /\ d \in Nat /\ first <= d /\ d <= last
      /\ IsMultiDay(e) => DaysTaken(e, t) = DayOf(t) .. DayOf(t) + Days(e) - 1
      /\ ~IsMultiDay(e) => DaysTaken(e, t) = {DayOf(t)}
  BY DaysTakenAre
<1> HIDE DEF expanded
<1>4. there = {entryAt(u) : u \in {v \in starts : DayOf(v) = d}}
  <2>1. \A u : entryAt(u).start = u
    OBVIOUS
  <2> HIDE DEF entryAt, starts
  <2>2. \A x : x \in there <=> \E u \in starts : x = entryAt(u) /\ DayOf(u) = d
    BY <1>1, <2>1
  <2>3. \A x : x \in {entryAt(u) : u \in {v \in starts : DayOf(v) = d}}
                <=> \E u \in starts : x = entryAt(u) /\ DayOf(u) = d
    OBVIOUS
  <2> HIDE DEF there
  <2> QED
    BY <2>2, <2>3
<1> HIDE DEF there
<1>5. SUFFICES /\ \A u \in starts : DayOf(u) = d => u = EntryStart(t, d) /\ d \in DaysTaken(e, t)
               /\ ~expanded.limitHit /\ d \in DaysTaken(e, t) =>
                    EntryStart(t, d) \in starts /\ DayOf(EntryStart(t, d)) = d
  <2> HIDE DEF starts
  <2>1. there \subseteq {entryAt(EntryStart(t, d))} /\ (there # {} => d \in DaysTaken(e, t))
    BY <1>4, <1>5
  <2>2. ASSUME ~expanded.limitHit, d \in DaysTaken(e, t) PROVE there = {entryAt(EntryStart(t, d))}
    <3>1. entryAt(EntryStart(t, d)) \in there
      BY <1>4, <1>5, <2>2
    <3> QED
      BY <2>1, <3>1
  <2> QED
    BY <2>1, <2>2 DEF there, expanded
<1>6. CASE ~IsMultiDay(e)
  <2>1. \A u : u \in starts <=> u = t /\ first <= DayOf(t) /\ DayOf(t) <= last
    BY <1>6 DEF OnDays
  <2> HIDE DEF starts
  <2> QED
    BY <1>3, <1>6, <2>1 DEF EntryStart
<1>7. CASE IsMultiDay(e)
  <2>1. days \subseteq Nat /\ (d \in DaysTaken(e, t) => d \in days) /\ days \subseteq DaysTaken(e, t)
    BY <1>3, <1>7
  <2>2. ASSUME NEW x \in days
        PROVE  /\ entry(x) = EntryStart(t, x) /\ DayOf(EntryStart(t, x)) = x
               /\ EntryStart(t, x) \in Nat
    <3>1. Midnight(DayOf(t)) + (e.start % DayLength) = t
      <4>1. t % DayLength = e.start % DayLength
        BY DEF EventTiming, Times
      <4> QED
        BY <1>2, <4>1, DayBegins
    <3>2. x \in Int /\ x \in Nat
      BY <2>1
    <3>3. DayOf(Midnight(x)) = x /\ Midnight(x) \in Nat
      <4>1. Midnight(x) \in Int /\ Midnight(x) >= 0
        BY <3>2, MidnightOrder
      <4> QED
        BY <3>2, <4>1, MidnightDay
    <3> QED
      BY <1>2, <3>1, <3>3 DEF EntryStart
  <2>3. begins \subseteq Nat /\ IsFiniteSet(begins)
    <3>1. begins \subseteq Nat
      BY <2>2
    <3> DEFINE f == [x \in days |-> entry(x)]
    <3>2. f \in Surjection(days, begins)
      BY DEF Surjection
    <3>3. IsFiniteSet(days)
      <4>1. days \subseteq first .. last
        BY <2>1
      <4>2. IsFiniteSet(first .. last)
        BY FS_Interval
      <4> HIDE DEF days
      <4> QED
        BY <4>1, <4>2, FS_Subset
    <3> HIDE DEF f, days, begins
    <3> QED
      BY <3>1, <3>2, <3>3, FS_Surjection
  <2>4. starts \subseteq begins
    BY <1>7 DEF Earliest
  <2>5. ~expanded.limitHit => starts = begins
    <3>1. SUFFICES ASSUME ~expanded.limitHit PROVE starts = begins
      OBVIOUS
    <3>2. starts = Earliest(begins, maxExpand + 1) /\ Cardinality(starts) # maxExpand + 1
      BY <1>1, <1>7, <3>1
    <3>3. maxExpand + 1 \in Nat
      OBVIOUS
    <3> HIDE DEF starts, begins
    <3> QED
      BY <2>3, <3>2, <3>3, EarliestAll
  <2>6. \A u \in starts : DayOf(u) = d => u = EntryStart(t, d) /\ d \in DaysTaken(e, t)
    <3> SUFFICES ASSUME NEW u \in starts, DayOf(u) = d PROVE u = EntryStart(t, d) /\ d \in DaysTaken(e, t)
      OBVIOUS
    <3>1. PICK x \in days : u = entry(x)
      BY <2>4
    <3>2. x = d
      BY <2>2, <3>1
    <3> QED
      BY <2>1, <2>2, <3>1, <3>2
  <2>7. ~expanded.limitHit /\ d \in DaysTaken(e, t) => EntryStart(t, d) \in starts /\ DayOf(EntryStart(t, d)) = d
    <3> SUFFICES ASSUME ~expanded.limitHit, d \in DaysTaken(e, t)
                 PROVE  EntryStart(t, d) \in starts /\ DayOf(EntryStart(t, d)) = d
      OBVIOUS
    <3>1. d \in days /\ starts = begins
      BY <2>1, <2>5
    <3>2. entry(d) \in begins /\ entry(d) = EntryStart(t, d) /\ DayOf(EntryStart(t, d)) = d
      BY <2>2, <3>1
    <3> HIDE DEF entry, begins, starts
    <3> QED
      BY <3>1, <3>2
  <2> HIDE DEF starts
  <2> QED
    BY <2>6, <2>7
<1> QED
  BY <1>6, <1>7

\* An entry does not end before it starts, and on the last day of an occurrence it
\* ends with it.
LEMMA EntryEnds ==
  ASSUME NEW e, EventTiming(e), NEW t \in Times(e), NEW u \in Nat, t <= u, u <= t + Length(e)
  PROVE  /\ u <= IncidenceEndTime(e, u)
         /\ DayOf(u) = DayOf(t + Length(e)) /\ ~(\E v \in Times(e) : t < v /\ v <= u) =>
              IncidenceEndTime(e, u) = t + Length(e)
<1> DEFINE start == IF e.recurs THEN GetPreviousDateTime(e, u + 1) ELSE e.start
           end == start + Length(e)
<1>1. IncidenceEndTime(e, u) = IF DayOf(end) = DayOf(u) THEN end ELSE Midnight(DayOf(end) + 1) - 1
  BY DEF IncidenceEndTime
<1>2. t \in Nat /\ Length(e) \in Nat /\ e.recurs \in BOOLEAN /\ e.times \subseteq Nat
  BY Spans DEF EventTiming, Length
<1>3. start \in Nat /\ t <= start /\ start \in Times(e) /\ start <= u
  <2>1. CASE ~e.recurs
    BY <1>2, <2>1 DEF Times
  <2>2. CASE e.recurs
    <3>1. t \in e.times /\ t < u + 1 /\ u + 1 \in Nat
      BY <1>2, <2>2 DEF Times
    <3>2. /\ GetPreviousDateTime(e, u + 1) \in e.times /\ GetPreviousDateTime(e, u + 1) < u + 1
          /\ t <= GetPreviousDateTime(e, u + 1)
      BY <3>1, Previous
    <3> QED
      BY <1>2, <2>2, <3>2 DEF Times
  <2> QED
    BY <1>2, <2>1, <2>2
<1> HIDE DEF start
<1>4. end \in Int /\ t + Length(e) <= end /\ u <= end
  BY <1>2, <1>3
<1>5. (start = t => end = t + Length(e)) /\ (~(\E v \in Times(e) : t < v /\ v <= u) => start = t)
  BY <1>2, <1>3
<1> HIDE DEF end
<1>6. end <= Midnight(DayOf(end) + 1) - 1
  <2>1. DayOf(end) \in Int
    BY <1>4, DayBegins
  <2>2. DayOf(end) <= DayOf(end) <=> end < Midnight(DayOf(end) + 1)
    BY <1>4, <2>1, InWindow
  <2>3. Midnight(DayOf(end) + 1) \in Int
    BY <2>1, Product
  <2> QED
    BY <1>4, <2>1, <2>2, <2>3
<1>7. u <= IncidenceEndTime(e, u)
  <2>1. Midnight(DayOf(end) + 1) \in Int
    <3>1. DayOf(end) + 1 \in Int
      BY <1>4, DayBegins
    <3> QED
      BY <3>1, Product
  <2> QED
    BY <1>1, <1>4, <1>6, <2>1
<1> QED
  BY <1>1, <1>5, <1>7

\* Both hold in each state with such events.
LEMMA DaysInState == ListInv /\ TimingInv => DaysAreExpanded
<1> SUFFICES ASSUME ListInv, TimingInv, NEW e \in RawEvents,
                    NEW first \in 1 .. LastDay, NEW last \in 1 .. LastDay,
                    NEW maxExpand \in Limit
             PROVE
    LET all == ExpandRecurrences(e, Midnight(first), Midnight(last + 1), maxExpand)
        expanded(t) == ExpandMultiDay(e, t, first, last, maxExpand)
        edge == IF ~e.recurs THEN {Midnight(last + 1)} ELSE IF Length(e) = 0 THEN {Midnight(first)} ELSE {}
    IN  /\ \A startInclusive, endInclusive \in BOOLEAN :
             RawExpanded(e, first, last, startInclusive, endInclusive) \ edge
               = Wanted(e, first, last, startInclusive, endInclusive) \ edge
        /\ \A t \in Times(e) : \A d \in first .. last :
             LET there == {x \in IF t \in all.starts THEN expanded(t).entries ELSE {} : DayOf(x.start) = d}
             IN  /\ ~all.limitHit /\ ~expanded(t).limitHit =>
                      Cardinality(there) = IF d \in DaysTaken(e, t) /\ ~Overlooked(e, t, first) THEN 1 ELSE 0
                 /\ \A x \in there :
                      /\ x.start <= x.end
                      /\ d = DayOf(t + Length(e)) /\ ~(\E u \in Times(e) : t < u /\ u <= x.start) =>
                           x.end = t + Length(e)
  BY DEF DaysAreExpanded
<1> DEFINE all == ExpandRecurrences(e, Midnight(first), Midnight(last + 1), maxExpand)
           expanded(t) == ExpandMultiDay(e, t, first, last, maxExpand)
           edge == IF ~e.recurs THEN {Midnight(last + 1)} ELSE IF Length(e) = 0 THEN {Midnight(first)} ELSE {}
<1>1. EventTiming(e)
  BY RawEventsFinite
<1>2. first \in Nat /\ last \in Nat /\ maxExpand \in Nat \ {0} /\ e.recurs \in BOOLEAN
  BY <1>1, ObjectAssumption DEF EventTiming
<1>3. ASSUME NEW startInclusive \in BOOLEAN, NEW endInclusive \in BOOLEAN
      PROVE  RawExpanded(e, first, last, startInclusive, endInclusive) \ edge
               = Wanted(e, first, last, startInclusive, endInclusive) \ edge
  <2> DEFINE A == RawExpanded(e, first, last, startInclusive, endInclusive)
             B == Wanted(e, first, last, startInclusive, endInclusive)
  <2>1. ASSUME NEW t, t \notin edge PROVE t \in A <=> t \in B
    <3>1. (e.recurs => ~(Length(e) = 0 /\ t = Midnight(first))) /\ (~e.recurs => t # Midnight(last + 1))
      BY <1>2, <2>1
    <3> QED
      BY <1>1, <1>2, <3>1, RawIsWanted
  <2> HIDE DEF A, B, edge
  <2>2. A \ edge = B \ edge
    BY <2>1
  <2> QED
    BY <2>2 DEF A, B
<1>4. ASSUME NEW t \in Times(e), NEW d \in first .. last
      PROVE  LET there == {x \in IF t \in all.starts THEN expanded(t).entries ELSE {} : DayOf(x.start) = d}
             IN  /\ ~all.limitHit /\ ~expanded(t).limitHit =>
                      Cardinality(there) = IF d \in DaysTaken(e, t) /\ ~Overlooked(e, t, first) THEN 1 ELSE 0
                 /\ \A x \in there :
                      /\ x.start <= x.end
                      /\ d = DayOf(t + Length(e)) /\ ~(\E u \in Times(e) : t < u /\ u <= x.start) =>
                           x.end = t + Length(e)
  <2> DEFINE there == {x \in IF t \in all.starts THEN expanded(t).entries ELSE {} : DayOf(x.start) = d}
             entries == {x \in expanded(t).entries : DayOf(x.start) = d}
             entry == [start |-> EntryStart(t, d), end |-> IncidenceEndTime(e, EntryStart(t, d))]
  <2>1. /\ entries \subseteq {entry}
        /\ entries # {} => d \in DaysTaken(e, t)
        /\ ~expanded(t).limitHit /\ d \in DaysTaken(e, t) => entries = {entry}
    BY <1>1, <1>2, EntriesOfDay
  <2>2. there = IF t \in all.starts THEN entries ELSE {}
    OBVIOUS
  <2>3. ~all.limitHit =>
          /\ d \in DaysTaken(e, t) /\ ~Overlooked(e, t, first) => t \in all.starts
          /\ Overlooked(e, t, first) => t \notin all.starts
    BY <1>1, <1>2, StartsFound
  <2>4. ASSUME d \in DaysTaken(e, t)
        PROVE  /\ entry.start <= entry.end
               /\ d = DayOf(t + Length(e)) /\ ~(\E u \in Times(e) : t < u /\ u <= entry.start) =>
                    entry.end = t + Length(e)
    <3> DEFINE u == EntryStart(t, d)
    <3>1. /\ DayOf(t) \in Int /\ d \in Int /\ d >= DayOf(t) /\ Midnight(d) <= t + Length(e)
      BY <1>1, <2>4, DaysTakenAre
    <3>2. t \in Nat /\ Length(e) \in Nat
      BY <1>1, Spans DEF EventTiming, Length
    <3>3. u \in Nat /\ t <= u /\ u <= t + Length(e) /\ DayOf(u) = d
      <4>1. CASE d = DayOf(t)
        BY <3>2, <4>1 DEF EntryStart
      <4>2. CASE d # DayOf(t)
        <5>1. u = Midnight(d) /\ Midnight(d) \in Int /\ DayOf(Midnight(d)) = d
          BY <3>1, <4>2, Product, MidnightDay DEF EntryStart
        <5>2. ~(d <= DayOf(t)) /\ (d <= DayOf(t) <=> Midnight(d) <= t)
          BY <3>1, <3>2, <4>2, DayOrder
        <5> QED
          BY <3>1, <3>2, <5>1, <5>2
      <4> QED
        BY <4>1, <4>2
    <3>4. entry.start = u /\ entry.end = IncidenceEndTime(e, u)
      OBVIOUS
    <3> HIDE DEF entry, u
    <3>5. /\ u <= IncidenceEndTime(e, u)
          /\ DayOf(u) = DayOf(t + Length(e)) /\ ~(\E v \in Times(e) : t < v /\ v <= u) =>
               IncidenceEndTime(e, u) = t + Length(e)
      BY <1>1, <3>3, EntryEnds
    <3> QED
      BY <3>3, <3>4, <3>5
  <2> HIDE DEF entry, entries, all, expanded, there
  <2>5. \A x \in there : x = entry /\ d \in DaysTaken(e, t)
    BY <2>1, <2>2
  <2>6. ASSUME ~all.limitHit, ~expanded(t).limitHit
        PROVE  Cardinality(there) = IF d \in DaysTaken(e, t) /\ ~Overlooked(e, t, first) THEN 1 ELSE 0
    <3>1. CASE d \in DaysTaken(e, t) /\ ~Overlooked(e, t, first)
      <4>1. there = {entry}
        BY <2>1, <2>2, <2>3, <2>6, <3>1
      <4> QED
        BY <3>1, <4>1, FS_Singleton
    <3>2. CASE ~(d \in DaysTaken(e, t) /\ ~Overlooked(e, t, first))
      <4>1. there = {}
        BY <2>1, <2>2, <2>3, <2>6, <3>2
      <4> QED
        BY <3>2, <4>1, FS_EmptySet
    <3> QED
      BY <3>1, <3>2
  <2>7. \A x \in there :
          /\ x.start <= x.end
          /\ d = DayOf(t + Length(e)) /\ ~(\E u \in Times(e) : t < u /\ u <= x.start) =>
               x.end = t + Length(e)
    BY <2>4, <2>5
  <2> QED
    BY <2>6, <2>7 DEF there, all, expanded
<1> QED
  BY <1>3, <1>4

\* Each day of each occurrence has one entry in what expandRecurrences() and
\* expandMultiDay() return, and rawExpandedEvents() returns the wanted occurrences,
\* for any events, days and limits; the exceptions are exactly those named.
THEOREM DaysExpanded == Spec => []DaysAreExpanded
<1>1. Init => ListInv /\ TimingInv
  BY ListInit, TimingInit
<1>2. (ListInv /\ TimingInv) /\ [Next]_vars => (ListInv /\ TimingInv)'
  BY ListStep, TimingStep
<1>3. ListInv /\ TimingInv => DaysAreExpanded
  BY DaysInState
<1> QED
  BY <1>1, <1>2, <1>3, PTL DEF Spec

=============================================================================
