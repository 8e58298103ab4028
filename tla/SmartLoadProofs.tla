--------------------------- MODULE SmartLoadProofs ---------------------------
(* Type correctness of SmartLoad, and that the range, the flags and the      *)
(* cursors say no more than what has been loaded.                            *)
EXTENDS SmartLoad, TLAPS

USE DEF NoDate

\* Taking rows keeps the type of the calendar and all that is present.
LEMMA TakenGrows ==
  ASSUME NEW S \in SUBSET Row, cal \in SUBSET Row, cal' = cal \cup Taken(S)
  PROVE  cal' \in SUBSET Row /\ cal \subseteq cal' /\ S \ pending \subseteq cal'
BY DEF Taken

\* Every action keeps the types.
LEMMA TypeStep == TypeOK /\ [Next]_vars => TypeOK'
<1> SUFFICES ASSUME TypeOK, [Next]_vars PROVE TypeOK'
  OBVIOUS
<1> USE RowAssumption, DayAssumption, KindAssumption, LimitsAssumption, SelectionsAssumption
<1>1. ASSUME NEW a \in Day \cup {NoDate}, NEW b \in Day \cup {NoDate}, LoadDates(a, b)
      PROVE  TypeOK'
  <2>1. /\ cal' \subseteq Row
        /\ UNCHANGED <<db, event, pending, loaded, last, blind, page>>
    BY <1>1, TakenGrows DEF TypeOK, LoadDates, ByDate, Taken, flags
  <2>2. LoadStart(a) \in Day \cup {NoDate} /\ LoadEnd(b) \in Day \cup {NoDate}
    BY DEF TypeOK, LoadStart, LoadEnd
  <2>3. from' \in Day \cup {NoDate} /\ to' \in Day \cup {NoDate}
    BY <1>1, <2>2 DEF TypeOK, LoadDates, SetLoadDates, range
  <2> QED BY <2>1, <2>3 DEF TypeOK
<1>2. ASSUME NEW S \in Selections, LoadSome(S) PROVE TypeOK'
  BY <1>2 DEF TypeOK, LoadSome, Taken, range, flags
<1>3. ASSUME NEW k \in Paged, NEW l \in Limits, LoadPage(k, l) PROVE TypeOK'
  <2>1. Selected(db, k, last[k]) \subseteq Row
    BY DEF TypeOK, Selected
  <2>2. page' \in Page
    BY <1>3, <2>1 DEF LoadPage, Page
  <2> QED BY <1>3, <2>2 DEF TypeOK, LoadPage, range, flags
<1>4. ASSUME NEW r \in Row, ReadRow(r) PROVE TypeOK'
  <2>1. page \in Page
    BY <1>4 DEF TypeOK, ReadRow, Idle
  <2>2. page.count + Counted(r) \in Nat /\ Date[page.kind][r] \in Nat
    BY <2>1 DEF Counted, Page
  <2>3. page' = [page EXCEPT !.rest = page.rest \ {r}, !.previous = Date[page.kind][r],
                             !.count = page.count + Counted(r)]
    BY <1>4 DEF ReadRow
  <2>4. page' \in Page
    BY <2>1, <2>2, <2>3 DEF Page
  <2> QED BY <1>4, <2>4 DEF TypeOK, ReadRow, Taken, range, flags
<1>5. ASSUME EndPage PROVE TypeOK'
  <2>1. page \in Page
    BY <1>5 DEF TypeOK, EndPage, Idle
  <2>2. last' \in [Paged -> Nat] /\ loaded' \in [Kind -> BOOLEAN]
    BY <1>5, <2>1 DEF TypeOK, EndPage, Page, Kind
  <2> QED BY <1>5, <2>2 DEF TypeOK, EndPage, range
<1>6. ASSUME NEW k \in Whole, LoadWhole(k) PROVE TypeOK'
  BY <1>6 DEF TypeOK, LoadWhole, Taken, range, Kind
<1>7. ASSUME NEW k \in Kind, NEW l \in Limits, LoadRefused(k, l) PROVE TypeOK'
  BY <1>7 DEF TypeOK, LoadRefused, range
<1>8. ASSUME NEW r \in Row, Delete(r) PROVE TypeOK'
  BY <1>8 DEF TypeOK, Delete, range, flags
<1>9. ASSUME NEW kept \in SUBSET pending, Save(kept) PROVE TypeOK'
  BY <1>9 DEF TypeOK, Save, range, flags
<1>10. ASSUME NEW T \in SUBSET Row, OthersSave(T) PROVE TypeOK'
  BY <1>10 DEF TypeOK, OthersSave, range, flags
<1>11. ASSUME FileChanged PROVE TypeOK'
  BY <1>11 DEF TypeOK, FileChanged, Cleared
<1>12. ASSUME UNCHANGED vars PROVE TypeOK'
  BY <1>12 DEF TypeOK, vars, range, flags
<1>13. ASSUME NEW r \in Row, Edit(r) PROVE TypeOK'
  BY <1>13 DEF TypeOK, Edit, range, flags
<1> QED
  BY <1>1, <1>2, <1>3, <1>4, <1>5, <1>6, <1>7, <1>8, <1>9, <1>10, <1>11, <1>12, <1>13
  DEF Next

\* The initial states have them.
LEMMA TypeInit == Init => TypeOK
BY KindAssumption DEF Init, TypeOK

\* Every state of the calendar, the range, the flags and the running load has
\* its type.
THEOREM TypeCorrect == Spec => []TypeOK
BY TypeInit, TypeStep, PTL DEF Spec

-----------------------------------------------------------------------------
(* The range *)

\* A range has both bounds or none, in order.
RangeInvariant ==
  /\ from = NoDate <=> to = NoDate
  /\ from <= to
  /\ RangeLoaded

\* The step that extends the range: the rows between the old range and the new
\* bounds have been read, the others were in the old range.
LEMMA RangeExtends ==
  ASSUME TypeOK, RangeInvariant,
         NEW a \in Day \cup {NoDate}, NEW b \in Day \cup {NoDate}, LoadDates(a, b)
  PROVE  RangeInvariant'
<1> USE RowAssumption, DayAssumption
<1> DEFINE s == LoadStart(a)
           e == LoadEnd(b)
<1>1. /\ s \in Day \cup {NoDate} /\ e \in Day \cup {NoDate}
      /\ from \in Nat /\ to \in Nat /\ a \in Nat /\ b \in Nat
      /\ Day \subseteq Nat
  BY DEF TypeOK, LoadStart, LoadEnd
<1>2. /\ ByDate(db, s, e) \subseteq Row
      /\ cal' = cal \cup Taken(ByDate(db, s, e))
      /\ UNCHANGED <<db, event, pending>>
  BY DEF TypeOK, LoadDates, ByDate
<1>3. ByDate(db, s, e) \ pending \subseteq cal' /\ cal \subseteq cal'
  BY <1>2 DEF Taken
<1>4. CASE s = NoDate /\ e = NoDate
  <2>1. UNCHANGED range
    BY <1>4 DEF LoadDates
  <2> QED BY <1>2, <1>3, <2>1 DEF RangeInvariant, RangeLoaded, Present, range, ByDate
<1>5. CASE ~(s = NoDate /\ e = NoDate)
  <2> DEFINE s1 == IF s = NoDate THEN FirstDay ELSE s
             e1 == IF e = NoDate THEN LastDay ELSE e
  <2>1. s1 \in Day /\ e1 \in Day
    BY <1>1
  <2>2. /\ from' = IF from = NoDate \/ s1 < from THEN s1 ELSE from
        /\ to' = IF to = NoDate \/ e1 > to THEN e1 ELSE to
    BY <1>5, <2>1 DEF LoadDates, SetLoadDates
  <2>3. s1 <= e1
    BY <1>1, <2>1 DEF LoadDates, IsLoaded, LoadStart, LoadEnd, RangeInvariant
  <2>4. from' # NoDate /\ to' # NoDate /\ from' <= to'
    BY <1>1, <2>1, <2>2, <2>3 DEF RangeInvariant
  <2>5. ASSUME NEW r \in db, r \in Ended, Start[r] <= to', End[r] >= from', ~event
        PROVE  r \in ByDate(db, s, e) \/ (from # NoDate /\ r \in ByDate(db, from, to))
    <3>1. /\ r \in Row /\ Start[r] \in Nat /\ End[r] \in Nat
          /\ End[r] # NoDate /\ Start[r] <= End[r]
          /\ Start[r] <= LastDay /\ FirstDay <= End[r]
      BY <2>5 DEF TypeOK, Ended
    <3>2. CASE s # a
      BY <1>1, <2>2, <2>4, <2>5, <3>1, <3>2
      DEF LoadStart, LoadEnd, LoadDates, IsLoaded, ByDate, RangeInvariant
    <3>3. CASE e # b
      BY <1>1, <2>2, <2>4, <2>5, <3>1, <3>3
      DEF LoadStart, LoadEnd, LoadDates, IsLoaded, ByDate, RangeInvariant
    <3>4. CASE s = a /\ e = b
      BY <1>1, <1>5, <2>2, <2>4, <2>5, <3>1, <3>4
      DEF LoadStart, LoadEnd, LoadDates, IsLoaded, ByDate, RangeInvariant
    <3> QED BY <3>2, <3>3, <3>4
  <2>6. RangeLoaded'
    BY <1>2, <1>3, <2>4, <2>5 DEF RangeLoaded, Present, ByDate, RangeInvariant, Ended
  <2> QED BY <2>4, <2>6 DEF RangeInvariant
<1> QED BY <1>4, <1>5

\* A step that keeps the table, the range and what is present keeps it.
LEMMA RangeKept ==
  ASSUME RangeInvariant, UNCHANGED <<db, event, range>>,
         \A r \in cal : r \in cal' \/ r \in pending', pending \subseteq pending'
  PROVE  RangeInvariant'
BY DEF RangeInvariant, RangeLoaded, Present, ByDate, range, Ended

\* Every action keeps the invariant of the range.
LEMMA RangeStep == TypeOK /\ RangeInvariant /\ [Next]_vars => RangeInvariant'
<1> SUFFICES ASSUME TypeOK, RangeInvariant, [Next]_vars PROVE RangeInvariant'
  OBVIOUS
<1>1. ASSUME NEW a \in Day \cup {NoDate}, NEW b \in Day \cup {NoDate}, LoadDates(a, b)
      PROVE  RangeInvariant'
  BY <1>1, RangeExtends
<1>2. ASSUME NEW S \in Selections, LoadSome(S) PROVE RangeInvariant'
  BY <1>2, RangeKept DEF LoadSome
<1>3. ASSUME NEW k \in Paged, NEW l \in Limits, LoadPage(k, l) PROVE RangeInvariant'
  BY <1>3, RangeKept DEF LoadPage
<1>4. ASSUME NEW r \in Row, ReadRow(r) PROVE RangeInvariant'
  BY <1>4, RangeKept DEF ReadRow
<1>5. ASSUME EndPage PROVE RangeInvariant'
  BY <1>5, RangeKept DEF EndPage
<1>6. ASSUME NEW k \in Whole, LoadWhole(k) PROVE RangeInvariant'
  BY <1>6, RangeKept DEF LoadWhole
<1>7. ASSUME NEW k \in Kind, NEW l \in Limits, LoadRefused(k, l) PROVE RangeInvariant'
  BY <1>7, RangeKept DEF LoadRefused
<1>8. ASSUME NEW r \in Row, Delete(r) PROVE RangeInvariant'
  BY <1>8, RangeKept DEF Delete
<1>9. ASSUME NEW kept \in SUBSET pending, Save(kept) PROVE RangeInvariant'
  BY <1>9 DEF Save, RangeInvariant, RangeLoaded, range
<1>10. ASSUME NEW T \in SUBSET Row, OthersSave(T) PROVE RangeInvariant'
  BY <1>10 DEF OthersSave, RangeInvariant, RangeLoaded, range
<1>11. ASSUME FileChanged PROVE RangeInvariant'
  BY <1>11 DEF FileChanged, Cleared, RangeInvariant, RangeLoaded
<1>12. ASSUME UNCHANGED vars PROVE RangeInvariant'
  BY <1>12, RangeKept DEF vars
<1>13. ASSUME NEW r \in Row, Edit(r) PROVE RangeInvariant'
  BY <1>13, RangeKept DEF Edit
<1> QED
  BY <1>1, <1>2, <1>3, <1>4, <1>5, <1>6, <1>7, <1>8, <1>9, <1>10, <1>11, <1>12, <1>13
  DEF Next

\* Whatever is loaded in whatever order, the range that is noted has no gap.
THEOREM RangeHasNoGap == Spec => []RangeLoaded
<1>1. Init => RangeInvariant
  BY DEF Init, RangeInvariant, RangeLoaded
<1>2. RangeInvariant => RangeLoaded
  BY DEF RangeInvariant
<1> QED BY <1>1, <1>2, TypeInit, TypeStep, RangeStep, PTL DEF Spec
-----------------------------------------------------------------------------
(* The cursors and the flags. *)

\* What a list asks for, and what it asks for the next time.
Wanted(k) == Selected(db, k, Cursor0[k])
Ahead(k) == Selected(db, k, last[k])

\* The rows of a list that an all-day event cannot hide.
Plainly(k, T) == {r \in T : ~Overtaken(k, r)}

\* What lies behind the cursor is present, up to the rows of its own date.
CursorInvariant ==
  ~event => \A k \in Paged :
    /\ Present(Plainly(k, Wanted(k) \ Ahead(k)))
    /\ last[k] \notin {NoDate, Cursor0[k]} =>
         Present(Plainly(k, {r \in Wanted(k) : Passed(k, r)}))

\* Does r lie at the place of s in the order of the list, or after it.
NotBefore(k, r, s) ==
  IF k \in Ascending THEN Column[k][r] >= Column[k][s] ELSE Column[k][r] <= Column[k][s]

\* The row of a list that was read last: the date kept is its own, and nothing
\* is left to read that lies before.
ReadLast(k, rest, date, s) ==
  Date[k][s] = date /\ \A r \in rest : r # s /\ NotBefore(k, r, s)

\* While a page is loaded, what has been read of it is present.
PageInvariant ==
  ~Idle /\ ~event =>
    /\ page.rest \subseteq Matches[page.kind]
    /\ Present(Ahead(page.kind) \ page.rest)
    /\ page.previous # NoDate =>
         \E s \in Matches[page.kind] : ReadLast(page.kind, page.rest, page.previous, s)

ListInvariant == CursorInvariant /\ PageInvariant /\ FlagsHonest

\* A step that keeps the table and the cursors keeps what is said of them.
LEMMA PresentKept ==
  ASSUME NEW T, \A r \in cal : r \in cal' \/ r \in pending', pending \subseteq pending', T \ pending \subseteq cal
  PROVE  T \ pending' \subseteq cal'
OBVIOUS

LEMMA ListKept ==
  ASSUME ListInvariant, UNCHANGED <<db, event, last, loaded, blind, page>>,
         \A r \in cal : r \in cal' \/ r \in pending', pending \subseteq pending'
  PROVE  ListInvariant'
<1>1. CursorInvariant'
  BY DEF ListInvariant, CursorInvariant, Present, Plainly, Wanted, Ahead, Selected, Passed
<1>2. PageInvariant'
  BY DEF ListInvariant, PageInvariant, Present, Ahead, Selected, Idle
<1>3. FlagsHonest'
  BY DEF ListInvariant, FlagsHonest, Present, Selected
<1> QED BY <1>1, <1>2, <1>3 DEF ListInvariant

\* Behind the date of a row that was read, a row left to read is next to an
\* all-day event.
LEMMA BehindDate ==
  ASSUME NEW k \in Paged, NEW s \in Matches[k], NEW r \in Matches[k], r # s, NotBefore(k, r, s),
         IF k \in Ascending THEN Column[k][r] < Date[k][s] ELSE Column[k][r] > Date[k][s]
  PROVE  Overtaken(k, r)
<1>1. Column[k][r] \in Nat /\ Column[k][s] \in Nat /\ Date[k][s] \in Nat
  BY KindAssumption DEF Kind
<1>2. Date[k][s] # Column[k][s]
  BY <1>1 DEF NotBefore
<1> QED BY <1>1, <1>2 DEF NotBefore, Overtaken, Converted

\* So is a row at that date, if neither it nor the row read is such an event,
\* and a page stops before a row of another date.
LEMMA AtDate ==
  ASSUME NEW k \in Paged, NEW s \in Matches[k], NEW h \in Matches[k], NEW r \in Matches[k],
         NotBefore(k, h, s), ~After(k, h, r), Date[k][h] # Date[k][s],
         s \notin Converted(k), r \notin Converted(k), Column[k][r] = Date[k][s]
  PROVE  Overtaken(k, r)
<1>1. /\ Column[k][r] \in Nat /\ Column[k][s] \in Nat /\ Date[k][s] \in Nat
      /\ Column[k][h] \in Nat /\ Date[k][h] \in Nat
  BY KindAssumption DEF Kind
<1>2. Column[k][s] = Date[k][s] /\ Column[k][r] = Date[k][r]
  BY DEF Converted
<1>3. Column[k][h] = Column[k][r]
  BY <1>1, <1>2 DEF NotBefore, After
<1>4. h # r /\ Date[k][h] # Column[k][h]
  BY <1>2, <1>3
<1>5. h \in Converted(k) \ {r}
  BY <1>4 DEF Converted
<1>6. \/ Column[k][h] <= Column[k][r] /\ Column[k][r] < Date[k][h]
      \/ Date[k][h] < Column[k][r] /\ Column[k][r] <= Column[k][h]
  BY <1>1, <1>3, <1>4
<1> QED BY <1>5, <1>6 DEF Overtaken

\* The end of a page: either everything has been read, or what has not lies
\* strictly after the cursor or next to an all-day event.
LEMMA PageEnds ==
  ASSUME TypeOK, ListInvariant, EndPage
  PROVE  ListInvariant'
<1> USE KindAssumption
<1> DEFINE k == page.kind
<1>1. /\ page \in Page /\ k \in Paged /\ ~Idle
      /\ Idle'
      /\ UNCHANGED <<db, event, cal, pending, blind>>
      /\ last' = [last EXCEPT ![k] = page.previous]
      /\ loaded' = [loaded EXCEPT ![k] = page.count < page.limit]
  BY DEF TypeOK, EndPage, Idle, Page
<1>2. PageInvariant'
  BY <1>1 DEF PageInvariant
<1>3. ASSUME ~event, page.rest = {} PROVE Present(Plainly(k, Wanted(k)))
  <2>1. Present(Plainly(k, Wanted(k) \ Ahead(k))) /\ Present(Ahead(k))
    BY <1>1, <1>3 DEF ListInvariant, CursorInvariant, PageInvariant, Present
  <2> QED BY <2>1 DEF Present, Plainly
<1>4. ASSUME ~event, page.rest # {}
      PROVE  /\ page.previous # NoDate
             /\ ~(page.count < page.limit)
             /\ \E s, h \in Matches[k] :
                  /\ Date[k][s] = page.previous /\ Date[k][h] # page.previous
                  /\ NotBefore(k, h, s)
                  /\ \A r \in page.rest : r # s /\ NotBefore(k, r, s) /\ ~After(k, h, r)
  <2>1. PICK h \in Heads : Stops(h)
    BY <1>4 DEF EndPage
  <2>2. page.previous \in Nat /\ page.count \in Nat /\ page.limit \in Nat
    BY <1>1, LimitsAssumption DEF Page
  <2>3. page.previous # NoDate /\ Date[k][h] # page.previous /\ ~(page.count < page.limit)
    BY <2>1, <2>2 DEF Stops
  <2>4. h \in page.rest /\ h \in Matches[k] /\ \A r \in page.rest : ~After(k, h, r)
    BY <1>1, <1>4, <2>1 DEF Heads, ListInvariant, PageInvariant
  <2>5. PICK s \in Matches[k] : ReadLast(k, page.rest, page.previous, s)
    BY <1>1, <1>4, <2>3 DEF ListInvariant, PageInvariant
  <2> QED BY <2>3, <2>4, <2>5 DEF ReadLast
<1>5. FlagsHonest'
  <2> SUFFICES ASSUME ~event', NEW j \in Kind \ blind', loaded'[j]
               PROVE  Present(IF j \in Paged
                              THEN {r \in Selected(db, j, Cursor0[j]) : ~Overtaken(j, r)}
                              ELSE db \cap Matches[j])'
    BY DEF FlagsHonest
  <2>1. CASE j = k
    <3>1. page.rest = {}
      BY <1>1, <1>4, <2>1 DEF TypeOK, Kind
    <3> QED BY <1>1, <1>3, <2>1, <3>1 DEF Present, Plainly, Wanted, Selected
  <2>2. CASE j # k
    BY <1>1, <2>2 DEF TypeOK, ListInvariant, FlagsHonest, Present, Selected
  <2> QED BY <2>1, <2>2
<1>6. CursorInvariant'
  <2> SUFFICES ASSUME ~event', NEW j \in Paged
               PROVE  /\ Present(Plainly(j, Wanted(j) \ Ahead(j)))'
                      /\ (last[j] \notin {NoDate, Cursor0[j]})' =>
                           Present(Plainly(j, {r \in Wanted(j) : Passed(j, r)}))'
    BY DEF CursorInvariant
  <2>1. CASE j # k
    <3>1. last'[j] = last[j]
      BY <1>1, <2>1 DEF TypeOK
    <3> QED BY <1>1, <3>1
        DEF ListInvariant, CursorInvariant, Present, Plainly, Wanted, Ahead, Selected, Passed
  <2>2. CASE j = k /\ page.rest = {}
    BY <1>1, <1>3, <2>2 DEF Present, Plainly, Wanted, Ahead, Selected, Passed
  <2>3. CASE j = k /\ page.rest # {}
    <3>1. last'[j] = page.previous /\ page.previous # NoDate /\ page.previous \in Nat
      BY <1>1, <1>4, <2>3 DEF TypeOK, Page
    <3>2. PICK s \in Matches[k], h \in Matches[k] :
            /\ Date[k][s] = page.previous /\ Date[k][h] # page.previous
            /\ NotBefore(k, h, s)
            /\ \A r \in page.rest : r # s /\ NotBefore(k, r, s) /\ ~After(k, h, r)
      BY <1>1, <1>4, <2>3
    <3>3. ASSUME NEW r \in Wanted(j), r \notin pending, ~Overtaken(j, r), r \notin page.rest
          PROVE  r \in cal
      BY <1>1, <2>3, <3>3 DEF ListInvariant, CursorInvariant, PageInvariant, Present, Plainly
    <3>4. \A r \in Wanted(j) : r \in Matches[j] /\ Column[j][r] \in Nat
      BY DEF Wanted, Selected, Kind
    <3>5. UNCHANGED Wanted(j)
      BY <1>1 DEF Wanted, Selected
    <3>6. ASSUME NEW r \in Wanted(j), r \notin pending, ~Overtaken(j, r),
                 IF j \in Ascending THEN Column[j][r] < page.previous
                 ELSE Column[j][r] > page.previous
          PROVE  r \in cal
      <4>1. CASE r \in page.rest
        <5>1. Overtaken(j, r)
          BY <2>3, <3>2, <3>4, <3>6, <4>1, BehindDate
        <5> QED BY <3>6, <5>1
      <4> QED BY <3>3, <3>6, <4>1
    <3>7. ASSUME NEW r \in Wanted(j), r \notin pending, ~Overtaken(j, r), Passed(j, r)'
          PROVE  r \in cal
      <4>1. CASE r \in page.rest
        <5>1. CASE \/ Column[j][r] # page.previous
                   \/ \E t \in Converted(j) : ~(t # r /\ Date[j][t] # page.previous)
          BY <3>1, <3>6, <3>7, <5>1 DEF Passed
        <5>2. CASE /\ Column[j][r] = page.previous
                   /\ \A t \in Converted(j) : t # r /\ Date[j][t] # page.previous
          <6>1. s \notin Converted(k) /\ r \notin Converted(k)
            BY <2>3, <3>2, <5>2
          <6>2. Overtaken(k, r)
            BY <1>1, <2>3, <3>2, <3>4, <4>1, <5>2, <6>1, AtDate
          <6> QED BY <2>3, <3>7, <6>2
        <5> QED BY <5>1, <5>2
      <4> QED BY <3>3, <3>7, <4>1
    <3>8. Present(Plainly(j, {r \in Wanted(j) : Passed(j, r)}))'
      BY <1>1, <3>5, <3>7 DEF Present, Plainly
    <3>9. Present(Plainly(j, Wanted(j) \ Ahead(j)))'
      <4>1. ASSUME NEW r \in Wanted(j), r \notin Selected(db, j, page.previous)
            PROVE  IF j \in Ascending THEN Column[j][r] < page.previous
                   ELSE Column[j][r] > page.previous
        BY <3>1, <3>4, <4>1 DEF Wanted, Selected
      <4> QED BY <1>1, <3>1, <3>5, <3>6, <4>1 DEF Present, Plainly, Ahead, Selected
    <3> QED BY <3>8, <3>9
  <2> QED BY <2>1, <2>2, <2>3
<1> QED BY <1>2, <1>5, <1>6 DEF ListInvariant

\* One turn of the loop: the row read is a first one of those left.
LEMMA RowRead ==
  ASSUME TypeOK, ListInvariant, NEW r \in Row, ReadRow(r)
  PROVE  ListInvariant'
<1> USE KindAssumption
<1> DEFINE k == page.kind
<1>1. /\ page \in Page /\ k \in Paged /\ ~Idle
      /\ r \in page.rest /\ page.rest \subseteq Row
      /\ \A s \in page.rest : ~After(k, r, s)
      /\ UNCHANGED <<db, event, pending, last, loaded, blind>>
      /\ cal' = cal \cup Taken({r})
  BY DEF TypeOK, ReadRow, Idle, Page, Heads, flags
<1>2. page'.kind = k /\ page'.rest = page.rest \ {r} /\ page'.previous = Date[k][r]
  BY <1>1 DEF ReadRow, Page
<1>3. cal \subseteq cal' /\ (r \in pending \/ r \in cal')
  BY <1>1 DEF Taken
<1>4. CursorInvariant'
  BY <1>1, <1>3
  DEF ListInvariant, CursorInvariant, Present, Plainly, Wanted, Ahead, Selected, Passed
<1>5. FlagsHonest'
  BY <1>1, <1>3 DEF ListInvariant, FlagsHonest, Present, Selected
<1>6. PageInvariant'
  <2> SUFFICES ASSUME ~event PROVE PageInvariant'
    BY <1>1 DEF PageInvariant
  <2>1. \A s \in page.rest : Column[k][s] \in Nat /\ Column[k][r] \in Nat
    BY <1>1
  <2>2. \A s \in page.rest : NotBefore(k, s, r)
    BY <1>1, <2>1 DEF After, NotBefore
  <2>3. page.rest \subseteq Matches[k] /\ Present(Ahead(k) \ page.rest)
    BY <1>1 DEF ListInvariant, PageInvariant
  <2>4. ASSUME NEW s \in Ahead(k), s \notin page'.rest, s \notin pending
        PROVE  s \in cal'
    BY <1>2, <1>3, <2>3, <2>4 DEF Present
  <2>5. r \in Matches[k] /\ ReadLast(k, page'.rest, page'.previous, r)
    BY <1>1, <1>2, <2>2, <2>3 DEF ReadLast
  <2>6. Ahead(page.kind)' = Ahead(k)
    BY <1>1, <1>2 DEF Ahead, Selected
  <2>7. Present(Ahead(page.kind) \ page.rest)'
    BY <1>1, <2>4, <2>6 DEF Present
  <2> QED BY <1>2, <2>3, <2>5, <2>7 DEF PageInvariant, ReadLast, NotBefore
<1> QED BY <1>4, <1>5, <1>6 DEF ListInvariant

\* Every action keeps the invariant of the lists.
LEMMA ListStep == TypeOK /\ ListInvariant /\ [Next]_vars => ListInvariant'
<1> SUFFICES ASSUME TypeOK, ListInvariant, [Next]_vars PROVE ListInvariant'
  OBVIOUS
<1>1. ASSUME NEW a \in Day \cup {NoDate}, NEW b \in Day \cup {NoDate}, LoadDates(a, b)
      PROVE  ListInvariant'
  BY <1>1, ListKept DEF LoadDates, flags
<1>2. ASSUME NEW S \in Selections, LoadSome(S) PROVE ListInvariant'
  BY <1>2, ListKept DEF LoadSome, flags
<1>3. ASSUME NEW k \in Paged, NEW l \in Limits, LoadPage(k, l) PROVE ListInvariant'
  <2>1. CursorInvariant' /\ FlagsHonest'
    BY <1>3 DEF LoadPage, flags, ListInvariant, CursorInvariant, FlagsHonest, Present, Plainly,
                Wanted, Ahead, Selected, Passed
  <2>2. page'.kind = k /\ page'.rest = Ahead(k) /\ page'.previous = NoDate
    BY <1>3 DEF LoadPage, Ahead
  <2>3. UNCHANGED <<db, last>> /\ Ahead(k) \subseteq Matches[k]
    BY <1>3 DEF LoadPage, flags, Ahead, Selected
  <2>4. PageInvariant'
    BY <2>2, <2>3 DEF PageInvariant, Present, Ahead, Selected
  <2> QED BY <2>1, <2>4 DEF ListInvariant
<1>4. ASSUME NEW r \in Row, ReadRow(r) PROVE ListInvariant'
  BY <1>4, RowRead
<1>5. ASSUME EndPage PROVE ListInvariant'
  BY <1>5, PageEnds
<1>6. ASSUME NEW k \in Whole, LoadWhole(k) PROVE ListInvariant'
  <2>1. /\ UNCHANGED <<db, event, pending, last, blind, page>>
        /\ cal \subseteq cal' /\ (db \cap Matches[k]) \ pending \subseteq cal'
        /\ loaded' = [loaded EXCEPT ![k] = TRUE] /\ k \notin Paged /\ k \in Kind
    BY <1>6, KindAssumption DEF LoadWhole, Taken, Kind
  <2>2. CursorInvariant' /\ PageInvariant'
    BY <2>1 DEF ListInvariant, CursorInvariant, PageInvariant, Present, Plainly, Wanted, Ahead,
                Selected, Passed, Idle
  <2>3. FlagsHonest'
    BY <2>1 DEF TypeOK, ListInvariant, FlagsHonest, Present, Selected
  <2> QED BY <2>2, <2>3 DEF ListInvariant
<1>7. ASSUME NEW k \in Kind, NEW l \in Limits, LoadRefused(k, l) PROVE ListInvariant'
  <2>1. /\ UNCHANGED <<db, event, cal, pending, last, page>>
        /\ loaded' = [loaded EXCEPT ![k] = TRUE] /\ blind' = blind \cup {k}
    BY <1>7 DEF LoadRefused
  <2>2. CursorInvariant' /\ PageInvariant'
    BY <2>1 DEF ListInvariant, CursorInvariant, PageInvariant, Present, Plainly, Wanted, Ahead,
                Selected, Passed, Idle
  <2>3. FlagsHonest'
    BY <2>1 DEF TypeOK, ListInvariant, FlagsHonest, Present, Selected
  <2> QED BY <2>2, <2>3 DEF ListInvariant
<1>8. ASSUME NEW r \in Row, Delete(r) PROVE ListInvariant'
  BY <1>8, ListKept DEF Delete, flags
<1>9. ASSUME NEW kept \in SUBSET pending, Save(kept) PROVE ListInvariant'
  BY <1>9 DEF Save, ListInvariant, CursorInvariant, PageInvariant, FlagsHonest
<1>10. ASSUME NEW T \in SUBSET Row, OthersSave(T) PROVE ListInvariant'
  BY <1>10 DEF OthersSave, ListInvariant, CursorInvariant, PageInvariant, FlagsHonest
<1>11. ASSUME FileChanged PROVE ListInvariant'
  <2>1. Idle' /\ last' = Cursor0 /\ \A k \in Kind : ~loaded'[k]
    BY <1>11 DEF FileChanged, Cleared, Idle
  <2>2. PageInvariant' /\ FlagsHonest'
    BY <2>1 DEF PageInvariant, FlagsHonest
  <2>3. ASSUME NEW k \in Paged PROVE Present(Plainly(k, Wanted(k) \ Ahead(k)))'
    BY <2>1 DEF Present, Plainly, Wanted, Ahead
  <2>4. CursorInvariant'
    BY <2>1, <2>3 DEF CursorInvariant
  <2> QED BY <2>2, <2>4 DEF ListInvariant
<1>12. ASSUME UNCHANGED vars PROVE ListInvariant'
  BY <1>12, ListKept DEF vars, flags
<1>13. ASSUME NEW r \in Row, Edit(r) PROVE ListInvariant'
  BY <1>13, ListKept DEF Edit, flags
<1> QED
  BY <1>1, <1>2, <1>3, <1>4, <1>5, <1>6, <1>7, <1>8, <1>9, <1>10, <1>11, <1>12, <1>13
  DEF Next

\* Nothing has been asked for at first.
LEMMA ListInit == Init => ListInvariant
BY DEF Init, ListInvariant, CursorInvariant, PageInvariant, FlagsHonest, Present, Plainly, Wanted,
       Ahead, Idle

\* A flag says that a list is loaded only if it is, but for a load that did not
\* get the lock and the rows next to an all-day event.
THEOREM FlagsAreHonest == Spec => []FlagsHonest
<1>1. ListInvariant => FlagsHonest
  BY DEF ListInvariant
<1> QED BY <1>1, ListInit, ListStep, TypeInit, TypeStep, PTL DEF Spec

\* And what a page returns as its last date has been loaded up to that date, but
\* for such rows.
THEOREM CursorsCover == Spec => []CursorCovers
<1>1. ListInvariant => CursorCovers
  BY DEF ListInvariant, CursorInvariant, CursorCovers, Present, Plainly, Wanted
<1> QED BY <1>1, ListInit, ListStep, TypeInit, TypeStep, PTL DEF Spec
=============================================================================
