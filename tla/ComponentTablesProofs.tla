------------------------- MODULE ComponentTablesProofs -------------------------
(***************************************************************************)
(* What is proved of ComponentTables for any incidences, any number of     *)
(* rows and any statements that fail: rows that a failed deletion has left *)
(* behind are never those of a new incidence; what was loaded is found     *)
(* again; deleted rows are purged; and a row with its rows in the six other*)
(* tables brings back the incidence that was written there, however often  *)
(* and wherever it is saved again.                                         *)
(***************************************************************************)
EXTENDS ComponentTables, FiniteSetTheorems, SequenceTheorems, TLAPS

Columns ==
  /\ lastId \in Nat
  /\ DOMAIN rows = RowId
  /\ DOMAIN sub = Table
  /\ \A t \in Table : DOMAIN sub[t] = RowId \cup {Null}

\* Nothing is stored under an id that has not been given yet.
Unused(id) == rows[id] = NoRow /\ \A t \in Table : sub[t][id] = <<>>

FreshIds == \A id \in RowId : id > lastId => Unused(id)

IInv == Columns /\ FreshIds

\* What a step may do to the tables and keep IInv: other ids than the next one
\* get no row, and what has no row gets none in the other tables.
Confined ==
  /\ lastId' \in {lastId, lastId + 1}
  /\ DOMAIN rows' = RowId
  /\ DOMAIN sub' = Table
  /\ \A t \in Table : DOMAIN sub'[t] = RowId \cup {Null}
  /\ \A id \in RowId : id > lastId' =>
       rows'[id] \in {rows[id], NoRow} /\ \A t \in Table : sub'[t][id] \in {sub[t][id], <<>>}
  /\ \A id \in RowId : rows[id] = NoRow /\ rows'[id] # NoRow => id > lastId

\* A confined step keeps the invariant, and gives rows only to unused ids.
LEMMA ConfinedSuffices ==
  ASSUME IInv, Confined
  PROVE  IInv' /\ \A id \in RowId : rows[id] = NoRow /\ rows'[id] # NoRow =>
                    \A t \in Table : sub[t][id] = <<>>
<1>1. lastId' \in Nat /\ lastId' >= lastId
  BY DEF Confined, IInv, Columns
<1>2. Columns'
  BY <1>1 DEF Confined, Columns
<1>3. ASSUME NEW id \in RowId, id > lastId'
      PROVE  Unused(id)'
  <2>1. id > lastId
    BY <1>1, <1>3 DEF RowId, IInv, Columns
  <2>2. Unused(id)
    BY <2>1 DEF IInv, FreshIds
  <2> QED
    BY <1>3, <2>2 DEF Unused, Confined
<1> QED
  BY <1>2, <1>3 DEF Confined, IInv, FreshIds, Unused

\* A step that leaves the tables alone is confined.
LEMMA UnchangedConfined ==
  ASSUME IInv, UNCHANGED <<rows, lastId, sub>>
  PROVE  Confined
  BY DEF IInv, Columns, Confined

\* A purge is confined, whichever rows it reaches.
LEMMA PurgedConfined ==
  ASSUME IInv, NEW D, NEW fault,
         rows' = Purged(rows, D, NoRow), sub' = SubPurged(sub, D, fault), lastId' = lastId
  PROVE  Confined
<1>1. DOMAIN rows' = RowId /\ \A id \in RowId : rows'[id] \in {rows[id], NoRow}
  BY DEF Purged
<1>2. /\ DOMAIN sub' = Table
      /\ \A t \in Table : /\ DOMAIN sub'[t] = RowId \cup {Null}
                          /\ \A id \in RowId : sub'[t][id] \in {sub[t][id], <<>>}
  BY DEF SubPurged
<1> QED
  BY <1>1, <1>2 DEF Confined

\* Writing under an id that has a row already is confined.
LEMMA RewriteConfined ==
  ASSUME IInv, NEW id \in RowId, rows[id] # NoRow, lastId' = lastId,
         DOMAIN rows' = RowId, DOMAIN sub' = Table,
         \A t \in Table : DOMAIN sub'[t] = RowId \cup {Null},
         \A other \in RowId \ {id} :
           rows'[other] = rows[other] /\ \A t \in Table : sub'[t][other] = sub[t][other]
  PROVE  Confined
<1>1. ~(id > lastId)
  BY DEF IInv, FreshIds, Unused
<1>2. \A other \in RowId : other > lastId => other \in RowId \ {id}
  BY <1>1
<1> QED
  BY <1>2 DEF Confined

\* Inserting takes the next id and no other.
LEMMA InsertConfined ==
  ASSUME IInv, NEW k, NEW freed, NEW fault, NEW purge, SaveInsert(k, freed, fault, purge)
  PROVE  Confined
<1>1. CASE fault.at = "row"
  BY <1>1, UnchangedConfined DEF SaveInsert, tables
<1>2. CASE fault.at # "row"
  <2> DEFINE gone == IF stuck \/ ~purge THEN {} ELSE DeadRows(k)
             inserted == [rows EXCEPT ![NewId] =
                            [uid |-> k.uid, key |-> k, deleted |-> FALSE,
                             row |-> ComponentRow(obj[k], zone)]]
             filled == [t \in Table |->
                          [sub[t] EXCEPT ![NewId] =
                             Accepted(t, @, Inserted(t, Rows(t, obj[k], zone, freed), fault))]]
  <2>1. /\ lastId' = lastId + 1
        /\ rows' = Purged(inserted, gone, NoRow)
        /\ sub' = SubPurged(filled, gone, fault)
    BY <1>2 DEF SaveInsert, NewId
  <2>2. \A id \in RowId : id # lastId + 1 => inserted[id] = rows[id]
    BY DEF IInv, Columns, NewId
  <2>3. \A t \in Table : \A id \in RowId : id # lastId + 1 => filled[t][id] = sub[t][id]
    BY DEF IInv, Columns, NewId
  <2> HIDE DEF gone, inserted, filled
  <2>4. DOMAIN rows' = RowId /\ \A id \in RowId : rows'[id] \in {inserted[id], NoRow}
    BY <2>1 DEF Purged
  <2>5. /\ DOMAIN sub' = Table
        /\ \A t \in Table : /\ DOMAIN sub'[t] = RowId \cup {Null}
                            /\ \A id \in RowId : sub'[t][id] \in {filled[t][id], <<>>}
    BY <2>1 DEF SubPurged
  <2>6. lastId \in Nat
    BY DEF IInv, Columns
  <2>7. \A id \in RowId : id > lastId + 1 => id # lastId + 1
    BY <2>6 DEF RowId
  <2>8. \A id \in RowId : rows[id] = NoRow /\ rows'[id] # NoRow => id > lastId
    BY <2>2, <2>4, <2>6 DEF RowId
  <2> QED
    BY <2>1, <2>2, <2>3, <2>4, <2>5, <2>7, <2>8 DEF Confined
<1> QED
  BY <1>1, <1>2

\* Every step is confined.
LEMMA StepConfined ==
  ASSUME IInv, [Next]_vars
  PROVE  Confined
<1>1. ASSUME NEW k \in Key, NEW i, Add(k, i) \/ Edit(k, i)
      PROVE  Confined
  BY <1>1, UnchangedConfined DEF Add, Edit, tables
<1>2. ASSUME NEW k \in Key, Delete(k)
      PROVE  Confined
  BY <1>2, UnchangedConfined DEF Delete, tables
<1>3. ASSUME NEW z \in Known, Reload(z)
      PROVE  Confined
  BY <1>3, UnchangedConfined DEF Reload, tables
<1>4. ASSUME NEW action, SaveBegin(action)
      PROVE  Confined
  BY <1>4, UnchangedConfined DEF SaveBegin, tables
<1>5. ASSUME NEW k \in Key, NEW freed, NEW fault, NEW purge, SaveInsert(k, freed, fault, purge)
      PROVE  Confined
  BY <1>5, InsertConfined
<1>6. ASSUME NEW k \in Key, NEW freed, NEW fault, SaveUpdate(k, freed, fault)
      PROVE  Confined
  <2>1. CASE FoundRows(k) = {} \/ fault.at = "row"
    BY <1>6, <2>1, UnchangedConfined DEF SaveUpdate, tables
  <2>2. CASE ~(FoundRows(k) = {} \/ fault.at = "row")
    <3>1. PICK id \in FoundRows(k) :
            /\ rows' = [rows EXCEPT ![id].row = ComponentRow(obj[k], zone)]
            /\ sub' = [t \in Table |-> [sub[t] EXCEPT ![id] = Replaced(@, t, obj[k], freed, fault)]]
            /\ lastId' = lastId
      BY <1>6, <2>2 DEF SaveUpdate
    <3>2. id \in RowId /\ rows[id] # NoRow
      BY DEF FoundRows, WithIdentity
    <3> QED
      BY <3>1, <3>2, RewriteConfined DEF IInv, Columns
  <2> QED
    BY <2>1, <2>2
<1>7. ASSUME NEW k \in Key, NEW freed, NEW fault, SaveMark(k, freed, fault)
      PROVE  Confined
  <2>1. CASE FoundRows(k) = {} \/ fault.at = "row"
    BY <1>7, <2>1, UnchangedConfined DEF SaveMark, tables
  <2>2. CASE ~(FoundRows(k) = {} \/ fault.at = "row")
    <3>1. PICK id \in FoundRows(k) :
            /\ rows' = [rows EXCEPT ![id].deleted = TRUE]
            /\ sub' = [t \in Table |-> Marked(t, id, obj[k], freed, fault)]
            /\ lastId' = lastId
      BY <1>7, <2>2 DEF SaveMark
    <3>2. id \in RowId /\ rows[id] # NoRow
      BY DEF FoundRows, WithIdentity
    <3>3. ASSUME NEW t \in Table
          PROVE  /\ DOMAIN sub'[t] = RowId \cup {Null}
                 /\ \A other \in RowId \ {id} : sub'[t][other] = sub[t][other]
      <4>1. sub'[t] = Marked(t, id, obj[k], freed, fault)
        BY <3>1
      <4>2. DOMAIN sub[t] = RowId \cup {Null} /\ Null \notin RowId
        BY DEF IInv, Columns, RowId, Null
      <4>3. \/ sub'[t] = sub[t]
            \/ \E new : sub'[t] = [sub[t] EXCEPT ![id] = @ \o new]
            \/ \E new : sub'[t] = [sub[t] EXCEPT ![Null] = new]
        BY <4>1 DEF Marked
      <4> QED
        BY <4>2, <4>3
    <3> QED
      BY <3>1, <3>2, <3>3, RewriteConfined DEF IInv, Columns
  <2> QED
    BY <2>1, <2>2
<1>8. ASSUME NEW k \in Key, NEW fault, SaveDelete(k, fault)
      PROVE  Confined
  BY <1>8, UnchangedConfined, PurgedConfined DEF SaveDelete, tables
<1>9. CASE NextPhase
  BY <1>9, UnchangedConfined DEF NextPhase, tables
<1>10. ASSUME NEW D, NEW gone, NEW fault, Purge(D, gone, fault)
       PROVE  Confined
  BY <1>10, PurgedConfined DEF Purge
<1>11. CASE UNCHANGED vars
  BY <1>11, UnchangedConfined DEF vars, tables
<1> QED
  BY <1>1, <1>2, <1>3, <1>4, <1>5, <1>6, <1>7, <1>8, <1>9, <1>10, <1>11 DEF Next

LEMMA InitFresh == Init => IInv
  BY DEF Init, IInv, Columns, FreshIds, Unused, RowId, Null

\* What is stored in whatever table is stored under an id that was given.
THEOREM IdsFresh == Spec => []IInv
<1>1. IInv /\ [Next]_vars => IInv'
  BY StepConfined, ConfinedSuffices
<1> QED
  BY InitFresh, <1>1, PTL DEF Spec

\* A new incidence finds its tables empty, whatever the failures of earlier
\* deletions have left in them.  (modifyComponents, DBInsert)
THEOREM NewRowsEmpty == Spec => NewRowStartsEmpty
<1> DEFINE Fresh == \A id \in RowId : rows[id] = NoRow /\ rows'[id] # NoRow =>
                      \A t \in Table : sub[t][id] = <<>>
<1>1. IInv /\ [Next]_vars => [Fresh]_vars
  BY StepConfined, ConfinedSuffices
<1> QED
  BY IdsFresh, <1>1, PTL DEF Spec, NewRowStartsEmpty

-----------------------------------------------------------------------------
(***************************************************************************)
(* Identities.  A row is found by its uid and the instant of its           *)
(* recurrence id.  What is stored of a recurrence id is loaded as the same *)
(* instant, in whatever zone the system is by then.                        *)
(***************************************************************************)

RecurTime == {NoTime} \cup [spec : Known \cup {"local"}, wall : Int]

\* What the columns of a recurrence id hold.
NoColumns == [utc |-> 0, clock |-> 0, zone |-> ""]
RecurKept(c) == c = NoColumns \/ (c.zone \in Known /\ c.utc \in Int)

LEMMA KnownZones ==
  /\ \A z \in Known : z \notin {"local", "none", "FloatingDate"}
  /\ \A z \in Known : z \in Zone
  /\ Offset \in [Zone -> Int]
BY Zenon, ZoneAssumption

LEMMA KnownNamed == \A z \in Known : z # ""
BY Zenon, ZoneAssumption

LEMMA NoColumnsNone == NoColumns.utc = 0
BY Zenon DEF NoColumns

LEMMA StoredRecur ==
  ASSUME NEW i, i.recurrenceId \in RecurTime, NEW z \in Known
  PROVE  RecurKept(RecurrenceColumns(i, z)) /\ RecurrenceColumns(i, z).utc = RecurId(i, z)
<1>1. CASE i.recurrenceId = NoTime
  <2>1. RecurrenceColumns(i, z) = NoColumns
    BY Zenon, <1>1 DEF NoColumns, RecurrenceColumns, SetDateTime
  <2> QED
    BY <1>1, <2>1, NoColumnsNone DEF RecurKept, RecurId
<1>2. CASE i.recurrenceId # NoTime
  <2>1. i.recurrenceId \in [spec : Known \cup {"local"}, wall : Int]
    BY <1>2 DEF RecurTime
  <2>2. RecurrenceColumns(i, z) =
          [utc |-> Instant(i.recurrenceId, z), clock |-> i.recurrenceId.wall,
           zone |-> ZoneOf(i.recurrenceId, z)]
    BY Zenon, <1>2 DEF RecurrenceColumns, SetDateTime
  <2>3. ZoneOf(i.recurrenceId, z) \in Known
    BY <2>1 DEF ZoneOf
  <2>4. Instant(i.recurrenceId, z) \in Int
    <3>1. Offset[ZoneOf(i.recurrenceId, z)] \in Int /\ i.recurrenceId.wall \in Int
      BY <2>1, <2>3, KnownZones
    <3> QED
      BY <3>1 DEF Instant
  <2>5. RecurId(i, z) = Instant(i.recurrenceId, z)
    BY <1>2 DEF RecurId
  <2>6. /\ RecurrenceColumns(i, z).utc = Instant(i.recurrenceId, z)
        /\ RecurrenceColumns(i, z).zone = ZoneOf(i.recurrenceId, z)
    BY <2>2
  <2> QED
    BY <2>3, <2>4, <2>5, <2>6 DEF RecurKept
<1> QED
  BY <1>1, <1>2

LEMMA LoadedRecur ==
  ASSUME NEW c, RecurKept(c)
  PROVE  /\ GetDateTime(c) \in RecurTime
         /\ \A z \in Known :
              (IF GetDateTime(c) = NoTime THEN 0 ELSE Instant(GetDateTime(c), z)) = c.utc
<1>1. CASE c = NoColumns
  <2>1. c.utc = 0 /\ c.clock = 0 /\ c.zone = ""
    BY Zenon, <1>1 DEF NoColumns
  <2>2. c.zone # "FloatingDate" /\ c.zone \notin Known
    BY Zenon, <2>1, KnownNamed
  <2>3. GetDateTime(c) = NoTime
    BY Zenon, <2>1, <2>2 DEF GetDateTime
  <2> QED
    BY <1>1, <2>3, NoColumnsNone DEF RecurTime
<1>2. CASE c.zone \in Known /\ c.utc \in Int
  <2>1. c.zone # "none" /\ c.zone # "local" /\ c.zone # "FloatingDate" /\ Offset[c.zone] \in Int
    BY <1>2, KnownZones
  <2>2. GetDateTime(c) = [spec |-> c.zone, wall |-> c.utc + Offset[c.zone]]
    BY Zenon, <1>2, <2>1, KnownNamed DEF GetDateTime
  <2>3. GetDateTime(c).spec = c.zone /\ GetDateTime(c).wall = c.utc + Offset[c.zone]
    BY <2>2
  <2>4. GetDateTime(c) # NoTime
    BY <2>1, <2>3 DEF NoTime
  <2>5. \A z : Instant(GetDateTime(c), z) = c.utc
    <3>1. \A z : ZoneOf(GetDateTime(c), z) = c.zone
      BY <2>1, <2>3 DEF ZoneOf
    <3> QED
      BY <1>2, <2>1, <2>3, <3>1 DEF Instant
  <2>6. c.utc + Offset[c.zone] \in Int
    BY <1>2, <2>1
  <2>7. GetDateTime(c) \in RecurTime
    BY <1>2, <2>2, <2>6 DEF RecurTime
  <2> QED
    BY <2>4, <2>5, <2>7
<1> QED
  BY <1>1, <1>2 DEF RecurKept

\* The instants the recurrence id of k may be at.
Instants(k) == {RecurId(i, z) : i \in Contents[k], z \in Known}

LEMMA InstantsConstant == \A k : Instants(k)' = Instants(k)
BY DEF Instants

LEMMA InstantsApart ==
  ASSUME NEW k \in Key, NEW l \in Key, k.uid = l.uid, NEW t \in Instants(k), t \in Instants(l)
  PROVE  k = l
BY IdentityAssumption DEF Instants

\* A row as save() has made it.
SoundRow(id) ==
  /\ DOMAIN rows[id] = {"uid", "key", "deleted", "row"}
  /\ rows[id].deleted \in BOOLEAN
  /\ rows[id].key \in Key /\ rows[id].uid = rows[id].key.uid
  /\ RecurKept(rows[id].row.recur)
  /\ rows[id].row.recur.utc \in Instants(rows[id].key)

RowsSound == \A id \in RowId : rows[id] # NoRow => SoundRow(id)

MemorySound ==
  /\ zone \in Known
  /\ state \in [Key -> State]
  /\ DOMAIN obj = Key
  /\ \A k \in Key : state[k] # "gone" =>
       obj[k].recurrenceId \in RecurTime /\ \A z \in Known : RecurId(obj[k], z) \in Instants(k)

\* An incidence has one live row, and none before it is inserted.
OneLiveRow ==
  /\ \A i, j \in RowId : Live(i) /\ Live(j) /\ rows[i].key = rows[j].key => i = j
  /\ \A k \in Key, id \in RowId : state[k] = "insert" /\ Live(id) => rows[id].key # k

IdentityInv == RowsSound /\ MemorySound /\ OneLiveRow /\ NoTombBesideLive

\* Live rows with one identity are one.
LEMMA LiveIdentity ==
  ASSUME RowsSound, OneLiveRow, NEW i \in RowId, NEW j \in RowId, Live(i), Live(j),
         rows[i].uid = rows[j].uid, rows[i].row.recur.utc = rows[j].row.recur.utc
  PROVE  i = j
<1>1. SoundRow(i) /\ SoundRow(j)
  BY DEF RowsSound, Live
<1>2. rows[i].key = rows[j].key
  BY <1>1, InstantsApart DEF SoundRow
<1> QED
  BY <1>2 DEF OneLiveRow

\* What is in memory is not disturbed by the tables.
LEMMA MemoryStays ==
  ASSUME MemorySound, UNCHANGED zone, state' \in [Key -> State], DOMAIN obj' = Key,
         \A k \in Key : state'[k] # "gone" =>
           state[k] # "gone" /\ obj'[k].recurrenceId = obj[k].recurrenceId
  PROVE  MemorySound'
<1>1. \A k \in Key, z \in Known : state'[k] # "gone" => RecurId(obj'[k], z) = RecurId(obj[k], z)
  BY DEF RecurId
<1> QED
  BY <1>1 DEF MemorySound, Instants

\* Rows may disappear at any time.
LEMMA RowsDropped ==
  ASSUME RowsSound, OneLiveRow, NoTombBesideLive,
         \A id \in RowId : rows'[id] \in {rows[id], NoRow},
         \A k \in Key : state'[k] = "insert" => state[k] = "insert",
         failed => failed'
  PROVE  RowsSound' /\ OneLiveRow' /\ NoTombBesideLive'
<1>1. \A id \in RowId : rows'[id] # NoRow => rows'[id] = rows[id]
  OBVIOUS
<1>2. RowsSound'
  <2> SUFFICES ASSUME NEW id \in RowId, rows'[id] # NoRow
               PROVE  SoundRow(id)'
    BY DEF RowsSound
  <2>1. rows'[id] = rows[id] /\ SoundRow(id)
    BY <1>1 DEF RowsSound
  <2> QED
    BY <2>1 DEF SoundRow, Instants
<1>3. \A id \in RowId : (Live(id)' => Live(id)) /\ (Tomb(id)' => Tomb(id))
  BY <1>1 DEF Live, Tomb
<1>4. OneLiveRow'
  BY <1>1, <1>3 DEF OneLiveRow, Live
<1>5. NoTombBesideLive'
  BY <1>1, <1>3 DEF NoTombBesideLive, Live, Tomb
<1> QED
  BY <1>2, <1>4, <1>5

-----------------------------------------------------------------------------
(* The calendar, between two saves. *)

LEMMA IdentityAdd ==
  ASSUME IdentityInv, NEW k \in Key, NEW i \in Contents[k], Add(k, i)
  PROVE  IdentityInv'
<1> USE DEF IdentityInv
<1>1. /\ obj' = [obj EXCEPT ![k] = i] /\ state' = [state EXCEPT ![k] = "insert"]
      /\ UNCHANGED <<zone, rows, failed>>
      /\ \A id \in RowId : Live(id) => rows[id].key # k
  BY DEF Add, tables, history
<1>2. i.recurrenceId \in RecurTime /\ \A z \in Known : RecurId(i, z) \in Instants(k)
  BY RecurrenceAssumption DEF RecurTime, Instants
<1>3. MemorySound'
  <2>1. state' \in [Key -> State] /\ DOMAIN obj' = Key
    BY <1>1 DEF MemorySound, State
  <2>2. ASSUME NEW l \in Key, state'[l] # "gone"
        PROVE  obj'[l].recurrenceId \in RecurTime /\ \A z \in Known : RecurId(obj'[l], z) \in Instants(l)
    <3>1. CASE l = k
      BY <1>1, <1>2, <3>1 DEF MemorySound
    <3>2. CASE l # k
      BY <1>1, <2>2, <3>2 DEF MemorySound
    <3> QED
      BY <3>1, <3>2
  <2> QED
    BY <1>1, <2>1, <2>2, InstantsConstant DEF MemorySound
<1>4. RowsSound' /\ NoTombBesideLive'
  BY <1>1 DEF RowsSound, SoundRow, Instants, NoTombBesideLive, Live, Tomb
<1>5. OneLiveRow'
  <2>1. \A l \in Key : state'[l] = "insert" => l = k \/ state[l] = "insert"
    BY <1>1 DEF MemorySound
  <2> QED
    BY <1>1, <2>1 DEF OneLiveRow, Live
<1> QED
  BY <1>3, <1>4, <1>5

LEMMA IdentityEdit ==
  ASSUME IdentityInv, NEW k \in Key, NEW i \in Contents[k], Edit(k, i)
  PROVE  IdentityInv'
<1> USE DEF IdentityInv
<1>1. /\ obj' = [obj EXCEPT ![k] = [i EXCEPT !.recurrenceId = obj[k].recurrenceId]]
      /\ state' = [state EXCEPT ![k] = IF @ = "clean" THEN "update" ELSE @]
      /\ state[k] \in {"clean", "insert", "update"}
      /\ UNCHANGED <<zone, rows, failed>>
  BY DEF Edit, tables, history
<1>2. [i EXCEPT !.recurrenceId = obj[k].recurrenceId].recurrenceId = obj[k].recurrenceId
  BY RecurrenceAssumption
<1>3. MemorySound'
  <2>1. state' \in [Key -> State] /\ DOMAIN obj' = Key
    BY <1>1 DEF MemorySound, State
  <2>2. \A l \in Key : obj'[l].recurrenceId = obj[l].recurrenceId
    BY <1>1, <1>2 DEF MemorySound
  <2>3. \A l \in Key : state'[l] # "gone" => state[l] # "gone"
    BY <1>1 DEF MemorySound
  <2> QED
    BY <1>1, <2>1, <2>2, <2>3, MemoryStays
<1>4. \A l \in Key : state'[l] = "insert" => state[l] = "insert"
  BY <1>1 DEF MemorySound
<1> QED
  BY <1>1, <1>3, <1>4, RowsDropped

LEMMA IdentityDelete ==
  ASSUME IdentityInv, NEW k \in Key, Delete(k)
  PROVE  IdentityInv'
<1> USE DEF IdentityInv
<1>1. /\ \/ state' = [state EXCEPT ![k] = "gone"] /\ obj' = [obj EXCEPT ![k] = NoObject]
         \/ state' = [state EXCEPT ![k] = "delete"] /\ obj' = obj
      /\ state[k] \in {"clean", "insert", "update"}
      /\ UNCHANGED <<zone, rows, failed>>
  BY DEF Delete, Forget, tables, history
<1>2. MemorySound'
  <2>1. state' \in [Key -> State] /\ DOMAIN obj' = Key
    BY <1>1 DEF MemorySound, State
  <2>2. \A l \in Key : state'[l] # "gone" =>
          state[l] # "gone" /\ obj'[l].recurrenceId = obj[l].recurrenceId
    BY <1>1 DEF MemorySound
  <2> QED
    BY <1>1, <2>1, <2>2, MemoryStays
<1>3. \A l \in Key : state'[l] = "insert" => state[l] = "insert"
  BY <1>1 DEF MemorySound
<1> QED
  BY <1>1, <1>2, <1>3, RowsDropped

LEMMA IdentityReload ==
  ASSUME IdentityInv, NEW z \in Known, Reload(z)
  PROVE  IdentityInv'
<1> USE DEF IdentityInv
<1> DEFINE live(k) == {id \in RowId : Live(id) /\ rows[id].key = k}
<1>1. /\ zone' = z /\ UNCHANGED <<rows, failed>>
      /\ state' = [k \in Key |-> IF live(k) = {} THEN "gone" ELSE "clean"]
      /\ obj' = [k \in Key |-> IF live(k) = {} THEN NoObject
                               ELSE Loaded(CHOOSE id \in live(k) : TRUE)]
  BY DEF Reload, tables, history
<1>2. state' \in [Key -> State] /\ DOMAIN obj' = Key
      /\ \A k \in Key : state'[k] # "insert" /\ (state'[k] # "gone" => live(k) # {})
  BY <1>1 DEF State
<1>3. ASSUME NEW k \in Key, state'[k] # "gone"
      PROVE  obj'[k].recurrenceId \in RecurTime /\ \A y \in Known : RecurId(obj'[k], y) \in Instants(k)
  <2>1. PICK id \in live(k) : obj'[k] = Loaded(id)
    BY <1>1, <1>2, <1>3
  <2>2. SoundRow(id) /\ rows[id].key = k
    BY <2>1 DEF RowsSound, Live
  <2>3. obj'[k].recurrenceId = GetDateTime(rows[id].row.recur)
    <3>1. Loaded(id).recurrenceId = GetDateTime(rows[id].row.recur)
      BY DEF Loaded, ReadComponent
    <3> QED
      BY <2>1, <3>1
  <2>4. \A y \in Known : RecurId(obj'[k], y) = rows[id].row.recur.utc
    BY <2>2, <2>3, LoadedRecur DEF RecurId, SoundRow
  <2> QED
    BY <2>2, <2>3, <2>4, LoadedRecur DEF SoundRow
<1>4. MemorySound'
  BY <1>1, <1>2, <1>3, InstantsConstant DEF MemorySound
<1> QED
  BY <1>1, <1>2, <1>4, RowsDropped

-----------------------------------------------------------------------------
(* save() *)

\* The incidence whose turn it was leaves its list.
LEMMA DoneMemory ==
  ASSUME MemorySound, NEW k \in Key, Done(k), state[k] = phase, phase # "gone", UNCHANGED zone
  PROVE  /\ MemorySound'
         /\ state'[k] # "insert"
         /\ \A l \in Key : state'[l] = "insert" => state[l] = "insert"
<1>1. \/ state' = [state EXCEPT ![k] = "gone"] /\ obj' = [obj EXCEPT ![k] = NoObject]
      \/ state' = [state EXCEPT ![k] = "clean"] /\ obj' = obj
  BY DEF Done, Forget
<1>2. state' \in [Key -> State] /\ DOMAIN obj' = Key
  BY <1>1 DEF MemorySound, State
<1>3. \A l \in Key : state'[l] # "gone" =>
        state[l] # "gone" /\ obj'[l].recurrenceId = obj[l].recurrenceId
  BY <1>1 DEF MemorySound
<1>4. state'[k] # "insert" /\ \A l \in Key : state'[l] = "insert" => state[l] = "insert"
  BY <1>1 DEF MemorySound
<1> QED
  BY <1>2, <1>3, <1>4, MemoryStays

LEMMA IdentityInsert ==
  ASSUME IInv, IdentityInv, NEW k \in Key, NEW freed, NEW fault, NEW purge \in BOOLEAN,
         SaveInsert(k, freed, fault, purge)
  PROVE  IdentityInv'
<1> USE DEF IdentityInv
<1>1. phase = "insert" /\ state[k] = "insert" /\ Done(k) /\ UNCHANGED zone
  BY DEF SaveInsert
<1>2. /\ MemorySound' /\ state'[k] # "insert"
      /\ \A l \in Key : state'[l] = "insert" => state[l] = "insert"
  BY <1>1, DoneMemory
<1>3. CASE fault.at = "row"
  <2>1. UNCHANGED rows /\ failed'
    BY <1>3 DEF SaveInsert, tables
  <2> QED
    BY <1>2, <2>1, RowsDropped
<1>4. CASE fault.at # "row"
  <2> DEFINE gone == IF stuck \/ ~purge THEN {} ELSE DeadRows(k)
             new == [uid |-> k.uid, key |-> k, deleted |-> FALSE,
                     row |-> ComponentRow(obj[k], zone)]
  <2>1. /\ rows' = Purged([rows EXCEPT ![NewId] = new], gone, NoRow)
        /\ failed' = (failed \/ stuck \/ ~purge)
    BY <1>4 DEF SaveInsert
  <2>2. \A id \in RowId : id = NewId => rows[id] = NoRow /\ id \notin gone
    BY DEF IInv, Columns, FreshIds, Unused, NewId, DeadRows, WithIdentity, RowId
  <2>3. /\ DOMAIN new = {"uid", "key", "deleted", "row"} /\ new # NoRow
        /\ new.uid = k.uid /\ new.key = k /\ new.deleted = FALSE
        /\ RecurKept(new.row.recur)
        /\ new.row.recur.utc = RecurId(obj[k], zone)
        /\ RecurId(obj[k], zone) \in Instants(k)
    <3>1. obj[k].recurrenceId \in RecurTime /\ zone \in Known /\ RecurId(obj[k], zone) \in Instants(k)
      BY <1>1 DEF MemorySound
    <3>2. new.row.recur = RecurrenceColumns(obj[k], zone)
      BY DEF ComponentRow
    <3>3. DOMAIN new # DOMAIN NoRow
      BY DEF NoRow
    <3> QED
      BY <3>1, <3>2, <3>3, StoredRecur
  <2> HIDE DEF new
  <2>4. DOMAIN rows = RowId
    BY DEF IInv, Columns
  <2>5. \A id \in RowId : /\ id = NewId => rows'[id] = new
                          /\ id # NewId /\ id \in gone => rows'[id] = NoRow
                          /\ id # NewId /\ id \notin gone => rows'[id] = rows[id]
    BY <2>1, <2>2, <2>4 DEF Purged
  <2> HIDE DEF gone
  <2>6. RowsSound'
    <3> SUFFICES ASSUME NEW id \in RowId, rows'[id] # NoRow
                 PROVE  SoundRow(id)'
      BY DEF RowsSound
    <3>1. CASE id = NewId
      <4>1. rows'[id] = new
        BY <2>5, <3>1
      <4> QED
        BY <2>3, <4>1, InstantsConstant DEF SoundRow
    <3>2. CASE id # NewId
      <4>1. rows'[id] = rows[id] /\ SoundRow(id)
        BY <2>5, <3>2 DEF RowsSound
      <4> QED
        BY <4>1 DEF SoundRow, Instants
    <3> QED
      BY <3>1, <3>2
  <2>7. \A id \in RowId : id # NewId /\ rows'[id] # NoRow => rows'[id] = rows[id] /\ id \notin gone
    BY <2>5
  <2>8. \A id \in RowId : Live(id) => rows[id].key # k
    BY <1>1 DEF OneLiveRow
  <2>9. OneLiveRow'
    <3>1. ASSUME NEW i \in RowId, NEW j \in RowId, Live(i)', Live(j)', rows'[i].key = rows'[j].key
          PROVE  i = j
      BY <2>3, <2>5, <2>7, <2>8, <3>1 DEF Live, OneLiveRow
    <3>2. ASSUME NEW l \in Key, NEW id \in RowId, state'[l] = "insert", Live(id)'
          PROVE  rows'[id].key # l
      BY <1>2, <2>3, <2>5, <2>7, <3>2 DEF Live, OneLiveRow
    <3> QED
      BY <3>1, <3>2 DEF OneLiveRow
  <2>10. NoTombBesideLive'
    <3> SUFFICES ASSUME ~failed', NEW l \in RowId, NEW t \in RowId, Live(l)', Tomb(t)',
                        rows'[l].uid = rows'[t].uid,
                        rows'[l].row.recur.utc = rows'[t].row.recur.utc
                 PROVE  FALSE
      BY DEF NoTombBesideLive
    <3>1. ~failed /\ gone = DeadRows(k)
      BY <2>1 DEF gone
    <3>2. t # NewId /\ rows'[t] = rows[t] /\ Tomb(t) /\ t \notin gone
      BY <2>3, <2>5, <2>7 DEF Tomb
    <3>3. CASE l = NewId
      <4>1. rows[t].uid = k.uid /\ rows[t].row.recur.utc = RecurId(obj[k], zone)
        BY <2>3, <2>5, <3>2, <3>3
      <4>2. t \in DeadRows(k)
        BY <3>2, <4>1 DEF DeadRows, WithIdentity, Tomb
      <4> QED
        BY <3>1, <3>2, <4>2
    <3>4. CASE l # NewId
      <4>1. rows'[l] = rows[l] /\ Live(l)
        BY <2>7, <3>4 DEF Live
      <4> QED
        BY <3>1, <3>2, <4>1 DEF NoTombBesideLive
    <3> QED
      BY <3>3, <3>4
  <2> QED
    BY <1>2, <2>6, <2>9, <2>10
<1> QED
  BY <1>3, <1>4

LEMMA IdentityUpdate ==
  ASSUME IInv, IdentityInv, NEW k \in Key, NEW freed, NEW fault, SaveUpdate(k, freed, fault)
  PROVE  IdentityInv'
<1> USE DEF IdentityInv
<1>1. phase = "update" /\ state[k] = "update" /\ Done(k) /\ UNCHANGED zone
  BY DEF SaveUpdate
<1>2. /\ MemorySound'
      /\ \A l \in Key : state'[l] = "insert" => state[l] = "insert"
  BY <1>1, DoneMemory
<1>3. CASE FoundRows(k) = {} \/ fault.at = "row"
  <2>1. UNCHANGED rows /\ failed'
    BY <1>3 DEF SaveUpdate, tables
  <2> QED
    BY <1>2, <2>1, RowsDropped
<1>4. CASE ~(FoundRows(k) = {} \/ fault.at = "row")
  <2>1. PICK id \in FoundRows(k) :
          /\ rows' = [rows EXCEPT ![id].row = ComponentRow(obj[k], zone)]
          /\ UNCHANGED failed
    BY <1>4 DEF SaveUpdate
  <2>2. /\ id \in RowId /\ rows[id] # NoRow /\ SoundRow(id)
        /\ rows[id].row.recur.utc = RecurId(obj[k], zone)
    BY <2>1 DEF FoundRows, WithIdentity, RowsSound
  <2>3. DOMAIN rows = RowId
    BY DEF IInv, Columns
  <2> DEFINE new == [rows[id] EXCEPT !.row = ComponentRow(obj[k], zone)]
  <2>4. rows'[id] = new /\ \A other \in RowId \ {id} : rows'[other] = rows[other]
    BY <2>1, <2>2, <2>3
  <2>5. /\ DOMAIN new = {"uid", "key", "deleted", "row"}
        /\ new.uid = rows[id].uid /\ new.key = rows[id].key /\ new.deleted = rows[id].deleted
        /\ new.row = ComponentRow(obj[k], zone)
    BY <2>2 DEF SoundRow
  <2> HIDE DEF new
  <2>6. RecurKept(new.row.recur) /\ new.row.recur.utc = rows[id].row.recur.utc
    <3>1. obj[k].recurrenceId \in RecurTime /\ zone \in Known
      BY <1>1 DEF MemorySound
    <3>2. new.row.recur = RecurrenceColumns(obj[k], zone)
      BY <2>5 DEF ComponentRow
    <3> QED
      BY <2>2, <3>1, <3>2, StoredRecur
  <2>7. new # NoRow
    <3>1. DOMAIN new # DOMAIN NoRow
      BY <2>5 DEF NoRow
    <3> QED
      BY <3>1
  <2>8. \A other \in RowId :
          /\ rows'[other] # NoRow <=> rows[other] # NoRow
          /\ rows[other] # NoRow =>
               /\ rows'[other].uid = rows[other].uid /\ rows'[other].key = rows[other].key
               /\ rows'[other].deleted = rows[other].deleted
               /\ rows'[other].row.recur.utc = rows[other].row.recur.utc
    BY <2>2, <2>4, <2>5, <2>6, <2>7
  <2>9. RowsSound'
    <3> SUFFICES ASSUME NEW other \in RowId, rows'[other] # NoRow
                 PROVE  SoundRow(other)'
      BY DEF RowsSound
    <3>1. CASE other = id
      BY <2>2, <2>4, <2>5, <2>6, <3>1 DEF SoundRow, Instants
    <3>2. CASE other # id
      <4>1. rows'[other] = rows[other] /\ SoundRow(other)
        BY <2>4, <3>2 DEF RowsSound
      <4> QED
        BY <4>1 DEF SoundRow, Instants
    <3> QED
      BY <3>1, <3>2
  <2>10. OneLiveRow'
    BY <1>2, <2>8 DEF OneLiveRow, Live
  <2>11. NoTombBesideLive'
    BY <2>1, <2>8 DEF NoTombBesideLive, Live, Tomb
  <2> QED
    BY <1>2, <2>9, <2>10, <2>11
<1> QED
  BY <1>3, <1>4

LEMMA IdentityMark ==
  ASSUME IInv, IdentityInv, NEW k \in Key, NEW freed, NEW fault, SaveMark(k, freed, fault)
  PROVE  IdentityInv'
<1> USE DEF IdentityInv
<1>1. phase = "delete" /\ state[k] = "delete" /\ Done(k) /\ UNCHANGED zone
  BY DEF SaveMark
<1>2. /\ MemorySound'
      /\ \A l \in Key : state'[l] = "insert" => state[l] = "insert"
  BY <1>1, DoneMemory
<1>3. CASE FoundRows(k) = {} \/ fault.at = "row"
  <2>1. UNCHANGED rows /\ failed'
    BY <1>3 DEF SaveMark, tables
  <2> QED
    BY <1>2, <2>1, RowsDropped
<1>4. CASE ~(FoundRows(k) = {} \/ fault.at = "row")
  <2>1. PICK id \in FoundRows(k) :
          rows' = [rows EXCEPT ![id].deleted = TRUE] /\ UNCHANGED failed
    BY <1>4 DEF SaveMark
  <2>2. /\ id \in RowId /\ rows[id] # NoRow /\ SoundRow(id) /\ Live(id)
    BY <2>1 DEF FoundRows, WithIdentity, RowsSound, Live
  <2>3. DOMAIN rows = RowId
    BY DEF IInv, Columns
  <2> DEFINE new == [rows[id] EXCEPT !.deleted = TRUE]
  <2>4. rows'[id] = new /\ \A other \in RowId \ {id} : rows'[other] = rows[other]
    BY <2>1, <2>2, <2>3
  <2>5. /\ DOMAIN new = {"uid", "key", "deleted", "row"}
        /\ new.uid = rows[id].uid /\ new.key = rows[id].key /\ new.deleted = TRUE
        /\ new.row = rows[id].row
    BY <2>2 DEF SoundRow
  <2> HIDE DEF new
  <2>6. RowsSound'
    <3> SUFFICES ASSUME NEW other \in RowId, rows'[other] # NoRow
                 PROVE  SoundRow(other)'
      BY DEF RowsSound
    <3>1. CASE other = id
      <4>1. rows'[other] = new
        BY <2>4, <3>1
      <4> QED
        BY <2>2, <2>5, <4>1, InstantsConstant DEF SoundRow
    <3>2. CASE other # id
      <4>1. rows'[other] = rows[other] /\ SoundRow(other)
        BY <2>4, <3>2 DEF RowsSound
      <4> QED
        BY <4>1 DEF SoundRow, Instants
    <3> QED
      BY <3>1, <3>2
  <2>7. \A other \in RowId : Live(other)' => Live(other) /\ other # id /\ rows'[other] = rows[other]
    BY <2>4, <2>5 DEF Live
  <2>8. OneLiveRow'
    BY <1>2, <2>7 DEF OneLiveRow, Live
  <2>9. NoTombBesideLive'
    <3> SUFFICES ASSUME ~failed', NEW l \in RowId, NEW t \in RowId, Live(l)', Tomb(t)',
                        rows'[l].uid = rows'[t].uid,
                        rows'[l].row.recur.utc = rows'[t].row.recur.utc
                 PROVE  FALSE
      BY DEF NoTombBesideLive
    <3>1. Live(l) /\ l # id /\ rows'[l] = rows[l] /\ ~failed
      BY <2>1, <2>7
    <3>2. CASE t = id
      <4>1. rows[l].uid = rows[id].uid /\ rows[l].row.recur.utc = rows[id].row.recur.utc
        BY <2>4, <2>5, <3>1, <3>2
      <4> QED
        BY <2>2, <3>1, <4>1, LiveIdentity
    <3>3. CASE t # id
      <4>1. Tomb(t) /\ rows'[t] = rows[t]
        BY <2>4, <3>3 DEF Tomb
      <4> QED
        BY <3>1, <4>1 DEF NoTombBesideLive
    <3> QED
      BY <3>2, <3>3
  <2> QED
    BY <1>2, <2>6, <2>8, <2>9
<1> QED
  BY <1>3, <1>4

\* Erasing rows, by save() or by purgeDeletedIncidences().
LEMMA IdentityErase ==
  ASSUME IdentityInv, NEW D, rows' \in {rows, Purged(rows, D, NoRow)},
         MemorySound', \A l \in Key : state'[l] = "insert" => state[l] = "insert",
         failed => failed'
  PROVE  IdentityInv'
<1>1. \A id \in RowId : rows'[id] \in {rows[id], NoRow}
  BY DEF Purged
<1> QED
  BY <1>1, RowsDropped DEF IdentityInv

LEMMA IdentityStep == IInv /\ IdentityInv /\ [Next]_vars => IdentityInv'
<1> SUFFICES ASSUME IInv, IdentityInv, [Next]_vars PROVE IdentityInv'
  OBVIOUS
<1>1. ASSUME NEW k \in Key, NEW i \in Contents[k], Add(k, i) \/ Edit(k, i) PROVE IdentityInv'
  BY <1>1, IdentityAdd, IdentityEdit
<1>2. ASSUME NEW k \in Key, Delete(k) PROVE IdentityInv'
  BY <1>2, IdentityDelete
<1>3. ASSUME NEW z \in Known, Reload(z) PROVE IdentityInv'
  BY <1>3, IdentityReload
<1>4. ASSUME UNCHANGED <<memory, rows, failed>> PROVE IdentityInv'
  BY <1>4 DEF IdentityInv, RowsSound, SoundRow, MemorySound, OneLiveRow, NoTombBesideLive,
    Instants, Live, Tomb, memory
<1>5. ASSUME NEW action, SaveBegin(action) PROVE IdentityInv'
  BY <1>4, <1>5 DEF SaveBegin, tables, history
<1>6. CASE NextPhase
  BY <1>4, <1>6 DEF NextPhase, tables, history
<1>7. ASSUME NEW k \in Key, NEW freed \in BOOLEAN, NEW fault \in Fault,
             \/ \E purge \in BOOLEAN : SaveInsert(k, freed, fault, purge)
             \/ SaveUpdate(k, freed, fault)
             \/ SaveMark(k, freed, fault)
      PROVE  IdentityInv'
  BY <1>7, IdentityInsert, IdentityUpdate, IdentityMark
<1>8. ASSUME NEW k \in Key, NEW fault \in Fault, SaveDelete(k, fault) PROVE IdentityInv'
  <2>1. phase = "delete" /\ state[k] = "delete" /\ Done(k) /\ UNCHANGED zone
    BY <1>8 DEF SaveDelete
  <2>2. MemorySound' /\ \A l \in Key : state'[l] = "insert" => state[l] = "insert"
    BY <2>1, DoneMemory DEF IdentityInv
  <2>3. (failed => failed') /\ \E D : rows' \in {rows, Purged(rows, D, NoRow)}
    BY <1>8 DEF SaveDelete, tables
  <2> QED
    BY <2>2, <2>3, IdentityErase
<1>9. ASSUME NEW D, NEW gone, NEW fault, Purge(D, gone, fault) PROVE IdentityInv'
  <2>1. /\ rows' = Purged(rows, gone, NoRow) /\ UNCHANGED memory
        /\ failed' = (failed \/ gone # D)
    BY <1>9 DEF Purge
  <2>2. MemorySound'
    BY <2>1 DEF IdentityInv, MemorySound, memory, Instants
  <2>3. \A l \in Key : state'[l] = "insert" => state[l] = "insert"
    BY <2>1 DEF memory
  <2>4. failed => failed'
    BY <2>1
  <2> QED
    BY <2>1, <2>2, <2>3, <2>4, IdentityErase
<1>10. CASE UNCHANGED vars
  BY <1>4, <1>10 DEF vars, tables, history
<1> QED
  BY <1>1, <1>2, <1>3, <1>5, <1>6, <1>7, <1>8, <1>9, <1>10 DEF Next

LEMMA IdentityInvHolds == Spec => []IdentityInv
<1>1. Init => IdentityInv
  <2> SUFFICES ASSUME Init PROVE IdentityInv
    OBVIOUS
  <2>1. \A id \in RowId : rows[id] = NoRow
    BY DEF Init
  <2>2. MemorySound
    BY DEF Init, MemorySound, State
  <2>3. \A k \in Key : state[k] # "insert"
    BY DEF Init
  <2> QED
    BY <2>1, <2>2, <2>3
    DEF IdentityInv, RowsSound, OneLiveRow, NoTombBesideLive, Live, Tomb
<1> QED
  BY <1>1, IdentityStep, IdsFresh, PTL DEF Spec

\* What was loaded is found again when it is updated or deleted, in whatever
\* zone the system is by then (selectRowId, getDateTime, setDateTime).
THEOREM FoundAgain == Spec => []LoadedIsFound
<1>1. IdentityInv => LoadedIsFound
  <2> SUFFICES ASSUME IdentityInv, NEW id \in RowId, Live(id), NEW z \in Known
               PROVE  RecurId(Loaded(id), z) = rows[id].row.recur.utc
    BY DEF LoadedIsFound
  <2>1. RecurKept(rows[id].row.recur)
    BY DEF IdentityInv, RowsSound, SoundRow, Live
  <2>2. Loaded(id).recurrenceId = GetDateTime(rows[id].row.recur)
    BY DEF Loaded, ReadComponent
  <2> QED
    BY <2>1, <2>2, LoadedRecur DEF RecurId
<1> QED
  BY <1>1, IdentityInvHolds, PTL

\* As long as every save and purge has returned true, no deleted row stands
\* beside a live one of the same identity (sqlitestorage.cpp:1764): the save
\* that inserts purges them, and the one that marks has found the only live row.
THEOREM TombsPurged == Spec => []NoTombBesideLive
BY IdentityInvHolds, PTL DEF IdentityInv

-----------------------------------------------------------------------------
(***************************************************************************)
(* Types.  What is not already known is the progress of a save and that    *)
(* the ids do not run out: each incidence still to be inserted has one     *)
(* reserved for it.                                                        *)
(***************************************************************************)

Progress ==
  /\ phase \in Phase
  /\ deleteAction \in {"MarkDeleted", "PurgeDeleted"}
  /\ leftover \in BOOLEAN /\ stuck \in BOOLEAN
  /\ stuck => phase = "insert"
  /\ leftover => phase # "idle"

Counted ==
  /\ faults \in 0 .. MaxFaults
  /\ failed \in BOOLEAN
  /\ DOMAIN written = RowId

Room == IsFiniteSet(List("insert")) /\ lastId + Cardinality(List("insert")) <= MaxRowId

TInv == IInv /\ IdentityInv /\ Progress /\ Counted /\ Room

LEMMA ListAfterPhase == \A ph : ListAfter(ph) \in Phase
BY DEF ListAfter, Phase

LEMMA ProgressStep == Progress /\ [Next]_vars => Progress'
<1> SUFFICES ASSUME Progress, [Next]_vars PROVE Progress'
  OBVIOUS
<1>1. ASSUME UNCHANGED saving PROVE Progress'
  BY <1>1 DEF Progress, saving
<1>2. ASSUME NEW k \in Key, NEW i, Add(k, i) \/ Edit(k, i) PROVE Progress'
  BY <1>1, <1>2 DEF Add, Edit
<1>3. ASSUME NEW k \in Key, Delete(k) PROVE Progress'
  BY <1>1, <1>3 DEF Delete
<1>4. ASSUME NEW z, Reload(z) PROVE Progress'
  BY <1>1, <1>4 DEF Reload
<1>5. ASSUME NEW action \in {"MarkDeleted", "PurgeDeleted"}, SaveBegin(action) PROVE Progress'
  <2>1. /\ phase = "idle" /\ phase' \in Phase /\ deleteAction' = action
        /\ leftover' = FALSE /\ stuck' = stuck
    BY <1>5, ListAfterPhase DEF SaveBegin, Idle
  <2>2. stuck = FALSE
    BY <2>1 DEF Progress
  <2> QED
    BY <2>1, <2>2 DEF Progress
<1>6. ASSUME NEW k, NEW freed, NEW fault, NEW purge \in BOOLEAN, SaveInsert(k, freed, fault, purge)
      PROVE  Progress'
  <2>1. /\ phase = "insert" /\ phase' = phase /\ deleteAction' = deleteAction
        /\ leftover' = TRUE
        /\ stuck' = stuck \/ stuck' = (stuck \/ ~purge)
    BY <1>6 DEF SaveInsert
  <2>2. stuck' \in BOOLEAN
    BY <2>1 DEF Progress
  <2> QED
    BY <2>1, <2>2 DEF Progress
<1>7. ASSUME NEW k, NEW freed, NEW fault, SaveUpdate(k, freed, fault) PROVE Progress'
  <2>1. /\ phase = "update" /\ UNCHANGED <<phase, deleteAction, stuck>> /\ leftover' = TRUE
    BY <1>7 DEF SaveUpdate
  <2> QED
    BY <2>1 DEF Progress
<1>8. ASSUME NEW k, NEW freed, NEW fault, SaveMark(k, freed, fault) \/ SaveDelete(k, fault)
      PROVE  Progress'
  BY <1>1, <1>8 DEF SaveMark, SaveDelete, saving
<1>9. CASE NextPhase
  <2>1. /\ phase' \in Phase /\ stuck' = FALSE
        /\ leftover' = (leftover /\ phase' # "idle")
        /\ deleteAction' \in {"MarkDeleted", deleteAction}
    BY <1>9, ListAfterPhase DEF NextPhase, Finalized
  <2> QED
    BY <2>1 DEF Progress
<1>10. ASSUME NEW D, NEW gone, NEW fault, Purge(D, gone, fault) PROVE Progress'
  BY <1>1, <1>10 DEF Purge
<1>11. CASE UNCHANGED vars
  BY <1>1, <1>11 DEF vars
<1> QED
  BY <1>2, <1>3, <1>4, <1>5, <1>6, <1>7, <1>8, <1>9, <1>10, <1>11 DEF Next

LEMMA CountSuffices ==
  ASSUME Counted, NEW fault, NEW others \in {0, 1}, Count(fault, others)
  PROVE  faults' \in 0 .. MaxFaults
BY MaxFaultsAssumption DEF Counted, Count

LEMMA CountedStep == Counted /\ Progress /\ [Next]_vars => Counted'
<1> SUFFICES ASSUME Counted, Progress, [Next]_vars PROVE Counted'
  OBVIOUS
<1>1. ASSUME UNCHANGED history PROVE Counted'
  BY <1>1 DEF Counted, history
<1>2. ASSUME NEW k \in Key, NEW i, Add(k, i) \/ Edit(k, i) PROVE Counted'
  BY <1>1, <1>2 DEF Add, Edit
<1>3. ASSUME NEW k \in Key, Delete(k) PROVE Counted'
  BY <1>1, <1>3 DEF Delete
<1>4. ASSUME NEW z, Reload(z) PROVE Counted'
  BY <1>1, <1>4 DEF Reload
<1>5. ASSUME NEW action, SaveBegin(action) PROVE Counted'
  BY <1>1, <1>5 DEF SaveBegin
<1>6. ASSUME NEW k, NEW freed, NEW fault, NEW purge \in BOOLEAN, SaveInsert(k, freed, fault, purge)
      PROVE  Counted'
  <2>1. faults' \in 0 .. MaxFaults
    <3>1. Count(fault, 0) \/ Count(fault, 1)
      BY <1>6 DEF SaveInsert
    <3> QED
      BY <3>1, CountSuffices
  <2>2. failed' = TRUE \/ failed' = (failed \/ stuck \/ ~purge)
    BY <1>6 DEF SaveInsert
  <2>3. failed' \in BOOLEAN
    BY <2>2 DEF Counted, Progress
  <2>4. DOMAIN written' = RowId
    BY <1>6 DEF SaveInsert, Purged, Counted
  <2> QED
    BY <2>1, <2>3, <2>4 DEF Counted, RowId
<1>7. ASSUME NEW k, NEW freed, NEW fault, SaveUpdate(k, freed, fault) PROVE Counted'
  <2>1. faults' \in 0 .. MaxFaults
    BY <1>7, CountSuffices DEF SaveUpdate
  <2>2. failed' \in BOOLEAN /\ DOMAIN written' = RowId
    BY <1>7 DEF SaveUpdate, Counted
  <2> QED
    BY <2>1, <2>2 DEF Counted, RowId
<1>8. ASSUME NEW k, NEW freed, NEW fault, SaveMark(k, freed, fault) PROVE Counted'
  <2>1. faults' \in 0 .. MaxFaults
    BY <1>8, CountSuffices DEF SaveMark
  <2>2. failed' \in BOOLEAN /\ DOMAIN written' = RowId
    BY <1>8 DEF SaveMark, Counted
  <2> QED
    BY <2>1, <2>2 DEF Counted, RowId
<1>9. ASSUME NEW k, NEW fault, SaveDelete(k, fault) PROVE Counted'
  <2>1. faults' \in 0 .. MaxFaults
    BY <1>9, CountSuffices DEF SaveDelete
  <2>2. failed' \in BOOLEAN /\ DOMAIN written' = RowId
    BY <1>9 DEF SaveDelete, Counted, Purged
  <2> QED
    BY <2>1, <2>2 DEF Counted, RowId
<1>10. CASE NextPhase
  BY <1>1, <1>10 DEF NextPhase
<1>11. ASSUME NEW D, NEW gone, NEW fault, Purge(D, gone, fault) PROVE Counted'
  <2>1. faults' \in 0 .. MaxFaults
    <3>1. Count(fault, 0) \/ Count(fault, 1)
      BY <1>11 DEF Purge
    <3> QED
      BY <3>1, CountSuffices
  <2>2. failed' = (failed \/ gone # D)
    BY <1>11 DEF Purge
  <2>3. failed' \in BOOLEAN
    BY <2>2
  <2>4. DOMAIN written' = RowId
    BY <1>11 DEF Purge, Purged
  <2> QED
    BY <2>1, <2>3, <2>4 DEF Counted, RowId
<1>12. CASE UNCHANGED vars
  BY <1>1, <1>12 DEF vars
<1> QED
  BY <1>2, <1>3, <1>4, <1>5, <1>6, <1>7, <1>8, <1>9, <1>10, <1>11, <1>12 DEF Next

\* Nothing is added to the list, and no id is given.
LEMMA RoomStays ==
  ASSUME Room, lastId \in Nat, lastId' = lastId,
         \A k \in Key : state'[k] = "insert" => state[k] = "insert"
  PROVE  Room'
<1>1. List("insert")' \subseteq List("insert")
  BY DEF List
<1>2. IsFiniteSet(List("insert")) /\ Cardinality(List("insert")) \in Nat
  BY FS_CardinalityType DEF Room
<1>3. /\ IsFiniteSet(List("insert")') /\ Cardinality(List("insert")') \in Nat
      /\ Cardinality(List("insert")') <= Cardinality(List("insert"))
  BY <1>1, <1>2, FS_Subset, FS_CardinalityType
<1>4. lastId' + Cardinality(List("insert")') <= MaxRowId
  BY <1>2, <1>3, MaxRowIdAssumption DEF Room
<1> QED
  BY <1>3, <1>4 DEF Room

\* Adding takes the room that is left.
LEMMA RoomAdd ==
  ASSUME Room, MemorySound, lastId \in Nat, NEW k \in Key, NEW i, Add(k, i)
  PROVE  Room'
<1> DEFINE L == List("insert")
<1>1. /\ state' = [state EXCEPT ![k] = "insert"] /\ state[k] = "gone" /\ lastId' = lastId
      /\ lastId + Cardinality(L) < MaxRowId
  BY DEF Add, tables
<1>2. List("insert")' = L \cup {k} /\ k \notin L
  BY <1>1 DEF List, MemorySound
<1>3. IsFiniteSet(L) /\ Cardinality(L) \in Nat
  BY FS_CardinalityType DEF Room
<1> HIDE DEF L
<1>4. IsFiniteSet(L \cup {k}) /\ Cardinality(L \cup {k}) = Cardinality(L) + 1
  BY <1>2, <1>3, FS_AddElement
<1>5. lastId' + Cardinality(List("insert")') <= MaxRowId
  BY <1>1, <1>2, <1>3, <1>4, MaxRowIdAssumption
<1> QED
  BY <1>2, <1>4, <1>5 DEF Room

\* Inserting uses it.
LEMMA RoomInsert ==
  ASSUME Room, MemorySound, lastId \in Nat, NEW k \in Key, NEW freed, NEW fault, NEW purge,
         SaveInsert(k, freed, fault, purge)
  PROVE  Room'
<1> DEFINE L == List("insert")
<1>1. /\ state' = [state EXCEPT ![k] = "clean"] /\ state[k] = "insert"
      /\ lastId' \in {lastId, lastId + 1}
  BY DEF SaveInsert, Done, NewId, tables
<1>2. List("insert")' = L \ {k} /\ k \in L
  BY <1>1 DEF List, MemorySound
<1>3. IsFiniteSet(L) /\ Cardinality(L) \in Nat
  BY FS_CardinalityType DEF Room
<1>4. lastId + Cardinality(L) <= MaxRowId
  BY DEF Room
<1> HIDE DEF L
<1>5. IsFiniteSet(L \ {k}) /\ Cardinality(L \ {k}) = Cardinality(L) - 1
  BY <1>2, <1>3, FS_RemoveElement
<1>6. IsFiniteSet(List("insert")') /\ Cardinality(List("insert")') = Cardinality(L) - 1
  BY <1>2, <1>5
<1>7. lastId' = lastId \/ lastId' = lastId + 1
  BY <1>1
<1>8. lastId' + Cardinality(List("insert")') <= MaxRowId
  BY <1>3, <1>4, <1>6, <1>7, MaxRowIdAssumption
<1> QED
  BY <1>6, <1>8 DEF Room

LEMMA RoomStep == IInv /\ IdentityInv /\ Room /\ [Next]_vars => Room'
<1> SUFFICES ASSUME IInv, IdentityInv, Room, [Next]_vars PROVE Room'
  OBVIOUS
<1>1. lastId \in Nat /\ MemorySound
  BY DEF IInv, Columns, IdentityInv
<1>2. ASSUME UNCHANGED <<state, lastId>> PROVE Room'
  BY <1>1, <1>2, RoomStays
<1>3. ASSUME NEW k \in Key, NEW i, Add(k, i) PROVE Room'
  BY <1>1, <1>3, RoomAdd
<1>4. ASSUME NEW k \in Key, NEW i, Edit(k, i) PROVE Room'
  <2>1. \A l \in Key : state'[l] = "insert" => state[l] = "insert"
    BY <1>1, <1>4 DEF Edit, MemorySound
  <2> QED
    BY <1>1, <1>4, <2>1, RoomStays DEF Edit, tables
<1>5. ASSUME NEW k \in Key, Delete(k) PROVE Room'
  <2>1. \A l \in Key : state'[l] = "insert" => state[l] = "insert"
    BY <1>1, <1>5 DEF Delete, Forget, MemorySound
  <2> QED
    BY <1>1, <1>5, <2>1, RoomStays DEF Delete, tables
<1>6. ASSUME NEW z, Reload(z) PROVE Room'
  <2>1. \A l \in Key : state'[l] # "insert"
    BY <1>6 DEF Reload
  <2> QED
    BY <1>1, <1>6, <2>1, RoomStays DEF Reload, tables
<1>7. ASSUME NEW action, SaveBegin(action) PROVE Room'
  BY <1>2, <1>7 DEF SaveBegin, memory, tables
<1>8. ASSUME NEW k \in Key, NEW freed, NEW fault, NEW purge, SaveInsert(k, freed, fault, purge)
      PROVE  Room'
  BY <1>1, <1>8, RoomInsert
<1>9. ASSUME NEW k \in Key, Done(k), state[k] = phase, phase # "gone", lastId' = lastId,
             UNCHANGED zone
      PROVE  Room'
  BY <1>1, <1>9, DoneMemory, RoomStays
<1>10. ASSUME NEW k \in Key, NEW freed, NEW fault,
              SaveUpdate(k, freed, fault) \/ SaveMark(k, freed, fault) \/ SaveDelete(k, fault)
       PROVE  Room'
  <2>1. lastId' = lastId
    BY <1>10 DEF SaveUpdate, SaveMark, SaveDelete, tables
  <2>2. Done(k) /\ state[k] = phase /\ phase # "gone" /\ UNCHANGED zone
    BY <1>10 DEF SaveUpdate, SaveMark, SaveDelete
  <2> QED
    BY <1>9, <2>1, <2>2
<1>11. CASE NextPhase
  BY <1>2, <1>11 DEF NextPhase, memory, tables
<1>12. ASSUME NEW D, NEW gone, NEW fault, Purge(D, gone, fault) PROVE Room'
  BY <1>2, <1>12 DEF Purge, memory
<1>13. CASE UNCHANGED vars
  BY <1>2, <1>13 DEF vars, memory, tables
<1> QED
  BY <1>3, <1>4, <1>5, <1>6, <1>7, <1>8, <1>10, <1>11, <1>12, <1>13 DEF Next

\* Every variable has its type: a save knows its list, an unfinished statement
\* belongs to the insertions, and no more rows are added than there are ids.
THEOREM TypeCorrect == Spec => []TypeOK
<1>1. Init => Progress /\ Counted /\ Room
  <2> SUFFICES ASSUME Init PROVE Progress /\ Counted /\ Room
    OBVIOUS
  <2>1. Progress
    BY DEF Init, Progress, Phase
  <2>2. Counted
    <3>1. failed \in BOOLEAN /\ DOMAIN written = RowId
      BY DEF Init
    <3>2. faults \in 0 .. MaxFaults
      BY MaxFaultsAssumption DEF Init
    <3> QED
      BY <3>1, <3>2 DEF Counted
  <2>3. List("insert") = {}
    BY DEF Init, List
  <2>4. IsFiniteSet(List("insert")) /\ Cardinality(List("insert")) = 0
    BY <2>3, FS_EmptySet
  <2>5. Room
    BY <2>4, MaxRowIdAssumption DEF Init, Room
  <2> QED
    BY <2>1, <2>2, <2>5
<1>2. IInv /\ IdentityInv /\ Progress /\ Counted /\ Room /\ [Next]_vars
        => Progress' /\ Counted' /\ Room'
  BY ProgressStep, CountedStep, RoomStep
<1>3. TInv => TypeOK
  <2> SUFFICES ASSUME TInv PROVE TypeOK
    OBVIOUS
  <2>1. \A id \in RowId : rows[id].uid \in Uid \cup {"none"}
    BY DEF TInv, IdentityInv, RowsSound, SoundRow, NoRow, Uid
  <2>2. lastId \in 0 .. MaxRowId
    <3>1. IsFiniteSet(List("insert")) /\ Cardinality(List("insert")) \in Nat /\ lastId \in Nat
      BY FS_CardinalityType DEF TInv, Room, IInv, Columns
    <3> QED
      BY <3>1, MaxRowIdAssumption DEF TInv, Room
  <2>3. zone \in Known /\ DOMAIN obj = Key /\ state \in [Key -> State]
    BY DEF TInv, IdentityInv, MemorySound
  <2>4. /\ DOMAIN rows = RowId /\ DOMAIN sub = Table
        /\ \A t \in Table : DOMAIN sub[t] = RowId \cup {Null}
        /\ \A id \in RowId : id > lastId => rows[id] = NoRow /\ \A t \in Table : sub[t][id] = <<>>
    BY DEF TInv, IInv, Columns, FreshIds, Unused
  <2>5. Progress /\ Counted
    BY DEF TInv
  <2> QED
    BY <2>1, <2>2, <2>3, <2>4, <2>5 DEF TypeOK, Progress, Counted
<1> QED
  BY <1>1, <1>2, <1>3, IdsFresh, IdentityInvHolds, PTL DEF Spec, TInv

-----------------------------------------------------------------------------
(***************************************************************************)
(* Dates and times.  A time is stored as an instant, a clock and a zone, a *)
(* date as a clock without zone, and the end of an all-day event as the    *)
(* day after its last.  Zones the device does not know are allowed.        *)
(***************************************************************************)

\* Days are as long as each other.
LEMMA SameDivision ==
  ASSUME NEW q \in Int, NEW p \in Int, NEW r \in 0 .. DayLength - 1, NEW s \in 0 .. DayLength - 1,
         q * DayLength + r = p * DayLength + s
  PROVE  r = s
<1>1. DayLength \in Int /\ r - s < DayLength /\ s - r < DayLength /\ (q - p) * DayLength = s - r
  BY DayAssumption
<1>2. ASSUME NEW x \in Int, x >= 1 PROVE x * DayLength >= DayLength
  BY <1>2, DayAssumption
<1>3. CASE q > p
  BY <1>1, <1>2, <1>3
<1>4. CASE p > q
  <2>1. (p - q) * DayLength >= DayLength
    BY <1>2, <1>4
  <2>2. (p - q) * DayLength = r - s
    BY <1>1
  <2> QED
    BY <1>1, <2>1, <2>2
<1>5. CASE q = p
  BY <1>1, <1>5
<1> QED
  BY <1>3, <1>4, <1>5

LEMMA SameClock == \A w \in Int : (w + DayLength) % DayLength = w % DayLength
<1> SUFFICES ASSUME NEW w \in Int PROVE (w + DayLength) % DayLength = w % DayLength
  OBVIOUS
<1> DEFINE v == w + DayLength
<1>1. /\ v \in Int /\ DayLength \in Int
      /\ w = (w \div DayLength) * DayLength + (w % DayLength) /\ w \div DayLength \in Int
      /\ w % DayLength \in 0 .. DayLength - 1
  BY DayAssumption
<1>2. /\ v = (v \div DayLength) * DayLength + (v % DayLength) /\ v \div DayLength \in Int
      /\ v % DayLength \in 0 .. DayLength - 1
  BY <1>1, DayAssumption
<1>3. v = (w \div DayLength + 1) * DayLength + (w % DayLength)
  BY <1>1
<1> HIDE DEF v
<1>4. (v \div DayLength) * DayLength + (v % DayLength)
        = (w \div DayLength + 1) * DayLength + (w % DayLength)
  BY <1>2, <1>3
<1>5. w \div DayLength + 1 \in Int
  BY <1>1
<1>6. v % DayLength = w % DayLength
  BY <1>1, <1>2, <1>4, <1>5, SameDivision
<1> QED
  BY <1>6 DEF v

LEMMA DateOfDate == \A w \in Int : DateOf(w) \in Int /\ DateOf(DateOf(w)) = DateOf(w)
<1> SUFFICES ASSUME NEW w \in Int PROVE DateOf(w) \in Int /\ DateOf(DateOf(w)) = DateOf(w)
  OBVIOUS
<1>1. w % DayLength \in Int /\ (w - (w % DayLength)) % DayLength = 0
  BY DayAssumption
<1>2. DateOf(w) \in Int /\ DateOf(w) % DayLength = 0
  BY <1>1 DEF DateOf
<1>3. DateOf(DateOf(w)) = DateOf(w) - (DateOf(w) % DayLength)
  BY DEF DateOf
<1> QED
  BY <1>2, <1>3

LEMMA NextDay == \A w \in Int : DateOf(w + DayLength) = DateOf(w) + DayLength
<1> SUFFICES ASSUME NEW w \in Int PROVE DateOf(w + DayLength) = DateOf(w) + DayLength
  OBVIOUS
<1>1. w % DayLength \in Int /\ DayLength \in Int
  BY DayAssumption
<1>2. (w + DayLength) % DayLength = w % DayLength
  BY SameClock
<1> QED
  BY <1>1, <1>2 DEF DateOf

LEMMA ZoneNamed == \A z \in Zone : z # "" /\ z # "FloatingDate"
BY Zenon, ZoneAssumption

LEMMA ZonesPlain == \A z \in Zone : z # "local" /\ z # "none" /\ z # "FloatingDate"
BY Zenon, ZoneAssumption

\* No time at all.
LEMMA NoneStored ==
  ASSUME NEW b, NEW z
  PROVE  /\ GetDateTime(SetDateTime(NoTime, b, z)) = NoTime
         /\ ~IsDate(SetDateTime(NoTime, b, z))
<1>1. SetDateTime(NoTime, b, z) = NoColumns
  BY Zenon DEF SetDateTime, NoColumns
<1>2. NoColumns.utc = 0 /\ NoColumns.clock = 0 /\ NoColumns.zone = ""
  BY Zenon DEF NoColumns
<1>3. NoColumns.zone # "FloatingDate" /\ NoColumns.zone \notin Known
  BY Zenon, <1>2, KnownNamed
<1>4. GetDateTime(NoColumns) = NoTime
  BY Zenon, <1>2, <1>3 DEF GetDateTime
<1>5. ~IsDate(NoColumns)
  BY Zenon, <1>3, <1>4 DEF IsDate
<1> QED
  BY <1>1, <1>4, <1>5

\* A date.
LEMMA DateStored ==
  ASSUME NEW dt \in DateTime, NEW z
  PROVE  /\ GetDateTime(SetDateTime(dt, TRUE, z)) = Local(DateOf(dt.wall))
         /\ IsDate(SetDateTime(dt, TRUE, z))
<1> DEFINE c == SetDateTime(dt, TRUE, z)
<1>1. dt # NoTime
  BY ZonesPlain DEF DateTime, NoTime
<1>2. c = [utc |-> Instant(dt, z), clock |-> dt.wall, zone |-> "FloatingDate"]
  BY Zenon, <1>1 DEF SetDateTime
<1> HIDE DEF c
<1>3. c.clock = dt.wall /\ c.zone = "FloatingDate"
  BY <1>2
<1>4. c.zone # "" /\ c.zone \notin Known
  BY Zenon, <1>3, KnownZones
<1>5. GetDateTime(c) = Local(DateOf(c.clock))
  BY Zenon, <1>3, <1>4 DEF GetDateTime
<1>6. IsDate(c)
  BY Zenon, <1>3 DEF IsDate
<1> QED
  BY <1>3, <1>5, <1>6 DEF c

\* A time, in a zone the device knows or not.
LEMMA TimeStored ==
  ASSUME NEW dt \in DateTime, NEW z \in Known
  PROVE  /\ GetDateTime(SetDateTime(dt, FALSE, z)) \in DateTime
         /\ SameTime(GetDateTime(SetDateTime(dt, FALSE, z)), dt, z)
         /\ GetDateTime(SetDateTime(dt, FALSE, z)) # NoTime
         /\ ~IsDate(SetDateTime(dt, FALSE, z))
         /\ dt.spec \in Known => GetDateTime(SetDateTime(dt, FALSE, z)) = dt
<1> DEFINE c == SetDateTime(dt, FALSE, z)
           y == ZoneOf(dt, z)
<1>1. dt # NoTime /\ dt.wall \in Int
  BY ZonesPlain DEF DateTime, NoTime
<1>2. c = [utc |-> Instant(dt, z), clock |-> dt.wall, zone |-> y]
  BY Zenon, <1>1 DEF SetDateTime
<1>4. y \in Zone
  BY KnownZones DEF ZoneOf, DateTime
<1>5. Instant(dt, z) = dt.wall - Offset[y] /\ Offset[y] \in Int
  BY <1>4, KnownZones DEF Instant
<1> HIDE DEF c, y
<1>3. c.clock = dt.wall /\ c.utc = Instant(dt, z) /\ c.zone = y
  BY <1>2
<1>6. c.zone # "" /\ c.zone # "FloatingDate"
  BY Zenon, <1>3, <1>4, ZoneNamed
<1>7. ~IsDate(c)
  BY Zenon, <1>6 DEF IsDate
<1>8. CASE y \in Known
  <2>1. GetDateTime(c) = [spec |-> c.zone, wall |-> c.utc + Offset[c.zone]]
    BY Zenon, <1>3, <1>6, <1>8 DEF GetDateTime
  <2>2. GetDateTime(c) = [spec |-> y, wall |-> dt.wall]
    BY <1>1, <1>3, <1>5, <2>1
  <2>3. GetDateTime(c).spec = y /\ GetDateTime(c).wall = dt.wall
    BY <2>2
  <2>4. GetDateTime(c) # NoTime /\ GetDateTime(c).spec # "local"
    BY <1>4, <2>3, ZonesPlain DEF NoTime
  <2>5. Instant(GetDateTime(c), z) = Instant(dt, z)
    BY <1>5, <2>3, <2>4 DEF Instant, ZoneOf
  <2>6. GetDateTime(c) \in DateTime
    BY <1>1, <1>4, <2>2 DEF DateTime
  <2>7. SameTime(GetDateTime(c), dt, z)
    BY <1>1, <1>8, <2>3, <2>5 DEF SameTime, y
  <2>8. dt.spec \in Known => GetDateTime(c) = dt
    BY <2>2, KnownZones, ZonesPlain DEF y, ZoneOf, DateTime
  <2> QED
    BY <1>7, <2>4, <2>6, <2>7, <2>8 DEF c
<1>9. CASE y \notin Known
  <2>1. GetDateTime(c) = Local(c.clock)
    BY Zenon, <1>3, <1>6, <1>9 DEF GetDateTime
  <2>2. GetDateTime(c) = Local(dt.wall)
    BY <1>3, <2>1
  <2>3. GetDateTime(c) \in DateTime /\ GetDateTime(c) # NoTime
    BY <1>1, <2>2 DEF Local, DateTime, NoTime
  <2>4. SameTime(GetDateTime(c), dt, z)
    BY <1>1, <1>9, <2>2 DEF SameTime, y
  <2>5. dt.spec \notin Known
    BY <1>9, KnownZones, ZonesPlain DEF y, ZoneOf
  <2> QED
    BY <1>7, <2>3, <2>4, <2>5 DEF c
<1> QED
  BY <1>8, <1>9

\* All of it.
LEMMA Stored ==
  ASSUME NEW dt \in SomeTime, NEW b \in BOOLEAN, NEW z \in Known
  PROVE  LET c == SetDateTime(dt, b, z) IN
         /\ GetDateTime(c) \in SomeTime
         /\ GetDateTime(c) = NoTime <=> dt = NoTime
         /\ IsDate(c) <=> b /\ dt # NoTime
         /\ IF b THEN SameDate(GetDateTime(c), dt) ELSE SameTime(GetDateTime(c), dt, z)
         /\ ~b /\ dt.spec \in Known => GetDateTime(c) = dt
<1> DEFINE c == SetDateTime(dt, b, z)
<1>1. CASE dt = NoTime
  <2>1. GetDateTime(c) = NoTime /\ ~IsDate(c)
    BY <1>1, NoneStored
  <2>2. dt.spec \notin Known
    BY <1>1, KnownZones, ZonesPlain DEF NoTime
  <2> QED
    BY <1>1, <2>1, <2>2 DEF SomeTime, SameDate, SameTime
<1>2. CASE dt # NoTime /\ b = TRUE
  <2>1. dt \in DateTime
    BY <1>2 DEF SomeTime
  <2>2. GetDateTime(c) = Local(DateOf(dt.wall)) /\ IsDate(c)
    BY <1>2, <2>1, DateStored
  <2>3. dt.wall \in Int
    BY <2>1 DEF DateTime
  <2>4. GetDateTime(c) \in DateTime /\ GetDateTime(c) # NoTime
    BY <2>2, <2>3, DateOfDate DEF Local, DateTime, NoTime
  <2> QED
    BY <1>2, <2>2, <2>4 DEF SomeTime, SameDate
<1>3. CASE dt # NoTime /\ b = FALSE
  <2>1. dt \in DateTime
    BY <1>3 DEF SomeTime
  <2>2. /\ GetDateTime(c) \in DateTime /\ SameTime(GetDateTime(c), dt, z)
        /\ GetDateTime(c) # NoTime /\ ~IsDate(c)
        /\ dt.spec \in Known => GetDateTime(c) = dt
    BY <1>3, <2>1, TimeStored
  <2> QED
    BY <1>3, <2>2 DEF SomeTime
<1> QED
  BY <1>1, <1>2, <1>3

LEMMA LocalDate ==
  ASSUME NEW dt \in SomeTime, dt # NoTime
  PROVE  /\ dt.wall \in Int
         /\ Local(DateOf(dt.wall)).wall = DateOf(dt.wall)
         /\ Local(DateOf(dt.wall)) # NoTime
         /\ Local(DateOf(dt.wall)) \in SomeTime
<1>1. dt.wall \in Int
  BY DEF SomeTime, DateTime
<1> QED
  BY <1>1, DateOfDate DEF Local, NoTime, SomeTime, DateTime

\* The end that is read back: nothing for a day that is the first one too.
EndRead(i, z) ==
  IF ~i.allDay THEN GetDateTime(SetDateTime(i.end, i.allDay, z))
  ELSE IF i.end = NoTime \/ DateOf(i.end.wall) = DateOf(i.start.wall) THEN NoTime
  ELSE Local(DateOf(i.end.wall))

\* An event ends on the day it ended, though its columns say the day after.
LEMMA EventReturns ==
  ASSUME NEW i, i.kind = "Event", TimesOf("Event", i), NEW z \in Known
  PROVE  /\ TimesOf("Event", EventTimes(EventColumns(i, z)))
         /\ SameTimes(EventTimes(EventColumns(i, z)), i, z)
         /\ EventTimes(EventColumns(i, z)).end = EndRead(i, z)
<1> DEFINE c == EventColumns(i, z)
           t == EventTimes(c)
           start == GetDateTime(c.start)
           end == GetDateTime(c.end)
           stored == IF i.allDay /\ i.end # NoTime THEN AddDays(i.end, 1) ELSE i.end
<1>1. i.allDay \in BOOLEAN /\ i.start \in SomeTime /\ i.end \in SomeTime /\ i.start # NoTime
  BY DEF TimesOf
<1>2. c.start = SetDateTime(i.start, i.allDay, z) /\ c.end = SetDateTime(stored, i.allDay, z)
  BY DEF EventColumns
<1>3. stored \in SomeTime /\ (stored = NoTime <=> i.end = NoTime)
  <2>1. CASE i.allDay /\ i.end # NoTime
    <3>1. i.end \in DateTime
      BY <1>1, <2>1 DEF SomeTime
    <3>2. stored \in DateTime
      BY <2>1, <3>1, DayAssumption DEF AddDays, DateTime
    <3>3. stored # NoTime
      BY <3>2, ZonesPlain DEF DateTime, NoTime
    <3> QED
      BY <2>1, <3>2, <3>3 DEF SomeTime
  <2>2. CASE ~(i.allDay /\ i.end # NoTime)
    BY <1>1, <2>2
  <2> QED
    BY <2>1, <2>2
<1> HIDE DEF stored
<1>4. /\ start \in SomeTime /\ start # NoTime
      /\ IsDate(c.start) <=> i.allDay
      /\ IF i.allDay THEN SameDate(start, i.start) ELSE SameTime(start, i.start, z)
  BY <1>1, <1>2, Stored
<1>5. /\ end \in SomeTime /\ (end = NoTime <=> i.end = NoTime)
      /\ IsDate(c.end) <=> i.allDay /\ i.end # NoTime
      /\ IF i.allDay THEN SameDate(end, stored) ELSE SameTime(end, stored, z)
  BY <1>1, <1>2, <1>3, Stored
<1>a. ~i.allDay => end = GetDateTime(SetDateTime(stored, i.allDay, z))
  BY <1>2
<1> HIDE DEF c, start, end
<1>6. /\ t.allDay = (IsDate(c.start) /\ (end = NoTime \/ IsDate(c.end)))
      /\ t.start = start
      /\ ~(IsDate(c.start) /\ (end = NoTime \/ IsDate(c.end))) => t.end = end
      /\ end = NoTime => t.end = end
      /\ IsDate(c.start) /\ end # NoTime /\ IsDate(c.end) =>
           t.end = IF AddDays(end, -1) = start THEN NoTime ELSE AddDays(end, -1)
  <2> DEFINE allDay == IsDate(c.start) /\ (end = NoTime \/ IsDate(c.end))
  <2>1. t.allDay = allDay
    BY Zenon DEF EventTimes, start, end
  <2>2. t.start = start
    <3>1. t.start = IF start = NoTime THEN [spec |-> "UTC", wall |-> 0] ELSE start
      BY Zenon DEF EventTimes, start
    <3> QED
      BY Zenon, <1>4, <3>1
  <2>3. t.end = IF ~allDay \/ end = NoTime THEN end
                ELSE IF AddDays(end, -1) = start THEN NoTime ELSE AddDays(end, -1)
    BY Zenon DEF EventTimes, start, end
  <2> HIDE DEF t, allDay
  <2>4. /\ ~allDay => t.end = end
        /\ end = NoTime => t.end = end
        /\ allDay /\ end # NoTime =>
             t.end = IF AddDays(end, -1) = start THEN NoTime ELSE AddDays(end, -1)
    BY Zenon, <2>3
  <2> QED
    BY Zenon, <2>1, <2>2, <2>4 DEF allDay
<1> HIDE DEF t
<1>7. t.allDay = i.allDay /\ t.allDay \in BOOLEAN
  BY <1>1, <1>4, <1>5, <1>6
<1>8. CASE ~i.allDay
  <2>1. stored = i.end
    BY <1>8 DEF stored
  <2>2. t.end = end
    BY <1>4, <1>6, <1>8
  <2>3. SameTimes(t, i, z)
    BY <1>4, <1>5, <1>6, <1>7, <1>8, <2>1, <2>2 DEF SameTimes
  <2>4. TimesOf("Event", t)
    BY <1>4, <1>5, <1>6, <1>7, <2>2 DEF TimesOf
  <2>5. t.end = EndRead(i, z)
    BY <1>8, <1>a, <2>1, <2>2 DEF EndRead
  <2> QED
    BY <2>3, <2>4, <2>5 DEF t, c
<1>9. CASE i.allDay /\ i.end = NoTime
  <2>1. t.end = NoTime
    BY <1>5, <1>6, <1>9
  <2>2. start = Local(DateOf(i.start.wall))
    BY <1>1, <1>4, <1>9 DEF SameDate
  <2>3. LastDate(t) = LastDate(i)
    BY <1>1, <1>6, <1>9, <2>1, <2>2, LocalDate, DateOfDate DEF LastDate
  <2>4. SameTimes(t, i, z)
    BY <1>4, <1>6, <1>7, <1>9, <2>3 DEF SameTimes
  <2>5. TimesOf("Event", t)
    BY <1>4, <1>6, <1>7, <2>1 DEF TimesOf, SomeTime
  <2>6. t.end = EndRead(i, z)
    BY <1>9, <2>1 DEF EndRead
  <2> QED
    BY <2>4, <2>5, <2>6 DEF t, c
<1>10. CASE i.allDay /\ i.end # NoTime
  <2>1. stored = AddDays(i.end, 1) /\ stored.wall = i.end.wall + DayLength /\ i.end.wall \in Int
    <3>1. i.end \in DateTime
      BY <1>1, <1>10 DEF SomeTime
    <3> QED
      BY <1>10, <3>1, DayAssumption DEF AddDays, stored, DateTime
  <2>2. end = Local(DateOf(i.end.wall) + DayLength)
    BY <1>3, <1>5, <1>10, <2>1, NextDay DEF SameDate
  <2>3. AddDays(end, -1) = Local(DateOf(i.end.wall))
    <3>1. DateOf(i.end.wall) \in Int
      BY <2>1, DateOfDate
    <3>2. AddDays(end, -1) = Local(DateOf(i.end.wall) + DayLength + (-1) * DayLength)
      BY <2>2 DEF AddDays, Local
    <3>3. DateOf(i.end.wall) + DayLength + (-1) * DayLength = DateOf(i.end.wall)
      BY <3>1, DayAssumption
    <3> QED
      BY <3>2, <3>3
  <2>4. start = Local(DateOf(i.start.wall))
    BY <1>1, <1>4, <1>10 DEF SameDate
  <2>5. t.end = IF AddDays(end, -1) = start THEN NoTime ELSE AddDays(end, -1)
    BY <1>4, <1>5, <1>6, <1>10
  <2>6. LastDate(t) = LastDate(i)
    <3>1. LastDate(i) = DateOf(i.end.wall)
      BY <1>10 DEF LastDate
    <3>2. CASE AddDays(end, -1) = start
      <4>1. t.end = NoTime /\ t.start.wall = DateOf(i.end.wall)
        BY <1>1, <1>6, <1>10, <2>3, <2>5, <3>2, LocalDate
      <4> QED
        BY <2>1, <3>1, <4>1, DateOfDate DEF LastDate
    <3>3. CASE AddDays(end, -1) # start
      <4>1. t.end # NoTime /\ t.end.wall = DateOf(i.end.wall)
        BY <1>1, <1>10, <2>3, <2>5, <3>3, LocalDate
      <4> QED
        BY <2>1, <3>1, <4>1, DateOfDate DEF LastDate
    <3> QED
      BY <3>2, <3>3
  <2>7. SameTimes(t, i, z)
    BY <1>4, <1>6, <1>7, <1>10, <2>6 DEF SameTimes
  <2>8. t.end \in SomeTime
    BY <1>1, <1>10, <2>3, <2>5, LocalDate DEF SomeTime
  <2>9. TimesOf("Event", t)
    BY <1>4, <1>6, <1>7, <2>8 DEF TimesOf
  <2>10. Local(DateOf(i.end.wall)) = Local(DateOf(i.start.wall))
           <=> DateOf(i.end.wall) = DateOf(i.start.wall)
    BY <1>1, <1>10, LocalDate
  <2>11. t.end = EndRead(i, z)
    BY <1>10, <2>3, <2>4, <2>5, <2>10 DEF EndRead
  <2> QED
    BY <2>7, <2>9, <2>11 DEF t, c
<1> QED
  BY <1>1, <1>8, <1>9, <1>10

\* A to-do is all-day if it begins on a day and is due on a later one.
LEMMA TodoReturns ==
  ASSUME NEW i, i.kind = "Todo", TimesOf("Todo", i), NEW z \in Known
  PROVE  /\ TimesOf("Todo", TodoTimes(TodoColumns(i, z)))
         /\ SameTimes(TodoTimes(TodoColumns(i, z)), i, z)
         /\ TodoTimes(TodoColumns(i, z)).end = EndRead(i, z)
<1> DEFINE c == TodoColumns(i, z)
           t == TodoTimes(c)
           start == GetDateTime(c.start)
           due == GetDateTime(c.end)
<1>1. i.allDay \in BOOLEAN /\ i.start \in SomeTime /\ i.end \in SomeTime
  BY DEF TimesOf
<1>2. c.start = SetDateTime(i.start, i.allDay, z) /\ c.end = SetDateTime(i.end, i.allDay, z)
  BY DEF TodoColumns
<1>3. /\ start \in SomeTime /\ (start = NoTime <=> i.start = NoTime)
      /\ IsDate(c.start) <=> i.allDay /\ i.start # NoTime
      /\ IF i.allDay THEN SameDate(start, i.start) ELSE SameTime(start, i.start, z)
  BY <1>1, <1>2, Stored
<1>4. /\ due \in SomeTime /\ (due = NoTime <=> i.end = NoTime)
      /\ IsDate(c.end) <=> i.allDay /\ i.end # NoTime
      /\ IF i.allDay THEN SameDate(due, i.end) ELSE SameTime(due, i.end, z)
  BY <1>1, <1>2, Stored
<1>5. /\ t.start = start /\ t.end = due
      /\ t.allDay = (IsDate(c.start) /\ (due = NoTime \/ (IsDate(c.end) /\ due.wall > start.wall)))
  BY Zenon DEF TodoTimes, start, due
<1>a. due = GetDateTime(SetDateTime(i.end, i.allDay, z))
  BY <1>2
<1> HIDE DEF c, t, start, due
<1>6. CASE ~i.allDay
  <2>1. t.allDay = FALSE
    BY <1>3, <1>5, <1>6
  <2>2. t.allDay = i.allDay
    BY <1>1, <1>6, <2>1
  <2>3. SameTimes(t, i, z)
    BY <1>3, <1>4, <1>5, <1>6, <2>2 DEF SameTimes
  <2>4. TimesOf("Todo", t)
    BY <1>3, <1>4, <1>5, <2>1 DEF TimesOf
  <2>5. t.end = EndRead(i, z)
    BY <1>5, <1>6, <1>a DEF EndRead
  <2> QED
    BY <2>3, <2>4, <2>5 DEF t, c
<1>7. CASE i.allDay
  <2>1. i.start # NoTime /\ (i.end = NoTime \/ DateOf(i.start.wall) < DateOf(i.end.wall))
    BY <1>7 DEF TimesOf
  <2>2. start = Local(DateOf(i.start.wall)) /\ (i.end # NoTime => due = Local(DateOf(i.end.wall)))
    BY <1>3, <1>4, <1>7, <2>1 DEF SameDate
  <2>3. start.wall = DateOf(i.start.wall) /\ i.start.wall \in Int
    BY <1>1, <2>1, <2>2, LocalDate
  <2>4. i.end # NoTime => due.wall = DateOf(i.end.wall) /\ i.end.wall \in Int
    BY <1>1, <2>2, LocalDate
  <2>5. i.end # NoTime => due.wall > start.wall
    BY <2>1, <2>3, <2>4, DateOfDate
  <2>6. t.allDay = TRUE /\ t.allDay = i.allDay
    <3>1. IsDate(c.start) /\ (due = NoTime \/ (IsDate(c.end) /\ due.wall > start.wall))
      BY <1>3, <1>4, <1>7, <2>1, <2>5
    <3>2. t.allDay = TRUE
      BY Zenon, <1>5, <3>1
    <3> QED
      BY <1>1, <1>7, <3>2
  <2>7. LastDate(t) = LastDate(i)
    BY <1>4, <1>5, <2>3, <2>4, DateOfDate DEF LastDate
  <2>8. SameTimes(t, i, z)
    BY <1>3, <1>5, <1>7, <2>6, <2>7 DEF SameTimes
  <2>9. t.end = NoTime \/ DateOf(t.start.wall) < DateOf(t.end.wall)
    BY <1>4, <1>5, <2>1, <2>3, <2>4, DateOfDate
  <2>10. TimesOf("Todo", t)
    BY <1>3, <1>4, <1>5, <2>1, <2>6, <2>9 DEF TimesOf
  <2>11. i.end # NoTime => DateOf(i.end.wall) # DateOf(i.start.wall)
    BY <2>1, <2>3, <2>4, DateOfDate
  <2>12. t.end = EndRead(i, z)
    BY <1>4, <1>5, <1>7, <2>2, <2>11 DEF EndRead
  <2> QED
    BY <2>8, <2>10, <2>12 DEF t, c
<1> QED
  BY <1>6, <1>7

LEMMA JournalReturns ==
  ASSUME NEW i, i.kind = "Journal", TimesOf("Journal", i), NEW z \in Known
  PROVE  LET t == JournalTimes(TimeColumns(i, z)) IN
         TimesOf("Journal", t) /\ SameTimes(t, i, z) /\ t.end = EndRead(i, z)
<1> DEFINE c == TimeColumns(i, z)
           t == JournalTimes(c)
           start == GetDateTime(c.start)
<1>1. /\ i.allDay \in BOOLEAN /\ i.start \in SomeTime /\ i.start # NoTime /\ i.end = NoTime
  BY DEF TimesOf
<1>2. c.start = SetDateTime(i.start, i.allDay, z)
  BY DEF TimeColumns
<1>3. /\ start \in SomeTime /\ start # NoTime
      /\ IsDate(c.start) <=> i.allDay
      /\ IF i.allDay THEN SameDate(start, i.start) ELSE SameTime(start, i.start, z)
  BY <1>1, <1>2, Stored
<1>4. t.start = start /\ t.end = NoTime /\ t.allDay = IsDate(c.start)
  BY Zenon DEF JournalTimes, start
<1> HIDE DEF c, t, start
<1>5. t.allDay = i.allDay
  <2>1. IsDate(c.start) \in BOOLEAN
    BY DEF IsDate
  <2> QED
    BY <1>1, <1>3, <1>4, <2>1
<1>6. i.allDay => start = Local(DateOf(i.start.wall))
  BY <1>1, <1>3 DEF SameDate
<1>7. i.allDay => LastDate(t) = LastDate(i)
  BY <1>1, <1>4, <1>6, LocalDate, DateOfDate DEF LastDate
<1>8. SameTimes(t, i, z)
  BY <1>1, <1>3, <1>4, <1>5, <1>7 DEF SameTimes, SameTime
<1>9. TimesOf("Journal", t)
  BY <1>1, <1>3, <1>4, <1>5 DEF TimesOf, SomeTime
<1>10. t.end = EndRead(i, z)
  BY <1>1, <1>4, NoneStored DEF EndRead
<1> QED
  BY <1>8, <1>9, <1>10 DEF t, c

\* The times of an incidence come back, whatever it is.
LEMMA TimesReturn ==
  ASSUME NEW i, i.kind \in {"Event", "Todo", "Journal"}, TimesOf(i.kind, i), NEW z \in Known
  PROVE  LET t == Times(i.kind, TimeColumns(i, z)) IN
         TimesOf(i.kind, t) /\ SameTimes(t, i, z) /\ t.end = EndRead(i, z)
<1>1. CASE i.kind = "Event"
  <2>1. TimeColumns(i, z) = EventColumns(i, z)
    BY <1>1 DEF TimeColumns
  <2>2. Times(i.kind, TimeColumns(i, z)) = EventTimes(EventColumns(i, z))
    BY <1>1, <2>1 DEF Times
  <2> QED
    BY <1>1, <2>2, EventReturns
<1>2. CASE i.kind = "Todo"
  <2>1. TimeColumns(i, z) = TodoColumns(i, z)
    BY <1>2 DEF TimeColumns
  <2>2. Times(i.kind, TimeColumns(i, z)) = TodoTimes(TodoColumns(i, z))
    BY <1>2, <2>1 DEF Times
  <2> QED
    BY <1>2, <2>2, TodoReturns
<1>3. CASE i.kind = "Journal"
  <2>1. Times(i.kind, TimeColumns(i, z)) = JournalTimes(TimeColumns(i, z))
    BY <1>3 DEF Times
  <2> QED
    BY <1>3, <2>1, JournalReturns
<1> QED
  BY <1>1, <1>2, <1>3

-----------------------------------------------------------------------------
(***************************************************************************)
(* What is written is what is loaded, as far as the row of Components says *)
(* it: kind, times and recurrence id.  The comments and the rows of the    *)
(* other tables are sequences, and come after these.                       *)
(***************************************************************************)

Sound(i) ==
  /\ i.kind \in {"Event", "Todo", "Journal"}
  /\ TimesOf(i.kind, i)
  /\ i.recurrenceId \in RecurTime

\* A row that is read at once says the same.
LEMMA RowReturns ==
  ASSUME NEW i, Sound(i), NEW z \in Known, NEW others
  PROVE  LET again == ReadComponent(ComponentRow(i, z), others)
         IN  Sound(again) /\ SameRow(again, i, z) /\ again.end = EndRead(i, z)
<1> DEFINE row == ComponentRow(i, z)
           again == ReadComponent(row, others)
           t == Times(i.kind, TimeColumns(i, z))
<1>1. /\ row.kind = i.kind /\ row.time = TimeColumns(i, z) /\ row.summary = i.summary
      /\ row.recur = RecurrenceColumns(i, z)
  BY DEF ComponentRow
<1> HIDE DEF row
<1>2. /\ again.kind = row.kind /\ again.summary = row.summary
      /\ again.recurrenceId = GetDateTime(row.recur)
      /\ again.allDay = Times(row.kind, row.time).allDay
      /\ again.start = Times(row.kind, row.time).start
      /\ again.end = Times(row.kind, row.time).end
  BY DEF ReadComponent
<1>3. /\ again.kind = i.kind /\ again.summary = i.summary
      /\ again.allDay = t.allDay /\ again.start = t.start /\ again.end = t.end
  BY <1>1, <1>2
<1>4. TimesOf(i.kind, t) /\ SameTimes(t, i, z) /\ t.end = EndRead(i, z)
  BY TimesReturn DEF Sound
<1> HIDE DEF again, t
<1>5. TimesOf(again.kind, again)
  BY <1>3, <1>4 DEF TimesOf
<1>6. SameTimes(again, i, z)
  BY <1>3, <1>4 DEF SameTimes, LastDate
<1>7. again.recurrenceId \in RecurTime
  <2>1. RecurKept(row.recur)
    BY <1>1, StoredRecur DEF Sound
  <2> QED
    BY <1>2, <2>1, LoadedRecur
<1>8. SameTime(again.recurrenceId, i.recurrenceId, z)
  <2> DEFINE no == FALSE
  <2>1. i.recurrenceId \in SomeTime
    BY KnownZones DEF Sound, RecurTime, SomeTime, DateTime
  <2>2. no \in BOOLEAN /\ ~no
    OBVIOUS
  <2>3. again.recurrenceId = GetDateTime(SetDateTime(i.recurrenceId, no, z))
    BY <1>1, <1>2 DEF RecurrenceColumns
  <2> HIDE DEF no
  <2> QED
    BY <2>1, <2>2, <2>3, Stored
<1> QED
  BY <1>3, <1>4, <1>5, <1>6, <1>7, <1>8 DEF Sound, SameRow, again, row

MemoryTimed == \A k \in Key : state[k] # "gone" => Sound(obj[k])

AsWritten(id) ==
  /\ written[id].zone \in Known /\ Sound(written[id].value)
  /\ rows[id].row = ComponentRow(written[id].value, written[id].zone)

RowsAsWritten == DOMAIN written = RowId /\ \A id \in RowId : rows[id] # NoRow => AsWritten(id)

WrittenInv == MemoryTimed /\ RowsAsWritten

\* An incidence in memory is as it was, or sound.
LEMMA TimedSuffices ==
  ASSUME MemoryTimed, \A k \in Key : state'[k] # "gone" =>
           (state[k] # "gone" /\ obj'[k] = obj[k]) \/ Sound(obj'[k])
  PROVE  MemoryTimed'
BY DEF MemoryTimed, Sound, RecurTime, TimesOf, SomeTime, DateTime

\* A row is as it was but for its mark, or gone, or as it is written now.
LEMMA WrittenSuffices ==
  ASSUME RowsAsWritten, DOMAIN written' = RowId,
         \A id \in RowId : rows'[id] # NoRow =>
           \/ rows[id] # NoRow /\ rows'[id].row = rows[id].row /\ written'[id] = written[id]
           \/ \E i : \E z \in Known : /\ Sound(i)
                                      /\ written'[id].zone = z /\ written'[id].value = i
                                      /\ rows'[id].row = ComponentRow(i, z)
  PROVE  RowsAsWritten'
<1> SUFFICES ASSUME NEW id \in RowId, rows'[id] # NoRow
             PROVE  /\ written'[id].zone \in Known /\ Sound(written'[id].value)
                    /\ rows'[id].row = ComponentRow(written'[id].value, written'[id].zone)
  BY DEF RowsAsWritten, AsWritten
<1>1. CASE rows[id] # NoRow /\ rows'[id].row = rows[id].row /\ written'[id] = written[id]
  BY <1>1 DEF RowsAsWritten, AsWritten
<1>2. CASE \E i : \E z \in Known : /\ Sound(i)
                                   /\ written'[id].zone = z /\ written'[id].value = i
                                   /\ rows'[id].row = ComponentRow(i, z)
  BY <1>2
<1> QED
  BY <1>1, <1>2

LEMMA DoneTimed ==
  ASSUME MemoryTimed, MemorySound, NEW k \in Key, Done(k), state[k] = phase, phase # "gone"
  PROVE  MemoryTimed'
<1>1. \/ state' = [state EXCEPT ![k] = "gone"] /\ obj' = [obj EXCEPT ![k] = NoObject]
      \/ state' = [state EXCEPT ![k] = "clean"] /\ obj' = obj
  BY DEF Done, Forget
<1>2. \A l \in Key : state'[l] # "gone" => state[l] # "gone" /\ obj'[l] = obj[l]
  BY <1>1 DEF MemorySound
<1> QED
  BY <1>2, TimedSuffices

LEMMA WrittenEdit ==
  ASSUME MemoryTimed, MemorySound, NEW k \in Key, NEW i \in Contents[k], Add(k, i) \/ Edit(k, i)
  PROVE  MemoryTimed'
<1>1. /\ {"kind", "allDay", "start", "end", "recurrenceId"} \subseteq DOMAIN i
      /\ i.kind \in {"Event", "Todo", "Journal"}
      /\ TimesOf(i.kind, i)
      /\ i.recurrenceId \in RecurTime
  BY TimesAssumption, RecurrenceAssumption DEF RecurTime
<1>2. CASE Add(k, i)
  <2>1. obj' = [obj EXCEPT ![k] = i] /\ state' = [state EXCEPT ![k] = "insert"]
    BY <1>2 DEF Add
  <2>2. Sound(i)
    BY <1>1 DEF Sound
  <2>3. \A l \in Key : state'[l] # "gone" =>
          (state[l] # "gone" /\ obj'[l] = obj[l]) \/ Sound(obj'[l])
    BY <2>1, <2>2 DEF MemorySound
  <2> QED
    BY <2>3, TimedSuffices
<1>3. CASE Edit(k, i)
  <2> DEFINE new == [i EXCEPT !.recurrenceId = obj[k].recurrenceId]
  <2>1. /\ obj' = [obj EXCEPT ![k] = new]
        /\ state' = [state EXCEPT ![k] = IF @ = "clean" THEN "update" ELSE @]
        /\ state[k] \in {"clean", "insert", "update"}
    BY <1>3 DEF Edit
  <2>2. /\ new.recurrenceId = obj[k].recurrenceId /\ new.kind = i.kind
        /\ new.allDay = i.allDay /\ new.start = i.start /\ new.end = i.end
    BY <1>1
  <2>3. obj[k].recurrenceId \in RecurTime
    BY <2>1 DEF MemorySound
  <2> HIDE DEF new
  <2>4. TimesOf(new.kind, new)
    BY <1>1, <2>2 DEF TimesOf
  <2>5. Sound(new)
    BY <1>1, <2>2, <2>3, <2>4 DEF Sound
  <2>6. \A l \in Key : state'[l] # "gone" =>
          (state[l] # "gone" /\ obj'[l] = obj[l]) \/ Sound(obj'[l])
    BY <2>1, <2>5 DEF MemorySound
  <2> QED
    BY <2>6, TimedSuffices
<1> QED
  BY <1>2, <1>3

LEMMA WrittenReload ==
  ASSUME WrittenInv, NEW z \in Known, Reload(z)
  PROVE  MemoryTimed'
<1> DEFINE live(k) == {id \in RowId : Live(id) /\ rows[id].key = k}
<1>1. /\ state' = [k \in Key |-> IF live(k) = {} THEN "gone" ELSE "clean"]
      /\ obj' = [k \in Key |-> IF live(k) = {} THEN NoObject
                               ELSE Loaded(CHOOSE id \in live(k) : TRUE)]
  BY DEF Reload
<1>2. ASSUME NEW k \in Key, state'[k] # "gone" PROVE Sound(obj'[k])
  <2>1. PICK id \in live(k) : obj'[k] = Loaded(id)
    BY <1>1, <1>2
  <2>2. AsWritten(id)
    BY <2>1 DEF Live, WrittenInv, RowsAsWritten
  <2>3. Sound(Loaded(id))
    BY <2>2, RowReturns DEF AsWritten, Loaded
  <2> QED
    BY <2>1, <2>3
<1> QED
  BY <1>2, TimedSuffices DEF WrittenInv

LEMMA WrittenInsert ==
  ASSUME IInv, IdentityInv, WrittenInv, NEW k \in Key, NEW freed, NEW fault, NEW purge,
         SaveInsert(k, freed, fault, purge)
  PROVE  RowsAsWritten'
<1>1. CASE fault.at = "row"
  <2>1. UNCHANGED <<rows, written>>
    BY <1>1 DEF SaveInsert, tables
  <2>2. DOMAIN written' = RowId
    BY <2>1 DEF WrittenInv, RowsAsWritten
  <2> QED
    BY <2>1, <2>2, WrittenSuffices DEF WrittenInv
<1>2. CASE fault.at # "row"
  <2> DEFINE gone == IF stuck \/ ~purge THEN {} ELSE DeadRows(k)
             new == [uid |-> k.uid, key |-> k, deleted |-> FALSE, row |-> ComponentRow(obj[k], zone)]
             inserted == [rows EXCEPT ![NewId] = new]
             noted == [written EXCEPT ![NewId] = Written(obj[k], fault)]
  <2>1. rows' = Purged(inserted, gone, NoRow) /\ written' = Purged(noted, gone, NotWritten)
    BY <1>2 DEF SaveInsert
  <2>2. zone \in Known /\ Sound(obj[k])
    BY DEF SaveInsert, WrittenInv, MemoryTimed, IdentityInv, MemorySound
  <2>3. DOMAIN rows = RowId /\ DOMAIN written = RowId
    BY DEF IInv, Columns, WrittenInv, RowsAsWritten
  <2>4. /\ Written(obj[k], fault).zone = zone /\ Written(obj[k], fault).value = obj[k]
        /\ new.row = ComponentRow(obj[k], zone)
    BY DEF Written
  <2> HIDE DEF gone, new
  <2>5. ASSUME NEW id \in RowId, id \notin gone
        PROVE  rows'[id] = inserted[id] /\ written'[id] = noted[id]
    BY <2>1, <2>5 DEF Purged
  <2>6. ASSUME NEW id \in RowId, rows'[id] # NoRow
        PROVE  id \notin gone
    BY <2>1, <2>6 DEF Purged
  <2>7. ASSUME NEW id \in RowId, rows'[id] # NoRow
        PROVE  \/ rows[id] # NoRow /\ rows'[id].row = rows[id].row /\ written'[id] = written[id]
               \/ \E i : \E z \in Known : /\ Sound(i)
                                          /\ written'[id].zone = z /\ written'[id].value = i
                                          /\ rows'[id].row = ComponentRow(i, z)
    <3>1. rows'[id] = inserted[id] /\ written'[id] = noted[id]
      BY <2>5, <2>6, <2>7
    <3>2. CASE id = NewId
      <4>1. rows'[id] = new /\ written'[id] = Written(obj[k], fault)
        BY <2>3, <3>1, <3>2
      <4> QED
        BY <2>2, <2>4, <4>1
    <3>3. CASE id # NewId
      BY <2>3, <2>7, <3>1, <3>3
    <3> QED
      BY <3>2, <3>3
  <2>8. DOMAIN written' = RowId
    BY <2>1 DEF Purged
  <2> QED
    BY <2>7, <2>8, WrittenSuffices DEF WrittenInv
<1> QED
  BY <1>1, <1>2

LEMMA WrittenUpdate ==
  ASSUME IInv, IdentityInv, WrittenInv, NEW k \in Key, NEW freed, NEW fault,
         SaveUpdate(k, freed, fault)
  PROVE  RowsAsWritten'
<1>1. DOMAIN rows = RowId /\ DOMAIN written = RowId
  BY DEF IInv, Columns, WrittenInv, RowsAsWritten
<1>2. CASE FoundRows(k) = {} \/ fault.at = "row"
  <2>1. UNCHANGED <<rows, written>>
    BY <1>2 DEF SaveUpdate, tables
  <2> QED
    BY <1>1, <2>1, WrittenSuffices DEF WrittenInv
<1>3. CASE ~(FoundRows(k) = {} \/ fault.at = "row")
  <2>1. PICK id \in FoundRows(k) :
          /\ rows' = [rows EXCEPT ![id].row = ComponentRow(obj[k], zone)]
          /\ written' = [written EXCEPT ![id] = Written(obj[k], fault)]
    BY <1>3 DEF SaveUpdate
  <2>2. zone \in Known /\ Sound(obj[k])
    BY DEF SaveUpdate, WrittenInv, MemoryTimed, IdentityInv, MemorySound
  <2>3. id \in RowId /\ rows[id] # NoRow /\ SoundRow(id)
    BY <2>1 DEF FoundRows, WithIdentity, IdentityInv, RowsSound
  <2>4. Written(obj[k], fault).zone = zone /\ Written(obj[k], fault).value = obj[k]
    BY DEF Written
  <2> DEFINE new == [rows[id] EXCEPT !.row = ComponentRow(obj[k], zone)]
  <2>5. new.row = ComponentRow(obj[k], zone)
    BY <2>3 DEF SoundRow
  <2>6. rows'[id] = new /\ \A other \in RowId \ {id} : rows'[other] = rows[other]
    BY <1>1, <2>1, <2>3
  <2> HIDE DEF new
  <2>7. ASSUME NEW other \in RowId, rows'[other] # NoRow
        PROVE  \/ /\ rows[other] # NoRow /\ rows'[other].row = rows[other].row
                  /\ written'[other] = written[other]
               \/ \E i : \E z \in Known : /\ Sound(i)
                                          /\ written'[other].zone = z /\ written'[other].value = i
                                          /\ rows'[other].row = ComponentRow(i, z)
    <3>1. CASE other = id
      <4>1. written'[other] = Written(obj[k], fault) /\ rows'[other].row = ComponentRow(obj[k], zone)
        BY <1>1, <2>1, <2>3, <2>5, <2>6, <3>1
      <4> QED
        BY <2>2, <2>4, <4>1
    <3>2. CASE other # id
      BY <1>1, <2>1, <2>6, <2>7, <3>2
    <3> QED
      BY <3>1, <3>2
  <2>8. DOMAIN written' = RowId
    BY <1>1, <2>1
  <2> QED
    BY <2>7, <2>8, WrittenSuffices DEF WrittenInv
<1> QED
  BY <1>2, <1>3

\* Rows are marked or erased, and what is remembered of the others stays.
LEMMA WrittenErase ==
  ASSUME RowsAsWritten, NEW D,
         \/ UNCHANGED <<rows, written>>
         \/ rows' = Purged(rows, D, NoRow) /\ written' = Purged(written, D, NotWritten)
  PROVE  RowsAsWritten'
<1>1. DOMAIN written' = RowId
  BY DEF Purged, RowsAsWritten
<1>2. \A id \in RowId : rows'[id] # NoRow =>
        rows[id] # NoRow /\ rows'[id].row = rows[id].row /\ written'[id] = written[id]
  BY DEF Purged
<1> QED
  BY <1>1, <1>2, WrittenSuffices

LEMMA WrittenMark ==
  ASSUME IInv, IdentityInv, WrittenInv, NEW k \in Key, NEW freed, NEW fault,
         SaveMark(k, freed, fault)
  PROVE  RowsAsWritten'
<1>1. DOMAIN rows = RowId /\ DOMAIN written = RowId
  BY DEF IInv, Columns, WrittenInv, RowsAsWritten
<1>2. UNCHANGED written
  BY DEF SaveMark
<1>3. CASE FoundRows(k) = {} \/ fault.at = "row"
  <2>1. UNCHANGED rows
    BY <1>3 DEF SaveMark, tables
  <2> QED
    BY <1>2, <2>1, WrittenErase DEF WrittenInv
<1>4. CASE ~(FoundRows(k) = {} \/ fault.at = "row")
  <2>1. PICK id \in FoundRows(k) : rows' = [rows EXCEPT ![id].deleted = TRUE]
    BY <1>4 DEF SaveMark
  <2>2. id \in RowId /\ rows[id] # NoRow /\ SoundRow(id)
    BY <2>1 DEF FoundRows, WithIdentity, IdentityInv, RowsSound
  <2>3. rows'[id].row = rows[id].row
    <3>1. rows'[id] = [rows[id] EXCEPT !.deleted = TRUE]
      BY <1>1, <2>1, <2>2
    <3> QED
      BY <2>2, <3>1 DEF SoundRow
  <2>4. \A other \in RowId : rows'[other] # NoRow =>
          /\ rows[other] # NoRow /\ rows'[other].row = rows[other].row
          /\ written'[other] = written[other]
    BY <1>1, <1>2, <2>1, <2>2, <2>3
  <2> QED
    BY <1>1, <1>2, <2>4, WrittenSuffices DEF WrittenInv
<1> QED
  BY <1>3, <1>4

LEMMA WrittenStep == IInv /\ IdentityInv /\ WrittenInv /\ [Next]_vars => WrittenInv'
<1> SUFFICES ASSUME IInv, IdentityInv, WrittenInv, [Next]_vars PROVE WrittenInv'
  OBVIOUS
<1> USE DEF WrittenInv
<1>1. ASSUME UNCHANGED memory PROVE MemoryTimed'
  BY <1>1, TimedSuffices DEF memory
<1>2. ASSUME UNCHANGED <<rows, written>> PROVE RowsAsWritten'
  BY <1>2, WrittenErase
<1>3. MemorySound
  BY DEF IdentityInv
<1>4. ASSUME NEW k \in Key, NEW i \in Contents[k], Add(k, i) \/ Edit(k, i) PROVE WrittenInv'
  <2>1. UNCHANGED <<rows, written>>
    BY <1>4 DEF Add, Edit, tables, history
  <2> QED
    BY <1>2, <1>3, <1>4, <2>1, WrittenEdit
<1>5. ASSUME NEW k \in Key, Delete(k) PROVE WrittenInv'
  <2>1. \/ state' = [state EXCEPT ![k] = "gone"] /\ obj' = [obj EXCEPT ![k] = NoObject]
        \/ state' = [state EXCEPT ![k] = "delete"] /\ obj' = obj
    BY <1>5 DEF Delete, Forget
  <2>2. \A l \in Key : state'[l] # "gone" => obj'[l] = obj[l] /\ state[l] # "gone"
    BY <1>3, <1>5, <2>1 DEF Delete, MemorySound
  <2>3. UNCHANGED <<rows, written>>
    BY <1>5 DEF Delete, tables, history
  <2> QED
    BY <1>2, <2>2, <2>3, TimedSuffices
<1>6. ASSUME NEW z \in Known, Reload(z) PROVE WrittenInv'
  <2>1. UNCHANGED <<rows, written>>
    BY <1>6 DEF Reload, tables, history
  <2> QED
    BY <1>2, <1>6, <2>1, WrittenReload
<1>7. ASSUME UNCHANGED <<memory, rows, written>> PROVE WrittenInv'
  BY <1>1, <1>2, <1>7
<1>8. ASSUME NEW action, SaveBegin(action) PROVE WrittenInv'
  BY <1>7, <1>8 DEF SaveBegin, tables, history
<1>9. CASE NextPhase
  BY <1>7, <1>9 DEF NextPhase, tables, history
<1>10. ASSUME NEW k \in Key, NEW freed, NEW fault,
              \/ \E purge \in BOOLEAN : SaveInsert(k, freed, fault, purge)
              \/ SaveUpdate(k, freed, fault)
              \/ SaveMark(k, freed, fault)
       PROVE  WrittenInv'
  <2>1. Done(k) /\ state[k] = phase /\ phase # "gone"
    BY <1>10 DEF SaveInsert, SaveUpdate, SaveMark
  <2>2. RowsAsWritten'
    BY <1>10, WrittenInsert, WrittenUpdate, WrittenMark
  <2> QED
    BY <1>3, <2>1, <2>2, DoneTimed
<1>11. ASSUME NEW k \in Key, NEW fault, SaveDelete(k, fault) PROVE WrittenInv'
  <2>1. Done(k) /\ state[k] = phase /\ phase # "gone"
    BY <1>11 DEF SaveDelete
  <2>2. \E D : \/ UNCHANGED <<rows, written>>
               \/ rows' = Purged(rows, D, NoRow) /\ written' = Purged(written, D, NotWritten)
    BY <1>11 DEF SaveDelete, tables
  <2> QED
    BY <1>3, <2>1, <2>2, DoneTimed, WrittenErase
<1>12. ASSUME NEW D, NEW gone, NEW fault, Purge(D, gone, fault) PROVE WrittenInv'
  <2>1. /\ UNCHANGED memory
        /\ rows' = Purged(rows, gone, NoRow) /\ written' = Purged(written, gone, NotWritten)
    BY <1>12 DEF Purge
  <2> QED
    BY <1>1, <2>1, WrittenErase
<1>13. CASE UNCHANGED vars
  BY <1>7, <1>13 DEF vars, tables, history
<1> QED
  BY <1>4, <1>5, <1>6, <1>8, <1>9, <1>10, <1>11, <1>12, <1>13 DEF Next

LEMMA WrittenInvHolds == Spec => []WrittenInv
<1>1. Init => WrittenInv
  <2> SUFFICES ASSUME Init PROVE WrittenInv
    OBVIOUS
  <2>1. MemoryTimed
    BY DEF Init, MemoryTimed
  <2>2. RowsAsWritten
    BY DEF Init, RowsAsWritten
  <2> QED
    BY <2>1, <2>2 DEF WrittenInv
<1> QED
  BY <1>1, WrittenStep, IdsFresh, IdentityInvHolds, PTL DEF Spec

\* What a row says of an incidence is what was written last, on the same days
\* and at the same instants, whatever zones the device has been in and whatever
\* statements have failed: the first half of LoadedIsWritten.
RowsAreWritten ==
  \A id \in RowId : rows[id] # NoRow =>
    SameRow(Loaded(id), written[id].value, written[id].zone)

\* Every row, marked as deleted or not, loads as the incidence that the last
\* successful statement on it wrote (setDateTime, getDateTime, selectComponents).
THEOREM TimesComeBack == Spec => []RowsAreWritten
<1>1. WrittenInv => RowsAreWritten
  <2> SUFFICES ASSUME WrittenInv, NEW id \in RowId, rows[id] # NoRow
               PROVE  SameRow(Loaded(id), written[id].value, written[id].zone)
    BY DEF RowsAreWritten
  <2>1. AsWritten(id)
    BY DEF WrittenInv, RowsAsWritten
  <2> QED
    BY <2>1, RowReturns DEF AsWritten, Loaded
<1> QED
  BY <1>1, WrittenInvHolds, PTL

\* Saved again as it was loaded, from any zone, a row says the same: the first
\* half of RoundTripStable.
RowsAreStable ==
  \A id \in RowId : rows[id] # NoRow =>
    \A z \in Known : \A others :
      SameRow(ReadComponent(ComponentRow(Loaded(id), z), others), Loaded(id), z)

\* No day or hour is lost from one save to the next (setDateTime, getDateTime).
THEOREM NoDrift == Spec => []RowsAreStable
<1>1. WrittenInv => RowsAreStable
  <2> SUFFICES ASSUME WrittenInv, NEW id \in RowId, rows[id] # NoRow, NEW z \in Known, NEW others
               PROVE  SameRow(ReadComponent(ComponentRow(Loaded(id), z), others), Loaded(id), z)
    BY DEF RowsAreStable
  <2>1. AsWritten(id)
    BY DEF WrittenInv, RowsAsWritten
  <2>2. Sound(Loaded(id))
    BY <2>1, RowReturns DEF AsWritten, Loaded
  <2> QED
    BY <2>2, RowReturns
<1> QED
  BY <1>1, WrittenInvHolds, PTL

-----------------------------------------------------------------------------
(***************************************************************************)
(* Sequences.  Lists are filtered, offered to an index one by one and      *)
(* flattened by folds.  The prover has no induction over these; what is    *)
(* claimed of any number of turns is shown for the least number that would *)
(* be an exception.                                                        *)
(***************************************************************************)

\* Any natural numbers have a least one.
LEMMA LeastNat ==
  ASSUME NEW S, S \subseteq Nat, S # {}
  PROVE  \E m \in S : \A n \in S : m <= n
<1> DEFINE R == OpToRel(<, Nat)
<1>1. IsWellFoundedOn(R, Nat)
  BY NatLessThanWellFounded
<1>2. \A x, y \in Nat : y < x => <<y, x>> \in R
  BY DEF OpToRel
<1> HIDE DEF R
<1>3. PICK m \in S : \A n \in S : ~(<<n, m>> \in R)
  BY <1>1, WFMin
<1>4. ASSUME NEW n \in S PROVE m <= n
  <2>1. m \in Nat /\ n \in Nat
    OBVIOUS
  <2>2. ~(n < m)
    BY <1>2, <1>3, <2>1
  <2> QED
    BY <2>1, <2>2
<1> QED
  BY <1>4

\* What holds at 0 and goes on holds as far as it goes on.
LEMMA Upward ==
  ASSUME NEW n \in Nat, NEW P, 0 \in P, \A k \in 1 .. n : k - 1 \in P => k \in P
  PROVE  \A k \in 0 .. n : k \in P
<1> DEFINE Bad == {k \in 0 .. n : k \notin P}
<1>1. SUFFICES ASSUME Bad # {} PROVE FALSE
  OBVIOUS
<1>2. Bad \subseteq Nat
  OBVIOUS
<1>3. PICK k \in Bad : \A j \in Bad : k <= j
  <2> HIDE DEF Bad
  <2> QED
    BY <1>1, <1>2, LeastNat
<1>4. k \in 0 .. n /\ k \notin P /\ k # 0
  OBVIOUS
<1>5. k - 1 \in 0 .. n /\ k \in 1 .. n /\ ~(k <= k - 1)
  BY <1>4
<1>6. k - 1 \in P
  <2>1. k - 1 \notin Bad
    <3> HIDE DEF Bad
    <3> QED
      BY <1>3, <1>5
  <2> QED
    BY <1>5, <2>1
<1> QED
  BY <1>4, <1>5, <1>6

\* Places and elements of a sequence.
LEMMA IsSeqLength ==
  ASSUME NEW s, IsSeq(s)
  PROVE  Len(s) \in Nat /\ DOMAIN s = 1 .. Len(s) /\ \A n \in 1 .. Len(s) : s[n] \in ToSet(s)
<1>1. s \in Seq(ToSet(s))
  BY DEF IsSeq
<1> QED
  BY <1>1, LenProperties, ElementOfSeq

LEMMA IsSeqOf ==
  ASSUME NEW S, NEW s \in Seq(S)
  PROVE  IsSeq(s) /\ ToSet(s) \subseteq S
<1>1. Len(s) \in Nat /\ s \in [1 .. Len(s) -> S] /\ DOMAIN s = 1 .. Len(s)
  BY LenProperties
<1>2. s \in [1 .. Len(s) -> ToSet(s)]
  BY <1>1 DEF ToSet
<1>3. s \in Seq(ToSet(s))
  <2> HIDE DEF ToSet
  <2> QED
    BY <1>1, <1>2
<1>4. ToSet(s) \subseteq S
  BY <1>1 DEF ToSet
<1> QED
  BY <1>3, <1>4 DEF IsSeq

\* A function on the first numbers is a sequence.
LEMMA FirstNumbers ==
  ASSUME NEW n \in Nat, NEW s, s = [k \in 1 .. n |-> s[k]]
  PROVE  IsSeq(s) /\ Len(s) = n
<1>1. s \in [1 .. n -> {s[k] : k \in 1 .. n}]
  OBVIOUS
<1>2. s \in Seq({s[k] : k \in 1 .. n}) /\ Len(s) = n
  BY <1>1
<1> QED
  BY <1>2, IsSeqOf

LEMMA EmptySeqIs == IsSeq(<<>>) /\ Len(<<>>) = 0
<1>1. <<>> \in Seq({})
  OBVIOUS
<1> QED
  BY <1>1, IsSeqOf

LEMMA OneInSeq == \A x : IsSeq(<<x>>) /\ Len(<<x>>) = 1 /\ <<x>>[1] = x
<1> TAKE x
<1>1. <<x>> \in Seq({x})
  OBVIOUS
<1> QED
  BY <1>1, IsSeqOf

\* Sequences are equal if their elements are.
LEMMA SameSeq ==
  ASSUME NEW s, IsSeq(s), NEW t, IsSeq(t), Len(s) = Len(t), \A n \in 1 .. Len(s) : s[n] = t[n]
  PROVE  s = t
<1>1. s \in Seq(ToSet(s) \cup ToSet(t)) /\ t \in Seq(ToSet(s) \cup ToSet(t))
  BY SeqMonotonic DEF IsSeq
<1> QED
  BY <1>1, SeqEqual

LEMMA Joined ==
  ASSUME NEW s, IsSeq(s), NEW t, IsSeq(t)
  PROVE  /\ IsSeq(s \o t) /\ Len(s \o t) = Len(s) + Len(t)
         /\ \A n \in 1 .. Len(s) + Len(t) :
              (s \o t)[n] = IF n <= Len(s) THEN s[n] ELSE t[n - Len(s)]
<1>1. s \in Seq(ToSet(s) \cup ToSet(t)) /\ t \in Seq(ToSet(s) \cup ToSet(t))
  BY SeqMonotonic DEF IsSeq
<1> DEFINE S == ToSet(s) \cup ToSet(t)
<1>2. /\ s \o t \in Seq(S) /\ Len(s \o t) = Len(s) + Len(t)
      /\ \A n \in 1 .. Len(s) + Len(t) : (s \o t)[n] = IF n <= Len(s) THEN s[n] ELSE t[n - Len(s)]
  <2> HIDE DEF S
  <2>1. s \in Seq(S) /\ t \in Seq(S)
    BY <1>1 DEF S
  <2> QED
    BY <2>1, ConcatProperties
<1> HIDE DEF S
<1>3. IsSeq(s \o t)
  BY <1>2, IsSeqOf
<1> QED
  BY Zenon, <1>2, <1>3

\* Added at the end.
LEMMA Appended ==
  ASSUME NEW s, IsSeq(s), NEW x
  PROVE  /\ IsSeq(Append(s, x)) /\ Len(Append(s, x)) = Len(s) + 1
         /\ \A n \in 1 .. Len(s) : Append(s, x)[n] = s[n]
         /\ Append(s, x)[Len(s) + 1] = x
<1>1. s \in Seq(ToSet(s) \cup {x})
  BY SeqMonotonic DEF IsSeq
<1> DEFINE S == ToSet(s) \cup {x}
<1>2. /\ Append(s, x) \in Seq(S) /\ Len(Append(s, x)) = Len(s) + 1
      /\ \A n \in 1 .. Len(s) : Append(s, x)[n] = s[n]
      /\ Append(s, x)[Len(s) + 1] = x
  <2> x \in S
    OBVIOUS
  <2> HIDE DEF S
  <2>1. s \in Seq(S)
    BY <1>1 DEF S
  <2> QED
    BY <2>1, AppendProperties
<1> HIDE DEF S
<1>3. IsSeq(Append(s, x))
  BY <1>2, IsSeqOf
<1> QED
  BY Zenon, <1>2, <1>3

\* A text is offered to the unique index of Attendee, or is kept if it is in S.
Offer(s, r) == IF \E n \in DOMAIN s : s[n].email = r.email THEN s ELSE Append(s, r)

Turn(which, S, rv, x) ==
  IF which = "kept" THEN (IF x \in S THEN Append(rv, x) ELSE rv) ELSE Offer(rv, x)

\* The function MapThenFoldSet() chooses, on the sets of places of the elements.
Fold(it, which, S, s, D) ==
  it = [d \in SUBSET D |-> IF d = {} THEN <<>>
                           ELSE Turn(which, S, it[d \ {Max(d)}], s[Max(d)])]

\* The greatest of some numbers.
LEMMA MaxIs ==
  ASSUME NEW S, S \subseteq Nat, NEW m \in S, \A x \in S : x <= m
  PROVE  Max(S) = m
<1>1. \A y \in S : (\A x \in S : x <= y) => y = m
  OBVIOUS
<1>2. Max(S) = CHOOSE x \in S : \A y \in S : x >= y
  BY DEF Max
<1>3. \A x \in S : m >= x
  OBVIOUS
<1>4. Max(S) \in S /\ \A x \in S : Max(S) >= x
  BY <1>2, <1>3
<1> QED
  BY <1>1, <1>4

\* A fold over k elements goes on to the next one, so there is one over any number.
LEMMA FoldFurther ==
  ASSUME NEW k \in Nat, NEW which, NEW S, NEW s, NEW it, Fold(it, which, S, s, 1 .. k)
  PROVE  \E new : Fold(new, which, S, s, 1 .. k+1)
<1> DEFINE val(f, d) == IF d = {} THEN <<>> ELSE Turn(which, S, f[d \ {Max(d)}], s[Max(d)])
           new == [d \in SUBSET (1 .. k+1) |-> val(it, d)]
           again == [d \in SUBSET (1 .. k+1) |-> val(new, d)]
<1>1. 1 .. k \subseteq 1 .. k+1
  OBVIOUS
<1>2. \A d \in SUBSET (1 .. k) : new[d] = it[d]
  BY <1>1 DEF Fold
<1>3. ASSUME NEW d \in SUBSET (1 .. k+1), d # {}
      PROVE  d \ {Max(d)} \in SUBSET (1 .. k)
  <2>1. \A x \in d : x \in Nat /\ x >= 1 /\ x <= k + 1
    OBVIOUS
  <2>2. CASE k + 1 \in d
    <3>1. Max(d) = k + 1
      BY <2>1, <2>2, MaxIs
    <3> QED
      BY <2>1, <3>1
  <2>3. CASE k + 1 \notin d
    <3>1. \A x \in d : x \in 1 .. k
      BY <2>1, <2>3
    <3> QED
      BY <3>1
  <2> QED
    BY <2>2, <2>3
<1>4. ASSUME NEW d \in SUBSET (1 .. k+1) PROVE new[d] = again[d]
  <2>1. CASE d = {}
    BY <2>1
  <2>2. CASE d # {}
    <3>1. new[d \ {Max(d)}] = it[d \ {Max(d)}]
      BY <1>2, <1>3, <2>2
    <3>2. new[d] = val(it, d) /\ again[d] = val(new, d)
      OBVIOUS
    <3> HIDE DEF new, again
    <3> QED
      BY <2>2, <3>1, <3>2
  <2> QED
    BY <2>1, <2>2
<1>5. new = again
  <2>1. new = [d \in SUBSET (1 .. k+1) |-> new[d]] /\ again = [d \in SUBSET (1 .. k+1) |-> again[d]]
    OBVIOUS
  <2> HIDE DEF new, again
  <2> QED
    BY <1>4, <2>1
<1> HIDE DEF new
<1> QED
  BY <1>5 DEF Fold

\* There is a fold over any number of elements.
LEMMA FoldExists ==
  ASSUME NEW which, NEW S, NEW s, NEW n \in Nat
  PROVE  \E it : Fold(it, which, S, s, 1 .. n)
<1> DEFINE P == {k \in 0 .. n : \E it : Fold(it, which, S, s, 1 .. k)}
<1>1. 0 \in P
  <2>1. 1 .. 0 = {} /\ SUBSET {} = {{}}
    OBVIOUS
  <2>2. Fold([d \in {{}} |-> <<>>], which, S, s, {})
    BY <2>1 DEF Fold
  <2> QED
    BY <2>1, <2>2
<1>2. ASSUME NEW k \in 1 .. n, k - 1 \in P PROVE k \in P
  <2>1. k - 1 \in Nat /\ (k - 1) + 1 = k
    OBVIOUS
  <2>2. PICK it : Fold(it, which, S, s, 1 .. k-1)
    BY <1>2
  <2>3. \E new : Fold(new, which, S, s, 1 .. (k-1)+1)
    BY <2>1, <2>2, FoldFurther
  <2> QED
    BY <2>1, <2>3
<1>3. n \in P
  <2> HIDE DEF P
  <2> QED
    BY <1>1, <1>2, Upward
<1> QED
  BY <1>3

\* What such a fold has after each turn.
Turns(f, which, S, s) ==
  /\ f[0] = <<>>
  /\ \A k \in 1 .. Len(s) : f[k] = Turn(which, S, f[k - 1], s[k])

\* The fold over the first k elements is what it is after k turns.
LEMMA FoldTurns ==
  ASSUME NEW which, NEW S, NEW s, IsSeq(s), NEW it, Fold(it, which, S, s, 1 .. Len(s))
  PROVE  Turns([k \in 0 .. Len(s) |-> it[1 .. k]], which, S, s)
<1> DEFINE n == Len(s)
           f == [k \in 0 .. n |-> it[1 .. k]]
<1>1. n \in Nat
  BY IsSeqLength
<1> HIDE DEF n
<1>2. f[0] = <<>>
  <2>1. 1 .. 0 = {} /\ {} \in SUBSET (1 .. n)
    OBVIOUS
  <2>2. it[{}] = <<>>
    BY <2>1 DEF Fold, n
  <2> QED
    BY <1>1, <2>1, <2>2
<1>3. ASSUME NEW k \in 1 .. n PROVE f[k] = Turn(which, S, f[k - 1], s[k])
  <2>1. 1 .. k \in SUBSET (1 .. n) /\ 1 .. k # {} /\ k \in 1 .. k
    BY <1>1
  <2>2. Max(1 .. k) = k
    <3>1. 1 .. k \subseteq Nat /\ \A x \in 1 .. k : x <= k
      BY <1>1
    <3> QED
      BY <2>1, <3>1, MaxIs
  <2>3. (1 .. k) \ {k} = 1 .. k-1
    BY <1>1
  <2>4. it[1 .. k] = Turn(which, S, it[1 .. k-1], s[k])
    BY <2>1, <2>2, <2>3 DEF Fold, n
  <2>5. k \in 0 .. n /\ k - 1 \in 0 .. n
    BY <1>1
  <2> QED
    BY <2>4, <2>5
<1> HIDE DEF f
<1>4. Turns(f, which, S, s)
  BY <1>2, <1>3 DEF Turns, n
<1> QED
  BY <1>4 DEF f, n

\* What is kept is what there is after the last turn.
LEMMA KeptTurns ==
  ASSUME NEW S, NEW s, IsSeq(s)
  PROVE  \E f : Turns(f, "kept", S, s) /\ Kept(s, S) = f[Len(s)]
<1> DEFINE Is(it) == it = [d \in SUBSET DOMAIN s |-> IF d = {} THEN <<>> ELSE
                             (IF s[Max(d)] \in S THEN Append(it[d \ {Max(d)}], s[Max(d)])
                                                 ELSE it[d \ {Max(d)}])]
<1>1. DOMAIN s = 1 .. Len(s) /\ Len(s) \in Nat
  BY IsSeqLength
<1>2. \A it : Is(it) <=> Fold(it, "kept", S, s, 1 .. Len(s))
  BY <1>1 DEF Fold, Turn
<1>3. Kept(s, S) = (CHOOSE it : Is(it))[DOMAIN s]
  BY Zenon DEF Kept, FoldLeft, MapThenFoldSet
<1> HIDE DEF Is
<1>4. \E it : Is(it)
  BY <1>1, <1>2, FoldExists
<1>5. Is(CHOOSE it : Is(it))
  BY Zenon, <1>4
<1>6. PICK it : Fold(it, "kept", S, s, 1 .. Len(s)) /\ Kept(s, S) = it[1 .. Len(s)]
  BY <1>1, <1>2, <1>3, <1>5
<1> DEFINE f == [k \in 0 .. Len(s) |-> it[1 .. k]]
<1>7. Turns(f, "kept", S, s)
  BY <1>6, FoldTurns
<1>8. f[Len(s)] = it[1 .. Len(s)]
  BY <1>1
<1> QED
  BY <1>6, <1>7, <1>8

\* So is what the index accepts.
LEMMA AcceptedTurns ==
  ASSUME NEW s, IsSeq(s)
  PROVE  \E f : Turns(f, "offered", {}, s) /\ Accepted("Attendee", <<>>, s) = f[Len(s)]
<1> DEFINE Is(it) == it = [d \in SUBSET DOMAIN s |-> IF d = {} THEN <<>> ELSE
                             Offer(it[d \ {Max(d)}], s[Max(d)])]
<1>1. DOMAIN s = 1 .. Len(s) /\ Len(s) \in Nat
  BY IsSeqLength
<1>2. \A it : Is(it) <=> Fold(it, "offered", {}, s, 1 .. Len(s))
  BY <1>1 DEF Fold, Turn
<1>3. Accepted("Attendee", <<>>, s) = (CHOOSE it : Is(it))[DOMAIN s]
  BY Zenon DEF Accepted, FoldLeft, MapThenFoldSet, Offer
<1> HIDE DEF Is
<1>4. \E it : Is(it)
  BY <1>1, <1>2, FoldExists
<1>5. Is(CHOOSE it : Is(it))
  BY Zenon, <1>4
<1>6. PICK it : Fold(it, "offered", {}, s, 1 .. Len(s)) /\ Accepted("Attendee", <<>>, s) = it[1 .. Len(s)]
  BY <1>1, <1>2, <1>3, <1>5
<1> DEFINE f == [k \in 0 .. Len(s) |-> it[1 .. k]]
<1>7. Turns(f, "offered", {}, s)
  BY <1>6, FoldTurns
<1>8. f[Len(s)] = it[1 .. Len(s)]
  BY <1>1
<1> QED
  BY <1>6, <1>7, <1>8

\* g says where in s each element of t comes from: each place in P has one.
Picks(t, s, P, g) ==
  /\ \A m \in 1 .. Len(t) : g[m] \in P /\ t[m] = s[g[m]]
  /\ \A p \in P : \E m \in 1 .. Len(t) : g[m] = p
  /\ \A m, n \in 1 .. Len(t) : g[m] = g[n] => m = n

\* The element at one more place is picked.
LEMMA PicksOneMore ==
  ASSUME NEW t, IsSeq(t), NEW s, NEW P, NEW g, Picks(t, s, P, g), NEW p, p \notin P
  PROVE  \E h : Picks(Append(t, s[p]), s, P \cup {p}, h)
<1> DEFINE l == Len(t)
           u == Append(t, s[p])
           h == [m \in 1 .. l + 1 |-> IF m = l + 1 THEN p ELSE g[m]]
<1>1. /\ l \in Nat /\ Len(u) = l + 1 /\ u[l + 1] = s[p]
      /\ \A m \in 1 .. l : u[m] = t[m]
  BY Appended, IsSeqLength
<1> HIDE DEF u, l
<1>2. h[l + 1] = p /\ \A m \in 1 .. l : h[m] = g[m]
  BY <1>1
<1>3. \A m \in 1 .. l + 1 : m = l + 1 \/ m \in 1 .. l
  BY <1>1
<1>4. l + 1 \in 1 .. l + 1 /\ \A m \in 1 .. l : m \in 1 .. l + 1
  BY <1>1
<1> HIDE DEF h
<1>5. /\ \A m \in 1 .. l : g[m] \in P /\ t[m] = s[g[m]]
      /\ \A q \in P : \E m \in 1 .. l : g[m] = q
      /\ \A m, n \in 1 .. l : g[m] = g[n] => m = n
  BY DEF Picks, l
<1>6. ASSUME NEW m \in 1 .. l + 1 PROVE h[m] \in P \cup {p} /\ u[m] = s[h[m]]
  BY <1>1, <1>2, <1>3, <1>5
<1>7. ASSUME NEW q \in P \cup {p} PROVE \E m \in 1 .. l + 1 : h[m] = q
  <2>1. CASE q = p
    BY <1>2, <1>4, <2>1
  <2>2. CASE q \in P
    BY <1>2, <1>4, <1>5, <2>2
  <2> QED
    BY <2>1, <2>2
<1>8. ASSUME NEW m \in 1 .. l + 1, NEW n \in 1 .. l + 1, h[m] = h[n] PROVE m = n
  BY <1>2, <1>3, <1>5, <1>8
<1>9. Picks(u, s, P \cup {p}, h)
  BY <1>1, <1>6, <1>7, <1>8 DEF Picks
<1> QED
  BY <1>9 DEF u

\* What is kept are the elements in S, each where it was.
LEMMA KeptPicks ==
  ASSUME NEW S, NEW s, IsSeq(s)
  PROVE  IsSeq(Kept(s, S)) /\ \E g : Picks(Kept(s, S), s, {n \in 1 .. Len(s) : s[n] \in S}, g)
<1> DEFINE n == Len(s)
           Among(k) == {j \in 1 .. k : s[j] \in S}
<1>1. n \in Nat
  BY IsSeqLength
<1>2. PICK f : Turns(f, "kept", S, s) /\ Kept(s, S) = f[n]
  BY KeptTurns
<1> HIDE DEF n
<1> DEFINE P == {k \in 0 .. n : IsSeq(f[k]) /\ \E g : Picks(f[k], s, Among(k), g)}
<1>3. 0 \in P
  <2>1. f[0] = <<>>
    BY <1>2 DEF Turns
  <2>2. Among(0) = {} /\ 0 \in 0 .. n
    BY <1>1
  <2>3. Picks(<<>>, s, {}, <<>>)
    BY EmptySeqIs DEF Picks
  <2>4. IsSeq(f[0]) /\ Picks(f[0], s, Among(0), <<>>)
    BY <2>1, <2>2, <2>3, EmptySeqIs
  <2> QED
    BY <2>2, <2>4
<1>4. ASSUME NEW k \in 1 .. n, k - 1 \in P PROVE k \in P
  <2>1. f[k] = IF s[k] \in S THEN Append(f[k - 1], s[k]) ELSE f[k - 1]
    BY <1>2 DEF Turns, Turn, n
  <2>2. PICK g : IsSeq(f[k - 1]) /\ Picks(f[k - 1], s, Among(k - 1), g)
    BY <1>4
  <2>3. CASE s[k] \in S
    <3>1. Among(k) = Among(k - 1) \cup {k} /\ k \notin Among(k - 1)
      BY <1>1, <2>3
    <3>2. IsSeq(f[k])
      BY <2>1, <2>2, <2>3, Appended
    <3>3. \E h : Picks(Append(f[k - 1], s[k]), s, Among(k - 1) \cup {k}, h)
      <4> HIDE DEF Among, P
      <4> QED
        BY <2>2, <3>1, PicksOneMore
    <3>4. \E h : Picks(f[k], s, Among(k), h)
      <4> HIDE DEF Among, P
      <4> QED
        BY <2>1, <2>3, <3>1, <3>3
    <3> QED
      BY <3>2, <3>4
  <2>4. CASE s[k] \notin S
    <3>1. Among(k) = Among(k - 1)
      BY <1>1, <2>4
    <3>2. f[k] = f[k - 1]
      BY <2>1, <2>4
    <3>3. IsSeq(f[k]) /\ Picks(f[k], s, Among(k), g)
      <4> HIDE DEF Among, P
      <4> QED
        BY <2>2, <3>1, <3>2
    <3> QED
      BY <3>3
  <2> QED
    BY <2>3, <2>4
<1>5. n \in P
  <2>1. n \in 0 .. n
    BY <1>1
  <2> HIDE DEF P
  <2> QED
    BY <1>1, <1>3, <1>4, <2>1, Upward
<1>6. IsSeq(f[n]) /\ \E g : Picks(f[n], s, Among(n), g)
  BY <1>5
<1> QED
  BY <1>2, <1>6 DEF n

\* All of it is kept if it is all in S.
LEMMA KeptAll ==
  ASSUME NEW S, NEW s, IsSeq(s), \A n \in 1 .. Len(s) : s[n] \in S
  PROVE  Kept(s, S) = s
<1> DEFINE n == Len(s)
<1>1. n \in Nat
  BY IsSeqLength
<1>2. PICK f : Turns(f, "kept", S, s) /\ Kept(s, S) = f[n]
  BY KeptTurns
<1> DEFINE Says(k) == IsSeq(f[k]) /\ Len(f[k]) = k /\ \A j \in 1 .. k : f[k][j] = s[j]
           P == {k \in 0 .. n : Says(k)}
<1>a. \A k \in 1 .. n : s[k] \in S
  OBVIOUS
<1> HIDE DEF n
<1>3. 0 \in P
  <2>1. f[0] = <<>>
    BY <1>2 DEF Turns
  <2> QED
    BY <1>1, <2>1, EmptySeqIs
<1>4. ASSUME NEW k \in 1 .. n, k - 1 \in P PROVE k \in P
  <2>1. f[k] = Append(f[k - 1], s[k])
    BY <1>2, <1>a DEF Turns, Turn, n
  <2>2. Says(k - 1)
    BY <1>4
  <2>3. /\ IsSeq(f[k]) /\ Len(f[k]) = Len(f[k - 1]) + 1
        /\ \A j \in 1 .. Len(f[k - 1]) : f[k][j] = f[k - 1][j]
        /\ f[k][Len(f[k - 1]) + 1] = s[k]
    BY <2>1, <2>2, Appended
  <2>4. Says(k)
    BY <1>1, <2>2, <2>3
  <2> QED
    BY <2>4
<1>5. n \in P
  <2>1. n \in 0 .. n
    BY <1>1
  <2> HIDE DEF P
  <2> QED
    BY <1>1, <1>3, <1>4, <2>1, Upward
<1>6. Says(n)
  BY <1>5
<1> QED
  BY <1>2, <1>6, SameSeq DEF n

\* The index refuses nothing if no two rows have the same address.
LEMMA AcceptedAll ==
  ASSUME NEW s, IsSeq(s), \A m, n \in 1 .. Len(s) : s[m].email = s[n].email => m = n
  PROVE  Accepted("Attendee", <<>>, s) = s
<1> DEFINE n == Len(s)
<1>1. n \in Nat
  BY IsSeqLength
<1>2. PICK f : Turns(f, "offered", {}, s) /\ Accepted("Attendee", <<>>, s) = f[n]
  BY AcceptedTurns
<1> DEFINE Says(k) == IsSeq(f[k]) /\ Len(f[k]) = k /\ \A j \in 1 .. k : f[k][j] = s[j]
           P == {k \in 0 .. n : Says(k)}
<1>a. \A j, k \in 1 .. n : s[j].email = s[k].email => j = k
  OBVIOUS
<1> HIDE DEF n
<1>3. 0 \in P
  <2>1. f[0] = <<>>
    BY <1>2 DEF Turns
  <2> QED
    BY <1>1, <2>1, EmptySeqIs
<1>4. ASSUME NEW k \in 1 .. n, k - 1 \in P PROVE k \in P
  <2>1. Says(k - 1)
    BY <1>4
  <2>2. DOMAIN f[k - 1] = 1 .. k - 1
    BY <2>1, IsSeqLength
  <2>3. ~\E j \in DOMAIN f[k - 1] : f[k - 1][j].email = s[k].email
    BY <1>1, <1>a, <2>1, <2>2
  <2>4. f[k] = Append(f[k - 1], s[k])
    BY <1>2, <2>3 DEF Turns, Turn, Offer, n
  <2>5. /\ IsSeq(f[k]) /\ Len(f[k]) = Len(f[k - 1]) + 1
        /\ \A j \in 1 .. Len(f[k - 1]) : f[k][j] = f[k - 1][j]
        /\ f[k][Len(f[k - 1]) + 1] = s[k]
    BY <2>1, <2>4, Appended
  <2>6. Says(k)
    <3>1. Len(f[k - 1]) = k - 1 /\ (k - 1) + 1 = k /\ \A j \in 1 .. k - 1 : f[k - 1][j] = s[j]
      BY <1>1, <2>1
    <3>2. \A j \in 1 .. k : j = k \/ j \in 1 .. k - 1
      BY <1>1
    <3>3. IsSeq(f[k]) /\ Len(f[k]) = k /\ f[k][k] = s[k] /\ \A j \in 1 .. k - 1 : f[k][j] = f[k - 1][j]
      BY <2>5, <3>1
    <3> QED
      BY <3>1, <3>2, <3>3
  <2> QED
    BY <2>6
<1>5. n \in P
  <2>1. n \in 0 .. n
    BY <1>1
  <2> HIDE DEF P
  <2> QED
    BY <1>1, <1>3, <1>4, <2>1, Upward
<1>6. Says(n)
  BY <1>5
<1> QED
  BY <1>2, <1>6, SameSeq DEF n

\* The function FlattenSeq() ends with.
Flattens(f, c, n) == f = [i \in 1 .. n |-> IF i = 1 THEN c[i] ELSE f[i - 1] \o c[i]]

\* What FlattenSeq() chooses exists for any number of texts.
LEMMA FlattenExists ==
  ASSUME NEW c, NEW n \in Nat
  PROVE  \E f : Flattens(f, c, n)
<1> DEFINE P == {k \in 0 .. n : \E f : Flattens(f, c, k)}
<1>1. 0 \in P
  <2>1. 1 .. 0 = {}
    OBVIOUS
  <2>2. Flattens([i \in {} |-> {}], c, 0)
    BY <2>1 DEF Flattens
  <2> QED
    BY <2>2
<1>2. ASSUME NEW k \in 1 .. n, k - 1 \in P PROVE k \in P
  <2>1. PICK f : Flattens(f, c, k - 1)
    BY <1>2
  <2> DEFINE val(g, i) == IF i = 1 THEN c[i] ELSE g[i - 1] \o c[i]
             new == [i \in 1 .. k |-> val(f, i)]
             again == [i \in 1 .. k |-> val(new, i)]
  <2>2. ASSUME NEW i \in 1 .. k - 1 PROVE i \in 1 .. k /\ new[i] = f[i]
    <3>1. i \in 1 .. k /\ new[i] = val(f, i)
      OBVIOUS
    <3>2. f[i] = val(f, i)
      BY <2>1 DEF Flattens
    <3> HIDE DEF val, new
    <3> QED
      BY <3>1, <3>2
  <2>3. ASSUME NEW i \in 1 .. k PROVE val(f, i) = val(new, i)
    <3>1. i = 1 \/ i - 1 \in 1 .. k - 1
      OBVIOUS
    <3> HIDE DEF new
    <3> QED
      BY <2>2, <3>1
  <2>4. new = again
    <3> HIDE DEF val
    <3> QED
      BY <2>3
  <2> HIDE DEF new
  <2>5. Flattens(new, c, k)
    BY <2>4 DEF Flattens
  <2> QED
    BY <2>5
<1>3. n \in P
  <2>1. n \in 0 .. n
    OBVIOUS
  <2> HIDE DEF P
  <2> QED
    BY <1>1, <1>2, <2>1, Upward
<1> QED
  BY <1>3

LEMMA FlattenEmpty == \A c : Len(c) = 0 => FlattenSeq(c) = c
BY DEF FlattenSeq

\* Each text is joined to those before it.
LEMMA FlattenTurns ==
  ASSUME NEW c, Len(c) \in Nat \ {0}
  PROVE  \E f : /\ FlattenSeq(c) = f[Len(c)] /\ f[1] = c[1]
                /\ \A k \in 2 .. Len(c) : f[k] = f[k - 1] \o c[k]
<1> DEFINE n == Len(c)
           Is(f) == f = [i \in 1 .. n |-> IF i = 1 THEN c[i] ELSE f[i - 1] \o c[i]]
<1>1. n # 0 /\ n \in Nat
  OBVIOUS
<1>2. FlattenSeq(c) = (CHOOSE f : Is(f))[n]
  BY Zenon, <1>1 DEF FlattenSeq
<1>3. \A f : Is(f) <=> Flattens(f, c, n)
  BY DEF Flattens
<1> HIDE DEF Is, n
<1>4. \E f : Is(f)
  BY <1>1, <1>3, FlattenExists
<1>5. Is(CHOOSE f : Is(f))
  BY Zenon, <1>4
<1>6. PICK f : Flattens(f, c, n) /\ FlattenSeq(c) = f[n]
  BY <1>2, <1>3, <1>5
<1>7. f[1] = c[1]
  BY <1>1, <1>6 DEF Flattens
<1>8. \A k \in 2 .. n : f[k] = f[k - 1] \o c[k]
  <2>1. \A k \in 2 .. n : k \in 1 .. n /\ k # 1
    BY <1>1
  <2> QED
    BY <1>6, <2>1 DEF Flattens
<1> QED
  BY <1>6, <1>7, <1>8 DEF n

LEMMA FlattenOne == \A x : FlattenSeq(<<x>>) = x
<1> SUFFICES ASSUME NEW x PROVE FlattenSeq(<<x>>) = x
  OBVIOUS
<1> DEFINE c == <<x>>
<1>1. Len(c) = 1 /\ c[1] = x
  OBVIOUS
<1> HIDE DEF c
<1>2. Len(c) \in Nat \ {0}
  BY <1>1
<1>3. FlattenSeq(c) = x
  BY <1>1, <1>2, FlattenTurns
<1> QED
  BY <1>3 DEF c

\* A text is a sequence of words, and so is what texts are joined to.
LEMMA FlattenIsSeq ==
  ASSUME NEW c, IsSeq(c), \A n \in DOMAIN c : IsSeq(c[n])
  PROVE  IsSeq(FlattenSeq(c))
<1> DEFINE n == Len(c)
<1>1. n \in Nat /\ DOMAIN c = 1 .. n
  BY IsSeqLength
<1>2. CASE n = 0
  BY <1>2, FlattenEmpty
<1>3. CASE n # 0
  <2>1. PICK f : /\ FlattenSeq(c) = f[n] /\ f[1] = c[1]
                 /\ \A k \in 2 .. n : f[k] = f[k - 1] \o c[k]
    BY <1>1, <1>3, FlattenTurns
  <2>2. \A k \in 1 .. n : IsSeq(c[k])
    BY <1>1
  <2> HIDE DEF n
  <2> DEFINE P == {k \in 0 .. n : k = 0 \/ IsSeq(f[k])}
  <2>3. 0 \in P
    BY <1>1
  <2>4. ASSUME NEW k \in 1 .. n, k - 1 \in P PROVE k \in P
    <3>1. CASE k = 1
      BY <2>1, <2>2, <3>1
    <3>2. CASE k # 1
      <4>1. k \in 2 .. n /\ IsSeq(f[k - 1])
        BY <2>4, <3>2
      <4>2. f[k] = f[k - 1] \o c[k] /\ IsSeq(c[k])
        BY <2>1, <2>2, <4>1
      <4>3. IsSeq(f[k])
        BY <4>1, <4>2, Joined
      <4> QED
        BY <4>3
    <3> QED
      BY <3>1, <3>2
  <2>5. n \in P
    <3>1. n \in 0 .. n
      BY <1>1
    <3> HIDE DEF P
    <3> QED
      BY <1>1, <2>3, <2>4, <3>1, Upward
  <2> QED
    BY <1>3, <2>1, <2>5
<1> QED
  BY <1>2, <1>3

\* The words of a text are the text.
LEMMA FlattenWords ==
  ASSUME NEW s, IsSeq(s)
  PROVE  FlattenSeq([n \in DOMAIN s |-> <<s[n]>>]) = s
<1> DEFINE n == Len(s)
           c == [k \in DOMAIN s |-> <<s[k]>>]
<1>1. n \in Nat /\ DOMAIN s = 1 .. n
  BY IsSeqLength
<1> HIDE DEF n
<1>2. Len(c) = n /\ \A k \in 1 .. n : c[k] = <<s[k]>>
  <2>1. c = [k \in 1 .. n |-> c[k]]
    BY <1>1
  <2>2. \A k \in 1 .. n : c[k] = <<s[k]>>
    BY <1>1
  <2> HIDE DEF c
  <2> QED
    BY <1>1, <2>1, <2>2, FirstNumbers
<1> HIDE DEF c
<1>3. \A x : IsSeq(<<x>>) /\ Len(<<x>>) = 1 /\ <<x>>[1] = x
  BY OneInSeq
<1>4. CASE n = 0
  <2>1. IsSeq(c)
    <3>1. DOMAIN c = {}
      BY <1>1, <1>4 DEF c
    <3>2. c = <<>>
      BY <1>1, <1>4 DEF c
    <3> QED
      BY <3>2, EmptySeqIs
  <2>2. FlattenSeq(c) = c
    BY <1>2, <1>4, FlattenEmpty
  <2>3. c = s
    BY <1>2, <1>4, <2>1, SameSeq DEF n
  <2> QED
    BY <2>2, <2>3 DEF c
<1>5. CASE n # 0
  <2>1. PICK f : /\ FlattenSeq(c) = f[n] /\ f[1] = c[1]
                 /\ \A k \in 2 .. n : f[k] = f[k - 1] \o c[k]
    BY <1>1, <1>2, <1>5, FlattenTurns
  <2> DEFINE Says(k) == IsSeq(f[k]) /\ Len(f[k]) = k /\ \A j \in 1 .. k : f[k][j] = s[j]
             P == {k \in 0 .. n : k = 0 \/ Says(k)}
  <2>3. 0 \in P
    BY <1>1
  <2>4. ASSUME NEW k \in 1 .. n, k - 1 \in P PROVE k \in P
    <3>1. CASE k = 1
      <4>1. f[1] = <<s[1]>>
        BY <1>2, <2>1, <3>1
      <4> QED
        BY <1>3, <3>1, <4>1
    <3>2. CASE k # 1
      <4>1. k \in 2 .. n /\ Says(k - 1) /\ k - 1 \in Nat /\ (k - 1) + 1 = k
        BY <2>4, <3>2
      <4>2. f[k] = f[k - 1] \o <<s[k]>>
        BY <1>2, <2>1, <4>1
      <4>3. IsSeq(<<s[k]>>) /\ Len(<<s[k]>>) = 1 /\ <<s[k]>>[1] = s[k]
        BY <1>3
      <4> DEFINE one == <<s[k]>>
      <4> HIDE DEF one
      <4>4. /\ IsSeq(f[k - 1] \o one) /\ Len(f[k - 1] \o one) = Len(f[k - 1]) + Len(one)
            /\ \A j \in 1 .. Len(f[k - 1]) + Len(one) :
                 (f[k - 1] \o one)[j] = IF j <= Len(f[k - 1]) THEN f[k - 1][j] ELSE one[j - Len(f[k - 1])]
        BY <4>1, <4>3, Joined DEF one
      <4>5. IsSeq(f[k]) /\ Len(f[k]) = k
        BY <4>1, <4>2, <4>3, <4>4 DEF one
      <4>6. ASSUME NEW j \in 1 .. k PROVE f[k][j] = s[j]
        <5>1. f[k][j] = IF j <= k - 1 THEN f[k - 1][j] ELSE one[j - (k - 1)]
          BY <4>1, <4>2, <4>3, <4>4 DEF one
        <5>2. CASE j = k
          <6>1. ~(j <= k - 1) /\ j - (k - 1) = 1
            BY <5>2
          <6> QED
            BY <4>3, <5>1, <5>2, <6>1 DEF one
        <5>3. CASE j # k
          BY <4>1, <5>1, <5>3
        <5> QED
          BY <5>2, <5>3
      <4> QED
        BY <4>5, <4>6
    <3> QED
      BY <3>1, <3>2
  <2>5. n \in P
    <3>1. n \in 0 .. n
      BY <1>1
    <3> HIDE DEF P
    <3> QED
      BY <1>1, <2>3, <2>4, <3>1, Upward
  <2>6. Says(n)
    BY <1>5, <2>5
  <2>7. f[n] = s
    BY <2>6, SameSeq DEF n
  <2> QED
    BY <2>1, <2>7 DEF c
<1> QED
  BY <1>4, <1>5

-----------------------------------------------------------------------------
(***************************************************************************)
(* One row: an alarm, a rule, a date.                                      *)
(***************************************************************************)

\* An alarm is read as it was, and can be written again (writeAlarms,
\* selectComponents).
LEMMA AlarmBack ==
  ASSUME NEW a, AlarmOf(a), NEW z \in Known
  PROVE  AlarmOf(ReadAlarm(AlarmRow(a, z))) /\ SameAlarm(ReadAlarm(AlarmRow(a, z)), a, z)
<1> DEFINE no == FALSE
           given == IF a.trigger = "time" THEN a.time ELSE NoTime
           address == IF a.action = "Email" THEN FlattenSeq(a.recipients) ELSE <<>>
           row == AlarmRow(a, z)
           b == ReadAlarm(row)
           time == GetDateTime(row.time)
<1>1. /\ row.action = a.action /\ row.text = a.text /\ row.address = address
      /\ row.repeat = a.repeat /\ row.snooze = (IF a.repeat = 0 THEN 0 ELSE a.snooze)
      /\ row.offset = (IF a.trigger = "time" THEN 0 ELSE a.offset)
      /\ row.time = SetDateTime(given, no, z) /\ row.enabled = a.enabled
  BY DEF AlarmRow
<1>2. a.trigger # "time" => row.relation = a.trigger
  BY DEF AlarmRow
<1> HIDE DEF row, address
<1>3. /\ b.action = row.action /\ b.text = row.text /\ b.repeat = row.repeat
      /\ b.snooze = row.snooze /\ b.enabled = row.enabled /\ b.time = time
      /\ b.trigger = (IF time # NoTime THEN "time" ELSE row.relation)
      /\ b.offset = (IF time # NoTime THEN 0 ELSE row.offset)
      /\ b.recipients = (IF row.action # "Email" \/ row.address = <<>> THEN <<>> ELSE <<row.address>>)
  BY DEF ReadAlarm
<1> HIDE DEF b
<1>4. given \in SomeTime /\ given = a.time /\ (given = NoTime <=> a.trigger # "time")
  <2>1. \A t \in DateTime : t # NoTime /\ t \in SomeTime
    BY ZonesPlain DEF DateTime, NoTime, SomeTime
  <2>2. NoTime \in SomeTime
    BY DEF SomeTime
  <2> QED
    BY <2>1, <2>2 DEF AlarmOf
<1>5. /\ time \in SomeTime /\ (time = NoTime <=> given = NoTime)
      /\ SameTime(time, given, z)
  <2>1. no \in BOOLEAN /\ ~no
    OBVIOUS
  <2> HIDE DEF no, given
  <2> QED
    BY <1>1, <1>4, <2>1, Stored
<1> HIDE DEF given, time, no
<1>6. a.repeat = 0 => a.snooze = 0
  BY DEF AlarmOf
<1>7. b.snooze = a.snooze
  BY <1>1, <1>3, <1>6
<1>8. b.trigger = a.trigger /\ b.offset = a.offset
  <2>1. CASE a.trigger = "time"
    BY <1>1, <1>3, <1>4, <1>5, <2>1 DEF AlarmOf
  <2>2. CASE a.trigger # "time"
    BY <1>1, <1>2, <1>3, <1>4, <1>5, <2>2
  <2> QED
    BY <2>1, <2>2
<1>9. FlattenSeq(b.recipients) = FlattenSeq(a.recipients) /\ (b.action # "Email" => b.recipients = <<>>)
  <2>1. FlattenSeq(<<>>) = <<>>
    BY FlattenEmpty, EmptySeqIs
  <2>2. CASE a.action # "Email"
    BY <1>1, <1>3, <2>2 DEF AlarmOf
  <2>3. CASE a.action = "Email"
    <3>1. row.address = FlattenSeq(a.recipients) /\ row.action = "Email"
      BY <1>1, <2>3 DEF address
    <3>2. CASE row.address = <<>>
      BY <1>3, <2>1, <3>1, <3>2
    <3>3. CASE row.address # <<>>
      BY <1>3, <3>1, <3>3, FlattenOne
    <3> QED
      BY <3>2, <3>3
  <2> QED
    BY <2>2, <2>3
<1>10. SameAlarm(b, a, z)
  <2>1. SameTime(b.time, a.time, z)
    BY <1>3, <1>4, <1>5
  <2>2. /\ b["action"] = a["action"] /\ b["text"] = a["text"] /\ b["repeat"] = a["repeat"]
        /\ b["snooze"] = a["snooze"] /\ b["trigger"] = a["trigger"] /\ b["offset"] = a["offset"]
        /\ b["enabled"] = a["enabled"]
    BY <1>1, <1>3, <1>7, <1>8
  <2>3. \A f \in {"action", "text", "repeat", "snooze", "trigger", "offset", "enabled"} : b[f] = a[f]
    BY <2>2
  <2> QED
    BY <1>9, <2>1, <2>3 DEF SameAlarm
<1>11. AlarmOf(b)
  <2>1. b.trigger \in {"start", "end", "time"}
    BY <1>8 DEF AlarmOf
  <2>2. IF b.trigger = "time" THEN b.time \in DateTime /\ b.offset = 0 ELSE b.time = NoTime
    <3>1. b.trigger = "time" => a.offset = 0
      BY <1>8 DEF AlarmOf
    <3> QED
      BY <1>3, <1>4, <1>5, <1>8, <3>1 DEF SomeTime
  <2>3. b.repeat = 0 => b.snooze = 0
    BY <1>1, <1>3, <1>6, <1>7
  <2> QED
    BY <1>9, <2>1, <2>2, <2>3 DEF AlarmOf
<1> QED
  BY <1>10, <1>11 DEF b, row

\* So is a rule, whatever ends it.
LEMMA RuleBack ==
  ASSUME NEW r, RuleOf(r), NEW allDay \in BOOLEAN, NEW z \in Known
  PROVE  /\ RuleOf(ReadRule(RecursiveRow(r, allDay, z)))
         /\ SameRule(ReadRule(RecursiveRow(r, allDay, z)), r, allDay, z)
<1> DEFINE row == RecursiveRow(r, allDay, z)
           b == ReadRule(row)
           until == GetDateTime(row.until)
<1>1. /\ row.type = r.type /\ row.by = r.by /\ row.count = r.count
      /\ row.until = SetDateTime(r.until, allDay, z)
  BY DEF RecursiveRow
<1> HIDE DEF row
<1>2. /\ b.type = row.type /\ b.by = row.by
      /\ b.until = (IF row.count > 0 THEN NoTime ELSE until)
      /\ b.count = (IF row.count = 0 /\ until = NoTime THEN -1 ELSE row.count)
  BY DEF ReadRule
<1> HIDE DEF b
<1>3. /\ until \in SomeTime /\ (until = NoTime <=> r.until = NoTime)
      /\ IF allDay THEN SameDate(until, r.until) ELSE SameTime(until, r.until, z)
  BY <1>1, Stored DEF RuleOf
<1> HIDE DEF until
<1>4. b.count = r.count /\ b.until = until
  BY <1>1, <1>2, <1>3 DEF RuleOf
<1>5. RuleOf(b)
  BY <1>1, <1>2, <1>3, <1>4 DEF RuleOf
<1>6. SameRule(b, r, allDay, z)
  BY <1>1, <1>2, <1>3, <1>4 DEF SameRule
<1> QED
  BY <1>5, <1>6 DEF b, row

\* So is a date or a date-time.
LEMMA RdateBack ==
  ASSUME NEW d, RdateOf(d), NEW allDay \in BOOLEAN, NEW z \in Known
  PROVE  /\ RdateOf(ReadRdate(RdateRow(d, allDay, z)))
         /\ SameRdate(ReadRdate(RdateRow(d, allDay, z)), d, allDay, z)
<1> DEFINE row == RdateRow(d, allDay, z)
           b == ReadRdate(row)
           f == Floats(d, allDay)
           at == GetDateTime(row.at)
<1>1. row.type = d.type /\ row.at = SetDateTime(d.at, f, z)
  BY DEF RdateRow
<1> HIDE DEF row
<1>2. /\ b.type = row.type
      /\ b.at = (IF row.type \in {"RDate", "XDate"} THEN Local(DateOf(at.wall)) ELSE at)
  BY DEF ReadRdate
<1> HIDE DEF b
<1>3. d.at \in DateTime /\ d.at \in SomeTime /\ d.at # NoTime /\ d.at.wall \in Int
  <2>1. \A t \in DateTime : t # NoTime /\ t \in SomeTime /\ t.wall \in Int
    BY ZonesPlain DEF DateTime, NoTime, SomeTime
  <2> QED
    BY <2>1 DEF RdateOf
<1>4. f \in BOOLEAN
  BY DEF Floats
<1>5. /\ at \in SomeTime /\ at # NoTime
      /\ IF f THEN SameDate(at, d.at) ELSE SameTime(at, d.at, z)
  <2> HIDE DEF f
  <2> QED
    BY <1>1, <1>3, <1>4, Stored
<1>6. f <=> \/ d.type \in {"RDate", "XDate"}
            \/ allDay /\ d.at = Local(DateOf(d.at.wall))
  <2>1. d.at.spec = "local" /\ Midnight(d.at.wall) <=> d.at = Local(DateOf(d.at.wall))
    <3>1. d.at = [spec |-> d.at.spec, wall |-> d.at.wall]
      BY <1>3 DEF DateTime
    <3>2. Midnight(d.at.wall) <=> DateOf(d.at.wall) = d.at.wall
      <4>1. d.at.wall % DayLength \in Int
        BY <1>3, DayAssumption
      <4> QED
        BY <1>3, <4>1 DEF Midnight, DateOf
    <3>3. d.at = Local(DateOf(d.at.wall)) <=> d.at.spec = "local" /\ d.at.wall = DateOf(d.at.wall)
      BY <3>1 DEF Local
    <3> QED
      BY <3>2, <3>3
  <2> QED
    BY <2>1 DEF Floats
<1> HIDE DEF f, at
<1>7. CASE d.type \in {"RDate", "XDate"}
  <2>1. at = Local(DateOf(d.at.wall))
    BY <1>3, <1>5, <1>6, <1>7 DEF SameDate
  <2>2. at.wall = DateOf(d.at.wall)
    BY <2>1 DEF Local
  <2>3. b.at = Local(DateOf(d.at.wall))
    BY <1>1, <1>2, <1>3, <1>7, <2>2, DateOfDate
  <2>4. b.at \in DateTime
    BY <1>3, <2>3, DateOfDate DEF Local, DateTime
  <2>5. RdateOf(b)
    BY <1>1, <1>2, <1>7, <2>4 DEF RdateOf
  <2>6. SameRdate(b, d, allDay, z)
    BY <1>1, <1>2, <1>3, <1>7, <2>3 DEF SameRdate, SameDate
  <2> QED
    BY <2>5, <2>6 DEF b, row
<1>8. CASE d.type \notin {"RDate", "XDate"}
  <2>1. b.at = at /\ b.type = d.type
    BY <1>1, <1>2, <1>8
  <2>2. RdateOf(b)
    BY <1>5, <2>1 DEF RdateOf, SomeTime
  <2>3. SameRdate(b, d, allDay, z)
    BY <1>5, <1>6, <1>8, <2>1 DEF SameRdate
  <2> QED
    BY <2>2, <2>3 DEF b, row
<1> QED
  BY <1>7, <1>8

-----------------------------------------------------------------------------
(***************************************************************************)
(* The rows of the six tables.  Whatever statements have failed, what a    *)
(* table holds under an id is some of the rows of an incidence.            *)
(***************************************************************************)

RowMade(t, r) ==
  /\ t = "Attendee" => r.email # Empty /\ r.organizer \in BOOLEAN
                       /\ (r.organizer => r.role = "REQ-PARTICIPANT")
  /\ t = "Alarm" => \E a : \E z \in Known : AlarmOf(a) /\ r = AlarmRow(a, z)
  /\ t = "Recursive" => \E q : \E b \in BOOLEAN : \E z \in Known :
                          RuleOf(q) /\ r = RecursiveRow(q, b, z)
  /\ t = "Rdates" => \E d : \E b \in BOOLEAN : \E z \in Known :
                       RdateOf(d) /\ r = RdateRow(d, b, z)
  /\ t = "Attachments" => AttachmentOf(r) /\ r.form # "none"

Apart(t, r, q) == t = "Attendee" => r.email # q.email /\ ~(r.organizer /\ q.organizer)

Made(t, s) ==
  /\ IsSeq(s)
  /\ \A n \in 1 .. Len(s) : RowMade(t, s[n])
  /\ \A m, n \in 1 .. Len(s) : m # n => Apart(t, s[m], s[n])

LEMMA MadeEmpty == \A t : Made(t, <<>>)
<1>1. \A n \in 1 .. Len(<<>>) : FALSE
  BY EmptySeqIs
<1> HIDE DEF RowMade
<1> QED
  BY <1>1, EmptySeqIs DEF Made

\* Some of the rows, in their order or not.
LEMMA MadePart ==
  ASSUME NEW t, NEW s, Made(t, s), NEW u, IsSeq(u), NEW g,
         \A m \in 1 .. Len(u) : g[m] \in 1 .. Len(s) /\ u[m] = s[g[m]],
         \A m, n \in 1 .. Len(u) : g[m] = g[n] => m = n
  PROVE  Made(t, u)
<1>1. ASSUME NEW m \in 1 .. Len(u) PROVE RowMade(t, u[m])
  BY DEF Made
<1>2. ASSUME NEW m \in 1 .. Len(u), NEW n \in 1 .. Len(u), m # n PROVE Apart(t, u[m], u[n])
  <2>1. g[m] # g[n]
    BY <1>2
  <2> QED
    BY <2>1 DEF Made
<1> QED
  BY <1>1, <1>2 DEF Made

\* A statement that fails leaves some of the rows.
LEMMA InsertedMade ==
  ASSUME NEW t, NEW s, Made(t, s), NEW fault \in Fault
  PROVE  Made(t, Inserted(t, s, fault))
<1> DEFINE n == Len(s)
           k == fault.nth
<1>1. IsSeq(s) /\ n \in Nat /\ s \in Seq(ToSet(s))
  BY IsSeqLength DEF Made, IsSeq
<1>2. CASE ~Hits(fault, t, "insert") \/ k > n
  BY <1>2 DEF Inserted
<1>3. CASE Hits(fault, t, "insert") /\ ~(k > n)
  <2>1. k \in 1 .. n
    <3>1. fault.at = "insert"
      BY <1>3 DEF Hits
    <3>2. fault \notin {NoFault, RowFault} /\ fault \notin [at : {"delete"}, table : Failing, nth : {0}]
      BY <3>1 DEF NoFault, RowFault
    <3>3. k \in 1 .. 2
      BY <3>2 DEF Fault, TableFault
    <3> QED
      BY <1>1, <1>3, <3>3
  <2>2. \A i \in 1 .. n : s[i] \in ToSet(s)
    BY <1>1, IsSeqLength
  <2>3. CASE t = "Attachments"
    <3> DEFINE u == SubSeq(s, 1, k - 1)
               g == [m \in 1 .. k - 1 |-> m]
    <3>1. Inserted(t, s, fault) = u
      BY <1>3, <2>3 DEF Inserted
    <3>2. IsSeq(u) /\ Len(u) = k - 1 /\ \A m \in 1 .. k - 1 : u[m] = s[m]
      <4>1. \A i \in 1 .. k - 1 : s[i] \in ToSet(s)
        BY <2>1, <2>2
      <4>2. 1 \in Int /\ k - 1 \in Int
        BY <2>1
      <4>3. /\ u \in Seq(ToSet(s)) /\ Len(u) = IF 1 <= k - 1 THEN k - 1 - 1 + 1 ELSE 0
            /\ \A i \in 1 .. k - 1 - 1 + 1 : u[i] = s[1 + i - 1]
        BY <4>1, <4>2, SubSeqProperties
      <4> HIDE DEF u
      <4>4. IsSeq(u)
        BY <4>3, IsSeqOf
      <4>5. Len(u) = k - 1 /\ \A m \in 1 .. k - 1 : u[m] = s[m]
        BY <2>1, <4>3
      <4> QED
        BY <4>4, <4>5
    <3> HIDE DEF u
    <3>3. /\ \A m \in 1 .. Len(u) : g[m] \in 1 .. n /\ u[m] = s[g[m]]
          /\ \A i, m \in 1 .. Len(u) : g[i] = g[m] => i = m
      BY <1>1, <2>1, <3>2
    <3> HIDE DEF g
    <3> QED
      BY <3>1, <3>2, <3>3, MadePart
  <2>4. CASE t # "Attachments"
    <3> DEFINE a == SubSeq(s, 1, k - 1)
               b == SubSeq(s, k + 1, n)
               u == a \o b
               g == [m \in 1 .. n - 1 |-> IF m < k THEN m ELSE m + 1]
    <3>1. Inserted(t, s, fault) = u
      BY <1>3, <2>4 DEF Inserted, RemoveAt
    <3>2. IsSeq(a) /\ Len(a) = k - 1 /\ \A m \in 1 .. k - 1 : a[m] = s[m]
      <4>1. \A i \in 1 .. k - 1 : s[i] \in ToSet(s)
        BY <2>1, <2>2
      <4>2. 1 \in Int /\ k - 1 \in Int
        BY <2>1
      <4>3. /\ a \in Seq(ToSet(s)) /\ Len(a) = IF 1 <= k - 1 THEN k - 1 - 1 + 1 ELSE 0
            /\ \A i \in 1 .. k - 1 - 1 + 1 : a[i] = s[1 + i - 1]
        BY <4>1, <4>2, SubSeqProperties
      <4> HIDE DEF a
      <4>4. IsSeq(a)
        BY <4>3, IsSeqOf
      <4>5. Len(a) = k - 1 /\ \A m \in 1 .. k - 1 : a[m] = s[m]
        BY <2>1, <4>3
      <4> QED
        BY <4>4, <4>5
    <3>3. IsSeq(b) /\ Len(b) = n - k /\ \A m \in 1 .. n - k : b[m] = s[m + k]
      <4>1. \A i \in k + 1 .. n : s[i] \in ToSet(s)
        BY <2>1, <2>2
      <4>2. k + 1 \in Int /\ n \in Int
        BY <1>1, <2>1
      <4>3. /\ b \in Seq(ToSet(s)) /\ Len(b) = IF k + 1 <= n THEN n - (k + 1) + 1 ELSE 0
            /\ \A i \in 1 .. n - (k + 1) + 1 : b[i] = s[(k + 1) + i - 1]
        BY <4>1, <4>2, SubSeqProperties
      <4> HIDE DEF b
      <4>4. IsSeq(b)
        BY <4>3, IsSeqOf
      <4>5. Len(b) = n - k
        BY <1>1, <2>1, <4>3
      <4>6. ASSUME NEW m \in 1 .. n - k PROVE b[m] = s[m + k]
        <5>1. m \in 1 .. n - (k + 1) + 1 /\ (k + 1) + m - 1 = m + k
          BY <1>1, <2>1
        <5> QED
          BY <4>3, <5>1
      <4> QED
        BY <4>4, <4>5, <4>6
    <3> HIDE DEF a, b
    <3>4. /\ IsSeq(u) /\ Len(u) = Len(a) + Len(b)
          /\ \A m \in 1 .. Len(a) + Len(b) : u[m] = IF m <= Len(a) THEN a[m] ELSE b[m - Len(a)]
      BY <3>2, <3>3, Joined
    <3> HIDE DEF u
    <3>5. Len(u) = n - 1
      BY <1>1, <2>1, <3>2, <3>3, <3>4
    <3>6. ASSUME NEW m \in 1 .. n - 1 PROVE g[m] \in 1 .. n /\ u[m] = s[g[m]]
      <4>1. u[m] = IF m <= k - 1 THEN a[m] ELSE b[m - (k - 1)]
        BY <3>2, <3>4, <3>5
      <4>2. CASE m < k
        BY <1>1, <2>1, <3>2, <4>1, <4>2
      <4>3. CASE ~(m < k)
        <5>1. m - (k - 1) \in 1 .. n - k /\ (m - (k - 1)) + k = m + 1 /\ ~(m <= k - 1) /\ g[m] = m + 1
          BY <1>1, <2>1, <4>3
        <5>2. b[m - (k - 1)] = s[m + 1]
          BY <3>3, <5>1
        <5> QED
          BY <1>1, <4>1, <5>1, <5>2
      <4> QED
        BY <4>2, <4>3
    <3>7. ASSUME NEW i \in 1 .. n - 1, NEW m \in 1 .. n - 1, g[i] = g[m] PROVE i = m
      BY <1>1, <2>1, <3>7
    <3> HIDE DEF g
    <3>8. /\ \A m \in 1 .. Len(u) : g[m] \in 1 .. n /\ u[m] = s[g[m]]
          /\ \A i, m \in 1 .. Len(u) : g[i] = g[m] => i = m
      BY <3>5, <3>6, <3>7
    <3>9. IsSeq(u)
      BY <3>4
    <3>10. Made(t, u)
      BY <3>8, <3>9, MadePart
    <3> QED
      BY <3>1, <3>10
  <2> QED
    BY <2>3, <2>4
<1> QED
  BY <1>2, <1>3

\* Of such rows the index refuses none.
LEMMA AcceptedMade ==
  ASSUME NEW t, NEW s, Made(t, s)
  PROVE  Accepted(t, <<>>, s) = s
<1>1. CASE t = "Attendee"
  <2>1. ASSUME NEW m \in 1 .. Len(s), NEW n \in 1 .. Len(s), s[m].email = s[n].email PROVE m = n
    BY <1>1, <2>1 DEF Made, Apart
  <2> QED
    BY <1>1, <2>1, AcceptedAll DEF Made
<1>2. CASE t # "Attendee"
  <2>1. Accepted(t, <<>>, s) = <<>> \o s
    BY <1>2 DEF Accepted
  <2>2. s \in Seq(ToSet(s))
    BY DEF Made, IsSeq
  <2> QED
    BY <2>1, <2>2, ConcatEmptySeq
<1> QED
  BY <1>1, <1>2

\* Attachments that are added behind others.
LEMMA MadeJoined ==
  ASSUME NEW t, t # "Attendee", NEW s, Made(t, s), NEW u, Made(t, u)
  PROVE  Made(t, s \o u)
<1>1. /\ IsSeq(s \o u) /\ Len(s \o u) = Len(s) + Len(u)
      /\ \A n \in 1 .. Len(s) + Len(u) : (s \o u)[n] = IF n <= Len(s) THEN s[n] ELSE u[n - Len(s)]
  BY Joined DEF Made
<1>2. Len(s) \in Nat /\ Len(u) \in Nat
  BY IsSeqLength DEF Made
<1>3. ASSUME NEW n \in 1 .. Len(s) + Len(u) PROVE RowMade(t, (s \o u)[n])
  <2>1. CASE n <= Len(s)
    BY <1>1, <1>2, <2>1 DEF Made
  <2>2. CASE ~(n <= Len(s))
    <3>1. n - Len(s) \in 1 .. Len(u)
      BY <1>2, <2>2
    <3> QED
      BY <1>1, <2>2, <3>1 DEF Made
  <2> QED
    BY <2>1, <2>2
<1> QED
  BY <1>1, <1>3 DEF Made, Apart

-----------------------------------------------------------------------------
(***************************************************************************)
(* Rules and dates are stored type by type: in another order, all of them. *)
(***************************************************************************)

\* Two picks without a place in common are one of both.
LEMMA PicksJoined ==
  ASSUME NEW t, IsSeq(t), NEW u, IsSeq(u), NEW s, NEW P, NEW Q, P \cap Q = {},
         NEW g, Picks(t, s, P, g), NEW h, Picks(u, s, Q, h)
  PROVE  \E f : Picks(t \o u, s, P \cup Q, f)
<1> DEFINE l == Len(t)
           k == Len(u)
           w == t \o u
           f == [m \in 1 .. l + k |-> IF m <= l THEN g[m] ELSE h[m - l]]
<1>1. /\ l \in Nat /\ k \in Nat /\ Len(w) = l + k
      /\ \A m \in 1 .. l + k : w[m] = IF m <= l THEN t[m] ELSE u[m - l]
  BY Joined, IsSeqLength
<1>2. /\ \A m \in 1 .. l : g[m] \in P /\ t[m] = s[g[m]]
      /\ \A q \in P : \E m \in 1 .. l : g[m] = q
      /\ \A m, n \in 1 .. l : g[m] = g[n] => m = n
  BY DEF Picks
<1>3. /\ \A m \in 1 .. k : h[m] \in Q /\ u[m] = s[h[m]]
      /\ \A q \in Q : \E m \in 1 .. k : h[m] = q
      /\ \A m, n \in 1 .. k : h[m] = h[n] => m = n
  BY DEF Picks
<1> HIDE DEF l, k, w
<1>4. \A m \in 1 .. l + k : m \in 1 .. l \/ (~(m <= l) /\ m - l \in 1 .. k)
  BY <1>1
<1>5. ASSUME NEW m \in 1 .. l + k PROVE f[m] \in P \cup Q /\ w[m] = s[f[m]]
  <2>1. CASE m <= l
    <3>1. m \in 1 .. l
      BY <1>1, <2>1
    <3> QED
      BY <1>1, <1>2, <2>1, <3>1
  <2>2. CASE ~(m <= l)
    <3>1. m - l \in 1 .. k
      BY <1>1, <2>2
    <3> QED
      BY <1>1, <1>3, <2>2, <3>1
  <2> QED
    BY <2>1, <2>2
<1>6. ASSUME NEW q \in P \cup Q PROVE \E m \in 1 .. l + k : f[m] = q
  <2>1. CASE q \in P
    <3>1. PICK m \in 1 .. l : g[m] = q
      BY <1>2, <2>1
    <3>2. m \in 1 .. l + k /\ m <= l
      BY <1>1
    <3> QED
      BY <3>1, <3>2
  <2>2. CASE q \in Q
    <3>1. PICK m \in 1 .. k : h[m] = q
      BY <1>3, <2>2
    <3>2. m + l \in 1 .. l + k /\ ~(m + l <= l) /\ (m + l) - l = m
      BY <1>1
    <3>3. f[m + l] = q
      BY <3>1, <3>2
    <3> QED
      BY <3>2, <3>3
  <2> QED
    BY <2>1, <2>2
<1>7. ASSUME NEW m \in 1 .. l + k, NEW n \in 1 .. l + k, f[m] = f[n] PROVE m = n
  <2>1. CASE m <= l /\ n <= l
    <3>1. m \in 1 .. l /\ n \in 1 .. l /\ f[m] = g[m] /\ f[n] = g[n]
      BY <1>1, <2>1
    <3> HIDE DEF f
    <3> QED
      BY <1>2, <1>7, <3>1
  <2>2. CASE ~(m <= l) /\ ~(n <= l)
    <3>1. m - l \in 1 .. k /\ n - l \in 1 .. k /\ f[m] = h[m - l] /\ f[n] = h[n - l]
      BY <1>1, <2>2
    <3>2. m - l = n - l
      <4> HIDE DEF f
      <4> QED
        BY <1>3, <1>7, <3>1
    <3> QED
      BY <1>1, <3>2
  <2>3. CASE m <= l /\ ~(n <= l)
    <3>1. m \in 1 .. l /\ n - l \in 1 .. k /\ f[m] = g[m] /\ f[n] = h[n - l]
      BY <1>1, <2>3
    <3> HIDE DEF f
    <3> QED
      BY <1>2, <1>3, <1>7, <3>1
  <2>4. CASE ~(m <= l) /\ n <= l
    <3>1. n \in 1 .. l /\ m - l \in 1 .. k /\ f[n] = g[n] /\ f[m] = h[m - l]
      BY <1>1, <2>4
    <3> HIDE DEF f
    <3> QED
      BY <1>2, <1>3, <1>7, <3>1
  <2> QED
    BY <2>1, <2>2, <2>3, <2>4
<1> HIDE DEF f
<1>8. Picks(w, s, P \cup Q, f)
  BY <1>1, <1>5, <1>6, <1>7 DEF Picks
<1> QED
  BY <1>8 DEF w

\* All of a sequence in another order is as long as it.
LEMMA AllPicked ==
  ASSUME NEW t, IsSeq(t), NEW s, IsSeq(s), NEW g, Picks(t, s, 1 .. Len(s), g)
  PROVE  Len(t) = Len(s)
<1> DEFINE l == Len(t)
           n == Len(s)
           f == [m \in 1 .. l |-> g[m]]
<1>1. l \in Nat /\ n \in Nat
  BY IsSeqLength
<1>2. /\ \A m \in 1 .. l : g[m] \in 1 .. n
      /\ \A q \in 1 .. n : \E m \in 1 .. l : g[m] = q
      /\ \A m, k \in 1 .. l : g[m] = g[k] => m = k
  BY DEF Picks
<1> HIDE DEF l, n
<1>3. f \in Bijection(1 .. l, 1 .. n)
  <2>1. f \in [1 .. l -> 1 .. n]
    BY <1>2
  <2>2. \A q \in 1 .. n : \E m \in 1 .. l : f[m] = q
    BY <1>2
  <2>3. \A m, k \in 1 .. l : f[m] = f[k] => m = k
    BY <1>2
  <2> HIDE DEF f
  <2> QED
    BY <2>1, <2>2, <2>3 DEF Bijection, Injection, Surjection, IsInjective
<1>4. ExistsBijection(1 .. l, 1 .. n)
  BY <1>3 DEF ExistsBijection
<1>5. Cardinality(1 .. n) = l
  BY <1>1, <1>4, FS_CountingElements
<1>6. Cardinality(1 .. n) = n
  BY <1>1, FS_Interval
<1> QED
  BY <1>5, <1>6 DEF l, n

\* What is picked by its type.
LEMMA OfTypePicks ==
  ASSUME NEW s, IsSeq(s), NEW type
  PROVE  LET k == Kept(s, {r \in ToSet(s) : r.type = type})
         IN  IsSeq(k) /\ \E g : Picks(k, s, {n \in 1 .. Len(s) : s[n].type = type}, g)
<1> DEFINE S == {r \in ToSet(s) : r.type = type}
           P == {n \in 1 .. Len(s) : s[n] \in S}
           Q == {n \in 1 .. Len(s) : s[n].type = type}
<1>1. IsSeq(Kept(s, S)) /\ \E g : Picks(Kept(s, S), s, P, g)
  <2> HIDE DEF S
  <2> QED
    BY KeptPicks
<1>2. P = Q
  BY IsSeqLength
<1> HIDE DEF P, Q
<1> QED
  BY <1>1, <1>2 DEF Q

\* All rules are stored.
LEMMA RulesOrdered ==
  ASSUME NEW s, IsSeq(s), \A n \in DOMAIN s : s[n].type \in {"RRULE", "EXRULE"}
  PROVE  LET OfType(t) == Kept(s, {r \in ToSet(s) : r.type = t})
             o == OfType("RRULE") \o OfType("EXRULE")
         IN  IsSeq(o) /\ Len(o) = Len(s) /\ \E g : Picks(o, s, 1 .. Len(s), g)
<1> DEFINE OfType(t) == Kept(s, {r \in ToSet(s) : r.type = t})
           P(t) == {n \in 1 .. Len(s) : s[n].type = t}
           o == OfType("RRULE") \o OfType("EXRULE")
<1>1. \A t : IsSeq(OfType(t)) /\ \E g : Picks(OfType(t), s, P(t), g)
  BY OfTypePicks
<1>2. P("RRULE") \cap P("EXRULE") = {} /\ P("RRULE") \cup P("EXRULE") = 1 .. Len(s)
  BY IsSeqLength
<1> HIDE DEF OfType, P
<1>3. IsSeq(o)
  BY <1>1, Joined
<1>4. \E g : Picks(o, s, P("RRULE") \cup P("EXRULE"), g)
  BY <1>1, <1>2, PicksJoined
<1>5. Len(o) = Len(s)
  <2> HIDE DEF o
  <2> QED
    BY <1>2, <1>3, <1>4, AllPicked
<1> QED
  BY <1>2, <1>3, <1>4, <1>5 DEF OfType

\* All dates are.
LEMMA RdatesOrdered ==
  ASSUME NEW s, IsSeq(s), \A n \in DOMAIN s : s[n].type \in {"RDate", "XDate", "RDateTime", "XDateTime"}
  PROVE  LET OfType(t) == Kept(s, {d \in ToSet(s) : d.type = t})
             o == OfType("RDate") \o OfType("XDate") \o OfType("RDateTime") \o OfType("XDateTime")
         IN  IsSeq(o) /\ Len(o) = Len(s) /\ \E g : Picks(o, s, 1 .. Len(s), g)
<1> DEFINE OfType(t) == Kept(s, {d \in ToSet(s) : d.type = t})
           P(t) == {n \in 1 .. Len(s) : s[n].type = t}
           a == OfType("RDate") \o OfType("XDate")
           b == a \o OfType("RDateTime")
           o == b \o OfType("XDateTime")
           A == P("RDate") \cup P("XDate")
           B == A \cup P("RDateTime")
<1>1. \A t : IsSeq(OfType(t)) /\ \E g : Picks(OfType(t), s, P(t), g)
  BY OfTypePicks
<1>2. /\ P("RDate") \cap P("XDate") = {} /\ A \cap P("RDateTime") = {} /\ B \cap P("XDateTime") = {}
      /\ B \cup P("XDateTime") = 1 .. Len(s)
  BY IsSeqLength
<1> HIDE DEF OfType, P
<1>3. IsSeq(a) /\ \E g : Picks(a, s, A, g)
  BY <1>1, <1>2, Joined, PicksJoined
<1> HIDE DEF a, A
<1>4. IsSeq(b) /\ \E g : Picks(b, s, B, g)
  BY <1>1, <1>2, <1>3, Joined, PicksJoined
<1> HIDE DEF b, B
<1>5. IsSeq(o) /\ \E g : Picks(o, s, B \cup P("XDateTime"), g)
  BY <1>1, <1>2, <1>4, Joined, PicksJoined
<1>6. Len(o) = Len(s)
  <2> HIDE DEF o
  <2> QED
    BY <1>2, <1>5, AllPicked
<1> QED
  BY <1>2, <1>5, <1>6 DEF OfType, a, b

-----------------------------------------------------------------------------
(***************************************************************************)
(* Attendees.                                                              *)
(***************************************************************************)

Organizer(i) == [email |-> i.organizer, organizer |-> TRUE, role |-> "REQ-PARTICIPANT"]
Guests(i) == Kept(i.attendees, {a \in ToSet(i.attendees) : a.email \notin {Empty, i.organizer}})
First(i) == IF i.organizer = Empty THEN 0 ELSE 1

\* Those of the attendees that are not skipped.
LEMMA GuestsAre ==
  ASSUME NEW i, ListsOf(i)
  PROVE  /\ IsSeq(Guests(i))
         /\ \A n \in 1 .. Len(Guests(i)) :
              Guests(i)[n] \in ToSet(i.attendees) /\ Guests(i)[n].email \notin {Empty, i.organizer}
         /\ \A a \in ToSet(i.attendees) :
              a.email \notin {Empty, i.organizer} => \E n \in 1 .. Len(Guests(i)) : Guests(i)[n] = a
         /\ \A m, n \in 1 .. Len(Guests(i)) : Guests(i)[m].email = Guests(i)[n].email => m = n
<1> DEFINE s == i.attendees
           S == {a \in ToSet(s) : a.email \notin {Empty, i.organizer}}
           P == {n \in 1 .. Len(s) : s[n] \in S}
           k == Kept(s, S)
<1>1. /\ IsSeq(s) /\ DOMAIN s = 1 .. Len(s)
      /\ \A m, n \in DOMAIN s : s[m].email = s[n].email => m = n \/ s[n].email \in {Empty, i.organizer}
  BY IsSeqLength DEF ListsOf
<1>2. k = Guests(i)
  BY DEF Guests
<1>3. \A a \in S : a \in ToSet(s) /\ a.email \notin {Empty, i.organizer}
  OBVIOUS
<1>4. \A a \in ToSet(s) : a.email \notin {Empty, i.organizer} => \E n \in P : s[n] = a
  BY <1>1 DEF ToSet
<1>5. IsSeq(k) /\ \E g : Picks(k, s, P, g)
  <2> HIDE DEF S
  <2> QED
    BY <1>1, KeptPicks
<1>6. \A n \in P : n \in DOMAIN s /\ s[n] \in S
  BY <1>1
<1> HIDE DEF P, S, s, k
<1>7. PICK g : /\ \A m \in 1 .. Len(k) : g[m] \in P /\ k[m] = s[g[m]]
               /\ \A p \in P : \E m \in 1 .. Len(k) : g[m] = p
               /\ \A m, n \in 1 .. Len(k) : g[m] = g[n] => m = n
  BY <1>5 DEF Picks
<1>8. \A n \in 1 .. Len(k) : k[n] \in ToSet(s) /\ k[n].email \notin {Empty, i.organizer}
  BY <1>3, <1>6, <1>7
<1>9. \A a \in ToSet(s) : a.email \notin {Empty, i.organizer} => \E n \in 1 .. Len(k) : k[n] = a
  BY <1>4, <1>7
<1>10. \A m, n \in 1 .. Len(k) : k[m].email = k[n].email => m = n
  <2> SUFFICES ASSUME NEW m \in 1 .. Len(k), NEW n \in 1 .. Len(k), k[m].email = k[n].email
               PROVE  m = n
    OBVIOUS
  <2>1. g[m] \in DOMAIN s /\ g[n] \in DOMAIN s /\ s[g[m]].email = s[g[n]].email
    BY <1>6, <1>7
  <2>2. s[g[n]].email \notin {Empty, i.organizer}
    BY <1>3, <1>6, <1>7
  <2> QED
    BY <1>1, <1>7, <2>1, <2>2
<1> QED
  BY <1>2, <1>5, <1>8, <1>9, <1>10 DEF s

\* The organizer's row comes first, if there is one.
LEMMA AttendeeRowsAre ==
  ASSUME NEW i, ListsOf(i)
  PROVE  LET s == AttendeeRows(i)
             o == First(i)
         IN  /\ IsSeq(s) /\ Len(s) = o + Len(Guests(i))
             /\ \A n \in 1 .. o : s[n] = Organizer(i)
             /\ \A n \in 1 .. Len(Guests(i)) :
                  s[n + o] = [email |-> Guests(i)[n].email, organizer |-> FALSE,
                              role |-> Guests(i)[n].role]
<1> DEFINE k == Guests(i)
           e(n) == [email |-> k[n].email, organizer |-> FALSE, role |-> k[n].role]
           m == [n \in DOMAIN k |-> e(n)]
           h == IF i.organizer = Empty THEN <<>> ELSE << Organizer(i) >>
           o == First(i)
<1>1. IsSeq(k) /\ Len(k) \in Nat /\ DOMAIN k = 1 .. Len(k)
  BY GuestsAre, IsSeqLength
<1>2. AttendeeRows(i) = h \o m
  BY DEF AttendeeRows, Map, Guests, Organizer
<1>3. IsSeq(h) /\ Len(h) = o /\ \A n \in 1 .. o : h[n] = Organizer(i)
  <2>1. CASE i.organizer = Empty
    <3>1. 1 .. 0 = {}
      OBVIOUS
    <3> QED
      BY <2>1, <3>1, EmptySeqIs DEF First
  <2>2. CASE i.organizer # Empty
    <3>1. h = << Organizer(i) >> /\ o = 1
      BY <2>2 DEF First
    <3>2. IsSeq(<< Organizer(i) >>) /\ Len(<< Organizer(i) >>) = 1
          /\ << Organizer(i) >>[1] = Organizer(i)
      BY Zenon, OneInSeq
    <3>3. \A n \in 1 .. 1 : n = 1
      OBVIOUS
    <3> HIDE DEF h, o
    <3> DEFINE q == << Organizer(i) >>
    <3> HIDE DEF q
    <3>4. h = q /\ IsSeq(q) /\ Len(q) = 1 /\ q[1] = Organizer(i)
      BY Zenon, <3>1, <3>2 DEF q
    <3>5. \A n \in 1 .. o : n = 1
      BY <3>1, <3>3
    <3> QED
      BY <3>1, <3>4, <3>5
  <2> QED
    BY <2>1, <2>2
<1> HIDE DEF k, h, e
<1>4. IsSeq(m) /\ Len(m) = Len(k) /\ \A n \in 1 .. Len(k) : m[n] = e(n)
  <2>1. m = [n \in 1 .. Len(k) |-> m[n]] /\ \A n \in 1 .. Len(k) : m[n] = e(n)
    BY <1>1
  <2> HIDE DEF m
  <2> QED
    BY <1>1, <2>1, FirstNumbers
<1> HIDE DEF m
<1>5. o \in Nat
  BY DEF First
<1> HIDE DEF o
<1> DEFINE s == h \o m
<1>6. /\ IsSeq(s) /\ Len(s) = o + Len(k)
      /\ \A n \in 1 .. o + Len(k) : s[n] = IF n <= o THEN h[n] ELSE m[n - o]
  BY <1>3, <1>4, Joined
<1> HIDE DEF s
<1>7. \A n \in 1 .. o : s[n] = Organizer(i)
  BY <1>1, <1>3, <1>5, <1>6
<1>8. ASSUME NEW n \in 1 .. Len(k) PROVE s[n + o] = e(n)
  <2>1. n + o \in 1 .. o + Len(k) /\ ~(n + o <= o) /\ (n + o) - o = n
    BY <1>1, <1>5
  <2>2. s[n + o] = m[n]
    BY <1>6, <2>1
  <2> QED
    BY <1>4, <2>2
<1>9. AttendeeRows(i) = s
  BY <1>2 DEF s
<1> QED
  BY <1>6, <1>7, <1>8, <1>9 DEF e, k, o

\* The same, by the number of a row.
LEMMA AttendeeRowIs ==
  ASSUME NEW i, ListsOf(i), NEW n \in 1 .. Len(AttendeeRows(i))
  PROVE  LET s == AttendeeRows(i)
             o == First(i)
         IN  \/ n = 1 /\ o = 1 /\ i.organizer # Empty /\ s[n] = Organizer(i)
             \/ /\ n - o \in 1 .. Len(Guests(i))
                /\ s[n] = [email |-> Guests(i)[n - o].email, organizer |-> FALSE,
                           role |-> Guests(i)[n - o].role]
<1> DEFINE s == AttendeeRows(i)
           o == First(i)
           l == Len(Guests(i))
           e(m) == [email |-> Guests(i)[m].email, organizer |-> FALSE, role |-> Guests(i)[m].role]
<1>1. /\ Len(s) = o + l /\ l \in Nat
      /\ \A m \in 1 .. o : s[m] = Organizer(i)
      /\ \A m \in 1 .. l : s[m + o] = e(m)
  BY AttendeeRowsAre, GuestsAre, IsSeqLength
<1>2. o \in Nat /\ (o = 0 \/ (o = 1 /\ i.organizer # Empty))
  BY DEF First
<1>3. n \in 1 .. Len(s)
  OBVIOUS
<1> HIDE DEF s, o, l, e
<1>4. CASE n <= o
  BY <1>1, <1>2, <1>3, <1>4 DEF s, o
<1>5. CASE ~(n <= o)
  <2>1. n - o \in 1 .. l /\ (n - o) + o = n
    BY <1>1, <1>2, <1>3, <1>5
  <2>2. s[n] = e(n - o)
    BY <1>1, <2>1
  <2> QED
    BY <2>1, <2>2 DEF s, o, l, e
<1> QED
  BY <1>4, <1>5

\* No two rows have one address, and one at most is the organizer's.
LEMMA AttendeesMade ==
  ASSUME NEW i, ListsOf(i)
  PROVE  Made("Attendee", AttendeeRows(i))
<1> DEFINE s == AttendeeRows(i)
           o == First(i)
           k == Guests(i)
           e(m) == [email |-> k[m].email, organizer |-> FALSE, role |-> k[m].role]
<1>1. IsSeq(s)
  BY AttendeeRowsAre
<1>2. ASSUME NEW n \in 1 .. Len(s)
      PROVE  \/ n = 1 /\ o = 1 /\ i.organizer # Empty /\ s[n] = Organizer(i)
             \/ n - o \in 1 .. Len(k) /\ s[n] = e(n - o)
  BY AttendeeRowIs
<1>3. /\ \A n \in 1 .. Len(k) : k[n].email # Empty /\ k[n].email # i.organizer
      /\ \A m, n \in 1 .. Len(k) : k[m].email = k[n].email => m = n
  BY GuestsAre
<1>4. o \in Nat
  BY DEF First
<1>5. /\ Organizer(i).email = i.organizer /\ Organizer(i).organizer = TRUE
      /\ Organizer(i).role = "REQ-PARTICIPANT"
      /\ \A m : e(m).email = k[m].email /\ e(m).organizer = FALSE
  BY DEF Organizer
<1>6. Len(s) \in Nat
  BY <1>1, IsSeqLength
<1> HIDE DEF s, o, k, e
<1>7. ASSUME NEW n \in 1 .. Len(s) PROVE RowMade("Attendee", s[n])
  <2>1. CASE s[n] = Organizer(i) /\ i.organizer # Empty
    BY <1>5, <2>1 DEF RowMade
  <2>2. CASE n - o \in 1 .. Len(k) /\ s[n] = e(n - o)
    BY <1>3, <1>5, <2>2 DEF RowMade
  <2> QED
    BY <1>2, <2>1, <2>2
<1>8. ASSUME NEW m \in 1 .. Len(s), NEW n \in 1 .. Len(s), m # n PROVE Apart("Attendee", s[m], s[n])
  <2>1. \/ m = 1 /\ s[m] = Organizer(i)
        \/ m - o \in 1 .. Len(k) /\ s[m] = e(m - o)
    BY <1>2
  <2>2. \/ n = 1 /\ s[n] = Organizer(i)
        \/ n - o \in 1 .. Len(k) /\ s[n] = e(n - o)
    BY <1>2
  <2>3. CASE s[m] = Organizer(i) /\ n - o \in 1 .. Len(k) /\ s[n] = e(n - o)
    BY <1>3, <1>5, <2>3 DEF Apart
  <2>4. CASE s[n] = Organizer(i) /\ m - o \in 1 .. Len(k) /\ s[m] = e(m - o)
    BY <1>3, <1>5, <2>4 DEF Apart
  <2>5. CASE m - o \in 1 .. Len(k) /\ s[m] = e(m - o) /\ n - o \in 1 .. Len(k) /\ s[n] = e(n - o)
    <3>1. m - o # n - o
      BY <1>4, <1>6, <1>8
    <3>2. k[m - o].email # k[n - o].email
      BY <1>3, <2>5, <3>1
    <3> QED
      BY <1>5, <2>5, <3>2 DEF Apart
  <2> QED
    BY <1>8, <2>1, <2>2, <2>3, <2>4, <2>5
<1>9. Made("Attendee", s)
  BY <1>1, <1>7, <1>8 DEF Made
<1> QED
  BY <1>9 DEF s

\* Who is invited comes back, with the organizer among them.
LEMMA AttendeesBack ==
  ASSUME NEW i, ListsOf(i), NEW j, j.organizer = ReadOrganizer(AttendeeRows(i)),
         j.attendees = Map(AttendeeRows(i), ReadAttendee)
  PROVE  j.organizer = i.organizer /\ Invited(j) = Invited(i)
<1> DEFINE s == AttendeeRows(i)
           o == First(i)
           k == Guests(i)
           e(m) == [email |-> k[m].email, organizer |-> FALSE, role |-> k[m].role]
           Among == {n \in DOMAIN s : s[n].organizer}
<1>1. IsSeq(s) /\ DOMAIN s = 1 .. Len(s) /\ Len(s) = o + Len(k) /\ Len(k) \in Nat
  BY AttendeeRowsAre, GuestsAre, IsSeqLength
<1>2. ASSUME NEW n \in 1 .. Len(s)
      PROVE  \/ n = 1 /\ o = 1 /\ i.organizer # Empty /\ s[n] = Organizer(i)
             \/ n - o \in 1 .. Len(k) /\ s[n] = e(n - o)
  BY AttendeeRowIs
<1>3. (\A n \in 1 .. o : s[n] = Organizer(i)) /\ \A n \in 1 .. Len(k) : s[n + o] = e(n)
  BY AttendeeRowsAre
<1>4. o \in Nat /\ o = IF i.organizer = Empty THEN 0 ELSE 1
  BY DEF First
<1>5. /\ Organizer(i).email = i.organizer /\ Organizer(i).organizer = TRUE
      /\ Organizer(i).role = "REQ-PARTICIPANT"
      /\ \A m : e(m).email = k[m].email /\ e(m).organizer = FALSE /\ e(m).role = k[m].role
  BY DEF Organizer
<1>6. /\ \A n \in 1 .. Len(k) : k[n] \in ToSet(i.attendees) /\ k[n].email \notin {Empty, i.organizer}
      /\ \A a \in ToSet(i.attendees) :
           a.email \notin {Empty, i.organizer} => \E n \in 1 .. Len(k) : k[n] = a
  BY GuestsAre
<1>7. j.organizer = IF Among = {} THEN Empty ELSE s[CHOOSE n \in Among : TRUE].email
  BY DEF ReadOrganizer
<1>8. j.attendees = [n \in DOMAIN s |-> [email |-> s[n].email, role |-> s[n].role]]
  BY DEF Map, ReadAttendee
<1> HIDE DEF s, o, k, e
<1>9. j.organizer = i.organizer
  <2>1. CASE o = 1
    <3>1. 1 \in DOMAIN s /\ s[1] = Organizer(i)
      BY <1>1, <1>3, <2>1
    <3>2. 1 \in Among
      BY <1>5, <3>1
    <3>3. \A n \in Among : s[n].email = i.organizer
      BY <1>1, <1>2, <1>5
    <3> HIDE DEF Among
    <3> QED
      BY <1>7, <3>2, <3>3
  <2>2. CASE o = 0
    <3>1. Among = {}
      BY <1>1, <1>2, <1>5, <2>2
    <3> QED
      BY <1>4, <1>7, <2>2, <3>1
  <2> QED
    BY <1>4, <2>1, <2>2
<1>10. ToSet(j.attendees) = {[email |-> s[n].email, role |-> s[n].role] : n \in 1 .. Len(s)}
  BY <1>1, <1>8 DEF ToSet
<1> DEFINE Entry(a) == [email |-> a.email, role |-> a.role]
           Outside(x) == {Entry(a) : a \in {b \in ToSet(x.attendees) : b.email \notin {Empty, x.organizer}}}
<1>11. Outside(j) = Outside(i)
  <2>1. ASSUME NEW a \in ToSet(j.attendees), a.email \notin {Empty, i.organizer}
        PROVE  \E b \in ToSet(i.attendees) : b.email \notin {Empty, i.organizer} /\ Entry(a) = Entry(b)
    <3>1. PICK n \in 1 .. Len(s) : a = [email |-> s[n].email, role |-> s[n].role]
      BY <1>10, <2>1
    <3>2. n - o \in 1 .. Len(k) /\ s[n] = e(n - o)
      BY <1>2, <1>5, <2>1, <3>1
    <3>3. Entry(a) = Entry(k[n - o])
      BY <1>5, <3>1, <3>2
    <3> QED
      BY <1>6, <3>2, <3>3
  <2>2. ASSUME NEW b \in ToSet(i.attendees), b.email \notin {Empty, i.organizer}
        PROVE  \E a \in ToSet(j.attendees) : a.email \notin {Empty, i.organizer} /\ Entry(a) = Entry(b)
    <3>1. PICK n \in 1 .. Len(k) : k[n] = b
      BY <1>6, <2>2
    <3>2. n + o \in 1 .. Len(s)
      BY <1>1, <1>4
    <3> DEFINE a == [email |-> s[n + o].email, role |-> s[n + o].role]
    <3>3. a \in ToSet(j.attendees)
      BY <1>10, <3>2
    <3>4. a.email = b.email /\ a.role = b.role
      BY <1>3, <1>5, <3>1
    <3> HIDE DEF a
    <3> QED
      BY <2>2, <3>3, <3>4
  <2> HIDE DEF Entry
  <2> QED
    BY <1>9, <2>1, <2>2
<1>12. \A x : Invited(x) = Outside(x) \cup {[email |-> f, role |-> "REQ-PARTICIPANT"] : f \in {x.organizer} \ {Empty}}
  BY DEF Invited
<1> HIDE DEF Outside
<1> QED
  BY <1>9, <1>11, <1>12

-----------------------------------------------------------------------------
(***************************************************************************)
(* Each table gets the rows of an incidence, and brings them back.         *)
(***************************************************************************)

\* What is done to each row leaves as many.
LEMMA EachOf ==
  ASSUME NEW s, IsSeq(s), NEW f, f = [n \in DOMAIN s |-> f[n]]
  PROVE  IsSeq(f) /\ Len(f) = Len(s) /\ DOMAIN f = 1 .. Len(s)
<1>1. Len(s) \in Nat /\ DOMAIN s = 1 .. Len(s)
  BY IsSeqLength
<1>2. f = [n \in 1 .. Len(s) |-> f[n]]
  BY <1>1
<1> QED
  BY <1>1, <1>2, FirstNumbers

\* Rows of the other tables than that of attendees.
LEMMA MadeOf ==
  ASSUME NEW t, t # "Attendee", NEW s, IsSeq(s), \A n \in 1 .. Len(s) : RowMade(t, s[n])
  PROVE  Made(t, s)
BY DEF Made, Apart

\* Alarms are stored,
LEMMA AlarmsMade ==
  ASSUME NEW i, ListsOf(i), NEW z \in Known
  PROVE  Made("Alarm", AlarmRows(i, z))
<1> DEFINE s == i.alarms
           f == [n \in DOMAIN s |-> AlarmRow(s[n], z)]
<1>1. IsSeq(s) /\ (\A n \in DOMAIN s : AlarmOf(s[n])) /\ DOMAIN s = 1 .. Len(s)
  BY IsSeqLength DEF ListsOf
<1>2. AlarmRows(i, z) = f
  BY DEF AlarmRows, Map
<1> HIDE DEF s
<1>3. f = [n \in DOMAIN s |-> f[n]] /\ \A n \in DOMAIN s : f[n] = AlarmRow(s[n], z)
  OBVIOUS
<1> HIDE DEF f
<1>4. IsSeq(f) /\ Len(f) = Len(s) /\ DOMAIN f = 1 .. Len(s)
  BY <1>1, <1>3, EachOf
<1>5. \A n \in 1 .. Len(f) : RowMade("Alarm", f[n])
  BY <1>1, <1>3, <1>4 DEF RowMade
<1>6. "Alarm" # "Attendee"
  OBVIOUS
<1> QED
  BY <1>2, <1>4, <1>5, <1>6, MadeOf

\* and come back.
LEMMA AlarmsBack ==
  ASSUME NEW i, ListsOf(i), NEW z \in Known, NEW j, j.alarms = Map(AlarmRows(i, z), ReadAlarm)
  PROVE  SameIn("Alarm", j, i, z)
<1> DEFINE s == i.alarms
           f == [n \in DOMAIN s |-> AlarmRow(s[n], z)]
           b == [n \in DOMAIN f |-> ReadAlarm(f[n])]
<1>1. IsSeq(s) /\ \A n \in DOMAIN s : AlarmOf(s[n])
  BY DEF ListsOf
<1>2. j.alarms = b
  BY DEF AlarmRows, Map
<1> HIDE DEF s
<1>3. DOMAIN b = DOMAIN s /\ \A n \in DOMAIN s : b[n] = ReadAlarm(AlarmRow(s[n], z))
  OBVIOUS
<1>4. b = [n \in DOMAIN s |-> b[n]]
  OBVIOUS
<1> HIDE DEF f, b
<1>5. Len(b) = Len(s)
  BY <1>1, <1>4, EachOf
<1>6. \A n \in DOMAIN s : SameAlarm(b[n], s[n], z)
  BY <1>1, <1>3, AlarmBack
<1>7. \A n \in DOMAIN s : \E m \in DOMAIN b : SameAlarm(b[m], s[n], z)
  BY <1>3, <1>6
<1> QED
  BY <1>2, <1>5, <1>7 DEF SameIn, SameAll, s

\* Rules are stored, in their order,
LEMMA RulesMade ==
  ASSUME NEW i, ListsOf(i), i.allDay \in BOOLEAN, NEW z \in Known
  PROVE  Made("Recursive", RecursiveRows(i, z))
<1> DEFINE s == i.rules
           OfType(t) == Kept(s, {r \in ToSet(s) : r.type = t})
           o == OfType("RRULE") \o OfType("EXRULE")
           f == [n \in DOMAIN o |-> RecursiveRow(o[n], i.allDay, z)]
<1>1. IsSeq(s) /\ (\A n \in DOMAIN s : RuleOf(s[n])) /\ DOMAIN s = 1 .. Len(s)
  BY IsSeqLength DEF ListsOf
<1>2. RecursiveRows(i, z) = f
  BY DEF RecursiveRows, Map
<1> HIDE DEF s
<1>3. \A n \in DOMAIN s : s[n].type \in {"RRULE", "EXRULE"}
  BY <1>1 DEF RuleOf
<1>4. IsSeq(o) /\ Len(o) = Len(s) /\ \E g : Picks(o, s, 1 .. Len(s), g)
  BY <1>1, <1>3, RulesOrdered
<1> HIDE DEF o
<1>5. DOMAIN o = 1 .. Len(o) /\ \A n \in 1 .. Len(o) : RuleOf(o[n])
  BY <1>1, <1>4, IsSeqLength DEF Picks
<1>6. f = [n \in DOMAIN o |-> f[n]] /\ \A n \in DOMAIN o : f[n] = RecursiveRow(o[n], i.allDay, z)
  OBVIOUS
<1> HIDE DEF f
<1>7. IsSeq(f) /\ Len(f) = Len(o)
  BY <1>4, <1>6, EachOf
<1>8. \A n \in 1 .. Len(f) : RowMade("Recursive", f[n])
  BY <1>5, <1>6, <1>7 DEF RowMade
<1>9. "Recursive" # "Attendee"
  OBVIOUS
<1> QED
  BY <1>2, <1>7, <1>8, <1>9, MadeOf

\* and come back, each of them once.
LEMMA RulesBack ==
  ASSUME NEW i, ListsOf(i), i.allDay \in BOOLEAN, NEW z \in Known,
         NEW j, j.rules = Map(RecursiveRows(i, z), ReadRule)
  PROVE  SameIn("Recursive", j, i, z)
<1> DEFINE s == i.rules
           OfType(t) == Kept(s, {r \in ToSet(s) : r.type = t})
           o == OfType("RRULE") \o OfType("EXRULE")
           f == [n \in DOMAIN o |-> RecursiveRow(o[n], i.allDay, z)]
           b == [n \in DOMAIN f |-> ReadRule(f[n])]
<1>1. IsSeq(s) /\ (\A n \in DOMAIN s : RuleOf(s[n])) /\ DOMAIN s = 1 .. Len(s)
  BY IsSeqLength DEF ListsOf
<1>2. j.rules = b
  BY DEF RecursiveRows, Map
<1> HIDE DEF s
<1>3. \A n \in DOMAIN s : s[n].type \in {"RRULE", "EXRULE"}
  BY <1>1 DEF RuleOf
<1>4. IsSeq(o) /\ Len(o) = Len(s) /\ \E g : Picks(o, s, 1 .. Len(s), g)
  BY <1>1, <1>3, RulesOrdered
<1> HIDE DEF o
<1>5. DOMAIN o = 1 .. Len(o)
  BY <1>4, IsSeqLength
<1>6. DOMAIN b = DOMAIN o /\ \A n \in DOMAIN o : b[n] = ReadRule(RecursiveRow(o[n], i.allDay, z))
  OBVIOUS
<1>7. b = [n \in DOMAIN o |-> b[n]]
  OBVIOUS
<1> HIDE DEF f, b
<1>8. Len(b) = Len(s)
  BY <1>4, <1>7, EachOf
<1>9. \A n \in DOMAIN s : \E m \in DOMAIN b : SameRule(b[m], s[n], i.allDay, z)
  <2> SUFFICES ASSUME NEW n \in DOMAIN s PROVE \E m \in DOMAIN b : SameRule(b[m], s[n], i.allDay, z)
    OBVIOUS
  <2> PICK g : Picks(o, s, 1 .. Len(s), g)
    BY <1>4
  <2>1. PICK m \in 1 .. Len(o) : o[m] = s[n]
    <3>1. n \in 1 .. Len(s)
      BY <1>1
    <3>2. PICK m \in 1 .. Len(o) : g[m] = n
      BY <3>1 DEF Picks
    <3>3. o[m] = s[g[m]]
      BY DEF Picks
    <3> QED
      BY <3>2, <3>3
  <2>2. SameRule(ReadRule(RecursiveRow(s[n], i.allDay, z)), s[n], i.allDay, z)
    BY <1>1, RuleBack
  <2> QED
    BY <1>5, <1>6, <2>1, <2>2
<1> QED
  BY <1>2, <1>8, <1>9 DEF SameIn, SameAll, s

\* Dates are stored, in their order,
LEMMA RdatesMade ==
  ASSUME NEW i, ListsOf(i), i.allDay \in BOOLEAN, NEW z \in Known
  PROVE  Made("Rdates", RdateRows(i, z))
<1> DEFINE s == i.rdates
           OfType(t) == Kept(s, {d \in ToSet(s) : d.type = t})
           o == OfType("RDate") \o OfType("XDate") \o OfType("RDateTime") \o OfType("XDateTime")
           f == [n \in DOMAIN o |-> RdateRow(o[n], i.allDay, z)]
<1>1. IsSeq(s) /\ (\A n \in DOMAIN s : RdateOf(s[n])) /\ DOMAIN s = 1 .. Len(s)
  BY IsSeqLength DEF ListsOf
<1>2. RdateRows(i, z) = f
  BY DEF RdateRows, Map
<1> HIDE DEF s
<1>3. \A n \in DOMAIN s : s[n].type \in {"RDate", "XDate", "RDateTime", "XDateTime"}
  BY <1>1 DEF RdateOf
<1>4. IsSeq(o) /\ Len(o) = Len(s) /\ \E g : Picks(o, s, 1 .. Len(s), g)
  BY <1>1, <1>3, RdatesOrdered
<1> HIDE DEF o
<1>5. DOMAIN o = 1 .. Len(o) /\ \A n \in 1 .. Len(o) : RdateOf(o[n])
  BY <1>1, <1>4, IsSeqLength DEF Picks
<1>6. f = [n \in DOMAIN o |-> f[n]] /\ \A n \in DOMAIN o : f[n] = RdateRow(o[n], i.allDay, z)
  OBVIOUS
<1> HIDE DEF f
<1>7. IsSeq(f) /\ Len(f) = Len(o)
  BY <1>4, <1>6, EachOf
<1>8. \A n \in 1 .. Len(f) : RowMade("Rdates", f[n])
  BY <1>5, <1>6, <1>7 DEF RowMade
<1>9. "Rdates" # "Attendee"
  OBVIOUS
<1> QED
  BY <1>2, <1>7, <1>8, <1>9, MadeOf

\* and come back, each of them once.
LEMMA RdatesBack ==
  ASSUME NEW i, ListsOf(i), i.allDay \in BOOLEAN, NEW z \in Known,
         NEW j, j.rdates = Map(RdateRows(i, z), ReadRdate)
  PROVE  SameIn("Rdates", j, i, z)
<1> DEFINE s == i.rdates
           OfType(t) == Kept(s, {d \in ToSet(s) : d.type = t})
           o == OfType("RDate") \o OfType("XDate") \o OfType("RDateTime") \o OfType("XDateTime")
           f == [n \in DOMAIN o |-> RdateRow(o[n], i.allDay, z)]
           b == [n \in DOMAIN f |-> ReadRdate(f[n])]
<1>1. IsSeq(s) /\ (\A n \in DOMAIN s : RdateOf(s[n])) /\ DOMAIN s = 1 .. Len(s)
  BY IsSeqLength DEF ListsOf
<1>2. j.rdates = b
  BY DEF RdateRows, Map
<1> HIDE DEF s
<1>3. \A n \in DOMAIN s : s[n].type \in {"RDate", "XDate", "RDateTime", "XDateTime"}
  BY <1>1 DEF RdateOf
<1>4. IsSeq(o) /\ Len(o) = Len(s) /\ \E g : Picks(o, s, 1 .. Len(s), g)
  BY <1>1, <1>3, RdatesOrdered
<1> HIDE DEF o
<1>5. DOMAIN o = 1 .. Len(o)
  BY <1>4, IsSeqLength
<1>6. DOMAIN b = DOMAIN o /\ \A n \in DOMAIN o : b[n] = ReadRdate(RdateRow(o[n], i.allDay, z))
  OBVIOUS
<1>7. b = [n \in DOMAIN o |-> b[n]]
  OBVIOUS
<1> HIDE DEF f, b
<1>8. Len(b) = Len(s)
  BY <1>4, <1>7, EachOf
<1>9. \A n \in DOMAIN s : \E m \in DOMAIN b : SameRdate(b[m], s[n], i.allDay, z)
  <2> SUFFICES ASSUME NEW n \in DOMAIN s PROVE \E m \in DOMAIN b : SameRdate(b[m], s[n], i.allDay, z)
    OBVIOUS
  <2> PICK g : Picks(o, s, 1 .. Len(s), g)
    BY <1>4
  <2>1. PICK m \in 1 .. Len(o) : o[m] = s[n]
    <3>1. n \in 1 .. Len(s)
      BY <1>1
    <3>2. PICK m \in 1 .. Len(o) : g[m] = n
      BY <3>1 DEF Picks
    <3>3. o[m] = s[g[m]]
      BY DEF Picks
    <3> QED
      BY <3>2, <3>3
  <2>2. SameRdate(ReadRdate(RdateRow(s[n], i.allDay, z)), s[n], i.allDay, z)
    BY <1>1, RdateBack
  <2> QED
    BY <1>5, <1>6, <2>1, <2>2
<1> QED
  BY <1>2, <1>8, <1>9 DEF SameIn, SameAll, s

\* Those with content, each as it is or with the bytes of its uri freed.
LEMMA AttachmentRowsAre ==
  ASSUME NEW i, ListsOf(i), NEW freed \in BOOLEAN
  PROVE  LET s == AttachmentRows(i, freed)
             k == WithContent(i)
         IN  /\ IsSeq(s) /\ IsSeq(k) /\ Len(s) = Len(k) /\ DOMAIN k = 1 .. Len(k)
             /\ \A n \in 1 .. Len(k) :
                  /\ AttachmentOf(s[n]) /\ s[n].form # "none"
                  /\ s[n].form = k[n].form /\ (s[n].form = "uri" \/ s[n].value = k[n].value)
<1> DEFINE q == i.attachments
           S == {a \in ToSet(q) : a.form \in {"binary", "uri"}}
           T == {a \in ToSet(q) : a.form # "none"}
           k == Kept(q, T)
           e(a) == IF freed /\ a.form = "uri" THEN [a EXCEPT !.value = "freed"] ELSE a
           s == [n \in DOMAIN k |-> e(k[n])]
<1>1. IsSeq(q) /\ DOMAIN q = 1 .. Len(q) /\ \A n \in DOMAIN q : AttachmentOf(q[n])
  BY IsSeqLength DEF ListsOf
<1>2. \A a \in ToSet(q) : AttachmentOf(a)
  BY <1>1 DEF ToSet
<1>3. S = T
  BY <1>2 DEF AttachmentOf
<1>4. WithContent(i) = k
  BY DEF WithContent
<1>5. AttachmentRows(i, freed) = s
  <2>1. AttachmentRows(i, freed) = Map(Kept(q, S), e)
    BY DEF AttachmentRows
  <2>2. Map(Kept(q, T), e) = s
    BY DEF Map
  <2> QED
    BY <1>3, <2>1, <2>2
<1>6. IsSeq(k) /\ \A n \in 1 .. Len(k) : k[n] \in T
  <2> DEFINE P == {n \in 1 .. Len(q) : q[n] \in T}
  <2>1. \A n \in P : q[n] \in T
    OBVIOUS
  <2>2. IsSeq(k) /\ \E g : Picks(k, q, P, g)
    <3> HIDE DEF T
    <3> QED
      BY <1>1, KeptPicks
  <2> HIDE DEF P, T
  <2> QED
    BY <2>1, <2>2 DEF Picks
<1>7. \A a \in T : AttachmentOf(a) /\ a.form # "none"
  BY <1>2
<1> HIDE DEF S, T, k, q
<1>8. DOMAIN k = 1 .. Len(k)
  BY <1>6, IsSeqLength
<1>9. s = [n \in DOMAIN k |-> s[n]] /\ \A n \in DOMAIN k : s[n] = e(k[n])
  OBVIOUS
<1> HIDE DEF s
<1>10. IsSeq(s) /\ Len(s) = Len(k)
  BY <1>6, <1>9, EachOf
<1>11. ASSUME NEW a, AttachmentOf(a), a.form # "none"
       PROVE  /\ AttachmentOf(e(a)) /\ e(a).form = a.form
              /\ e(a).form = "uri" \/ e(a).value = a.value
  <2>1. CASE freed /\ a.form = "uri"
    <3> DEFINE r == [a EXCEPT !.value = "freed"]
    <3>1. e(a) = r
      BY <2>1
    <3>2. {"form", "value"} \subseteq DOMAIN a
      BY <1>11 DEF AttachmentOf
    <3>3. DOMAIN r = DOMAIN a /\ r.form = a.form /\ r.value = "freed"
      BY <3>2
    <3>4. "freed" # Empty
      BY Zenon DEF Empty
    <3> HIDE DEF r, e
    <3>5. AttachmentOf(r)
      BY <2>1, <3>2, <3>3, <3>4 DEF AttachmentOf
    <3> QED
      BY <2>1, <3>1, <3>3, <3>5
  <2>2. CASE ~(freed /\ a.form = "uri")
    BY <1>11, <2>2
  <2> QED
    BY <2>1, <2>2
<1> HIDE DEF e
<1>12. ASSUME NEW n \in 1 .. Len(k)
       PROVE  /\ AttachmentOf(s[n]) /\ s[n].form # "none"
              /\ s[n].form = k[n].form /\ (s[n].form = "uri" \/ s[n].value = k[n].value)
  <2>1. AttachmentOf(k[n]) /\ k[n].form # "none" /\ s[n] = e(k[n])
    BY <1>6, <1>7, <1>8, <1>9
  <2> QED
    BY <1>11, <2>1
<1> QED
  BY <1>4, <1>5, <1>6, <1>8, <1>10, <1>12

\* Attachments with content are stored,
LEMMA AttachmentsMade ==
  ASSUME NEW i, ListsOf(i), NEW freed \in BOOLEAN
  PROVE  Made("Attachments", AttachmentRows(i, freed))
<1> DEFINE s == AttachmentRows(i, freed)
<1>1. IsSeq(s) /\ \A n \in 1 .. Len(s) : AttachmentOf(s[n]) /\ s[n].form # "none"
  BY AttachmentRowsAre
<1> HIDE DEF s
<1>2. \A n \in 1 .. Len(s) : RowMade("Attachments", s[n])
  BY <1>1 DEF RowMade
<1>3. "Attachments" # "Attendee"
  OBVIOUS
<1>4. Made("Attachments", s)
  BY <1>1, <1>2, <1>3, MadeOf
<1> QED
  BY <1>4 DEF s

\* All rows have content, so that none is skipped when they are read.
LEMMA AttachmentsRead ==
  ASSUME NEW s, Made("Attachments", s)
  PROVE  Kept(s, {a \in ToSet(s) : a.value # Empty}) = s
<1> DEFINE S == {a \in ToSet(s) : a.value # Empty}
<1>1. IsSeq(s)
  BY DEF Made
<1>2. \A n \in 1 .. Len(s) : s[n] \in ToSet(s)
  BY <1>1, IsSeqLength
<1>3. \A n \in 1 .. Len(s) : s[n].value # Empty
  BY DEF Made, RowMade, AttachmentOf
<1>4. \A n \in 1 .. Len(s) : s[n] \in S
  BY <1>2, <1>3
<1> HIDE DEF S
<1>5. Kept(s, S) = s
  BY <1>1, <1>4, KeptAll
<1> QED
  BY <1>5 DEF S

\* and come back, but for what a uri was.
LEMMA AttachmentsBack ==
  ASSUME NEW i, ListsOf(i), NEW freed \in BOOLEAN, NEW z, NEW j,
         j.attachments = AttachmentRows(i, freed)
  PROVE  SameIn("Attachments", j, i, z)
<1> DEFINE s == AttachmentRows(i, freed)
           k == WithContent(i)
<1>1. /\ IsSeq(s) /\ Len(s) = Len(k) /\ DOMAIN k = 1 .. Len(k)
      /\ \A n \in 1 .. Len(k) : s[n].form = k[n].form /\ (s[n].form = "uri" \/ s[n].value = k[n].value)
  BY AttachmentRowsAre
<1>2. DOMAIN s = 1 .. Len(s)
  BY <1>1, IsSeqLength
<1> HIDE DEF s, k
<1>3. \A n \in DOMAIN k : \E m \in DOMAIN s :
        s[m].form = k[n].form /\ (s[m].form = "uri" \/ s[m].value = k[n].value)
  BY <1>1, <1>2
<1>4. j.attachments = s
  BY DEF s
<1> QED
  BY <1>1, <1>3, <1>4 DEF SameIn, SameAll, k

\* What is made of an incidence for each table.
LEMMA RowsMade ==
  ASSUME NEW i, ListsOf(i), i.allDay \in BOOLEAN, NEW z \in Known, NEW freed \in BOOLEAN,
         NEW t \in Table
  PROVE  Made(t, Rows(t, i, z, freed))
<1>1. CASE t = "Customproperties"
  <2>1. Rows(t, i, z, freed) = i.properties
    BY <1>1 DEF Rows, CustompropertyRows
  <2>2. IsSeq(i.properties)
    BY DEF ListsOf
  <2>3. \A n \in 1 .. Len(i.properties) : RowMade(t, i.properties[n])
    BY <1>1 DEF RowMade
  <2>4. t # "Attendee"
    BY <1>1
  <2> QED
    BY <2>1, <2>2, <2>3, <2>4, MadeOf
<1>2. CASE t = "Attendee"
  BY <1>2, AttendeesMade DEF Rows
<1>3. CASE t = "Alarm"
  BY <1>3, AlarmsMade DEF Rows
<1>4. CASE t = "Recursive"
  BY <1>4, RulesMade DEF Rows
<1>5. CASE t = "Rdates"
  BY <1>5, RdatesMade DEF Rows
<1>6. CASE t = "Attachments"
  BY <1>6, AttachmentsMade DEF Rows
<1> QED
  BY <1>1, <1>2, <1>3, <1>4, <1>5, <1>6 DEF Table

\* Each table brings back what it was given.
LEMMA TableReturns ==
  ASSUME NEW i, ListsOf(i), i.allDay \in BOOLEAN, NEW z \in Known, NEW freed \in BOOLEAN,
         NEW t \in Table, NEW row, NEW others, others[t] = Rows(t, i, z, freed)
  PROVE  SameIn(t, ReadComponent(row, others), i, z)
<1> DEFINE j == ReadComponent(row, others)
<1>1. /\ j.properties = others["Customproperties"]
      /\ j.organizer = ReadOrganizer(others["Attendee"])
      /\ j.attendees = Map(others["Attendee"], ReadAttendee)
      /\ j.alarms = Map(others["Alarm"], ReadAlarm)
      /\ j.rules = Map(others["Recursive"], ReadRule)
      /\ j.rdates = Map(others["Rdates"], ReadRdate)
      /\ j.attachments = Kept(others["Attachments"], {a \in ToSet(others["Attachments"]) : a.value # Empty})
  BY DEF ReadComponent
<1> HIDE DEF j
<1>2. CASE t = "Customproperties"
  BY <1>1, <1>2 DEF Rows, CustompropertyRows, SameIn, j
<1>3. CASE t = "Attendee"
  <2>1. j.organizer = ReadOrganizer(AttendeeRows(i)) /\ j.attendees = Map(AttendeeRows(i), ReadAttendee)
    BY <1>1, <1>3 DEF Rows
  <2>2. j.organizer = i.organizer /\ Invited(j) = Invited(i)
    BY <2>1, AttendeesBack
  <2> QED
    BY <1>3, <2>2 DEF SameIn, j
<1>4. CASE t = "Alarm"
  <2>1. j.alarms = Map(AlarmRows(i, z), ReadAlarm)
    BY <1>1, <1>4 DEF Rows
  <2> QED
    BY <1>4, <2>1, AlarmsBack DEF j
<1>5. CASE t = "Recursive"
  <2>1. j.rules = Map(RecursiveRows(i, z), ReadRule)
    BY <1>1, <1>5 DEF Rows
  <2> QED
    BY <1>5, <2>1, RulesBack DEF j
<1>6. CASE t = "Rdates"
  <2>1. j.rdates = Map(RdateRows(i, z), ReadRdate)
    BY <1>1, <1>6 DEF Rows
  <2> QED
    BY <1>6, <2>1, RdatesBack DEF j
<1>7. CASE t = "Attachments"
  <2>1. others["Attachments"] = AttachmentRows(i, freed)
    BY <1>7 DEF Rows
  <2>2. j.attachments = AttachmentRows(i, freed)
    BY <1>1, <2>1, AttachmentsMade, AttachmentsRead
  <2> QED
    BY <1>7, <2>2, AttachmentsBack DEF j
<1> QED
  BY <1>2, <1>3, <1>4, <1>5, <1>6, <1>7 DEF Table

\* Whatever rows the tables have of incidences, what is read can be saved again.
LEMMA ListsReturn ==
  ASSUME NEW row, IsSeq(row.comments), NEW others, \A t \in Table : Made(t, others[t])
  PROVE  /\ ListsOf(ReadComponent(row, others))
         /\ FlattenSeq(ReadComponent(row, others).comments) = row.comments
<1> DEFINE j == ReadComponent(row, others)
           q(t) == others[t]
<1>1. /\ j.comments = [n \in DOMAIN row.comments |-> <<row.comments[n]>>]
      /\ j.properties = q("Customproperties")
      /\ j.attendees = [n \in DOMAIN q("Attendee") |-> ReadAttendee(q("Attendee")[n])]
      /\ j.alarms = [n \in DOMAIN q("Alarm") |-> ReadAlarm(q("Alarm")[n])]
      /\ j.rules = [n \in DOMAIN q("Recursive") |-> ReadRule(q("Recursive")[n])]
      /\ j.rdates = [n \in DOMAIN q("Rdates") |-> ReadRdate(q("Rdates")[n])]
      /\ j.attachments = Kept(q("Attachments"), {a \in ToSet(q("Attachments")) : a.value # Empty})
  BY DEF ReadComponent, Map
<1>2. ASSUME NEW t \in Table PROVE Made(t, q(t)) /\ IsSeq(q(t)) /\ DOMAIN q(t) = 1 .. Len(q(t))
  BY IsSeqLength DEF Made
<1>3. /\ "Customproperties" \in Table /\ "Attendee" \in Table /\ "Alarm" \in Table
      /\ "Recursive" \in Table /\ "Rdates" \in Table /\ "Attachments" \in Table
  BY DEF Table
<1> HIDE DEF j, q
<1>4. IsSeq(j.comments) /\ \A n \in DOMAIN j.comments : IsSeq(j.comments[n])
  <2> DEFINE s == row.comments
             f == [n \in DOMAIN s |-> <<s[n]>>]
  <2>1. \A n \in DOMAIN f : f[n] = <<s[n]>>
    OBVIOUS
  <2>2. f = [n \in DOMAIN s |-> f[n]]
    OBVIOUS
  <2>3. IsSeq(s)
    OBVIOUS
  <2> HIDE DEF s, f
  <2>4. IsSeq(f)
    BY <2>2, <2>3, EachOf
  <2>5. \A n \in DOMAIN f : IsSeq(f[n])
    BY <2>1, OneInSeq
  <2> QED
    BY <1>1, <2>4, <2>5 DEF f, s
<1>5. FlattenSeq(j.comments) = row.comments
  BY <1>1, FlattenWords
<1>6. IsSeq(j.properties)
  BY <1>1, <1>2, <1>3
<1>7. /\ IsSeq(j.attendees)
      /\ \A m, n \in DOMAIN j.attendees :
           j.attendees[m].email = j.attendees[n].email
             => m = n \/ j.attendees[n].email \in {Empty, j.organizer}
  <2> DEFINE s == q("Attendee")
             f == [n \in DOMAIN s |-> ReadAttendee(s[n])]
  <2>1. f = [n \in DOMAIN s |-> f[n]] /\ DOMAIN f = DOMAIN s /\ \A n \in DOMAIN s : f[n].email = s[n].email
    BY DEF ReadAttendee
  <2>2. Made("Attendee", s) /\ IsSeq(s) /\ DOMAIN s = 1 .. Len(s)
    BY <1>2, <1>3
  <2> HIDE DEF s, f
  <2>3. IsSeq(f)
    BY <2>1, <2>2, EachOf
  <2>4. \A m, n \in DOMAIN f : f[m].email = f[n].email => m = n
    BY <2>1, <2>2 DEF Made, Apart
  <2>5. j.attendees = f
    BY <1>1 DEF f, s
  <2> QED
    BY <2>3, <2>4, <2>5
<1>8. IsSeq(j.alarms) /\ \A n \in DOMAIN j.alarms : AlarmOf(j.alarms[n])
  <2> DEFINE s == q("Alarm")
             f == [n \in DOMAIN s |-> ReadAlarm(s[n])]
  <2>1. f = [n \in DOMAIN s |-> f[n]] /\ DOMAIN f = DOMAIN s /\ \A n \in DOMAIN s : f[n] = ReadAlarm(s[n])
    OBVIOUS
  <2>2. Made("Alarm", s) /\ IsSeq(s) /\ DOMAIN s = 1 .. Len(s)
    BY <1>2, <1>3
  <2>5. j.alarms = f
    BY <1>1
  <2> HIDE DEF s, f
  <2>3. IsSeq(f)
    BY <2>1, <2>2, EachOf
  <2>4. ASSUME NEW n \in DOMAIN f PROVE AlarmOf(f[n])
    <3>1. \E a : \E z \in Known : AlarmOf(a) /\ s[n] = AlarmRow(a, z)
      BY <2>1, <2>2 DEF Made, RowMade
    <3> QED
      BY <2>1, <3>1, AlarmBack
  <2> QED
    BY <2>3, <2>4, <2>5
<1>9. IsSeq(j.rules) /\ \A n \in DOMAIN j.rules : RuleOf(j.rules[n])
  <2> DEFINE s == q("Recursive")
             f == [n \in DOMAIN s |-> ReadRule(s[n])]
  <2>1. f = [n \in DOMAIN s |-> f[n]] /\ DOMAIN f = DOMAIN s /\ \A n \in DOMAIN s : f[n] = ReadRule(s[n])
    OBVIOUS
  <2>2. Made("Recursive", s) /\ IsSeq(s) /\ DOMAIN s = 1 .. Len(s)
    BY <1>2, <1>3
  <2>5. j.rules = f
    BY <1>1
  <2> HIDE DEF s, f
  <2>3. IsSeq(f)
    BY <2>1, <2>2, EachOf
  <2>4. ASSUME NEW n \in DOMAIN f PROVE RuleOf(f[n])
    <3>1. \E r : \E b \in BOOLEAN : \E z \in Known : RuleOf(r) /\ s[n] = RecursiveRow(r, b, z)
      BY <2>1, <2>2 DEF Made, RowMade
    <3> QED
      BY <2>1, <3>1, RuleBack
  <2> QED
    BY <2>3, <2>4, <2>5
<1>10. IsSeq(j.rdates) /\ \A n \in DOMAIN j.rdates : RdateOf(j.rdates[n])
  <2> DEFINE s == q("Rdates")
             f == [n \in DOMAIN s |-> ReadRdate(s[n])]
  <2>1. f = [n \in DOMAIN s |-> f[n]] /\ DOMAIN f = DOMAIN s /\ \A n \in DOMAIN s : f[n] = ReadRdate(s[n])
    OBVIOUS
  <2>2. Made("Rdates", s) /\ IsSeq(s) /\ DOMAIN s = 1 .. Len(s)
    BY <1>2, <1>3
  <2>5. j.rdates = f
    BY <1>1
  <2> HIDE DEF s, f
  <2>3. IsSeq(f)
    BY <2>1, <2>2, EachOf
  <2>4. ASSUME NEW n \in DOMAIN f PROVE RdateOf(f[n])
    <3>1. \E d : \E b \in BOOLEAN : \E z \in Known : RdateOf(d) /\ s[n] = RdateRow(d, b, z)
      BY <2>1, <2>2 DEF Made, RowMade
    <3> QED
      BY <2>1, <3>1, RdateBack
  <2> QED
    BY <2>3, <2>4, <2>5
<1>11. IsSeq(j.attachments) /\ \A n \in DOMAIN j.attachments : AttachmentOf(j.attachments[n])
  <2> DEFINE s == q("Attachments")
  <2>1. Made("Attachments", s) /\ IsSeq(s) /\ DOMAIN s = 1 .. Len(s)
    BY <1>2, <1>3
  <2>2. j.attachments = s
    <3>1. j.attachments = Kept(s, {a \in ToSet(s) : a.value # Empty})
      BY <1>1
    <3> HIDE DEF s
    <3> QED
      BY <2>1, <3>1, AttachmentsRead
  <2> HIDE DEF s
  <2>3. \A n \in DOMAIN s : AttachmentOf(s[n])
    BY <2>1 DEF Made, RowMade
  <2> QED
    BY <2>1, <2>2, <2>3
<1>12. ListsOf(j)
  BY <1>4, <1>6, <1>7, <1>8, <1>9, <1>10, <1>11 DEF ListsOf
<1> QED
  BY <1>5, <1>12 DEF j

-----------------------------------------------------------------------------
(***************************************************************************)
(* At any time the incidences in memory, those last written and the rows   *)
(* of all tables are such that what is read can be written and read again. *)
(***************************************************************************)

MemoryListed == \A k \in Key : state[k] # "gone" => ListsOf(obj[k])

WrittenListed == \A id \in RowId : rows[id] # NoRow => ListsOf(written[id].value)

TablesMade == \A id \in RowId : \A t \in Table : Made(t, sub[t][id])

ListsInv == MemoryListed /\ WrittenListed /\ TablesMade

\* An incidence in memory is as it was, or one that can be written.
LEMMA ListedSuffices ==
  ASSUME MemoryListed, \A k \in Key : state'[k] # "gone" =>
           (state[k] # "gone" /\ obj'[k] = obj[k]) \/ ListsOf(obj'[k])
  PROVE  MemoryListed'
<1> SUFFICES ASSUME NEW k \in Key, state'[k] # "gone" PROVE ListsOf(obj'[k])
  BY DEF MemoryListed
<1> QED
  BY DEF MemoryListed

\* What is remembered of a row is as it was, or could be written.
LEMMA WrittenListedSuffices ==
  ASSUME WrittenListed, \A id \in RowId : rows'[id] # NoRow =>
           (rows[id] # NoRow /\ written'[id] = written[id]) \/ ListsOf(written'[id].value)
  PROVE  WrittenListed'
<1> SUFFICES ASSUME NEW id \in RowId, rows'[id] # NoRow PROVE ListsOf(written'[id].value)
  BY DEF WrittenListed
<1> QED
  BY DEF WrittenListed

\* The rows of a table under an id are as they were, or made.
LEMMA MadeSuffices ==
  ASSUME TablesMade, \A id \in RowId : \A t \in Table :
           sub'[t][id] = sub[t][id] \/ Made(t, sub'[t][id])
  PROVE  TablesMade'
<1> SUFFICES ASSUME NEW id \in RowId, NEW t \in Table PROVE Made(t, sub'[t][id])
  BY DEF TablesMade
<1> QED
  BY DEF TablesMade

\* The incidence whose turn it was stays as it is, or is forgotten.
LEMMA DoneListed ==
  ASSUME MemoryListed, MemorySound, NEW k \in Key, Done(k), state[k] = phase, phase # "gone"
  PROVE  MemoryListed'
<1>1. \/ state' = [state EXCEPT ![k] = "gone"] /\ obj' = [obj EXCEPT ![k] = NoObject]
      \/ state' = [state EXCEPT ![k] = "clean"] /\ obj' = obj
  BY DEF Done, Forget
<1>2. \A l \in Key : state'[l] # "gone" => state[l] # "gone" /\ obj'[l] = obj[l]
  BY <1>1 DEF MemorySound
<1> QED
  BY <1>2, ListedSuffices

\* An application gives lists that can be written.
LEMMA ListedEdit ==
  ASSUME MemoryListed, MemorySound, NEW k \in Key, NEW i \in Contents[k], Add(k, i) \/ Edit(k, i)
  PROVE  MemoryListed'
<1>1. /\ {"comments", "properties", "organizer", "attendees", "alarms", "rules", "rdates",
          "attachments"} \subseteq DOMAIN i
      /\ ListsOf(i)
  BY ListsAssumption
<1>2. CASE Add(k, i)
  <2>1. obj' = [obj EXCEPT ![k] = i] /\ state' = [state EXCEPT ![k] = "insert"]
    BY <1>2 DEF Add
  <2>2. \A l \in Key : state'[l] # "gone" =>
          (state[l] # "gone" /\ obj'[l] = obj[l]) \/ ListsOf(obj'[l])
    BY <1>1, <2>1 DEF MemorySound
  <2> QED
    BY <2>2, ListedSuffices
<1>3. CASE Edit(k, i)
  <2> DEFINE new == [i EXCEPT !.recurrenceId = obj[k].recurrenceId]
  <2>1. /\ obj' = [obj EXCEPT ![k] = new]
        /\ state' = [state EXCEPT ![k] = IF @ = "clean" THEN "update" ELSE @]
        /\ state[k] \in {"clean", "insert", "update"}
    BY <1>3 DEF Edit
  <2>2. /\ new.comments = i.comments /\ new.properties = i.properties
        /\ new.organizer = i.organizer /\ new.attendees = i.attendees
        /\ new.alarms = i.alarms /\ new.rules = i.rules
        /\ new.rdates = i.rdates /\ new.attachments = i.attachments
    BY <1>1
  <2> HIDE DEF new
  <2>3. ListsOf(new)
    BY <1>1, <2>2 DEF ListsOf
  <2>4. \A l \in Key : state'[l] # "gone" =>
          (state[l] # "gone" /\ obj'[l] = obj[l]) \/ ListsOf(obj'[l])
    BY <2>1, <2>3 DEF MemorySound
  <2> QED
    BY <2>4, ListedSuffices
<1> QED
  BY <1>2, <1>3

\* What is loaded from a row.
LEMMA LoadedListed ==
  ASSUME WrittenInv, ListsInv, NEW id \in RowId, rows[id] # NoRow
  PROVE  /\ ListsOf(Loaded(id))
         /\ FlattenSeq(Loaded(id).comments) = FlattenSeq(written[id].value.comments)
<1> DEFINE w == written[id].value
           others == [t \in Table |-> sub[t][id]]
<1>1. rows[id].row = ComponentRow(w, written[id].zone)
  BY DEF WrittenInv, RowsAsWritten, AsWritten
<1>2. rows[id].row.comments = FlattenSeq(w.comments)
  BY <1>1 DEF ComponentRow
<1>3. ListsOf(w)
  BY DEF ListsInv, WrittenListed
<1>4. IsSeq(rows[id].row.comments)
  <2>1. IsSeq(w.comments) /\ \A n \in DOMAIN w.comments : IsSeq(w.comments[n])
    BY <1>3 DEF ListsOf
  <2> QED
    BY <1>2, <2>1, FlattenIsSeq
<1>5. \A t \in Table : Made(t, others[t])
  BY DEF ListsInv, TablesMade
<1>6. Loaded(id) = ReadComponent(rows[id].row, others)
  BY DEF Loaded
<1> HIDE DEF others
<1> QED
  BY <1>2, <1>4, <1>5, <1>6, ListsReturn

\* What another process loads can be written again.
LEMMA ListedReload ==
  ASSUME WrittenInv, ListsInv, NEW z \in Known, Reload(z)
  PROVE  MemoryListed'
<1> DEFINE live(k) == {id \in RowId : Live(id) /\ rows[id].key = k}
<1>1. /\ state' = [k \in Key |-> IF live(k) = {} THEN "gone" ELSE "clean"]
      /\ obj' = [k \in Key |-> IF live(k) = {} THEN NoObject
                               ELSE Loaded(CHOOSE id \in live(k) : TRUE)]
  BY DEF Reload
<1>2. ASSUME NEW k \in Key, state'[k] # "gone" PROVE ListsOf(obj'[k])
  <2>1. PICK id \in live(k) : obj'[k] = Loaded(id)
    BY <1>1, <1>2
  <2>2. id \in RowId /\ rows[id] # NoRow
    BY <2>1 DEF Live
  <2>3. ListsOf(Loaded(id))
    BY <2>2, LoadedListed
  <2> QED
    BY <2>1, <2>3
<1> QED
  BY <1>2, ListedSuffices DEF ListsInv

\* What is put in a table that was empty, whatever fails.
LEMMA FilledMade ==
  ASSUME NEW i, ListsOf(i), i.allDay \in BOOLEAN, NEW z \in Known, NEW freed \in BOOLEAN,
         NEW fault \in Fault, NEW t \in Table
  PROVE  Made(t, Accepted(t, <<>>, Inserted(t, Rows(t, i, z, freed), fault)))
<1>1. Made(t, Rows(t, i, z, freed))
  BY RowsMade
<1>2. Made(t, Inserted(t, Rows(t, i, z, freed), fault))
  BY <1>1, InsertedMade
<1> QED
  BY <1>2, AcceptedMade

\* A new row starts with tables that are empty.
LEMMA ListedInsert ==
  ASSUME IInv, IdentityInv, WrittenInv, ListsInv, NEW k \in Key, NEW freed \in BOOLEAN,
         NEW fault \in Fault, NEW purge, SaveInsert(k, freed, fault, purge)
  PROVE  WrittenListed' /\ TablesMade'
<1>1. CASE fault.at = "row"
  <2>1. UNCHANGED <<rows, sub, written>>
    BY <1>1 DEF SaveInsert, tables
  <2> QED
    BY <2>1, WrittenListedSuffices, MadeSuffices DEF ListsInv
<1>2. CASE fault.at # "row"
  <2> DEFINE gone == IF stuck \/ ~purge THEN {} ELSE DeadRows(k)
             new == [uid |-> k.uid, key |-> k, deleted |-> FALSE, row |-> ComponentRow(obj[k], zone)]
             inserted == [rows EXCEPT ![NewId] = new]
             noted == [written EXCEPT ![NewId] = Written(obj[k], fault)]
             put(t, old) == Accepted(t, old, Inserted(t, Rows(t, obj[k], zone, freed), fault))
             filled == [t \in Table |-> [sub[t] EXCEPT ![NewId] = put(t, @)]]
  <2>1. /\ rows' = Purged(inserted, gone, NoRow) /\ written' = Purged(noted, gone, NotWritten)
        /\ sub' = SubPurged(filled, gone, fault)
    BY <1>2 DEF SaveInsert
  <2>2. /\ DOMAIN rows = RowId /\ DOMAIN written = RowId
        /\ \A t \in Table : DOMAIN sub[t] = RowId \cup {Null}
    BY DEF IInv, Columns, WrittenInv, RowsAsWritten
  <2>3. ASSUME NewId \in RowId, NEW t \in Table
        PROVE  sub[t][NewId] = <<>>
    BY <2>3 DEF IInv, FreshIds, Unused, NewId, Columns
  <2>4. zone \in Known /\ obj[k].allDay \in BOOLEAN /\ ListsOf(obj[k])
    BY DEF SaveInsert, WrittenInv, MemoryTimed, IdentityInv, MemorySound, Sound, TimesOf,
           ListsInv, MemoryListed
  <2>5. \A t \in Table : Made(t, put(t, <<>>))
    BY <2>4, FilledMade
  <2>6. Written(obj[k], fault).value = obj[k]
    BY DEF Written
  <2> HIDE DEF gone, new, put
  <2>7. ASSUME NEW id \in RowId, rows'[id] # NoRow
        PROVE  (rows[id] # NoRow /\ written'[id] = written[id]) \/ ListsOf(written'[id].value)
    <3>1. id \notin gone
      BY <2>1, <2>7 DEF Purged
    <3>2. rows'[id] = inserted[id] /\ written'[id] = noted[id]
      BY <2>1, <3>1 DEF Purged
    <3>3. CASE id = NewId
      BY <2>2, <2>4, <2>6, <3>2, <3>3
    <3>4. CASE id # NewId
      BY <2>2, <2>7, <3>2, <3>4
    <3> QED
      BY <3>3, <3>4
  <2>8. ASSUME NEW id \in RowId, NEW t \in Table
        PROVE  sub'[t][id] = sub[t][id] \/ Made(t, sub'[t][id])
    <3>1. filled[t][id] = sub[t][id] \/ (id = NewId /\ filled[t][id] = put(t, <<>>))
      BY <2>2, <2>3
    <3> HIDE DEF filled
    <3>2. sub'[t][id] \in {<<>>, filled[t][id]}
      BY <2>1 DEF SubPurged
    <3> QED
      BY <2>5, <3>1, <3>2, MadeEmpty
  <2> QED
    BY <2>7, <2>8, WrittenListedSuffices, MadeSuffices DEF ListsInv
<1> QED
  BY <1>1, <1>2

\* The rows of an update replace the old ones, or the old ones stay.
LEMMA ListedUpdate ==
  ASSUME IInv, IdentityInv, WrittenInv, ListsInv, NEW k \in Key, NEW freed \in BOOLEAN,
         NEW fault \in Fault, SaveUpdate(k, freed, fault)
  PROVE  WrittenListed' /\ TablesMade'
<1>1. CASE FoundRows(k) = {} \/ fault.at = "row"
  <2>1. UNCHANGED <<rows, sub, written>>
    BY <1>1 DEF SaveUpdate, tables
  <2> QED
    BY <2>1, WrittenListedSuffices, MadeSuffices DEF ListsInv
<1>2. CASE ~(FoundRows(k) = {} \/ fault.at = "row")
  <2>1. PICK id \in FoundRows(k) :
          /\ rows' = [rows EXCEPT ![id].row = ComponentRow(obj[k], zone)]
          /\ sub' = [t \in Table |-> [sub[t] EXCEPT ![id] = Replaced(@, t, obj[k], freed, fault)]]
          /\ written' = [written EXCEPT ![id] = Written(obj[k], fault)]
    BY <1>2 DEF SaveUpdate
  <2>2. id \in RowId /\ id \in RowId \cup {Null}
    BY <2>1 DEF FoundRows, WithIdentity
  <2>3. /\ DOMAIN rows = RowId /\ DOMAIN written = RowId
        /\ \A t \in Table : DOMAIN sub[t] = RowId \cup {Null}
    BY DEF IInv, Columns, WrittenInv, RowsAsWritten
  <2>4. zone \in Known /\ obj[k].allDay \in BOOLEAN /\ ListsOf(obj[k])
    BY DEF SaveUpdate, WrittenInv, MemoryTimed, IdentityInv, MemorySound, Sound, TimesOf,
           ListsInv, MemoryListed
  <2>5. Written(obj[k], fault).value = obj[k]
    BY DEF Written
  <2>6. ASSUME NEW other \in RowId, rows'[other] # NoRow
        PROVE  (rows[other] # NoRow /\ written'[other] = written[other]) \/ ListsOf(written'[other].value)
    <3>1. CASE other = id
      BY <2>1, <2>3, <2>4, <2>5, <3>1
    <3>2. CASE other # id
      BY <2>1, <2>2, <2>3, <2>6, <3>2
    <3> QED
      BY <3>1, <3>2
  <2>7. ASSUME NEW t \in Table
        PROVE  Replaced(sub[t][id], t, obj[k], freed, fault) = sub[t][id]
               \/ Made(t, Replaced(sub[t][id], t, obj[k], freed, fault))
    BY <2>4, FilledMade DEF Replaced
  <2>8. ASSUME NEW other \in RowId, NEW t \in Table
        PROVE  sub'[t][other] = sub[t][other] \/ Made(t, sub'[t][other])
    <3>1. sub'[t][other] = IF other = id THEN Replaced(sub[t][id], t, obj[k], freed, fault)
                           ELSE sub[t][other]
      BY <2>1, <2>2, <2>3
    <3> QED
      BY <2>7, <3>1
  <2> QED
    BY <2>6, <2>8, WrittenListedSuffices, MadeSuffices DEF ListsInv
<1> QED
  BY <1>1, <1>2

\* Statements left over from an earlier list put rows of other incidences under
\* an id, or what was never bound under none.
LEMMA ListedMark ==
  ASSUME IInv, IdentityInv, WrittenInv, ListsInv, NEW k \in Key, NEW freed \in BOOLEAN,
         NEW fault \in Fault, SaveMark(k, freed, fault)
  PROVE  WrittenListed' /\ TablesMade'
<1>1. CASE FoundRows(k) = {} \/ fault.at = "row"
  <2>1. UNCHANGED <<rows, sub, written>>
    BY <1>1 DEF SaveMark, tables
  <2> QED
    BY <2>1, WrittenListedSuffices, MadeSuffices DEF ListsInv
<1>2. CASE ~(FoundRows(k) = {} \/ fault.at = "row")
  <2>1. PICK id \in FoundRows(k) :
          /\ rows' = [rows EXCEPT ![id].deleted = TRUE]
          /\ sub' = [t \in Table |-> Marked(t, id, obj[k], freed, fault)]
          /\ written' = written
    BY <1>2 DEF SaveMark
  <2>2. id \in RowId /\ rows[id] # NoRow
    BY <2>1 DEF FoundRows, WithIdentity
  <2>3. DOMAIN rows = RowId /\ \A t \in Table : DOMAIN sub[t] = RowId \cup {Null}
    BY DEF IInv, Columns
  <2>4. \A other \in RowId : rows'[other] # NoRow => rows[other] # NoRow
    BY <2>1, <2>2, <2>3
  <2>5. zone \in Known /\ obj[k].allDay \in BOOLEAN /\ ListsOf(obj[k])
    BY DEF SaveMark, WrittenInv, MemoryTimed, IdentityInv, MemorySound, Sound, TimesOf,
           ListsInv, MemoryListed
  <2>6. \A other \in RowId : other # Null
    BY DEF RowId, Null
  <2>7. ASSUME NEW other \in RowId, NEW t \in Table
        PROVE  sub'[t][other] = sub[t][other] \/ Made(t, sub'[t][other])
    <3> DEFINE new == Inserted(t, Rows(t, obj[k], zone, freed), fault)
               unbound == Map(new, LAMBDA r : "unbound")
    <3>1. sub'[t] = IF ~leftover THEN sub[t]
                    ELSE IF t = "Attachments" THEN [sub[t] EXCEPT ![id] = @ \o new]
                    ELSE [sub[t] EXCEPT ![Null] = @ \o unbound]
      BY <2>1 DEF Marked
    <3>2. Made(t, new)
      BY <2>5, RowsMade, InsertedMade
    <3>3. Made(t, sub[t][other])
      BY DEF ListsInv, TablesMade
    <3> HIDE DEF new, unbound
    <3>4. CASE ~leftover
      BY <3>1, <3>4
    <3>5. CASE leftover /\ t = "Attachments"
      <4>1. Made(t, sub[t][other] \o new)
        BY <3>2, <3>3, <3>5, MadeJoined
      <4>2. sub'[t][other] = IF other = id THEN sub[t][other] \o new ELSE sub[t][other]
        BY <2>2, <2>3, <3>1, <3>5
      <4> QED
        BY <4>1, <4>2
    <3>6. CASE leftover /\ t # "Attachments"
      BY <2>3, <2>6, <3>1, <3>6
    <3> QED
      BY <3>4, <3>5, <3>6
  <2> QED
    BY <2>1, <2>4, <2>7, WrittenListedSuffices, MadeSuffices DEF ListsInv
<1> QED
  BY <1>1, <1>2

\* Where rows are deleted there are none, or the old ones.
LEMMA ListedErase ==
  ASSUME ListsInv, NEW D, NEW fault,
         \/ UNCHANGED <<rows, sub, written>>
         \/ /\ rows' = Purged(rows, D, NoRow) /\ written' = Purged(written, D, NotWritten)
            /\ sub' = SubPurged(sub, D, fault)
  PROVE  WrittenListed' /\ TablesMade'
<1>1. \A id \in RowId : rows'[id] # NoRow => rows[id] # NoRow /\ written'[id] = written[id]
  BY DEF Purged
<1>2. \A id \in RowId : \A t \in Table : sub'[t][id] = sub[t][id] \/ sub'[t][id] = <<>>
  BY DEF SubPurged
<1>3. \A id \in RowId : \A t \in Table : sub'[t][id] = sub[t][id] \/ Made(t, sub'[t][id])
  BY <1>2, MadeEmpty
<1> QED
  BY <1>1, <1>3, WrittenListedSuffices, MadeSuffices DEF ListsInv

LEMMA ListsStep == IInv /\ IdentityInv /\ WrittenInv /\ ListsInv /\ [Next]_vars => ListsInv'
<1> SUFFICES ASSUME IInv, IdentityInv, WrittenInv, ListsInv, [Next]_vars PROVE ListsInv'
  OBVIOUS
<1>1. ASSUME UNCHANGED memory PROVE MemoryListed'
  BY <1>1, ListedSuffices DEF memory, ListsInv
<1>2. ASSUME UNCHANGED <<rows, sub, written>> PROVE WrittenListed' /\ TablesMade'
  BY <1>2, ListedErase
<1>3. MemorySound /\ MemoryListed
  BY DEF IdentityInv, ListsInv
<1>4. ASSUME NEW k \in Key, NEW i \in Contents[k], Add(k, i) \/ Edit(k, i) PROVE ListsInv'
  <2>1. UNCHANGED <<rows, sub, written>>
    BY <1>4 DEF Add, Edit, tables, history
  <2> QED
    BY <1>2, <1>3, <1>4, <2>1, ListedEdit DEF ListsInv
<1>5. ASSUME NEW k \in Key, Delete(k) PROVE ListsInv'
  <2>1. \/ state' = [state EXCEPT ![k] = "gone"] /\ obj' = [obj EXCEPT ![k] = NoObject]
        \/ state' = [state EXCEPT ![k] = "delete"] /\ obj' = obj
    BY <1>5 DEF Delete, Forget
  <2>2. \A l \in Key : state'[l] # "gone" => obj'[l] = obj[l] /\ state[l] # "gone"
    BY <1>3, <1>5, <2>1 DEF Delete, MemorySound
  <2>3. UNCHANGED <<rows, sub, written>>
    BY <1>5 DEF Delete, tables, history
  <2> QED
    BY <1>2, <1>3, <2>2, <2>3, ListedSuffices DEF ListsInv
<1>6. ASSUME NEW z \in Known, Reload(z) PROVE ListsInv'
  <2>1. UNCHANGED <<rows, sub, written>>
    BY <1>6 DEF Reload, tables, history
  <2> QED
    BY <1>2, <1>6, <2>1, ListedReload DEF ListsInv
<1>7. ASSUME UNCHANGED <<memory, rows, sub, written>> PROVE ListsInv'
  BY <1>1, <1>2, <1>7 DEF ListsInv
<1>8. ASSUME NEW action, SaveBegin(action) PROVE ListsInv'
  BY <1>7, <1>8 DEF SaveBegin, tables, history
<1>9. CASE NextPhase
  BY <1>7, <1>9 DEF NextPhase, tables, history
<1>10. ASSUME NEW k \in Key, NEW freed \in BOOLEAN, NEW fault \in Fault,
              \/ \E purge \in BOOLEAN : SaveInsert(k, freed, fault, purge)
              \/ SaveUpdate(k, freed, fault)
              \/ SaveMark(k, freed, fault)
       PROVE  ListsInv'
  <2>1. Done(k) /\ state[k] = phase /\ phase # "gone"
    BY <1>10 DEF SaveInsert, SaveUpdate, SaveMark
  <2>2. WrittenListed' /\ TablesMade'
    BY <1>10, ListedInsert, ListedUpdate, ListedMark
  <2> QED
    BY <1>3, <2>1, <2>2, DoneListed DEF ListsInv
<1>11. ASSUME NEW k \in Key, NEW fault, SaveDelete(k, fault) PROVE ListsInv'
  <2>1. Done(k) /\ state[k] = phase /\ phase # "gone"
    BY <1>11 DEF SaveDelete
  <2>2. \E D : \/ UNCHANGED <<rows, sub, written>>
               \/ /\ rows' = Purged(rows, D, NoRow) /\ written' = Purged(written, D, NotWritten)
                  /\ sub' = SubPurged(sub, D, fault)
    BY <1>11 DEF SaveDelete, tables
  <2> QED
    BY <1>3, <2>1, <2>2, DoneListed, ListedErase DEF ListsInv
<1>12. ASSUME NEW D, NEW gone, NEW fault, Purge(D, gone, fault) PROVE ListsInv'
  <2>1. /\ UNCHANGED memory
        /\ rows' = Purged(rows, gone, NoRow) /\ written' = Purged(written, gone, NotWritten)
        /\ sub' = SubPurged(sub, gone, fault)
    BY <1>12 DEF Purge
  <2> QED
    BY <1>1, <2>1, ListedErase DEF ListsInv
<1>13. CASE UNCHANGED vars
  BY <1>7, <1>13 DEF vars, tables, history
<1> QED
  BY <1>4, <1>5, <1>6, <1>8, <1>9, <1>10, <1>11, <1>12, <1>13 DEF Next

LEMMA ListsInvHolds == Spec => []ListsInv
<1>1. Init => ListsInv
  <2> SUFFICES ASSUME Init PROVE ListsInv
    OBVIOUS
  <2>1. MemoryListed /\ WrittenListed
    BY DEF Init, MemoryListed, WrittenListed
  <2>2. TablesMade
    BY MadeEmpty DEF Init, TablesMade
  <2> QED
    BY <2>1, <2>2 DEF ListsInv
<1> QED
  BY <1>1, ListsStep, IdsFresh, IdentityInvHolds, WrittenInvHolds, PTL DEF Spec

-----------------------------------------------------------------------------
(***************************************************************************)
(* Which rows are stored.  They are those of the incidence last written,   *)
(* but for the tables whose statements failed.                             *)
(***************************************************************************)

\* The rows of w in table t.  The bytes of a uri may be freed.
TableOf(t, w, freed) == Accepted(t, <<>>, Rows(t, w.value, w.zone, freed))

\* A row marked as deleted may have attachments added behind its own.
Carried(id, t) ==
  \E freed \in BOOLEAN :
    \/ sub[t][id] = TableOf(t, written[id], freed)
    \/ /\ t = "Attachments" /\ rows[id].deleted
       /\ \E more : IsSeq(more) /\ sub[t][id] = TableOf(t, written[id], freed) \o more

TablesAreWritten ==
  \A id \in RowId : rows[id] # NoRow => \A t \in Table \ written[id].but : Carried(id, t)

\* Rows that stay as they are stay carried.
LEMMA CarriedSuffices ==
  ASSUME TablesAreWritten,
         \A id \in RowId : rows'[id] # NoRow =>
           \/ /\ rows[id] # NoRow /\ rows'[id].deleted = rows[id].deleted
              /\ written'[id] = written[id] /\ \A t \in Table : sub'[t][id] = sub[t][id]
           \/ \A t \in Table \ written'[id].but : Carried(id, t)'
  PROVE  TablesAreWritten'
<1> SUFFICES ASSUME NEW id \in RowId, rows'[id] # NoRow, NEW t \in Table \ written'[id].but
             PROVE  Carried(id, t)'
  BY DEF TablesAreWritten
<1>1. CASE /\ rows[id] # NoRow /\ rows'[id].deleted = rows[id].deleted
           /\ written'[id] = written[id] /\ \A u \in Table : sub'[u][id] = sub[u][id]
  <2>1. Carried(id, t)
    BY <1>1 DEF TablesAreWritten
  <2>2. sub'[t][id] = sub[t][id]
    BY <1>1
  <2> QED
    BY <1>1, <2>1, <2>2 DEF Carried, TableOf
<1> QED
  BY <1>1

\* Rows that are purged have nothing to carry.
LEMMA CarriedErase ==
  ASSUME TablesAreWritten, NEW D, NEW fault,
         rows' = Purged(rows, D, NoRow), written' = Purged(written, D, NotWritten),
         sub' = SubPurged(sub, D, fault)
  PROVE  TablesAreWritten'
<1>1. ASSUME NEW id \in RowId, rows'[id] # NoRow
      PROVE  /\ rows[id] # NoRow /\ rows'[id].deleted = rows[id].deleted
             /\ written'[id] = written[id] /\ \A t \in Table : sub'[t][id] = sub[t][id]
  <2>1. id \notin D
    BY <1>1 DEF Purged
  <2>2. rows'[id] = rows[id] /\ written'[id] = written[id]
    BY <2>1 DEF Purged
  <2>3. \A t \in Table : sub'[t][id] = sub[t][id]
    BY <2>1 DEF SubPurged
  <2> QED
    BY <1>1, <2>2, <2>3
<1> QED
  BY <1>1, CarriedSuffices

\* A table that is noted as written has had no failure.
LEMMA NoHit ==
  ASSUME NEW i, NEW fault, NEW t \in Table \ Written(i, fault).but, NEW at
  PROVE  ~Hits(fault, t, at)
<1>1. Written(i, fault).but = IF fault.table = "none" THEN {} ELSE {fault.table}
  BY DEF Written
<1>2. t # "none"
  BY DEF Table
<1> QED
  BY <1>1, <1>2 DEF Hits

LEMMA CarriedInsert ==
  ASSUME IInv, TablesAreWritten, DOMAIN written = RowId, NEW k \in Key, NEW freed \in BOOLEAN,
         NEW fault, NEW purge, SaveInsert(k, freed, fault, purge)
  PROVE  TablesAreWritten'
<1>1. CASE fault.at = "row"
  BY <1>1, CarriedSuffices DEF SaveInsert, tables
<1>2. CASE fault.at # "row"
  <2> DEFINE gone == IF stuck \/ ~purge THEN {} ELSE DeadRows(k)
             new == [uid |-> k.uid, key |-> k, deleted |-> FALSE, row |-> ComponentRow(obj[k], zone)]
             inserted == [rows EXCEPT ![NewId] = new]
             noted == [written EXCEPT ![NewId] = Written(obj[k], fault)]
             put(t, old) == Accepted(t, old, Inserted(t, Rows(t, obj[k], zone, freed), fault))
             filled == [t \in Table |-> [sub[t] EXCEPT ![NewId] = put(t, @)]]
  <2>1. /\ rows' = Purged(inserted, gone, NoRow) /\ written' = Purged(noted, gone, NotWritten)
        /\ sub' = SubPurged(filled, gone, fault)
    BY <1>2 DEF SaveInsert
  <2>2. DOMAIN rows = RowId /\ \A t \in Table : DOMAIN sub[t] = RowId \cup {Null}
    BY DEF IInv, Columns
  <2>3. ASSUME NewId \in RowId, NEW t \in Table
        PROVE  sub[t][NewId] = <<>>
    BY <2>3 DEF IInv, FreshIds, Unused, NewId, Columns
  <2>4. ASSUME NEW t \in Table \ Written(obj[k], fault).but
        PROVE  put(t, <<>>) = TableOf(t, Written(obj[k], fault), freed)
    <3>1. ~Hits(fault, t, "insert")
      BY NoHit
    <3>2. Inserted(t, Rows(t, obj[k], zone, freed), fault) = Rows(t, obj[k], zone, freed)
      BY <3>1 DEF Inserted
    <3>3. Written(obj[k], fault).zone = zone /\ Written(obj[k], fault).value = obj[k]
      BY DEF Written
    <3> QED
      BY <3>2, <3>3 DEF TableOf
  <2> HIDE DEF gone, new, put
  <2>5. ASSUME NEW id \in RowId, rows'[id] # NoRow
        PROVE  /\ rows'[id] = inserted[id] /\ written'[id] = noted[id]
               /\ \A t \in Table : sub'[t][id] = filled[t][id]
    <3>1. id \notin gone
      BY <2>1, <2>5 DEF Purged
    <3> HIDE DEF inserted, noted, filled
    <3>2. rows'[id] = inserted[id] /\ written'[id] = noted[id]
      BY <2>1, <3>1 DEF Purged
    <3>3. \A t \in Table : sub'[t][id] = filled[t][id]
      BY <2>1, <3>1 DEF SubPurged
    <3> QED
      BY <3>2, <3>3
  <2>6. ASSUME NEW id \in RowId, rows'[id] # NoRow
        PROVE  \/ /\ rows[id] # NoRow /\ rows'[id].deleted = rows[id].deleted
                  /\ written'[id] = written[id] /\ \A t \in Table : sub'[t][id] = sub[t][id]
               \/ \A t \in Table \ written'[id].but : Carried(id, t)'
    <3>1. CASE id # NewId
      <4>1. rows'[id] = rows[id] /\ written'[id] = written[id]
        BY <2>2, <2>5, <2>6, <3>1
      <4>2. \A t \in Table : sub'[t][id] = sub[t][id]
        BY <2>2, <2>5, <2>6, <3>1
      <4> QED
        BY <2>6, <4>1, <4>2
    <3>2. CASE id = NewId
      <4>1. written'[id] = Written(obj[k], fault)
        BY <2>5, <2>6, <3>2
      <4>2. \A t \in Table : sub'[t][id] = put(t, <<>>)
        BY <2>2, <2>3, <2>5, <2>6, <3>2
      <4>3. ASSUME NEW t \in Table \ written'[id].but
            PROVE  sub'[t][id] = TableOf(t, written'[id], freed)
        BY <2>4, <4>1, <4>2, <4>3
      <4> QED
        BY <4>3 DEF Carried, TableOf
    <3> QED
      BY <3>1, <3>2
  <2> QED
    BY <2>6, CarriedSuffices
<1> QED
  BY <1>1, <1>2

LEMMA CarriedUpdate ==
  ASSUME IInv, TablesAreWritten, DOMAIN written = RowId, NEW k \in Key, NEW freed \in BOOLEAN,
         NEW fault, SaveUpdate(k, freed, fault)
  PROVE  TablesAreWritten'
<1>1. CASE FoundRows(k) = {} \/ fault.at = "row"
  BY <1>1, CarriedSuffices DEF SaveUpdate, tables
<1>2. CASE ~(FoundRows(k) = {} \/ fault.at = "row")
  <2>1. PICK id \in FoundRows(k) :
          /\ rows' = [rows EXCEPT ![id].row = ComponentRow(obj[k], zone)]
          /\ sub' = [t \in Table |-> [sub[t] EXCEPT ![id] = Replaced(@, t, obj[k], freed, fault)]]
          /\ written' = [written EXCEPT ![id] = Written(obj[k], fault)]
    BY <1>2 DEF SaveUpdate
  <2>2. id \in RowId /\ id \in RowId \cup {Null}
    BY <2>1 DEF FoundRows, WithIdentity
  <2>3. DOMAIN rows = RowId /\ \A t \in Table : DOMAIN sub[t] = RowId \cup {Null}
    BY DEF IInv, Columns
  <2>4. written'[id] = Written(obj[k], fault)
    BY <2>1, <2>2
  <2>5. ASSUME NEW t \in Table \ Written(obj[k], fault).but
        PROVE  sub'[t][id] = TableOf(t, Written(obj[k], fault), freed)
    <3>1. ~Hits(fault, t, "insert") /\ ~Hits(fault, t, "delete")
      BY NoHit
    <3>2. Inserted(t, Rows(t, obj[k], zone, freed), fault) = Rows(t, obj[k], zone, freed)
      BY <3>1 DEF Inserted
    <3>3. Written(obj[k], fault).zone = zone /\ Written(obj[k], fault).value = obj[k]
      BY DEF Written
    <3>4. sub'[t][id] = Replaced(sub[t][id], t, obj[k], freed, fault)
      BY <2>1, <2>2, <2>3
    <3> QED
      BY <3>1, <3>2, <3>3, <3>4 DEF TableOf, Replaced
  <2>6. \A t \in Table \ written'[id].but : Carried(id, t)'
    BY <2>4, <2>5 DEF Carried, TableOf
  <2>7. ASSUME NEW other \in RowId, other # id
        PROVE  /\ rows'[other] = rows[other] /\ written'[other] = written[other]
               /\ \A t \in Table : sub'[t][other] = sub[t][other]
    BY <2>1, <2>2, <2>3, <2>7
  <2> QED
    BY <2>6, <2>7, CarriedSuffices
<1> QED
  BY <1>1, <1>2

LEMMA CarriedMark ==
  ASSUME IInv, IdentityInv, WrittenInv, ListsInv, TablesAreWritten, NEW k \in Key,
         NEW freed \in BOOLEAN, NEW fault \in Fault, SaveMark(k, freed, fault)
  PROVE  TablesAreWritten'
<1>1. CASE FoundRows(k) = {} \/ fault.at = "row"
  BY <1>1, CarriedSuffices DEF SaveMark, tables
<1>2. CASE ~(FoundRows(k) = {} \/ fault.at = "row")
  <2>1. PICK id \in FoundRows(k) :
          /\ rows' = [rows EXCEPT ![id].deleted = TRUE]
          /\ sub' = [t \in Table |-> Marked(t, id, obj[k], freed, fault)]
          /\ written' = written
    BY <1>2 DEF SaveMark
  <2>2. id \in RowId /\ rows[id] # NoRow /\ ~rows[id].deleted /\ SoundRow(id)
    BY <2>1 DEF FoundRows, WithIdentity, IdentityInv, RowsSound
  <2>3. DOMAIN rows = RowId /\ \A t \in Table : DOMAIN sub[t] = RowId \cup {Null}
    BY DEF IInv, Columns
  <2>4. rows'[id].deleted /\ \A other \in RowId \ {id} : rows'[other] = rows[other]
    BY <2>1, <2>2, <2>3 DEF SoundRow
  <2>5. \A other \in RowId : other # Null
    BY DEF RowId, Null
  <2>6. ASSUME NEW t \in Table
        PROVE  /\ \A other \in RowId \ {id} : sub'[t][other] = sub[t][other]
               /\ \/ sub'[t][id] = sub[t][id]
                  \/ t = "Attachments" /\ \E more : IsSeq(more) /\ sub'[t][id] = sub[t][id] \o more
    <3> DEFINE new == Inserted(t, Rows(t, obj[k], zone, freed), fault)
               unbound == Map(new, LAMBDA r : "unbound")
    <3>1. sub'[t] = IF ~leftover THEN sub[t]
                    ELSE IF t = "Attachments" THEN [sub[t] EXCEPT ![id] = @ \o new]
                    ELSE [sub[t] EXCEPT ![Null] = @ \o unbound]
      BY <2>1 DEF Marked
    <3>a. IsSeq(new)
      <4>1. zone \in Known /\ obj[k].allDay \in BOOLEAN /\ ListsOf(obj[k])
        BY DEF SaveMark, WrittenInv, MemoryTimed, IdentityInv, MemorySound, Sound, TimesOf,
               ListsInv, MemoryListed
      <4>2. Made(t, new)
        BY <4>1, RowsMade, InsertedMade
      <4> QED
        BY <4>2 DEF Made
    <3> HIDE DEF new, unbound
    <3>2. CASE ~leftover
      BY <3>1, <3>2
    <3>3. CASE leftover /\ t = "Attachments"
      BY <2>2, <2>3, <3>1, <3>3, <3>a
    <3>4. CASE leftover /\ t # "Attachments"
      BY <2>2, <2>3, <2>5, <3>1, <3>4
    <3> QED
      BY <3>2, <3>3, <3>4
  <2>7. ASSUME NEW t \in Table \ written[id].but
        PROVE  Carried(id, t)'
    <3>1. PICK f \in BOOLEAN : sub[t][id] = TableOf(t, written[id], f)
      BY <2>2 DEF TablesAreWritten, Carried
    <3>2. TableOf(t, written[id], f)' = TableOf(t, written[id], f)
      BY <2>1 DEF TableOf
    <3>3. \/ sub'[t][id] = TableOf(t, written[id], f)
          \/ /\ t = "Attachments"
             /\ \E more : IsSeq(more) /\ sub'[t][id] = TableOf(t, written[id], f) \o more
      BY <2>6, <3>1
    <3> QED
      BY <2>1, <2>4, <3>2, <3>3 DEF Carried
  <2>8. \A other \in RowId \ {id} :
          /\ rows'[other] = rows[other] /\ written'[other] = written[other]
          /\ \A t \in Table : sub'[t][other] = sub[t][other]
    BY <2>1, <2>4, <2>6
  <2> QED
    BY <2>1, <2>7, <2>8, CarriedSuffices
<1> QED
  BY <1>1, <1>2

LEMMA CarriedStep ==
  IInv /\ IdentityInv /\ WrittenInv /\ ListsInv /\ TablesAreWritten /\ [Next]_vars
    => TablesAreWritten'
<1> SUFFICES ASSUME IInv, IdentityInv, WrittenInv, ListsInv, TablesAreWritten, [Next]_vars
             PROVE  TablesAreWritten'
  OBVIOUS
<1>1. DOMAIN written = RowId
  BY DEF WrittenInv, RowsAsWritten
<1>2. ASSUME UNCHANGED <<rows, sub, written>> PROVE TablesAreWritten'
  BY <1>2, CarriedSuffices
<1>3. ASSUME NEW k \in Key, NEW i, Add(k, i) \/ Edit(k, i) PROVE TablesAreWritten'
  BY <1>2, <1>3 DEF Add, Edit, tables, history
<1>4. ASSUME NEW k \in Key, Delete(k) PROVE TablesAreWritten'
  BY <1>2, <1>4 DEF Delete, tables, history
<1>5. ASSUME NEW z, Reload(z) PROVE TablesAreWritten'
  BY <1>2, <1>5 DEF Reload, tables, history
<1>6. ASSUME NEW action, SaveBegin(action) PROVE TablesAreWritten'
  BY <1>2, <1>6 DEF SaveBegin, tables, history
<1>7. CASE NextPhase
  BY <1>2, <1>7 DEF NextPhase, tables, history
<1>8. ASSUME NEW k \in Key, NEW freed \in BOOLEAN, NEW fault \in Fault,
             \/ \E purge \in BOOLEAN : SaveInsert(k, freed, fault, purge)
             \/ SaveUpdate(k, freed, fault)
             \/ SaveMark(k, freed, fault)
      PROVE  TablesAreWritten'
  BY <1>1, <1>8, CarriedInsert, CarriedUpdate, CarriedMark
<1>9. ASSUME NEW k \in Key, NEW fault, SaveDelete(k, fault) PROVE TablesAreWritten'
  <2>1. CASE UNCHANGED <<rows, sub, written>>
    BY <1>2, <2>1
  <2>2. CASE ~UNCHANGED <<rows, sub, written>>
    <3>1. PICK id \in FoundRows(k) :
            /\ rows' = Purged(rows, {id}, NoRow) /\ written' = Purged(written, {id}, NotWritten)
            /\ sub' = SubPurged(sub, {id}, fault)
      BY <1>9, <2>2 DEF SaveDelete, tables
    <3> QED
      BY <3>1, CarriedErase
  <2> QED
    BY <2>1, <2>2
<1>10. ASSUME NEW D, NEW gone, NEW fault, Purge(D, gone, fault) PROVE TablesAreWritten'
  BY <1>10, CarriedErase DEF Purge
<1>11. CASE UNCHANGED vars
  BY <1>2, <1>11 DEF vars, tables, history
<1> QED
  BY <1>3, <1>4, <1>5, <1>6, <1>7, <1>8, <1>9, <1>10, <1>11 DEF Next

\* A statement that fails costs its own table and no other, and what is done to
\* other incidences, purges and statements left over from an earlier list cost
\* none: each table holds under an id the rows of what was last written there,
\* on which the second half of LoadedIsWritten rests.  (modifyComponents, DBUpdate,
\* DBMarkDeleted)
THEOREM TablesKept == Spec => []TablesAreWritten
<1>1. Init => TablesAreWritten
  BY DEF Init, TablesAreWritten
<1> QED
  BY <1>1, CarriedStep, IdsFresh, IdentityInvHolds, WrittenInvHolds, ListsInvHolds, PTL DEF Spec

-----------------------------------------------------------------------------
(***************************************************************************)
(* What was written comes back, and comes back again.                      *)
(***************************************************************************)

\* The rows of a table are as many as there are.
LEMMA WholeTable ==
  ASSUME NEW w, ListsOf(w.value), w.value.allDay \in BOOLEAN, w.zone \in Known,
         NEW t \in Table, NEW freed \in BOOLEAN
  PROVE  TableOf(t, w, freed) = Rows(t, w.value, w.zone, freed)
BY RowsMade, AcceptedMade DEF TableOf

\* What is cut off are attachments.
LEMMA FirstAre ==
  ASSUME NEW row, NEW others, NEW v
  PROVE  LET j == ReadComponent(row, others)
             f == FirstAttachments(j, v)
             l == Len(WithContent(v))
         IN  /\ f.attachments = IF Len(j.attachments) <= l THEN j.attachments
                                ELSE SubSeq(j.attachments, 1, l)
             /\ f.kind = j.kind /\ f.summary = j.summary /\ f.allDay = j.allDay
             /\ f.start = j.start /\ f.end = j.end /\ f.recurrenceId = j.recurrenceId
             /\ f.comments = j.comments /\ f.properties = j.properties
             /\ f.organizer = j.organizer /\ f.attendees = j.attendees
             /\ f.alarms = j.alarms /\ f.rules = j.rules /\ f.rdates = j.rdates
<1> DEFINE j == ReadComponent(row, others)
           l == Len(WithContent(v))
           f == FirstAttachments(j, v)
           cut == SubSeq(j.attachments, 1, l)
           g == [j EXCEPT !.attachments = cut]
<1>1. f = IF Len(j.attachments) <= l THEN j ELSE g
  BY DEF FirstAttachments
<1>2. DOMAIN j = {"kind", "allDay", "start", "end", "recurrenceId", "summary", "comments",
                  "properties", "organizer", "attendees", "alarms", "rules", "rdates", "attachments"}
  BY DEF ReadComponent
<1> HIDE DEF j, l, cut, f
<1>3. /\ g.attachments = cut
      /\ g.kind = j.kind /\ g.summary = j.summary /\ g.allDay = j.allDay
      /\ g.start = j.start /\ g.end = j.end /\ g.recurrenceId = j.recurrenceId
      /\ g.comments = j.comments /\ g.properties = j.properties
      /\ g.organizer = j.organizer /\ g.attendees = j.attendees
      /\ g.alarms = j.alarms /\ g.rules = j.rules /\ g.rdates = j.rdates
  BY <1>2
<1> HIDE DEF g
<1>4. CASE Len(j.attachments) <= l
  BY <1>1, <1>4 DEF f, j, l
<1>5. CASE ~(Len(j.attachments) <= l)
  BY <1>1, <1>3, <1>5 DEF f, j, l, cut
<1> QED
  BY <1>4, <1>5

\* Without what was added behind them, the attachments are those of the rows.
LEMMA FirstCut ==
  ASSUME NEW s, IsSeq(s), NEW more, IsSeq(more)
  PROVE  LET a == s \o more
         IN  (IF Len(a) <= Len(s) THEN a ELSE SubSeq(a, 1, Len(s))) = s
<1> DEFINE a == s \o more
           l == Len(s)
           b == SubSeq(a, 1, l)
<1>1. /\ IsSeq(a) /\ Len(a) = l + Len(more)
      /\ \A n \in 1 .. l + Len(more) : a[n] = IF n <= l THEN s[n] ELSE more[n - l]
  BY Joined
<1>2. l \in Nat /\ Len(more) \in Nat
  BY IsSeqLength
<1>3. \A n \in 1 .. l : a[n] = s[n] /\ a[n] \in ToSet(a)
  <2>1. \A n \in 1 .. l : n \in 1 .. l + Len(more) /\ n <= l
    BY <1>2
  <2>2. \A n \in 1 .. Len(a) : a[n] \in ToSet(a)
    BY <1>1, IsSeqLength
  <2> HIDE DEF a, l
  <2> QED
    BY <1>1, <2>1, <2>2
<1> HIDE DEF a, l
<1>4. CASE Len(a) <= l
  <2>1. Len(a) = l
    BY <1>1, <1>2, <1>4
  <2> QED
    BY <1>1, <1>3, <1>4, <2>1, SameSeq DEF a, l
<1>5. CASE ~(Len(a) <= l)
  <2>1. /\ b \in Seq(ToSet(a)) /\ Len(b) = IF 1 <= l THEN l - 1 + 1 ELSE 0
        /\ \A i \in 1 .. l - 1 + 1 : b[i] = a[1 + i - 1]
    <3>1. a \in Seq(ToSet(a)) /\ 1 \in Int /\ l \in Int
      BY <1>1, <1>2 DEF IsSeq
    <3>2. \A i \in 1 .. l : a[i] \in ToSet(a)
      BY <1>3
    <3> QED
      BY <3>1, <3>2, SubSeqProperties
  <2> HIDE DEF b
  <2>2. IsSeq(b) /\ Len(b) = l
    BY <1>2, <2>1, IsSeqOf
  <2>3. \A n \in 1 .. l : b[n] = s[n]
    BY <1>2, <1>3, <2>1
  <2>4. b = s
    BY <2>2, <2>3, SameSeq DEF l
  <2> QED
    BY <1>5, <2>4 DEF a, b, l
<1> QED
  BY <1>4, <1>5 DEF a, l

\* What is done to the attachments does not show in the other tables.
LEMMA OtherTables ==
  ASSUME NEW i, NEW j, NEW w, NEW z, NEW t \in Table \ {"Attachments"}, SameIn(t, j, w, z),
         i.properties = j.properties, i.organizer = j.organizer, i.attendees = j.attendees,
         i.alarms = j.alarms, i.rules = j.rules, i.rdates = j.rdates
  PROVE  SameIn(t, i, w, z)
<1>1. CASE t = "Customproperties"
  BY <1>1 DEF SameIn
<1>2. CASE t = "Attendee"
  BY <1>2 DEF SameIn, Invited
<1>3. CASE t = "Alarm"
  BY <1>3 DEF SameIn
<1>4. CASE t = "Recursive"
  BY <1>4 DEF SameIn
<1>5. CASE t = "Rdates"
  BY <1>5 DEF SameIn
<1> QED
  BY <1>1, <1>2, <1>3, <1>4, <1>5 DEF Table

\* Whatever has failed and whatever was left over, a row and the tables whose
\* statements did not fail load as the incidence that was last written there.
\* (save, modifyComponents, selectComponents)
THEOREM WrittenComesBack == Spec => []LoadedIsWritten
<1>1. WrittenInv /\ ListsInv /\ TablesAreWritten => LoadedIsWritten
  <2> SUFFICES ASSUME WrittenInv, ListsInv, TablesAreWritten, NEW id \in RowId, rows[id] # NoRow
               PROVE  LET w == written[id]
                          i == IF Live(id) THEN Loaded(id) ELSE FirstAttachments(Loaded(id), w.value)
                      IN  /\ Same(i, w.value, w.zone)
                          /\ \A t \in Table \ w.but : SameIn(t, i, w.value, w.zone)
    BY DEF LoadedIsWritten
  <2> DEFINE w == written[id]
             v == w.value
             z == w.zone
             others == [t \in Table |-> sub[t][id]]
             j == Loaded(id)
             i == IF Live(id) THEN j ELSE FirstAttachments(j, v)
             l == Len(WithContent(v))
  <2>1. z \in Known /\ Sound(v) /\ rows[id].row = ComponentRow(v, z)
    BY DEF WrittenInv, RowsAsWritten, AsWritten
  <2>2. ListsOf(v) /\ v.allDay \in BOOLEAN
    BY <2>1 DEF ListsInv, WrittenListed, Sound, TimesOf
  <2>3. j = ReadComponent(rows[id].row, others)
    BY DEF Loaded
  <2>4. SameRow(j, v, z)
    BY <2>1, <2>3, RowReturns
  <2>5. FlattenSeq(j.comments) = FlattenSeq(v.comments)
    BY LoadedListed
  <2>6. /\ i.attachments = IF Live(id) \/ Len(j.attachments) <= l THEN j.attachments
                           ELSE SubSeq(j.attachments, 1, l)
        /\ i.kind = j.kind /\ i.summary = j.summary /\ i.allDay = j.allDay
        /\ i.start = j.start /\ i.end = j.end /\ i.recurrenceId = j.recurrenceId
        /\ i.comments = j.comments /\ i.properties = j.properties
        /\ i.organizer = j.organizer /\ i.attendees = j.attendees
        /\ i.alarms = j.alarms /\ i.rules = j.rules /\ i.rdates = j.rdates
    <3> HIDE DEF j, others, v
    <3> QED
      BY <2>3, FirstAre
  <2>7. \A t \in Table : others[t] = sub[t][id] /\ Made(t, others[t])
    BY DEF ListsInv, TablesMade
  <2>8. j.attachments = sub["Attachments"][id]
    <3>1. "Attachments" \in Table
      BY DEF Table
    <3> DEFINE s == others["Attachments"]
    <3>2. j.attachments = Kept(s, {a \in ToSet(s) : a.value # Empty})
      <4> HIDE DEF j, others
      <4> QED
        BY <2>3 DEF ReadComponent
    <3>3. Made("Attachments", s) /\ s = sub["Attachments"][id]
      BY <2>7, <3>1
    <3> HIDE DEF s, j
    <3> QED
      BY <3>2, <3>3, AttachmentsRead
  <2>9. ASSUME NEW t \in Table \ w.but
        PROVE  \E freed \in BOOLEAN :
                 \/ sub[t][id] = Rows(t, v, z, freed)
                 \/ /\ t = "Attachments" /\ ~Live(id)
                    /\ \E more : IsSeq(more) /\ sub[t][id] = Rows(t, v, z, freed) \o more
    <3>1. PICK freed \in BOOLEAN :
            \/ sub[t][id] = TableOf(t, w, freed)
            \/ /\ t = "Attachments" /\ rows[id].deleted
               /\ \E more : IsSeq(more) /\ sub[t][id] = TableOf(t, w, freed) \o more
      BY DEF TablesAreWritten, Carried
    <3>2. TableOf(t, w, freed) = Rows(t, v, z, freed)
      BY <2>1, <2>2, WholeTable
    <3> QED
      BY <3>1, <3>2 DEF Live
  <2> HIDE DEF i, j, others, v, z, w, l
  <2>10. Same(i, v, z)
    BY <2>4, <2>5, <2>6 DEF Same, SameRow, SameTimes, LastDate
  <2>11. ASSUME NEW t \in Table \ w.but PROVE SameIn(t, i, v, z)
    <3>1. PICK freed \in BOOLEAN :
            \/ sub[t][id] = Rows(t, v, z, freed)
            \/ /\ t = "Attachments" /\ ~Live(id)
               /\ \E more : IsSeq(more) /\ sub[t][id] = Rows(t, v, z, freed) \o more
      BY <2>9
    <3>2. CASE t # "Attachments"
      <4>1. others[t] = Rows(t, v, z, freed)
        BY <2>7, <3>1, <3>2
      <4>2. SameIn(t, j, v, z)
        BY <2>1, <2>2, <2>3, <4>1, TableReturns
      <4>3. t \in Table \ {"Attachments"}
        BY <3>2
      <4> QED
        BY <2>6, <4>2, <4>3, OtherTables
    <3>3. CASE t = "Attachments"
      <4> DEFINE s == AttachmentRows(v, freed)
      <4>1. Rows(t, v, z, freed) = s
        BY <3>3 DEF Rows
      <4>2. IsSeq(s) /\ Len(s) = l
        BY <2>2, AttachmentRowsAre DEF l
      <4>3. Len(s) \in Nat
        BY <4>2, IsSeqLength
      <4> HIDE DEF s
      <4>4. i.attachments = s
        <5>1. CASE j.attachments = s
          BY <2>6, <4>2, <4>3, <5>1
        <5>2. CASE ~Live(id) /\ \E more : IsSeq(more) /\ j.attachments = s \o more
          <6>1. PICK more : IsSeq(more) /\ j.attachments = s \o more
            BY <5>2
          <6>2. (IF Len(s \o more) <= Len(s) THEN s \o more ELSE SubSeq(s \o more, 1, Len(s))) = s
            BY <4>2, <6>1, FirstCut
          <6>3. i.attachments = IF Len(s \o more) <= Len(s) THEN s \o more
                                ELSE SubSeq(s \o more, 1, Len(s))
            BY <2>6, <4>2, <5>2, <6>1
          <6> QED
            BY <6>2, <6>3
        <5> QED
          BY <2>8, <3>1, <3>3, <4>1, <5>1, <5>2
      <4>5. SameIn("Attachments", i, v, z)
        BY <2>2, <4>4, AttachmentsBack DEF s
      <4> QED
        BY <3>3, <4>5
    <3> QED
      BY <3>2, <3>3
  <2> QED
    BY <2>10, <2>11 DEF i, j, v, z, w
<1> QED
  BY <1>1, TablesKept, WrittenInvHolds, ListsInvHolds, PTL

\* The end that was read is read again, but for one that was in a zone the
\* device does not know.
LEMMA EndStays ==
  ASSUME NEW w, Sound(w), NEW y \in Known, NEW i, SameRow(i, w, y), Sound(i),
         i.end = EndRead(w, y), NEW z \in Known, i.allDay \/ i.end.spec # "local"
  PROVE  EndRead(i, z) = i.end
<1>1. /\ w.allDay \in BOOLEAN /\ w.start \in SomeTime /\ w.end \in SomeTime
      /\ i.allDay \in BOOLEAN /\ i.end \in SomeTime /\ i.allDay = w.allDay
  BY DEF Sound, TimesOf, SameRow, SameTimes
<1>2. CASE i.allDay
  <2>1. w.start # NoTime
    BY <1>1, <1>2 DEF Sound, TimesOf
  <2>2. i.start = Local(DateOf(w.start.wall))
    BY <1>1, <1>2, <2>1 DEF SameRow, SameTimes, SameDate
  <2>3. i.start.wall = DateOf(w.start.wall) /\ w.start.wall \in Int
    BY <1>1, <2>1, <2>2, LocalDate
  <2>4. CASE i.end = NoTime
    BY <1>2, <2>4 DEF EndRead
  <2>5. CASE i.end # NoTime
    <3>1. /\ i.end = Local(DateOf(w.end.wall)) /\ w.end # NoTime
          /\ DateOf(w.end.wall) # DateOf(w.start.wall)
      BY <1>1, <1>2, <2>5 DEF EndRead
    <3>2. i.end.wall = DateOf(w.end.wall) /\ w.end.wall \in Int
      BY <1>1, <3>1, LocalDate
    <3>3. DateOf(i.end.wall) = DateOf(w.end.wall) /\ DateOf(i.start.wall) = DateOf(w.start.wall)
      BY <2>3, <3>2, DateOfDate
    <3> QED
      BY <1>2, <2>5, <3>1, <3>3 DEF EndRead
  <2> QED
    BY <2>4, <2>5
<1>3. CASE ~i.allDay
  <2>1. SameTime(i.end, w.end, y)
    BY <1>1, <1>3 DEF SameRow, SameTimes
  <2>2. i.end = NoTime \/ i.end.spec \in Known
    BY <1>3, <2>1 DEF SameTime, Local
  <2>3. EndRead(i, z) = GetDateTime(SetDateTime(i.end, i.allDay, z))
    BY <1>3 DEF EndRead
  <2>4. CASE i.end = NoTime
    BY <1>1, <2>3, <2>4, Stored
  <2>5. CASE i.end.spec \in Known
    BY <1>1, <1>3, <2>3, <2>5, Stored
  <2> QED
    BY <2>2, <2>4, <2>5
<1> QED
  BY <1>2, <1>3

\* What was loaded and is saved again unchanged, from any zone, loads as the
\* same, in all its tables.  (modifyComponents, selectComponents)
THEOREM RoundTrips == Spec => []RoundTripStable
<1>1. WrittenInv /\ ListsInv => RoundTripStable
  <2> SUFFICES ASSUME WrittenInv, ListsInv, NEW id \in RowId, Live(id), NEW z \in Known
               PROVE  LET i == Loaded(id)
                          again == ReadComponent(ComponentRow(i, z),
                                     [t \in Table |-> Accepted(t, <<>>, Rows(t, i, z, FALSE))])
                      IN  /\ Same(again, i, z)
                          /\ i.allDay \/ i.end.spec # "local" => again.end = i.end
                          /\ \A t \in Table : SameIn(t, again, i, z)
    BY DEF RoundTripStable
  <2> DEFINE i == Loaded(id)
             w == written[id].value
             y == written[id].zone
             no == FALSE
             others == [t \in Table |-> Accepted(t, <<>>, Rows(t, i, z, no))]
             row == ComponentRow(i, z)
             again == ReadComponent(row, others)
  <2>1. rows[id] # NoRow
    BY DEF Live
  <2>2. y \in Known /\ Sound(w) /\ rows[id].row = ComponentRow(w, y)
    BY <2>1 DEF WrittenInv, RowsAsWritten, AsWritten
  <2>3. Sound(i) /\ SameRow(i, w, y) /\ i.end = EndRead(w, y)
    BY <2>2, RowReturns DEF Loaded
  <2>4. ListsOf(i) /\ i.allDay \in BOOLEAN
    BY <2>1, <2>3, LoadedListed DEF Sound, TimesOf
  <2>5. row.comments = FlattenSeq(i.comments)
    BY DEF ComponentRow
  <2>6. no \in BOOLEAN
    OBVIOUS
  <2> HIDE DEF i, w, y, no
  <2>7. Sound(again) /\ SameRow(again, i, z) /\ again.end = EndRead(i, z)
    BY <2>3, RowReturns
  <2>8. IsSeq(row.comments)
    <3>1. IsSeq(i.comments) /\ \A n \in DOMAIN i.comments : IsSeq(i.comments[n])
      BY <2>4 DEF ListsOf
    <3> HIDE DEF row
    <3> QED
      BY <2>5, <3>1, FlattenIsSeq
  <2>9. \A t \in Table : others[t] = Rows(t, i, z, no) /\ Made(t, others[t])
    BY <2>4, <2>6, RowsMade, AcceptedMade
  <2> HIDE DEF others, row, again
  <2>10. FlattenSeq(again.comments) = FlattenSeq(i.comments)
    BY <2>5, <2>8, <2>9, ListsReturn DEF again
  <2>11. \A t \in Table : SameIn(t, again, i, z)
    BY <2>4, <2>6, <2>9, TableReturns DEF again
  <2>12. i.allDay \/ i.end.spec # "local" => again.end = i.end
    BY <2>2, <2>3, <2>7, EndStays
  <2>13. Same(again, i, z)
    BY <2>7, <2>10 DEF Same
  <2> QED
    BY Zenon, <2>11, <2>12, <2>13 DEF again, others, row, no, i
<1> QED
  BY <1>1, WrittenInvHolds, ListsInvHolds, PTL

=============================================================================
