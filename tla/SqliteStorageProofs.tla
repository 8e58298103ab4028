------------------------ MODULE SqliteStorageProofs ------------------------
(***************************************************************************)
(* Proofs about SqliteStorage for any number of processes, keys, objects   *)
(* and contents: the type; and that the table never holds an incidence     *)
(* twice, provided purging works.                                          *)
(***************************************************************************)
EXTENDS SqliteStorage, TLAPS

LEMMA BlankType ==
  Blank \in [Obj -> Content]
BY CopiesAssumption DEF Blank

LEMMA RowType ==
  ASSUME TypeOK, NEW p \in Proc, NEW o \in Obj
  PROVE  RowOf(p, o) \in Row
<1> DEFINE f == o.key.uid \in filed[p]
<1>1. o.key \in Key
  BY DEF Obj
<1>2. content[p][o] \in Content
  BY DEF TypeOK
<1>3. f \in BOOLEAN
  OBVIOUS
<1>4. RowOf(p, o) = [key |-> o.key, content |-> content[p][o], filed |-> f]
  BY DEF RowOf
<1> HIDE DEF f
<1> QED
  BY <1>1, <1>2, <1>3, <1>4 DEF Row

\* The type of the variables of save(), and that a loop runs over a list.
SavingOK ==
  /\ pc \in [Proc -> Point]
  /\ looping \in [Proc -> BOOLEAN]
  /\ work \in [Proc -> SUBSET Obj]
  /\ deleteAction \in [Proc -> Action]
  /\ errors \in [Proc -> BOOLEAN]
  /\ isSaved \in [Proc -> BOOLEAN]
  /\ \A p \in Proc : looping[p] => pc[p] \in Phase

\* The type of what the steps of the loop leave alone.
RestOK ==
  /\ cal \in [Proc -> SUBSET Obj]
  /\ content \in [Proc -> [Obj -> Content]]
  /\ filed \in [Proc -> SUBSET Uid]
  /\ pend \in [Proc -> [Phase -> SUBSET Obj]]
  /\ event \in [Proc -> BOOLEAN]
  /\ asked \in [Proc -> Asked]
  /\ failed \in [Proc -> BOOLEAN]

\* The moves of save() keep the type of its local variables.
LEMMA SavingType ==
  ASSUME TypeOK, SavingOK, NEW p \in Proc
  PROVE  /\ \A ok, committed \in BOOLEAN :
              pc[p] \in Phase /\ NextList(p, ok, committed) => SavingOK'
         /\ \A o \in Obj, ok \in BOOLEAN : RowDone(p, o, ok) => SavingOK'
         /\ pc[p] \in Phase /\ EnterLoop(p) => SavingOK'
         /\ NoSave(p) => SavingOK'
         /\ UNCHANGED saving => SavingOK'
<1> USE DEF TypeOK, SavingOK
<1>1. ASSUME NEW ok \in BOOLEAN, NEW committed \in BOOLEAN,
             pc[p] \in Phase, NextList(p, ok, committed)
      PROVE  SavingOK'
  <2>1. After[pc[p]] \in Point
    BY <1>1 DEF After, Phase, Point
  <2> QED
    BY <1>1, <2>1 DEF NextList
<1>2. ASSUME NEW o \in Obj, NEW ok \in BOOLEAN, RowDone(p, o, ok)
      PROVE  SavingOK'
  BY <1>2 DEF RowDone
<1>3. ASSUME pc[p] \in Phase, EnterLoop(p) PROVE SavingOK'
  BY <1>3 DEF EnterLoop
<1>4. ASSUME NoSave(p) PROVE SavingOK'
  BY <1>4 DEF NoSave, Point, Action, Phase
<1>5. ASSUME UNCHANGED saving PROVE SavingOK'
  BY <1>5 DEF saving
<1> QED
  BY <1>1, <1>2, <1>3, <1>4, <1>5

\* Type preservation, group by group.
LEMMA CalendarType ==
  ASSUME TypeOK, SavingOK, NEW p \in Proc, NEW o \in Obj, NEW c \in Content,
         Add(p, o, c) \/ Replace(p, o, c) \/ Edit(p, o, c) \/ Delete(p, o)
  PROVE  TypeOK' /\ SavingOK'
<1>1. pend[p] \in [Phase -> SUBSET Obj]
  BY DEF TypeOK
<1>2. ASSUME NEW lists \in [Phase -> SUBSET Obj], NEW x \in Obj
      PROVE  /\ Added(lists, x) \in [Phase -> SUBSET Obj]
             /\ Changed(lists, x) \in [Phase -> SUBSET Obj]
             /\ Deleted(lists, x) \in [Phase -> SUBSET Obj]
  BY DEF Added, Changed, Deleted
<1>3. pend' \in [Proc -> [Phase -> SUBSET Obj]]
  <2>1. CASE Replace(p, o, c)
    <3>1. PICK old \in OfKey(cal[p], o.key) :
            pend' = [pend EXCEPT ![p] = Added(Deleted(@, old), o)]
      BY <2>1 DEF Replace
    <3>2. old \in Obj
      BY DEF OfKey, TypeOK
    <3>3. Added(Deleted(pend[p], old), o) \in [Phase -> SUBSET Obj]
      BY <1>1, <1>2, <3>2
    <3> QED
      BY <3>1, <3>3 DEF TypeOK
  <2>2. CASE Add(p, o, c)
    BY <1>1, <1>2, <2>2 DEF Add, TypeOK
  <2>3. CASE Edit(p, o, c)
    BY <1>1, <1>2, <2>3 DEF Edit, TypeOK
  <2>4. CASE Delete(p, o)
    BY <1>1, <1>2, <2>4 DEF Delete, TypeOK
  <2> QED
    BY <2>1, <2>2, <2>3, <2>4
<1>4. /\ cal' \in [Proc -> SUBSET Obj]
      /\ content' \in [Proc -> [Obj -> Content]]
      /\ filed' \in [Proc -> SUBSET Uid]
  <2>1. o.key.uid \in Uid
    BY DEF Obj, Uid
  <2>2. cal' \in [Proc -> SUBSET Obj]
    <3>1. \E S \in SUBSET Obj : cal' = [cal EXCEPT ![p] = S]
      <4>1. CASE Replace(p, o, c)
        <5>1. PICK old : cal' = [cal EXCEPT ![p] = (cal[p] \ {old}) \cup {o}]
          BY <4>1 DEF Replace
        <5>2. (cal[p] \ {old}) \cup {o} \in SUBSET Obj
          BY DEF TypeOK
        <5> QED
          BY <5>1, <5>2
      <4>2. CASE Add(p, o, c)
        BY <4>2 DEF Add, TypeOK
      <4>3. CASE Edit(p, o, c)
        <5>1. cal' = [cal EXCEPT ![p] = cal[p]] /\ cal[p] \in SUBSET Obj
          BY <4>3 DEF Edit, TypeOK
        <5> QED
          BY <5>1
      <4>4. CASE Delete(p, o)
        <5>1. cal' = [cal EXCEPT ![p] = cal[p] \ {o}] /\ cal[p] \ {o} \in SUBSET Obj
          BY <4>4 DEF Delete, TypeOK
        <5> QED
          BY <5>1
      <4> QED
        BY <4>1, <4>2, <4>3, <4>4
    <3> QED
      BY <3>1 DEF TypeOK
  <2>3. content' \in [Proc -> [Obj -> Content]]
    <3>1. content' = content \/ content' = [content EXCEPT ![p] = [content[p] EXCEPT ![o] = c]]
      BY DEF Add, Replace, Edit, Delete, TypeOK
    <3>2. [content[p] EXCEPT ![o] = c] \in [Obj -> Content]
      BY DEF TypeOK
    <3> QED
      BY <3>1, <3>2 DEF TypeOK
  <2>4. filed' \in [Proc -> SUBSET Uid]
    <3>1. filed' = filed \/ filed' = [filed EXCEPT ![p] = filed[p] \cup {o.key.uid}]
      BY DEF Add, Replace, Edit, Delete
    <3> DEFINE S == filed[p] \cup {o.key.uid}
    <3>2. S \in SUBSET Uid
      BY <2>1 DEF TypeOK
    <3> HIDE DEF S
    <3>3. filed' = filed \/ filed' = [filed EXCEPT ![p] = S]
      BY <3>1 DEF S
    <3> QED
      BY <3>2, <3>3 DEF TypeOK
  <2> QED
    BY <2>2, <2>3, <2>4
<1>5. UNCHANGED <<inside, table, saving, event, history>>
  BY DEF Add, Replace, Edit, Delete
<1> QED
  BY <1>3, <1>4, <1>5 DEF TypeOK, SavingOK, table, saving, history

LEMMA LoadType ==
  ASSUME TypeOK, SavingOK, NEW p \in Proc, NEW K \in SUBSET Key, NEW skip \in SUBSET Key,
         Load(p, K, skip)
  PROVE  TypeOK' /\ SavingOK'
<1> DEFINE got == {r \in View(p).live :
                     /\ r.key \in K \ skip
                     /\ ~IsPending(p, r.key)
                     /\ r.filed
                     /\ Newer(p, r)}
<1>1. got \subseteq Row
  BY DEF View, TypeOK, Table
<1>2. Keys(got) \subseteq Key
  BY <1>1 DEF Keys, Row
<1>3. cal' \in [Proc -> SUBSET Obj]
  <2>1. {[key |-> k, copy |-> FirstCopy] : k \in Keys(got)} \subseteq Obj
    <3>1. \A k \in Key : [key |-> k, copy |-> FirstCopy] \in Obj
      BY CopiesAssumption DEF Obj
    <3> HIDE DEF got
    <3> QED
      BY <1>2, <3>1
  <2>2. cal' = [cal EXCEPT ![p] = {o \in cal[p] : o.key \notin Keys(got)}
                   \cup {[key |-> k, copy |-> FirstCopy] : k \in Keys(got)}]
    BY DEF Load, TypeOK
  <2> QED
    BY <2>1, <2>2 DEF TypeOK
<1>4. content' \in [Proc -> [Obj -> Content]]
  <2> DEFINE c == [o \in Obj |-> IF o.copy = FirstCopy /\ o.key \in Keys(got)
                                 THEN (CHOOSE r \in got : r.key = o.key).content
                                 ELSE content[p][o]]
  <2>1. ASSUME NEW o \in Obj, o.key \in Keys(got)
        PROVE  (CHOOSE r \in got : r.key = o.key).content \in Content
    <3>1. \E r \in got : r.key = o.key
      BY <2>1 DEF Keys
    <3>2. (CHOOSE r \in got : r.key = o.key) \in Row
      BY <3>1, <1>1
    <3> QED
      BY <3>2 DEF Row
  <2>2. c \in [Obj -> Content]
    <3>1. ASSUME NEW o \in Obj PROVE content[p][o] \in Content
      BY DEF TypeOK
    <3> DEFINE pick(o) == (CHOOSE r \in got : r.key = o.key).content
               choice(o) == IF o.copy = FirstCopy /\ o.key \in Keys(got)
                            THEN pick(o) ELSE content[p][o]
    <3>2. ASSUME NEW o \in Obj PROVE choice(o) \in Content
      <4>1. o.key \in Keys(got) => pick(o) \in Content
        BY <2>1
      <4> HIDE DEF pick
      <4> QED
        BY <3>1, <4>1
    <3>3. c = [o \in Obj |-> choice(o)]
      OBVIOUS
    <3> HIDE DEF choice
    <3> QED
      BY <3>2, <3>3
  <2>3. content' = [content EXCEPT ![p] = c]
    BY DEF Load, TypeOK
  <2> QED
    BY <2>2, <2>3 DEF TypeOK
<1>5. filed' \in [Proc -> SUBSET Uid]
  <2>1. {k.uid : k \in Keys(got)} \subseteq Uid
    BY <1>2 DEF Uid
  <2>2. filed' = [filed EXCEPT ![p] = filed[p] \cup {k.uid : k \in Keys(got)}]
    BY DEF Load, TypeOK
  <2> QED
    BY <2>1, <2>2 DEF TypeOK
<1>6. UNCHANGED <<inside, table, pend, saving, event, history>>
  BY DEF Load
<1> QED
  BY <1>3, <1>4, <1>5, <1>6 DEF TypeOK, SavingOK, table, saving, history

\* What the statements do to a table.
LEMMA TableType ==
  ASSUME NEW T \in Table, NEW k \in Key, NEW r \in Row
  PROVE  /\ [live |-> T.live \cup {r}, tombs |-> [T.tombs EXCEPT ![k] = 0]] \in Table
         /\ [live |-> T.live \cup {r}, tombs |-> T.tombs] \in Table
         /\ [live |-> Without(T.live, k) \cup {r}, tombs |-> T.tombs] \in Table
         /\ [live |-> Without(T.live, k), tombs |-> T.tombs] \in Table
         /\ [live |-> Without(T.live, k), tombs |-> [T.tombs EXCEPT ![k] = @ + 1]] \in Table
<1>1. T.live \in SUBSET Row /\ T.tombs \in [Key -> Nat]
  BY DEF Table
<1>2. Without(T.live, k) \in SUBSET Row
  BY <1>1 DEF Without
<1>3. [T.tombs EXCEPT ![k] = 0] \in [Key -> Nat]
  BY <1>1
<1>4. [T.tombs EXCEPT ![k] = @ + 1] \in [Key -> Nat]
  BY <1>1
<1>5. ASSUME NEW live \in SUBSET Row, NEW tombs \in [Key -> Nat]
      PROVE  [live |-> live, tombs |-> tombs] \in Table
  BY DEF Table
<1> QED
  BY <1>1, <1>2, <1>3, <1>4, <1>5

\* The steps of the loop leave everything but img, work and errors alone.
LEMMA RowStepType ==
  ASSUME TypeOK, SavingOK, NEW p \in Proc, NEW o \in Obj,
         SkipRow(p, o) \/ InsertRow(p, o) \/ UpdateRow(p, o)
           \/ DeleteRow(p, o) \/ RowFails(p, o)
  PROVE  TypeOK' /\ SavingOK'
<1>1. SavingOK'
  BY SavingType DEF SkipRow, InsertRow, UpdateRow, DeleteRow, RowFails
<1>2. img' \in Table
  <2>0. img \in Table /\ o.key \in Key /\ RowOf(p, o) \in Row
    BY RowType DEF TypeOK, Obj
  <2>1. CASE SkipRow(p, o) \/ RowFails(p, o)
    BY <2>0, <2>1 DEF SkipRow, RowFails
  <2>2. CASE InsertRow(p, o)
    <3>1. \/ img' = [live |-> img.live \cup {RowOf(p, o)},
                     tombs |-> [img.tombs EXCEPT ![o.key] = 0]]
          \/ img' = [live |-> img.live \cup {RowOf(p, o)}, tombs |-> img.tombs]
      <4> HIDE DEF RowOf
      <4> QED
        BY <2>2 DEF InsertRow
    <3>2. /\ [live |-> img.live \cup {RowOf(p, o)},
               tombs |-> [img.tombs EXCEPT ![o.key] = 0]] \in Table
          /\ [live |-> img.live \cup {RowOf(p, o)}, tombs |-> img.tombs] \in Table
      BY <2>0, TableType
    <3> QED
      BY <3>1, <3>2
  <2>3. CASE UpdateRow(p, o)
    BY <2>0, <2>3, TableType DEF UpdateRow
  <2>4. CASE DeleteRow(p, o)
    BY <2>0, <2>4, TableType DEF DeleteRow
  <2> QED
    BY <2>1, <2>2, <2>3, <2>4
<1>3. UNCHANGED <<inside, db, writer, memory, pend, event, history>>
  BY DEF SkipRow, InsertRow, UpdateRow, DeleteRow, RowFails, TakeRow
<1>4. RestOK'
  BY <1>3 DEF TypeOK, RestOK, memory, history
<1>5. inside' \subseteq Proc /\ db' \in Table /\ writer' \subseteq Proc
  BY <1>3 DEF TypeOK
<1> QED
  BY <1>1, <1>2, <1>4, <1>5 DEF TypeOK, RestOK, SavingOK

LEMMA SaveStepType ==
  ASSUME TypeOK, SavingOK, NEW p \in Proc,
         SkipList(p) \/ BeginList(p) \/ BeginFails(p) \/ PrepareFails(p)
           \/ CommitList(p) \/ CommitFails(p) \/ Unlock(p) \/ Signal(p)
  PROVE  TypeOK' /\ SavingOK'
<1>1. SavingOK'
  <2>1. CASE Unlock(p)
    BY <2>1 DEF Unlock, TypeOK, SavingOK, Point, Phase
  <2>2. CASE Signal(p)
    BY <2>2, SavingType DEF Signal
  <2>3. CASE BeginList(p)
    BY <2>3, SavingType DEF BeginList, AtList
  <2>4. CASE SkipList(p) \/ BeginFails(p) \/ PrepareFails(p)
    BY <2>4, SavingType DEF SkipList, BeginFails, PrepareFails, AtList
  <2>5. CASE CommitList(p) \/ CommitFails(p)
    <3>1. pc[p] \in Phase
      BY <2>5 DEF CommitList, CommitFails, Committing, SavingOK
    <3>2. NextList(p, TRUE, TRUE) \/ NextList(p, FALSE, FALSE)
      BY <2>5 DEF CommitList, CommitFails
    <3> QED
      BY <3>1, <3>2, SavingType
  <2> QED
    BY <2>1, <2>2, <2>3, <2>4, <2>5
<1>2. inside' \subseteq Proc
  BY DEF TypeOK, SkipList, BeginList, BeginFails, PrepareFails, CommitList,
         CommitFails, Committing, Unlock, Signal, Mutex!Leave
<1>3. db' \in Table /\ img' \in Table /\ writer' \subseteq Proc
  BY DEF TypeOK, SkipList, BeginList, BeginFails, PrepareFails, CommitList,
         CommitFails, Committing, Unlock, Signal, table
<1>4. pend' \in [Proc -> [Phase -> SUBSET Obj]]
  <2>1. CASE CommitList(p) \/ CommitFails(p)
    <3>1. pend' = [pend EXCEPT ![p] = [pend[p] EXCEPT ![pc[p]] = {}]]
      BY <2>1 DEF CommitList, CommitFails, Committing, TypeOK
    <3>2. [pend[p] EXCEPT ![pc[p]] = {}] \in [Phase -> SUBSET Obj]
      BY DEF TypeOK
    <3> QED
      BY <3>1, <3>2 DEF TypeOK
  <2>2. CASE ~(CommitList(p) \/ CommitFails(p))
    <3>1. pend' = pend
      BY <2>2 DEF SkipList, BeginList, BeginFails, PrepareFails, Unlock, Signal
    <3> QED
      BY <3>1 DEF TypeOK
  <2> QED
    BY <2>1, <2>2
<1>5. event' \in [Proc -> BOOLEAN]
  BY DEF TypeOK, SkipList, BeginList, BeginFails, PrepareFails, CommitList,
         CommitFails, Committing, Unlock, Signal
<1>6. asked' \in [Proc -> Asked] /\ failed' \in [Proc -> BOOLEAN]
  <2>1. CASE Unlock(p)
    <3>1. NothingAsked \in Asked
      BY DEF NothingAsked, Asked
    <3> QED
      BY <2>1, <3>1 DEF Unlock, TypeOK
  <2>2. CASE Signal(p)
    <3>1. asked' = asked /\ asked \in [Proc -> Asked]
      BY <2>2 DEF Signal, TypeOK
    <3>2. failed' = [failed EXCEPT ![p] = failed[p] \/ errors[p]]
      BY <2>2 DEF Signal
    <3>3. (failed[p] \/ errors[p]) \in BOOLEAN /\ failed \in [Proc -> BOOLEAN]
      BY DEF TypeOK
    <3> QED
      BY <3>1, <3>2, <3>3
  <2>3. CASE ~(Unlock(p) \/ Signal(p))
    <3>1. UNCHANGED history
      BY <2>3 DEF SkipList, BeginList, BeginFails, PrepareFails, CommitList,
         CommitFails, Committing
    <3> QED
      BY <3>1 DEF TypeOK, history
  <2> QED
    BY <2>1, <2>2, <2>3
<1>7. UNCHANGED memory
  BY DEF SkipList, BeginList, BeginFails, PrepareFails, CommitList,
         CommitFails, Committing, Unlock, Signal
<1> QED
  BY <1>1, <1>2, <1>3, <1>4, <1>5, <1>6, <1>7 DEF TypeOK, SavingOK, memory

LEMMA CallType ==
  ASSUME TypeOK, SavingOK, NEW p \in Proc,
         \/ FileChanged(p) \/ End(p)
         \/ \E action \in Action : SaveBegin(p, action)
         \/ \E K \in SUBSET Key : PurgeDeleted(p, K)
  PROVE  TypeOK' /\ SavingOK'
<1>1. CASE FileChanged(p)
  BY <1>1 DEF FileChanged, TypeOK, SavingOK, table, saving, history
<1>2. CASE End(p)
  <2>1. SavingOK'
    BY <1>2, SavingType DEF End
  <2>2. NothingAsked \in Asked /\ NoPending \in [Phase -> SUBSET Obj]
    BY DEF NothingAsked, Asked, NoPending
  <2> QED
    BY <1>2, <2>1, <2>2, BlankType DEF End, TypeOK, SavingOK
<1>3. CASE \E action \in Action : SaveBegin(p, action)
  <2>1. Request(pend[p]) \in Asked
    <3> DEFINE lists == pend[p]
               others(o) == OfKey(UNION {lists[ph] : ph \in Phase}, o.key) \ {o}
               alone(o) == others(o) = {} /\ o \notin lists["delete"]
               write == {o \in lists["insert"] \cup lists["update"] : alone(o)}
               again == {o \in lists["insert"] : ~alone(o)}
               erase == Keys(lists["delete"]) \ Keys(lists["insert"])
    <3>1. lists["insert"] \subseteq Obj /\ lists["update"] \subseteq Obj
          /\ lists["delete"] \subseteq Obj
      BY DEF TypeOK, Phase
    <3>2. write \in SUBSET Obj /\ again \in SUBSET Obj
      BY <3>1
    <3>3. erase \in SUBSET Key
      BY <3>1 DEF Keys, Obj
    <3>4. Request(pend[p]) = [write |-> write, again |-> again, erase |-> erase]
      BY DEF Request
    <3> HIDE DEF write, again, erase
    <3> QED
      BY <3>2, <3>3, <3>4 DEF Asked
  <2>2. PICK action \in Action : SaveBegin(p, action)
    BY <1>3
  <2>3. asked' \in [Proc -> Asked]
    BY <2>1, <2>2 DEF SaveBegin, TypeOK
  <2>4. inside' \subseteq Proc
    BY <2>2 DEF SaveBegin, Mutex!Enter
  <2>5. SavingOK'
    <3>1. PICK zone \in ZoneSaved(p) : isSaved' = [isSaved EXCEPT ![p] = zone]
      BY <2>2 DEF SaveBegin
    <3>2. zone \in BOOLEAN
      BY <3>1 DEF ZoneSaved
    <3>3. isSaved' \in [Proc -> BOOLEAN]
      BY <3>1, <3>2 DEF TypeOK
    <3>4. pc' \in [Proc -> Point] /\ deleteAction' \in [Proc -> Action]
      BY <2>2 DEF SaveBegin, TypeOK, Point, Phase
    <3>5. UNCHANGED <<looping, work, errors>>
      BY <2>2 DEF SaveBegin
    <3>6. ASSUME NEW q \in Proc, looping'[q] PROVE pc'[q] \in Phase
      <4>1. pc[q] \in Phase
        BY <3>5, <3>6 DEF SavingOK
      <4>2. pc[p] = "idle" /\ pc' = [pc EXCEPT ![p] = "insert"]
        BY <2>2 DEF SaveBegin, Idle
      <4> QED
        BY <4>1, <4>2 DEF SavingOK, Phase
    <3> QED
      BY <3>3, <3>4, <3>5, <3>6 DEF SavingOK
  <2>6. UNCHANGED <<db, img, writer, cal, content, filed, pend, event, failed>>
    BY <2>2 DEF SaveBegin, table, memory
  <2>7. /\ db' \in Table /\ img' \in Table /\ writer' \subseteq Proc
        /\ cal' \in [Proc -> SUBSET Obj] /\ content' \in [Proc -> [Obj -> Content]]
        /\ filed' \in [Proc -> SUBSET Uid] /\ pend' \in [Proc -> [Phase -> SUBSET Obj]]
        /\ event' \in [Proc -> BOOLEAN] /\ failed' \in [Proc -> BOOLEAN]
    BY <2>6 DEF TypeOK
  <2> QED
    BY <2>3, <2>4, <2>5, <2>7 DEF TypeOK, SavingOK
<1>4. CASE \E K \in SUBSET Key : PurgeDeleted(p, K)
  <2>1. PICK K \in SUBSET Key : PurgeDeleted(p, K)
    BY <1>4
  <2>2. img' \in Table
    <3> DEFINE tombs == [k \in Key |-> IF k \in K THEN 0 ELSE img.tombs[k]]
    <3>1. img.live \in SUBSET Row /\ img.tombs \in [Key -> Nat]
      BY DEF TypeOK, Table
    <3>2. tombs \in [Key -> Nat]
      BY <3>1
    <3>3. img' = [live |-> img.live, tombs |-> tombs] \/ img' = img
      BY <2>1 DEF PurgeDeleted
    <3> HIDE DEF tombs
    <3>4. [live |-> img.live, tombs |-> tombs] \in Table
      BY <3>1, <3>2 DEF Table
    <3> QED
      BY <3>3, <3>4 DEF TypeOK
  <2>3. db' \in Table /\ writer' \subseteq Proc
    <3>1. (db' = img' \/ db' = db) /\ (writer' = writer \/ writer' = {p})
      BY <2>1 DEF PurgeDeleted
    <3> QED
      BY <2>2, <3>1 DEF TypeOK
  <2>4. UNCHANGED <<inside, memory, pend, saving, event, history>>
    BY <2>1 DEF PurgeDeleted
  <2>5. SavingOK'
    BY <2>4, SavingType
  <2>6. inside' \subseteq Proc /\ RestOK'
    BY <2>4 DEF TypeOK, RestOK, memory, history
  <2> QED
    BY <2>2, <2>3, <2>5, <2>6 DEF TypeOK, SavingOK, RestOK
<1> QED
  BY <1>1, <1>2, <1>3, <1>4

\* The type is inductive together with: a loop runs over one of the lists.
LEMMA SavingCorrect == Spec => [](TypeOK /\ SavingOK)
<1>1. Init => TypeOK /\ SavingOK
  <2> SUFFICES ASSUME Init PROVE TypeOK /\ SavingOK
    OBVIOUS
  <2>1. EmptyTable \in Table
    BY DEF EmptyTable, Table
  <2>2. NothingAsked \in Asked /\ NoPending \in [Phase -> SUBSET Obj]
    BY DEF NothingAsked, Asked, NoPending
  <2>3. SavingOK
    BY DEF Init, SavingOK, Point, Action, Phase
  <2> QED
    BY <2>1, <2>2, <2>3, BlankType DEF Init, TypeOK, SavingOK, Mutex!LockInit
<1>2. TypeOK /\ SavingOK /\ [Next]_vars => TypeOK' /\ SavingOK'
  <2> SUFFICES ASSUME TypeOK, SavingOK, [Next]_vars PROVE TypeOK' /\ SavingOK'
    OBVIOUS
  <2>1. CASE UNCHANGED vars
    BY <2>1 DEF vars, table, memory, saving, history, TypeOK, SavingOK
  <2>2. ASSUME NEW p \in Proc, Call(p) PROVE TypeOK' /\ SavingOK'
    <3>1. CASE \E o \in Obj, c \in Content :
                 Add(p, o, c) \/ Replace(p, o, c) \/ Edit(p, o, c) \/ Delete(p, o)
      BY <3>1, CalendarType
    <3>2. CASE \E K, skip \in SUBSET Key : Load(p, K, skip)
      BY <3>2, LoadType
    <3>3. CASE \/ FileChanged(p)
               \/ \E action \in Action : SaveBegin(p, action)
               \/ \E K \in SUBSET Key : PurgeDeleted(p, K)
      BY <3>3, CallType
    <3>4. Content # {}
      BY CopiesAssumption
    <3> QED
      BY <2>2, <3>1, <3>2, <3>3, <3>4 DEF Call
  <2>3. ASSUME NEW p \in Proc, SaveStep(p) PROVE TypeOK' /\ SavingOK'
    BY <2>3, RowStepType, SaveStepType DEF SaveStep
  <2>4. ASSUME NEW p \in Proc, End(p) PROVE TypeOK' /\ SavingOK'
    BY <2>4, CallType
  <2> QED
    BY <2>1, <2>2, <2>3, <2>4 DEF Next
<1> QED
  BY <1>1, <1>2, PTL DEF Spec

\* Every state has its type (sqlitestorage.cpp:1207-1240, 1353-1951).
THEOREM TypeCorrect == Spec => []TypeOK
BY SavingCorrect, PTL

-----------------------------------------------------------------------------

\* OneRowPerKey of one table, given by its live rows and its tombstones.
Single(live, tombs) ==
  \A k \in Key :
    /\ \A r, s \in live : r.key = k /\ s.key = k => r = s
    /\ tombs[k] <= 1
    /\ (\E r \in live : r.key = k) => tombs[k] = 0

LEMMA SingleTables ==
  OneRowPerKey <=> Single(db.live, db.tombs) /\ Single(img.live, img.tombs)
BY DEF OneRowPerKey, Single, OfKey, HasLive

LEMMA SingleStatements ==
  ASSUME NEW live \in SUBSET Row, NEW tombs \in [Key -> Nat], Single(live, tombs),
         NEW k \in Key, NEW r \in Row, r.key = k
  PROVE  /\ ~(\E s \in live : s.key = k)
              => Single(live \cup {r}, [tombs EXCEPT ![k] = 0])
         /\ (\E s \in live : s.key = k)
              => /\ Single(Without(live, k) \cup {r}, tombs)
                 /\ Single(Without(live, k), tombs)
                 /\ Single(Without(live, k), [tombs EXCEPT ![k] = @ + 1])
<1>1. ASSUME ~(\E s \in live : s.key = k)
      PROVE  Single(live \cup {r}, [tombs EXCEPT ![k] = 0])
  BY <1>1 DEF Single
<1>2. ASSUME \E s \in live : s.key = k
      PROVE  /\ Single(Without(live, k) \cup {r}, tombs)
             /\ Single(Without(live, k), tombs)
             /\ Single(Without(live, k), [tombs EXCEPT ![k] = @ + 1])
  <2>1. tombs[k] = 0
    BY <1>2 DEF Single
  <2>2. [tombs EXCEPT ![k] = @ + 1][k] = 1
    BY <2>1
  <2>3. \A j \in Key \ {k} : [tombs EXCEPT ![k] = @ + 1][j] = tombs[j]
    OBVIOUS
  <2>4. Single(Without(live, k), [tombs EXCEPT ![k] = @ + 1])
    BY <2>2, <2>3 DEF Single, Without
  <2>5. Single(Without(live, k), tombs) /\ Single(Without(live, k) \cup {r}, tombs)
    BY <2>1 DEF Single, Without
  <2> QED
    BY <2>4, <2>5
<1> QED
  BY <1>1, <1>2

\* The steps of the loop; an insertion purges the tombstones.
LEMMA SingleRow ==
  ASSUME TypeOK, OneRowPerKey, "purge" \notin Faults, NEW p \in Proc, NEW o \in Obj,
         SkipRow(p, o) \/ InsertRow(p, o) \/ UpdateRow(p, o)
           \/ DeleteRow(p, o) \/ RowFails(p, o)
  PROVE  OneRowPerKey'
<1> DEFINE live == img.live
           tombs == img.tombs
           r == RowOf(p, o)
           k == o.key
<1>1. live \in SUBSET Row /\ tombs \in [Key -> Nat]
  BY DEF TypeOK, Table
<1>2. r \in Row /\ r.key = k /\ k \in Key
  BY RowType DEF RowOf, Obj
<1>3. Single(live, tombs) /\ Single(db.live, db.tombs)
  BY SingleTables
<1>4. HasLive(img, k) <=> \E s \in live : s.key = k
  BY DEF HasLive, OfKey
<1>5. Single(img'.live, img'.tombs)
  <2>1. CASE SkipRow(p, o) \/ RowFails(p, o)
    BY <1>3, <2>1 DEF SkipRow, RowFails
  <2>2. CASE InsertRow(p, o)
    <3>1. img' = [live |-> live \cup {r}, tombs |-> [tombs EXCEPT ![k] = 0]]
      BY <2>2 DEF InsertRow
    <3>2. ~HasLive(img, k)
      BY <2>2 DEF InsertRow
    <3> HIDE DEF live, tombs, r, k
    <3>3. Single(live \cup {r}, [tombs EXCEPT ![k] = 0])
      BY <1>1, <1>2, <1>3, <1>4, <3>2, SingleStatements
    <3> QED
      BY <3>1, <3>3
  <2>3. CASE UpdateRow(p, o)
    <3>1. img' = [live |-> Without(live, k) \cup {r}, tombs |-> tombs]
      BY <2>3 DEF UpdateRow
    <3>2. HasLive(img, k)
      BY <2>3 DEF UpdateRow
    <3> HIDE DEF live, tombs, r, k
    <3>3. Single(Without(live, k) \cup {r}, tombs)
      BY <1>1, <1>2, <1>3, <1>4, <3>2, SingleStatements
    <3> QED
      BY <3>1, <3>3
  <2>4. CASE DeleteRow(p, o)
    <3>1. \/ img' = [live |-> Without(live, k), tombs |-> [tombs EXCEPT ![k] = @ + 1]]
          \/ img' = [live |-> Without(live, k), tombs |-> tombs]
      BY <2>4 DEF DeleteRow
    <3>2. HasLive(img, k)
      BY <2>4 DEF DeleteRow
    <3> HIDE DEF live, tombs, r, k
    <3>3. /\ Single(Without(live, k), [tombs EXCEPT ![k] = @ + 1])
          /\ Single(Without(live, k), tombs)
      BY <1>1, <1>2, <1>3, <1>4, <3>2, SingleStatements
    <3> QED
      BY <3>1, <3>3
  <2> QED
    BY <2>1, <2>2, <2>3, <2>4
<1>6. db' = db
  BY DEF SkipRow, InsertRow, UpdateRow, DeleteRow, RowFails, TakeRow
<1> HIDE DEF live, tombs, r, k
<1>7. Single(db'.live, db'.tombs)
  BY <1>3, <1>6
<1> QED
  BY <1>5, <1>7 DEF OneRowPerKey, Single, OfKey, HasLive

\* Provided purging works, the table never holds an incidence twice, live or
\* deleted, whatever else fails and however the processes interleave.
THEOREM RowsUnique ==
  ASSUME "purge" \notin Faults
  PROVE  Spec => []OneRowPerKey
<1>1. Init => OneRowPerKey
  BY DEF Init, EmptyTable, OneRowPerKey, OfKey, HasLive
<1>2. TypeOK /\ OneRowPerKey /\ [Next]_vars => OneRowPerKey'
  <2> SUFFICES ASSUME TypeOK, OneRowPerKey, [Next]_vars PROVE OneRowPerKey'
    OBVIOUS
  <2>1. ASSUME UNCHANGED <<db, img>> PROVE OneRowPerKey'
    BY <2>1 DEF OneRowPerKey
  <2>2. ASSUME db' \in {db, img}, img' \in {db, img} PROVE OneRowPerKey'
    BY <2>2 DEF OneRowPerKey
  <2>3. CASE UNCHANGED vars
    BY <2>1, <2>3 DEF vars, table
  <2>4. ASSUME NEW p \in Proc, Call(p) PROVE OneRowPerKey'
    <3>1. CASE \E K \in SUBSET Key : PurgeDeleted(p, K)
      <4>1. PICK K \in SUBSET Key : PurgeDeleted(p, K)
        BY <3>1
      <4> DEFINE tombs == [k \in Key |-> IF k \in K THEN 0 ELSE img.tombs[k]]
      <4>2. /\ img' = [live |-> img.live, tombs |-> tombs] \/ img' = img
            /\ db' = img' \/ db' = db
        BY <4>1 DEF PurgeDeleted
      <4>3. Single(img.live, img.tombs) /\ Single(db.live, db.tombs)
        BY SingleTables
      <4>4. Single(img.live, tombs)
        <5>1. \A k \in Key : tombs[k] = 0 \/ tombs[k] = img.tombs[k]
          OBVIOUS
        <5> HIDE DEF tombs
        <5> QED
          BY <4>3, <5>1 DEF Single
      <4> HIDE DEF tombs
      <4>5. Single(img'.live, img'.tombs) /\ Single(db'.live, db'.tombs)
        BY <4>2, <4>3, <4>4
      <4> QED
        BY <4>5 DEF OneRowPerKey, Single, OfKey, HasLive
    <3>2. CASE ~(\E K \in SUBSET Key : PurgeDeleted(p, K))
      <4>1. UNCHANGED <<db, img>>
        BY <2>4, <3>2 DEF Call, Add, Replace, Edit, Delete, Load, FileChanged,
                          SaveBegin, table
      <4> QED
        BY <2>1, <4>1
    <3> QED
      BY <3>1, <3>2
  <2>5. ASSUME NEW p \in Proc, SaveStep(p) PROVE OneRowPerKey'
    <3>1. CASE \E o \in Obj : \/ SkipRow(p, o) \/ InsertRow(p, o) \/ UpdateRow(p, o)
                              \/ DeleteRow(p, o) \/ RowFails(p, o)
      BY <3>1, SingleRow
    <3>2. CASE CommitList(p) \/ CommitFails(p)
      BY <2>2, <3>2 DEF CommitList, CommitFails
    <3>3. CASE \/ SkipList(p) \/ BeginList(p) \/ BeginFails(p) \/ PrepareFails(p)
               \/ Unlock(p) \/ Signal(p)
      BY <2>1, <3>3 DEF SkipList, BeginList, BeginFails, PrepareFails, Unlock, Signal,
                        table
    <3> QED
      BY <2>5, <3>1, <3>2, <3>3 DEF SaveStep
  <2>6. ASSUME NEW p \in Proc, End(p) PROVE OneRowPerKey'
    BY <2>2, <2>6 DEF End
  <2> QED
    BY <2>3, <2>4, <2>5, <2>6 DEF Next
<1> QED
  BY <1>1, <1>2, TypeCorrect, PTL DEF Spec
=============================================================================
