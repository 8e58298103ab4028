---------------------- MODULE SqliteStorageSaveProofs ----------------------
(***************************************************************************)
(* Proofs about what a save of SqliteStorage achieves, for any number of   *)
(* processes, keys, objects and contents: that the transactions of the     *)
(* processes do not disturb each other, that one which is left open never  *)
(* reaches the table, that every change of the committed table is a batch  *)
(* of ComponentStore, that a save which returns true has written and       *)
(* erased what it was asked to, and that with one process what is not      *)
(* pending is stored.                                                      *)
(***************************************************************************)
EXTENDS SqliteStorageProofs

\* The points of save() between acquire() and release().
Holding == Phase \cup {"unlock"}

\* Only the process that holds the lock runs a loop, in a transaction of its
\* own, over what is left of its list; without a transaction the image is the
\* table.
Isolation ==
  /\ \A p \in Proc : p \in inside <=> pc[p] \in Holding
  /\ \A p, q \in inside : p = q
  /\ \A p \in Proc : looping[p] => writer = {p} /\ work[p] \subseteq pend[p][pc[p]]
  /\ writer = {} => img = db

LEMMA OneHolder ==
  ASSUME Isolation, NEW p \in Proc, NEW q \in Proc, pc[p] \in Holding, pc[q] \in Holding
  PROVE  p = q
BY DEF Isolation

LEMMA OneLoop ==
  ASSUME Isolation, SavingOK, NEW p \in Proc, NEW q \in Proc, pc[p] \in Holding, looping[q]
  PROVE  p = q
BY OneHolder DEF SavingOK, Holding

LEMMA IsolationCall ==
  ASSUME TypeOK, SavingOK, Isolation, NEW p \in Proc, Call(p)
  PROVE  Isolation'
<1> USE DEF TypeOK, SavingOK
<1>1. CASE \E action \in Action : SaveBegin(p, action)
  <2>1. /\ inside = {} /\ inside' = {p}
        /\ pc[p] = "idle" /\ pc' = [pc EXCEPT ![p] = "insert"]
        /\ UNCHANGED <<db, img, writer, pend, looping, work>>
    BY <1>1 DEF SaveBegin, Mutex!Enter, Idle, table
  <2>2. \A q \in Proc : ~looping[q]
    BY <2>1 DEF Isolation, Holding
  <2>3. \A q \in Proc : q \in inside' <=> pc'[q] \in Holding
    BY <2>1 DEF Isolation, Holding, Phase
  <2> QED
    BY <2>1, <2>2, <2>3 DEF Isolation
<1>2. CASE \E K \in SUBSET Key : PurgeDeleted(p, K)
  <2>1. /\ inside = {} /\ writer = {}
        /\ (db' = img' /\ writer' = writer) \/ writer' = {p}
        /\ UNCHANGED <<inside, pc, looping, work, pend>>
    BY <1>2 DEF PurgeDeleted, saving
  <2>2. \A q \in Proc : ~looping[q]
    BY <2>1 DEF Isolation, Holding
  <2> QED
    BY <2>1, <2>2 DEF Isolation
<1>3. CASE \E o \in Obj, c \in Content :
             Add(p, o, c) \/ Replace(p, o, c) \/ Edit(p, o, c) \/ Delete(p, o)
  <2>1. /\ pc[p] = "idle"
        /\ UNCHANGED <<inside, db, img, writer, pc, looping, work>>
        /\ \E lists : pend' = [pend EXCEPT ![p] = lists]
    <3>1. /\ pc[p] = "idle"
          /\ UNCHANGED <<inside, db, img, writer, pc, looping, work>>
      BY <1>3 DEF Add, Replace, Edit, Delete, Idle, table, saving
    <3>2. \E lists : pend' = [pend EXCEPT ![p] = lists]
      BY <1>3 DEF Add, Replace, Edit, Delete
    <3> QED
      BY <3>1, <3>2
  <2>2. \A q \in Proc : looping[q] => pend'[q] = pend[q]
    BY <2>1 DEF Phase
  <2> QED
    BY <2>1, <2>2 DEF Isolation
<1>4. CASE FileChanged(p) \/ \E K, skip \in SUBSET Key : Load(p, K, skip)
  BY <1>4 DEF FileChanged, Load, table, saving, Isolation
<1>5. Content # {}
  BY CopiesAssumption
<1> QED
  BY <1>1, <1>2, <1>3, <1>4, <1>5 DEF Call

LEMMA IsolationSave ==
  ASSUME TypeOK, SavingOK, Isolation, NEW p \in Proc, SaveStep(p)
  PROVE  Isolation'
<1> USE DEF TypeOK, SavingOK
\* The steps that leave a list, with or without its transaction.
<1>1. ASSUME NEW ok \in BOOLEAN, NEW committed \in BOOLEAN, pc[p] \in Phase,
             NextList(p, ok, committed), inside' = inside,
             \A q \in Proc \ {p} : pend'[q] = pend[q],
             writer' = {} => img' = db'
      PROVE  Isolation'
  <2>1. pc'[p] \in Holding
    BY <1>1 DEF NextList, After, Phase, Holding
  <2>2. \A q \in Proc \ {p} : pc'[q] = pc[q] /\ ~looping'[q]
    BY <1>1, OneLoop DEF NextList, Holding
  <2>3. looping'[p] = FALSE
    BY <1>1 DEF NextList
  <2> QED
    BY <1>1, <2>1, <2>2, <2>3 DEF Isolation, Holding
<1>2. CASE SkipList(p) \/ BeginFails(p) \/ PrepareFails(p)
  <2>1. NextList(p, TRUE, FALSE) \/ NextList(p, FALSE, FALSE)
    BY <1>2 DEF SkipList, BeginFails, PrepareFails
  <2>2. pc[p] \in Phase /\ UNCHANGED <<inside, db, img, pend>>
        /\ (writer' = writer \/ writer' = {p})
    BY <1>2 DEF SkipList, BeginFails, PrepareFails, AtList, table
  <2> QED
    BY <1>1, <2>1, <2>2 DEF Isolation
<1>3. CASE CommitList(p) \/ CommitFails(p)
  <2>1. NextList(p, TRUE, TRUE) \/ NextList(p, FALSE, FALSE)
    BY <1>3 DEF CommitList, CommitFails
  <2>2. looping[p] /\ inside' = inside /\ \A q \in Proc \ {p} : pend'[q] = pend[q]
    BY <1>3 DEF CommitList, CommitFails, Committing
  <2>3. pc[p] \in Phase /\ writer = {p}
    BY <2>2 DEF Isolation
  <2>4. writer' = {} => img' = db'
    BY <1>3, <2>3 DEF CommitList, CommitFails
  <2> QED
    BY <1>1, <2>1, <2>2, <2>3, <2>4
<1>4. CASE BeginList(p)
  <2>1. /\ pc[p] \in Phase /\ writer' = {p}
        /\ looping' = [looping EXCEPT ![p] = TRUE]
        /\ work' = [work EXCEPT ![p] = pend[p][pc[p]]]
        /\ UNCHANGED <<inside, pc, pend, db, img>>
    BY <1>4 DEF BeginList, AtList, EnterLoop
  <2>2. \A q \in Proc : looping'[q] => q = p
    BY <2>1, OneLoop DEF Holding
  <2> QED
    BY <2>1, <2>2 DEF Isolation
<1>5. CASE \E o \in Obj : \/ SkipRow(p, o) \/ InsertRow(p, o) \/ UpdateRow(p, o)
                          \/ DeleteRow(p, o) \/ RowFails(p, o)
  <2>1. PICK o \in Obj : \/ SkipRow(p, o) \/ InsertRow(p, o) \/ UpdateRow(p, o)
                         \/ DeleteRow(p, o) \/ RowFails(p, o)
    BY <1>5
  <2>2. /\ looping[p] /\ UNCHANGED <<inside, writer, pc, looping, pend>>
        /\ work' = [work EXCEPT ![p] = @ \ {o}]
    BY <2>1 DEF SkipRow, InsertRow, UpdateRow, DeleteRow, RowFails, TakeRow, RowDone
  <2> QED
    BY <2>2 DEF Isolation
<1>6. CASE Unlock(p)
  <2>1. /\ pc[p] = "unlock" /\ inside' = inside \ {p}
        /\ pc' = [pc EXCEPT ![p] = "signal"]
        /\ UNCHANGED <<db, img, writer, pend, looping, work>>
    BY <1>6 DEF Unlock, Mutex!Leave, table
  <2> QED
    BY <2>1 DEF Isolation, Holding, Phase
<1>7. CASE Signal(p)
  <2>1. /\ pc[p] = "signal" /\ pc' = [pc EXCEPT ![p] = "idle"]
        /\ looping' = [looping EXCEPT ![p] = FALSE]
        /\ work' = [work EXCEPT ![p] = {}]
        /\ UNCHANGED <<inside, db, img, writer, pend>>
    BY <1>7 DEF Signal, NoSave, table
  <2> QED
    BY <2>1 DEF Isolation, Holding, Phase
<1> QED
  BY <1>2, <1>3, <1>4, <1>5, <1>6, <1>7 DEF SaveStep

LEMMA IsolationEnd ==
  ASSUME TypeOK, SavingOK, Isolation, NEW p \in Proc, End(p)
  PROVE  Isolation'
<1>1. /\ inside' = inside \ {p} /\ writer' = writer \ {p}
      /\ pc' = [pc EXCEPT ![p] = "idle"]
      /\ looping' = [looping EXCEPT ![p] = FALSE]
      /\ work' = [work EXCEPT ![p] = {}]
      /\ pend' = [pend EXCEPT ![p] = NoPending]
      /\ db' = db /\ img' = IF p \in writer THEN db ELSE img
  BY DEF End, NoSave
<1> QED
  BY <1>1 DEF TypeOK, SavingOK, Isolation, Holding, Phase

\* The transactions of the processes do not mix.
LEMMA Isolated == Spec => [](TypeOK /\ SavingOK /\ Isolation)
<1>1. Init => Isolation
  BY DEF Init, Isolation, Holding, Phase, Mutex!LockInit
<1>2. TypeOK /\ SavingOK /\ Isolation /\ [Next]_vars => Isolation'
  <2> SUFFICES ASSUME TypeOK, SavingOK, Isolation, [Next]_vars PROVE Isolation'
    OBVIOUS
  <2>1. CASE UNCHANGED vars
    BY <2>1 DEF vars, table, saving, Isolation
  <2>2. ASSUME NEW p \in Proc, Call(p) \/ SaveStep(p) \/ End(p) PROVE Isolation'
    BY <2>2, IsolationCall, IsolationSave, IsolationEnd
  <2> QED
    BY <2>1, <2>2 DEF Next
<1> QED
  BY <1>1, <1>2, SavingCorrect, PTL DEF Spec

-----------------------------------------------------------------------------
(* A transaction that was left open. *)

LEMMA StrandedStep ==
  ASSUME SavingOK, Isolation, NEW p \in Proc, Stranded(p),
         NEW q \in Proc, Call(q) \/ SaveStep(q) \/ End(q)
  PROVE  db' = db /\ (Stranded(p)' \/ End(p))
<1>1. writer # {} /\ ~looping[q]
  BY DEF Isolation, Stranded
<1>2. CASE Call(q)
  <2>1. Content # {}
    BY CopiesAssumption
  <2>2. ~(\E K \in SUBSET Key : PurgeDeleted(q, K))
    BY <1>1 DEF PurgeDeleted
  <2>3. UNCHANGED <<db, writer, looping>>
    BY <1>2, <2>1, <2>2 DEF Call, Add, Replace, Edit, Delete, Load, FileChanged,
                            SaveBegin, table, saving
  <2> QED
    BY <2>3 DEF Stranded
<1>3. CASE SaveStep(q)
  <2>1. SkipList(q) \/ BeginFails(q) \/ Unlock(q) \/ Signal(q)
    BY <1>1, <1>3 DEF SaveStep, BeginList, PrepareFails, SkipRow, InsertRow, UpdateRow,
                      DeleteRow, RowFails, TakeRow, CommitList, CommitFails, Committing
  <2>2. UNCHANGED <<db, writer>>
    BY <2>1 DEF SkipList, BeginFails, Unlock, Signal, table
  <2>3. looping' = looping \/ looping' = [looping EXCEPT ![q] = FALSE]
    BY <2>1 DEF SkipList, BeginFails, NextList, Unlock, Signal, NoSave
  <2>4. ~looping'[p]
    BY <2>3 DEF Stranded, SavingOK
  <2> QED
    BY <2>2, <2>4 DEF Stranded
<1>4. CASE End(q) /\ q # p
  <2>1. /\ writer' = writer \ {q} /\ db' = db
        /\ looping' = [looping EXCEPT ![q] = FALSE]
    BY <1>4 DEF End, NoSave
  <2> QED
    BY <1>4, <2>1 DEF Stranded, SavingOK
<1>5. CASE End(p)
  BY <1>5 DEF End
<1> QED
  BY <1>2, <1>3, <1>4, <1>5

\* Whatever fails and in however many processes: what a transaction without
\* COMMIT has written never reaches the table, and while it is open nothing
\* does (sqlitestorage.cpp:1399-1428, 1677-1688, 1849).
THEOREM NeverCommitted == Spec => StrandedForGood
<1>1. SavingOK /\ Isolation /\ [Next]_vars
        => [\A p \in Proc : Stranded(p) => db' = db /\ (Stranded(p)' \/ End(p))]_vars
  <2> SUFFICES ASSUME SavingOK, Isolation, Next,
                      NEW p \in Proc, Stranded(p)
               PROVE  db' = db /\ (Stranded(p)' \/ End(p))
    OBVIOUS
  <2>1. PICK q \in Proc : Call(q) \/ SaveStep(q) \/ End(q)
    BY DEF Next
  <2> QED
    BY <2>1, StrandedStep
<1> QED
  BY <1>1, Isolated, PTL DEF Spec, StrandedForGood

-----------------------------------------------------------------------------
(* Every change of the committed table is a batch. *)

\* What the open transaction has done to the incidence k.
Same(k) == OfKey(img.live, k) = OfKey(db.live, k) /\ img.tombs[k] = db.tombs[k]
Inserted(k) == ~HasLive(db, k) /\ HasLive(img, k) /\ img.tombs[k] = 0
Updated(k) == HasLive(db, k) /\ HasLive(img, k) /\ img.tombs[k] = db.tombs[k]
Marked(k) == HasLive(db, k) /\ ~HasLive(img, k) /\ db.tombs[k] = 0 /\ img.tombs[k] = 1
Removed(k) == HasLive(db, k) /\ ~HasLive(img, k) /\ img.tombs[k] = db.tombs[k]

\* A transaction does one kind of change.
Batch(p) ==
  \/ pc[p] = "insert" /\ \A k \in Key : Same(k) \/ Inserted(k)
  \/ pc[p] = "update" /\ \A k \in Key : Same(k) \/ Updated(k)
  \/ /\ pc[p] = "delete" /\ deleteAction[p] = "MarkDeleted"
     /\ \A k \in Key : Same(k) \/ Marked(k)
  \/ /\ pc[p] = "delete" /\ deleteAction[p] = "PurgeDeleted"
     /\ \A k \in Key : Same(k) \/ Removed(k)

Batches == \A p \in Proc : looping[p] => Batch(p)

LEMMA BatchRow ==
  ASSUME TypeOK, SavingOK, OneRowPerKey, "purge" \notin Faults,
         NEW p \in Proc, NEW o \in Obj, Batch(p),
         SkipRow(p, o) \/ InsertRow(p, o) \/ UpdateRow(p, o)
           \/ DeleteRow(p, o) \/ RowFails(p, o)
  PROVE  Batch(p)'
<1> DEFINE k == o.key
           r == RowOf(p, o)
           live == img.live
           tombs == img.tombs
<1>1. tombs \in [Key -> Nat] /\ k \in Key
  BY DEF TypeOK, Table, Obj
<1>2. live \in SUBSET Row /\ r \in Row /\ r.key = k
  BY RowType DEF RowOf, TypeOK, Table
<1>3. UNCHANGED <<db, pc, deleteAction>>
  BY DEF SkipRow, InsertRow, UpdateRow, DeleteRow, RowFails, TakeRow, RowDone
<1>4. HasLive(img, k) => db.tombs[k] = 0 \/ ~Same(k)
  BY <1>1 DEF Same, OneRowPerKey, HasLive
<1>5. CASE SkipRow(p, o) \/ RowFails(p, o)
  <2>1. img' = img
    BY <1>5 DEF SkipRow, RowFails
  <2> QED
    BY <1>3, <2>1 DEF Batch, Same, Inserted, Updated, Marked, Removed, HasLive
<1>6. CASE InsertRow(p, o)
  <2>1. img' = [live |-> live \cup {r}, tombs |-> [tombs EXCEPT ![k] = 0]]
    BY <1>6 DEF InsertRow
  <2>2. ~HasLive(img, k) /\ pc[p] = "insert"
    BY <1>6 DEF InsertRow
  <2> HIDE DEF k, r, live, tombs
  <2>3. /\ img'.live = live \cup {r} /\ img'.tombs[k] = 0
        /\ \A j \in Key \ {k} : img'.tombs[j] = tombs[j]
    BY <1>1, <2>1
  <2>4. \A j \in Key \ {k} : /\ OfKey(img'.live, j) = OfKey(img.live, j)
                             /\ img'.tombs[j] = img.tombs[j]
    BY <1>1, <1>2, <2>3 DEF OfKey, Without, live, tombs
  <2>5. HasLive(img', k)
    BY <1>1, <1>2, <2>3 DEF HasLive, OfKey, Without
  <2>6. \A j \in Key : Same(j) \/ Inserted(j)
    BY <2>2 DEF Batch
  <2>7. ~HasLive(db, k)
    BY <1>1, <2>2, <2>6 DEF Same, Inserted, HasLive
  <2>8. \A j \in Key : Same(j)' \/ Inserted(j)'
    BY <1>3, <2>3, <2>4, <2>5, <2>6, <2>7 DEF Same, Inserted, HasLive
  <2> QED
    BY <1>3, <2>2, <2>8 DEF Batch
<1>7. CASE UpdateRow(p, o)
  <2>1. img' = [live |-> Without(live, k) \cup {r}, tombs |-> tombs]
    BY <1>7 DEF UpdateRow
  <2>2. HasLive(img, k) /\ pc[p] = "update"
    BY <1>7 DEF UpdateRow
  <2> HIDE DEF k, r, live, tombs
  <2>3. img'.live = Without(live, k) \cup {r} /\ img'.tombs = tombs
    BY <2>1
  <2>4. \A j \in Key \ {k} : OfKey(img'.live, j) = OfKey(img.live, j)
    BY <1>1, <1>2, <2>3 DEF OfKey, Without, live
  <2>5. HasLive(img', k) /\ img'.tombs = img.tombs
    BY <1>1, <1>2, <2>3 DEF HasLive, OfKey, Without, tombs
  <2>6. \A j \in Key : Same(j) \/ Updated(j)
    BY <2>2 DEF Batch
  <2>7. HasLive(db, k) /\ img.tombs[k] = db.tombs[k]
    BY <1>1, <2>2, <2>6 DEF Same, Updated, HasLive
  <2>8. \A j \in Key : Same(j)' \/ Updated(j)'
    BY <1>3, <2>4, <2>5, <2>6, <2>7 DEF Same, Updated, HasLive
  <2> QED
    BY <1>3, <2>2, <2>8 DEF Batch
<1>8. CASE DeleteRow(p, o)
  <2>1. IF deleteAction[p] = "MarkDeleted"
        THEN img' = [live |-> Without(live, k), tombs |-> [tombs EXCEPT ![k] = @ + 1]]
        ELSE img' = [live |-> Without(live, k), tombs |-> tombs]
    BY <1>8 DEF DeleteRow
  <2>2. HasLive(img, k) /\ pc[p] = "delete"
    BY <1>8 DEF DeleteRow
  <2> HIDE DEF k, r, live, tombs
  <2>3. /\ img'.live = Without(live, k)
        /\ img'.tombs[k] = IF deleteAction[p] = "MarkDeleted" THEN tombs[k] + 1 ELSE tombs[k]
        /\ \A j \in Key \ {k} : img'.tombs[j] = tombs[j]
    BY <1>1, <2>1
  <2>4. \A j \in Key \ {k} : /\ OfKey(img'.live, j) = OfKey(img.live, j)
                             /\ img'.tombs[j] = img.tombs[j]
    BY <1>1, <1>2, <2>3 DEF OfKey, Without, live, tombs
  <2>5. ~HasLive(img', k)
    BY <1>1, <1>2, <2>3 DEF HasLive, OfKey, Without
  <2>6. Same(k)
    BY <1>1, <2>2 DEF Batch, Marked, Removed
  <2>7. HasLive(db, k) /\ db.tombs[k] = 0 /\ tombs[k] = 0
    BY <1>4, <2>2, <2>6 DEF Same, HasLive, tombs
  <2>8. CASE deleteAction[p] = "MarkDeleted"
    <3>1. \A j \in Key : Same(j) \/ Marked(j)
      BY <2>2, <2>8 DEF Batch
    <3>2. img'.tombs[k] = 1
      BY <2>3, <2>7, <2>8
    <3>3. \A j \in Key : Same(j)' \/ Marked(j)'
      BY <1>3, <2>4, <2>5, <2>7, <3>1, <3>2 DEF Same, Marked, HasLive
    <3> QED
      BY <1>3, <2>2, <2>8, <3>3 DEF Batch
  <2>9. CASE deleteAction[p] # "MarkDeleted"
    <3>1. deleteAction[p] = "PurgeDeleted" /\ \A j \in Key : Same(j) \/ Removed(j)
      BY <2>2, <2>9 DEF Batch
    <3>2. img'.tombs[k] = db.tombs[k]
      BY <2>3, <2>7, <2>9
    <3>3. \A j \in Key : Same(j)' \/ Removed(j)'
      BY <1>3, <2>4, <2>5, <2>7, <3>1, <3>2 DEF Same, Removed, HasLive
    <3> QED
      BY <1>3, <2>2, <3>1, <3>3 DEF Batch
  <2> QED
    BY <2>8, <2>9
<1> QED
  BY <1>5, <1>6, <1>7, <1>8

\* A step that keeps p's loop as it is keeps its batch.
LEMMA BatchUnchanged ==
  ASSUME NEW p \in Proc, UNCHANGED <<db, img>>, pc'[p] = pc[p],
         deleteAction'[p] = deleteAction[p], Batch(p)
  PROVE  Batch(p)'
BY DEF Batch, Same, Inserted, Updated, Marked, Removed, HasLive

LEMMA BatchStep ==
  ASSUME TypeOK, SavingOK, Isolation, OneRowPerKey, "purge" \notin Faults, Batches,
         [Next]_vars
  PROVE  Batches'
<1> SUFFICES ASSUME NEW p \in Proc, looping'[p] PROVE Batch(p)'
  BY DEF Batches
<1> USE DEF TypeOK, SavingOK
<1>1. CASE UNCHANGED vars
  BY <1>1, BatchUnchanged DEF vars, table, saving, Batches
<1>2. ASSUME NEW q \in Proc, Call(q) PROVE Batch(p)'
  <2>1. Content # {}
    BY CopiesAssumption
  <2>2. looping' = looping
    BY <1>2, <2>1 DEF Call, Add, Replace, Edit, Delete, Load, FileChanged, SaveBegin,
                      PurgeDeleted, saving
  <2>3. looping[p] /\ pc[p] \in Phase
    BY <2>2
  <2>4. ~(\E action \in Action : SaveBegin(q, action))
        /\ ~(\E K \in SUBSET Key : PurgeDeleted(q, K))
    <3>1. inside # {}
      BY <2>3 DEF Isolation, Holding
    <3> QED
      BY <3>1 DEF SaveBegin, PurgeDeleted, Mutex!Enter
  <2>5. UNCHANGED <<db, img, pc, deleteAction>>
    BY <1>2, <2>1, <2>4 DEF Call, Add, Replace, Edit, Delete, Load, FileChanged,
                            table, saving
  <2> QED
    BY <2>3, <2>5, BatchUnchanged DEF Batches
<1>3. ASSUME NEW q \in Proc, q # p, SaveStep(q) PROVE Batch(p)'
  <2>1. looping[p]
    BY <1>3 DEF SaveStep, SkipList, BeginList, BeginFails, PrepareFails, NextList,
                EnterLoop, SkipRow, InsertRow, UpdateRow, DeleteRow, RowFails, RowDone,
                CommitList, CommitFails, Unlock, Signal, NoSave
  <2>2. pc[q] \notin Holding
    BY <1>3, <2>1, OneLoop
  <2>3. Signal(q)
    BY <1>3, <2>2 DEF SaveStep, SkipList, BeginList, BeginFails, PrepareFails, AtList,
                      SkipRow, InsertRow, UpdateRow, DeleteRow, RowFails, TakeRow,
                      CommitList, CommitFails, Committing, Unlock, Holding
  <2>4. UNCHANGED <<db, img>> /\ pc'[p] = pc[p] /\ deleteAction'[p] = deleteAction[p]
    BY <1>3, <2>3 DEF Signal, NoSave, table
  <2> QED
    BY <2>1, <2>4, BatchUnchanged DEF Batches
<1>4. CASE SaveStep(p)
  <2>1. CASE BeginList(p)
    <3>1. /\ pc[p] \in Phase /\ writer = {} /\ UNCHANGED <<db, img, pc, deleteAction>>
      BY <2>1 DEF BeginList, AtList, EnterLoop
    <3>2. img' = db'
      BY <3>1 DEF Isolation
    <3>3. \A k \in Key : Same(k)'
      BY <3>2 DEF Same
    <3> QED
      BY <3>1, <3>3 DEF Batch, Phase, Action
  <2>2. CASE \E o \in Obj : \/ SkipRow(p, o) \/ InsertRow(p, o) \/ UpdateRow(p, o)
                            \/ DeleteRow(p, o) \/ RowFails(p, o)
    <3>1. looping[p]
      BY <2>2 DEF SkipRow, InsertRow, UpdateRow, DeleteRow, RowFails, TakeRow
    <3> QED
      BY <2>2, <3>1, BatchRow DEF Batches
  <2>3. CASE \/ SkipList(p) \/ BeginFails(p) \/ PrepareFails(p)
             \/ CommitList(p) \/ CommitFails(p) \/ Signal(p)
    <3>1. looping'[p] = FALSE
      BY <2>3 DEF SkipList, BeginFails, PrepareFails, CommitList, CommitFails, Signal,
                  NextList, NoSave
    <3> QED
      BY <3>1
  <2>4. CASE Unlock(p)
    BY <2>4 DEF Unlock, Phase
  <2> QED
    BY <1>4, <2>1, <2>2, <2>3, <2>4 DEF SaveStep
<1>5. ASSUME NEW q \in Proc, End(q) PROVE Batch(p)'
  <2>1. /\ looping' = [looping EXCEPT ![q] = FALSE] /\ pc' = [pc EXCEPT ![q] = "idle"]
        /\ deleteAction' = [deleteAction EXCEPT ![q] = "MarkDeleted"]
        /\ db' = db /\ img' = IF q \in writer THEN db ELSE img
    BY <1>5 DEF End, NoSave
  <2>2. q # p /\ looping[p]
    BY <2>1
  <2>3. q \notin writer
    BY <2>2 DEF Isolation
  <2> QED
    BY <2>1, <2>2, <2>3, BatchUnchanged DEF Batches
<1> QED
  BY <1>1, <1>2, <1>3, <1>4, <1>5 DEF Next

\* COMMIT of a batch is a step of the store.
LEMMA CommitIsBatch ==
  ASSUME TypeOK, Batches, NEW p \in Proc, CommitList(p)
  PROVE  Store!StoreNext
<1> DEFINE K == {k \in Key : ~Same(k)}
<1>1. looping[p] /\ db' = img
  BY DEF CommitList, Committing
<1>2. /\ db.live \in SUBSET Row /\ img.live \in SUBSET Row
      /\ db.tombs \in [Key -> Nat] /\ img.tombs \in [Key -> Nat]
  BY DEF TypeOK, Table
<1>3. K \in SUBSET Key /\ \A k \in Key \ K : Same(k)
  OBVIOUS
<1>4. \A k \in Key : /\ k \in Store!LiveKeys <=> HasLive(db, k)
                     /\ k \in Store!LiveKeys' <=> HasLive(img, k)
  BY <1>1 DEF Store!LiveKeys, HasLive, OfKey
<1>5. Store!LiveKeys \subseteq Key /\ Store!LiveKeys' \subseteq Key
  BY <1>1, <1>2 DEF Store!LiveKeys, Row
<1>6. Store!Elsewhere(K)
  <2>1. ASSUME NEW r \in Row, r.key \notin K PROVE r \in img.live <=> r \in db.live
    <3>1. r.key \in Key
      BY DEF Row
    <3> QED
      BY <2>1, <3>1 DEF Same, OfKey
  <2> HIDE DEF K
  <2>2. {r \in img.live : r.key \notin K} = {r \in db.live : r.key \notin K}
    BY <1>2, <2>1
  <2>3. \A k \in Key \ K : img.tombs[k] = db.tombs[k]
    BY <1>3 DEF Same
  <2> QED
    BY <1>1, <2>2, <2>3 DEF Store!Elsewhere
<1>7. CASE \A k \in Key : Same(k) \/ Inserted(k)
  <2>1. \A k \in K : Inserted(k)
    BY <1>7
  <2> HIDE DEF K
  <2>2. Store!Insert(K)
    BY <1>1, <1>3, <1>4, <1>6, <2>1 DEF Store!Insert, Inserted
  <2> QED
    BY <1>3, <2>2 DEF Store!StoreNext
<1>8. CASE \A k \in Key : Same(k) \/ Updated(k)
  <2>1. \A k \in K : Updated(k)
    BY <1>8
  <2>2. \A k \in Key : HasLive(db, k) <=> HasLive(img, k)
    BY <1>8 DEF Same, Updated, HasLive
  <2>3. \A k \in Key : img.tombs[k] = db.tombs[k]
    BY <1>8 DEF Same, Updated
  <2> HIDE DEF K
  <2>4. db'.tombs = db.tombs
    BY <1>1, <1>2, <2>3
  <2>5. Store!LiveKeys' = Store!LiveKeys
    BY <1>4, <1>5, <2>2
  <2>6. Store!Update(K)
    BY <1>3, <1>4, <1>6, <2>1, <2>4, <2>5 DEF Store!Update, Updated
  <2> QED
    BY <1>3, <2>6 DEF Store!StoreNext
<1>9. CASE \A k \in Key : Same(k) \/ Marked(k)
  <2>1. \A k \in K : Marked(k)
    BY <1>9
  <2> HIDE DEF K
  <2>2. Store!Mark(K)
    BY <1>1, <1>3, <1>4, <1>6, <2>1 DEF Store!Mark, Marked
  <2> QED
    BY <1>3, <2>2 DEF Store!StoreNext
<1>10. CASE \A k \in Key : Same(k) \/ Removed(k)
  <2>1. \A k \in K : Removed(k)
    BY <1>10
  <2>2. \A k \in Key : img.tombs[k] = db.tombs[k]
    BY <1>10 DEF Same, Removed
  <2> HIDE DEF K
  <2>3. db'.tombs = db.tombs
    BY <1>1, <1>2, <2>2
  <2>4. Store!Remove(K)
    BY <1>1, <1>3, <1>4, <1>6, <2>1, <2>3 DEF Store!Remove, Removed
  <2> QED
    BY <1>3, <2>4 DEF Store!StoreNext
<1> QED
  BY <1>1, <1>7, <1>8, <1>9, <1>10 DEF Batches, Batch

\* Provided purging works, the table goes through the life cycle of its
\* incidences in batches of one kind, whatever else fails, whoever else writes
\* and wherever a process ends.
THEOREM BatchesOnly ==
  ASSUME "purge" \notin Faults
  PROVE  Spec => ImplementsStore
<1>1. Init => Store!StoreInit
  BY DEF Init, EmptyTable, Store!StoreInit
<1>2. Init => Batches
  BY DEF Init, Batches
<1>3. TypeOK /\ SavingOK /\ Isolation /\ OneRowPerKey /\ Batches /\ [Next]_vars => Batches'
  BY BatchStep
<1>4. TypeOK /\ SavingOK /\ Isolation /\ Batches /\ [Next]_vars => [Store!StoreNext]_db
  <2> SUFFICES ASSUME TypeOK, SavingOK, Isolation, Batches, [Next]_vars, db' # db
               PROVE  Store!StoreNext
    OBVIOUS
  <2>1. ~UNCHANGED vars
    BY DEF vars, table
  <2>2. ASSUME NEW p \in Proc, Call(p) PROVE Store!StoreNext
    <3>1. Content # {}
      BY CopiesAssumption
    <3>2. PICK K \in SUBSET Key : PurgeDeleted(p, K)
      BY <2>2, <3>1 DEF Call, Add, Replace, Edit, Delete, Load, FileChanged, SaveBegin, table
    <3>3. db' = [live |-> db.live, tombs |-> [k \in Key |-> IF k \in K THEN 0 ELSE db.tombs[k]]]
      BY <3>2 DEF PurgeDeleted, Isolation
    <3>4. Store!Purge(K)
      BY <3>3 DEF Store!Purge, Store!Elsewhere
    <3> QED
      BY <3>4 DEF Store!StoreNext
  <2>3. ASSUME NEW p \in Proc, SaveStep(p) PROVE Store!StoreNext
    <3>1. CommitList(p)
      BY <2>3 DEF SaveStep, SkipList, BeginList, BeginFails, PrepareFails, SkipRow,
                  InsertRow, UpdateRow, DeleteRow, RowFails, TakeRow, CommitFails,
                  Unlock, Signal, table
    <3> QED
      BY <3>1, CommitIsBatch
  <2>4. ASSUME NEW p \in Proc, End(p) PROVE Store!StoreNext
    BY <2>4 DEF End
  <2> QED
    BY <2>1, <2>2, <2>3, <2>4 DEF Next
<1> QED
  BY <1>1, <1>2, <1>3, <1>4, Isolated, RowsUnique, PTL DEF Spec, ImplementsStore, Store!StoreSpec

-----------------------------------------------------------------------------
(* A save that returns true has kept its promise. *)

\* A step of another process changes nothing a save of p depends on.
LEMMA Undisturbed ==
  ASSUME TypeOK, SavingOK, Isolation, NEW p \in Proc, pc[p] \in Holding,
         NEW q \in Proc, q # p, Call(q) \/ SaveStep(q) \/ End(q)
  PROVE  /\ pc'[p] = pc[p] /\ looping'[p] = looping[p] /\ work'[p] = work[p]
         /\ pend'[p] = pend[p] /\ asked'[p] = asked[p] /\ errors'[p] = errors[p]
         /\ content'[p] = content[p]
         /\ db' = db /\ (looping[p] => img' = img)
<1> USE DEF TypeOK, SavingOK
<1>1. inside # {} /\ q \notin inside
  BY OneHolder DEF Isolation
<1>2. pc[q] \notin Holding /\ ~looping[q]
  BY OneHolder, OneLoop
<1>3. CASE Call(q)
  <2>1. /\ ~(\E action \in Action : SaveBegin(q, action))
        /\ ~(\E K, skip \in SUBSET Key : Load(q, K, skip))
        /\ ~(\E K \in SUBSET Key : PurgeDeleted(q, K))
    BY <1>1 DEF SaveBegin, Load, PurgeDeleted, Mutex!Enter
  <2>2. CASE \E o \in Obj, c \in Content :
               Add(q, o, c) \/ Replace(q, o, c) \/ Edit(q, o, c) \/ Delete(q, o)
    <3>1. UNCHANGED <<db, img, pc, looping, work, errors, asked>>
      BY <2>2 DEF Add, Replace, Edit, Delete, table, saving, history
    <3>2. pend'[p] = pend[p] /\ content'[p] = content[p]
      BY <2>2 DEF Add, Replace, Edit, Delete
    <3> QED
      BY <3>1, <3>2
  <2>3. CASE FileChanged(q)
    BY <2>3 DEF FileChanged, table, saving, history
  <2>4. Content # {}
    BY CopiesAssumption
  <2> QED
    BY <1>3, <2>1, <2>2, <2>3, <2>4 DEF Call
<1>4. CASE SaveStep(q)
  <2>1. Signal(q)
    BY <1>2, <1>4 DEF SaveStep, SkipList, BeginList, BeginFails, PrepareFails, AtList,
                      SkipRow, InsertRow, UpdateRow, DeleteRow, RowFails, TakeRow,
                      CommitList, CommitFails, Committing, Unlock, Holding
  <2> QED
    BY <2>1 DEF Signal, NoSave, table, memory
<1>5. CASE End(q)
  <2>1. looping[p] => q \notin writer
    BY DEF Isolation
  <2> QED
    BY <1>5, <2>1 DEF End, NoSave
<1> QED
  BY <1>3, <1>4, <1>5

\* What the calendar of p holds, or p has still to save, is in a notebook.
StaysFiled(p) ==
  /\ ~event[p]
  /\ \A o \in cal[p] : o.key.uid \in filed[p]
  /\ \A ph \in Phase : \A o \in pend[p][ph] : o.key.uid \in filed[p]

LEMMA ListsFiled ==
  ASSUME NEW lists \in [Phase -> SUBSET Obj], NEW S \in SUBSET Uid, NEW o \in Obj,
         o.key.uid \in S, \A ph \in Phase : \A x \in lists[ph] : x.key.uid \in S
  PROVE  /\ \A ph \in Phase : \A x \in Added(lists, o)[ph] : x.key.uid \in S
         /\ \A ph \in Phase : \A x \in Changed(lists, o)[ph] : x.key.uid \in S
         /\ \A ph \in Phase : \A x \in Deleted(lists, o)[ph] : x.key.uid \in S
         /\ Deleted(lists, o) \in [Phase -> SUBSET Obj]
BY DEF Added, Changed, Deleted

LEMMA FiledCalendar ==
  ASSUME TypeOK, NEW p \in Proc, StaysFiled(p), NEW o \in Obj, NEW c \in Content,
         Add(p, o, c) \/ Replace(p, o, c) \/ Edit(p, o, c) \/ Delete(p, o)
  PROVE  StaysFiled(p)'
<1> USE DEF TypeOK
<1>1. pend[p] \in [Phase -> SUBSET Obj] /\ filed'[p] \in SUBSET Uid
      /\ filed[p] \subseteq filed'[p]
  <2>1. o.key.uid \in Uid
    BY DEF Obj, Uid
  <2>2. filed' = filed \/ filed' = [filed EXCEPT ![p] = filed[p] \cup {o.key.uid}]
    BY DEF Add, Replace, Edit, Delete
  <2> QED
    BY <2>1, <2>2
<1>2. event' = event
  BY DEF Add, Replace, Edit, Delete
<1>3. /\ \A x \in cal[p] : x.key.uid \in filed'[p]
      /\ \A ph \in Phase : \A x \in pend[p][ph] : x.key.uid \in filed'[p]
  BY <1>1 DEF StaysFiled
<1>4. CASE Add(p, o, c)
  <2>1. o.key.uid \in filed'[p] /\ pend'[p] = Added(pend[p], o) /\ cal'[p] = cal[p] \cup {o}
    BY <1>4 DEF Add
  <2>2. \A ph \in Phase : \A x \in pend'[p][ph] : x.key.uid \in filed'[p]
    BY <1>1, <1>3, <2>1, ListsFiled
  <2> QED
    BY <1>2, <1>3, <2>1, <2>2 DEF StaysFiled
<1>5. CASE Replace(p, o, c)
  <2>1. PICK old \in OfKey(cal[p], o.key) :
          /\ cal'[p] = (cal[p] \ {old}) \cup {o}
          /\ pend'[p] = Added(Deleted(pend[p], old), o)
    BY <1>5 DEF Replace
  <2>2. o.key.uid \in filed'[p]
    BY <1>5 DEF Replace
  <2>3. old \in Obj /\ old.key.uid \in filed'[p]
    BY <1>3 DEF OfKey
  <2> DEFINE lists == Deleted(pend[p], old)
  <2>4. \A ph \in Phase : \A x \in lists[ph] : x.key.uid \in filed'[p]
    BY <1>1, <1>3, <2>3, ListsFiled
  <2>5. lists \in [Phase -> SUBSET Obj]
    BY <1>1, <2>3 DEF Deleted
  <2> HIDE DEF lists
  <2>6. pend'[p] = Added(lists, o)
    BY <2>1 DEF lists
  <2>7. \A ph \in Phase : \A x \in pend'[p][ph] : x.key.uid \in filed'[p]
    BY <1>1, <2>2, <2>4, <2>5, <2>6, ListsFiled
  <2> QED
    BY <1>2, <1>3, <2>1, <2>2, <2>7 DEF StaysFiled
<1>6. CASE Edit(p, o, c)
  <2>1. o \in cal[p] /\ pend'[p] = Changed(pend[p], o) /\ cal'[p] = cal[p]
    BY <1>6 DEF Edit
  <2>2. \A ph \in Phase : \A x \in pend'[p][ph] : x.key.uid \in filed'[p]
    BY <1>1, <1>3, <2>1, ListsFiled
  <2> QED
    BY <1>2, <1>3, <2>1, <2>2 DEF StaysFiled
<1>7. CASE Delete(p, o)
  <2>1. o \in cal[p] /\ pend'[p] = Deleted(pend[p], o) /\ cal'[p] = cal[p] \ {o}
    BY <1>7 DEF Delete
  <2>2. \A ph \in Phase : \A x \in pend'[p][ph] : x.key.uid \in filed'[p]
    BY <1>1, <1>3, <2>1, ListsFiled
  <2> QED
    BY <1>2, <1>3, <2>1, <2>2 DEF StaysFiled
<1> QED
  BY <1>4, <1>5, <1>6, <1>7

LEMMA FiledStep ==
  ASSUME TypeOK, NEW p \in Proc \ Watching, StaysFiled(p), [Next]_vars
  PROVE  StaysFiled(p)'
<1> USE DEF TypeOK
<1>1. ASSUME UNCHANGED <<cal, filed>>, pend' = pend, event'[p] = event[p]
      PROVE  StaysFiled(p)'
  BY <1>1 DEF StaysFiled
<1>2. ASSUME NEW q \in Proc, Call(q) PROVE StaysFiled(p)'
  <2>1. CASE \E o \in Obj, c \in Content :
               Add(q, o, c) \/ Replace(q, o, c) \/ Edit(q, o, c) \/ Delete(q, o)
    <3>1. CASE q = p
      BY <2>1, <3>1, FiledCalendar
    <3>2. CASE q # p
      <4>1. /\ cal'[p] = cal[p] /\ filed'[p] = filed[p] /\ pend'[p] = pend[p]
            /\ event'[p] = event[p]
        BY <2>1, <3>2 DEF Add, Replace, Edit, Delete
      <4> QED
        BY <4>1 DEF StaysFiled
    <3> QED
      BY <3>1, <3>2
  <2>2. CASE \E K, skip \in SUBSET Key : Load(q, K, skip)
    <3>1. PICK K \in SUBSET Key, skip \in SUBSET Key : Load(q, K, skip)
      BY <2>2
    <3>2. PICK G : /\ cal' = [cal EXCEPT ![q] = {o \in @ : o.key \notin G}
                                \cup {[key |-> k, copy |-> FirstCopy] : k \in G}]
                   /\ filed' = [filed EXCEPT ![q] = @ \cup {k.uid : k \in G}]
                   /\ pend' = pend /\ event' = event
      BY <3>1 DEF Load
    <3>3. \A o \in cal'[p] : o.key.uid \in filed'[p]
      <4>1. CASE q = p
        BY <3>2, <4>1 DEF StaysFiled
      <4>2. CASE q # p
        BY <3>2, <4>2 DEF StaysFiled
      <4> QED
        BY <4>1, <4>2
    <3>4. filed[p] \subseteq filed'[p]
      BY <3>2
    <3> QED
      BY <3>2, <3>3, <3>4 DEF StaysFiled
  <2>3. CASE FileChanged(q)
    BY <2>3 DEF FileChanged, StaysFiled
  <2>4. CASE \/ \E action \in Action : SaveBegin(q, action)
             \/ \E K \in SUBSET Key : PurgeDeleted(q, K)
    BY <1>1, <2>4 DEF SaveBegin, PurgeDeleted, memory
  <2>5. Content # {}
    BY CopiesAssumption
  <2> QED
    BY <1>2, <2>1, <2>2, <2>3, <2>4, <2>5 DEF Call
<1>3. ASSUME NEW q \in Proc, SaveStep(q) PROVE StaysFiled(p)'
  <2>1. CASE CommitList(q) \/ CommitFails(q)
    <3>1. UNCHANGED <<cal, filed, event>> /\ pend' = [pend EXCEPT ![q][pc[q]] = {}]
      BY <2>1 DEF CommitList, CommitFails, Committing, memory
    <3>2. \A ph \in Phase : pend'[p][ph] \subseteq pend[p][ph]
      BY <3>1
    <3> QED
      BY <3>1, <3>2 DEF StaysFiled
  <2>2. CASE Signal(q)
    <3>1. event'[p] = event[p]
      BY <2>2 DEF Signal
    <3> QED
      BY <1>1, <2>2, <3>1 DEF Signal, memory
  <2>3. CASE ~(CommitList(q) \/ CommitFails(q) \/ Signal(q))
    BY <1>1, <1>3, <2>3 DEF SaveStep, SkipList, BeginList, BeginFails, PrepareFails,
         SkipRow, InsertRow, UpdateRow, DeleteRow, RowFails, TakeRow, Unlock, memory
  <2> QED
    BY <2>1, <2>2, <2>3
<1>4. ASSUME NEW q \in Proc, End(q) PROVE StaysFiled(p)'
  BY <1>4 DEF End, StaysFiled, NoPending
<1>5. CASE UNCHANGED vars
  BY <1>1, <1>5 DEF vars, memory
<1> QED
  BY <1>2, <1>3, <1>4, <1>5 DEF Next

LEMMA Filed == Spec => [](\A p \in Proc \ Watching : StaysFiled(p))
<1>1. Init => \A p \in Proc \ Watching : StaysFiled(p)
  <2> SUFFICES ASSUME Init, NEW p \in Proc PROVE StaysFiled(p)
    OBVIOUS
  <2>1. pend[p] = NoPending /\ cal[p] = {} /\ event[p] = FALSE
    BY DEF Init
  <2> QED
    BY <2>1 DEF StaysFiled, NoPending
<1>2. TypeOK /\ (\A p \in Proc \ Watching : StaysFiled(p)) /\ [Next]_vars
        => (\A p \in Proc \ Watching : StaysFiled(p))'
  BY FiledStep
<1> QED
  BY <1>1, <1>2, TypeCorrect, PTL DEF Spec

\* What a save has still to do with a list, and the table it has reached.
Left(p, ph) == IF looping[p] /\ pc[p] = ph THEN work[p] ELSE pend[p][ph]
Reached(p) == IF looping[p] THEN img ELSE db

Stored(p, T, o) == \E r \in T.live : r.key = o.key /\ r.content = content[p][o]

\* No other pending object has the key of one that is to be written, and this
\* one is still in its list or in the table.
ToWrite(p, o) ==
  /\ \A ph \in Phase : \A x \in pend[p][ph] : x.key = o.key => x = o /\ ph # "delete"
  /\ \/ pc[p] = "insert" /\ o \in Left(p, "insert")
     \/ pc[p] \in {"insert", "update"} /\ o \in Left(p, "update")
     \/ Stored(p, Reached(p), o)

\* A key that is to be erased has an object left to delete, or no row.
ToErase(p, k) ==
  \/ pc[p] \in Phase /\ \E x \in Left(p, "delete") : x.key = k
  \/ pc[p] \in {"delete", "unlock"} /\ ~HasLive(Reached(p), k)

OnTheWay(p) ==
  pc[p] \in Holding /\ ~errors[p] =>
    /\ \A o \in asked[p].write : ToWrite(p, o)
    /\ \A k \in asked[p].erase : ToErase(p, k)

LEMMA WayUndisturbed ==
  ASSUME NEW p \in Proc, OnTheWay(p),
         pc'[p] = pc[p], looping'[p] = looping[p], work'[p] = work[p],
         pend'[p] = pend[p], asked'[p] = asked[p], errors'[p] = errors[p],
         content'[p] = content[p], db' = db, looping[p] => img' = img
  PROVE  OnTheWay(p)'
<1>1. /\ \A ph : Left(p, ph)' = Left(p, ph)
      /\ Reached(p)' = Reached(p)
  BY DEF Left, Reached
<1>2. \A o : Stored(p, Reached(p), o)' <=> Stored(p, Reached(p), o)
  BY <1>1 DEF Stored
<1>3. \A k : HasLive(Reached(p), k)' <=> HasLive(Reached(p), k)
  BY <1>1 DEF HasLive
<1> QED
  BY <1>1, <1>2, <1>3 DEF OnTheWay, ToWrite, ToErase

\* The request is what the lists hold when the save begins.
LEMMA WayBegins ==
  ASSUME TypeOK, SavingOK, NEW p \in Proc, NEW action \in Action, SaveBegin(p, action)
  PROVE  OnTheWay(p)'
<1> USE DEF TypeOK, SavingOK
<1> DEFINE lists == pend[p]
<1>1. /\ pc[p] = "idle" /\ pc'[p] = "insert" /\ looping' = looping /\ pend' = pend
      /\ asked'[p] = Request(lists)
  BY DEF SaveBegin, Idle
<1>2. ~looping[p]
  BY <1>1 DEF Phase
<1>3. \A ph : Left(p, ph)' = pend[p][ph]
  BY <1>1, <1>2 DEF Left
<1>4. ASSUME NEW o \in Request(lists).write PROVE ToWrite(p, o)'
  <2>1. /\ o \in lists["insert"] \cup lists["update"] /\ o \notin lists["delete"]
        /\ OfKey(UNION {lists[ph] : ph \in Phase}, o.key) \ {o} = {}
    BY DEF Request
  <2>2. \A ph \in Phase : \A x \in lists[ph] : x.key = o.key => x = o /\ ph # "delete"
    BY <2>1 DEF OfKey
  <2> QED
    BY <1>1, <1>3, <2>1, <2>2 DEF ToWrite
<1>5. ASSUME NEW k \in Request(lists).erase PROVE ToErase(p, k)'
  <2>1. k \in Keys(lists["delete"])
    BY DEF Request
  <2> QED
    BY <1>1, <1>3, <2>1 DEF ToErase, Keys, Phase
<1> QED
  BY <1>1, <1>4, <1>5 DEF OnTheWay

\* A list is done: it is empty, or nothing of it is left and COMMIT works.
LEMMA WayNextList ==
  ASSUME TypeOK, SavingOK, Isolation, NEW p \in Proc, OnTheWay(p),
         SkipList(p) \/ CommitList(p)
  PROVE  OnTheWay(p)'
<1> USE DEF TypeOK, SavingOK
<1>1. /\ pc[p] \in Phase /\ pc'[p] = After[pc[p]] /\ looping'[p] = FALSE
      /\ errors'[p] = errors[p] /\ asked' = asked /\ content' = content
  <2>1. \E committed : NextList(p, TRUE, committed)
    BY DEF SkipList, CommitList
  <2>2. pc[p] \in Phase /\ asked' = asked /\ content' = content
    BY DEF SkipList, CommitList, Committing, history, memory
  <2> QED
    BY <2>1, <2>2 DEF NextList
<1>2. Left(p, pc[p]) = {}
  BY DEF SkipList, CommitList, Committing, Left
<1>3. pend'[p] = [pend[p] EXCEPT ![pc[p]] = {}]
  <2>1. CASE SkipList(p)
    BY <2>1 DEF SkipList
  <2>2. CASE CommitList(p)
    BY <2>2 DEF CommitList, Committing
  <2> QED
    BY <2>1, <2>2
<1>4. \A ph \in Phase : ph # pc[p] => Left(p, ph)' = Left(p, ph)
  BY <1>1, <1>3 DEF Left
<1>5. \A ph \in Phase : pend'[p][ph] \subseteq pend[p][ph]
  BY <1>1, <1>3
<1>6. Reached(p)' = Reached(p)
  BY <1>1 DEF Reached, SkipList, CommitList, Committing, table
<1>7. \A o : Stored(p, Reached(p), o)' <=> Stored(p, Reached(p), o)
  BY <1>1, <1>6 DEF Stored
<1>8. \A k : HasLive(Reached(p), k)' <=> HasLive(Reached(p), k)
  BY <1>6 DEF HasLive
<1>9. SUFFICES ASSUME ~errors[p] PROVE OnTheWay(p)'
  BY <1>1 DEF OnTheWay
<1>10. /\ \A o \in asked[p].write : ToWrite(p, o)
       /\ \A k \in asked[p].erase : ToErase(p, k)
  BY <1>1, <1>9 DEF OnTheWay, Holding
<1>11. ASSUME NEW o \in asked[p].write PROVE ToWrite(p, o)'
  <2>1. \A ph \in Phase : \A x \in pend'[p][ph] : x.key = o.key => x = o /\ ph # "delete"
    BY <1>5, <1>10 DEF ToWrite
  <2>2. \/ pc'[p] = "update" /\ o \in Left(p, "update")'
        \/ Stored(p, Reached(p), o)'
    BY <1>1, <1>2, <1>4, <1>7, <1>10 DEF ToWrite, After, Phase
  <2> QED
    BY <2>1, <2>2 DEF ToWrite
<1>12. ASSUME NEW k \in asked[p].erase PROVE ToErase(p, k)'
  <2>1. CASE pc[p] \in {"insert", "update"}
    <3>1. \E x \in Left(p, "delete") : x.key = k
      BY <1>10, <2>1 DEF ToErase
    <3> QED
      BY <1>1, <1>4, <2>1, <3>1 DEF ToErase, After, Phase
  <2>2. CASE pc[p] = "delete"
    <3>1. ~HasLive(Reached(p), k)
      BY <1>2, <1>10, <2>2 DEF ToErase
    <3> QED
      BY <1>1, <1>8, <2>2, <3>1 DEF ToErase, After
  <2> QED
    BY <1>1, <2>1, <2>2 DEF Phase
<1> QED
  BY <1>1, <1>11, <1>12 DEF OnTheWay

\* One incidence of the list, which is in a notebook.
LEMMA WayRow ==
  ASSUME TypeOK, SavingOK, Isolation, NEW p \in Proc, OnTheWay(p), StaysFiled(p),
         NEW o \in Obj,
         SkipRow(p, o) \/ InsertRow(p, o) \/ UpdateRow(p, o)
           \/ DeleteRow(p, o) \/ RowFails(p, o)
  PROVE  OnTheWay(p)'
<1> USE DEF TypeOK, SavingOK
<1>1. /\ looping[p] /\ o \in work[p] /\ pc[p] \in Phase
      /\ work'[p] = work[p] \ {o}
      /\ UNCHANGED <<pc, looping, pend, asked, content>>
  BY DEF SkipRow, InsertRow, UpdateRow, DeleteRow, RowFails, TakeRow, RowDone,
         history, memory
<1>2. o \in pend[p][pc[p]]
  BY <1>1 DEF Isolation
<1>3. ~SkipRow(p, o)
  BY <1>1, <1>2 DEF SkipRow, IsFiled, StaysFiled
<1>4. RowFails(p, o) => errors'[p]
  BY DEF RowFails, RowDone
<1>5. errors[p] => errors'[p]
  BY DEF SkipRow, InsertRow, UpdateRow, DeleteRow, RowFails, RowDone
<1>6. SUFFICES ASSUME ~errors'[p] PROVE OnTheWay(p)'
  BY DEF OnTheWay
<1>7. InsertRow(p, o) \/ UpdateRow(p, o) \/ DeleteRow(p, o)
  BY <1>3, <1>4, <1>6
<1>8. /\ \A x \in asked[p].write : ToWrite(p, x)
      /\ \A k \in asked[p].erase : ToErase(p, k)
  BY <1>1, <1>5, <1>6 DEF OnTheWay, Holding
<1>9. /\ \A ph \in Phase : Left(p, ph)' = IF ph = pc[p] THEN Left(p, ph) \ {o}
                                          ELSE Left(p, ph)
      /\ Reached(p) = img /\ Reached(p)' = img'
  BY <1>1 DEF Left, Reached
<1>10. /\ pc[p] = "insert" => InsertRow(p, o)
       /\ pc[p] = "update" => UpdateRow(p, o)
       /\ pc[p] = "delete" => DeleteRow(p, o)
  BY <1>7 DEF InsertRow, UpdateRow, DeleteRow
<1>11. \/ /\ pc[p] # "delete"
          /\ \/ img'.live = img.live \cup {RowOf(p, o)}
             \/ img'.live = Without(img.live, o.key) \cup {RowOf(p, o)}
       \/ pc[p] = "delete" /\ img'.live = Without(img.live, o.key)
  <2>1. CASE InsertRow(p, o)
    <3>1. pc[p] # "delete" /\ \E t : img' = [live |-> img.live \cup {RowOf(p, o)}, tombs |-> t]
      BY <2>1 DEF InsertRow
    <3> QED
      BY <3>1
  <2>2. CASE UpdateRow(p, o)
    BY <2>2 DEF UpdateRow
  <2>3. CASE DeleteRow(p, o)
    <3>1. pc[p] = "delete" /\ \E t : img' = [live |-> Without(img.live, o.key), tombs |-> t]
      BY <2>3 DEF DeleteRow
    <3> QED
      BY <3>1
  <2> QED
    BY <1>7, <2>1, <2>2, <2>3
<1>12. RowOf(p, o).key = o.key /\ RowOf(p, o).content = content[p][o]
  BY DEF RowOf
<1>13. ASSUME NEW x \in asked[p].write PROVE ToWrite(p, x)'
  <2>1. \A ph \in Phase : \A y \in pend[p][ph] : y.key = x.key => y = x /\ ph # "delete"
    BY <1>8 DEF ToWrite
  <2>2. CASE x = o /\ pc[p] # "delete"
    <3>1. RowOf(p, o) \in img'.live
      BY <1>11, <2>2
    <3>2. Stored(p, Reached(p), x)'
      BY <1>1, <1>9, <1>12, <2>2, <3>1 DEF Stored
    <3> QED
      BY <1>1, <2>1, <3>2 DEF ToWrite
  <2>3. CASE x # o \/ pc[p] = "delete"
    <3>1. o.key # x.key
      BY <1>1, <1>2, <2>1, <2>3
    <3>2. CASE Stored(p, Reached(p), x)
      <4>1. PICK r \in img.live : r.key = x.key /\ r.content = content[p][x]
        BY <1>9, <3>2 DEF Stored
      <4>2. r \in img'.live
        BY <1>11, <3>1, <4>1 DEF Without
      <4>3. Stored(p, Reached(p), x)'
        BY <1>1, <1>9, <4>1, <4>2 DEF Stored
      <4> QED
        BY <1>1, <2>1, <4>3 DEF ToWrite
    <3>3. CASE pc[p] = "insert" /\ x \in Left(p, "insert")
      <4>1. x \in Left(p, "insert")'
        BY <1>9, <2>3, <3>3 DEF Phase
      <4> QED
        BY <1>1, <2>1, <3>3, <4>1 DEF ToWrite
    <3>4. CASE pc[p] \in {"insert", "update"} /\ x \in Left(p, "update")
      <4>1. x \in Left(p, "update")'
        BY <1>9, <2>3, <3>4 DEF Phase
      <4> QED
        BY <1>1, <2>1, <3>4, <4>1 DEF ToWrite
    <3> QED
      BY <1>8, <3>2, <3>3, <3>4 DEF ToWrite
  <2> QED
    BY <2>2, <2>3
<1>14. ASSUME NEW k \in asked[p].erase PROVE ToErase(p, k)'
  <2>1. CASE pc[p] # "delete"
    <3>1. \E x \in Left(p, "delete") : x.key = k
      BY <1>1, <1>8, <2>1 DEF ToErase, Phase
    <3>2. Left(p, "delete")' = Left(p, "delete")
      BY <1>9, <2>1 DEF Phase
    <3> QED
      BY <1>1, <3>1, <3>2 DEF ToErase
  <2>2. CASE pc[p] = "delete" /\ k = o.key
    <3>1. ~HasLive(img', k)
      BY <1>11, <2>2 DEF HasLive, OfKey, Without
    <3>2. ~HasLive(Reached(p), k)'
      BY <1>9, <3>1 DEF HasLive
    <3> QED
      BY <1>1, <2>2, <3>2 DEF ToErase
  <2>3. CASE pc[p] = "delete" /\ k # o.key
    <3>1. CASE \E x \in Left(p, "delete") : x.key = k
      <4>1. \E x \in Left(p, "delete")' : x.key = k
        BY <1>9, <2>3, <3>1 DEF Phase
      <4> QED
        BY <1>1, <4>1 DEF ToErase
    <3>2. CASE ~HasLive(Reached(p), k)
      <4>1. ~HasLive(img', k)
        BY <1>9, <1>11, <2>3, <3>2 DEF HasLive, OfKey, Without
      <4>2. ~HasLive(Reached(p), k)'
        BY <1>9, <4>1 DEF HasLive
      <4> QED
        BY <1>1, <2>3, <4>2 DEF ToErase
    <3> QED
      BY <1>8, <3>1, <3>2 DEF ToErase
  <2> QED
    BY <2>1, <2>2, <2>3
<1> QED
  BY <1>1, <1>13, <1>14 DEF OnTheWay

LEMMA WayStep ==
  ASSUME TypeOK, SavingOK, Isolation, NEW p \in Proc, StaysFiled(p), OnTheWay(p), [Next]_vars
  PROVE  OnTheWay(p)'
<1> USE DEF TypeOK, SavingOK
<1>1. CASE UNCHANGED vars
  BY <1>1, WayUndisturbed DEF vars, table, memory, saving, history
<1>2. ASSUME NEW q \in Proc, q # p, Call(q) \/ SaveStep(q) \/ End(q) PROVE OnTheWay(p)'
  <2>1. CASE pc[p] \in Holding
    BY <1>2, <2>1, Undisturbed, WayUndisturbed
  <2>2. CASE pc[p] \notin Holding
    <3>1. pc'[p] = pc[p]
      <4>1. Content # {}
        BY CopiesAssumption
      <4>2. CASE Call(q)
        BY <1>2, <4>1, <4>2 DEF Call, Add, Replace, Edit, Delete, Load, FileChanged,
                                SaveBegin, PurgeDeleted, saving
      <4>3. CASE SaveStep(q)
        BY <1>2, <4>3 DEF SaveStep, SkipList, BeginList, BeginFails, PrepareFails,
             NextList, EnterLoop, SkipRow, InsertRow, UpdateRow, DeleteRow, RowFails,
             RowDone, CommitList, CommitFails, Unlock, Signal, NoSave
      <4>4. CASE End(q)
        BY <1>2, <4>4 DEF End, NoSave
      <4> QED
        BY <1>2, <4>2, <4>3, <4>4
    <3> QED
      BY <2>2, <3>1 DEF OnTheWay
  <2> QED
    BY <2>1, <2>2
<1>3. CASE Call(p)
  <2>1. CASE \E action \in Action : SaveBegin(p, action)
    BY <2>1, WayBegins
  <2>2. CASE ~(\E action \in Action : SaveBegin(p, action))
    <3>1. Content # {}
      BY CopiesAssumption
    <3>2. pc[p] = "idle" /\ pc' = pc
      BY <1>3, <2>2, <3>1 DEF Call, Add, Replace, Edit, Delete, Load, FileChanged,
                              PurgeDeleted, Idle, saving
    <3> QED
      BY <3>2 DEF OnTheWay, Holding, Phase
  <2> QED
    BY <2>1, <2>2
<1>4. CASE SaveStep(p)
  <2>1. CASE SkipList(p) \/ CommitList(p)
    BY <2>1, WayNextList
  <2>2. CASE \E o \in Obj : \/ SkipRow(p, o) \/ InsertRow(p, o) \/ UpdateRow(p, o)
                            \/ DeleteRow(p, o) \/ RowFails(p, o)
    BY <2>2, WayRow
  <2>3. CASE BeginFails(p) \/ PrepareFails(p) \/ CommitFails(p)
    <3>1. errors'[p]
      BY <2>3 DEF BeginFails, PrepareFails, CommitFails, NextList
    <3> QED
      BY <3>1 DEF OnTheWay
  <2>4. CASE BeginList(p)
    <3>1. /\ pc[p] \in Phase /\ ~looping[p] /\ looping'[p] = TRUE
          /\ work'[p] = pend[p][pc[p]]
          /\ UNCHANGED <<pc, pend, asked, errors, content, db, img>>
      BY <2>4 DEF BeginList, AtList, EnterLoop, history, memory
    <3>2. img' = db
      BY <2>4, <3>1 DEF BeginList, Isolation
    <3>3. (\A ph : Left(p, ph)' = Left(p, ph)) /\ Reached(p)' = Reached(p)
      BY <3>1, <3>2 DEF Left, Reached
    <3>4. \A o : Stored(p, Reached(p), o)' <=> Stored(p, Reached(p), o)
      BY <3>1, <3>3 DEF Stored
    <3>5. \A k : HasLive(Reached(p), k)' <=> HasLive(Reached(p), k)
      BY <3>3 DEF HasLive
    <3> QED
      BY <3>1, <3>3, <3>4, <3>5 DEF OnTheWay, ToWrite, ToErase
  <2>5. CASE Unlock(p) \/ Signal(p)
    <3>1. pc'[p] \in {"idle", "signal"}
      BY <2>5 DEF Unlock, Signal, NoSave
    <3> QED
      BY <3>1 DEF OnTheWay, Holding, Phase
  <2> QED
    BY <1>4, <2>1, <2>2, <2>3, <2>4, <2>5 DEF SaveStep
<1>5. CASE End(p)
  <2>1. pc'[p] = "idle"
    BY <1>5 DEF End, NoSave
  <2> QED
    BY <2>1 DEF OnTheWay, Holding, Phase
<1> QED
  BY <1>1, <1>2, <1>3, <1>4, <1>5 DEF Next

\* Whatever fails and whoever else writes, a save that is about to return true
\* has written and erased what it was asked to, for a storage whose calendar no
\* signal empties.
THEOREM PromiseKept == Spec => []SaveKeepsPromise
<1> DEFINE Way == \A p \in Proc \ Watching : OnTheWay(p)
           Fil == \A p \in Proc \ Watching : StaysFiled(p)
<1>1. Init => Way
  BY DEF Init, OnTheWay, Holding, Phase
<1>2. TypeOK /\ SavingOK /\ Isolation /\ Fil /\ Way /\ [Next]_vars => Way'
  BY WayStep
<1>3. SavingOK /\ Way => SaveKeepsPromise
  <2> SUFFICES ASSUME SavingOK, NEW p \in Proc \ Watching, OnTheWay(p),
                      pc[p] = "unlock", ~errors[p]
               PROVE  /\ \A o \in asked[p].write : \E r \in db.live :
                           r.key = o.key /\ r.content = content[p][o]
                      /\ asked[p].erase \cap Keys(db.live) = {}
    BY DEF SaveKeepsPromise, Promise
  <2>1. ~looping[p] /\ Reached(p) = db
    BY DEF SavingOK, Phase, Reached
  <2>2. /\ \A o \in asked[p].write : ToWrite(p, o)
        /\ \A k \in asked[p].erase : ToErase(p, k)
    BY DEF OnTheWay, Holding
  <2>3. \A o \in asked[p].write : Stored(p, db, o)
    BY <2>1, <2>2 DEF ToWrite
  <2>4. \A k \in asked[p].erase : ~HasLive(db, k)
    BY <2>1, <2>2 DEF ToErase, Phase
  <2> QED
    BY <2>3, <2>4 DEF Stored, HasLive, OfKey, Keys
<1> QED
  BY <1>1, <1>2, <1>3, Isolated, Filed, PTL DEF Spec

-----------------------------------------------------------------------------
(* With one process, what is not pending is stored. *)

\* Each calendar has one object of a key, and knows its notebook.
CalendarOK(p) ==
  /\ \A o \in cal[p] : o.key.uid \in filed[p]
  /\ \A o, x \in cal[p] : o.key = x.key => o = x
  /\ Idle(p) => ~errors[p]

\* The row of an object whose notebook is known.
CleanRow(p, o) == [key |-> o.key, content |-> content[p][o], filed |-> TRUE]

LEMMA RowOfFiled ==
  ASSUME NEW p, NEW o, o.key.uid \in filed[p]
  PROVE  RowOf(p, o) = CleanRow(p, o)
<1> DEFINE f == o.key.uid \in filed[p]
<1>1. f = TRUE
  OBVIOUS
<1>2. RowOf(p, o) = [key |-> o.key, content |-> content[p][o], filed |-> f]
  BY DEF RowOf
<1> HIDE DEF f
<1> QED
  BY <1>1, <1>2 DEF CleanRow

\* What is left of the lists fits the calendar C and the image: what is to be
\* updated or deleted has a row, once; an object that is in the calendar and not
\* to be inserted has no other pending object of its key.
Tidy(C, ins, upd, del) ==
  /\ \A x \in upd \cup del : HasLive(img, x.key)
  /\ \A x, y \in upd : x.key = y.key => x = y
  /\ \A x, y \in del : x.key = y.key => x = y
  /\ \A o \in C \ ins : \A x \in del : x.key # o.key
  /\ \A o \in C \ ins : \A x \in upd : x.key = o.key => x = o

\* Until something fails.
Clean(p) ==
  ~failed[p] /\ ~errors[p] =>
    /\ ~looping[p] => img.live = db.live
    /\ Tidy(cal[p], Left(p, "insert"), Left(p, "update"), Left(p, "delete"))
    /\ \A o \in cal[p] \ (Left(p, "insert") \cup Left(p, "update")) :
         CleanRow(p, o) \in img.live
    /\ pc[p] \in {"update", "delete", "unlock", "signal"} => Left(p, "insert") = {}
    /\ pc[p] \in {"delete", "unlock", "signal"} => Left(p, "update") = {}
    /\ pc[p] \in {"unlock", "signal"} => Left(p, "delete") = {}

\* The calls find the lists as they are between two saves.
CleanIdle(p) ==
  ~failed[p] =>
    /\ img.live = db.live
    /\ Tidy(cal[p], pend[p]["insert"], pend[p]["update"], pend[p]["delete"])
    /\ \A o \in cal[p] \ (pend[p]["insert"] \cup pend[p]["update"]) :
         CleanRow(p, o) \in img.live

LEMMA IdleIsClean ==
  ASSUME SavingOK, NEW p \in Proc, Idle(p), ~errors[p]
  PROVE  Clean(p) <=> CleanIdle(p)
<1>1. ~looping[p] /\ pc[p] = "idle"
  BY DEF SavingOK, Idle, Phase
<1>2. \A ph : Left(p, ph) = pend[p][ph]
  BY <1>1 DEF Left
<1> QED
  BY <1>1, <1>2 DEF Clean, CleanIdle

\* What the notifications do to each list.
LEMMA Notified ==
  ASSUME NEW lists \in [Phase -> SUBSET Obj], NEW o \in Obj
  PROVE  /\ Added(lists, o) \in [Phase -> SUBSET Obj]
         /\ Added(lists, o)["insert"] = lists["insert"] \cup {o}
         /\ Added(lists, o)["update"] = lists["update"]
         /\ Added(lists, o)["delete"] = lists["delete"]
         /\ Changed(lists, o) \in [Phase -> SUBSET Obj]
         /\ Changed(lists, o)["insert"] = lists["insert"]
         /\ Changed(lists, o)["update"] =
              IF o \in lists["insert"] THEN lists["update"] ELSE lists["update"] \cup {o}
         /\ Changed(lists, o)["delete"] = lists["delete"]
         /\ Deleted(lists, o) \in [Phase -> SUBSET Obj]
         /\ Deleted(lists, o)["insert"] =
              IF o \in lists["insert"] THEN lists["insert"] \ {o} ELSE lists["insert"]
         /\ Deleted(lists, o)["update"] = lists["update"]
         /\ Deleted(lists, o)["delete"] =
              IF o \in lists["insert"] THEN lists["delete"] ELSE lists["delete"] \cup {o}
<1>1. CASE o \in lists["insert"]
  <2>1. /\ Changed(lists, o) = lists
        /\ Deleted(lists, o) = [lists EXCEPT !["insert"] = @ \ {o}]
    BY <1>1 DEF Changed, Deleted
  <2> QED
    BY <1>1, <2>1 DEF Added, Phase
<1>2. CASE o \notin lists["insert"]
  <2>1. /\ Changed(lists, o) = [lists EXCEPT !["update"] = @ \cup {o}]
        /\ Deleted(lists, o) = [lists EXCEPT !["delete"] = @ \cup {o}]
    BY <1>2 DEF Changed, Deleted
  <2> QED
    BY <1>2, <2>1 DEF Added, Phase
<1> QED
  BY <1>1, <1>2

LEMMA CleanCalendar ==
  ASSUME TypeOK, NEW p \in Proc, CalendarOK(p), CleanIdle(p), NEW o \in Obj,
         NEW c \in Content, Add(p, o, c) \/ Replace(p, o, c) \/ Edit(p, o, c) \/ Delete(p, o)
  PROVE  CalendarOK(p)' /\ CleanIdle(p)'
<1> USE DEF TypeOK
<1>1. /\ UNCHANGED <<db, img, pc, errors, failed>>
      /\ filed[p] \subseteq filed'[p]
      /\ \A x \in Obj \ {o} : content'[p][x] = content[p][x]
  <2>1. UNCHANGED <<db, img, pc, errors, failed>>
    BY DEF Add, Replace, Edit, Delete, table, saving, history
  <2>2. filed' = filed \/ filed' = [filed EXCEPT ![p] = filed[p] \cup {o.key.uid}]
    BY DEF Add, Replace, Edit, Delete
  <2>3. content' = content \/ content' = [content EXCEPT ![p] = [content[p] EXCEPT ![o] = c]]
    BY DEF Add, Replace, Edit, Delete
  <2> QED
    BY <2>1, <2>2, <2>3
<1>2. \A x \in Obj \ {o} : CleanRow(p, x)' = CleanRow(p, x)
  BY <1>1 DEF CleanRow
<1>3. \A k : HasLive(img, k)' <=> HasLive(img, k)
  BY <1>1 DEF HasLive
<1>4. pend[p] \in [Phase -> SUBSET Obj] /\ cal[p] \subseteq Obj
  OBVIOUS
<1> DEFINE lists == pend[p]
           I(ls) == ls["insert"]
           U(ls) == ls["update"]
           D(ls) == ls["delete"]
\* It is enough to look at the calendar and the lists.
<1>5. ASSUME NEW C \in SUBSET Obj, NEW ls \in [Phase -> SUBSET Obj],
             cal'[p] = C, pend'[p] = ls,
             \A x \in C : x.key.uid \in filed'[p],
             \A x, y \in C : x.key = y.key => x = y,
             ~failed[p] => /\ Tidy(C, I(ls), U(ls), D(ls))
                           /\ \A x \in C \ (I(ls) \cup U(ls)) :
                                x # o /\ CleanRow(p, x) \in img.live
      PROVE  CalendarOK(p)' /\ CleanIdle(p)'
  BY <1>1, <1>2, <1>3, <1>5 DEF CalendarOK, CleanIdle, Tidy, Idle
<1>10. ASSUME ~failed[p], NEW x \in cal[p] \ I(lists) PROVE HasLive(img, x.key)
  <2>1. CASE x \in U(lists)
    BY <1>10, <2>1 DEF CleanIdle, Tidy
  <2>2. CASE x \notin U(lists)
    <3>1. CleanRow(p, x) \in img.live
      BY <1>10, <2>2 DEF CleanIdle
    <3>2. CleanRow(p, x).key = x.key
      BY DEF CleanRow
    <3> QED
      BY <3>1, <3>2 DEF HasLive, OfKey
  <2> QED
    BY <2>1, <2>2
<1>6. CASE Add(p, o, c)
  <2>1. /\ cal'[p] = cal[p] \cup {o} /\ pend'[p] = Added(lists, o)
        /\ o.key.uid \in filed'[p] /\ OfKey(cal[p], o.key) = {}
    BY <1>6 DEF Add
  <2>2. /\ Added(lists, o) \in [Phase -> SUBSET Obj]
        /\ I(Added(lists, o)) = I(lists) \cup {o} /\ U(Added(lists, o)) = U(lists)
        /\ D(Added(lists, o)) = D(lists)
    <3>1. lists \in [Phase -> SUBSET Obj]
      BY <1>4
    <3> HIDE DEF TypeOK, lists
    <3> QED
      BY <3>1, Notified
  <2>3. \A x \in cal[p] : x.key # o.key
    BY <2>1 DEF OfKey
  <2> DEFINE C == cal[p] \cup {o}
             ls == Added(lists, o)
  <2>4. C \in SUBSET Obj /\ cal'[p] = C /\ pend'[p] = ls
    BY <2>1
  <2>5. /\ \A x \in C : x.key.uid \in filed'[p]
        /\ \A x, y \in C : x.key = y.key => x = y
    BY <1>1, <2>1, <2>3 DEF CalendarOK
  <2>6. ~failed[p] => Tidy(C, I(lists) \cup {o}, U(lists), D(lists))
    BY <2>3 DEF CleanIdle, Tidy
  <2>7. ~failed[p] => \A x \in C \ (I(ls) \cup U(ls)) : x # o /\ CleanRow(p, x) \in img.live
    BY <2>2, <2>3 DEF CleanIdle
  <2> HIDE DEF C, ls
  <2> QED
    BY <1>5, <2>2, <2>4, <2>5, <2>6, <2>7 DEF ls
<1>7. CASE Replace(p, o, c)
  <2>1. PICK old \in OfKey(cal[p], o.key) :
          /\ cal'[p] = (cal[p] \ {old}) \cup {o}
          /\ pend'[p] = Added(Deleted(lists, old), o)
    BY <1>7 DEF Replace
  <2>2. o.key.uid \in filed'[p] /\ o \notin cal[p]
    BY <1>7 DEF Replace
  <2>3. old \in Obj /\ old \in cal[p] /\ old.key = o.key
    BY DEF OfKey
  <2> DEFINE C == (cal[p] \ {old}) \cup {o}
             ls == Added(Deleted(lists, old), o)
             ins == IF old \in I(lists) THEN I(lists) \ {old} ELSE I(lists)
             del == IF old \in I(lists) THEN D(lists) ELSE D(lists) \cup {old}
  <2> DEFINE gone == Deleted(lists, old)
  <2>4. gone \in [Phase -> SUBSET Obj] /\ I(gone) = ins /\ U(gone) = U(lists) /\ D(gone) = del
    <3>1. old \in Obj /\ lists \in [Phase -> SUBSET Obj]
      BY <1>4, <2>3
    <3> HIDE DEF lists
    <3> QED
      BY <3>1, Notified
  <2>5. ls \in [Phase -> SUBSET Obj]
        /\ I(ls) = ins \cup {o} /\ U(ls) = U(lists) /\ D(ls) = del
    <3> HIDE DEF ins, del, gone
    <3>1. ls = Added(gone, o)
      BY DEF gone
    <3> HIDE DEF ls, lists
    <3> QED
      BY <2>4, <3>1, Notified
  <2>6. C \in SUBSET Obj /\ cal'[p] = C /\ pend'[p] = ls
    BY <2>1
  <2>7. /\ \A x \in C : x.key.uid \in filed'[p]
        /\ \A x, y \in C : x.key = y.key => x = y
    BY <1>1, <2>2, <2>3 DEF CalendarOK
  <2>8. \A x \in cal[p] \ {old} : x.key # o.key
    BY <2>3 DEF CalendarOK
  <2>9. ASSUME ~failed[p] PROVE Tidy(C, ins \cup {o}, U(lists), del)
    <3>1. old \notin I(lists) => HasLive(img, old.key)
      BY <1>10, <2>3, <2>9
    <3>2. old \notin I(lists) => \A x \in D(lists) : x.key # old.key
      BY <2>3, <2>9 DEF CleanIdle, Tidy
    <3>3. Tidy(cal[p], I(lists), U(lists), D(lists))
      BY <2>9 DEF CleanIdle
    <3> QED
      BY <2>3, <2>8, <3>1, <3>2, <3>3 DEF Tidy
  <2>10. ~failed[p] => \A x \in C \ (I(ls) \cup U(ls)) : x # o /\ CleanRow(p, x) \in img.live
    BY <2>5 DEF CleanIdle
  <2> HIDE DEF C, ls, ins, del, gone
  <2> QED
    BY <1>5, <2>5, <2>6, <2>7, <2>9, <2>10
<1>8. CASE Edit(p, o, c)
  <2>1. cal'[p] = cal[p] /\ pend'[p] = Changed(lists, o) /\ o \in cal[p]
    BY <1>8 DEF Edit
  <2> DEFINE upd == IF o \in I(lists) THEN U(lists) ELSE U(lists) \cup {o}
             ls == Changed(lists, o)
  <2>2. ls \in [Phase -> SUBSET Obj]
        /\ I(ls) = I(lists) /\ U(ls) = upd /\ D(ls) = D(lists)
    <3>1. lists \in [Phase -> SUBSET Obj]
      BY <1>4
    <3> HIDE DEF TypeOK, lists
    <3> QED
      BY <3>1, Notified
  <2>3. /\ \A x \in cal[p] : x.key.uid \in filed'[p]
        /\ \A x, y \in cal[p] : x.key = y.key => x = y
    BY <1>1 DEF CalendarOK
  <2>4. ASSUME ~failed[p] PROVE Tidy(cal[p], I(lists), upd, D(lists))
    <3>1. o \notin I(lists) => HasLive(img, o.key)
      BY <1>10, <2>1, <2>4
    <3>2. Tidy(cal[p], I(lists), U(lists), D(lists))
      BY <2>4 DEF CleanIdle
    <3> QED
      BY <2>1, <2>3, <3>1, <3>2 DEF Tidy
  <2>5. ~failed[p] => \A x \in cal[p] \ (I(ls) \cup U(ls)) : x # o /\ CleanRow(p, x) \in img.live
    BY <2>2 DEF CleanIdle
  <2> HIDE DEF ls, upd
  <2>6. pend'[p] = ls
    BY <2>1 DEF ls
  <2> QED
    BY <1>4, <1>5, <2>1, <2>2, <2>3, <2>4, <2>5, <2>6
<1>9. CASE Delete(p, o)
  <2>1. cal'[p] = cal[p] \ {o} /\ pend'[p] = Deleted(lists, o) /\ o \in cal[p]
    BY <1>9 DEF Delete
  <2> DEFINE C == cal[p] \ {o}
             ls == Deleted(lists, o)
             ins == IF o \in I(lists) THEN I(lists) \ {o} ELSE I(lists)
             del == IF o \in I(lists) THEN D(lists) ELSE D(lists) \cup {o}
  <2>2. ls \in [Phase -> SUBSET Obj]
        /\ I(ls) = ins /\ U(ls) = U(lists) /\ D(ls) = del
    <3>1. lists \in [Phase -> SUBSET Obj]
      BY <1>4
    <3> HIDE DEF TypeOK, lists
    <3> QED
      BY <3>1, Notified
  <2>3. /\ \A x \in C : x.key.uid \in filed'[p]
        /\ \A x, y \in C : x.key = y.key => x = y
        /\ \A x \in C : x.key # o.key
    BY <1>1, <2>1 DEF CalendarOK
  <2>4. ASSUME ~failed[p] PROVE Tidy(C, ins, U(lists), del)
    <3>1. o \notin I(lists) => HasLive(img, o.key)
      BY <1>10, <2>1, <2>4
    <3>2. o \notin I(lists) => \A x \in D(lists) : x.key # o.key
      BY <2>1, <2>4 DEF CleanIdle, Tidy
    <3>3. Tidy(cal[p], I(lists), U(lists), D(lists))
      BY <2>4 DEF CleanIdle
    <3> QED
      BY <2>3, <3>1, <3>2, <3>3 DEF Tidy
  <2>5. ~failed[p] => \A x \in C \ (I(ls) \cup U(ls)) : x # o /\ CleanRow(p, x) \in img.live
    BY <2>2 DEF CleanIdle
  <2>6. C \in SUBSET Obj /\ cal'[p] = C /\ pend'[p] = ls
    BY <2>1
  <2> HIDE DEF C, ls, ins, del
  <2> QED
    BY <1>5, <2>2, <2>3, <2>4, <2>5, <2>6
<1> QED
  BY <1>6, <1>7, <1>8, <1>9

\* What a load brings in is stored, and not pending.
LEMMA CleanLoad ==
  ASSUME TypeOK, NEW p \in Proc, CalendarOK(p), CleanIdle(p),
         NEW K \in SUBSET Key, NEW skip \in SUBSET Key, Load(p, K, skip)
  PROVE  CalendarOK(p)' /\ CleanIdle(p)'
<1> USE DEF TypeOK
<1> DEFINE got == {r \in View(p).live :
                     /\ r.key \in K \ skip
                     /\ ~IsPending(p, r.key)
                     /\ r.filed
                     /\ Newer(p, r)}
           G == Keys(got)
           old == {o \in cal[p] : o.key \notin G}
           new == {[key |-> k, copy |-> FirstCopy] : k \in G}
           pick(o) == CHOOSE r \in got : r.key = o.key
           C == old \cup new
<1>1. UNCHANGED <<db, img, pc, pend, errors, failed>>
  BY DEF Load, table, saving, history
<1>2. /\ cal'[p] = C
      /\ content'[p] = [o \in Obj |-> IF o.copy = FirstCopy /\ o.key \in G
                                      THEN pick(o).content ELSE content[p][o]]
      /\ filed'[p] = filed[p] \cup {k.uid : k \in G}
  BY DEF Load
<1>3. got \subseteq Row /\ G \subseteq Key
  BY DEF View, Table, Keys, Row
<1>4. \A k \in G : \A ph \in Phase : \A x \in pend[p][ph] : x.key # k
  BY DEF Keys, IsPending, OfKey
<1> HIDE DEF got
<1>5. \A o \in new : o \in Obj /\ o.key \in G /\ o.copy = FirstCopy
  BY <1>3, CopiesAssumption DEF Obj
<1>6. \A k \in G : k.uid \in filed'[p]
  BY <1>2
<1>7. \A o \in C : o.key.uid \in filed'[p]
  BY <1>2, <1>5, <1>6 DEF CalendarOK
<1>8. \A o, x \in C : o.key = x.key => o = x
  <2> SUFFICES ASSUME NEW o \in C, NEW x \in C, o.key = x.key PROVE o = x
    OBVIOUS
  <2>1. CASE o.key \in G
    BY <1>5, <2>1
  <2>2. CASE o.key \notin G
    BY <1>5, <2>2 DEF CalendarOK
  <2> QED
    BY <2>1, <2>2
<1>9. ASSUME NEW o \in old PROVE CleanRow(p, o)' = CleanRow(p, o)
  BY <1>2 DEF CleanRow
<1>10. ASSUME ~failed[p], NEW o \in new PROVE CleanRow(p, o)' \in img.live
  <2>1. PICK r \in got : r.key = o.key
    BY <1>5 DEF Keys
  <2>2. pick(o) \in got /\ pick(o).key = o.key
    BY <2>1
  <2>3. content'[p][o] = pick(o).content
    BY <1>2, <1>5
  <2> HIDE DEF pick
  <2>4. pick(o) \in Row /\ pick(o).filed /\ pick(o) \in View(p).live
    BY <1>3, <2>2 DEF got
  <2>5. pick(o).filed = TRUE
    BY <2>4 DEF Row
  <2>6. pick(o) = [key |-> o.key, content |-> pick(o).content, filed |-> TRUE]
    BY <2>2, <2>4, <2>5 DEF Row
  <2>7. View(p).live = img.live
    BY <1>10 DEF View, CleanIdle
  <2> QED
    BY <2>3, <2>4, <2>6, <2>7 DEF CleanRow
<1>11. CASE ~failed[p]
  <2> DEFINE ins == pend[p]["insert"]
             upd == pend[p]["update"]
             del == pend[p]["delete"]
  <2>1. Tidy(cal[p], ins, upd, del)
    BY <1>11 DEF CleanIdle
  <2>2. \A o \in new : \A x \in upd \cup del : x.key # o.key
    BY <1>4, <1>5 DEF Phase
  <2> HIDE DEF new
  <2>3. Tidy(C, ins, upd, del)
    BY <2>1, <2>2 DEF Tidy
  <2>4. \A o \in C \ (ins \cup upd) : CleanRow(p, o)' \in img.live
    BY <1>9, <1>10, <1>11 DEF CleanIdle
  <2>5. img.live = db.live
    BY <1>11 DEF CleanIdle
  <2>6. \A k : HasLive(img, k)' <=> HasLive(img, k)
    BY <1>1 DEF HasLive
  <2> HIDE DEF C
  <2> QED
    BY <1>1, <1>2, <1>7, <1>8, <2>3, <2>4, <2>5, <2>6
    DEF CalendarOK, CleanIdle, Tidy, Idle
<1>12. CASE failed[p]
  BY <1>1, <1>2, <1>7, <1>8, <1>12 DEF CalendarOK, CleanIdle, Idle
<1> QED
  BY <1>11, <1>12

LEMMA CalendarStep ==
  ASSUME NEW p \in Proc, CalendarOK(p), UNCHANGED <<cal, filed>>, ~Idle(p)'
  PROVE  CalendarOK(p)'
BY DEF CalendarOK

\* One incidence of the list.
LEMMA CleanRows ==
  ASSUME TypeOK, SavingOK, Isolation, NEW p \in Proc, CalendarOK(p), Clean(p),
         NEW o \in Obj,
         SkipRow(p, o) \/ InsertRow(p, o) \/ UpdateRow(p, o)
           \/ DeleteRow(p, o) \/ RowFails(p, o)
  PROVE  CalendarOK(p)' /\ Clean(p)'
<1> USE DEF TypeOK, SavingOK
<1>1. /\ looping[p] /\ o \in work[p] /\ pc[p] \in Phase
      /\ work'[p] = work[p] \ {o}
      /\ UNCHANGED <<pc, looping, cal, filed, content, pend, failed, db>>
  BY DEF SkipRow, InsertRow, UpdateRow, DeleteRow, RowFails, TakeRow, RowDone,
         history, memory
<1>2. CalendarOK(p)'
  BY <1>1, CalendarStep DEF Idle, Phase
<1>3. (errors[p] => errors'[p]) /\ (RowFails(p, o) => errors'[p])
  BY DEF SkipRow, InsertRow, UpdateRow, DeleteRow, RowFails, RowDone
<1>4. SUFFICES ASSUME ~failed[p], ~errors'[p] PROVE Clean(p)'
  BY <1>1, <1>2 DEF Clean
<1> DEFINE C == cal[p]
           ins == Left(p, "insert")
           upd == Left(p, "update")
           del == Left(p, "delete")
           k == o.key
           ph == pc[p]
<1>5. /\ Tidy(C, ins, upd, del)
      /\ \A x \in C \ (ins \cup upd) : CleanRow(p, x) \in img.live
      /\ ph \in {"update", "delete"} => ins = {}
      /\ ph = "delete" => upd = {}
  BY <1>3, <1>4 DEF Clean
<1>6. /\ Left(p, "insert")' = IF ph = "insert" THEN ins \ {o} ELSE ins
      /\ Left(p, "update")' = IF ph = "update" THEN upd \ {o} ELSE upd
      /\ Left(p, "delete")' = IF ph = "delete" THEN del \ {o} ELSE del
  BY <1>1 DEF Left
<1>7. /\ ph = "insert" => o \in ins
      /\ ph = "update" => o \in upd
      /\ ph = "delete" => o \in del
  BY <1>1 DEF Left
<1>8. \A x : CleanRow(p, x)' = CleanRow(p, x)
  BY <1>1 DEF CleanRow
<1> DEFINE ins1 == IF ph = "insert" THEN ins \ {o} ELSE ins
           upd1 == IF ph = "update" THEN upd \ {o} ELSE upd
           del1 == IF ph = "delete" THEN del \ {o} ELSE del
\* It is enough to look at the image and the lists.
<1>9. ASSUME \A x \in upd1 \cup del1 : HasLive(img', x.key),
             \A x \in C \ ins1 : \A y \in del1 : y.key # x.key,
             \A x \in C \ ins1 : \A y \in upd1 : y.key = x.key => y = x,
             \A x \in C \ (ins1 \cup upd1) : CleanRow(p, x) \in img'.live
      PROVE  Clean(p)'
  <2>1. /\ \A x, y \in upd1 : x.key = y.key => x = y
        /\ \A x, y \in del1 : x.key = y.key => x = y
    BY <1>5 DEF Tidy
  <2>2. /\ ph \in {"update", "delete"} => ins1 = {}
        /\ ph = "delete" => upd1 = {}
    BY <1>5
  <2>3. pc'[p] \in Phase
    BY <1>1
  <2>4. cal'[p] = C /\ looping'[p] /\ pc'[p] = ph
    BY <1>1
  <2>5. Left(p, "insert")' = ins1 /\ Left(p, "update")' = upd1 /\ Left(p, "delete")' = del1
    BY <1>6
  <2>6. \A x : HasLive(img, x)' <=> HasLive(img', x)
    BY DEF HasLive
  <2> HIDE DEF C, ins1, upd1, del1, ph
  <2> QED
    BY <1>8, <1>9, <2>1, <2>2, <2>3, <2>4, <2>5, <2>6 DEF Clean, Tidy, Phase
<1>10. \A x \in C : x.key.uid \in filed[p]
  BY DEF CalendarOK
<1>11. CASE SkipRow(p, o)
  <2>1. o \notin C /\ img' = img
    BY <1>10, <1>11 DEF SkipRow, IsFiled
  <2>2. \A x \in upd1 \cup del1 : HasLive(img', x.key)
    BY <1>5, <2>1 DEF Tidy
  <2>3. /\ \A x \in C \ ins1 : \A y \in del1 : y.key # x.key
        /\ \A x \in C \ ins1 : \A y \in upd1 : y.key = x.key => y = x
    BY <1>5, <2>1 DEF Tidy
  <2>4. \A x \in C \ (ins1 \cup upd1) : CleanRow(p, x) \in img'.live
    BY <1>5, <2>1
  <2> QED
    BY <1>9, <2>2, <2>3, <2>4
<1>12. CASE InsertRow(p, o)
  <2>1. \E t : img' = [live |-> img.live \cup {RowOf(p, o)}, tombs |-> t]
    BY <1>12 DEF InsertRow
  <2>2. img'.live = img.live \cup {RowOf(p, o)} /\ ~HasLive(img, k) /\ ph = "insert"
    BY <1>12, <2>1 DEF InsertRow
  <2>3. \A x \in upd \cup del : x.key # k
    BY <1>5, <2>2 DEF Tidy
  <2>4. \A x \in upd1 \cup del1 : HasLive(img', x.key)
    BY <1>5, <2>2 DEF Tidy, HasLive, OfKey
  <2>5. /\ \A x \in C \ ins1 : \A y \in del1 : y.key # x.key
        /\ \A x \in C \ ins1 : \A y \in upd1 : y.key = x.key => y = x
    BY <1>5, <2>2, <2>3 DEF Tidy
  <2>6. o \in C => CleanRow(p, o) \in img'.live
    BY <1>10, <2>2, RowOfFiled
  <2>7. \A x \in C \ (ins1 \cup upd1) : CleanRow(p, x) \in img'.live
    BY <1>5, <2>2, <2>6
  <2> QED
    BY <1>9, <2>4, <2>5, <2>7
<1>13. CASE UpdateRow(p, o)
  <2>1. img'.live = Without(img.live, k) \cup {RowOf(p, o)} /\ ph = "update"
    BY <1>13 DEF UpdateRow
  <2>2. RowOf(p, o).key = k
    BY DEF RowOf
  <2>3. \A x \in upd1 \cup del1 : HasLive(img', x.key)
    BY <1>5, <2>1, <2>2 DEF Tidy, HasLive, OfKey, Without
  <2>4. /\ \A x \in C \ ins1 : \A y \in del1 : y.key # x.key
        /\ \A x \in C \ ins1 : \A y \in upd1 : y.key = x.key => y = x
    BY <1>5, <2>1 DEF Tidy
  <2>5. o \in C => CleanRow(p, o) \in img'.live
    BY <1>10, <2>1, RowOfFiled
  <2>6. ASSUME NEW x \in C \ (ins1 \cup upd1) PROVE CleanRow(p, x) \in img'.live
    <3>1. CASE x = o
      BY <2>5, <3>1
    <3>2. CASE x # o
      <4>1. CleanRow(p, x) \in img.live
        BY <1>5, <2>1, <3>2
      <4>2. x \in C \ ins /\ o \in upd
        BY <1>7, <2>1
      <4>3. x.key # k
        BY <1>5, <3>2, <4>2 DEF Tidy
      <4>4. CleanRow(p, x).key = x.key
        BY DEF CleanRow
      <4> HIDE DEF k
      <4> QED
        BY <2>1, <4>1, <4>3, <4>4 DEF Without
    <3> QED
      BY <3>1, <3>2
  <2> QED
    BY <1>9, <2>3, <2>4, <2>6
<1>14. CASE DeleteRow(p, o)
  <2>1. \E t : img' = [live |-> Without(img.live, k), tombs |-> t]
    BY <1>14 DEF DeleteRow
  <2>2. img'.live = Without(img.live, k) /\ ph = "delete"
    BY <1>14, <2>1 DEF DeleteRow
  <2>3. ins = {} /\ upd = {} /\ o \in del
    BY <1>5, <1>7, <2>2
  <2>4. \A x \in upd1 \cup del1 : HasLive(img', x.key)
    <3>1. \A x \in del1 : x.key # k /\ HasLive(img, x.key)
      BY <1>5, <2>2, <2>3 DEF Tidy
    <3> QED
      BY <2>2, <2>3, <3>1 DEF HasLive, OfKey, Without
  <2>5. /\ \A x \in C \ ins1 : \A y \in del1 : y.key # x.key
        /\ \A x \in C \ ins1 : \A y \in upd1 : y.key = x.key => y = x
    BY <1>5, <2>2 DEF Tidy
  <2>6. ASSUME NEW x \in C \ (ins1 \cup upd1) PROVE CleanRow(p, x) \in img'.live
    <3>1. CleanRow(p, x) \in img.live /\ x.key # k
      BY <1>5, <2>2, <2>3 DEF Tidy
    <3>2. CleanRow(p, x).key = x.key
      BY DEF CleanRow
    <3> HIDE DEF k
    <3> QED
      BY <2>2, <3>1, <3>2 DEF Without
  <2> QED
    BY <1>9, <2>4, <2>5, <2>6
<1> QED
  BY <1>3, <1>4, <1>11, <1>12, <1>13, <1>14

LEMMA CleanSave ==
  ASSUME TypeOK, SavingOK, Isolation, NEW p \in Proc, CalendarOK(p), Clean(p), SaveStep(p)
  PROVE  CalendarOK(p)' /\ Clean(p)'
<1> USE DEF TypeOK, SavingOK
<1>1. CASE \E o \in Obj : \/ SkipRow(p, o) \/ InsertRow(p, o) \/ UpdateRow(p, o)
                          \/ DeleteRow(p, o) \/ RowFails(p, o)
  BY <1>1, CleanRows
<1>2. CASE BeginFails(p) \/ PrepareFails(p) \/ CommitFails(p)
  <2>1. errors'[p] /\ UNCHANGED <<cal, filed>> /\ pc[p] \in Phase /\ pc'[p] = After[pc[p]]
    BY <1>2 DEF BeginFails, PrepareFails, CommitFails, AtList, Committing, NextList, memory
  <2> QED
    BY <2>1, CalendarStep DEF Clean, Idle, After, Phase
<1>3. CASE BeginList(p)
  <2>1. /\ pc[p] \in Phase /\ ~looping[p] /\ looping'[p] = TRUE
        /\ work'[p] = pend[p][pc[p]]
        /\ UNCHANGED <<pc, pend, errors, cal, filed, content, failed, db, img>>
    BY <1>3 DEF BeginList, AtList, EnterLoop, history, memory
  <2>2. \A ph : Left(p, ph)' = Left(p, ph)
    BY <2>1 DEF Left
  <2>3. \A x : CleanRow(p, x)' = CleanRow(p, x)
    BY <2>1 DEF CleanRow
  <2>4. \A x : HasLive(img, x)' <=> HasLive(img, x)
    BY <2>1 DEF HasLive
  <2>5. CalendarOK(p)'
    BY <2>1, CalendarStep DEF Idle, Phase
  <2> QED
    BY <2>1, <2>2, <2>3, <2>4, <2>5 DEF Clean, Tidy
<1>4. CASE SkipList(p) \/ CommitList(p)
  <2>1. /\ pc[p] \in Phase /\ pc'[p] = After[pc[p]] /\ looping'[p] = FALSE
        /\ errors'[p] = errors[p] /\ UNCHANGED <<cal, filed, content, failed, img>>
    <3>1. \E committed : NextList(p, TRUE, committed)
      BY <1>4 DEF SkipList, CommitList
    <3>2. pc[p] \in Phase /\ UNCHANGED <<cal, filed, content, failed, img>>
      BY <1>4 DEF SkipList, CommitList, Committing, history, memory, table
    <3> QED
      BY <3>1, <3>2 DEF NextList
  <2>2. Left(p, pc[p]) = {}
    BY <1>4 DEF SkipList, CommitList, Committing, Left
  <2>3. pend'[p] = [pend[p] EXCEPT ![pc[p]] = {}]
    <3>1. CASE SkipList(p)
      BY <3>1 DEF SkipList
    <3>2. CASE CommitList(p)
      BY <3>2 DEF CommitList, Committing
    <3> QED
      BY <1>4, <3>1, <3>2
  <2>4. \A ph \in Phase : Left(p, ph)' = Left(p, ph)
    BY <2>1, <2>2, <2>3 DEF Left
  <2>5. \A x : CleanRow(p, x)' = CleanRow(p, x)
    BY <2>1 DEF CleanRow
  <2>6. \A x : HasLive(img, x)' <=> HasLive(img, x)
    BY <2>1 DEF HasLive
  <2>7. CalendarOK(p)'
    BY <2>1, CalendarStep DEF Idle, After, Phase
  <2>8. ~failed[p] /\ ~errors[p] => img'.live = db'.live
    <3>1. CASE SkipList(p)
      BY <3>1 DEF SkipList, Clean, table
    <3>2. CASE CommitList(p)
      BY <3>2 DEF CommitList
    <3> QED
      BY <1>4, <3>1, <3>2
  <2>9. SUFFICES ASSUME ~failed[p], ~errors[p] PROVE Clean(p)'
    BY <2>1, <2>7 DEF Clean
  <2>10. /\ Tidy(cal[p], Left(p, "insert"), Left(p, "update"), Left(p, "delete"))
         /\ \A o \in cal[p] \ (Left(p, "insert") \cup Left(p, "update")) :
              CleanRow(p, o) \in img.live
    BY <2>9 DEF Clean
  <2>11. /\ Left(p, "insert") = {}
         /\ pc[p] \in {"update", "delete"} => Left(p, "update") = {}
         /\ pc[p] = "delete" => Left(p, "delete") = {}
    BY <2>1, <2>2, <2>9 DEF Clean, Phase
  <2>12. Left(p, "insert")' = Left(p, "insert") /\ Left(p, "update")' = Left(p, "update")
         /\ Left(p, "delete")' = Left(p, "delete")
    BY <2>4 DEF Phase
  <2>13. /\ pc'[p] \in {"delete", "unlock", "signal"} => Left(p, "update") = {}
         /\ pc'[p] \in {"unlock", "signal"} => Left(p, "delete") = {}
    BY <2>1, <2>11 DEF After, Phase
  <2> QED
    BY <2>1, <2>5, <2>6, <2>8, <2>10, <2>11, <2>12, <2>13 DEF Clean, Tidy
<1>5. CASE Unlock(p) \/ Signal(p)
  <2>0. pc[p] \in {"unlock", "signal"} /\ ~looping[p]
    BY <1>5 DEF Unlock, Signal, Phase
  <2>1. /\ UNCHANGED <<cal, filed, content, pend, db, img>>
        /\ ~looping'[p]
    BY <1>5, <2>0 DEF Unlock, Signal, NoSave, table, memory
  <2>2. ~looping[p]
    BY <2>0
  <2>3. \A ph : Left(p, ph)' = Left(p, ph)
    BY <2>1, <2>2 DEF Left
  <2>4. \A x : CleanRow(p, x)' = CleanRow(p, x)
    BY <2>1 DEF CleanRow
  <2>5. \A x : HasLive(img, x)' <=> HasLive(img, x)
    BY <2>1 DEF HasLive
  <2>6. CASE Unlock(p)
    <3>1. pc[p] = "unlock" /\ pc'[p] = "signal" /\ UNCHANGED <<errors, failed>>
      BY <2>6 DEF Unlock
    <3> QED
      BY <2>1, <2>2, <2>3, <2>4, <2>5, <3>1, CalendarStep DEF Clean, Tidy, Idle
  <2>7. CASE Signal(p)
    <3>1. /\ pc[p] = "signal" /\ pc'[p] = "idle" /\ errors'[p] = FALSE
          /\ failed'[p] = (failed[p] \/ errors[p])
      BY <2>7 DEF Signal, NoSave
    <3>2. CalendarOK(p)'
      BY <2>1, <3>1 DEF CalendarOK
    <3> QED
      BY <2>1, <2>2, <2>3, <2>4, <2>5, <3>1, <3>2 DEF Clean, Tidy
  <2> QED
    BY <1>5, <2>6, <2>7
<1> QED
  BY <1>1, <1>2, <1>3, <1>4, <1>5 DEF SaveStep

LEMMA CleanCall ==
  ASSUME TypeOK, SavingOK, SavingOK', Isolation, NEW p \in Proc, CalendarOK(p), Clean(p), Call(p)
  PROVE  CalendarOK(p)' /\ Clean(p)'
<1> USE DEF TypeOK
<1>1. Idle(p) /\ ~errors[p] /\ CleanIdle(p)
  <2>1. Content # {}
    BY CopiesAssumption
  <2>2. Idle(p)
    BY <2>1 DEF Call, Add, Replace, Edit, Delete, Load, FileChanged, SaveBegin, PurgeDeleted
  <2> QED
    BY <2>2, IdleIsClean DEF CalendarOK
\* Calls other than save() stay idle.
<1>2. ASSUME CalendarOK(p)', CleanIdle(p)', UNCHANGED <<pc, errors>> PROVE Clean(p)'
  <2>1. Idle(p)' /\ ~errors'[p]
    BY <1>1, <1>2 DEF Idle
  <2>2. ~looping'[p] /\ pc'[p] = "idle"
    BY <2>1 DEF SavingOK, Idle, Phase
  <2>3. \A ph : Left(p, ph)' = pend'[p][ph]
    BY <2>2 DEF Left
  <2> QED
    BY <1>2, <2>2, <2>3 DEF Clean, CleanIdle
<1>3. CASE \E o \in Obj, c \in Content :
             Add(p, o, c) \/ Replace(p, o, c) \/ Edit(p, o, c) \/ Delete(p, o)
  <2>1. UNCHANGED <<pc, errors>>
    BY <1>3 DEF Add, Replace, Edit, Delete, saving
  <2> QED
    BY <1>1, <1>2, <1>3, <2>1, CleanCalendar
<1>4. CASE \E K, skip \in SUBSET Key : Load(p, K, skip)
  <2>1. UNCHANGED <<pc, errors>>
    BY <1>4 DEF Load, saving
  <2> QED
    BY <1>1, <1>2, <1>4, <2>1, CleanLoad
<1>5. CASE FileChanged(p)
  <2>1. /\ UNCHANGED <<db, img, pend, pc, errors, failed>>
        /\ cal'[p] = {}
    BY <1>5 DEF FileChanged, table, saving, history
  <2>2. \A x : HasLive(img, x)' <=> HasLive(img, x)
    BY <2>1 DEF HasLive
  <2>3. CalendarOK(p)'
    BY <1>1, <2>1 DEF CalendarOK
  <2>4. CleanIdle(p)'
    BY <1>1, <2>1, <2>2 DEF CleanIdle, Tidy
  <2> QED
    BY <1>2, <2>1, <2>3, <2>4
<1>6. CASE \E K \in SUBSET Key : PurgeDeleted(p, K)
  <2>1. /\ UNCHANGED <<cal, filed, content, pend, pc, errors, failed>>
        /\ img'.live = img.live /\ (db'.live = db.live \/ db'.live = img.live)
    BY <1>6 DEF PurgeDeleted, memory, saving, history
  <2>2. \A x : HasLive(img, x)' <=> HasLive(img, x)
    BY <2>1 DEF HasLive
  <2>3. \A x : CleanRow(p, x)' = CleanRow(p, x)
    BY <2>1 DEF CleanRow
  <2>4. CalendarOK(p)'
    BY <1>1, <2>1 DEF CalendarOK
  <2>5. CleanIdle(p)'
    BY <1>1, <2>1, <2>2, <2>3 DEF CleanIdle, Tidy
  <2> QED
    BY <1>2, <2>1, <2>4, <2>5
<1>7. CASE \E action \in Action : SaveBegin(p, action)
  <2>1. /\ UNCHANGED <<db, img, cal, filed, content, pend, looping, errors, failed>>
        /\ pc'[p] = "insert"
    BY <1>7 DEF SaveBegin, memory, table
  <2>2. ~looping[p]
    BY <1>1 DEF SavingOK, Idle, Phase
  <2>3. \A ph : Left(p, ph)' = pend[p][ph]
    BY <2>1, <2>2 DEF Left
  <2>4. \A x : HasLive(img, x)' <=> HasLive(img, x)
    BY <2>1 DEF HasLive
  <2>5. \A x : CleanRow(p, x)' = CleanRow(p, x)
    BY <2>1 DEF CleanRow
  <2>6. CalendarOK(p)'
    BY <2>1, CalendarStep DEF Idle
  <2>7. ASSUME ~failed[p]
        PROVE  /\ img'.live = db'.live
               /\ Tidy(cal[p], pend[p]["insert"], pend[p]["update"], pend[p]["delete"])'
               /\ \A o \in cal'[p] \ (pend'[p]["insert"] \cup pend'[p]["update"]) :
                    CleanRow(p, o)' \in img'.live
    BY <1>1, <2>1, <2>4, <2>5, <2>7 DEF CleanIdle, Tidy
  <2>8. /\ Left(p, "insert")' = pend'[p]["insert"]
        /\ Left(p, "update")' = pend'[p]["update"]
        /\ Left(p, "delete")' = pend'[p]["delete"]
    BY <2>1, <2>3
  <2>9. SUFFICES ASSUME ~failed[p] PROVE Clean(p)'
    BY <2>1, <2>6 DEF Clean
  <2>10. pc'[p] \notin {"update", "delete", "unlock", "signal"}
    BY <2>1
  <2>11. Clean(p)'
    BY <2>7, <2>8, <2>9, <2>10 DEF Clean, Tidy
  <2> QED
    BY <2>11
<1>8. Content # {}
  BY CopiesAssumption
<1> QED
  BY <1>3, <1>4, <1>5, <1>6, <1>7, <1>8 DEF Call

\* With one process, whatever its calendar holds that is not pending is stored,
\* until a save has returned false: no change goes untracked, and no list is
\* cleared unsaved.
THEOREM NothingUntracked ==
  ASSUME NEW p \in Proc, Proc = {p}
  PROVE  Spec => []CleanIsStored
<1>1. Init => CalendarOK(p) /\ Clean(p)
  <2> SUFFICES ASSUME Init PROVE CalendarOK(p) /\ Clean(p)
    OBVIOUS
  <2>1. /\ cal[p] = {} /\ pend[p] = NoPending /\ pc[p] = "idle" /\ errors[p] = FALSE
        /\ looping[p] = FALSE /\ img = db
    BY DEF Init
  <2>2. \A ph \in Phase : Left(p, ph) = {}
    BY <2>1 DEF Left, NoPending
  <2> QED
    BY <2>1, <2>2 DEF CalendarOK, Clean, Tidy, Phase
<1>2. TypeOK /\ SavingOK /\ SavingOK' /\ Isolation /\ CalendarOK(p) /\ Clean(p) /\ [Next]_vars
        => CalendarOK(p)' /\ Clean(p)'
  <2> SUFFICES ASSUME TypeOK, SavingOK, SavingOK', Isolation, CalendarOK(p), Clean(p), [Next]_vars
               PROVE  CalendarOK(p)' /\ Clean(p)'
    OBVIOUS
  <2>1. CASE UNCHANGED vars
    <3>1. /\ UNCHANGED <<db, img, cal, filed, content, pend, pc, looping, work, errors, failed>>
      BY <2>1 DEF vars, table, memory, saving, history
    <3>2. \A ph : Left(p, ph)' = Left(p, ph)
      BY <3>1 DEF Left
    <3>3. \A x : CleanRow(p, x)' = CleanRow(p, x)
      BY <3>1 DEF CleanRow
    <3>4. \A x : HasLive(img, x)' <=> HasLive(img, x)
      BY <3>1 DEF HasLive
    <3> QED
      BY <3>1, <3>2, <3>3, <3>4 DEF CalendarOK, Clean, Tidy, Idle
  <2>2. CASE End(p)
    <3>1. /\ cal'[p] = {} /\ pend'[p] = NoPending /\ pc'[p] = "idle" /\ errors'[p] = FALSE
          /\ looping'[p] = FALSE
          /\ db' = db /\ img' = IF p \in writer THEN db ELSE img
      BY <2>2 DEF End, NoSave, TypeOK
    <3>2. img' = db'
      <4>1. p \notin writer => writer = {}
        BY DEF TypeOK
      <4> QED
        BY <3>1, <4>1 DEF Isolation
    <3>3. \A ph \in Phase : Left(p, ph)' = {}
      BY <3>1 DEF Left, NoPending
    <3>4. CalendarOK(p)'
      BY <3>1 DEF CalendarOK
    <3>5. Clean(p)'
      BY <3>1, <3>2, <3>3 DEF Clean, Tidy, Phase
    <3> QED
      BY <3>4, <3>5
  <2>3. CASE Call(p)
    BY <2>3, CleanCall
  <2>4. CASE SaveStep(p)
    BY <2>4, CleanSave
  <2> QED
    BY <2>1, <2>2, <2>3, <2>4 DEF Next
<1>3. TypeOK /\ SavingOK /\ CalendarOK(p) /\ Clean(p) => CleanIsStored
  <2> SUFFICES ASSUME SavingOK, CalendarOK(p), Clean(p), Idle(p), ~failed[p],
                      NEW o \in cal[p] \ (pend[p]["insert"] \cup pend[p]["update"])
               PROVE  RowOf(p, o) \in db.live
    BY DEF CleanIsStored
  <2>1. CleanIdle(p)
    BY IdleIsClean DEF CalendarOK
  <2>2. RowOf(p, o) = CleanRow(p, o)
    BY RowOfFiled DEF CalendarOK
  <2> QED
    BY <2>1, <2>2 DEF CleanIdle
<1> QED
  BY <1>1, <1>2, <1>3, Isolated, PTL DEF Spec
=============================================================================
