-------------------------- MODULE StorageLockProofs --------------------------
(***************************************************************************)
(* Proofs about StorageLock for any number of processes.  Whatever fails,  *)
(* the type holds, the account of every process is the one Balanced gives, *)
(* and no unit is ever lost for good.  That the lock excludes holds as     *)
(* long as only the handled failures happen (README.md says what the       *)
(* others do); its inductive invariant says who holds the unit of the lock,*)
(* according to the kernel's undo entries.                                 *)
(***************************************************************************)
EXTENDS StorageLock, FiniteSetTheorems, TLAPS

\* The points at which the code holds the lock: also at the label error, when
\* open() got there before it released.
Holding == Inside \cup {"openError"}

Holders == {p \in Proc : pc[p] \in Holding}

\* The undo entry of a process is exactly what it holds.
UndoMatches ==
  \A p \in Proc : adj[p][Wr] = IF p \in Holders THEN 1 ELSE 0

OneHolder == \A p, q \in Holders : p = q

UnitInPlace == val[Wr] = IF Holders = {} THEN 1 ELSE 0

LockInv == TypeOK /\ UndoMatches /\ OneHolder /\ UnitInPlace

-----------------------------------------------------------------------------

LEMMA SemOps ==
  ASSUME NEW p \in Proc, Sem!SemTypeOK
  PROVE  /\ Acquire(p) => Sem!SemTypeOK'
         /\ Release(p) => Sem!SemTypeOK'
         /\ Sem!Undo(p) => Sem!SemTypeOK'
BY DEF Acquire, Release, Sem!SemTypeOK, Sem!Up, Sem!Down, Sem!Undo, Wr

\* Every state has its type, whatever fails (sqlitestorage.cpp, the callers of
\* acquire and release).
THEOREM TypeCorrect == Spec => []TypeOK
<1>1. Init => TypeOK
  BY DEF Init, TypeOK, Sem!SemInit, Sem!SemTypeOK, Control
<1>2. TypeOK /\ [Next]_vars => TypeOK'
  <2> SUFFICES ASSUME TypeOK, [Next]_vars PROVE TypeOK'
    OBVIOUS
  <2>1. CASE UNCHANGED vars
    BY <2>1 DEF vars, TypeOK, Sem!SemTypeOK
  <2>2. ASSUME NEW p \in Proc, Begin(p) \/ AnyAcquire(p) \/ Progress(p) \/ End(p)
        PROVE  TypeOK'
    <3> USE <2>2 DEF Begin, AnyAcquire, Progress,
          Open, OpenAcquire, OpenDatabaseFails, OpenSetupFails, OpenSetup,
          OpenError, FileChanged, TimezonesPrepareFails, TimezonesPrepare,
          TimezonesAcquire, TimezonesStep, NotebooksAcquire, NotebooksLoaded,
          Call, CallAcquire, CallReturn, DeletedDateFails, DeletedDate,
          DeletedDateAcquire, DeletedDateReturn, Close, End, Skews
    <3>1. Sem!SemTypeOK'
      <4>1. CASE UNCHANGED <<val, adj>>
        BY <4>1 DEF TypeOK, Sem!SemTypeOK
      <4>2. \/ UNCHANGED <<val, adj>> \/ Acquire(p) \/ Release(p) \/ Sem!Undo(p)
        BY DEF KeepLock, UncheckedRelease
      <4> QED
        BY <4>1, <4>2, SemOps DEF TypeOK
    <3>2. (pc \in [Proc -> Control])'
      BY DEF TypeOK, Goto, AfterTimezones, Control, Inside, Waiting
    <3>3. (opened \in [Proc -> BOOLEAN])'
      BY DEF TypeOK
    <3>4. (opening \in [Proc -> BOOLEAN])'
      BY DEF TypeOK
    <3>5. (skew \in [Proc -> Int])'
      <4>0. skew[p] \in Int
        BY DEF TypeOK
      <4>1. CASE UNCHANGED skew
        BY <4>1 DEF TypeOK
      <4>2. CASE OpenDatabaseFails(p) \/ TimezonesPrepareFails(p) \/ DeletedDateFails(p)
        <5>1. \E n \in {-2, -1, 1} : Skews(p, n)
          BY <4>2
        <5> QED
          BY <4>0, <5>1 DEF TypeOK
      <4>3. CASE TimezonesStep(p) \/ NotebooksLoaded(p)
        <5>1. \E n \in {-1, 0} : Skews(p, n)
          BY <4>3
        <5> QED
          BY <4>0, <5>1 DEF TypeOK
      <4>4. CASE End(p)
        BY <4>4 DEF TypeOK
      <4> QED
        BY <4>1, <4>2, <4>3, <4>4
    <3> QED
      BY <3>1, <3>2, <3>3, <3>4, <3>5 DEF TypeOK
  <2> QED
    BY <2>1, <2>2 DEF Next
<1> QED
  BY <1>1, <1>2, PTL DEF Spec

-----------------------------------------------------------------------------
(* Whatever fails: what each process owes the kernel.                      *)

\* What p holds, as a number of units.
Held(p) == IF pc[p] \in Holding THEN 1 ELSE 0

\* A step of p changes its account and its holding by the same amount, and
\* leaves those of the others alone.
LEMMA AccountStep ==
  ASSUME TypeOK, TypeOK', Balanced, NEW p \in Proc,
         Begin(p) \/ AnyAcquire(p) \/ Progress(p) \/ End(p)
  PROVE  Balanced'
<1> DEFINE Ours(taken, n) == /\ adj'[p][Wr] = adj[p][Wr] + taken
                             /\ skew'[p] = skew[p] + n
                             /\ Held(p)' = Held(p) + taken - n
<1>0. /\ pc \in [Proc -> Control] /\ skew \in [Proc -> Int]
      /\ adj \in [Proc -> [{Wr} -> Int]]
  BY DEF TypeOK, Sem!SemTypeOK
<1>1. Balanced <=> \A q \in Proc : adj[q][Wr] = skew[q] + Held(q)
  BY DEF Balanced, Held, Holding
<1>2. Balanced' <=> \A q \in Proc : adj'[q][Wr] = skew'[q] + Held(q)'
  BY DEF Balanced, Held, Holding
<1>3. ASSUME NEW q \in Proc, q # p
      PROVE  adj'[q][Wr] = adj[q][Wr] /\ skew'[q] = skew[q] /\ Held(q)' = Held(q)
  BY <1>0, <1>3 DEF Begin, AnyAcquire, Progress, Held, Goto, Skews,
     Open, OpenAcquire, OpenDatabaseFails, OpenSetupFails, OpenSetup,
     OpenError, FileChanged, TimezonesPrepareFails, TimezonesPrepare,
     TimezonesAcquire, TimezonesStep, NotebooksAcquire, NotebooksLoaded,
     Call, CallAcquire, CallReturn, DeletedDateFails, DeletedDate,
     DeletedDateAcquire, DeletedDateReturn, Close, End, KeepLock,
     UncheckedRelease, Acquire, Release, Sem!Up, Sem!Down, Sem!Undo
<1>4. CASE AnyAcquire(p)
  <2>1. Ours(1, 0)
    BY <1>0, <1>4 DEF AnyAcquire, OpenAcquire, TimezonesAcquire, NotebooksAcquire,
       CallAcquire, DeletedDateAcquire, Goto, Held, Holding, Inside, Acquire,
       Sem!Down
  <2> QED
    BY <2>1, <1>0, <1>1, <1>2, <1>3 DEF Held
<1>5. CASE OpenSetup(p) \/ OpenError(p) \/ CallReturn(p) \/ DeletedDateReturn(p)
  <2>1. Ours(-1, 0)
    BY <1>0, <1>5 DEF OpenSetup, OpenError, CallReturn, DeletedDateReturn,
       Goto, Held, Holding, Inside, UncheckedRelease, Release, Sem!Up
  <2> QED
    BY <2>1, <1>0, <1>1, <1>2, <1>3 DEF Held
<1>6. CASE TimezonesStep(p) \/ NotebooksLoaded(p)
  <2>1. Ours(-1, 0) \/ Ours(-1, -1)
    BY <1>0, <1>6 DEF TimezonesStep, NotebooksLoaded, AfterTimezones, Skews,
       Goto, Held, Holding, Inside, Release, Sem!Up
  <2> QED
    BY <2>1, <1>0, <1>1, <1>2, <1>3 DEF Held
<1>7. CASE TimezonesPrepareFails(p) \/ DeletedDateFails(p)
  <2>1. Ours(-1, -1) \/ Ours(-1, -2)
    BY <1>0, <1>7 DEF TimezonesPrepareFails, DeletedDateFails, AfterTimezones, Skews,
       Goto, Held, Holding, Inside, UncheckedRelease, Release, Sem!Up
  <2> QED
    BY <2>1, <1>0, <1>1, <1>2, <1>3 DEF Held
<1>8. CASE OpenDatabaseFails(p)
  <2>1. Ours(0, 1)
    BY <1>0, <1>8 DEF OpenDatabaseFails, Skews, Goto, Held, Holding, Inside, KeepLock
  <2> QED
    BY <2>1, <1>0, <1>1, <1>2, <1>3 DEF Held
<1>9. CASE OpenSetupFails(p) \/ TimezonesPrepare(p)
           \/ Open(p) \/ FileChanged(p) \/ Call(p) \/ DeletedDate(p) \/ Close(p)
  <2>1. Ours(0, 0)
    BY <1>0, <1>9 DEF OpenSetupFails, TimezonesPrepare, Open, FileChanged, Call,
       DeletedDate, Close, KeepLock, Goto, Held, Holding, Inside
  <2> QED
    BY <2>1, <1>0, <1>1, <1>2, <1>3 DEF Held
<1>10. CASE End(p)
  <2>1. adj'[p][Wr] = 0 /\ skew'[p] = 0 /\ Held(p)' = 0
    BY <1>0, <1>10 DEF End, Sem!Undo, Held, Holding, Inside
  <2> QED
    BY <2>1, <1>1, <1>2, <1>3
<1> QED
  BY <1>4, <1>5, <1>6, <1>7, <1>8, <1>9, <1>10 DEF Begin, Progress

\* Whatever fails and in however many processes, the undo entry of a process is
\* what it holds, plus the units its failed sqlite3_open calls kept, less those
\* its other failures released without having taken them (sqlitestorage.cpp,
\* the callers of acquire and release).
THEOREM LockBalanced == Spec => []Balanced
<1>1. Init => Balanced
  <2> SUFFICES ASSUME Init PROVE Balanced
    OBVIOUS
  <2>1. \A p \in Proc : adj[p][Wr] = 0 /\ skew[p] = 0
    BY DEF Init, Sem!SemInit
  <2>2. \A p \in Proc : Held(p) = 0
    BY DEF Init, Held, Holding, Inside
  <2>3. ASSUME NEW p \in Proc PROVE adj[p][Wr] = skew[p] + Held(p)
    <3>1. adj[p][Wr] = 0 /\ skew[p] = 0 /\ Held(p) = 0
      BY <2>1, <2>2
    <3> QED
      BY <3>1
  <2> QED
    BY <2>3 DEF Balanced, Held, Holding
<1>2. TypeOK /\ TypeOK' /\ Balanced /\ [Next]_vars => Balanced'
  <2> SUFFICES ASSUME TypeOK, TypeOK', Balanced, [Next]_vars PROVE Balanced'
    OBVIOUS
  <2>1. CASE UNCHANGED vars
    BY <2>1 DEF vars, Balanced
  <2>2. CASE Next
    BY <2>2, AccountStep DEF Next
  <2> QED
    BY <2>1, <2>2
<1> QED
  BY <1>1, <1>2, TypeCorrect, PTL DEF Spec

-----------------------------------------------------------------------------

\* What a step does to the lock when only handled failures happen: nothing, or
\* it takes or gives the unit and begins or stops holding it accordingly.
Keeps(p) == UNCHANGED <<val, adj>> /\ Holders' = Holders
Takes(p) == Acquire(p) /\ p \notin Holders /\ Holders' = Holders \cup {p}
Gives(p) == Release(p) /\ p \in Holders /\ Holders' = Holders \ {p}
Dies(p) == Sem!Undo(p) /\ Holders' = Holders \ {p}

LEMMA StepClass ==
  ASSUME Faults \subseteq HandledFaults, TypeOK, NEW p \in Proc,
         Begin(p) \/ AnyAcquire(p) \/ Progress(p) \/ End(p)
  PROVE  Keeps(p) \/ Takes(p) \/ Gives(p) \/ Dies(p)
<1> DEFINE Moves == pc' = [pc EXCEPT ![p] = pc'[p]]
<1>0. pc \in [Proc -> Control]
  BY DEF TypeOK
<1>1. ASSUME Moves, pc[p] \in Holding <=> pc'[p] \in Holding
      PROVE  Holders' = Holders
  BY <1>0, <1>1 DEF Holders
<1>2. ASSUME Moves, pc[p] \notin Holding, pc'[p] \in Holding
      PROVE  p \notin Holders /\ Holders' = Holders \cup {p}
  BY <1>0, <1>2 DEF Holders
<1>3. ASSUME Moves, pc'[p] \notin Holding
      PROVE  Holders' = Holders \ {p}
  BY <1>0, <1>3 DEF Holders
<1>4. CASE AnyAcquire(p)
  <2>1. Moves /\ pc[p] \notin Holding /\ pc'[p] \in Holding /\ Acquire(p)
    BY <1>0, <1>4 DEF AnyAcquire, OpenAcquire, TimezonesAcquire, NotebooksAcquire,
       CallAcquire, DeletedDateAcquire, Goto, Holding, Inside
  <2> QED
    BY <2>1, <1>2 DEF Takes
<1>5. CASE OpenSetup(p) \/ OpenError(p) \/ TimezonesStep(p) \/ NotebooksLoaded(p)
           \/ CallReturn(p) \/ DeletedDateReturn(p)
  <2>1. Moves /\ pc[p] \in Holding /\ pc'[p] \notin Holding /\ Release(p)
    BY <1>0, <1>5 DEF OpenSetup, OpenError, TimezonesStep, NotebooksLoaded,
       CallReturn, DeletedDateReturn, Goto, Holding, Inside, UncheckedRelease,
       AfterTimezones, HandledFaults
  <2>2. p \in Holders
    BY <2>1 DEF Holders
  <2> QED
    BY <2>1, <2>2, <1>3 DEF Gives
<1>6. CASE OpenSetupFails(p) \/ TimezonesPrepare(p)
           \/ Open(p) \/ FileChanged(p) \/ Call(p) \/ DeletedDate(p) \/ Close(p)
  <2>1. Moves /\ (pc[p] \in Holding <=> pc'[p] \in Holding) /\ UNCHANGED <<val, adj>>
    BY <1>0, <1>6 DEF OpenSetupFails, TimezonesPrepare, Open, FileChanged, Call,
       DeletedDate, Close, KeepLock, Goto, Holding, Inside
  <2> QED
    BY <2>1, <1>1 DEF Keeps
<1>7. CASE End(p)
  <2>1. Moves /\ pc'[p] \notin Holding /\ Sem!Undo(p)
    BY <1>0, <1>7 DEF End, Holding, Inside
  <2> QED
    BY <2>1, <1>3 DEF Dies
<1>8. ~OpenDatabaseFails(p) /\ ~TimezonesPrepareFails(p) /\ ~DeletedDateFails(p)
  BY DEF OpenDatabaseFails, TimezonesPrepareFails, DeletedDateFails, HandledFaults
<1> QED
  BY <1>4, <1>5, <1>6, <1>7, <1>8 DEF Begin, Progress

LEMMA ClassKeepsInv ==
  ASSUME LockInv, TypeOK', NEW p \in Proc,
         Keeps(p) \/ Takes(p) \/ Gives(p) \/ Dies(p)
  PROVE  LockInv'
<1> USE DEF LockInv
<1>0. Holders \subseteq Proc
  BY DEF Holders
<1>1. CASE Keeps(p)
  BY <1>1 DEF Keeps, UndoMatches, OneHolder, UnitInPlace
<1>2. CASE Takes(p)
  <2>1. Holders = {} /\ Holders' = {p} /\ val[Wr] = 1
    BY <1>2 DEF Takes, Acquire, Sem!Down, UnitInPlace
  <2>2. val'[Wr] = 0 /\ adj'[p][Wr] = 1
    BY <1>2, <2>1 DEF Takes, Acquire, Sem!Down, UndoMatches, TypeOK, Sem!SemTypeOK, Wr
  <2>3. \A q \in Proc : q # p => adj'[q][Wr] = adj[q][Wr]
    BY <1>2 DEF Takes, Acquire, Sem!Down, TypeOK, Sem!SemTypeOK, Wr
  <2> QED
    BY <2>1, <2>2, <2>3 DEF UndoMatches, OneHolder, UnitInPlace
<1>3. CASE Gives(p)
  <2>1. Holders = {p} /\ Holders' = {} /\ val[Wr] = 0
    BY <1>3 DEF Gives, OneHolder, UnitInPlace
  <2>2. val'[Wr] = 1 /\ adj'[p][Wr] = 0
    BY <1>3, <2>1 DEF Gives, Release, Sem!Up, UndoMatches, TypeOK, Sem!SemTypeOK, Wr
  <2>3. \A q \in Proc : q # p => adj'[q][Wr] = adj[q][Wr]
    BY <1>3 DEF Gives, Release, Sem!Up, TypeOK, Sem!SemTypeOK, Wr
  <2> QED
    BY <2>1, <2>2, <2>3 DEF UndoMatches, OneHolder, UnitInPlace
<1>4. CASE Dies(p)
  <2>1. /\ val'[Wr] = IF p \in Holders THEN 1 ELSE val[Wr]
        /\ adj'[p][Wr] = 0
    BY <1>4 DEF Dies, Sem!Undo, UndoMatches, UnitInPlace, TypeOK, Sem!SemTypeOK, Wr
  <2>2. \A q \in Proc : q # p => adj'[q][Wr] = adj[q][Wr]
    BY <1>4 DEF Dies, Sem!Undo, TypeOK, Sem!SemTypeOK, Wr
  <2>3. UndoMatches' /\ OneHolder'
    BY <1>4, <2>1, <2>2 DEF Dies, UndoMatches, OneHolder
  <2>4. UnitInPlace'
    <3>1. CASE p \in Holders
      BY <1>4, <2>1, <3>1 DEF Dies, OneHolder, UnitInPlace
    <3>2. CASE p \notin Holders
      <4>1. Holders' = Holders
        BY <1>4, <3>2 DEF Dies
      <4> QED
        BY <2>1, <3>2, <4>1 DEF UnitInPlace
    <3> QED
      BY <3>1, <3>2
  <2> QED
    BY <2>3, <2>4
<1> QED
  BY <1>1, <1>2, <1>3, <1>4

\* The inductive invariant: the unit of the lock is with its holder or in place.
THEOREM LockInvariant ==
  ASSUME Faults \subseteq HandledFaults
  PROVE  Spec => []LockInv
<1>1. Init => LockInv
  <2> SUFFICES ASSUME Init PROVE LockInv
    OBVIOUS
  <2>1. TypeOK
    BY DEF Init, TypeOK, Sem!SemInit, Sem!SemTypeOK, Control
  <2>2. Holders = {}
    BY DEF Init, Holders, Holding, Inside
  <2> QED
    BY <2>1, <2>2
    DEF Init, LockInv, UndoMatches, OneHolder, UnitInPlace, Sem!SemInit, Wr
<1>2. TypeOK' /\ LockInv /\ [Next]_vars => LockInv'
  <2> SUFFICES ASSUME TypeOK', LockInv, [Next]_vars PROVE LockInv'
    OBVIOUS
  <2>1. CASE UNCHANGED vars
    BY <2>1 DEF vars, LockInv, UndoMatches, OneHolder, UnitInPlace, Holders
  <2>2. CASE Next
    <3>1. PICK p \in Proc : Begin(p) \/ AnyAcquire(p) \/ Progress(p) \/ End(p)
      BY <2>2 DEF Next
    <3>2. Keeps(p) \/ Takes(p) \/ Gives(p) \/ Dies(p)
      BY <3>1, StepClass DEF LockInv
    <3> QED
      BY <3>2, ClassKeepsInv
  <2> QED
    BY <2>1, <2>2
<1> QED
  BY <1>1, <1>2, TypeCorrect, PTL DEF Spec

\* At most one storage is between its acquire and its release, as long as only
\* the failures that open() and the calls handle happen
\* (semaphore_p.cpp:205, sqlitestorage.cpp).
THEOREM Exclusion ==
  ASSUME Faults \subseteq HandledFaults
  PROVE  Spec => []OneUser
<1>1. LockInv => OneUser
  BY DEF LockInv, OneHolder, OneUser, Users, Holders, Holding
<1> QED
  BY <1>1, LockInvariant, PTL

-----------------------------------------------------------------------------
(***************************************************************************)
(* Whatever fails, no unit of the lock is lost for good.  A leak and a     *)
(* release without a lock move units between the value and the undo        *)
(* entries; what must be invariant is their sum over all processes, which  *)
(* is never below one.  The positive and the negative entries are counted  *)
(* as two finite sets, one element for each unit.                          *)
(***************************************************************************)

\* The units that are added when the process ends, and those that are taken.
Owed == {u \in Proc \X (Nat \ {0}) : u[2] <= adj[u[1]][Wr]}
Due == {u \in Proc \X (Nat \ {0}) : u[2] <= -adj[u[1]][Wr]}

UnitsKept ==
  /\ TypeOK
  /\ IsFiniteSet(Owed) /\ IsFiniteSet(Due)
  /\ val[Wr] + Cardinality(Owed) - Cardinality(Due) >= 1

\* The entry of one process, as units.
Units(p, n) == {u \in {p} \X (Nat \ {0}) : u[2] <= n}

LEMMA UnitsCount ==
  ASSUME NEW p, NEW n \in Int
  PROVE  /\ IsFiniteSet(Units(p, n))
         /\ Cardinality(Units(p, n)) = IF n > 0 THEN n ELSE 0
<1> DEFINE f == [i \in 1..n |-> <<p, i>>]
<1>1. \A u : u \in Units(p, n) <=> \E i \in 1..n : u = <<p, i>>
  BY DEF Units
<1>2. f \in Bijection(1..n, Units(p, n))
  <2>1. f \in [1..n -> Units(p, n)]
    BY <1>1
  <2>2. \A i, j \in 1..n : f[i] = f[j] => i = j
    OBVIOUS
  <2>3. \A u \in Units(p, n) : \E i \in 1..n : f[i] = u
    BY <1>1
  <2> QED
    BY <2>1, <2>2, <2>3 DEF Bijection, Injection, Surjection, IsInjective
<1>3. ExistsBijection(1..n, Units(p, n))
  BY <1>2 DEF ExistsBijection
<1> HIDE DEF f
<1>4. /\ IsFiniteSet(1..n)
      /\ Cardinality(1..n) = IF n > 0 THEN n ELSE 0
  BY FS_Interval
<1> QED
  BY <1>3, <1>4, FS_Bijection

\* The entry of p ends: its units leave both sets.
LEMMA EntryCleared ==
  ASSUME UnitsKept, NEW p \in Proc, adj[p][Wr] \in Int,
         adj'[p][Wr] = 0, \A q \in Proc : q # p => adj'[q][Wr] = adj[q][Wr]
  PROVE  /\ IsFiniteSet(Owed') /\ IsFiniteSet(Due')
         /\ Cardinality(Owed') - Cardinality(Due')
              = Cardinality(Owed) - Cardinality(Due) - adj[p][Wr]
<1> DEFINE a == adj[p][Wr]
<1>0. a \in Int /\ -a \in Int
  OBVIOUS
<1>1. Owed' = Owed \ Units(p, a) /\ Owed \cap Units(p, a) = Units(p, a)
  BY DEF Owed, Units
<1>2. Due' = Due \ Units(p, -a) /\ Due \cap Units(p, -a) = Units(p, -a)
  BY DEF Due, Units
<1>3. /\ IsFiniteSet(Owed')
      /\ Cardinality(Owed') = Cardinality(Owed) - (IF a > 0 THEN a ELSE 0)
  <2>1. /\ IsFiniteSet(Owed \ Units(p, a))
        /\ Cardinality(Owed \ Units(p, a))
             = Cardinality(Owed) - Cardinality(Owed \cap Units(p, a))
    BY FS_Difference DEF UnitsKept
  <2>2. Cardinality(Units(p, a)) = IF a > 0 THEN a ELSE 0
    BY <1>0, UnitsCount
  <2> QED
    BY <1>1, <2>1, <2>2
<1>4. /\ IsFiniteSet(Due')
      /\ Cardinality(Due') = Cardinality(Due) - (IF -a > 0 THEN -a ELSE 0)
  <2>1. /\ IsFiniteSet(Due \ Units(p, -a))
        /\ Cardinality(Due \ Units(p, -a))
             = Cardinality(Due) - Cardinality(Due \cap Units(p, -a))
    BY FS_Difference DEF UnitsKept
  <2>2. Cardinality(Units(p, -a)) = IF -a > 0 THEN -a ELSE 0
    BY <1>0, UnitsCount
  <2> QED
    BY <1>2, <2>1, <2>2
<1>5. Cardinality(Owed) \in Nat /\ Cardinality(Due) \in Nat
  BY FS_CardinalityType DEF UnitsKept
<1> QED
  BY <1>0, <1>3, <1>4, <1>5

\* One unit more in the entry of p: one more to add or one less to take.
LEMMA EntryRaised ==
  ASSUME UnitsKept, NEW p \in Proc, adj[p][Wr] \in Int,
         adj'[p][Wr] = adj[p][Wr] + 1,
         \A q \in Proc : q # p => adj'[q][Wr] = adj[q][Wr]
  PROVE  /\ IsFiniteSet(Owed') /\ IsFiniteSet(Due')
         /\ Cardinality(Owed') - Cardinality(Due')
              = Cardinality(Owed) - Cardinality(Due) + 1
<1> DEFINE a == adj[p][Wr]
<1>0. Cardinality(Owed) \in Nat /\ Cardinality(Due) \in Nat
  BY FS_CardinalityType DEF UnitsKept
<1>1. CASE a >= 0
  <2>1. Owed' = Owed \cup {<<p, a + 1>>} /\ <<p, a + 1>> \notin Owed
    BY <1>1 DEF Owed
  <2>2. Due' = Due
    BY <1>1 DEF Due
  <2>3. /\ IsFiniteSet(Owed \cup {<<p, a + 1>>})
        /\ Cardinality(Owed \cup {<<p, a + 1>>}) = Cardinality(Owed) + 1
    BY <2>1, FS_AddElement DEF UnitsKept
  <2>4. IsFiniteSet(Due)
    BY DEF UnitsKept
  <2> QED
    BY <1>0, <2>1, <2>2, <2>3, <2>4
<1>2. CASE a < 0
  <2>1. Due' = Due \ {<<p, -a>>} /\ <<p, -a>> \in Due
    BY <1>2 DEF Due
  <2>2. Owed' = Owed
    BY <1>2 DEF Owed
  <2>3. /\ IsFiniteSet(Due \ {<<p, -a>>})
        /\ Cardinality(Due \ {<<p, -a>>}) = Cardinality(Due) - 1
    BY <2>1, FS_RemoveElement DEF UnitsKept
  <2>4. IsFiniteSet(Owed)
    BY DEF UnitsKept
  <2> QED
    BY <1>0, <2>1, <2>2, <2>3, <2>4
<1> QED
  BY <1>1, <1>2

LEMMA EntryLowered ==
  ASSUME UnitsKept, NEW p \in Proc, adj[p][Wr] \in Int,
         adj'[p][Wr] = adj[p][Wr] - 1,
         \A q \in Proc : q # p => adj'[q][Wr] = adj[q][Wr]
  PROVE  /\ IsFiniteSet(Owed') /\ IsFiniteSet(Due')
         /\ Cardinality(Owed') - Cardinality(Due')
              = Cardinality(Owed) - Cardinality(Due) - 1
<1> DEFINE a == adj[p][Wr]
<1>0. Cardinality(Owed) \in Nat /\ Cardinality(Due) \in Nat
  BY FS_CardinalityType DEF UnitsKept
<1>1. CASE a > 0
  <2>1. Owed' = Owed \ {<<p, a>>} /\ <<p, a>> \in Owed
    BY <1>1 DEF Owed
  <2>2. Due' = Due
    BY <1>1 DEF Due
  <2>3. /\ IsFiniteSet(Owed \ {<<p, a>>})
        /\ Cardinality(Owed \ {<<p, a>>}) = Cardinality(Owed) - 1
    BY <2>1, FS_RemoveElement DEF UnitsKept
  <2>4. IsFiniteSet(Due)
    BY DEF UnitsKept
  <2> QED
    BY <1>0, <2>1, <2>2, <2>3, <2>4
<1>2. CASE a <= 0
  <2>1. Due' = Due \cup {<<p, 1 - a>>} /\ <<p, 1 - a>> \notin Due
    BY <1>2 DEF Due
  <2>2. Owed' = Owed
    BY <1>2 DEF Owed
  <2>3. /\ IsFiniteSet(Due \cup {<<p, 1 - a>>})
        /\ Cardinality(Due \cup {<<p, 1 - a>>}) = Cardinality(Due) + 1
    BY <2>1, FS_AddElement DEF UnitsKept
  <2>4. IsFiniteSet(Owed)
    BY DEF UnitsKept
  <2> QED
    BY <1>0, <2>1, <2>2, <2>3, <2>4
<1> QED
  BY <1>1, <1>2

LEMMA UnitsStep ==
  ASSUME UnitsKept, TypeOK', NEW p \in Proc,
         UNCHANGED <<val, adj>> \/ Acquire(p) \/ Release(p) \/ Sem!Undo(p)
  PROVE  UnitsKept'
<1>0. /\ val[Wr] \in Nat /\ \A q \in Proc : adj[q][Wr] \in Int
      /\ val'[Wr] \in Nat
      /\ Cardinality(Owed) \in Nat /\ Cardinality(Due) \in Nat
  BY FS_CardinalityType DEF UnitsKept, TypeOK, Sem!SemTypeOK, Wr
<1>1. CASE UNCHANGED <<val, adj>>
  BY <1>1 DEF UnitsKept, Owed, Due
<1>2. CASE Acquire(p)
  <2>1. /\ val'[Wr] = val[Wr] - 1
        /\ adj'[p][Wr] = adj[p][Wr] + 1
        /\ \A q \in Proc : q # p => adj'[q][Wr] = adj[q][Wr]
    BY <1>2 DEF Acquire, Sem!Down, UnitsKept, TypeOK, Sem!SemTypeOK, Wr
  <2>2. /\ IsFiniteSet(Owed') /\ IsFiniteSet(Due')
        /\ Cardinality(Owed') - Cardinality(Due')
             = Cardinality(Owed) - Cardinality(Due) + 1
    BY <1>0, <2>1, EntryRaised
  <2>3. Cardinality(Owed') \in Nat /\ Cardinality(Due') \in Nat
    BY <2>2, FS_CardinalityType
  <2> QED
    BY <1>0, <2>1, <2>2, <2>3 DEF UnitsKept
<1>3. CASE Release(p)
  <2>1. /\ val'[Wr] = val[Wr] + 1
        /\ adj'[p][Wr] = adj[p][Wr] - 1
        /\ \A q \in Proc : q # p => adj'[q][Wr] = adj[q][Wr]
    BY <1>3 DEF Release, Sem!Up, UnitsKept, TypeOK, Sem!SemTypeOK, Wr
  <2>2. /\ IsFiniteSet(Owed') /\ IsFiniteSet(Due')
        /\ Cardinality(Owed') - Cardinality(Due')
             = Cardinality(Owed) - Cardinality(Due) - 1
    BY <1>0, <2>1, EntryLowered
  <2>3. Cardinality(Owed') \in Nat /\ Cardinality(Due') \in Nat
    BY <2>2, FS_CardinalityType
  <2> QED
    BY <1>0, <2>1, <2>2, <2>3 DEF UnitsKept
<1>4. CASE Sem!Undo(p)
  <2>1. /\ val'[Wr] >= val[Wr] + adj[p][Wr]
        /\ adj'[p][Wr] = 0
        /\ \A q \in Proc : q # p => adj'[q][Wr] = adj[q][Wr]
    BY <1>0, <1>4 DEF Sem!Undo, UnitsKept, TypeOK, Sem!SemTypeOK, Wr
  <2>2. /\ IsFiniteSet(Owed') /\ IsFiniteSet(Due')
        /\ Cardinality(Owed') - Cardinality(Due')
             = Cardinality(Owed) - Cardinality(Due) - adj[p][Wr]
    BY <1>0, <2>1, EntryCleared
  <2>3. Cardinality(Owed') \in Nat /\ Cardinality(Due') \in Nat
    BY <2>2, FS_CardinalityType
  <2> QED
    BY <1>0, <2>1, <2>2, <2>3 DEF UnitsKept
<1> QED
  BY <1>1, <1>2, <1>3, <1>4

\* The inductive invariant: the value and the undo entries together never hold
\* less than the one unit the set was made with, whatever fails.
THEOREM UnitsInvariant == Spec => []UnitsKept
<1>1. Init => UnitsKept
  <2> SUFFICES ASSUME Init PROVE UnitsKept
    OBVIOUS
  <2>1. TypeOK
    BY DEF Init, TypeOK, Sem!SemInit, Sem!SemTypeOK, Control
  <2>2. val[Wr] = 1 /\ \A p \in Proc : adj[p][Wr] = 0
    BY DEF Init, Sem!SemInit, Wr
  <2>3. Owed = {} /\ Due = {}
    BY <2>2 DEF Owed, Due
  <2> QED
    BY <2>1, <2>2, <2>3, FS_EmptySet DEF UnitsKept
<1>2. TypeOK' /\ UnitsKept /\ [Next]_vars => UnitsKept'
  <2> SUFFICES ASSUME TypeOK', UnitsKept, [Next]_vars PROVE UnitsKept'
    OBVIOUS
  <2>1. CASE UNCHANGED vars
    BY <2>1 DEF vars, UnitsKept, Owed, Due
  <2>2. CASE Next
    <3>1. PICK p \in Proc : Begin(p) \/ AnyAcquire(p) \/ Progress(p) \/ End(p)
      BY <2>2 DEF Next
    <3>2. UNCHANGED <<val, adj>> \/ Acquire(p) \/ Release(p) \/ Sem!Undo(p)
      BY <3>1 DEF Begin, AnyAcquire, Progress,
          Open, OpenAcquire, OpenDatabaseFails, OpenSetupFails, OpenSetup,
          OpenError, FileChanged, TimezonesPrepareFails, TimezonesPrepare,
          TimezonesAcquire, TimezonesStep, NotebooksAcquire, NotebooksLoaded,
          Call, CallAcquire, CallReturn, DeletedDateFails, DeletedDate,
          DeletedDateAcquire, DeletedDateReturn, Close, End, KeepLock,
          UncheckedRelease
    <3> QED
      BY <3>2, UnitsStep
  <2> QED
    BY <2>1, <2>2
<1> QED
  BY <1>1, <1>2, TypeCorrect, PTL DEF Spec

\* Whatever fails, and in however many processes, when the kernel owes nothing
\* to anyone the lock can be taken (semaphore_p.cpp:207): what open() leaked is
\* given back, and a release without a lock is taken back, when its process ends.
THEOREM LockComesBack == Spec => []NotLostForGood
<1>1. UnitsKept => NotLostForGood
  <2> SUFFICES ASSUME UnitsKept, \A p \in Proc : adj[p][Wr] = 0
               PROVE  val[Wr] >= 1
    BY DEF NotLostForGood
  <2>1. Owed = {} /\ Due = {}
    BY DEF Owed, Due
  <2>2. val[Wr] \in Nat
    BY DEF UnitsKept, TypeOK, Sem!SemTypeOK, Wr
  <2> QED
    BY <2>1, <2>2, FS_EmptySet DEF UnitsKept
<1> QED
  BY <1>1, UnitsInvariant, PTL
=============================================================================
