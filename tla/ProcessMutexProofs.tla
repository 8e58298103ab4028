------------------------- MODULE ProcessMutexProofs -------------------------
(***************************************************************************)
(* Proofs about ProcessMutex for any number of processes.                  *)
(*                                                                         *)
(* Mutual exclusion is not inductive by itself: a SETVAL on the write lock *)
(* would break it if anyone were in the section at that moment.  MutexInv  *)
(* adds who may be where while the set is being created, and ties the      *)
(* kernel's undo entries to the control state, so that the end of a        *)
(* process gives back exactly what the process holds.                      *)
(***************************************************************************)
EXTENDS ProcessMutex, FiniteSetTheorems, TLAPS

Wr == "writeAccess"

\* Before the set exists nobody is past the lookup.
NotYet ==
  ~exists => /\ val[Wr] = 0
             /\ \A p \in Proc : pc[p] \in {"absent", "get", "create"}

\* At most one process initialises the set, and the lock is shut meanwhile.
OneCreator ==
  \A p \in Proc : pc[p] \in Setting =>
    /\ exists
    /\ val[Wr] = 0
    /\ \A q \in Proc : /\ pc[q] # "critical"
                       /\ pc[q] \in Setting => p = q

\* The undo entry of the lock is one exactly in the section.
UndoMatches ==
  \A p \in Proc : adj[p][Wr] = IF pc[p] = "critical" THEN 1 ELSE 0

\* The lock is a binary semaphore, taken while anyone is in the section.
Binary ==
  /\ val[Wr] \in {0, 1}
  /\ \A p \in Proc : pc[p] = "critical" => val[Wr] = 0
  /\ \A p, q \in Proc : pc[p] = "critical" /\ pc[q] = "critical" => p = q

MutexInv == TypeOK /\ NotYet /\ OneCreator /\ UndoMatches /\ Binary

-----------------------------------------------------------------------------

\* The four operations of the set keep its type.
LEMMA SemOps ==
  ASSUME NEW p \in Proc, NEW i \in Index, Sem!SemTypeOK
  PROVE  /\ Sem!Up(p, i) => Sem!SemTypeOK'
         /\ Sem!Down(p, i) => Sem!SemTypeOK'
         /\ Sem!SetVal(i, InitialValues[i]) => Sem!SemTypeOK'
         /\ Sem!Undo(p) => Sem!SemTypeOK'
<1>1. InitialValues[i] \in Nat
  BY DEF InitialValues
<1> QED
  BY <1>1 DEF Sem!SemTypeOK, Sem!Up, Sem!Down, Sem!SetVal, Sem!Undo

\* Every state has its type (semaphore_p.cpp as a whole).
THEOREM TypeCorrect == Spec => []TypeOK
<1>1. Init => TypeOK
  BY ExistingAssumption
  DEF Init, TypeOK, Sem!SemInit, Sem!SemTypeOK, InitialValues, Control
<1>2. TypeOK /\ [Next]_vars => TypeOK'
  <2> SUFFICES ASSUME TypeOK, [Next]_vars PROVE TypeOK'
    OBVIOUS
  <2>1. CASE UNCHANGED vars
    BY <2>1 DEF vars, TypeOK, Sem!SemTypeOK
  <2>2. ASSUME NEW p \in Proc, Progress(p) \/ Start(p) \/ Request(p)
                               \/ TakeOwnership(p) \/ Acquire(p)
        PROVE  TypeOK'
    <3>1. Sem!SemTypeOK'
      BY <2>2, SemOps
      DEF TypeOK, Sem!SemTypeOK, Progress, Start, Request, TakeOwnership, Acquire,
          Get, Create, CreateLost, SetInitialValue, ReadConnections,
          CountConnection, DropOwnership, Release, Index
    <3>2. (pc \in [Proc -> Control])'
      BY <2>2
      DEF TypeOK, Progress, Start, Request, TakeOwnership, Acquire,
          Get, Create, CreateLost, SetInitialValue, ReadConnections,
          CountConnection, DropOwnership, Release, Goto,
          Control, Constructing, Setting
    <3>3. (exists \in BOOLEAN /\ initial \in [Proc -> BOOLEAN])'
      BY <2>2
      DEF TypeOK, Progress, Start, Request, TakeOwnership, Acquire,
          Get, Create, CreateLost, SetInitialValue, ReadConnections,
          CountConnection, DropOwnership, Release
    <3> QED
      BY <3>1, <3>2, <3>3 DEF TypeOK
  <2>3. ASSUME NEW p \in Proc, End(p) PROVE TypeOK'
    <3>1. Sem!SemTypeOK'
      BY <2>3, SemOps DEF TypeOK, End, Index
    <3> QED
      BY <2>3, <3>1 DEF TypeOK, End, Control
  <2> QED
    BY <2>1, <2>2, <2>3 DEF Next
<1> QED
  BY <1>1, <1>2, PTL DEF Spec

-----------------------------------------------------------------------------

\* The steps that leave the write lock and its undo entries alone.
Quiet(p) ==
  \/ Start(p) \/ Get(p) \/ CreateLost(p)
  \/ TakeOwnership(p) \/ ReadConnections(p) \/ CountConnection(p)
  \/ DropOwnership(p) \/ Request(p)

LEMMA QuietStep ==
  ASSUME NEW p \in Proc, TypeOK, Quiet(p)
  PROVE  /\ exists' = exists
         /\ val'[Wr] = val[Wr]
         /\ \A q \in Proc : adj'[q][Wr] = adj[q][Wr]
         /\ \A q \in Proc : q # p => pc'[q] = pc[q]
         /\ pc[p] # "critical" /\ pc'[p] # "critical"
         /\ pc'[p] \notin Setting /\ pc[p] \notin Setting
         /\ ~exists => (pc[p] \in {"absent", "get", "create"} =>
                         pc'[p] \in {"absent", "get", "create"})
<1>1. /\ exists' = exists
      /\ val'[Wr] = val[Wr]
      /\ \A q \in Proc : adj'[q][Wr] = adj[q][Wr]
  BY DEF Quiet, Start, Get, CreateLost, TakeOwnership, ReadConnections,
         CountConnection, DropOwnership, Request, Sem!Up, Sem!Down,
         TypeOK, Sem!SemTypeOK, Index, Wr
<1>2. /\ \A q \in Proc : q # p => pc'[q] = pc[q]
      /\ pc[p] # "critical" /\ pc'[p] # "critical"
      /\ pc'[p] \notin Setting /\ pc[p] \notin Setting
      /\ ~exists => (pc[p] \in {"absent", "get", "create"} =>
                      pc'[p] \in {"absent", "get", "create"})
  BY DEF Quiet, Start, Get, CreateLost, TakeOwnership, ReadConnections,
         CountConnection, DropOwnership, Request, Goto, TypeOK, Setting
<1> QED
  BY <1>1, <1>2

LEMMA MutexInit == Init => MutexInv
<1> SUFFICES ASSUME Init PROVE MutexInv
  OBVIOUS
<1>1. TypeOK
  BY ExistingAssumption
  DEF Init, TypeOK, Sem!SemInit, Sem!SemTypeOK, InitialValues, Control
<1>2. /\ val[Wr] \in {0, 1}
      /\ ~exists => val[Wr] = 0
      /\ \A p \in Proc : adj[p][Wr] = 0
      /\ \A p \in Proc : pc[p] = "absent"
  BY DEF Init, Sem!SemInit, InitialValues, Wr, Index
<1> QED
  BY <1>1, <1>2 DEF MutexInv, NotYet, OneCreator, UndoMatches, Binary, Setting

LEMMA MutexStep ==
  ASSUME MutexInv, TypeOK', NEW p \in Proc,
         Quiet(p) \/ Create(p) \/ SetInitialValue(p) \/ Acquire(p)
           \/ Release(p) \/ End(p)
  PROVE  MutexInv'
<1> USE DEF MutexInv
<1>1. CASE Quiet(p)
  BY <1>1, QuietStep DEF NotYet, OneCreator, UndoMatches, Binary
<1>2. CASE Create(p)
  BY <1>2 DEF Create, Goto, NotYet, OneCreator, UndoMatches, Binary, Setting,
              TypeOK
<1>3. CASE SetInitialValue(p)
  <2>1. /\ pc[p] \in Setting
        /\ pc' = [pc EXCEPT ![p] = pc'[p]]
        /\ pc'[p] # "critical"
        /\ pc'[p] \in Setting => val'[Wr] = val[Wr]
        /\ exists' = exists
        /\ val'[Wr] \in {val[Wr], 1}
    BY <1>3 DEF SetInitialValue, Goto, Setting, TypeOK, Sem!SetVal,
                Sem!SemTypeOK, InitialValues, Index, Wr
  <2>2. \A q \in Proc : adj'[q][Wr] = 0
    BY <1>3, <2>1 DEF SetInitialValue, Sem!SetVal, TypeOK, Sem!SemTypeOK, Index,
                      Wr, OneCreator, UndoMatches
  <2> QED
    BY <2>1, <2>2 DEF NotYet, OneCreator, UndoMatches, Binary, TypeOK
<1>4. CASE Acquire(p)
  <2>1. /\ val[Wr] = 1 /\ val'[Wr] = 0
        /\ pc[p] = "waiting" /\ pc'[p] = "critical"
        /\ \A q \in Proc : q # p => pc'[q] = pc[q] /\ adj'[q][Wr] = adj[q][Wr]
        /\ adj'[p][Wr] = adj[p][Wr] + 1
        /\ exists' = exists
    BY <1>4 DEF Acquire, Goto, Sem!Down, TypeOK, Sem!SemTypeOK, Index, Wr, Binary
  <2> QED
    BY <2>1 DEF NotYet, OneCreator, UndoMatches, Binary, Setting
<1>5. CASE Release(p)
  <2>1. /\ val'[Wr] = val[Wr] + 1
        /\ pc[p] = "critical" /\ pc'[p] = "idle"
        /\ \A q \in Proc : q # p => pc'[q] = pc[q] /\ adj'[q][Wr] = adj[q][Wr]
        /\ adj'[p][Wr] = adj[p][Wr] - 1
        /\ exists' = exists
    BY <1>5 DEF Release, Goto, Sem!Up, TypeOK, Sem!SemTypeOK, Index, Wr
  <2> QED
    BY <2>1 DEF NotYet, OneCreator, UndoMatches, Binary, Setting
<1>6. CASE End(p)
  <2>1. /\ val'[Wr] = IF pc[p] = "critical" THEN val[Wr] + 1 ELSE val[Wr]
        /\ pc'[p] = "absent"
        /\ \A q \in Proc : q # p => pc'[q] = pc[q] /\ adj'[q][Wr] = adj[q][Wr]
        /\ adj'[p][Wr] = 0
        /\ exists' = exists
    BY <1>6 DEF End, Sem!Undo, TypeOK, Sem!SemTypeOK, Index, Wr, UndoMatches,
                Binary
  <2> QED
    BY <2>1 DEF NotYet, OneCreator, UndoMatches, Binary, Setting
<1> QED
  BY <1>1, <1>2, <1>3, <1>4, <1>5, <1>6

THEOREM MutexInvariant == Spec => []MutexInv
<1>1. Init => MutexInv
  BY MutexInit
<1>2. MutexInv /\ TypeOK' /\ [Next]_vars => MutexInv'
  <2>1. MutexInv /\ TypeOK' /\ UNCHANGED vars => MutexInv'
    BY DEF vars, MutexInv, NotYet, OneCreator, UndoMatches, Binary
  <2> QED
    BY <2>1, MutexStep DEF Next, Progress, Quiet
<1> QED
  BY <1>1, <1>2, TypeCorrect, PTL DEF Spec

\* acquire() and release() exclude: at any moment, and whatever processes
\* start, race to create the set, or die, one process at most is in the
\* section (semaphore_p.cpp:230-238).
THEOREM Exclusion == Spec => []MutualExclusion
<1>1. MutexInv => MutualExclusion
  BY DEF MutexInv, Binary, MutualExclusion, Critical
<1> QED
  BY <1>1, MutexInvariant, PTL

\* ProcessMutex implements the abstract lock: the section is entered only
\* when empty, and left by release() or by the end of its process, for which
\* the undo semantics stand in (semaphore_p.cpp:206-208).
THEOREM Refinement == Spec => ImplementsLock
<1>1. Init => AbstractLock!LockInit
  BY DEF Init, AbstractLock!LockInit, Critical
<1>2. MutexInv /\ TypeOK' /\ [Next]_vars
        => [AbstractLock!LockNext]_Critical
  <2> SUFFICES ASSUME MutexInv, TypeOK', [Next]_vars
               PROVE  [AbstractLock!LockNext]_Critical
    OBVIOUS
  <2> USE DEF MutexInv
  <2>1. CASE UNCHANGED vars
    BY <2>1 DEF vars, Critical
  <2>2. ASSUME NEW p \in Proc, Quiet(p) PROVE UNCHANGED Critical
    BY <2>2, QuietStep DEF Critical
  <2>3. ASSUME NEW p \in Proc, Create(p) \/ SetInitialValue(p)
        PROVE  UNCHANGED Critical
    BY <2>3 DEF Create, SetInitialValue, Goto, Critical, TypeOK
  <2>4. ASSUME NEW p \in Proc, Acquire(p) PROVE AbstractLock!Enter(p)
    <3>1. Critical = {}
      BY <2>4 DEF Acquire, Sem!Down, Binary, Critical, Wr
    <3>2. Critical' = {p}
      BY <2>4, <3>1 DEF Acquire, Goto, Critical, TypeOK
    <3> QED
      BY <3>1, <3>2 DEF AbstractLock!Enter
  <2>5. ASSUME NEW p \in Proc, pc[p] = "critical", Release(p) \/ End(p)
        PROVE  AbstractLock!Leave(p)
    <3>1. Critical = {p}
      BY <2>5 DEF Binary, Critical
    <3>2. Critical' = {}
      BY <2>5, <3>1 DEF Release, End, Goto, Critical, TypeOK
    <3> QED
      BY <3>1, <3>2 DEF AbstractLock!Leave
  <2>6. ASSUME NEW p \in Proc, pc[p] # "critical", Release(p) \/ End(p)
        PROVE  UNCHANGED Critical
    BY <2>6 DEF Release, End, Goto, Critical, TypeOK
  <2> QED
    BY <2>1, <2>2, <2>3, <2>4, <2>5, <2>6
    DEF Next, Progress, Quiet, AbstractLock!LockNext
<1> QED
  BY <1>1, <1>2, MutexInvariant, TypeCorrect, PTL
  DEF Spec, ImplementsLock, AbstractLock!LockSpec

-----------------------------------------------------------------------------
(***************************************************************************)
(* A set that was created and completed earlier.  The lock can then not be *)
(* lost either, and the connection count is exact, which is what makes the *)
(* first process to connect unique.                                        *)
(***************************************************************************)

Own == "ownership"
Con == "connections"

Owning == {"owner", "counted", "connected"}
Connected == {p \in Proc : pc[p] \in {"connected", "idle", "waiting", "critical"}}

\* The set is complete, and the lock is open when nobody is in the section.
Complete ==
  /\ exists
  /\ \A p \in Proc : pc[p] \notin Setting
  /\ (\A p \in Proc : pc[p] # "critical") => val[Wr] = 1

\* The ownership semaphore is a lock around the counting.
OwnershipLock ==
  /\ val[Own] \in {0, 1}
  /\ \A p \in Proc : adj[p][Own] = IF pc[p] \in Owning THEN 1 ELSE 0
  /\ \A p \in Proc : pc[p] \in Owning => val[Own] = 0
  /\ \A p, q \in Proc : pc[p] \in Owning /\ pc[q] \in Owning => p = q

\* The count and its undo entries follow the connected processes.
Counting ==
  /\ val[Con] = Cardinality(Connected)
  /\ \A p \in Proc : adj[p][Con] = IF p \in Connected THEN -1 ELSE 0

\* An initial process found nobody connected, and nobody passes it meanwhile.
FirstAlone ==
  /\ \A p \in Proc : initial[p] => pc[p] = "counted" \/ p \in Connected
  /\ \A p \in Proc : initial[p] /\ pc[p] = "counted" => Connected = {}
  /\ \A p, q \in Proc : initial[p] /\ initial[q] => p = q

AttachedInv == TypeOK /\ Complete /\ OwnershipLock /\ Counting /\ FirstAlone

LEMMA AttachedInit ==
  ASSUME Existing = {TRUE}
  PROVE  Init => AttachedInv
<1> SUFFICES ASSUME Init PROVE AttachedInv
  OBVIOUS
<1>1. /\ TypeOK /\ exists
      /\ val[Wr] = 1 /\ val[Own] = 1 /\ val[Con] = 0
      /\ \A p \in Proc : pc[p] = "absent" /\ ~initial[p]
      /\ \A p \in Proc : \A i \in Index : adj[p][i] = 0
  BY DEF Init, TypeOK, Sem!SemInit, Sem!SemTypeOK, InitialValues, Control,
         Index, Wr, Own, Con
<1>2. Connected = {}
  BY <1>1 DEF Connected
<1>3. Cardinality({}) = 0
  BY FS_EmptySet
<1> QED
  BY <1>1, <1>2, <1>3
  DEF AttachedInv, Complete, OwnershipLock, Counting, FirstAlone, Setting,
      Owning, Index, Own, Con

\* Steps that change neither the connected processes nor the counter.
LEMMA SameConnected ==
  ASSUME NEW p \in Proc, TypeOK,
         Quiet(p) \/ Acquire(p) \/ Release(p), ~CountConnection(p)
  PROVE  /\ Connected' = Connected
         /\ val'[Con] = val[Con]
         /\ \A q \in Proc : adj'[q][Con] = adj[q][Con]
<1>1. Connected' = Connected
  BY DEF Quiet, Start, Get, CreateLost, TakeOwnership, ReadConnections,
         DropOwnership, Request, Acquire, Release, Goto, Connected, TypeOK
<1>2. /\ val'[Con] = val[Con]
      /\ \A q \in Proc : adj'[q][Con] = adj[q][Con]
  BY DEF Quiet, Start, Get, CreateLost, TakeOwnership, ReadConnections,
         DropOwnership, Request, Acquire, Release, Sem!Up, Sem!Down,
         TypeOK, Sem!SemTypeOK, Index, Con
<1> QED
  BY <1>1, <1>2

LEMMA ConnectedFinite ==
  ASSUME IsFiniteSet(Proc)
  PROVE  /\ IsFiniteSet(Connected) /\ Cardinality(Connected) \in Nat
         /\ Cardinality(Connected) = 0 <=> Connected = {}
<1>1. Connected \subseteq Proc
  BY DEF Connected
<1> QED
  BY <1>1, FS_Subset, FS_CardinalityType, FS_EmptySet

LEMMA CompleteStep ==
  ASSUME AttachedInv, MutexInv, TypeOK', NEW p \in Proc,
         Quiet(p) \/ Acquire(p) \/ Release(p) \/ End(p)
  PROVE  Complete'
<1> USE DEF AttachedInv
<1>1. CASE Quiet(p)
  BY <1>1, QuietStep DEF Complete
<1>2. CASE Acquire(p)
  BY <1>2 DEF Complete, Acquire, Goto, TypeOK, Setting
<1>3. CASE Release(p)
  <2>1. val'[Wr] = val[Wr] + 1 /\ val[Wr] = 0
    BY <1>3 DEF Release, Goto, Sem!Up, TypeOK, Sem!SemTypeOK, Index, Wr,
                MutexInv, Binary
  <2> QED
    BY <1>3, <2>1 DEF Complete, Release, Goto, TypeOK, Setting
<1>4. CASE End(p)
  <2>1. val'[Wr] = IF pc[p] = "critical" THEN val[Wr] + 1 ELSE val[Wr]
    BY <1>4 DEF End, Sem!Undo, TypeOK, Sem!SemTypeOK, Index, Wr, MutexInv,
                UndoMatches, Binary
  <2>2. pc[p] = "critical" => val[Wr] = 0
    BY DEF MutexInv, Binary
  <2> QED
    BY <1>4, <2>1, <2>2 DEF Complete, End, TypeOK, Setting
<1> QED
  BY <1>1, <1>2, <1>3, <1>4

LEMMA OwnershipStep ==
  ASSUME AttachedInv, TypeOK', NEW p \in Proc,
         Quiet(p) \/ Acquire(p) \/ Release(p) \/ End(p)
  PROVE  OwnershipLock'
<1> USE DEF AttachedInv
<1>1. CASE \/ Start(p) \/ Get(p) \/ CreateLost(p) \/ ReadConnections(p)
           \/ CountConnection(p) \/ Request(p) \/ Acquire(p) \/ Release(p)
  <2>1. /\ val'[Own] = val[Own]
        /\ \A q \in Proc : adj'[q][Own] = adj[q][Own]
    BY <1>1 DEF Start, Get, CreateLost, ReadConnections, CountConnection,
                Request, Acquire, Release, Sem!Up, Sem!Down, TypeOK,
                Sem!SemTypeOK, Index, Own
  <2>2. \A q \in Proc : pc'[q] \in Owning <=> pc[q] \in Owning
    BY <1>1 DEF Start, Get, CreateLost, ReadConnections, CountConnection,
                Request, Acquire, Release, Goto, TypeOK, Owning
  <2> QED
    BY <2>1, <2>2 DEF OwnershipLock
<1>2. CASE TakeOwnership(p)
  <2>1. /\ val[Own] = 1 /\ val'[Own] = 0
        /\ pc[p] \notin Owning /\ pc'[p] \in Owning
        /\ adj'[p][Own] = adj[p][Own] + 1
        /\ \A q \in Proc : q # p => pc'[q] = pc[q] /\ adj'[q][Own] = adj[q][Own]
    BY <1>2 DEF TakeOwnership, Goto, Sem!Down, TypeOK, Sem!SemTypeOK, Index,
                Own, OwnershipLock, Owning
  <2> QED
    BY <2>1 DEF OwnershipLock
<1>3. CASE DropOwnership(p) \/ End(p)
  <2>1. /\ val'[Own] = IF pc[p] \in Owning THEN val[Own] + 1 ELSE val[Own]
        /\ pc'[p] \notin Owning
        /\ adj'[p][Own] = 0
        /\ \A q \in Proc : q # p => pc'[q] = pc[q] /\ adj'[q][Own] = adj[q][Own]
    BY <1>3 DEF DropOwnership, End, Goto, Sem!Up, Sem!Undo, TypeOK,
                Sem!SemTypeOK, Index, Own, OwnershipLock, Owning
  <2> QED
    BY <2>1 DEF OwnershipLock
<1> QED
  BY <1>1, <1>2, <1>3 DEF Quiet

LEMMA CountingStep ==
  ASSUME AttachedInv, TypeOK', NEW p \in Proc, IsFiniteSet(Proc),
         Quiet(p) \/ Acquire(p) \/ Release(p) \/ End(p)
  PROVE  Counting'
<1> USE DEF AttachedInv
<1>1. CASE CountConnection(p)
  <2>1. Connected' = Connected \cup {p} /\ p \notin Connected
    BY <1>1 DEF CountConnection, Goto, TypeOK, Connected
  <2>2. Cardinality(Connected') = Cardinality(Connected) + 1
    BY <2>1, ConnectedFinite, FS_AddElement
  <2>3. /\ val'[Con] = val[Con] + 1
        /\ adj'[p][Con] = adj[p][Con] - 1
        /\ \A q \in Proc : q # p => adj'[q][Con] = adj[q][Con]
    BY <1>1 DEF CountConnection, Sem!Up, TypeOK, Sem!SemTypeOK, Index, Con
  <2> QED
    BY <2>1, <2>2, <2>3 DEF Counting
<1>2. CASE End(p)
  <2>1. Connected' = Connected \ {p}
    BY <1>2 DEF End, TypeOK, Connected
  <2>2. Cardinality(Connected') =
          IF p \in Connected THEN Cardinality(Connected) - 1
          ELSE Cardinality(Connected)
    BY <2>1, ConnectedFinite, FS_RemoveElement
  <2>3. /\ val'[Con] = IF p \in Connected THEN val[Con] - 1 ELSE val[Con]
        /\ adj'[p][Con] = 0
        /\ \A q \in Proc : q # p => adj'[q][Con] = adj[q][Con]
    <3>1. p \in Connected => val[Con] > 0
      BY ConnectedFinite DEF Counting
    <3> QED
      BY <1>2, <3>1 DEF End, Sem!Undo, TypeOK, Sem!SemTypeOK, Index, Con, Counting
  <2> QED
    BY <2>1, <2>2, <2>3 DEF Counting
<1>3. CASE ~CountConnection(p) /\ ~End(p)
  BY <1>3, SameConnected DEF Counting
<1> QED
  BY <1>1, <1>2, <1>3

LEMMA FirstStep ==
  ASSUME AttachedInv, TypeOK', NEW p \in Proc, IsFiniteSet(Proc),
         Quiet(p) \/ Acquire(p) \/ Release(p) \/ End(p)
  PROVE  FirstAlone'
<1> USE DEF AttachedInv
<1>1. CASE ReadConnections(p)
  <2>1. /\ pc[p] = "owner" /\ pc'[p] = "counted"
        /\ \A q \in Proc : q # p => pc'[q] = pc[q] /\ initial'[q] = initial[q]
        /\ initial'[p] => val[Con] = 0
    BY <1>1 DEF ReadConnections, Goto, TypeOK, Con
  <2>2. Connected' = Connected
    BY <1>1 DEF ReadConnections, Goto, TypeOK, Connected
  <2>3. initial'[p] => Connected = {}
    BY <2>1, ConnectedFinite DEF Counting
  <2>4. \A q \in Proc : q # p => pc[q] # "counted"
    BY <2>1 DEF OwnershipLock, Owning
  <2> QED
    BY <2>1, <2>2, <2>3, <2>4 DEF FirstAlone
<1>2. CASE CountConnection(p)
  <2>1. Connected' = Connected \cup {p}
    BY <1>2 DEF CountConnection, Goto, TypeOK, Connected
  <2>2. pc[p] = "counted" /\ pc'[p] = "connected" /\ initial' = initial
    BY <1>2 DEF CountConnection, Goto, TypeOK
  <2>3. \A q \in Proc : q # p => pc'[q] = pc[q] /\ pc[q] # "counted"
    BY <1>2, <2>2 DEF CountConnection, Goto, TypeOK, OwnershipLock, Owning
  <2> QED
    BY <2>1, <2>2, <2>3 DEF FirstAlone
<1>3. CASE End(p)
  <2>1. Connected' = Connected \ {p} /\ ~initial'[p]
    BY <1>3 DEF End, TypeOK, Connected
  <2>2. \A q \in Proc : q # p => pc'[q] = pc[q] /\ initial'[q] = initial[q]
    BY <1>3 DEF End, TypeOK
  <2> QED
    BY <2>1, <2>2 DEF FirstAlone
<1>4. CASE \/ Start(p) \/ Get(p) \/ CreateLost(p) \/ TakeOwnership(p)
           \/ DropOwnership(p) \/ Request(p) \/ Acquire(p) \/ Release(p)
  <2>1. /\ initial' = initial
        /\ \A q \in Proc : pc'[q] = "counted" <=> pc[q] = "counted"
        /\ Connected' = Connected
    BY <1>4 DEF Start, Get, CreateLost, TakeOwnership, DropOwnership, Request,
                Acquire, Release, Goto, TypeOK, Connected
  <2> QED
    BY <2>1 DEF FirstAlone
<1> QED
  BY <1>1, <1>2, <1>3, <1>4 DEF Quiet

\* The invariant of a set that was there from the start.
THEOREM AttachedInvariant ==
  ASSUME Existing = {TRUE}, IsFiniteSet(Proc)
  PROVE  Spec => []AttachedInv
<1>1. Init => AttachedInv
  BY AttachedInit
<1>2. AttachedInv /\ MutexInv /\ TypeOK' /\ [Next]_vars => AttachedInv'
  <2> SUFFICES ASSUME AttachedInv, MutexInv, TypeOK', [Next]_vars
               PROVE  AttachedInv'
    OBVIOUS
  <2>1. CASE UNCHANGED vars
    BY <2>1 DEF vars, AttachedInv, Complete, OwnershipLock, Counting,
                FirstAlone, Connected
  <2>2. ASSUME NEW p \in Proc, Create(p) \/ SetInitialValue(p) PROVE FALSE
    BY <2>2 DEF Create, SetInitialValue, Goto, AttachedInv, Complete, Setting
  <2>3. ASSUME NEW p \in Proc, Quiet(p) \/ Acquire(p) \/ Release(p) \/ End(p)
        PROVE  AttachedInv'
    BY <2>3, CompleteStep, OwnershipStep, CountingStep, FirstStep
    DEF AttachedInv
  <2> QED
    BY <2>1, <2>2, <2>3 DEF Next, Progress, Quiet
<1> QED
  BY <1>1, <1>2, MutexInvariant, TypeCorrect, PTL DEF Spec

\* The lock is neither lost nor doubled, whoever dies in the section: the
\* undo semantics release it (semaphore_p.cpp:206-208).
THEOREM LockKept ==
  ASSUME Existing = {TRUE}, IsFiniteSet(Proc)
  PROVE  Spec => []LockConserved
<1>1. AttachedInv /\ MutexInv => LockConserved
  BY DEF AttachedInv, Complete, MutexInv, Binary, LockConserved, Critical, Wr
<1> QED
  BY <1>1, AttachedInvariant, MutexInvariant, PTL

\* The connection count is the number of live connected processes
\* (semaphore_p.cpp:216-225).
THEOREM CountExact ==
  ASSUME Existing = {TRUE}, IsFiniteSet(Proc)
  PROVE  Spec => []ConnectionsCounted
<1>1. AttachedInv => ConnectionsCounted
  BY DEF AttachedInv, Counting, ConnectionsCounted, Connected, Con
<1> QED
  BY <1>1, AttachedInvariant, PTL

\* Only the first process to connect is the owner (semaphore_p.cpp:219), for
\* a set that is complete; the run mutex_two_owners shows it fails otherwise.
THEOREM OneOwner ==
  ASSUME Existing = {TRUE}, IsFiniteSet(Proc)
  PROVE  Spec => []OneInitialProcess
<1>1. AttachedInv => OneInitialProcess
  BY DEF AttachedInv, FirstAlone, OneInitialProcess
<1> QED
  BY <1>1, AttachedInvariant, PTL
=============================================================================
