---------------------------- MODULE ProcessMutex ----------------------------
(***************************************************************************)
(* ProcessMutex of src/src/semaphore_p.cpp: the creation of the semaphore  *)
(* set by whichever process comes first, the connection protocol of the    *)
(* constructor, and the write lock that every database access of           *)
(* SqliteStorage takes.  Processes may end at any point; the kernel then   *)
(* undoes their semaphore operations.                                      *)
(***************************************************************************)
EXTENDS Integers, FiniteSets

CONSTANTS
  Proc,      \* the processes that share one database directory
  Existing   \* does the set exist at start?  A subset of BOOLEAN

ASSUME ExistingAssumption == Existing \in SUBSET BOOLEAN

Index == {"ownership", "connections", "writeAccess"}

\* initialSemaphoreValues
InitialValues ==
  [i \in Index |-> IF i = "connections" THEN 0 ELSE 1]

VARIABLES
  exists,    \* the kernel has a semaphore set for the key
  val, adj,  \* the set, see Semaphore
  pc,        \* where each process is in its constructor or its section
  initial    \* m_initialProcess of each process

vars == <<exists, val, adj, pc, initial>>

Sem == INSTANCE Semaphore

Setting == {"setOwnership", "setConnections", "setWriteAccess"}

Constructing ==
  {"get", "create", "attached", "owner", "counted", "connected"} \cup Setting

Control == {"absent", "idle", "waiting", "critical"} \cup Constructing

TypeOK ==
  /\ exists \in BOOLEAN
  /\ Sem!SemTypeOK
  /\ pc \in [Proc -> Control]
  /\ initial \in [Proc -> BOOLEAN]

Init ==
  /\ exists \in Existing
  /\ Sem!SemInit(IF exists THEN InitialValues ELSE [i \in Index |-> 0])
  /\ pc = [p \in Proc |-> "absent"]
  /\ initial = [p \in Proc |-> FALSE]

Goto(p, from, to) ==
  /\ pc[p] = from
  /\ pc' = [pc EXCEPT ![p] = to]

-----------------------------------------------------------------------------
(* semaphoreInit *)

\* The process starts and calls the ProcessMutex constructor.
Start(p) ==
  /\ Goto(p, "absent", "get")
  /\ UNCHANGED <<exists, val, adj, initial>>

\* semget(key, count, 0): found, or ENOENT.
Get(p) ==
  /\ Goto(p, "get", IF exists THEN "attached" ELSE "create")
  /\ UNCHANGED <<exists, val, adj, initial>>

\* Mutant: the set is created without IPC_EXCL and initialised again.
CreateAnyway(p) ==
  /\ Goto(p, "create", "setOwnership")
  /\ exists' = TRUE
  /\ UNCHANGED <<val, adj, initial>>

\* semget(IPC_CREAT | IPC_EXCL) succeeds: a set of zeros.
Create(p) ==
  /\ ~exists
  /\ Goto(p, "create", "setOwnership")
  /\ exists' = TRUE
  /\ UNCHANGED <<val, adj, initial>>

\* EEXIST: another process won the race, the lookup is retried and finds it.
CreateLost(p) ==
  /\ exists
  /\ Goto(p, "create", "attached")
  /\ UNCHANGED <<exists, val, adj, initial>>

\* The loop of SETVAL calls, one semaphore at a time.
SetInitialValue(p) ==
  /\ \/ Goto(p, "setOwnership", "setConnections") /\ Sem!SetVal("ownership", InitialValues["ownership"])
     \/ Goto(p, "setConnections", "setWriteAccess") /\ Sem!SetVal("connections", InitialValues["connections"])
     \/ Goto(p, "setWriteAccess", "attached") /\ Sem!SetVal("writeAccess", InitialValues["writeAccess"])
  /\ UNCHANGED <<exists, initial>>

-----------------------------------------------------------------------------
(* the constructor of ProcessMutex *)

\* Mutant: the constructor counts connections without the ownership lock.
TakeNothing(p) ==
  /\ Goto(p, "attached", "owner")
  /\ UNCHANGED <<exists, val, adj, initial>>

TakeOwnership(p) ==
  /\ Goto(p, "attached", "owner")
  /\ Sem!Down(p, "ownership")
  /\ UNCHANGED <<exists, initial>>

ReadConnections(p) ==
  /\ Goto(p, "owner", "counted")
  /\ initial' = [initial EXCEPT ![p] = val["connections"] = 0]
  /\ UNCHANGED <<exists, val, adj>>

CountConnection(p) ==
  /\ Goto(p, "counted", "connected")
  /\ Sem!Up(p, "connections")
  /\ UNCHANGED <<exists, initial>>

\* Mutant: the constructor returns without giving the ownership back.
KeepOwnership(p) ==
  /\ Goto(p, "connected", "idle")
  /\ UNCHANGED <<exists, val, adj, initial>>

DropOwnership(p) ==
  /\ Goto(p, "connected", "idle")
  /\ Sem!Up(p, "ownership")
  /\ UNCHANGED <<exists, initial>>

-----------------------------------------------------------------------------
(* acquire, release, and the end of a process *)

Request(p) ==
  /\ Goto(p, "idle", "waiting")
  /\ UNCHANGED <<exists, val, adj, initial>>

\* Mutant: the decrement does not wait for a unit.
AcquireAtOnce(p) ==
  /\ Goto(p, "waiting", "critical")
  /\ val' = [val EXCEPT !["writeAccess"] = @ - 1]
  /\ adj' = [adj EXCEPT ![p]["writeAccess"] = @ + 1]
  /\ UNCHANGED <<exists, initial>>

Acquire(p) ==
  /\ Goto(p, "waiting", "critical")
  /\ Sem!Down(p, "writeAccess")
  /\ UNCHANGED <<exists, initial>>

\* Mutant: release() posts the wrong semaphore of the set.
ReleaseOwnership(p) ==
  /\ Goto(p, "critical", "idle")
  /\ Sem!Up(p, "ownership")
  /\ UNCHANGED <<exists, initial>>

Release(p) ==
  /\ Goto(p, "critical", "idle")
  /\ Sem!Up(p, "writeAccess")
  /\ UNCHANGED <<exists, initial>>

\* Exit or crash: no destructor touches the set, the kernel undoes.
End(p) ==
  /\ pc[p] # "absent"
  /\ pc' = [pc EXCEPT ![p] = "absent"]
  /\ Sem!Undo(p)
  /\ initial' = [initial EXCEPT ![p] = FALSE]
  /\ UNCHANGED exists

-----------------------------------------------------------------------------

\* The steps a running process takes by itself once it has begun.
Progress(p) ==
  \/ Get(p) \/ Create(p) \/ CreateLost(p) \/ SetInitialValue(p)
  \/ ReadConnections(p) \/ CountConnection(p) \/ DropOwnership(p)
  \/ Release(p)

Next ==
  \E p \in Proc :
    \/ Start(p) \/ Request(p) \/ End(p)
    \/ TakeOwnership(p) \/ Acquire(p) \/ Progress(p)

Spec == Init /\ [][Next]_vars

(***************************************************************************)
(* A running process is scheduled (weak fairness) and the code between     *)
(* acquire and release terminates.  The kernel wakes the sleepers of a     *)
(* semaphore in the order they came, hence strong fairness of the two      *)
(* blocking decrements.  No process has to start, to ask or to end.        *)
(***************************************************************************)
Fairness ==
  \A p \in Proc :
    /\ WF_vars(Progress(p))
    /\ SF_vars(TakeOwnership(p))
    /\ SF_vars(Acquire(p))

FairSpec == Spec /\ Fairness

-----------------------------------------------------------------------------
(* Properties *)

Critical == {p \in Proc : pc[p] = "critical"}

\* Never two processes between acquire() and release(), whatever processes
\* create, attach, crash and restart in between (semaphore_p.cpp:230-238).
MutualExclusion == \A p, q \in Critical : p = q

\* The write lock is never lost and never doubled: whatever processes come, go
\* and die in the section, its unit is either free or held by the one process
\* in the section (semaphore_p.cpp:206-208).  For a set that exists from the
\* start: a creator that dies before the last SETVAL leaves it at zero.
LockConserved == val["writeAccess"] = IF Critical = {} THEN 1 ELSE 0

\* Only the first process to connect is the owner: no two live processes both
\* found no connection (semaphore_p.cpp:219-220).
OneInitialProcess == \A p, q \in Proc : initial[p] /\ initial[q] => p = q

\* The connection count is the number of processes that have connected and
\* are still alive, however they ended (semaphore_p.cpp:216-225).
ConnectionsCounted ==
  val["connections"] =
    Cardinality({p \in Proc : pc[p] \in {"connected", "idle", "waiting", "critical"}})

\* A process that asks for the lock gets it, or ends: a holder that crashes
\* does not keep the others out (semaphore_p.cpp:207-208).
AcquireTerminates ==
  \A p \in Proc : pc[p] = "waiting" ~> pc[p] \in {"critical", "absent"}

\* What the death of the creator leaves when it comes between IPC_CREAT and the
\* first SETVAL (semaphore_p.cpp:76-92): a set of zeros, whose ownership
\* nobody holds and nobody is going to set.
Orphaned ==
  /\ exists
  /\ val["ownership"] = 0
  /\ \A p \in Proc : adj[p]["ownership"] = 0 /\ pc[p] # "setOwnership"

\* From the first boot on, a process that constructs the mutex finishes the
\* constructor or ends, whoever else is creating, attaching and dying
\* (semaphore_p.cpp:206-225).  One thing only stops it, and for good: the
\* creator died with the set made and no value given.  Any later death of the
\* creator, before the connection count or the write lock is set, does not.
ConstructorTerminates ==
  \A p \in Proc :
    pc[p] \in Constructing ~> pc[p] \in {"idle", "absent"} \/ Orphaned

\* ProcessMutex implements the lock.
AbstractLock == INSTANCE Lock WITH inside <- Critical
ImplementsLock == AbstractLock!LockSpec
=============================================================================
