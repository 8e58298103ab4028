----------------------------- MODULE StorageLock -----------------------------
(***************************************************************************)
(* How the methods of SqliteStorage (src/src/sqlitestorage.cpp) use the    *)
(* write lock of ProcessMutex: where they take it, where each success and  *)
(* error path gives it back, and what that leaves behind when SQLite       *)
(* fails.  The lock is the writeAccess semaphore of an existing set, see   *)
(* ProcessMutex; a process that ends has its operations undone.            *)
(***************************************************************************)
EXTENDS Integers

CONSTANTS
  Proc,     \* the processes, each with one SqliteStorage
  Faults,   \* which calls may fail, a subset of AllFaults
  MaxUnits  \* bound on the units that leaks and releases without a lock may move

\* Failures after which the code gives the lock back exactly once.
HandledFaults == {"setup", "call", "dateStep"}

\* Failures after which it does not: sqlite3_open keeps the lock, the others
\* release it twice or without having taken it.  "notOpened" is a call of
\* incidenceDeletedDate on a storage that is not open, which prepares a
\* statement on a null database.
UnhandledFaults ==
  {"sqlite3_open", "tzPrepare", "tzStep", "nbPrepare", "datePrepare", "notOpened"}

AllFaults == HandledFaults \cup UnhandledFaults

ASSUME FaultsAssumption == Faults \subseteq AllFaults
ASSUME MaxUnitsAssumption == MaxUnits \in Nat \ {0}

VARIABLES
  val, adj,   \* the write lock, see Semaphore
  pc,         \* where each process is in its call
  opened,     \* mIsOpened
  opening,    \* loadTimezones and loadNotebooks run on behalf of open()
  skew        \* history: the units that failed calls of each process kept, less
              \* those they gave back without having taken them

vars == <<val, adj, pc, opened, opening, skew>>

Wr == "writeAccess"

Sem == INSTANCE Semaphore WITH Index <- {Wr}

\* The points of a call at which the process is using the database under the lock.
Inside == {"openHeld", "tzHeld", "nbHeld", "callHeld", "dateHeld"}

\* The points at which it waits in acquire().
Waiting == {"openWait", "tzWait", "nbWait", "callWait", "dateWait"}

Control == {"idle", "tz", "openError"} \cup Inside \cup Waiting

TypeOK ==
  /\ Sem!SemTypeOK
  /\ pc \in [Proc -> Control]
  /\ opened \in [Proc -> BOOLEAN]
  /\ opening \in [Proc -> BOOLEAN]
  /\ skew \in [Proc -> Int]

Init ==
  /\ Sem!SemInit([i \in {Wr} |-> 1])
  /\ pc = [p \in Proc |-> "idle"]
  /\ opened = [p \in Proc |-> FALSE]
  /\ opening = [p \in Proc |-> FALSE]
  /\ skew = [p \in Proc |-> 0]

Goto(p, from, to) ==
  /\ pc[p] = from
  /\ pc' = [pc EXCEPT ![p] = to]

\* Mutant: the decrement does not wait for a unit.
AcquireAtOnce(p) ==
  /\ val' = [val EXCEPT ![Wr] = @ - 1]
  /\ adj' = [adj EXCEPT ![p][Wr] = @ + 1]

Acquire(p) == Sem!Down(p, Wr)
Release(p) == Sem!Up(p, Wr)
KeepLock == UNCHANGED <<val, adj>>

\* The history of a failure after which p has n units more than it should.
Skews(p, n) == skew' = [skew EXCEPT ![p] = @ + n]

\* A release that may come from a process that does not hold the lock; the
\* two guards only bound the model.
UncheckedRelease(p) ==
  /\ val[Wr] < MaxUnits
  /\ adj[p][Wr] > -MaxUnits
  /\ Release(p)

-----------------------------------------------------------------------------
(* open() *)

Open(p) ==
  /\ ~opened[p]
  /\ Goto(p, "idle", "openWait")
  /\ KeepLock /\ UNCHANGED <<opened, opening, skew>>

OpenAcquire(p) ==
  /\ Goto(p, "openWait", "openHeld")
  /\ Acquire(p)
  /\ UNCHANGED <<opened, opening, skew>>

\* sqlite3_open fails: return false, the lock stays taken; the second guard
\* only bounds the model.
OpenDatabaseFails(p) ==
  /\ "sqlite3_open" \in Faults
  /\ adj[p][Wr] <= MaxUnits
  /\ Goto(p, "openHeld", "idle")
  /\ Skews(p, 1)
  /\ KeepLock /\ UNCHANGED <<opened, opening>>

\* A statement, the changed file or checkVersion fails: goto error.
OpenSetupFails(p) ==
  /\ "setup" \in Faults
  /\ Goto(p, "openHeld", "openError")
  /\ opened' = [opened EXCEPT ![p] = TRUE]
  /\ KeepLock /\ UNCHANGED <<opening, skew>>

\* The tables exist and the watcher runs: release, then loadTimezones().
OpenSetup(p) ==
  /\ Goto(p, "openHeld", "tz")
  /\ Release(p)
  /\ opened' = [opened EXCEPT ![p] = TRUE]
  /\ opening' = [opening EXCEPT ![p] = TRUE]
  /\ UNCHANGED skew

\* The label error: release, whoever holds the lock, and close().
OpenError(p) ==
  /\ Goto(p, "openError", "idle")
  /\ UncheckedRelease(p)
  /\ opened' = [opened EXCEPT ![p] = FALSE]
  /\ opening' = [opening EXCEPT ![p] = FALSE]
  /\ UNCHANGED skew

-----------------------------------------------------------------------------
(* loadTimezones() and loadNotebooks(), from open() or from fileChanged() *)

FileChanged(p) ==
  /\ opened[p]
  /\ Goto(p, "idle", "tz")
  /\ KeepLock /\ UNCHANGED <<opened, opening, skew>>

AfterTimezones(p, ok) == IF opening[p] /\ ~ok THEN "openError" ELSE "nbWait"

\* The statement is prepared before the lock is taken, but its failure goes
\* to the label that releases; in open() the label error releases once more.
TimezonesPrepareFails(p) ==
  /\ "tzPrepare" \in Faults
  /\ Goto(p, "tz", AfterTimezones(p, FALSE))
  /\ UncheckedRelease(p)
  /\ Skews(p, IF opening[p] THEN -2 ELSE -1)
  /\ UNCHANGED <<opened, opening>>

TimezonesPrepare(p) ==
  /\ Goto(p, "tz", "tzWait")
  /\ KeepLock /\ UNCHANGED <<opened, opening, skew>>

TimezonesAcquire(p) ==
  /\ Goto(p, "tzWait", "tzHeld")
  /\ Acquire(p)
  /\ UNCHANGED <<opened, opening, skew>>

TimezonesStep(p) ==
  \E ok \in BOOLEAN :
    /\ ~ok => "tzStep" \in Faults
    /\ Goto(p, "tzHeld", AfterTimezones(p, ok))
    /\ Release(p)
    /\ Skews(p, IF opening[p] /\ ~ok THEN -1 ELSE 0)
    /\ UNCHANGED <<opened, opening>>

NotebooksAcquire(p) ==
  /\ Goto(p, "nbWait", "nbHeld")
  /\ Acquire(p)
  /\ UNCHANGED <<opened, opening, skew>>

\* In open() a failure goes on to the label error, which releases again.
NotebooksLoaded(p) ==
  \E ok \in BOOLEAN :
    /\ ~ok => "nbPrepare" \in Faults
    /\ Goto(p, "nbHeld", IF opening[p] /\ ~ok THEN "openError" ELSE "idle")
    /\ Release(p)
    /\ opening' = [opening EXCEPT ![p] = opening[p] /\ ~ok]
    /\ Skews(p, IF opening[p] /\ ~ok THEN -1 ELSE 0)
    /\ UNCHANGED opened

-----------------------------------------------------------------------------
(* The bracketed calls: loadIncidences, selectIncidences, selectCount,     *)
(* purgeDeletedIncidences, modifyNotebook and save all take the lock       *)
(* first and release it once on every path.                                *)

Call(p) ==
  /\ opened[p]
  /\ Goto(p, "idle", "callWait")
  /\ KeepLock /\ UNCHANGED <<opened, opening, skew>>

CallAcquire(p) ==
  /\ Goto(p, "callWait", "callHeld")
  /\ Acquire(p)
  /\ UNCHANGED <<opened, opening, skew>>

\* Mutant: the error path of a bracketed call returns without releasing.
CallReturnLeaks(p) ==
  /\ Goto(p, "callHeld", "idle")
  /\ Release(p) \/ ("call" \in Faults /\ KeepLock)
  /\ UNCHANGED <<opened, opening, skew>>

\* The success path, and with the fault "call" the label error, alike.
CallReturn(p) ==
  /\ Goto(p, "callHeld", "idle")
  /\ Release(p)
  /\ UNCHANGED <<opened, opening, skew>>

-----------------------------------------------------------------------------
(* incidenceDeletedDate(): no test of mIsOpened, prepares before it locks. *)

DeletedDateFails(p) ==
  /\ IF opened[p] THEN "datePrepare" \in Faults ELSE "notOpened" \in Faults
  /\ pc[p] = "idle"
  /\ UncheckedRelease(p)
  /\ Skews(p, -1)
  /\ UNCHANGED <<pc, opened, opening>>

DeletedDate(p) ==
  /\ opened[p]
  /\ Goto(p, "idle", "dateWait")
  /\ KeepLock /\ UNCHANGED <<opened, opening, skew>>

\* Mutant: acquire() forgotten before the statement is stepped.
DeletedDateUnlocked(p) ==
  /\ Goto(p, "dateWait", "dateHeld")
  /\ KeepLock /\ UNCHANGED <<opened, opening, skew>>

DeletedDateAcquire(p) ==
  /\ Goto(p, "dateWait", "dateHeld")
  /\ Acquire(p)
  /\ UNCHANGED <<opened, opening, skew>>

\* With or without the fault "dateStep".
DeletedDateReturn(p) ==
  /\ Goto(p, "dateHeld", "idle")
  /\ Release(p)
  /\ UNCHANGED <<opened, opening, skew>>

-----------------------------------------------------------------------------

Close(p) ==
  /\ opened[p]
  /\ pc[p] = "idle"
  /\ opened' = [opened EXCEPT ![p] = FALSE]
  /\ KeepLock /\ UNCHANGED <<pc, opening, skew>>

\* The process ends anywhere and the same program may start again.
End(p) ==
  /\ pc' = [pc EXCEPT ![p] = "idle"]
  /\ opened' = [opened EXCEPT ![p] = FALSE]
  /\ opening' = [opening EXCEPT ![p] = FALSE]
  /\ skew' = [skew EXCEPT ![p] = 0]
  /\ Sem!Undo(p)

\* A pending acquire() of any call.
AnyAcquire(p) ==
  \/ OpenAcquire(p) \/ TimezonesAcquire(p) \/ NotebooksAcquire(p)
  \/ CallAcquire(p) \/ DeletedDateAcquire(p)

\* What a call does by itself once it runs.
Progress(p) ==
  \/ OpenDatabaseFails(p) \/ OpenSetupFails(p) \/ OpenSetup(p) \/ OpenError(p)
  \/ TimezonesPrepareFails(p) \/ TimezonesPrepare(p) \/ TimezonesStep(p)
  \/ NotebooksLoaded(p) \/ CallReturn(p) \/ DeletedDateReturn(p)

\* What the application or the event loop decides to call.
Begin(p) ==
  \/ Open(p) \/ FileChanged(p) \/ Call(p) \/ DeletedDate(p)
  \/ DeletedDateFails(p) \/ Close(p)

Next == \E p \in Proc : Begin(p) \/ AnyAcquire(p) \/ Progress(p) \/ End(p)

Spec == Init /\ [][Next]_vars

\* As in ProcessMutex: code between acquire and release runs to its end, and
\* the kernel serves the sleepers of a semaphore in turn.
Fairness == \A p \in Proc : WF_vars(Progress(p)) /\ SF_vars(AnyAcquire(p))

FairSpec == Spec /\ Fairness

-----------------------------------------------------------------------------
(* Properties *)

Users == {p \in Proc : pc[p] \in Inside}

\* The lock is an inter-process mutex (semaphore_p.cpp:205): at most one
\* storage is between its acquire and its release.
OneUser == \A p, q \in Users : p = q

\* What the kernel will undo for a process is what the process holds, plus one
\* unit for each sqlite3_open that failed (sqlitestorage.cpp:176-182), less one
\* for each release without a lock behind it: the failures of loadTimezones and
\* loadNotebooks that open() answers with a second release (285-303), and the
\* statements prepared before the lock is taken (2229-2259, 2532-2563).  No other path of any
\* method, with whatever failures before it and in the other processes, leaves
\* a unit behind or gives one too many.
Balanced ==
  \A p \in Proc :
    adj[p][Wr] = skew[p] + (IF pc[p] \in Inside \cup {"openError"} THEN 1 ELSE 0)

\* Whatever fails, a lock that open() leaked dies with its process: when the
\* kernel owes nothing to anyone the lock can be taken (semaphore_p.cpp:207).
NotLostForGood == (\A p \in Proc : adj[p][Wr] = 0) => val[Wr] >= 1

\* A call that waits for the lock gets it, unless its process ends.
CallsProceed ==
  \A p \in Proc : pc[p] \in Waiting ~> pc[p] \notin Waiting
=============================================================================
