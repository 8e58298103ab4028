----------------------------- MODULE Semaphore -----------------------------
(***************************************************************************)
(* A System V semaphore set as src/src/semaphore_p.cpp uses it.  Every     *)
(* operation of the code is a semtimedop of one unit with SEM_UNDO, so the *)
(* kernel keeps, per process and per semaphore, the adjustment it applies  *)
(* when the process ends.  SETVAL forgets the adjustments of all processes.*)
(***************************************************************************)
EXTENDS Integers

CONSTANTS
  Proc,     \* the processes
  Index     \* the semaphores of the set

VARIABLES
  val,      \* val[i]: value of semaphore i
  adj       \* adj[p][i]: what the kernel adds to val[i] when p ends

SemTypeOK ==
  /\ val \in [Index -> Nat]
  /\ adj \in [Proc -> [Index -> Int]]

SemInit(v) ==
  /\ val = v
  /\ adj = [p \in Proc |-> [i \in Index |-> 0]]

\* Mutants: operations without SEM_UNDO.
UpWithoutUndo(p, i) ==
  /\ val' = [val EXCEPT ![i] = @ + 1]
  /\ UNCHANGED adj
DownWithoutUndo(p, i) ==
  /\ val[i] > 0
  /\ val' = [val EXCEPT ![i] = @ - 1]
  /\ UNCHANGED adj

\* Semaphore::increment: never blocks.
Up(p, i) ==
  /\ val' = [val EXCEPT ![i] = @ + 1]
  /\ adj' = [adj EXCEPT ![p][i] = @ - 1]

\* Semaphore::decrement with wait = true: blocks while the value is zero.
Down(p, i) ==
  /\ val[i] > 0
  /\ val' = [val EXCEPT ![i] = @ - 1]
  /\ adj' = [adj EXCEPT ![p][i] = @ + 1]

\* semctl(SETVAL): sets one value and clears its adjustment in every process.
SetVal(i, v) ==
  /\ val' = [val EXCEPT ![i] = v]
  /\ adj' = [p \in Proc |-> [adj[p] EXCEPT ![i] = 0]]

\* The end of process p: its adjustments are applied, never below zero.
Undo(p) ==
  /\ val' = [i \in Index |-> IF val[i] + adj[p][i] < 0 THEN 0
                             ELSE val[i] + adj[p][i]]
  /\ adj' = [adj EXCEPT ![p] = [i \in Index |-> 0]]
=============================================================================
