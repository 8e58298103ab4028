-------------------------------- MODULE Lock --------------------------------
(***************************************************************************)
(* What ProcessMutex promises to its users: a section that one process at  *)
(* a time is in.  A process leaves by releasing the lock or by ending.     *)
(***************************************************************************)
CONSTANT Proc
VARIABLE inside    \* the processes in the section

LockInit == inside = {}

Enter(p) == inside = {} /\ inside' = {p}

Leave(p) == inside = {p} /\ inside' = {}

LockNext == \E p \in Proc : Enter(p) \/ Leave(p)

LockSpec == LockInit /\ [][LockNext]_inside
=============================================================================
