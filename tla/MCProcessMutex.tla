--------------------------- MODULE MCProcessMutex ---------------------------
(* Instances of ProcessMutex for TLC. *)
EXTENDS ProcessMutex

Fresh == {FALSE}       \* first boot: no semaphore set yet
Attached == {TRUE}     \* the set was created and completed earlier
=============================================================================
