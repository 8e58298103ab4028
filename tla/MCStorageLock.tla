---------------------------- MODULE MCStorageLock ----------------------------
(* The instances of StorageLock for TLC: the processes of the .cfg files are  *)
(* model values.                                                              *)
EXTENDS StorageLock
=============================================================================
