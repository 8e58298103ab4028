--------------------------- MODULE ComponentStore ---------------------------
(***************************************************************************)
(* What the Components table promises to the processes that share it: the  *)
(* life cycle of an incidence (absent, live, deleted and kept as a         *)
(* tombstone, purged), changed by batches.  The changes of a batch become  *)
(* visible together and are all of one kind; an incidence never skips a    *)
(* stage of its life, whatever fails in between.                           *)
(***************************************************************************)
EXTENDS Integers

CONSTANT Key       \* the identities of incidences, uid and recurrence id

VARIABLE db        \* [live: a set of rows with a key, tombs: [Key -> Nat]]

LiveKeys == {r.key : r \in db.live}

\* The rows and tombstones of the other keys stay.
Elsewhere(K) ==
  /\ {r \in db'.live : r.key \notin K} = {r \in db.live : r.key \notin K}
  /\ \A k \in Key \ K : db'.tombs[k] = db.tombs[k]

StoreInit == db.live = {} /\ \A k \in Key : db.tombs[k] = 0

\* Absent or deleted incidences become live, their tombstones go.
Insert(K) ==
  /\ K \cap LiveKeys = {} /\ K \subseteq LiveKeys'
  /\ \A k \in K : db'.tombs[k] = 0
  /\ Elsewhere(K)

\* Live incidences get new content.
Update(K) ==
  /\ K \subseteq LiveKeys /\ LiveKeys' = LiveKeys
  /\ db'.tombs = db.tombs
  /\ Elsewhere(K)

\* Live incidences become tombstones.
Mark(K) ==
  /\ K \subseteq LiveKeys /\ K \cap LiveKeys' = {}
  /\ \A k \in K : db.tombs[k] = 0 /\ db'.tombs[k] = 1
  /\ Elsewhere(K)

\* Live incidences go for good.
Remove(K) ==
  /\ K \subseteq LiveKeys /\ K \cap LiveKeys' = {}
  /\ db'.tombs = db.tombs
  /\ Elsewhere(K)

\* Tombstones go.
Purge(K) ==
  /\ db'.live = db.live
  /\ \A k \in K : db'.tombs[k] = 0
  /\ Elsewhere(K)

StoreNext ==
  \E K \in SUBSET Key : Insert(K) \/ Update(K) \/ Mark(K) \/ Remove(K) \/ Purge(K)

StoreSpec == StoreInit /\ [][StoreNext]_db
=============================================================================
