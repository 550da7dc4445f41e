------------------------------ MODULE KVStore ------------------------------
(***************************************************************************)
(* What include/leveldb/db.h promises: a map from keys to values, changed  *)
(* by Put and Delete alone, and snapshots of it that do not change until   *)
(* they are released.  updates is what was written so far, in order, and   *)
(* the value of a key is told by the number of the update that put it.     *)
(***************************************************************************)
EXTENDS Naturals, Sequences

CONSTANTS Keys, NULL, SnapshotIds, kTypeDeletion, kTypeValue

VARIABLES updates, dict, snaps
vars == <<updates, dict, snaps>>

Init ==
  /\ updates = <<>>
  /\ dict = [k \in Keys |-> NULL]
  /\ snaps = [s \in {} |-> dict]

Put(k) ==
  /\ updates' = Append(updates, [key |-> k, type |-> kTypeValue])
  /\ dict' = [dict EXCEPT ![k] = Len(updates) + 1]
  /\ UNCHANGED snaps

Delete(k) ==
  /\ updates' = Append(updates, [key |-> k, type |-> kTypeDeletion])
  /\ dict' = [dict EXCEPT ![k] = NULL]
  /\ UNCHANGED snaps

GetSnapshot(s) ==
  /\ snaps' = [t \in DOMAIN snaps \cup {s} |-> IF t = s THEN dict ELSE snaps[t]]
  /\ UNCHANGED <<updates, dict>>

ReleaseSnapshot(s) ==
  /\ snaps' = [t \in DOMAIN snaps \ {s} |-> snaps[t]]
  /\ UNCHANGED <<updates, dict>>

Next ==
  \/ \E k \in Keys : Put(k) \/ Delete(k)
  \/ \E s \in SnapshotIds \ DOMAIN snaps : GetSnapshot(s)
  \/ \E s \in DOMAIN snaps : ReleaseSnapshot(s)

Spec == Init /\ [][Next]_vars
=============================================================================
