----------------------------- MODULE KeyedLocks -----------------------------
(***************************************************************************)
(* A table of mutexes by key, as controller/order.go and                   *)
(* model/invite_code.go keep one each: LockOrder and LockInviteCode look   *)
(* the entry up or make it and lock it, UnlockOrder and UnlockInviteCode   *)
(* look it up again and unlock what they find, and a ticker deletes        *)
(* entries that were not used for 30 minutes.                              *)
(*                                                                         *)
(* The operators describe what happens to one key. A holder keeps the lock *)
(* it was given, so a deleted entry may still be held or waited for.       *)
(***************************************************************************)
EXTENDS Naturals

CONSTANTS
  NoHolder,
  MaxLocks          (* bound: how many entries are made for the key *)

ASSUME LocksAssumption == MaxLocks \in Nat \ {0}

Locks == 1..MaxLocks

(* entry: the lock the table has for the key, 0 for none; made: how many were
   made; old: lastUsed is more than 30 minutes ago; judged: the ticker has seen
   that and will delete the entry; holder: who has locked what. *)
Tables(holders) ==
  [entry : 0..MaxLocks, made : 0..MaxLocks, old : BOOLEAN, judged : BOOLEAN,
   holder : [Locks -> holders \cup {NoHolder}]]

NoLocks ==
  [entry |-> 0, made |-> 0, old |-> FALSE, judged |-> FALSE,
   holder |-> [l \in Locks |-> NoHolder]]

(* The bound is not in the way. *)
MayObtain(table) == table.entry # 0 \/ table.made < MaxLocks

(* Load or, after a second look under createLock, Store; then lastUsed = now. *)
Obtained(table) ==
  IF table.entry # 0
  THEN [table EXCEPT !.old = FALSE]
  ELSE [table EXCEPT !.entry = table.made + 1, !.made = @ + 1, !.old = FALSE]

(* entry.lock.Lock(), of the entry that was obtained. *)
IsFree(table, lock) == table.holder[lock] = NoHolder
Locked(table, lock, who) == [table EXCEPT !.holder[lock] = who]

(* Unlock works on the entry the table has now. Without one it does nothing;
   unlocking a mutex that is not locked ends the process. *)
UnlockIsFatal(table) == table.entry # 0 /\ IsFree(table, table.entry)

(* Mutant: the lock stays locked. *)
UnlockedNot(table) == table

Unlocked(table) ==
  IF table.entry = 0 THEN table
  ELSE [table EXCEPT !.holder[table.entry] = NoHolder, !.old = FALSE]

(* The ticker: the test of lastUsed, and the Delete some time after it. *)
Aged(table) == [table EXCEPT !.old = TRUE]
Judged(table) == [table EXCEPT !.judged = TRUE]
Deleted(table) ==
  [table EXCEPT !.entry = 0, !.old = FALSE, !.judged = FALSE]
=============================================================================
