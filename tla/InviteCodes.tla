---------------------------- MODULE InviteCodes ----------------------------
(***************************************************************************)
(* One invite code and the registrations that use it: Register in          *)
(* controller/user.go, the third-party logins that call                    *)
(* validateAndUseInviteCodeForOAuth in controller/common.go, and           *)
(* model/invite_code.go with its lock in Redis and its table of locks in   *)
(* memory.                                                                 *)
(*                                                                         *)
(* A transaction sees what was committed when it reads; its Save is its    *)
(* last statement, so the write and the commit are one step.               *)
(***************************************************************************)
EXTENDS KeyedLocks, FiniteSets

CONSTANTS
  Signups,          (* the registrations *)
  MaxUses,          (* invite_codes.max_uses, 0 for no limit *)
  Settings          (* which of AllSettings the behaviours are in *)

(* memory: registrations with a password, without Redis; redis: the same with
   config.RedisEnabled; oauth: without Redis, also by third-party logins;
   cleanup: without Redis, and entries of the lock table grow old. *)
AllSettings == {"memory", "redis", "oauth", "cleanup"}

ASSUME InviteAssumption ==
  /\ Settings \subseteq AllSettings
  /\ MaxUses \in Nat
  /\ NoHolder \notin Signups

VARIABLES
  code,             (* the row: enabled, used *)
  expired,          (* expires_at has passed *)
  inviteLocks,      (* the entry of the code in inviteCodeLocks *)
  redisLock,        (* who holds invite_code_lock:<code> *)
  setting,
  signup,           (* per registration: where it is *)
  guard,            (* per registration: the memory lock it was given, or 0 *)
  row,              (* per registration: the row its transaction has read *)
  registered,       (* who has been registered with the code *)
  crashed           (* the process has ended once and was started again *)

inviteVars ==
  <<code, expired, inviteLocks, redisLock, setting, signup, guard, row, registered, crashed>>

SignupLabels ==
  {"new", "lock", "check", "read", "save", "unlock", "done"}

InviteInit ==
  /\ code = [enabled |-> TRUE, used |-> 0] /\ expired = FALSE
  /\ inviteLocks = NoLocks /\ redisLock = NoHolder
  /\ setting \in Settings
  /\ signup = [s \in Signups |-> "new"]
  /\ guard = [s \in Signups |-> 0]
  /\ row = [s \in Signups |-> code]
  /\ registered = {} /\ crashed = FALSE

SignupAt(s, label) == signup[s] = label
SignupGoes(s, label) == signup' = [signup EXCEPT ![s] = label]

Limited == MaxUses > 0

(* CheckInviteCode, and again in UseInviteCodeWithTx. *)
IsValid(c) == c.enabled /\ ~expired /\ (Limited => c.used < MaxUses)

(* The end of UseInviteCodeWithTx: at the limit the code disables itself. *)
Used(c) ==
  [enabled |-> c.enabled /\ (Limited => c.used + 1 < MaxUses),
   used    |-> c.used + 1]

-----------------------------------------------------------------------------
(* A registration. *)

(* redsync tries once. When it fails, because another registration holds the
   lock or because of Redis, the memory lock is taken instead. *)
AcquireRedis(s) ==
  /\ SignupAt(s, "new")
  /\ setting = "redis" /\ redisLock = NoHolder
  /\ redisLock' = s
  /\ SignupGoes(s, "check")
  /\ UNCHANGED <<code, expired, inviteLocks, setting, guard, row, registered, crashed>>

ObtainMemoryLock(s) ==
  /\ SignupAt(s, "new")
  /\ MayObtain(inviteLocks)
  /\ inviteLocks' = Obtained(inviteLocks)
  /\ guard' = [guard EXCEPT ![s] = inviteLocks'.entry]
  /\ SignupGoes(s, "lock")
  /\ UNCHANGED <<code, expired, redisLock, setting, row, registered, crashed>>

TakeMemoryLock(s) ==
  /\ SignupAt(s, "lock")
  /\ IsFree(inviteLocks, guard[s])
  /\ inviteLocks' = Locked(inviteLocks, guard[s], s)
  /\ SignupGoes(s, "check")
  /\ UNCHANGED <<code, expired, redisLock, setting, guard, row, registered, crashed>>

(* A login by another provider opens its transaction and checks the code
   without a lock. *)
ComeByOAuth(s) ==
  /\ SignupAt(s, "new") /\ setting = "oauth"
  /\ SignupGoes(s, "check")
  /\ UNCHANGED <<code, expired, inviteLocks, redisLock, setting, guard, row, registered, crashed>>

Check(s) ==
  /\ SignupAt(s, "check")
  /\ SignupGoes(s, IF IsValid(code) THEN "read" ELSE "unlock")
  /\ UNCHANGED <<code, expired, inviteLocks, redisLock, setting, guard, row, registered, crashed>>

(* The transaction reads the row, after it has inserted the user
   (InsertWithTx) for a password, before it for OAuth. *)
ReadCode(s) ==
  /\ SignupAt(s, "read")
  /\ row' = [row EXCEPT ![s] = code]
  /\ SignupGoes(s, IF IsValid(code) THEN "save" ELSE "unlock")
  /\ UNCHANGED <<code, expired, inviteLocks, redisLock, setting, guard, registered, crashed>>

(* Mutant: the user is committed although the use of the code is not saved. *)
CommitUncounted(s) ==
  /\ SignupAt(s, "save")
  /\ registered' = registered \cup {s}
  /\ SignupGoes(s, "unlock")
  /\ UNCHANGED <<code, expired, inviteLocks, redisLock, setting, guard, row, crashed>>

(* Save writes the whole row as it was read; then the commit. *)
Commit(s) ==
  /\ SignupAt(s, "save")
  /\ code' = Used(row[s])
  /\ registered' = registered \cup {s}
  /\ SignupGoes(s, "unlock")
  /\ UNCHANGED <<expired, inviteLocks, redisLock, setting, guard, row, crashed>>

(* The name is taken, or a statement fails: nothing is committed. *)
Rollback(s) ==
  /\ signup[s] \in {"read", "save"}
  /\ SignupGoes(s, "unlock")
  /\ UNCHANGED <<code, expired, inviteLocks, redisLock, setting, guard, row, registered, crashed>>

ServerEnds ==
  /\ inviteLocks' = NoLocks
  /\ signup' = [s \in Signups |-> IF signup[s] = "new" THEN "new" ELSE "done"]

(* The deferred unlock; redsync only releases a lock it still owns. *)
ReleaseInvite(s) ==
  /\ SignupAt(s, "unlock")
  /\ IF guard[s] = 0
     THEN SignupGoes(s, "done") /\ UNCHANGED inviteLocks
     ELSE IF UnlockIsFatal(inviteLocks)
     THEN ServerEnds
     ELSE inviteLocks' = Unlocked(inviteLocks) /\ SignupGoes(s, "done")
  /\ redisLock' = IF redisLock = s THEN NoHolder ELSE redisLock
  /\ UNCHANGED <<code, expired, setting, guard, row, registered, crashed>>

-----------------------------------------------------------------------------
(* The environment. *)

CodeExpires ==
  /\ ~expired /\ expired' = TRUE
  /\ UNCHANGED <<code, inviteLocks, redisLock, setting, signup, guard, row, registered, crashed>>

(* The 30 seconds of redsync.WithExpiry are over. *)
RedisLockExpires ==
  /\ redisLock # NoHolder /\ redisLock' = NoHolder
  /\ UNCHANGED <<code, expired, inviteLocks, setting, signup, guard, row, registered, crashed>>

ServerCrashes ==
  /\ ~crashed /\ crashed' = TRUE
  /\ ServerEnds
  /\ UNCHANGED <<code, expired, redisLock, setting, guard, row, registered>>

(* A registration does not last 30 minutes. *)
InviteEntryAges ==
  /\ setting = "cleanup"
  /\ inviteLocks.entry # 0 /\ ~inviteLocks.old
  /\ \A s \in Signups : signup[s] \in {"new", "done"}
  /\ inviteLocks' = Aged(inviteLocks)
  /\ UNCHANGED <<code, expired, redisLock, setting, signup, guard, row, registered, crashed>>

InviteCleanup ==
  /\ \/ inviteLocks.old /\ ~inviteLocks.judged /\ inviteLocks' = Judged(inviteLocks)
     \/ inviteLocks.judged /\ inviteLocks' = Deleted(inviteLocks)
  /\ UNCHANGED <<code, expired, redisLock, setting, signup, guard, row, registered, crashed>>

SignupStep(s) ==
  \/ AcquireRedis(s) \/ ObtainMemoryLock(s) \/ TakeMemoryLock(s)
  \/ ComeByOAuth(s) \/ Check(s) \/ ReadCode(s) \/ Commit(s) \/ Rollback(s)
  \/ ReleaseInvite(s)

InviteNext ==
  \/ \E s \in Signups : SignupStep(s)
  \/ CodeExpires \/ RedisLockExpires \/ ServerCrashes
  \/ InviteEntryAges \/ InviteCleanup

(* Goroutines are scheduled, statements return, and a mutex that is released
   again and again is given to each waiter. *)
InviteFairness ==
  \A s \in Signups :
    /\ WF_inviteVars(signup[s] # "new" /\ SignupStep(s))
    /\ SF_inviteVars(TakeMemoryLock(s))

InviteSpec == InviteInit /\ [][InviteNext]_inviteVars

-----------------------------------------------------------------------------
(* Properties. *)

InviteTypeOK ==
  /\ code \in [enabled : BOOLEAN, used : Nat]
  /\ expired \in BOOLEAN
  /\ inviteLocks \in Tables(Signups)
  /\ redisLock \in Signups \cup {NoHolder}
  /\ setting \in Settings
  /\ signup \in [Signups -> SignupLabels]
  /\ guard \in [Signups -> 0..MaxLocks]
  /\ row \in [Signups -> [enabled : BOOLEAN, used : Nat]]
  /\ registered \subseteq Signups
  /\ crashed \in BOOLEAN

(* No more users register with a code than it has uses, and the row counts the
   registrations that were committed: each of them where every registration
   takes the memory lock, and never one that was rolled back
   (model/invite_code.go, UseInviteCodeWithTx). *)
NeverOverused ==
  /\ code.used <= Cardinality(registered)
  /\ setting = "memory" =>
       /\ code.used = Cardinality(registered)
       /\ Limited => code.used <= MaxUses

(* A registration that waits for the memory lock gets it and ends, unless the
   cleanup has removed that lock from the table. *)
SignupEnds ==
  \A s \in Signups :
    signup[s] = "lock" ~> signup[s] = "done" \/ guard[s] # inviteLocks.entry
=============================================================================
