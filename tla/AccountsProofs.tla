--------------------------- MODULE AccountsProofs ---------------------------
(***************************************************************************)
(* Proofs about what an account is given only once: a redemption code, the *)
(* uses of an invite code, the credit of a recharge order. They hold for   *)
(* any number of calls, and any number of entries of the lock tables.      *)
(***************************************************************************)
EXTENDS RechargeOrder, InviteCodes, Redemption, FiniteSetTheorems, TLAPS

-----------------------------------------------------------------------------
(* Redemption codes. *)

(* SQLite refuses a transaction whose row was written since it was read, so
   the row itself tells how many calls may still commit: none after a first
   commit, and one more after an edit that has brought the code back. *)
WritesSeen ==
  \A u \in Redeemers :
    /\ couponSeen[u].writes <= writes
    /\ couponSeen[u].status = "enabled" /\ couponSeen[u].writes = writes
         => coupon = "enabled"

OnSQLite == scenario = "sqlite" => given = IF coupon = "enabled" THEN 0 ELSE 1

(* One commit before the edit ends, if at all, and one after it. *)
UnderEdits ==
  scenario = "edits" =>
    /\ given <= (IF editor = "done" THEN 2 ELSE 1)
    /\ editor = "done" /\ coupon = "enabled" => given <= 1
    /\ editor # "done" /\ coupon = "enabled" => given = 0

NoEditor == scenario # "edits" => editor = "idle"

(* A reward is only paid by a call that has committed and has not ended. *)
Following == {u \in Redeemers : redeem[u] = "follow"}
Rewarded == IsFiniteSet(Following) /\ shared + Cardinality(Following) <= given

RedemptionInv ==
  RedemptionTypeOK /\ WritesSeen /\ OnSQLite /\ UnderEdits /\ NoEditor /\ Rewarded

(* No code has been redeemed at first. *)
LEMMA RedemptionStarts == RedemptionInit => RedemptionInv
<1> SUFFICES ASSUME RedemptionInit PROVE RedemptionInv
  OBVIOUS
<1>1. RedemptionTypeOK /\ WritesSeen /\ OnSQLite /\ UnderEdits /\ NoEditor
  BY DEF RedemptionInit, RedemptionTypeOK, CouponStates, WritesSeen, OnSQLite,
         UnderEdits, NoEditor
<1>2. Following = {}
  BY DEF RedemptionInit, Following
<1>3. Rewarded
  BY <1>2, FS_EmptySet DEF RedemptionInit, Rewarded
<1> QED BY <1>1, <1>3 DEF RedemptionInv

(* What an end of the call u does to the set of calls that follow up. *)
LEMMA FollowingEnds ==
  ASSUME RedemptionInv, NEW u \in Redeemers, RedeemGoes(u, "done")
  PROVE  /\ IsFiniteSet(Following)' /\ Cardinality(Following)' <= Cardinality(Following)
         /\ RedeemAt(u, "follow") => Cardinality(Following)' = Cardinality(Following) - 1
         /\ Cardinality(Following) \in Nat /\ Cardinality(Following)' \in Nat
<1>1. IsFiniteSet(Following) /\ redeem \in [Redeemers -> {"new", "check", "follow", "done"}]
  BY DEF RedemptionInv, Rewarded, RedemptionTypeOK
<1>2. Following' = Following \ {u}
  BY <1>1 DEF Following, RedeemGoes
<1>3. RedeemAt(u, "follow") <=> u \in Following
  BY DEF RedeemAt, Following
<1> HIDE DEF Following
<1>4. /\ IsFiniteSet(Following \ {u})
      /\ Cardinality(Following \ {u}) =
           IF u \in Following THEN Cardinality(Following) - 1 ELSE Cardinality(Following)
  BY <1>1, FS_RemoveElement
<1>5. Cardinality(Following) \in Nat /\ Cardinality(Following \ {u}) \in Nat
  BY <1>1, <1>4, FS_CardinalityType
<1> QED BY <1>2, <1>3, <1>4, <1>5

(* Every step of a redemption and of the administrator keeps the invariant. *)
LEMMA RedemptionGoesOn ==
  RedemptionInv /\ [RedemptionNext]_redemptionVars => RedemptionInv'
<1> SUFFICES ASSUME RedemptionInv, [RedemptionNext]_redemptionVars
             PROVE  RedemptionInv'
  OBVIOUS
<1> USE DEF RedemptionInv, RedemptionTypeOK, CouponStates, WritesSeen, OnSQLite,
            UnderEdits, NoEditor
<1>0. IsFiniteSet(Following) /\ Cardinality(Following) \in Nat
  BY FS_CardinalityType DEF Rewarded
<1>1. ASSUME NEW u \in Redeemers, ReadCoupon(u) PROVE RedemptionInv'
  <2>1. Following' = Following
    BY <1>1 DEF ReadCoupon, RedeemAt, RedeemGoes, Following
  <2>2. Rewarded'
    BY <1>1, <2>1 DEF ReadCoupon, Rewarded
  <2> QED BY <1>1, <2>2 DEF ReadCoupon, RedeemAt, RedeemGoes
<1>2. ASSUME NEW u \in Redeemers, CouponRefused(u) \/ RollbackRedeem(u)
      PROVE  RedemptionInv'
  <2>1. Rewarded'
    BY <1>0, <1>2, FollowingEnds DEF CouponRefused, RollbackRedeem, Rewarded
  <2> QED BY <1>2, <2>1 DEF CouponRefused, RollbackRedeem, RedeemAt, RedeemGoes
<1>3. ASSUME NEW u \in Redeemers, CommitRedeem(u) PROVE RedemptionInv'
  <2>1. Following' = Following \cup {u} /\ u \notin Following
    BY <1>3 DEF CommitRedeem, RedeemAt, RedeemGoes, Following
  <2>2. /\ IsFiniteSet(Following \cup {u})
        /\ Cardinality(Following \cup {u}) = Cardinality(Following) + 1
    <3> HIDE DEF Following
    <3> QED BY <1>0, <2>1, FS_AddElement
  <2>3. Rewarded'
    BY <1>0, <1>3, <2>1, <2>2 DEF CommitRedeem, Rewarded
  <2>4. RedemptionTypeOK' /\ WritesSeen' /\ NoEditor'
    BY <1>3 DEF CommitRedeem, RedeemAt, RedeemGoes
  <2>5. scenario # "server" => coupon = "enabled"
    BY <1>3 DEF CommitRedeem, MayWrite
  <2>6. OnSQLite' /\ UnderEdits'
    BY <1>3, <2>5 DEF CommitRedeem
  <2> QED BY <2>3, <2>4, <2>6
<1>4. ASSUME NEW u \in Redeemers, FollowUp(u) PROVE RedemptionInv'
  <2>1. Rewarded'
    BY <1>0, <1>4, FollowingEnds DEF FollowUp, Rewarded
  <2> QED BY <1>4, <2>1 DEF FollowUp, RedeemAt, RedeemGoes
<1>5. CASE EditBegins
  <2>1. Rewarded'
    BY <1>5 DEF EditBegins, Rewarded, Following
  <2> QED BY <1>5, <2>1 DEF EditBegins
<1>6. CASE EditEnds
  <2>1. Rewarded'
    BY <1>6 DEF EditEnds, Rewarded, Following
  <2> QED BY <1>6, <2>1 DEF EditEnds
<1>7. CASE UNCHANGED redemptionVars
  <2>1. Rewarded'
    BY <1>7 DEF redemptionVars, Rewarded, Following
  <2> QED BY <1>7, <2>1 DEF redemptionVars
<1> QED
  BY <1>1, <1>2, <1>3, <1>4, <1>5, <1>6, <1>7 DEF RedemptionNext, RedeemStep

(* Redeem and UpdateRedemption keep the invariant, whatever the database. *)
THEOREM RedemptionInvariant == RedemptionSpec => []RedemptionInv
<1> QED BY RedemptionStarts, RedemptionGoesOn, PTL DEF RedemptionSpec

(* A redemption code credits one user on SQLite, two if an administrator edits
   it meanwhile, and pays no inviter for a redemption that was rolled back. *)
THEOREM CodeRedeemedOnce == RedemptionSpec => []RedeemedOnce
<1>1. RedemptionInv => RedeemedOnce
  <2> SUFFICES ASSUME RedemptionInv PROVE RedeemedOnce
    OBVIOUS
  <2>1. Cardinality(Following) \in Nat
    BY FS_CardinalityType DEF RedemptionInv, Rewarded
  <2> QED BY <2>1 DEF RedemptionInv, RedemptionTypeOK, OnSQLite, UnderEdits, Rewarded, RedeemedOnce
<1> QED BY <1>1, RedemptionInvariant, PTL

-----------------------------------------------------------------------------
(* The table of locks, whoever its holders are. *)

(* What the fields of a table of locks hold. *)
LEMMA TableIsTyped ==
  ASSUME NEW who, NEW t \in Tables(who)
  PROVE  /\ t.entry \in 0..MaxLocks /\ t.made \in 0..MaxLocks
         /\ t.old \in BOOLEAN /\ t.judged \in BOOLEAN
         /\ t.holder \in [Locks -> who \cup {NoHolder}]
BY DEF Tables

(* The entry that a caller obtains is one of the locks, a new one only where
   the table had none, and nobody gets or loses a lock by it. *)
LEMMA ObtainedIsTyped ==
  ASSUME NEW who, NEW t \in Tables(who), MayObtain(t)
  PROVE  /\ Obtained(t) \in Tables(who)
         /\ Obtained(t).entry = IF t.entry # 0 THEN t.entry ELSE t.made + 1
         /\ Obtained(t).made = IF t.entry # 0 THEN t.made ELSE t.made + 1
         /\ Obtained(t).entry \in Locks
         /\ Obtained(t).holder = t.holder
         /\ Obtained(t).old = FALSE /\ Obtained(t).judged = t.judged
<1> DEFINE e == t.made + 1
<1>1. t.made \in 0..MaxLocks /\ t.entry \in 0..MaxLocks
  BY TableIsTyped
<1>2. CASE t.entry # 0
  <2>1. Obtained(t) = [t EXCEPT !.old = FALSE]
    BY <1>2 DEF Obtained
  <2>2. /\ Obtained(t) \in Tables(who)
        /\ Obtained(t).entry = t.entry /\ Obtained(t).made = t.made
        /\ Obtained(t).holder = t.holder
        /\ Obtained(t).old = FALSE /\ Obtained(t).judged = t.judged
    BY <2>1 DEF Tables
  <2>3. t.entry \in Locks
    BY <1>1, <1>2, LocksAssumption DEF Locks
  <2> QED BY <1>2, <2>2, <2>3
<1>3. CASE t.entry = 0
  <2>1. e \in Locks /\ e \in 0..MaxLocks
    BY <1>1, <1>3, LocksAssumption DEF MayObtain, Locks
  <2>2. Obtained(t) = [t EXCEPT !.entry = e, !.made = e, !.old = FALSE]
    BY <1>3 DEF Obtained, Tables
  <2> HIDE DEF e
  <2>3. /\ Obtained(t) \in Tables(who)
        /\ Obtained(t).entry = e /\ Obtained(t).made = e
        /\ Obtained(t).holder = t.holder
        /\ Obtained(t).old = FALSE /\ Obtained(t).judged = t.judged
    BY <2>1, <2>2 DEF Tables
  <2> QED BY <1>3, <2>1, <2>3 DEF e
<1> QED BY <1>2, <1>3

(* Taking a lock changes its holder only, *)
LEMMA LockedIsTyped ==
  ASSUME NEW who, NEW t \in Tables(who), NEW l \in Locks, NEW h \in who
  PROVE  /\ Locked(t, l, h) \in Tables(who)
         /\ Locked(t, l, h).holder = [t.holder EXCEPT ![l] = h]
         /\ Locked(t, l, h).entry = t.entry /\ Locked(t, l, h).made = t.made
         /\ Locked(t, l, h).old = t.old /\ Locked(t, l, h).judged = t.judged
BY DEF Tables, Locked

(* giving it back frees the lock of the entry and no other one, *)
LEMMA UnlockedIsTyped ==
  ASSUME NEW who, NEW t \in Tables(who)
  PROVE  /\ Unlocked(t) \in Tables(who)
         /\ Unlocked(t).entry = t.entry /\ Unlocked(t).made = t.made
         /\ Unlocked(t).old = TRUE => t.old = TRUE
         /\ Unlocked(t).judged = t.judged
         /\ \A l \in Locks \ {t.entry} : Unlocked(t).holder[l] = t.holder[l]
BY LocksAssumption DEF Tables, Unlocked, Locks

(* and the ticker makes a table of a table. *)
LEMMA TickerIsTyped ==
  ASSUME NEW who, NEW t \in Tables(who)
  PROVE  {Aged(t), Judged(t), Deleted(t), NoLocks} \subseteq Tables(who)
<1>1. Aged(t) \in Tables(who) /\ Judged(t) \in Tables(who)
  BY DEF Tables, Aged, Judged
<1>2. 0 \in 0..MaxLocks
  BY LocksAssumption
<1>3. Deleted(t) \in Tables(who)
  BY <1>2 DEF Tables, Deleted
<1>4. NoLocks \in Tables(who)
  BY <1>2 DEF Tables, NoLocks
<1> QED BY <1>1, <1>3, <1>4

-----------------------------------------------------------------------------
(* Invite codes. *)

(* The stages of a registration that has a lock of the table. *)
Holding == {"check", "read", "save", "unlock"}

(* Every Save counts one registration that was not counted before, on top of
   a row that was read when no more had been registered. *)
Counted ==
  /\ IsFiniteSet(registered)
  /\ code.used <= Cardinality(registered)
  /\ \A s \in Signups :
       /\ signup[s] \notin {"unlock", "done"} => s \notin registered
       /\ signup[s] = "save" => row[s].used <= Cardinality(registered)

Waits == \A s \in Signups : signup[s] = "lock" => guard[s] \in Locks

(* Where all take the memory lock and no entry is ever deleted, there is one
   entry, and whoever is past it holds it. *)
OneLock ==
  /\ ~inviteLocks.old /\ ~inviteLocks.judged
  /\ inviteLocks.entry = inviteLocks.made /\ inviteLocks.made \in {0, 1}
  /\ \A s \in Signups :
       /\ signup[s] \in Holding \cup {"lock"} => inviteLocks.entry = 1 /\ guard[s] = 1
       /\ signup[s] \in Holding => inviteLocks.holder[1] = s

(* So nothing changes the row between the read and the Save. *)
Exact ==
  /\ code.used = Cardinality(registered)
  /\ Limited => code.used <= MaxUses
  /\ \A s \in Signups : signup[s] = "save" =>
       row[s] = code /\ (Limited => code.used < MaxUses)

InviteInv ==
  InviteTypeOK /\ Waits /\ Counted /\ (setting = "memory" => OneLock /\ Exact)

(* Nobody has registered with the code at first. *)
LEMMA InviteStarts == InviteInit => InviteInv
<1> SUFFICES ASSUME InviteInit PROVE InviteInv
  OBVIOUS
<1>1. NoLocks \in Tables(Signups)
  BY LocksAssumption DEF NoLocks, Tables, Locks
<1>2. InviteTypeOK
  <2>1. 0 \in 0..MaxLocks /\ 0 \in Nat
    BY LocksAssumption
  <2> QED BY <1>1, <2>1 DEF InviteInit, InviteTypeOK, SignupLabels
<1>3. Waits /\ Counted /\ OneLock /\ Exact
  BY <1>1, FS_EmptySet, InviteAssumption
     DEF InviteInit, Waits, Counted, OneLock, Exact, NoLocks, Holding, Limited
<1> QED BY <1>2, <1>3 DEF InviteInv

(* A registration moves without touching code, users and locks. *)
LEMMA SignupMoves ==
  ASSUME InviteInv, NEW s \in Signups, NEW label \in SignupLabels,
         SignupGoes(s, label),
         label # "lock", label \in Holding => signup[s] \in Holding,
         row' \in {row, [row EXCEPT ![s] = code]},
         label = "save" => row'[s] = code /\ (Limited => code.used < MaxUses),
         signup[s] # "done", signup[s] # "unlock" \/ label = "done",
         UNCHANGED <<code, inviteLocks, setting, guard, registered>>
  PROVE  /\ signup' \in [Signups -> SignupLabels]
         /\ row' \in [Signups -> [enabled : BOOLEAN, used : Nat]]
         /\ Waits' /\ Counted'
         /\ setting' = "memory" => OneLock' /\ Exact'
<1> USE DEF InviteInv, InviteTypeOK
<1>1. /\ signup' \in [Signups -> SignupLabels]
      /\ row' \in [Signups -> [enabled : BOOLEAN, used : Nat]]
      /\ signup' = [signup EXCEPT ![s] = label]
  BY DEF SignupGoes
<1>2. Waits' /\ Counted'
  BY <1>1 DEF Waits, Counted, Holding
<1>3. setting = "memory" => OneLock'
  BY <1>1 DEF OneLock, Holding
<1>4. setting = "memory" => Exact'
  BY <1>1 DEF Exact
<1> QED BY <1>1, <1>2, <1>3, <1>4

(* The end of the process takes the registrations and the table with it. *)
LEMMA ServerMayEnd ==
  ASSUME InviteInv, ServerEnds, UNCHANGED <<code, expired, setting, guard, row, registered>>,
         redisLock' \in Signups \cup {NoHolder}, crashed' \in BOOLEAN
  PROVE  InviteInv'
<1> USE DEF InviteInv, InviteTypeOK
<1>1. /\ inviteLocks' = NoLocks /\ inviteLocks' \in Tables(Signups)
      /\ inviteLocks'.entry = 0 /\ inviteLocks'.made = 0
      /\ ~inviteLocks'.old /\ ~inviteLocks'.judged
  <2>1. inviteLocks \in Tables(Signups)
    OBVIOUS
  <2> QED BY <2>1, TickerIsTyped DEF ServerEnds, NoLocks
<1>2. \A s \in Signups : signup'[s] = IF signup[s] = "new" THEN "new" ELSE "done"
  BY DEF ServerEnds
<1>3. InviteTypeOK'
  BY <1>1 DEF ServerEnds, SignupLabels
<1>4. Waits' /\ Counted'
  BY <1>2 DEF Waits, Counted
<1>5. OneLock'
  BY <1>1, <1>2 DEF OneLock, Holding
<1>6. setting = "memory" => Exact'
  BY <1>2 DEF Exact
<1> QED BY <1>3, <1>4, <1>5, <1>6

(* Every step of a registration, of Redis and of the ticker keeps the
   invariant. *)
LEMMA InviteGoesOn == InviteInv /\ [InviteNext]_inviteVars => InviteInv'
<1> SUFFICES ASSUME InviteInv, [InviteNext]_inviteVars
             PROVE  InviteInv'
  OBVIOUS
<1> USE DEF InviteInv, InviteTypeOK
<1>0. /\ inviteLocks \in Tables(Signups)
      /\ inviteLocks.entry \in 0..MaxLocks /\ inviteLocks.made \in 0..MaxLocks
      /\ inviteLocks.old \in BOOLEAN /\ inviteLocks.judged \in BOOLEAN
      /\ inviteLocks.holder \in [Locks -> Signups \cup {NoHolder}]
      /\ 1 \in Locks
  BY TableIsTyped, LocksAssumption DEF Locks
<1>1. ASSUME NEW s \in Signups, AcquireRedis(s) PROVE InviteInv'
  <2>1. signup' = [signup EXCEPT ![s] = "check"]
    BY <1>1 DEF AcquireRedis, SignupGoes
  <2> QED BY <1>1, <2>1 DEF AcquireRedis, SignupAt, SignupLabels, Waits, Counted
<1>2. ASSUME NEW s \in Signups, ObtainMemoryLock(s) PROVE InviteInv'
  <2>1. /\ inviteLocks' = Obtained(inviteLocks) /\ inviteLocks' \in Tables(Signups)
        /\ inviteLocks'.entry \in Locks
        /\ inviteLocks'.entry =
             IF inviteLocks.entry # 0 THEN inviteLocks.entry ELSE inviteLocks.made + 1
        /\ inviteLocks'.made =
             IF inviteLocks.entry # 0 THEN inviteLocks.made ELSE inviteLocks.made + 1
        /\ inviteLocks'.holder = inviteLocks.holder
        /\ inviteLocks'.old = FALSE /\ inviteLocks'.judged = inviteLocks.judged
    BY <1>0, <1>2, ObtainedIsTyped DEF ObtainMemoryLock
  <2>2. inviteLocks'.entry \in 0..MaxLocks
    BY <2>1, LocksAssumption DEF Locks
  <2>3. /\ signup' = [signup EXCEPT ![s] = "lock"] /\ signup[s] = "new"
        /\ guard' = [guard EXCEPT ![s] = inviteLocks'.entry]
        /\ UNCHANGED <<code, expired, redisLock, setting, row, registered, crashed>>
    BY <1>2 DEF ObtainMemoryLock, SignupAt, SignupGoes
  <2>4. InviteTypeOK'
    BY <2>1, <2>2, <2>3 DEF SignupLabels
  <2>5. Waits' /\ Counted'
    BY <2>1, <2>3 DEF Waits, Counted
  <2>6. setting = "memory" => OneLock'
    BY <1>0, <2>1, <2>3 DEF OneLock, Holding
  <2>7. setting = "memory" => Exact'
    BY <2>3 DEF Exact
  <2> QED BY <2>3, <2>4, <2>5, <2>6, <2>7
<1>3. ASSUME NEW s \in Signups, TakeMemoryLock(s) PROVE InviteInv'
  <2>1. /\ signup' = [signup EXCEPT ![s] = "check"] /\ signup[s] = "lock"
        /\ IsFree(inviteLocks, guard[s])
        /\ inviteLocks' = Locked(inviteLocks, guard[s], s)
        /\ UNCHANGED <<code, expired, redisLock, setting, guard, row, registered, crashed>>
    BY <1>3 DEF TakeMemoryLock, SignupAt, SignupGoes
  <2>2. guard[s] \in Locks =>
          /\ inviteLocks' \in Tables(Signups)
          /\ inviteLocks'.holder = [inviteLocks.holder EXCEPT ![guard[s]] = s]
          /\ inviteLocks'.entry = inviteLocks.entry /\ inviteLocks'.made = inviteLocks.made
          /\ inviteLocks'.old = inviteLocks.old /\ inviteLocks'.judged = inviteLocks.judged
    BY <1>0, <2>1, LockedIsTyped
  <2>3. guard[s] \in Locks
    BY <2>1 DEF Waits
  <2>4. InviteTypeOK'
    BY <2>1, <2>2, <2>3 DEF SignupLabels
  <2>5. Waits' /\ Counted'
    BY <2>1 DEF Waits, Counted
  <2>6. setting = "memory" => OneLock'
    <3> SUFFICES ASSUME setting = "memory" PROVE OneLock'
      OBVIOUS
    <3>1. guard[s] = 1 /\ inviteLocks.entry = 1
      BY <2>1 DEF OneLock
    <3>2. inviteLocks.holder[1] = NoHolder
      BY <2>1, <3>1 DEF IsFree
    <3>3. \A r \in Signups : signup[r] \notin Holding
      BY <3>2, InviteAssumption DEF OneLock
    <3>4. /\ inviteLocks'.holder[1] = s
          /\ \A r \in Signups : signup'[r] \in Holding => r = s
          /\ \A r \in Signups :
               signup'[r] \in Holding \cup {"lock"} => signup[r] \in Holding \cup {"lock"}
      BY <1>0, <2>1, <2>2, <2>3, <3>1, <3>3 DEF Holding
    <3> QED BY <2>1, <2>2, <2>3, <3>4 DEF OneLock
  <2>7. setting = "memory" => Exact'
    BY <2>1 DEF Exact
  <2> QED BY <2>1, <2>4, <2>5, <2>6, <2>7
<1>4. ASSUME NEW s \in Signups, ComeByOAuth(s) PROVE InviteInv'
  <2>1. signup' = [signup EXCEPT ![s] = "check"]
    BY <1>4 DEF ComeByOAuth, SignupGoes
  <2> QED BY <1>4, <2>1 DEF ComeByOAuth, SignupAt, SignupLabels, Waits, Counted
<1>5. ASSUME NEW s \in Signups, Check(s) PROVE InviteInv'
  <2>1. \E label \in {"read", "unlock"} : SignupGoes(s, label)
    BY <1>5 DEF Check
  <2> QED BY <1>5, <2>1, SignupMoves DEF Check, SignupAt, SignupLabels, Holding
<1>6. ASSUME NEW s \in Signups, ReadCode(s) PROVE InviteInv'
  <2>1. /\ row' = [row EXCEPT ![s] = code] /\ signup[s] = "read"
        /\ UNCHANGED <<code, expired, inviteLocks, redisLock, setting, guard, registered, crashed>>
        /\ SignupGoes(s, IF IsValid(code) THEN "save" ELSE "unlock")
    BY <1>6 DEF ReadCode, SignupAt
  <2>2. CASE IsValid(code)
    <3>1. SignupGoes(s, "save") /\ (Limited => code.used < MaxUses)
      BY <2>1, <2>2 DEF IsValid
    <3> QED BY <2>1, <3>1, SignupMoves DEF SignupLabels, Holding
  <2>3. CASE ~IsValid(code)
    <3>1. SignupGoes(s, "unlock")
      BY <2>1, <2>3
    <3> QED BY <2>1, <3>1, SignupMoves DEF SignupLabels, Holding
  <2> QED BY <2>2, <2>3
<1>7. ASSUME NEW s \in Signups, Commit(s) PROVE InviteInv'
  <2>1. /\ signup[s] = "save" /\ code' = Used(row[s])
        /\ registered' = registered \cup {s} /\ signup' = [signup EXCEPT ![s] = "unlock"]
        /\ UNCHANGED <<expired, inviteLocks, redisLock, setting, guard, row, crashed>>
    BY <1>7 DEF Commit, SignupAt, SignupGoes
  <2>2. code' \in [enabled : BOOLEAN, used : Nat] /\ code'.used = row[s].used + 1
    BY <2>1 DEF Used
  <2>3. /\ IsFiniteSet(registered') /\ Cardinality(registered') = Cardinality(registered) + 1
        /\ Cardinality(registered) \in Nat
    BY <2>1, FS_AddElement, FS_CardinalityType DEF Counted
  <2>4. InviteTypeOK' /\ Waits'
    BY <2>1, <2>2 DEF SignupLabels, Waits
  <2>5. Counted'
    <3>1. /\ row[s].used <= Cardinality(registered)
          /\ \A r \in Signups : row[r].used \in Nat
      BY <2>1 DEF Counted
    <3>2. code'.used <= Cardinality(registered')
      BY <2>2, <2>3, <3>1
    <3>3. ASSUME NEW r \in Signups
          PROVE  /\ signup'[r] \notin {"unlock", "done"} => r \notin registered'
                 /\ signup'[r] = "save" => row'[r].used <= Cardinality(registered')
      BY <2>1, <2>3, <3>1 DEF Counted
    <3> QED BY <2>3, <3>2, <3>3 DEF Counted
  <2>6. setting = "memory" => OneLock'
    BY <2>1 DEF OneLock, Holding
  <2>7. setting = "memory" => Exact'
    <3> SUFFICES ASSUME setting = "memory" PROVE Exact'
      OBVIOUS
    <3>1. \A r \in Signups : signup[r] = "save" => r = s
      BY <2>1 DEF OneLock, Holding
    <3>2. \A r \in Signups : signup'[r] # "save"
      BY <2>1, <3>1
    <3> QED BY <2>1, <2>2, <2>3, <3>2, InviteAssumption DEF Exact, Limited
  <2> QED BY <2>1, <2>4, <2>5, <2>6, <2>7
<1>8. ASSUME NEW s \in Signups, Rollback(s) PROVE InviteInv'
  <2> QED BY <1>8, SignupMoves DEF Rollback, SignupLabels, Holding
<1>9. ASSUME NEW s \in Signups, ReleaseInvite(s) PROVE InviteInv'
  <2>1. /\ signup[s] = "unlock" /\ redisLock' \in Signups \cup {NoHolder}
        /\ UNCHANGED <<code, expired, setting, guard, row, registered, crashed>>
    BY <1>9 DEF ReleaseInvite, SignupAt
  <2>2. CASE guard[s] = 0
    <3>1. SignupGoes(s, "done") /\ UNCHANGED inviteLocks
      BY <1>9, <2>2 DEF ReleaseInvite
    <3> QED BY <2>1, <3>1, SignupMoves DEF SignupLabels, Holding
  <2>3. CASE guard[s] # 0 /\ UnlockIsFatal(inviteLocks)
    <3>1. ServerEnds
      BY <1>9, <2>3 DEF ReleaseInvite
    <3> QED BY <2>1, <3>1, ServerMayEnd
  <2>4. CASE guard[s] # 0 /\ ~UnlockIsFatal(inviteLocks)
    <3>1. inviteLocks' = Unlocked(inviteLocks) /\ signup' = [signup EXCEPT ![s] = "done"]
      BY <1>9, <2>4 DEF ReleaseInvite, SignupGoes
    <3>2. /\ inviteLocks' \in Tables(Signups)
          /\ inviteLocks'.entry = inviteLocks.entry /\ inviteLocks'.made = inviteLocks.made
          /\ inviteLocks'.old = TRUE => inviteLocks.old = TRUE
          /\ inviteLocks'.judged = inviteLocks.judged
      BY <1>0, <3>1, UnlockedIsTyped
    <3>3. inviteLocks'.old \in BOOLEAN
      BY <3>2, TableIsTyped
    <3>4. InviteTypeOK' /\ Waits' /\ Counted'
      BY <2>1, <3>1, <3>2 DEF SignupLabels, Waits, Counted
    <3>5. setting = "memory" => OneLock'
      <4> SUFFICES ASSUME setting = "memory" PROVE OneLock'
        OBVIOUS
      <4>1. \A r \in Signups \ {s} : signup[r] \notin Holding
        BY <2>1 DEF OneLock, Holding
      <4>2. \A r \in Signups :
              /\ signup'[r] \notin Holding
              /\ signup'[r] \in Holding \cup {"lock"} => signup[r] \in Holding \cup {"lock"}
        BY <3>1, <4>1 DEF Holding
      <4> QED BY <2>1, <3>2, <3>3, <4>2 DEF OneLock
    <3>6. setting = "memory" => Exact'
      BY <2>1, <3>1 DEF Exact
    <3> QED BY <2>1, <3>4, <3>5, <3>6
  <2> QED BY <2>2, <2>3, <2>4
<1>10. CASE CodeExpires
  BY <1>10 DEF CodeExpires, Waits, Counted, OneLock, Exact
<1>11. CASE RedisLockExpires
  BY <1>11 DEF RedisLockExpires, Waits, Counted, OneLock, Exact
<1>12. CASE ServerCrashes
  BY <1>12, ServerMayEnd DEF ServerCrashes
<1>13. CASE InviteEntryAges
  <2>1. Aged(inviteLocks) \in Tables(Signups)
    BY <1>0, TickerIsTyped
  <2> QED BY <1>13, <2>1 DEF InviteEntryAges, Waits, Counted
<1>14. CASE InviteCleanup
  <2>1. Judged(inviteLocks) \in Tables(Signups) /\ Deleted(inviteLocks) \in Tables(Signups)
    BY <1>0, TickerIsTyped
  <2>2. setting # "memory"
    BY <1>14 DEF InviteCleanup, OneLock
  <2> QED BY <1>14, <2>1, <2>2 DEF InviteCleanup, Waits, Counted
<1>15. CASE UNCHANGED inviteVars
  BY <1>15 DEF inviteVars, Waits, Counted, OneLock, Exact
<1> QED
  BY <1>1, <1>2, <1>3, <1>4, <1>5, <1>6, <1>7, <1>8, <1>9, <1>10, <1>11, <1>12,
     <1>13, <1>14, <1>15 DEF InviteNext, SignupStep

(* Registrations with a password and by third-party logins, under either lock,
   its expiry, its cleanup and a crash, keep the invariant. *)
THEOREM InviteInvariant == InviteSpec => []InviteInv
<1> QED BY InviteStarts, InviteGoesOn, PTL DEF InviteSpec

(* An invite code never counts a registration that was not committed, and
   where all registrations take the memory lock it counts every one of them
   and is used no more than MaxUses times. *)
THEOREM CodeNeverOverused == InviteSpec => []NeverOverused
<1>1. InviteInv => NeverOverused
  BY DEF InviteInv, Counted, Exact, NeverOverused
<1> QED BY <1>1, InviteInvariant, PTL

-----------------------------------------------------------------------------
(* Recharge orders, notified by PaymentCallback. *)

Critical == {"read", "save", "credit", "reward", "unlock"}

(* A callback that will still credit the user unless it fails. *)
Paying(n) == (CallbackAt(n, "save") /\ seen[n] = "pending") \/ CallbackAt(n, "credit")

(* Until an entry of the lock table has grown old there is one entry, and the
   callback that reads the order and saves it holds it. *)
OneEntry ==
  /\ ~orderLocks.old /\ ~orderLocks.judged
  /\ orderLocks.entry = orderLocks.made /\ orderLocks.made \in {0, 1}
  /\ \A n \in Notices :
       /\ callback[n] \in Critical \cup {"lock"} => orderLocks.entry = 1 /\ lock[n] = 1
       /\ callback[n] \in Critical => orderLocks.holder[1] = n

(* Afterwards callbacks may overlap, but each will find the order decided. *)
Decided == order # "pending" /\ \A n \in Notices : ~Paying(n)

(* An entry only grows old when the callback that made it has ended, and where
   the clock is the trouble no callback has ended without a decision. *)
Undecided ==
  trouble = "clock" /\ order = "pending" /\ orderLocks.made # 0
    => \E n \in Notices : callback[n] \in {"lock", "read", "save"}

Money ==
  /\ credits <= 1 /\ rewards <= credits
  /\ order # "success" => credits = 0
  /\ \A n \in Notices :
       /\ seen[n] # "pending" => order # "pending"
       /\ Paying(n) => credits = 0
       /\ CallbackAt(n, "credit") => order = "success"
       /\ CallbackAt(n, "reward") => credits = 1 /\ rewards = 0
  /\ \A m, n \in Notices :
       CallbackAt(m, "reward") /\ CallbackAt(n, "reward") => m = n

OrderInv == OrderTypeOK /\ (OneEntry \/ Decided) /\ Undecided /\ Money

(* No order has been paid at first. *)
LEMMA OrderStarts == OrderInit => OrderInv
<1> SUFFICES ASSUME OrderInit PROVE OrderInv
  OBVIOUS
<1>1. NoLocks \in Tables(Notices) /\ 1 \in Locks
  BY LocksAssumption DEF NoLocks, Tables, Locks
<1>2. OrderTypeOK
  BY <1>1, OrderAssumption DEF OrderInit, OrderTypeOK, Statuses, CallbackLabels
<1>3. OneEntry /\ Undecided /\ Money
  BY DEF OrderInit, OneEntry, Undecided, Money, Paying, CallbackAt, NoLocks, Critical
<1> QED BY <1>2, <1>3 DEF OrderInv

(* Of two callbacks that are past the lock one waits, unless the order is
   decided. *)
LEMMA OnePays ==
  ASSUME OrderInv, NEW n \in Notices, Paying(n)
  PROVE  /\ OneEntry
         /\ \A m \in Notices : callback[m] \in Critical => m = n
BY DEF OrderInv, OneEntry, Decided, Paying, CallbackAt, Critical

(* The end of the process takes the callbacks and the table with it. *)
LEMMA ProcessMayEnd ==
  ASSUME OrderInv, ProcessEnds, UNCHANGED <<order, credits, rewards, lock, seen>>,
         trouble' \in {trouble, "over"}
  PROVE  OrderInv'
<1> USE DEF OrderInv, OrderTypeOK, CallbackAt
<1>1. /\ orderLocks' = NoLocks /\ orderLocks' \in Tables(Notices)
      /\ orderLocks'.entry = 0 /\ orderLocks'.made = 0
      /\ ~orderLocks'.old /\ ~orderLocks'.judged
  <2>1. orderLocks \in Tables(Notices)
    OBVIOUS
  <2> QED BY <2>1, TickerIsTyped DEF ProcessEnds, NoLocks
<1>2. \A n \in Notices : callback'[n] \in {"new", "done"}
  BY DEF ProcessEnds, Inside
<1>3. OrderTypeOK'
  BY <1>1 DEF ProcessEnds, CallbackLabels
<1>4. OneEntry' /\ Undecided'
  BY <1>1, <1>2 DEF OneEntry, Undecided, Critical
<1>5. Money'
  BY <1>2 DEF Money, Paying
<1> QED BY <1>3, <1>4, <1>5

(* Every step of a callback keeps the invariant, unless an administrator edits
   the order. *)
LEMMA OrderGoesOn ==
  ASSUME Route = "payment", OrderInv, [OrderNext]_orderVars
  PROVE  OrderInv'
<1> USE DEF OrderInv, OrderTypeOK, CallbackAt
<1>0. /\ orderLocks \in Tables(Notices)
      /\ orderLocks.entry \in 0..MaxLocks /\ orderLocks.made \in 0..MaxLocks
      /\ orderLocks.old \in BOOLEAN /\ orderLocks.judged \in BOOLEAN
      /\ orderLocks.holder \in [Locks -> Notices \cup {NoHolder}]
      /\ 1 \in Locks
  BY TableIsTyped, LocksAssumption DEF Locks
<1>1. ASSUME NEW n \in Notices, Arrive(n) \/ Refused(n) PROVE OrderInv'
  <2>1. /\ \E label \in {"obtain", "done"} : callback' = [callback EXCEPT ![n] = label]
        /\ callback[n] = "new"
        /\ UNCHANGED <<order, credits, rewards, orderLocks, lock, seen, trouble>>
    BY <1>1 DEF Arrive, Refused, CallbackGoes
  <2>2. OrderTypeOK' /\ Undecided' /\ Money'
    BY <2>1 DEF CallbackLabels, Undecided, Money, Paying
  <2>3. (OneEntry \/ Decided)'
    BY <2>1 DEF OneEntry, Decided, Paying, Critical
  <2> QED BY <2>2, <2>3
<1>2. ASSUME NEW n \in Notices, ObtainLock(n) PROVE OrderInv'
  <2>1. /\ orderLocks' \in Tables(Notices)
        /\ orderLocks'.entry \in Locks
        /\ orderLocks'.entry =
             IF orderLocks.entry # 0 THEN orderLocks.entry ELSE orderLocks.made + 1
        /\ orderLocks'.made =
             IF orderLocks.entry # 0 THEN orderLocks.made ELSE orderLocks.made + 1
        /\ orderLocks'.holder = orderLocks.holder
        /\ orderLocks'.old = FALSE /\ orderLocks'.judged = orderLocks.judged
    BY <1>0, <1>2, ObtainedIsTyped DEF ObtainLock
  <2>2. /\ callback' = [callback EXCEPT ![n] = "lock"] /\ callback[n] = "obtain"
        /\ lock' = [lock EXCEPT ![n] = orderLocks'.entry]
        /\ UNCHANGED <<order, credits, rewards, seen, trouble>>
    BY <1>2 DEF ObtainLock, CallbackGoes
  <2>3. OrderTypeOK' /\ Undecided' /\ Money'
    BY <2>1, <2>2 DEF CallbackLabels, Undecided, Money, Paying
  <2>4. CASE OneEntry
    <3>1. orderLocks'.entry = 1 /\ orderLocks'.made = 1 /\ ~orderLocks'.judged
      BY <1>0, <2>1, <2>4 DEF OneEntry
    <3> QED BY <2>1, <2>2, <2>3, <2>4, <3>1 DEF OneEntry, Critical
  <2>5. CASE Decided
    BY <2>2, <2>3, <2>5 DEF Decided, Paying
  <2> QED BY <2>4, <2>5
<1>3. ASSUME NEW n \in Notices, TakeLock(n) PROVE OrderInv'
  <2>1. /\ callback' = [callback EXCEPT ![n] = "read"] /\ callback[n] = "lock"
        /\ orderLocks.holder[lock[n]] = NoHolder
        /\ UNCHANGED <<order, credits, rewards, lock, seen, trouble>>
    BY <1>3 DEF TakeLock, CallbackGoes, IsFree
  <2>2. /\ orderLocks' \in Tables(Notices)
        /\ orderLocks'.holder = [orderLocks.holder EXCEPT ![lock[n]] = n]
        /\ orderLocks'.entry = orderLocks.entry /\ orderLocks'.made = orderLocks.made
        /\ orderLocks'.old = orderLocks.old /\ orderLocks'.judged = orderLocks.judged
    BY <1>0, <1>3, LockedIsTyped DEF TakeLock
  <2>3. OrderTypeOK' /\ Undecided' /\ Money'
    BY <2>1, <2>2 DEF CallbackLabels, Undecided, Money, Paying
  <2>4. CASE OneEntry
    <3>1. lock[n] = 1 /\ \A m \in Notices : callback[m] \notin Critical
      BY <2>1, <2>4, OrderAssumption DEF OneEntry
    <3>2. /\ orderLocks'.holder[1] = n
          /\ \A m \in Notices : callback'[m] \in Critical => m = n
      BY <1>0, <2>1, <2>2, <3>1 DEF Critical
    <3>3. OneEntry'
      BY <2>1, <2>2, <2>4, <3>2 DEF OneEntry, Critical
    <3> QED BY <2>3, <3>3
  <2>5. CASE Decided
    BY <2>1, <2>3, <2>5 DEF Decided, Paying
  <2> QED BY <2>4, <2>5
<1>4. ASSUME NEW n \in Notices, ReadOrder(n) PROVE OrderInv'
  <2>1. /\ callback' = [callback EXCEPT ![n] = "save"] /\ callback[n] = "read"
        /\ seen' = [seen EXCEPT ![n] = order]
        /\ UNCHANGED <<order, credits, rewards, orderLocks, lock, trouble>>
    BY <1>4 DEF ReadOrder, CallbackGoes
  <2>2. OrderTypeOK' /\ Undecided' /\ Money'
    BY <2>1 DEF CallbackLabels, Undecided, Money, Paying
  <2>3. (OneEntry \/ Decided)'
    BY <2>1 DEF OneEntry, Decided, Paying, Critical
  <2> QED BY <2>2, <2>3
<1>5. ASSUME NEW n \in Notices, StatementFails(n) \/ AlreadyDone(n) PROVE OrderInv'
  <2>1. /\ callback' = [callback EXCEPT ![n] = "unlock"]
        /\ callback[n] \in {"read", "save", "credit"}
        /\ trouble # "clock" \/ order # "pending"
        /\ UNCHANGED <<order, credits, rewards, orderLocks, lock, seen, trouble>>
    BY <1>5 DEF StatementFails, AlreadyDone, CallbackGoes, DatabaseFails, Money
  <2>2. OrderTypeOK' /\ Undecided' /\ Money'
    BY <2>1 DEF CallbackLabels, Undecided, Money, Paying
  <2>3. (OneEntry \/ Decided)'
    BY <2>1 DEF OneEntry, Decided, Paying, Critical
  <2> QED BY <2>2, <2>3
<1>6. ASSUME NEW n \in Notices, SaveOrder(n) PROVE OrderInv'
  <2>1. /\ callback' = [callback EXCEPT ![n] = "credit"] /\ callback[n] = "save"
        /\ seen[n] = "pending" /\ order' = "success"
        /\ UNCHANGED <<credits, rewards, orderLocks, lock, seen, trouble>>
    BY <1>6 DEF SaveOrder, CallbackGoes
  <2>2. Paying(n) /\ OneEntry
    BY <2>1, OnePays DEF Paying
  <2>3. OneEntry'
    BY <2>1, <2>2 DEF OneEntry, Critical
  <2>4. OrderTypeOK' /\ Undecided' /\ Money'
    BY <2>1, <2>2 DEF CallbackLabels, Statuses, Undecided, Money, Paying
  <2> QED BY <2>3, <2>4
<1>7. ASSUME NEW n \in Notices, CreditUser(n) PROVE OrderInv'
  <2>1. /\ callback' = [callback EXCEPT ![n] = "reward"] /\ callback[n] = "credit"
        /\ credits' = credits + 1
        /\ UNCHANGED <<order, rewards, orderLocks, lock, seen, trouble>>
    BY <1>7 DEF CreditUser, CallbackGoes
  <2>2. Paying(n) /\ OneEntry /\ \A m \in Notices : callback[m] \in Critical => m = n
    BY <2>1, OnePays DEF Paying
  <2>3. OneEntry'
    BY <2>1, <2>2 DEF OneEntry, Critical
  <2>4. credits = 0 /\ rewards = 0 /\ order = "success"
    BY <2>1, <2>2 DEF Money
  <2>5. \A m \in Notices : m # n => callback'[m] \notin Critical
    BY <2>1, <2>2
  <2>6. Money'
    BY <2>1, <2>4, <2>5 DEF Money, Paying, Critical
  <2>7. OrderTypeOK' /\ Undecided'
    BY <2>1, <2>4 DEF CallbackLabels, Undecided
  <2> QED BY <2>3, <2>6, <2>7
<1>8. ASSUME NEW n \in Notices, RewardInviter(n) PROVE OrderInv'
  <2>1. /\ callback' = [callback EXCEPT ![n] = "unlock"] /\ callback[n] = "reward"
        /\ rewards' \in {rewards, rewards + 1}
        /\ UNCHANGED <<order, credits, orderLocks, lock, seen, trouble>>
    BY <1>8 DEF RewardInviter, CallbackGoes
  <2>2. OrderTypeOK' /\ Undecided' /\ Money'
    BY <2>1 DEF CallbackLabels, Undecided, Money, Paying
  <2>3. (OneEntry \/ Decided)'
    BY <2>1 DEF OneEntry, Decided, Paying, Critical
  <2> QED BY <2>2, <2>3
<1>9. ASSUME NEW n \in Notices, Release(n) PROVE OrderInv'
  <2>1. callback[n] = "unlock" /\ UNCHANGED <<order, credits, rewards, lock, seen, trouble>>
    BY <1>9 DEF Release
  <2>2. CASE UnlockIsFatal(orderLocks)
    BY <1>9, <2>1, <2>2, ProcessMayEnd DEF Release
  <2>3. CASE ~UnlockIsFatal(orderLocks)
    <3>1. orderLocks' = Unlocked(orderLocks) /\ callback' = [callback EXCEPT ![n] = "done"]
      BY <1>9, <2>3 DEF Release, CallbackGoes
    <3>2. /\ orderLocks' \in Tables(Notices)
          /\ orderLocks'.entry = orderLocks.entry /\ orderLocks'.made = orderLocks.made
          /\ orderLocks'.old = TRUE => orderLocks.old = TRUE
          /\ orderLocks'.judged = orderLocks.judged
      BY <1>0, <3>1, UnlockedIsTyped
    <3>3. orderLocks'.old \in BOOLEAN
      BY <3>2, TableIsTyped
    <3>4. OrderTypeOK' /\ Undecided' /\ Money'
      BY <2>1, <3>1, <3>2 DEF CallbackLabels, Undecided, Money, Paying
    <3>5. CASE OneEntry
      <4>1. \A m \in Notices \ {n} : callback[m] \notin Critical
        BY <2>1, <3>5 DEF OneEntry, Critical
      <4>2. \A m \in Notices :
              /\ callback'[m] \notin Critical
              /\ callback'[m] = "lock" => callback[m] = "lock"
        BY <3>1, <4>1 DEF Critical
      <4>3. OneEntry'
        BY <2>1, <3>2, <3>3, <3>5, <4>2 DEF OneEntry
      <4> QED BY <3>4, <4>3
    <3>6. CASE Decided
      BY <2>1, <3>1, <3>4, <3>6 DEF Decided, Paying
    <3> QED BY <3>5, <3>6
  <2> QED BY <2>2, <2>3
<1>10. CASE CloseUnfinished
  <2>1. OneEntry'
    BY <1>10 DEF CloseUnfinished, Decided, OneEntry
  <2>2. OrderTypeOK' /\ Undecided' /\ Money'
    BY <1>10 DEF CloseUnfinished, Statuses, Undecided, Money, Paying
  <2> QED BY <2>1, <2>2
<1>11. CASE EntryAges
  <2>1. Aged(orderLocks) \in Tables(Notices) /\ Aged(orderLocks).made = orderLocks.made
    BY <1>0, TickerIsTyped DEF Aged, Tables
  <2>2. \A n \in Notices : callback[n] \in {"new", "done"}
    BY <1>11 DEF EntryAges, Inside
  <2>3. orderLocks.made # 0 \/ Decided
    BY <1>11 DEF EntryAges, OneEntry
  <2>4. Decided
    BY <1>11, <2>2, <2>3 DEF EntryAges, Undecided, Decided, Paying
  <2>5. Decided' /\ Money' /\ Undecided'
    BY <1>11, <2>4 DEF EntryAges, Decided, Paying, Money, Undecided
  <2> QED BY <1>11, <2>1, <2>5 DEF EntryAges
<1>12. CASE CleanupJudges \/ CleanupDeletes
  <2>1. orderLocks' \in Tables(Notices)
    BY <1>0, <1>12, TickerIsTyped DEF CleanupJudges, CleanupDeletes
  <2>2. Decided
    BY <1>12 DEF CleanupJudges, CleanupDeletes, OneEntry
  <2>3. Decided' /\ Money' /\ Undecided'
    BY <1>12, <2>2 DEF CleanupJudges, CleanupDeletes, Decided, Paying, Money, Undecided
  <2> QED BY <1>12, <2>1, <2>3 DEF CleanupJudges, CleanupDeletes
<1>13. CASE Crash
  BY <1>13, ProcessMayEnd DEF Crash
<1>14. CASE UNCHANGED orderVars
  BY <1>14 DEF orderVars, OneEntry, Decided, Undecided, Money, Paying
<1> QED
  BY <1>1, <1>2, <1>3, <1>4, <1>5, <1>6, <1>7, <1>8, <1>9, <1>10, <1>11, <1>12,
     <1>13, <1>14 DEF OrderNext, CallbackStep

(* PaymentCallback, the closing of orders and the cleanup of the locks keep the
   invariant, whichever statement fails and whenever the process ends. *)
THEOREM OrderInvariant ==
  ASSUME Route = "payment"
  PROVE  OrderSpec => []OrderInv
<1>1. OrderInv /\ [OrderNext]_orderVars => OrderInv'
  BY OrderGoesOn
<1> QED BY <1>1, OrderStarts, PTL DEF OrderSpec

(* However many notifications arrive at PaymentCallback, the user is credited
   once and the inviter not more often. *)
THEOREM OrderCreditedOnce ==
  ASSUME Route = "payment"
  PROVE  OrderSpec => []CreditedOnce
<1>1. OrderInv => CreditedOnce
  BY DEF OrderInv, Money, CreditedOnce
<1> QED BY <1>1, OrderInvariant, PTL

(* Each step of an order is a step of its promise, or none of it. *)
LEMMA OrderStepIsPromised ==
  ASSUME OrderInv, [OrderNext]_orderVars
  PROVE  [Promise!Next]_<<order, credits>>
<1> USE DEF CallbackAt
<1>1. ASSUME NEW n \in Notices, SaveOrder(n)
      PROVE  [Promise!Next]_<<order, credits>>
  BY <1>1 DEF SaveOrder, Promise!Next, Promise!Pay
<1>2. ASSUME NEW n \in Notices, CreditUser(n)
      PROVE  [Promise!Next]_<<order, credits>>
  <2>1. order = "success" /\ credits = 0
    BY <1>2 DEF CreditUser, OrderInv, Money, Paying
  <2> QED BY <1>2, <2>1 DEF CreditUser, Promise!Next, Promise!Credit
<1>3. CASE CloseUnfinished
  BY <1>3 DEF CloseUnfinished, Promise!Next, Promise!Close
<1>4. ASSUME NEW n \in Notices,
             \/ Arrive(n) \/ Refused(n) \/ ObtainLock(n) \/ TakeLock(n)
             \/ ReadOrder(n) \/ StatementFails(n) \/ AlreadyDone(n)
             \/ RewardInviter(n) \/ Release(n)
      PROVE  UNCHANGED <<order, credits>>
  BY <1>4 DEF Arrive, Refused, ObtainLock, TakeLock, ReadOrder, StatementFails,
              AlreadyDone, RewardInviter, Release
<1>5. CASE EntryAges \/ CleanupJudges \/ CleanupDeletes \/ Crash
  BY <1>5 DEF EntryAges, CleanupJudges, CleanupDeletes, Crash
<1>6. CASE UNCHANGED orderVars
  BY <1>6 DEF orderVars
<1> QED BY <1>1, <1>2, <1>3, <1>4, <1>5, <1>6 DEF OrderNext, CallbackStep

(* An order notified through PaymentCallback implements OneTimeCredit: it is
   credited once, after it was recorded as paid. *)
THEOREM OrderKeepsPromise ==
  ASSUME Route = "payment"
  PROVE  OrderSpec => ImplementsOneTimeCredit
<1>1. OrderInit => Promise!Init
  BY DEF OrderInit, Promise!Init
<1>2. OrderInv /\ [OrderNext]_orderVars => [Promise!Next]_<<order, credits>>
  BY OrderStepIsPromised
<1> QED
  BY <1>1, <1>2, OrderInvariant, PTL DEF OrderSpec, ImplementsOneTimeCredit, Promise!Spec
=============================================================================
