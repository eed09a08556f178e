----------------------------- MODULE Redemption -----------------------------
(***************************************************************************)
(* One redemption code, the calls of Redeem (model/redemption.go) and an   *)
(* administrator who edits it (controller/redemption.go).                  *)
(*                                                                         *)
(* Redeem asks for a row lock with Set("gorm:query_option", "FOR UPDATE"), *)
(* a setting that gorm.io/gorm, the version in go.mod, does not read; the  *)
(* lock exists as clause.Locking, which model/gateway_resources.go uses.   *)
(* So the read does not wait for another transaction. On MySQL and         *)
(* PostgreSQL both transactions write and commit one after the other; on   *)
(* SQLite a transaction that has read before another one wrote is refused. *)
(***************************************************************************)
EXTENDS Naturals

CONSTANTS
  Redeemers,        (* the calls of Redeem *)
  Scenarios         (* which of AllScenarios the behaviours are in *)

(* sqlite and server: the database, without an administrator; edits: SQLite,
   and the administrator renames or disables the code. *)
AllScenarios == {"sqlite", "server", "edits"}

ASSUME RedemptionAssumption == Scenarios \subseteq AllScenarios

VARIABLES
  scenario,
  coupon,           (* redemptions.status *)
  writes,           (* how often the row was written: SQLite's conflict test *)
  redeem,           (* per call: where it is *)
  couponSeen,       (* per call: the status and the writes it has read *)
  given, shared,    (* history: credits of the code, rewards of inviters *)
  editor,           (* the administrator: "idle", "editing", "done" *)
  draft             (* the status in the copy that is being edited *)

redemptionVars ==
  <<scenario, coupon, writes, redeem, couponSeen, given, shared, editor, draft>>

CouponStates == {"enabled", "used", "disabled"}

RedemptionInit ==
  /\ scenario \in Scenarios
  /\ coupon = "enabled" /\ writes = 0
  /\ redeem = [u \in Redeemers |-> "new"]
  /\ couponSeen = [u \in Redeemers |-> [status |-> coupon, writes |-> 0]]
  /\ given = 0 /\ shared = 0
  /\ editor = "idle" /\ draft = coupon

RedeemAt(u, label) == redeem[u] = label
RedeemGoes(u, label) == redeem' = [redeem EXCEPT ![u] = label]

(* First, with the lock that is not taken. *)
ReadCoupon(u) ==
  /\ RedeemAt(u, "new")
  /\ couponSeen' = [couponSeen EXCEPT ![u] = [status |-> coupon, writes |-> writes]]
  /\ RedeemGoes(u, "check")
  /\ UNCHANGED <<scenario, coupon, writes, given, shared, editor, draft>>

CouponRefused(u) ==
  /\ RedeemAt(u, "check")
  /\ couponSeen[u].status # "enabled"
  /\ RedeemGoes(u, "done")
  /\ UNCHANGED <<scenario, coupon, writes, couponSeen, given, shared, editor, draft>>

(* Mutant: the last statement is not checked for its error. *)
MayWriteAlways(u) == TRUE

(* SQLite does not let a transaction write what was written since it read. *)
MayWrite(u) == scenario = "server" \/ couponSeen[u].writes = writes

(* The quota of the user and the row of the code are updated and committed. *)
CommitRedeem(u) ==
  /\ RedeemAt(u, "check")
  /\ couponSeen[u].status = "enabled" /\ MayWrite(u)
  /\ given' = given + 1
  /\ coupon' = "used" /\ writes' = writes + 1
  /\ RedeemGoes(u, "follow")
  /\ UNCHANGED <<scenario, couponSeen, shared, editor, draft>>

(* A statement fails or conflicts: the transaction is rolled back. *)
RollbackRedeem(u) ==
  /\ RedeemAt(u, "check")
  /\ couponSeen[u].status = "enabled"
  /\ RedeemGoes(u, "done")
  /\ UNCHANGED <<scenario, coupon, writes, couponSeen, given, shared, editor, draft>>

(* After the transaction: the group, the log, the reward of the inviter. *)
FollowUp(u) ==
  /\ RedeemAt(u, "follow")
  /\ shared' \in {shared, shared + 1}
  /\ RedeemGoes(u, "done")
  /\ UNCHANGED <<scenario, coupon, writes, couponSeen, given, editor, draft>>

(* UpdateRedemption reads the row, changes a copy and writes name, status,
   quota and time of the copy: the status as it was, or the one asked for. *)
EditBegins ==
  /\ scenario = "edits" /\ editor = "idle"
  /\ editor' = "editing"
  /\ draft' \in {coupon, "disabled"}
  /\ UNCHANGED <<scenario, coupon, writes, redeem, couponSeen, given, shared>>

EditEnds ==
  /\ editor = "editing" /\ editor' = "done"
  /\ coupon' = draft /\ writes' = writes + 1
  /\ UNCHANGED <<scenario, redeem, couponSeen, given, shared, draft>>

RedeemStep(u) ==
  ReadCoupon(u) \/ CouponRefused(u) \/ CommitRedeem(u) \/ RollbackRedeem(u) \/ FollowUp(u)

RedemptionNext == (\E u \in Redeemers : RedeemStep(u)) \/ EditBegins \/ EditEnds

RedemptionSpec == RedemptionInit /\ [][RedemptionNext]_redemptionVars

-----------------------------------------------------------------------------
(* Properties. *)

RedemptionTypeOK ==
  /\ scenario \in Scenarios
  /\ coupon \in CouponStates /\ draft \in CouponStates
  /\ writes \in Nat /\ given \in Nat /\ shared \in Nat
  /\ redeem \in [Redeemers -> {"new", "check", "follow", "done"}]
  /\ couponSeen \in [Redeemers -> [status : CouponStates, writes : Nat]]
  /\ editor \in {"idle", "editing", "done"}

(* On SQLite a code credits one user once, however its calls interleave; an
   edit can bring it back at most once, and an inviter is not rewarded for a
   redemption that was rolled back (model/redemption.go, Redeem). *)
RedeemedOnce ==
  /\ scenario = "sqlite" => given <= 1
  /\ scenario = "edits" => given <= 2
  /\ shared <= given

=============================================================================
