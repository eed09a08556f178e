--------------------------- MODULE RechargeOrder ---------------------------
(***************************************************************************)
(* One recharge order and the notifications of its payment:                *)
(* controller/order.go with its lock table, model/order.go, the credit of  *)
(* model/user.go and the reward of the inviter.                            *)
(*                                                                         *)
(* All notifications of one payment carry the same gateway number, so they *)
(* use one key of the lock table. A behaviour has at most one kind of      *)
(* trouble, chosen at its start.                                           *)
(***************************************************************************)
EXTENDS KeyedLocks

CONSTANTS
  Notices,          (* the notifications of the payment, each one callback *)
  Route,            (* "payment" for PaymentCallback, "epay" for EpayCallback *)
  Troubles          (* which of AllTroubles happen *)

(* database: single statements fail; clock: an entry of the lock table grows
   old; crash: the process ends once and is started again. *)
AllTroubles == {"none", "database", "clock", "crash"}

ASSUME OrderAssumption ==
  /\ Route \in {"payment", "epay"}
  /\ Troubles \subseteq AllTroubles
  /\ NoHolder \notin Notices

VARIABLES
  order,            (* orders.status *)
  credits, rewards, (* history: how often the user and the inviter were paid *)
  orderLocks,       (* the entry of the payment in orderLocks *)
  callback,         (* per notification: where its callback is *)
  lock, seen,       (* the lock it was given, the status it has read *)
  trouble           (* "over" once the crash has happened *)

orderVars == <<order, credits, rewards, orderLocks, callback, lock, seen, trouble>>

Statuses == {"pending", "success", "closed"}
CallbackLabels ==
  {"new", "obtain", "lock", "read", "save", "credit", "reward", "unlock", "done"}

OrderInit ==
  /\ order = "pending" /\ credits = 0 /\ rewards = 0
  /\ orderLocks = NoLocks
  /\ callback = [n \in Notices |-> "new"]
  /\ lock = [n \in Notices |-> 1]
  /\ seen = [n \in Notices |-> "pending"]
  /\ trouble \in Troubles

CallbackAt(n, label) == callback[n] = label
CallbackGoes(n, label) == callback' = [callback EXCEPT ![n] = label]
Inside(n) == callback[n] \notin {"new", "done"}
DatabaseFails == trouble = "database"

-----------------------------------------------------------------------------
(* The callback, statement by statement. *)

(* EpayCallback reads the order by its number before it knows the gateway's
   number; PaymentCallback only verifies the notification. *)
Arrive(n) ==
  /\ CallbackAt(n, "new")
  /\ CallbackGoes(n, "obtain")
  /\ seen' = IF Route = "epay" THEN [seen EXCEPT ![n] = order] ELSE seen
  /\ UNCHANGED <<order, credits, rewards, orderLocks, lock, trouble>>

(* An unknown payment, a bad signature, or the order cannot be read: nothing
   has been locked yet. *)
Refused(n) ==
  /\ CallbackAt(n, "new")
  /\ DatabaseFails
  /\ CallbackGoes(n, "done")
  /\ UNCHANGED <<order, credits, rewards, orderLocks, lock, seen, trouble>>

(* LockOrder up to Lock. *)
ObtainLock(n) ==
  /\ CallbackAt(n, "obtain")
  /\ MayObtain(orderLocks)
  /\ orderLocks' = Obtained(orderLocks)
  /\ lock' = [lock EXCEPT ![n] = orderLocks'.entry]
  /\ CallbackGoes(n, "lock")
  /\ UNCHANGED <<order, credits, rewards, seen, trouble>>

TakeLock(n) ==
  /\ CallbackAt(n, "lock")
  /\ IsFree(orderLocks, lock[n])
  /\ orderLocks' = Locked(orderLocks, lock[n], n)
  /\ CallbackGoes(n, IF Route = "epay" THEN "save" ELSE "read")
  /\ UNCHANGED <<order, credits, rewards, lock, seen, trouble>>

(* GetOrderByTradeNo. *)
ReadOrder(n) ==
  /\ CallbackAt(n, "read")
  /\ seen' = [seen EXCEPT ![n] = order]
  /\ CallbackGoes(n, "save")
  /\ UNCHANGED <<order, credits, rewards, orderLocks, lock, trouble>>

(* The order cannot be read, saved or credited: the callback returns. *)
StatementFails(n) ==
  /\ DatabaseFails
  /\ callback[n] \in {"read", "save", "credit"}
  /\ CallbackAt(n, "save") => seen[n] = "pending"
  /\ CallbackGoes(n, "unlock")
  /\ UNCHANGED <<order, credits, rewards, orderLocks, lock, seen, trouble>>

AlreadyDone(n) ==
  /\ CallbackAt(n, "save")
  /\ seen[n] # "pending"
  /\ CallbackGoes(n, "unlock")
  /\ UNCHANGED <<order, credits, rewards, orderLocks, lock, seen, trouble>>

(* Mutant: the order is saved after the credit. *)
SaveOrderLate(n) ==
  /\ CallbackAt(n, "save")
  /\ seen[n] = "pending"
  /\ CallbackGoes(n, "credit")
  /\ UNCHANGED <<order, credits, rewards, orderLocks, lock, seen, trouble>>

(* Save writes the whole row, whatever its status is by now. *)
SaveOrder(n) ==
  /\ CallbackAt(n, "save")
  /\ seen[n] = "pending"
  /\ order' = "success"
  /\ CallbackGoes(n, "credit")
  /\ UNCHANGED <<credits, rewards, orderLocks, lock, seen, trouble>>

(* Mutant: an order that is already paid is taken for a repetition. *)
CreditUserUnpaid(n) ==
  /\ CallbackAt(n, "credit")
  /\ credits' = IF order = "success" THEN credits ELSE credits + 1
  /\ CallbackGoes(n, "reward")
  /\ UNCHANGED <<order, rewards, orderLocks, lock, seen, trouble>>

(* IncreaseUserQuota. *)
CreditUser(n) ==
  /\ CallbackAt(n, "credit")
  /\ credits' = credits + 1
  /\ CallbackGoes(n, "reward")
  /\ UNCHANGED <<order, rewards, orderLocks, lock, seen, trouble>>

(* ProcessInviterReward, which may find no inviter or fail; either way the
   callback goes on. *)
RewardInviter(n) ==
  /\ CallbackAt(n, "reward")
  /\ rewards' \in {rewards, rewards + 1}
  /\ CallbackGoes(n, "unlock")
  /\ UNCHANGED <<order, credits, orderLocks, lock, seen, trouble>>

(* A process that ends takes its callbacks and locks with it. *)
ProcessEnds ==
  /\ callback' = [n \in Notices |-> IF Inside(n) THEN "done" ELSE callback[n]]
  /\ orderLocks' = NoLocks

(* The deferred UnlockOrder. *)
Release(n) ==
  /\ CallbackAt(n, "unlock")
  /\ IF UnlockIsFatal(orderLocks)
     THEN ProcessEnds
     ELSE orderLocks' = Unlocked(orderLocks) /\ CallbackGoes(n, "done")
  /\ UNCHANGED <<order, credits, rewards, lock, seen, trouble>>

-----------------------------------------------------------------------------
(* The environment. *)

(* CloseUnfinishedOrder, started by any CreateOrder; 3 hours may be over at
   any time. *)
CloseUnfinished ==
  /\ order = "pending"
  /\ order' = "closed"
  /\ UNCHANGED <<credits, rewards, orderLocks, callback, lock, seen, trouble>>

(* No callback lasts 30 minutes. *)
EntryAges ==
  /\ trouble = "clock"
  /\ orderLocks.entry # 0 /\ ~orderLocks.old
  /\ \A n \in Notices : ~Inside(n)
  /\ orderLocks' = Aged(orderLocks)
  /\ UNCHANGED <<order, credits, rewards, callback, lock, seen, trouble>>

CleanupJudges ==
  /\ orderLocks.old /\ ~orderLocks.judged
  /\ orderLocks' = Judged(orderLocks)
  /\ UNCHANGED <<order, credits, rewards, callback, lock, seen, trouble>>

CleanupDeletes ==
  /\ orderLocks.judged
  /\ orderLocks' = Deleted(orderLocks)
  /\ UNCHANGED <<order, credits, rewards, callback, lock, seen, trouble>>

Crash ==
  /\ trouble = "crash"
  /\ trouble' = "over"
  /\ ProcessEnds
  /\ UNCHANGED <<order, credits, rewards, lock, seen>>

CallbackStep(n) ==
  \/ ObtainLock(n) \/ TakeLock(n) \/ ReadOrder(n) \/ StatementFails(n)
  \/ AlreadyDone(n) \/ SaveOrder(n) \/ CreditUser(n) \/ RewardInviter(n)
  \/ Release(n)

OrderNext ==
  \/ \E n \in Notices : Arrive(n) \/ Refused(n) \/ CallbackStep(n)
  \/ CloseUnfinished \/ EntryAges \/ CleanupJudges \/ CleanupDeletes \/ Crash

OrderSpec == OrderInit /\ [][OrderNext]_orderVars

(* A callback's goroutine is scheduled and its statements return; a waiter gets
   a mutex that is released again and again (sync.Mutex hands a lock over to a
   waiter it has starved). *)
OrderFairness ==
  \A n \in Notices :
    /\ WF_orderVars(CallbackStep(n))
    /\ SF_orderVars(TakeLock(n))

-----------------------------------------------------------------------------
(* Properties. *)

OrderTypeOK ==
  /\ order \in Statuses
  /\ credits \in Nat /\ rewards \in Nat
  /\ orderLocks \in Tables(Notices)
  /\ callback \in [Notices -> CallbackLabels]
  /\ lock \in [Notices -> Locks]
  /\ seen \in [Notices -> Statuses]
  /\ trouble \in AllTroubles \cup {"over"}

(* However many notifications of a payment arrive, and whichever of their
   statements fail, the user is credited at most once and the inviter is not
   rewarded more often than that (controller/order.go, PaymentCallback and
   EpayCallback). *)
CreditedOnce == credits <= 1 /\ rewards <= credits

(* An order that was saved as paid is credited in the end, unless a statement
   fails or the process ends in between: then the order stays paid and
   uncredited, since a repeated notification finds it paid. *)
PaidIsCredited ==
  order = "success" ~> credits > 0 \/ trouble \in {"database", "over"}

(* A callback that waits gets its turn and ends, unless the cleanup has removed
   the lock it waits for from the table. *)
CallbackEnds ==
  \A n \in Notices :
    callback[n] = "obtain" ~>
      callback[n] = "done" \/ lock[n] # orderLocks.entry

(* The order with its callbacks keeps the promise of OneTimeCredit. *)
Promise == INSTANCE OneTimeCredit WITH status <- order, credited <- credits
ImplementsOneTimeCredit == Promise!Spec
=============================================================================
