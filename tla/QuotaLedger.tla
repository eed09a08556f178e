----------------------------- MODULE QuotaLedger -----------------------------
(***************************************************************************)
(* The ledger behind the billing sessions: one user with one limited token *)
(* whose requests read, check and change users.quota and                   *)
(* tokens.remain_quota (relay_util/quota.go, model/user.go, token.go), the *)
(* Redis copy of the user's quota (model/cache.go), the accumulators of    *)
(* the batch updater (model/utils.go) and the order of a graceful shutdown *)
(* (main.go).                                                              *)
(*                                                                         *)
(* One statement to the database, one command to Redis and one critical    *)
(* section of a mutex are one step each.                                   *)
(***************************************************************************)
EXTENDS Integers

CONSTANTS
  Requests,
  Opening,             (* [Columns -> Int], the database at the start       *)
  Estimate,            (* Quota.estimatedQuota(), the same for all requests *)
  Costs,               (* what a request may cost; 0 is also its refund     *)
  TrustFactor,         (* 100 in PreQuotaConsumption                        *)
  Absent,              (* what Redis has for a key that is not there        *)
  BatchUpdateEnabled,
  RedisEnabled,
  WritesMayFail,       (* a batch write and its fallback can both fail      *)
  DrainMayTimeOut      (* requests can outlive shutdown_timeout             *)

(* users.quota and tokens.remain_quota, in the order batchUpdate writes. *)
Columns == {"quota", "remain"}

ASSUME ConstantsAssumption ==
  /\ Opening \in [Columns -> Int]
  /\ Estimate \in Nat \ {0}
  /\ Costs \subseteq Nat
  /\ TrustFactor \in Nat \ {0}
  /\ Absent \notin Int
  /\ BatchUpdateEnabled \in BOOLEAN
  /\ RedisEnabled \in BOOLEAN
  /\ WritesMayFail \in BOOLEAN
  /\ DrainMayTimeOut \in BOOLEAN

Writers == {"ticker", "main"}       (* the goroutines that run batchUpdate *)

VARIABLES
  (* the database, the Redis copy of users.quota, batchUpdateStores: no entry
     is a delta of 0 that nothing has been added to *)
  db, cache, stores, recorded,
  (* per request: where it is, the quota it has read, its reservation, its
     cost; history: what it has debited, per column *)
  pc, seen, held, cost, paid,
  (* per writer: where it is in batchUpdate, the column, the delta it has
     swapped out; history: deltas that could not be written *)
  stage, column, taken, lost,
  (* the shutdown in main.go; the ticker's goroutine runs; no request was
     left behind *)
  main, ticking, drained

dataVars == <<db, cache, stores, recorded>>
requestVars == <<pc, seen, held, cost, paid>>
writerVars == <<stage, column, taken, lost>>
mainVars == <<main, ticking, drained>>
vars == <<dataVars, requestVars, writerVars, mainVars>>

Zero == [c \in Columns |-> 0]

Init ==
  /\ db = Opening /\ cache = Absent
  /\ stores = Zero /\ recorded = {}
  /\ pc = [r \in Requests |-> "new"]
  /\ seen = [r \in Requests |-> 0]
  /\ held = [r \in Requests |-> 0]
  /\ cost = [r \in Requests |-> 0]
  /\ paid = [r \in Requests |-> Zero]
  /\ stage = [w \in Writers |-> "idle"]
  /\ column = [w \in Writers |-> "quota"]
  /\ taken = [w \in Writers |-> 0]
  /\ lost = Zero
  /\ main = "serving" /\ ticking = BatchUpdateEnabled /\ drained = TRUE

At(r, label) == main # "exited" /\ pc[r] = label
Goto(r, label) == pc' = [pc EXCEPT ![r] = label]

-----------------------------------------------------------------------------
(* Helpers: how a request changes and copies the balances. *)

(* Mutant: a new record replaces the one that waits. *)
AddNewRecordReplaces(c, delta) ==
  /\ stores' = [stores EXCEPT ![c] = delta]
  /\ recorded' = recorded \cup {c}

(* addNewRecord. *)
AddNewRecord(c, delta) ==
  /\ stores' = [stores EXCEPT ![c] = @ + delta]
  /\ recorded' = recorded \cup {c}

(* DecreaseUserQuota and DecreaseTokenQuota; Increase... for amount < 0. *)
Debit(r, c, amount) ==
  /\ IF BatchUpdateEnabled
     THEN AddNewRecord(c, -amount) /\ UNCHANGED db
     ELSE db' = [db EXCEPT ![c] = @ - amount] /\ UNCHANGED <<stores, recorded>>
  /\ paid' = [paid EXCEPT ![r][c] = @ + amount]

(* decreaseUserQuota drops the cached quota after the update; in a batch, the
   writer does. *)
AfterUserDebit(drop, next) ==
  IF RedisEnabled /\ ~BatchUpdateEnabled THEN drop ELSE next

(* CacheUpdateUserQuota does nothing without Redis. *)
Refresh(read, next) == IF RedisEnabled THEN read ELSE next

(* PreQuotaConsumption, once it knows the user's quota. *)
Admission(quota) ==
  CASE quota > TrustFactor * Estimate -> "serve"
    [] quota < Estimate               -> "rejected"
    [] OTHER                          -> "checkToken"

-----------------------------------------------------------------------------
(* A request: PreQuotaConsumption. *)

(* CacheGetUserQuota: from Redis, or from the database, to be cached. A server
   that shuts down starts no request. *)
ReadQuota(r) ==
  /\ At(r, "new") /\ main = "serving"
  /\ seen' = [seen EXCEPT ![r] = IF cache = Absent THEN db["quota"] ELSE cache]
  /\ Goto(r, IF RedisEnabled /\ cache = Absent THEN "fill" ELSE Admission(seen'[r]))
  /\ UNCHANGED <<dataVars, held, cost, paid, writerVars, mainVars>>

FillCache(r) ==
  /\ At(r, "fill")
  /\ cache' = seen[r]
  /\ Goto(r, Admission(seen[r]))
  /\ UNCHANGED <<db, stores, recorded, seen, held, cost, paid, writerVars, mainVars>>

(* PreConsumeTokenQuota reads the token, then the user, from the database. *)
CheckToken(r) ==
  /\ At(r, "checkToken")
  /\ Goto(r, IF db["remain"] < Estimate THEN "rejected" ELSE "checkUser")
  /\ UNCHANGED <<dataVars, seen, held, cost, paid, writerVars, mainVars>>

CheckUser(r) ==
  /\ At(r, "checkUser")
  /\ Goto(r, IF db["quota"] < Estimate THEN "rejected" ELSE "holdToken")
  /\ UNCHANGED <<dataVars, seen, held, cost, paid, writerVars, mainVars>>

(* Mutant: the reservation is remembered, but the token not debited. *)
HoldTokenUnpaid(r) ==
  /\ At(r, "holdToken")
  /\ Goto(r, "holdUser")
  /\ UNCHANGED <<dataVars, seen, held, cost, paid, writerVars, mainVars>>

HoldToken(r) ==
  /\ At(r, "holdToken")
  /\ Debit(r, "remain", Estimate)
  /\ Goto(r, "holdUser")
  /\ UNCHANGED <<cache, seen, held, cost, writerVars, mainVars>>

HoldUser(r) ==
  /\ At(r, "holdUser")
  /\ Debit(r, "quota", Estimate)
  /\ held' = [held EXCEPT ![r] = Estimate]
  /\ Goto(r, AfterUserDebit("holdDrop", Refresh("holdRead", "serve")))
  /\ UNCHANGED <<cache, seen, cost, writerVars, mainVars>>

-----------------------------------------------------------------------------
(* A request: the upstream is called, then completedQuotaConsumption or
   UndoWithContext. A cost equal to the reservation moves nothing. *)

Serve(r) ==
  /\ At(r, "serve")
  /\ \E amount \in Costs :
       /\ cost' = [cost EXCEPT ![r] = amount]
       /\ Goto(r, IF amount = held[r] THEN "done" ELSE "postUser")
  /\ UNCHANGED <<dataVars, seen, held, paid, writerVars, mainVars>>

(* PostConsumeTokenQuotaWithInfo: the user, then the token. *)
PostUser(r) ==
  /\ At(r, "postUser")
  /\ Debit(r, "quota", cost[r] - held[r])
  /\ Goto(r, AfterUserDebit("postDrop", "postToken"))
  /\ UNCHANGED <<cache, seen, held, cost, writerVars, mainVars>>

PostToken(r) ==
  /\ At(r, "postToken")
  /\ Debit(r, "remain", cost[r] - held[r])
  /\ Goto(r, Refresh("postRead", "done"))
  /\ UNCHANGED <<cache, seen, held, cost, writerVars, mainVars>>

(* The RedisDel that follows a direct update of users.quota. *)
DropCache(r) ==
  /\ \/ At(r, "holdDrop") /\ Goto(r, "holdRead")
     \/ At(r, "postDrop") /\ Goto(r, "postToken")
  /\ cache' = Absent
  /\ UNCHANGED <<db, stores, recorded, seen, held, cost, paid, writerVars, mainVars>>

(* CacheUpdateUserQuota: read the database, then set the copy. *)
RefreshRead(r) ==
  /\ \/ At(r, "holdRead") /\ Goto(r, "holdSet")
     \/ At(r, "postRead") /\ Goto(r, "postSet")
  /\ seen' = [seen EXCEPT ![r] = db["quota"]]
  /\ UNCHANGED <<dataVars, held, cost, paid, writerVars, mainVars>>

RefreshSet(r) ==
  /\ \/ At(r, "holdSet") /\ Goto(r, "serve")
     \/ At(r, "postSet") /\ Goto(r, "done")
  /\ cache' = seen[r]
  /\ UNCHANGED <<db, stores, recorded, seen, held, cost, paid, writerVars, mainVars>>

(* The copy lives for TokenCacheSeconds. *)
CacheExpires ==
  /\ main # "exited" /\ cache # Absent
  /\ cache' = Absent
  /\ UNCHANGED <<db, stores, recorded, requestVars, writerVars, mainVars>>

-----------------------------------------------------------------------------
(* The batch updater: batchUpdate, by the ticker or by FlushAllBatches. *)

(* Mutant: the loop ends after the first accumulator. *)
AdvanceEnds(w) ==
  stage' = [stage EXCEPT ![w] = "idle"] /\ UNCHANGED column

(* The loop over the accumulators goes on, or ends. *)
Advance(w) ==
  /\ stage' = [stage EXCEPT ![w] = IF column[w] = "quota" THEN "swap" ELSE "idle"]
  /\ column' = [column EXCEPT ![w] = IF @ = "quota" THEN "remain" ELSE "quota"]

Tick ==
  /\ ticking /\ main # "exited" /\ stage["ticker"] = "idle"
  /\ stage' = [stage EXCEPT !["ticker"] = "swap"]
  /\ UNCHANGED <<dataVars, requestVars, column, taken, lost, mainVars>>

(* Under the accumulator's lock: take what there is and leave an empty map. *)
Swap(w) ==
  /\ main # "exited" /\ stage[w] = "swap" /\ column[w] \in recorded
  /\ taken' = [taken EXCEPT ![w] = stores[column[w]]]
  /\ stores' = [stores EXCEPT ![column[w]] = 0]
  /\ recorded' = recorded \ {column[w]}
  /\ stage' = [stage EXCEPT ![w] = "write"]
  /\ UNCHANGED <<db, cache, requestVars, column, lost, mainVars>>

SwapNothing(w) ==
  /\ main # "exited" /\ stage[w] = "swap" /\ column[w] \notin recorded
  /\ Advance(w)
  /\ UNCHANGED <<dataVars, requestVars, taken, lost, mainVars>>

(* The copies of the user's quota are dropped whether or not it was written. *)
AfterWrite(w) ==
  /\ taken' = [taken EXCEPT ![w] = 0]
  /\ IF column[w] = "quota" /\ RedisEnabled
     THEN stage' = [stage EXCEPT ![w] = "drop"] /\ UNCHANGED column
     ELSE Advance(w)

Write(w) ==
  /\ main # "exited" /\ stage[w] = "write"
  /\ db' = [db EXCEPT ![column[w]] = @ + taken[w]]
  /\ AfterWrite(w)
  /\ UNCHANGED <<cache, stores, recorded, requestVars, lost, mainVars>>

(* The statement for all ids and the one for this id both fail. *)
WriteFails(w) ==
  /\ WritesMayFail /\ main # "exited" /\ stage[w] = "write"
  /\ lost' = [lost EXCEPT ![column[w]] = @ + taken[w]]
  /\ AfterWrite(w)
  /\ UNCHANGED <<dataVars, requestVars, mainVars>>

DropUserCache(w) ==
  /\ main # "exited" /\ stage[w] = "drop"
  /\ cache' = Absent
  /\ Advance(w)
  /\ UNCHANGED <<db, stores, recorded, requestVars, taken, lost, mainVars>>

-----------------------------------------------------------------------------
(* The shutdown: Shutdown, WaitTrackedGoroutines, StopBatchUpdater,
   FlushAllBatches. *)

Ended(r) == pc[r] \in {"new", "done", "rejected"}

Interrupted ==
  /\ main = "serving"
  /\ main' = "draining"
  /\ UNCHANGED <<dataVars, requestVars, writerVars, ticking, drained>>

StopsOrExits == main' = IF BatchUpdateEnabled THEN "stopping" ELSE "exited"

RequestsDrained ==
  /\ main = "draining" /\ \A r \in Requests : Ended(r)
  /\ StopsOrExits
  /\ UNCHANGED <<dataVars, requestVars, writerVars, ticking, drained>>

DrainTimesOut ==
  /\ DrainMayTimeOut /\ main = "draining" /\ \E r \in Requests : ~Ended(r)
  /\ StopsOrExits
  /\ drained' = FALSE
  /\ UNCHANGED <<dataVars, requestVars, writerVars, ticking>>

(* close(batchUpdaterStop), then wait for batchUpdaterDone. *)
StopBatchUpdater ==
  /\ main = "stopping"
  /\ main' = "joining"
  /\ UNCHANGED <<dataVars, requestVars, writerVars, ticking, drained>>

(* Mutant: the stop is looked at only when there is something to write. *)
TickerStopsBusy ==
  /\ ticking /\ main = "joining" /\ stage["ticker"] = "idle" /\ recorded # {}
  /\ ticking' = FALSE
  /\ UNCHANGED <<dataVars, requestVars, writerVars, main, drained>>

TickerStops ==
  /\ ticking /\ main = "joining" /\ stage["ticker"] = "idle"
  /\ ticking' = FALSE
  /\ UNCHANGED <<dataVars, requestVars, writerVars, main, drained>>

StartFlush ==
  /\ main' = "flushing"
  /\ stage' = [stage EXCEPT !["main"] = "swap"]
  /\ UNCHANGED <<dataVars, requestVars, column, taken, lost, ticking, drained>>

(* Mutant: the updater is told to stop, but not waited for. *)
FlushWithoutJoin == main = "joining" /\ StartFlush

FlushAllBatches == main = "joining" /\ ~ticking /\ StartFlush

Exit ==
  /\ main = "flushing" /\ stage["main"] = "idle"
  /\ main' = "exited"
  /\ UNCHANGED <<dataVars, requestVars, writerVars, ticking, drained>>

-----------------------------------------------------------------------------
Step(r) ==
  \/ ReadQuota(r) \/ FillCache(r) \/ CheckToken(r) \/ CheckUser(r)
  \/ HoldToken(r) \/ HoldUser(r) \/ Serve(r) \/ PostUser(r) \/ PostToken(r)
  \/ DropCache(r) \/ RefreshRead(r) \/ RefreshSet(r)

WriterStep(w) ==
  Swap(w) \/ SwapNothing(w) \/ Write(w) \/ WriteFails(w) \/ DropUserCache(w)

ShutdownStep ==
  RequestsDrained \/ StopBatchUpdater \/ FlushAllBatches \/ Exit

Next ==
  \/ \E r \in Requests : Step(r)
  \/ \E w \in Writers : WriterStep(w)
  \/ Tick \/ TickerStops \/ ShutdownStep
  \/ Interrupted \/ DrainTimesOut \/ CacheExpires

Spec == Init /\ [][Next]_vars

(* Requests that began and goroutines run, and the ticker ticks. A select with
   the stop and the tick both ready picks either: not always the tick. *)
Fairness ==
  /\ \A r \in Requests : WF_vars(pc[r] # "new" /\ Step(r))
  /\ \A w \in Writers : WF_vars(WriterStep(w))
  /\ WF_vars(Tick) /\ SF_vars(TickerStops) /\ WF_vars(ShutdownStep)

FairSpec == Spec /\ Fairness

-----------------------------------------------------------------------------
(* Properties. *)

Labels ==
  { "new", "fill", "checkToken", "checkUser", "holdToken", "holdUser",
    "holdDrop", "holdRead", "holdSet", "serve", "postUser", "postDrop",
    "postToken", "postRead", "postSet", "done", "rejected" }

TypeOK ==
  /\ db \in [Columns -> Int] /\ stores \in [Columns -> Int]
  /\ cache \in Int \cup {Absent}
  /\ recorded \subseteq Columns
  /\ pc \in [Requests -> Labels]
  /\ seen \in [Requests -> Int]
  /\ held \in [Requests -> {0, Estimate}]
  /\ cost \in [Requests -> Costs \cup {0}]
  /\ paid \in [Requests -> [Columns -> Int]]
  /\ stage \in [Writers -> {"idle", "swap", "write", "drop"}]
  /\ column \in [Writers -> Columns]
  /\ taken \in [Writers -> Int]
  /\ lost \in [Columns -> Int]
  /\ main \in {"serving", "draining", "stopping", "joining", "flushing", "exited"}
  /\ ticking \in BOOLEAN /\ drained \in BOOLEAN

(* Where the balance of a column is: the database, the accumulator, what a
   writer has swapped out, and what could not be written. *)
InTransit(w, c) == IF stage[w] = "write" /\ column[w] = c THEN taken[w] ELSE 0

Effective ==
  [c \in Columns |-> db[c] + stores[c] + lost[c]
                       + InTransit("ticker", c) + InTransit("main", c)]

(* A reservation, a cost, or the rest of a cost after a reservation. *)
Payments ==
  {Estimate, 0} \cup Costs \cup {c - Estimate : c \in Costs \cup {0}}

Account == INSTANCE QuotaAccount
             WITH balance <- Effective, Amounts <- Payments

(* Batching is invisible: the swap, the writes, their failures and the flush
   neither lose nor repeat a payment (utils.go addNewRecord, batchUpdate). *)
ImplementsAccount == Account!Spec

(* A finished request has paid its cost from both columns, however the
   reservation and the settlement split it, and a rejected one nothing
   (PreConsumeTokenQuota, PostConsumeTokenQuotaWithInfo). *)
PaidAlike ==
  \A r \in Requests, c \in Columns :
    /\ pc[r] = "done" => paid[r][c] = cost[r]
    /\ pc[r] = "rejected" => paid[r][c] = 0

(* A shutdown that did not leave requests behind leaves no payment behind in
   memory either (main.go 233-257, StopBatchUpdater, FlushAllBatches). *)
NothingLeftBehind ==
  main = "exited" /\ drained =>
    recorded = {} /\ \A w \in Writers : stage[w] = "idle"

(* What waits in an accumulator is swapped out in the end, unless a shutdown
   left requests behind (InitBatchUpdater). *)
EveryRecordIsTaken ==
  \A c \in Columns : c \in recorded ~> c \notin recorded \/ ~drained

(* A shutdown ends, although the stop races the ticker (StopBatchUpdater). *)
ShutdownEnds == main = "draining" ~> main = "exited"

=============================================================================
