--------------------------- MODULE RealtimeSession ---------------------------
(***************************************************************************)
(* Realtime sessions of one user: ChatRealtime (relay/realtime.go) with its *)
(* proxy (common/requester/ws_proxy.go). Two goroutines carry the messages, *)
(* one for each direction; a third settles the session when one of them has *)
(* closed; the handler waits for both. The provider's reports of usage are *)
(* counted against the user's quota as they come, in a counter that the    *)
(* user's sessions share (Quota.UpdateUserRealtimeQuota, model/cache.go).  *)
(* A report is one unit of quota.                                          *)
(***************************************************************************)
EXTENDS Integers, FiniteSets

CONSTANTS
  Sessions,
  QuotaAtStart,     (* the user's quota *)
  MaxReports,       (* bound: the reports of all sessions *)
  RedisEnabled,
  MaxTroubles       (* bound: what fails or expires *)

ASSUME RealtimeAssumption ==
  /\ IsFiniteSet(Sessions) /\ QuotaAtStart \in Nat /\ MaxReports \in Nat
  /\ RedisEnabled \in BOOLEAN /\ MaxTroubles \in Nat

VARIABLES
  user, supplier,   (* per session: where each transfer goroutine is *)
  used,             (* per session: relay.usage *)
  seen, cacheQuota, (* per session: what INCRBY returned; Quota.cacheQuota *)
  looked,           (* per session: the quota read from the database, to be cached *)
  settlement, bill, (* per session: the settling goroutine, what it has read *)
  refreshed,        (* per session: the quota it has read, to be cached *)
  (* shared: the realtime counter in Redis; the user's quota in the database,
     in the accumulator and in Redis. A quota is the sessions that have been
     charged to it; the copy in Redis is {} or {a quota}. *)
  counter, charged, queued, cache,
  batching,         (* config.BatchUpdateEnabled *)
  troubles,         (* commands and statements that failed, copies that expired *)
  (* history: the side that closed a session first; the reports of all sessions;
     the sessions that a report was let pass without; how many reports were
     counted to be billed, and as the how-manyth a session's last one was *)
  closedFirst, reports, overlooked, turns, turn

transferVars == <<user, supplier, used, seen, cacheQuota, looked, closedFirst>>
settlingVars == <<settlement, bill, refreshed>>
quotaVars == <<charged, queued, cache, batching>>
historyVars == <<reports, overlooked, turns, turn>>
realtimeVars == <<transferVars, settlingVars, counter, quotaVars, troubles, historyVars>>

RealtimeInit ==
  /\ user = [s \in Sessions |-> "reads"] /\ supplier = [s \in Sessions |-> "reads"]
  /\ used = [s \in Sessions |-> 0] /\ seen = [s \in Sessions |-> 0]
  /\ cacheQuota = [s \in Sessions |-> 0] /\ looked = [s \in Sessions |-> {}]
  /\ settlement = [s \in Sessions |-> "waits"] /\ bill = [s \in Sessions |-> 0]
  /\ refreshed = [s \in Sessions |-> {}]
  /\ counter = 0 /\ charged = {} /\ queued = {} /\ cache = {} /\ batching \in BOOLEAN
  /\ troubles \in 0..MaxTroubles
  /\ closedFirst = [s \in Sessions |-> "none"] /\ reports = 0 /\ overlooked = {}
  /\ turns = 0 /\ turn = [s \in Sessions |-> 0]

(* What sessions have been billed together, and the quota they leave. *)
Spent(C) == Cardinality(UNION {{s} \X (1..bill[s]) : s \in C})
Quota(C) == QuotaAtStart - Spent(C)

Settled == {s \in Sessions : settlement[s] = "done"}

(* wsProxy.Close has been called. *)
Closed(s) == settlement[s] # "waits"

(* A step in which n commands or statements fail. *)
Troubled(n) == troubles + n <= MaxTroubles /\ troubles' = troubles + n

SupplierGoes(s, label) == supplier' = [supplier EXCEPT ![s] = label]
FirstClosed(s, side) ==
  closedFirst' = [closedFirst EXCEPT ![s] = IF @ = "none" THEN side ELSE @]
SupplierCloses(s) == SupplierGoes(s, "closed") /\ FirstClosed(s, "provider")

(* The message is passed on; on a closed connection that fails. *)
PassesOn(s) ==
  \/ SupplierCloses(s)
  \/ ~Closed(s) /\ SupplierGoes(s, "reads") /\ UNCHANGED closedFirst

OnlyMessages == UNCHANGED <<settlingVars, counter, quotaVars, historyVars>>

-----------------------------------------------------------------------------
(* transfer, from the user: messages without usage, until one fails or the
   read deadline passes. *)
UserEnds(s) ==
  /\ user[s] = "reads" /\ user' = [user EXCEPT ![s] = "closed"]
  /\ FirstClosed(s, "user")
  /\ UNCHANGED <<supplier, used, seen, cacheQuota, looked, troubles>> /\ OnlyMessages

(* transfer, from the provider. *)
SupplierEnds(s) ==
  /\ supplier[s] = "reads" /\ SupplierCloses(s)
  /\ UNCHANGED <<user, used, seen, cacheQuota, looked, troubles>> /\ OnlyMessages

(* A report (also one that is still buffered when the connection is closed)
   is merged. *)
Report(s) ==
  /\ supplier[s] = "reads" /\ reports < MaxReports /\ reports' = reports + 1
  /\ used' = [used EXCEPT ![s] = @ + 1]
  /\ IF RedisEnabled THEN SupplierGoes(s, "merged") /\ UNCHANGED closedFirst ELSE PassesOn(s)
  /\ UNCHANGED <<user, seen, cacheQuota, looked, troubles>>
  /\ UNCHANGED <<settlingVars, counter, quotaVars, overlooked, turns, turn>>

(* The settlement bills the report that is counted. *)
IsBilled(s) == ~Closed(s) \/ used[s] = bill[s]

(* CacheIncreaseUserRealtimeQuota *)
Count(s) ==
  /\ supplier[s] = "merged" /\ SupplierGoes(s, "counted")
  /\ counter' = counter + 1 /\ seen' = [seen EXCEPT ![s] = counter + 1]
  /\ IF IsBilled(s) THEN turns' = turns + 1 /\ turn' = [turn EXCEPT ![s] = turns + 1]
                    ELSE UNCHANGED <<turns, turn>>
  /\ UNCHANGED <<user, used, cacheQuota, looked, closedFirst, troubles>>
  /\ UNCHANGED <<settlingVars, quotaVars, reports, overlooked>>

CountFails(s) ==
  /\ supplier[s] = "merged" /\ SupplierCloses(s) /\ Troubled(1)
  /\ UNCHANGED <<user, used, seen, cacheQuota, looked>> /\ OnlyMessages

(* Mutant: only the last report is remembered. *)
RememberLast(s) ==
  /\ supplier[s] = "counted" /\ SupplierGoes(s, "checks")
  /\ cacheQuota' = [cacheQuota EXCEPT ![s] = 1]
  /\ UNCHANGED <<user, used, seen, looked, closedFirst, troubles>> /\ OnlyMessages

Remember(s) ==
  /\ supplier[s] = "counted" /\ SupplierGoes(s, "checks")
  /\ cacheQuota' = [cacheQuota EXCEPT ![s] = @ + 1]
  /\ UNCHANGED <<user, used, seen, looked, closedFirst, troubles>> /\ OnlyMessages

(* Mutant: the quota may be used up to the end and by one more. *)
CompareLate(s, C) ==
  /\ IF seen[s] > Quota(C)
     THEN SupplierCloses(s) /\ UNCHANGED overlooked
     ELSE PassesOn(s) /\ overlooked' = overlooked \cup (Settled \ C)
  /\ seen' = [seen EXCEPT ![s] = 0]

(* The comparison of what INCRBY returned with the quota. *)
Compare(s, C) ==
  /\ IF seen[s] >= Quota(C)
     THEN SupplierCloses(s) /\ UNCHANGED overlooked
     ELSE PassesOn(s) /\ overlooked' = overlooked \cup (Settled \ C)
  /\ seen' = [seen EXCEPT ![s] = 0]

(* CacheGetUserQuota: the copy in Redis, *)
Check(s) ==
  /\ supplier[s] = "checks" /\ \E C \in cache : Compare(s, C)
  /\ UNCHANGED <<user, used, cacheQuota, looked, troubles>>
  /\ UNCHANGED <<settlingVars, counter, quotaVars, reports, turns, turn>>

(* or the database, when there is no copy or Redis fails; *)
Missing == IF cache = {} THEN 0 ELSE 1

LookUp(s) ==
  /\ supplier[s] = "checks" /\ Troubled(Missing) /\ SupplierGoes(s, "fills")
  /\ looked' = [looked EXCEPT ![s] = charged]
  /\ UNCHANGED <<user, used, seen, cacheQuota, closedFirst>> /\ OnlyMessages

LookUpFails(s) ==
  /\ supplier[s] = "checks" /\ Troubled(Missing + 1) /\ SupplierCloses(s)
  /\ UNCHANGED <<user, used, seen, cacheQuota, looked>> /\ OnlyMessages

(* then the copy is set; that it fails is an error, too. *)
Fill(s) ==
  /\ supplier[s] = "fills" /\ cache' = {looked[s]} /\ Compare(s, looked[s])
  /\ looked' = [looked EXCEPT ![s] = {}]
  /\ UNCHANGED <<user, used, cacheQuota, troubles, settlingVars, counter, charged, queued>>
  /\ UNCHANGED <<batching, reports, turns, turn>>

FillFails(s) ==
  /\ supplier[s] = "fills" /\ SupplierCloses(s) /\ Troubled(1)
  /\ looked' = [looked EXCEPT ![s] = {}]
  /\ UNCHANGED <<user, used, seen, cacheQuota>> /\ OnlyMessages

-----------------------------------------------------------------------------
(* The settling goroutine. *)

SettlementGoes(s, from, to) ==
  settlement[s] = from /\ settlement' = [settlement EXCEPT ![s] = to]

(* CacheUpdateUserQuota follows, with Redis. *)
Refreshed == IF RedisEnabled THEN "refresh" ELSE "uncount"
DropCopy == \/ cache' = {} /\ Troubled(0)
            \/ UNCHANGED cache /\ Troubled(1)

(* PostConsumeTokenQuotaWithInfo: with batch updates the charges of the user
   and the token are recorded; without them the user's quota is updated and the
   copy dropped. (The session is still in the counter: it harms nobody to see
   the old copy in between.) *)
QueueCharge(s) ==
  /\ batching /\ SettlementGoes(s, "waits", Refreshed) /\ Troubled(0)
  /\ queued' = queued \cup {s} /\ UNCHANGED <<charged, cache>>

WriteCharge(s) ==
  /\ ~batching /\ SettlementGoes(s, "waits", Refreshed) /\ DropCopy
  /\ charged' = charged \cup {s} /\ UNCHANGED queued

ChargeFails(s) ==
  /\ ~batching /\ SettlementGoes(s, "waits", "uncount") /\ Troubled(1)
  /\ UNCHANGED <<charged, queued, cache>>

(* A session without usage charges nothing. *)
Bill(s, amount) ==
  /\ user[s] = "closed" \/ supplier[s] = "closed"
  /\ bill' = [bill EXCEPT ![s] = amount]
  /\ IF amount > 0
     THEN QueueCharge(s) \/ WriteCharge(s) \/ ChargeFails(s)
     ELSE /\ SettlementGoes(s, "waits", "uncount") /\ Troubled(0)
          /\ UNCHANGED <<charged, queued, cache>>
  /\ UNCHANGED <<transferVars, refreshed, counter, batching, historyVars>>

(* Mutant: only what has been counted is billed. *)
ChargeCounted(s) == Bill(s, cacheQuota[s])

(* UserClosed or SupplierClosed: both connections are closed, and relay.usage is
   read without waiting for the transfer that writes it. *)
Charge(s) == Bill(s, used[s])

(* The token is charged, and the quota read again for the copy; when either
   fails, that is all. *)
Reread(s) ==
  /\ SettlementGoes(s, "refresh", "set")
  /\ refreshed' = [refreshed EXCEPT ![s] = charged]
  /\ UNCHANGED <<transferVars, bill, counter, quotaVars, troubles, historyVars>>

RereadFails(s) ==
  /\ SettlementGoes(s, "refresh", "uncount") /\ Troubled(1)
  /\ UNCHANGED <<transferVars, bill, refreshed, counter, quotaVars, historyVars>>

Recopy(s) ==
  /\ SettlementGoes(s, "set", "uncount")
  /\ \/ cache' = {refreshed[s]} /\ Troubled(0)
     \/ UNCHANGED cache /\ Troubled(1)
  /\ refreshed' = [refreshed EXCEPT ![s] = {}]
  /\ UNCHANGED <<transferVars, bill, counter, charged, queued, batching, historyVars>>

(* In any case what the session has counted is taken from the counter; nobody
   hears of it when that fails. *)
Uncount(s) ==
  /\ SettlementGoes(s, "uncount", "done")
  /\ counter' = counter - cacheQuota[s]
  /\ UNCHANGED <<transferVars, bill, refreshed, quotaVars, troubles, historyVars>>

UncountFails(s) ==
  /\ cacheQuota[s] > 0 /\ SettlementGoes(s, "uncount", "kept") /\ Troubled(1)
  /\ UNCHANGED <<transferVars, bill, refreshed, counter, quotaVars, historyVars>>

-----------------------------------------------------------------------------
(* The batch updater writes what is recorded of the user and drops the copy;
   what it cannot write is lost (batchUpdate). *)
Flush ==
  /\ queued # {} /\ queued' = {}
  /\ charged' \in {charged \cup queued, charged} /\ DropCopy
  /\ UNCHANGED <<transferVars, settlingVars, counter, batching, historyVars>>

(* The copy lives for TokenCacheSeconds. *)
CopyExpires ==
  /\ cache # {} /\ cache' = {} /\ Troubled(1)
  /\ UNCHANGED <<transferVars, settlingVars, counter, charged, queued, batching, historyVars>>

-----------------------------------------------------------------------------
(* The handler waits for a transfer to end (what the other one sends into
   proxy.done nobody takes), then for the settlement, which waits for that too. *)
HandlerReturns(s) == settlement[s] \in {"done", "kept"}

SupplierStep(s) ==
  \/ Count(s) \/ CountFails(s) \/ Remember(s)
  \/ Check(s) \/ LookUp(s) \/ LookUpFails(s) \/ Fill(s) \/ FillFails(s)
SettlingStep(s) ==
  \/ Charge(s) \/ Reread(s) \/ RereadFails(s) \/ Recopy(s) \/ Uncount(s) \/ UncountFails(s)

RealtimeNext ==
  \/ \E s \in Sessions : \/ UserEnds(s) \/ SupplierEnds(s) \/ Report(s)
                        \/ SupplierStep(s) \/ SettlingStep(s)
  \/ Flush \/ CopyExpires

(* The goroutines go on; a read ends on a connection that is closed. No step
   can be taken for ever. *)
RealtimeProgress ==
  \E s \in Sessions :
    \/ SupplierStep(s) \/ SettlingStep(s)
    \/ Closed(s) /\ (UserEnds(s) \/ SupplierEnds(s) \/ Report(s))

RealtimeSpec ==
  RealtimeInit /\ [][RealtimeNext]_realtimeVars /\ WF_realtimeVars(RealtimeProgress)

-----------------------------------------------------------------------------
(* Properties. *)

(* With the counter a user's sessions together spend no more than the quota
   and one report each, whatever is settled meanwhile: a session is taken back
   from the counter only after it is charged. What the charge of a settled
   session was not to be seen in when a report was let pass, because it was
   still recorded, failed or was hidden by an older copy, is spent once more. *)
Overdraft == Cardinality(Sessions) + (IF QuotaAtStart = 0 THEN 0 ELSE QuotaAtStart - 1)
SpendingIsBounded == RedisEnabled => reports <= Overdraft + Spent(overlooked)

(* When all sessions have ended, the counter holds no more than the report that
   was on its way when a user closed the session; more would be missing from
   the user's quota for a day (completedQuotaConsumption reads cacheQuota while
   the transfer still writes it). *)
CounterIsGivenBack ==
  (\A s \in Sessions : supplier[s] = "closed" /\ settlement[s] = "done") =>
    counter \in 0..Cardinality({s \in Sessions : closedFirst[s] = "user"})

(* A settled session is billed all that was reported, unless its user closed
   it first: then at most the report that was on its way is lost. *)
ReportsAreBilled ==
  \A s \in Sessions : Closed(s) =>
    /\ bill[s] <= used[s] /\ used[s] <= bill[s] + 1
    /\ closedFirst[s] = "provider" => bill[s] = used[s]

(* When one side has closed, the other is closed, the session is settled and
   the handler returns. (What is over stays over.) *)
SessionIsOver(s) ==
  closedFirst[s] # "none" =>
    user[s] = "closed" /\ supplier[s] = "closed" /\ HandlerReturns(s)
SessionsEnd == []<>(\A s \in Sessions : SessionIsOver(s))
=============================================================================
