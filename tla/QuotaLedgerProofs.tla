-------------------------- MODULE QuotaLedgerProofs --------------------------
(***************************************************************************)
(* Proofs about QuotaLedger for any set of requests, balances, estimate    *)
(* and costs, with and without accumulators, cache and failing writes.     *)
(***************************************************************************)
EXTENDS QuotaLedger, TLAPS

(* Every reachable state is well typed: the initial states are. *)
LEMMA TypeInit == Init => TypeOK
BY ConstantsAssumption
DEF Init, TypeOK, ConstantsAssumption, Columns, Writers, Labels, Zero

(* What a debit does to the data it may change. *)
LEMMA DebitTyped ==
  ASSUME TypeOK, NEW r \in Requests, NEW c \in Columns, NEW amount \in Int,
         Debit(r, c, amount)
  PROVE  /\ db' \in [Columns -> Int] /\ stores' \in [Columns -> Int]
         /\ recorded' \subseteq Columns
         /\ paid' \in [Requests -> [Columns -> Int]]
BY DEF TypeOK, Debit, AddNewRecord

(* What is still due of a cost is a number. *)
LEMMA DueIsInt ==
  ASSUME TypeOK, NEW r \in Requests
  PROVE  cost[r] \in Int /\ held[r] \in Int /\ cost[r] - held[r] \in Int
<1>1. cost[r] \in Int
  <2>1. Costs \subseteq Nat
    BY ConstantsAssumption DEF ConstantsAssumption
  <2>2. cost[r] \in Costs \/ cost[r] = 0
    BY DEF TypeOK
  <2>3. CASE cost[r] \in Costs
    <3>1. cost[r] \in Nat
      BY <2>1, <2>3
    <3> QED BY <3>1
  <2> QED BY <2>2, <2>3
<1>2. held[r] \in Int
  <2>1. held[r] \in {0, Estimate}
    BY DEF TypeOK
  <2> QED BY <2>1, ConstantsAssumption DEF ConstantsAssumption
<1> QED BY <1>1, <1>2

(* What becomes of a writer after a write. *)
LEMMA AfterWriteTyped ==
  ASSUME TypeOK, NEW w \in Writers, AfterWrite(w)
  PROVE  /\ stage' \in [Writers -> {"idle", "swap", "write", "drop"}]
         /\ column' \in [Writers -> Columns]
         /\ taken' \in [Writers -> Int]
<1>1. taken' \in [Writers -> Int]
  BY DEF TypeOK, AfterWrite
<1>2. CASE column[w] = "quota" /\ RedisEnabled
  BY <1>1, <1>2 DEF TypeOK, AfterWrite
<1>3. CASE ~(column[w] = "quota" /\ RedisEnabled)
  <2>1. Advance(w)
    BY <1>3 DEF AfterWrite
  <2> QED BY <1>1, <2>1 DEF TypeOK, Advance, Columns
<1> QED BY <1>2, <1>3

(* The types are kept by every step. *)
LEMMA TypeStep == TypeOK /\ [Next]_vars => TypeOK'
<1> SUFFICES ASSUME TypeOK, [Next]_vars PROVE TypeOK'
  OBVIOUS
<1> USE DEF At, Goto
<1>1. ASSUME NEW r \in Requests, Step(r) PROVE TypeOK'
  <2>1. CASE ReadQuota(r)
    <3>1. seen' \in [Requests -> Int]
      BY <2>1 DEF ReadQuota, TypeOK, Columns
    <3>2. pc' \in [Requests -> Labels]
      BY <2>1 DEF ReadQuota, TypeOK, Labels, Admission
    <3> QED BY <2>1, <3>1, <3>2 DEF ReadQuota, TypeOK, dataVars, writerVars, mainVars
  <2>2. CASE FillCache(r)
    <3>1. pc' \in [Requests -> Labels]
      BY <2>2 DEF FillCache, TypeOK, Labels, Admission
    <3> QED BY <2>2, <3>1 DEF FillCache, TypeOK, writerVars, mainVars
  <2>3. CASE CheckToken(r) \/ CheckUser(r)
    BY <2>3
    DEF CheckToken, CheckUser, TypeOK, Labels, dataVars, writerVars, mainVars
  <2>4. CASE HoldToken(r)
    <3>1. Estimate \in Int /\ "remain" \in Columns
      BY ConstantsAssumption DEF ConstantsAssumption, Columns
    <3> QED BY <2>4, <3>1, DebitTyped
            DEF HoldToken, TypeOK, Labels, writerVars, mainVars
  <2>5. CASE HoldUser(r)
    <3>1. Estimate \in Int /\ "quota" \in Columns
      BY ConstantsAssumption DEF ConstantsAssumption, Columns
    <3>2. pc' \in [Requests -> Labels]
      BY <2>5 DEF HoldUser, TypeOK, Labels, AfterUserDebit, Refresh
    <3> QED BY <2>5, <3>1, <3>2, DebitTyped
            DEF HoldUser, TypeOK, writerVars, mainVars
  <2>6. CASE Serve(r)
    BY <2>6 DEF Serve, TypeOK, Labels, dataVars, writerVars, mainVars
  <2>7. CASE PostUser(r)
    <3>1. cost[r] - held[r] \in Int /\ "quota" \in Columns
      BY DueIsInt DEF Columns
    <3>2. pc' \in [Requests -> Labels]
      BY <2>7 DEF PostUser, TypeOK, Labels, AfterUserDebit
    <3> QED BY <2>7, <3>1, <3>2, DebitTyped
            DEF PostUser, TypeOK, writerVars, mainVars
  <2>8. CASE PostToken(r)
    <3>1. cost[r] - held[r] \in Int /\ "remain" \in Columns
      BY DueIsInt DEF Columns
    <3>2. pc' \in [Requests -> Labels]
      BY <2>8 DEF PostToken, TypeOK, Labels, Refresh
    <3> QED BY <2>8, <3>1, <3>2, DebitTyped
            DEF PostToken, TypeOK, writerVars, mainVars
  <2>9. CASE DropCache(r) \/ RefreshSet(r)
    BY <2>9 DEF DropCache, RefreshSet, TypeOK, Labels, writerVars, mainVars
  <2>10. CASE RefreshRead(r)
    BY <2>10
    DEF RefreshRead, TypeOK, Labels, Columns, dataVars, writerVars, mainVars
  <2> QED BY <1>1, <2>1, <2>2, <2>3, <2>4, <2>5, <2>6, <2>7, <2>8, <2>9, <2>10
          DEF Step
<1>2. ASSUME NEW w \in Writers, WriterStep(w) PROVE TypeOK'
  <2>1. CASE Swap(w)
    BY <1>2, <2>1 DEF Swap, TypeOK, requestVars, mainVars
  <2>2. CASE SwapNothing(w)
    BY <1>2, <2>2 DEF SwapNothing, Advance, TypeOK, Columns, dataVars,
                      requestVars, mainVars
  <2>3. CASE Write(w)
    <3>1. db' \in [Columns -> Int]
      BY <1>2, <2>3 DEF Write, TypeOK
    <3> QED BY <1>2, <2>3, <3>1, AfterWriteTyped
            DEF Write, TypeOK, requestVars, mainVars
  <2>4. CASE WriteFails(w)
    <3>1. lost' \in [Columns -> Int]
      BY <1>2, <2>4 DEF WriteFails, TypeOK
    <3> QED BY <1>2, <2>4, <3>1, AfterWriteTyped
            DEF WriteFails, TypeOK, dataVars, requestVars, mainVars
  <2>5. CASE DropUserCache(w)
    BY <1>2, <2>5 DEF DropUserCache, Advance, TypeOK, Columns, requestVars,
                      mainVars
  <2> QED BY <1>2, <2>1, <2>2, <2>3, <2>4, <2>5 DEF WriterStep
<1>3. CASE Tick \/ TickerStops
  BY <1>3 DEF Tick, TickerStops, TypeOK, Writers, dataVars, requestVars,
              writerVars, mainVars
<1>4. CASE ShutdownStep
  BY <1>4 DEF ShutdownStep, RequestsDrained, StopsOrExits, StopBatchUpdater,
              FlushAllBatches, StartFlush, Exit, TypeOK, Writers, dataVars,
              requestVars, writerVars
<1>5. CASE Interrupted \/ DrainTimesOut \/ CacheExpires
  BY <1>5 DEF Interrupted, DrainTimesOut, StopsOrExits, CacheExpires, TypeOK,
              dataVars, requestVars, writerVars, mainVars
<1>6. CASE UNCHANGED vars
  BY <1>6 DEF TypeOK, vars, dataVars, requestVars, writerVars, mainVars
<1> QED BY <1>1, <1>2, <1>3, <1>4, <1>5, <1>6 DEF Next

(* The types of QuotaLedger hold in every reachable state. *)
THEOREM TypeCorrect == Spec => []TypeOK
<1> QED BY TypeInit, TypeStep, PTL DEF Spec

-----------------------------------------------------------------------------
(* A finished request has paid its cost. PaidAlike is not inductive: what a
   request has paid on the way depends on where it is. *)

(* The reservation is taken from the token first, the rest of the cost from
   the user first; in between, what is paid and what is held agree. *)
PaidSoFar(r) ==
  LET quota == paid[r]["quota"]
      remain == paid[r]["remain"]
  IN /\ pc[r] \in {"new", "fill", "checkToken", "checkUser", "holdToken", "rejected"}
          => held[r] = 0 /\ quota = 0 /\ remain = 0
     /\ pc[r] = "holdUser" => held[r] = 0 /\ quota = 0 /\ remain = Estimate
     /\ pc[r] \in {"holdDrop", "holdRead", "holdSet", "serve", "postUser"}
          => quota = held[r] /\ remain = held[r]
     /\ pc[r] \in {"postDrop", "postToken"} => quota = cost[r] /\ remain = held[r]
     /\ pc[r] \in {"postRead", "postSet", "done"}
          => quota = cost[r] /\ remain = cost[r]

PaidInv == TypeOK /\ \A r \in Requests : PaidSoFar(r)

(* A debit adds its amount to what its request has paid from its column. *)
LEMMA DebitPays ==
  ASSUME TypeOK, NEW r \in Requests, NEW c \in Columns, NEW amount \in Int,
         Debit(r, c, amount)
  PROVE  /\ paid'[r][c] = paid[r][c] + amount
         /\ \A d \in Columns \ {c} : paid'[r][d] = paid[r][d]
         /\ \A q \in Requests \ {r} : paid'[q] = paid[q]
BY DEF Debit, TypeOK

(* A step of one request leaves the others where they are. *)
LEMMA OthersStay ==
  ASSUME TypeOK, NEW r \in Requests, Step(r), NEW q \in Requests \ {r}
  PROVE  /\ pc'[q] = pc[q] /\ held'[q] = held[q] /\ cost'[q] = cost[q]
         /\ paid'[q] = paid[q]
<1> USE DEF At, Goto
<1>1. pc'[q] = pc[q]
  BY DEF Step, ReadQuota, FillCache, CheckToken, CheckUser, HoldToken, HoldUser,
         Serve, PostUser, PostToken, DropCache, RefreshRead, RefreshSet, TypeOK
<1>2. held'[q] = held[q] /\ cost'[q] = cost[q]
  BY DEF Step, ReadQuota, FillCache, CheckToken, CheckUser, HoldToken, HoldUser,
         Serve, PostUser, PostToken, DropCache, RefreshRead, RefreshSet, TypeOK
<1>3. paid'[q] = paid[q]
  BY DEF Step, ReadQuota, FillCache, CheckToken, CheckUser, HoldToken, HoldUser,
         Serve, PostUser, PostToken, DropCache, RefreshRead, RefreshSet, TypeOK,
         Debit
<1> QED BY <1>1, <1>2, <1>3

(* The request that steps has paid what its new place asks for. *)
LEMMA StepPaid ==
  ASSUME TypeOK, NEW r \in Requests, PaidSoFar(r), Step(r)
  PROVE  PaidSoFar(r)'
<1> USE DEF At, Goto, PaidSoFar
<1>0. Estimate \in Int /\ cost[r] - held[r] \in Int /\ Columns = {"quota", "remain"}
  BY DueIsInt, ConstantsAssumption DEF ConstantsAssumption, Columns
<1>1. CASE ReadQuota(r) \/ FillCache(r)
  BY <1>1 DEF ReadQuota, FillCache, Admission, TypeOK
<1>2. CASE CheckToken(r) \/ CheckUser(r)
  BY <1>2 DEF CheckToken, CheckUser, TypeOK
<1>3. CASE HoldToken(r)
  BY <1>0, <1>3, DebitPays DEF HoldToken, TypeOK
<1>4. CASE HoldUser(r)
  <2>1. pc'[r] \in {"holdDrop", "holdRead", "serve"} /\ held'[r] = Estimate
    BY <1>4 DEF HoldUser, AfterUserDebit, Refresh, TypeOK
  <2> QED BY <1>0, <1>4, <2>1, DebitPays DEF HoldUser, TypeOK
<1>5. CASE Serve(r)
  BY <1>5 DEF Serve, TypeOK
<1>6. CASE PostUser(r)
  <2>1. pc'[r] \in {"postDrop", "postToken"}
    BY <1>6 DEF PostUser, AfterUserDebit, TypeOK
  <2>2. held'[r] = held[r] /\ cost'[r] = cost[r]
    BY <1>6 DEF PostUser
  <2>3. /\ paid'[r]["quota"] = paid[r]["quota"] + (cost[r] - held[r])
        /\ paid'[r]["remain"] = paid[r]["remain"]
    BY <1>0, <1>6, DebitPays DEF PostUser
  <2>4. cost[r] \in Int /\ held[r] \in Int
    BY DueIsInt
  <2> QED BY <1>6, <2>1, <2>2, <2>3, <2>4 DEF PostUser
<1>7. CASE PostToken(r)
  <2>1. pc'[r] \in {"postRead", "done"}
    BY <1>7 DEF PostToken, Refresh, TypeOK
  <2> QED BY <1>0, <1>7, <2>1, DebitPays DEF PostToken, TypeOK
<1>8. CASE DropCache(r) \/ RefreshRead(r) \/ RefreshSet(r)
  BY <1>8 DEF DropCache, RefreshRead, RefreshSet, TypeOK
<1> QED BY <1>1, <1>2, <1>3, <1>4, <1>5, <1>6, <1>7, <1>8 DEF Step

(* PaidInv is inductive. *)
LEMMA PaidStep == PaidInv /\ [Next]_vars => PaidInv'
<1> SUFFICES ASSUME PaidInv, [Next]_vars PROVE PaidInv'
  OBVIOUS
<1>0. TypeOK /\ TypeOK'
  BY TypeStep DEF PaidInv
<1>1. ASSUME NEW r \in Requests, Step(r) PROVE PaidInv'
  <2>1. PaidSoFar(r)'
    BY <1>0, <1>1, StepPaid DEF PaidInv
  <2>2. ASSUME NEW q \in Requests \ {r} PROVE PaidSoFar(q)'
    <3>1. /\ pc'[q] = pc[q] /\ held'[q] = held[q] /\ cost'[q] = cost[q]
          /\ paid'[q] = paid[q]
      BY <1>0, <1>1, OthersStay
    <3>2. PaidSoFar(q)
      BY DEF PaidInv
    <3> QED BY <3>1, <3>2 DEF PaidSoFar
  <2> QED BY <1>0, <2>1, <2>2 DEF PaidInv
<1>2. CASE UNCHANGED requestVars
  BY <1>0, <1>2 DEF PaidInv, PaidSoFar, requestVars
<1>3. ASSUME NEW w \in Writers, WriterStep(w) PROVE UNCHANGED requestVars
  BY <1>3 DEF WriterStep, Swap, SwapNothing, Write, WriteFails, DropUserCache
<1>4. CASE Tick \/ TickerStops \/ ShutdownStep
  BY <1>4, <1>2 DEF Tick, TickerStops, ShutdownStep, RequestsDrained,
       StopBatchUpdater, FlushAllBatches, StartFlush, Exit
<1>5. CASE Interrupted \/ DrainTimesOut \/ CacheExpires
  BY <1>5, <1>2 DEF Interrupted, DrainTimesOut, CacheExpires
<1>6. CASE UNCHANGED vars
  BY <1>6, <1>2 DEF vars
<1> QED BY <1>1, <1>2, <1>3, <1>4, <1>5, <1>6 DEF Next

(* PaidAlike of QuotaLedger: a finished request has paid its cost from both
   columns, a rejected one nothing, whatever the estimate and the costs. *)
THEOREM PaidCorrect == Spec => []PaidAlike
<1>1. Init => PaidInv
  BY TypeInit DEF Init, PaidInv, PaidSoFar, Zero, Columns
<1>2. PaidInv => PaidAlike
  BY DEF PaidInv, PaidSoFar, PaidAlike, Columns
<1> QED BY <1>1, <1>2, PaidStep, PTL DEF Spec

-----------------------------------------------------------------------------
(* The writers and the shutdown. The two writers take turns: main's batchUpdate
   runs only after the ticker's goroutine has ended. *)

(* A writer at rest is before its first accumulator; main is at rest until it
   flushes and again when it exits, the ticker once it has stopped. *)
WritersInv ==
  /\ \A w \in Writers : stage[w] = "idle" => column[w] = "quota"
  /\ main # "flushing" => stage["main"] = "idle"
  /\ ~ticking => stage["ticker"] = "idle"
  /\ main \in {"flushing", "exited"} => ~ticking

(* Without the updater there is nothing to flush. *)
DirectInv ==
  ~BatchUpdateEnabled =>
    /\ recorded = {} /\ ~ticking
    /\ main \in {"serving", "draining", "exited"}

(* Once the requests are drained, none of them debits any more. *)
DrainedInv ==
  main \notin {"serving", "draining"} /\ drained => \A r \in Requests : Ended(r)

(* The flush empties the accumulators in turn. *)
FlushInv ==
  /\ main = "flushing" /\ drained =>
       /\ ~(stage["main"] = "swap" /\ column["main"] = "quota")
            => "quota" \notin recorded
       /\ ~(stage["main"] = "swap" \/ column["main"] = "quota")
            => "remain" \notin recorded
       /\ stage["main"] = "idle" => "remain" \notin recorded
  /\ main = "exited" /\ drained => recorded = {}

ShutdownInv == TypeOK /\ WritersInv /\ DirectInv /\ DrainedInv /\ FlushInv

(* A request only adds to the accumulators of a running updater; one that has
   ended does nothing, and none begins during a shutdown. *)
LEMMA RequestShutdown ==
  ASSUME ShutdownInv, NEW r \in Requests, Step(r)
  PROVE  /\ UNCHANGED <<stage, column, mainVars>>
         /\ main # "exited"
         /\ ~BatchUpdateEnabled => recorded' = recorded
         /\ main \notin {"serving", "draining"} => ~drained
<1> USE DEF At, Goto
<1>1. UNCHANGED writerVars /\ UNCHANGED mainVars /\ main # "exited"
  BY DEF Step, ReadQuota, FillCache, CheckToken, CheckUser, HoldToken, HoldUser,
         Serve, PostUser, PostToken, DropCache, RefreshRead, RefreshSet
<1>2. ~BatchUpdateEnabled => recorded' = recorded
  BY DEF Step, ReadQuota, FillCache, CheckToken, CheckUser, HoldToken, HoldUser,
         Serve, PostUser, PostToken, DropCache, RefreshRead, RefreshSet,
         Debit, dataVars
<1>3. pc[r] \notin {"new", "done", "rejected"} \/ main = "serving"
  BY DEF Step, ReadQuota, FillCache, CheckToken, CheckUser, HoldToken, HoldUser,
         Serve, PostUser, PostToken, DropCache, RefreshRead, RefreshSet
<1>4. main \notin {"serving", "draining"} => ~drained
  BY <1>3 DEF ShutdownInv, DrainedInv, Ended
<1> QED BY <1>1, <1>2, <1>4 DEF writerVars

(* The loop of a writer goes on: from the first column to the second, from
   there to its rest. *)
LEMMA AdvanceTurns ==
  ASSUME TypeOK, NEW w \in Writers, Advance(w)
  PROVE  /\ column[w] = "quota" => stage'[w] = "swap" /\ column'[w] = "remain"
         /\ column[w] = "remain" => stage'[w] = "idle" /\ column'[w] = "quota"
         /\ column[w] \in {"quota", "remain"}
         /\ \A v \in Writers \ {w} : stage'[v] = stage[v] /\ column'[v] = column[v]
BY DEF Advance, TypeOK, Columns

(* A step of a writer: it was at work, and it goes on in its order. *)
LEMMA WriterTurns ==
  ASSUME TypeOK, NEW w \in Writers, WriterStep(w)
  PROVE  /\ stage[w] # "idle" /\ main # "exited"
         /\ recorded' \subseteq recorded
         /\ \A v \in Writers \ {w} : stage'[v] = stage[v] /\ column'[v] = column[v]
         /\ \/ /\ stage[w] = "swap" /\ stage'[w] = "write"
               /\ column'[w] = column[w] /\ column[w] \notin recorded'
            \/ /\ stage[w] = "write" /\ stage'[w] = "drop"
               /\ column'[w] = column[w] /\ column[w] = "quota"
            \/ /\ stage[w] = "swap" => column[w] \notin recorded
               /\ column[w] = "quota"
               /\ stage'[w] = "swap" /\ column'[w] = "remain"
            \/ /\ stage[w] = "swap" => column[w] \notin recorded
               /\ column[w] = "remain"
               /\ stage'[w] = "idle" /\ column'[w] = "quota"
<1>1. CASE Swap(w)
  BY <1>1 DEF Swap, TypeOK
<1>2. CASE SwapNothing(w)
  BY <1>2, AdvanceTurns DEF SwapNothing, dataVars
<1>3. CASE Write(w) \/ WriteFails(w)
  <2>1. /\ stage[w] = "write" /\ main # "exited" /\ recorded' = recorded
        /\ AfterWrite(w)
    BY <1>3 DEF Write, WriteFails, dataVars
  <2>2. CASE column[w] = "quota" /\ RedisEnabled
    BY <2>1, <2>2 DEF AfterWrite, TypeOK
  <2>3. CASE ~(column[w] = "quota" /\ RedisEnabled)
    <3>1. Advance(w)
      BY <2>1, <2>3 DEF AfterWrite
    <3> QED BY <2>1, <3>1, AdvanceTurns
  <2> QED BY <2>2, <2>3
<1>4. CASE DropUserCache(w)
  BY <1>4, AdvanceTurns DEF DropUserCache
<1> QED BY <1>1, <1>2, <1>3, <1>4 DEF WriterStep

(* ShutdownInv is kept by a writer. *)
LEMMA WriterShutdown ==
  ASSUME ShutdownInv, NEW w \in Writers, WriterStep(w)
  PROVE  WritersInv' /\ DirectInv' /\ DrainedInv' /\ FlushInv'
<1> DEFINE Moved == \/ /\ stage[w] = "swap" /\ stage'[w] = "write"
                       /\ column'[w] = column[w] /\ column[w] \notin recorded'
                    \/ /\ stage[w] = "write" /\ stage'[w] = "drop"
                       /\ column'[w] = column[w] /\ column[w] = "quota"
                    \/ /\ stage[w] = "swap" => column[w] \notin recorded
                       /\ column[w] = "quota"
                       /\ stage'[w] = "swap" /\ column'[w] = "remain"
                    \/ /\ stage[w] = "swap" => column[w] \notin recorded
                       /\ column[w] = "remain"
                       /\ stage'[w] = "idle" /\ column'[w] = "quota"
<1>1. /\ stage[w] # "idle" /\ main # "exited" /\ recorded' \subseteq recorded
      /\ \A v \in Writers \ {w} : stage'[v] = stage[v] /\ column'[v] = column[v]
      /\ Moved
  BY WriterTurns DEF ShutdownInv
<1>2. UNCHANGED mainVars /\ pc' = pc
  BY DEF WriterStep, Swap, SwapNothing, Write, WriteFails, DropUserCache,
         requestVars
<1>3. /\ w = "main" => main = "flushing"
      /\ w = "ticker" => ticking
  BY <1>1 DEF ShutdownInv, WritersInv, Writers
<1>4. WritersInv'
  BY <1>1, <1>2, <1>3 DEF ShutdownInv, WritersInv, Writers, mainVars
<1>5. DirectInv' /\ DrainedInv'
  BY <1>1, <1>2 DEF ShutdownInv, DirectInv, DrainedInv, Ended, mainVars
<1>6. main = "flushing" => w = "main"
  BY <1>3 DEF ShutdownInv, WritersInv, Writers
<1>7. FlushInv'
  <2>1. CASE main # "flushing"
    BY <1>1, <1>2, <2>1 DEF FlushInv, mainVars
  <2>2. CASE main = "flushing"
    <3>1. w = "main"
      BY <1>6, <2>2
    <3>2. Moved /\ recorded' \subseteq recorded /\ main' = main /\ drained' = drained
      BY <1>1, <1>2 DEF mainVars
    <3>3. ASSUME drained PROVE FlushInv'
      <4>1. ~(stage["main"] = "swap" /\ column["main"] = "quota")
              => "quota" \notin recorded
        BY <2>2, <3>3 DEF ShutdownInv, FlushInv
      <4>2. ~(stage["main"] = "swap" \/ column["main"] = "quota")
              => "remain" \notin recorded
        BY <2>2, <3>3 DEF ShutdownInv, FlushInv
      <4>3. column["main"] \in {"quota", "remain"}
        BY DEF ShutdownInv, TypeOK, Writers, Columns
      <4> QED BY <2>2, <3>1, <3>2, <4>1, <4>2, <4>3 DEF FlushInv, Moved
    <3> QED BY <3>2, <3>3 DEF FlushInv
  <2> QED BY <2>1, <2>2
<1> QED BY <1>4, <1>5, <1>7

(* ShutdownInv is inductive. *)
LEMMA ShutdownInvStep == ShutdownInv /\ [Next]_vars => ShutdownInv'
<1> SUFFICES ASSUME ShutdownInv, [Next]_vars PROVE ShutdownInv'
  OBVIOUS
<1>0. TypeOK /\ TypeOK'
  BY TypeStep DEF ShutdownInv
<1>1. ASSUME NEW r \in Requests, Step(r) PROVE ShutdownInv'
  <2>1. /\ UNCHANGED <<stage, column, mainVars>> /\ main # "exited"
        /\ ~BatchUpdateEnabled => recorded' = recorded
        /\ main \notin {"serving", "draining"} => ~drained
    BY <1>1, RequestShutdown
  <2>2. WritersInv' /\ DirectInv'
    BY <2>1 DEF ShutdownInv, WritersInv, DirectInv, mainVars
  <2>3. DrainedInv' /\ FlushInv'
    BY <2>1 DEF ShutdownInv, DrainedInv, FlushInv, mainVars
  <2> QED BY <1>0, <2>2, <2>3 DEF ShutdownInv
<1>2. ASSUME NEW w \in Writers, WriterStep(w) PROVE ShutdownInv'
  BY <1>0, <1>2, WriterShutdown DEF ShutdownInv
<1>3. CASE Tick
  <2>1. WritersInv'
    BY <1>0, <1>3 DEF Tick, ShutdownInv, WritersInv, Writers, mainVars, TypeOK
  <2>2. DirectInv' /\ DrainedInv'
    BY <1>3 DEF Tick, ShutdownInv, DirectInv, DrainedInv, Ended, mainVars,
                dataVars, requestVars
  <2>3. FlushInv'
    BY <1>3 DEF Tick, ShutdownInv, WritersInv, FlushInv, mainVars, dataVars
  <2> QED BY <1>0, <2>1, <2>2, <2>3 DEF ShutdownInv
<1>4. CASE TickerStops
  BY <1>0, <1>4
  DEF TickerStops, ShutdownInv, WritersInv, DirectInv, DrainedInv, FlushInv,
      Ended, dataVars, requestVars, writerVars
<1>5. CASE RequestsDrained \/ DrainTimesOut \/ Interrupted \/ CacheExpires
  <2>1. /\ UNCHANGED <<stage, column, recorded, pc, ticking>>
        /\ main' # "flushing" \/ main' = main
        /\ drained' = drained \/ ~drained'
    BY <1>5 DEF RequestsDrained, DrainTimesOut, Interrupted, CacheExpires,
                StopsOrExits, dataVars, requestVars, writerVars, mainVars
  <2>2. WritersInv'
    BY <1>5, <2>1 DEF ShutdownInv, WritersInv, DirectInv, RequestsDrained,
                DrainTimesOut, Interrupted, CacheExpires, StopsOrExits, mainVars
  <2>3. DirectInv'
    BY <1>5, <2>1 DEF ShutdownInv, DirectInv, RequestsDrained, DrainTimesOut,
                Interrupted, CacheExpires, StopsOrExits, mainVars
  <2>4. DrainedInv'
    BY <1>5, <2>1 DEF ShutdownInv, DrainedInv, Ended, RequestsDrained,
                DrainTimesOut, Interrupted, CacheExpires, mainVars
  <2>5. FlushInv'
    BY <1>5, <2>1 DEF ShutdownInv, FlushInv, DirectInv, RequestsDrained,
                DrainTimesOut, Interrupted, CacheExpires, StopsOrExits, mainVars
  <2> QED BY <1>0, <2>2, <2>3, <2>4, <2>5 DEF ShutdownInv
<1>6. CASE StopBatchUpdater
  BY <1>0, <1>6
  DEF StopBatchUpdater, ShutdownInv, WritersInv, DirectInv, DrainedInv,
      FlushInv, Ended, dataVars, requestVars, writerVars
<1>7. CASE FlushAllBatches
  <2>1. /\ main = "joining" /\ main' = "flushing" /\ ~ticking
        /\ stage'["main"] = "swap" /\ stage'["ticker"] = stage["ticker"]
        /\ UNCHANGED <<column, recorded, pc, ticking, drained>>
    BY <1>0, <1>7 DEF FlushAllBatches, StartFlush, TypeOK, Writers, dataVars,
                requestVars
  <2>2. column["main"] = "quota"
    BY <2>1 DEF ShutdownInv, WritersInv, Writers
  <2> QED BY <1>0, <2>1, <2>2
          DEF ShutdownInv, WritersInv, DirectInv, DrainedInv, FlushInv, Ended,
              Writers
<1>8. CASE Exit
  <2>1. /\ main = "flushing" /\ main' = "exited" /\ stage["main"] = "idle"
        /\ UNCHANGED <<stage, column, recorded, pc, ticking, drained>>
    BY <1>8 DEF Exit, dataVars, requestVars, writerVars
  <2>2. drained => recorded = {}
    BY <1>0, <2>1 DEF ShutdownInv, FlushInv, TypeOK, Columns
  <2> QED BY <1>0, <2>1, <2>2
          DEF ShutdownInv, WritersInv, DirectInv, DrainedInv, FlushInv, Ended
<1>9. CASE UNCHANGED vars
  BY <1>0, <1>9
  DEF ShutdownInv, WritersInv, DirectInv, DrainedInv, FlushInv, Ended, vars,
      dataVars, requestVars, writerVars, mainVars
<1> QED BY <1>1, <1>2, <1>3, <1>4, <1>5, <1>6, <1>7, <1>8, <1>9
        DEF Next, ShutdownStep

(* The shutdown begins with nothing recorded and nobody at work. *)
LEMMA ShutdownInit == Init => ShutdownInv
<1> SUFFICES ASSUME Init PROVE ShutdownInv
  OBVIOUS
<1> QED BY TypeInit
        DEF Init, ShutdownInv, WritersInv, DirectInv, DrainedInv, FlushInv, Writers

(* NothingLeftBehind of QuotaLedger: a shutdown that waited for its requests
   writes every payment out before it exits. *)
THEOREM NothingLeft == Spec => []NothingLeftBehind
<1>1. ShutdownInv => NothingLeftBehind
  BY DEF ShutdownInv, WritersInv, FlushInv, NothingLeftBehind, Writers
<1> QED BY <1>1, ShutdownInit, ShutdownInvStep, PTL DEF Spec

-----------------------------------------------------------------------------
(* The ledger implements QuotaAccount. Every debit is a payment, and a step of
   a writer moves an amount between the accumulator, the writer, the database
   and the loss without changing their sum. *)

(* What is in transit is a number. *)
LEMMA TransitTyped ==
  ASSUME TypeOK, NEW w \in Writers, NEW c \in Columns
  PROVE  InTransit(w, c) \in Int
BY DEF TypeOK, InTransit

(* A debit, by way of the accumulator or not, is a payment of the account. *)
LEMMA DebitIsPay ==
  ASSUME TypeOK, NEW r \in Requests, NEW c \in Columns, NEW amount \in Int,
         amount \in Payments, Debit(r, c, amount), UNCHANGED writerVars
  PROVE  Account!Next
<1>1. ASSUME NEW d \in Columns
      PROVE  Effective'[d] = [Effective EXCEPT ![c] = @ - amount][d]
  <2>1. /\ InTransit("ticker", d)' = InTransit("ticker", d)
        /\ InTransit("main", d)' = InTransit("main", d)
    BY DEF InTransit, writerVars
  <2>2. InTransit("ticker", d) \in Int /\ InTransit("main", d) \in Int
    BY TransitTyped DEF Writers
  <2>3. db'[d] + stores'[d] = db[d] + stores[d] - (IF d = c THEN amount ELSE 0)
    BY DEF Debit, AddNewRecord, TypeOK
  <2>4. /\ db[d] \in Int /\ stores[d] \in Int /\ lost[d] \in Int
        /\ db'[d] \in Int /\ stores'[d] \in Int /\ lost'[d] = lost[d]
    BY DebitTyped DEF TypeOK, writerVars
  <2> QED BY <2>1, <2>2, <2>3, <2>4 DEF Effective
<1>2. Effective' = [Effective EXCEPT ![c] = @ - amount]
  BY <1>1 DEF Effective
<1>3. paid' = [paid EXCEPT ![r][c] = @ + amount]
  BY DEF Debit
<1> QED BY <1>2, <1>3 DEF Account!Next, Account!Pay

(* A writer that keeps the sum of what it moves leaves the account alone. *)
LEMMA MoveIsStutter ==
  ASSUME TypeOK, TypeOK', NEW w \in Writers,
         \A c \in Columns :
           db'[c] + stores'[c] + lost'[c] + InTransit(w, c)'
             = db[c] + stores[c] + lost[c] + InTransit(w, c),
         \A v \in Writers \ {w} :
           stage'[v] = stage[v] /\ column'[v] = column[v] /\ taken'[v] = taken[v]
  PROVE  Effective' = Effective
<1>1. ASSUME NEW c \in Columns PROVE Effective'[c] = Effective[c]
  <2>1. /\ db[c] \in Int /\ stores[c] \in Int /\ lost[c] \in Int
        /\ db'[c] \in Int /\ stores'[c] \in Int /\ lost'[c] \in Int
    BY DEF TypeOK
  <2>2. /\ InTransit("ticker", c) \in Int /\ InTransit("main", c) \in Int
        /\ InTransit("ticker", c)' \in Int /\ InTransit("main", c)' \in Int
    BY DEF TypeOK, InTransit, Writers
  <2>3. \A v \in Writers \ {w} : InTransit(v, c)' = InTransit(v, c)
    BY DEF InTransit
  <2>4. CASE w = "ticker"
    <3>1. InTransit("main", c)' = InTransit("main", c)
      BY <2>3, <2>4 DEF Writers
    <3> QED BY <2>1, <2>2, <2>4, <3>1 DEF Effective
  <2>5. CASE w = "main"
    <3>1. InTransit("ticker", c)' = InTransit("ticker", c)
      BY <2>3, <2>5 DEF Writers
    <3> QED BY <2>1, <2>2, <2>5, <3>1 DEF Effective
  <2> QED BY <2>4, <2>5 DEF Writers
<1> QED BY <1>1 DEF Effective

(* Nothing moves: the account stands still. *)
LEMMA StillIsStutter ==
  ASSUME UNCHANGED <<db, stores, lost, stage, column, taken, paid>>
  PROVE  UNCHANGED Account!accountVars
BY DEF Account!accountVars, Effective, InTransit

(* What a reservation and a settlement debit are payments of the account. *)
LEMMA DebitsArePayments ==
  ASSUME TypeOK, NEW r \in Requests
  PROVE  Estimate \in Payments /\ cost[r] - held[r] \in Payments
<1>1. Estimate \in Payments
  BY DEF Payments
<1>2. cost[r] \in Costs \cup {0} /\ held[r] \in {0, Estimate}
  BY DEF TypeOK
<1>3. CASE held[r] = 0
  <2>1. cost[r] - held[r] = cost[r]
    BY <1>3, DueIsInt
  <2> QED BY <1>1, <1>2, <2>1 DEF Payments
<1>4. CASE held[r] = Estimate
  BY <1>1, <1>2, <1>4 DEF Payments
<1> QED BY <1>2, <1>3, <1>4

(* A step of a request is one payment or none. *)
LEMMA StepIsPay ==
  ASSUME TypeOK, NEW r \in Requests, Step(r)
  PROVE  [Account!Next]_(Account!accountVars)
<1> USE DEF At, Goto
<1>0. /\ Estimate \in Int /\ cost[r] - held[r] \in Int
      /\ "quota" \in Columns /\ "remain" \in Columns
  BY DueIsInt, ConstantsAssumption DEF ConstantsAssumption, Columns
<1>1. CASE HoldToken(r) \/ HoldUser(r)
  BY <1>0, <1>1, DebitIsPay, DebitsArePayments DEF HoldToken, HoldUser
<1>2. CASE PostUser(r) \/ PostToken(r)
  BY <1>0, <1>2, DebitIsPay, DebitsArePayments DEF PostUser, PostToken
<1>3. CASE ReadQuota(r) \/ FillCache(r) \/ CheckToken(r) \/ CheckUser(r)
             \/ Serve(r)
  BY <1>3, StillIsStutter
  DEF ReadQuota, FillCache, CheckToken, CheckUser, Serve, dataVars, writerVars
<1>4. CASE DropCache(r) \/ RefreshRead(r) \/ RefreshSet(r)
  BY <1>4, StillIsStutter
  DEF DropCache, RefreshRead, RefreshSet, dataVars, writerVars
<1> QED BY <1>1, <1>2, <1>3, <1>4 DEF Step

(* A step of a writer is no payment. *)
LEMMA WriterStepIsStutter ==
  ASSUME TypeOK, TypeOK', NEW w \in Writers, WriterStep(w)
  PROVE  UNCHANGED Account!accountVars
<1>1. \A v \in Writers \ {w} :
        stage'[v] = stage[v] /\ column'[v] = column[v] /\ taken'[v] = taken[v]
  BY DEF WriterStep, Swap, SwapNothing, Write, WriteFails, DropUserCache,
         AfterWrite, Advance, TypeOK
<1>2. paid' = paid
  BY DEF WriterStep, Swap, SwapNothing, Write, WriteFails, DropUserCache,
         requestVars
<1>3. ASSUME NEW c \in Columns
      PROVE  db'[c] + stores'[c] + lost'[c] + InTransit(w, c)'
               = db[c] + stores[c] + lost[c] + InTransit(w, c)
  <2>1. /\ db[c] \in Int /\ stores[c] \in Int /\ lost[c] \in Int
        /\ taken[w] \in Int
    BY DEF TypeOK
  <2>2. CASE Swap(w)
    <3>1. stage[w] # "write" /\ stage'[w] = "write" /\ column'[w] = column[w]
      BY <2>2 DEF Swap, TypeOK
    <3>2. db'[c] = db[c] /\ lost'[c] = lost[c]
      BY <2>2 DEF Swap
    <3>3. /\ column[w] = c => taken'[w] = stores[c] /\ stores'[c] = 0
          /\ column[w] # c => stores'[c] = stores[c]
      BY <2>2 DEF Swap, TypeOK
    <3> QED BY <2>1, <3>1, <3>2, <3>3 DEF InTransit
  <2>3. CASE SwapNothing(w) \/ DropUserCache(w)
    <3>1. stage[w] # "write" /\ stage'[w] # "write"
      BY <2>3 DEF SwapNothing, DropUserCache, Advance, TypeOK
    <3>2. db' = db /\ stores' = stores /\ lost' = lost
      BY <2>3 DEF SwapNothing, DropUserCache, dataVars
    <3> QED BY <3>1, <3>2 DEF InTransit
  <2>4. CASE Write(w) \/ WriteFails(w)
    <3>1. stage[w] = "write" /\ stage'[w] # "write"
      BY <2>4 DEF Write, WriteFails, AfterWrite, Advance, TypeOK
    <3>2. stores'[c] = stores[c]
      BY <2>4 DEF Write, WriteFails, dataVars
    <3>3. db'[c] + lost'[c]
            = db[c] + lost[c] + (IF column[w] = c THEN taken[w] ELSE 0)
      BY <2>1, <2>4 DEF Write, WriteFails, dataVars, TypeOK
    <3>4. db'[c] \in Int /\ lost'[c] \in Int
      BY DEF TypeOK
    <3>5. /\ InTransit(w, c) = IF column[w] = c THEN taken[w] ELSE 0
          /\ InTransit(w, c)' = 0
      BY <3>1 DEF InTransit
    <3>6. stores[c] \in Int
      BY DEF TypeOK
    <3> QED BY <2>1, <3>2, <3>3, <3>4, <3>5, <3>6
  <2> QED BY <2>2, <2>3, <2>4 DEF WriterStep
<1>4. Effective' = Effective
  BY <1>1, <1>3, MoveIsStutter
<1> QED BY <1>2, <1>4 DEF Account!accountVars

(* The ledger starts as the account does: nothing is in transit. *)
LEMMA AccountInit == Init => Account!Init
<1> SUFFICES ASSUME Init PROVE Account!Init
  OBVIOUS
<1>1. ASSUME NEW c \in Columns PROVE Effective[c] = Opening[c]
  BY ConstantsAssumption
  DEF Init, Effective, InTransit, Zero, Writers, ConstantsAssumption
<1>2. Effective = Opening
  BY <1>1, ConstantsAssumption DEF Effective, ConstantsAssumption
<1> QED BY <1>2 DEF Init, Account!Init, Zero

(* Every step of the ledger is a payment of the account or nothing to it. *)
LEMMA AccountStep ==
  ShutdownInv /\ [Next]_vars => [Account!Next]_(Account!accountVars)
<1> SUFFICES ASSUME ShutdownInv, [Next]_vars
             PROVE  [Account!Next]_(Account!accountVars)
  OBVIOUS
<1>0. TypeOK /\ TypeOK'
  BY TypeStep DEF ShutdownInv
<1>1. ASSUME NEW r \in Requests, Step(r)
      PROVE  [Account!Next]_(Account!accountVars)
  BY <1>0, <1>1, StepIsPay
<1>2. ASSUME NEW w \in Writers, WriterStep(w)
      PROVE  UNCHANGED Account!accountVars
  BY <1>0, <1>2, WriterStepIsStutter
<1>3. CASE Tick \/ FlushAllBatches
  <2>1. UNCHANGED <<db, stores, lost, column, taken, paid>>
    BY <1>3 DEF Tick, FlushAllBatches, StartFlush, dataVars, requestVars
  <2>2. ASSUME NEW w \in Writers, NEW c \in Columns
        PROVE  InTransit(w, c)' = InTransit(w, c)
    <3>1. CASE Tick
      BY <1>0, <2>1, <3>1 DEF Tick, TypeOK, Writers, InTransit
    <3>2. CASE FlushAllBatches
      <4>1. stage["main"] = "idle"
        BY <3>2 DEF FlushAllBatches, ShutdownInv, WritersInv
      <4> QED BY <1>0, <2>1, <3>2, <4>1
              DEF FlushAllBatches, StartFlush, TypeOK, InTransit
    <3> QED BY <1>3, <3>1, <3>2
  <2>3. Effective' = Effective
    BY <2>1, <2>2 DEF Effective, Writers
  <2> QED BY <2>1, <2>3 DEF Account!accountVars
<1>4. CASE TickerStops \/ RequestsDrained \/ StopBatchUpdater \/ Exit
  BY <1>4, StillIsStutter
  DEF TickerStops, RequestsDrained, StopBatchUpdater, Exit, dataVars,
      requestVars, writerVars
<1>5. CASE Interrupted \/ DrainTimesOut \/ CacheExpires
  BY <1>5, StillIsStutter
  DEF Interrupted, DrainTimesOut, CacheExpires, dataVars, requestVars,
      writerVars
<1>6. CASE UNCHANGED vars
  BY <1>6, StillIsStutter DEF vars, dataVars, requestVars, writerVars
<1> QED BY <1>1, <1>2, <1>3, <1>4, <1>5, <1>6 DEF Next, ShutdownStep

(* ImplementsAccount of QuotaLedger: with accumulators, cache, failing writes
   and shutdown, users pay as if each payment were taken at once. *)
THEOREM ImplementsCorrect == Spec => ImplementsAccount
<1> QED BY AccountInit, ShutdownInit, ShutdownInvStep, AccountStep, PTL
        DEF Spec, ImplementsAccount, Account!Spec
=============================================================================
