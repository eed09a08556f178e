-------------------------- MODULE TaskRelayProofs --------------------------
(***************************************************************************)
(* Proofs about TaskRelay, for any number of tasks, any number of rows in  *)
(* a round and any number of faults, in every situation.                   *)
(***************************************************************************)
EXTENDS TaskRelay, TLAPS

(* Whoever is looked at is open, and not between its refund and its Save; only
   in the middle of a Save is there a task to be saved, and only one. *)
OneByOne ==
  /\ \A t \in todo : status[t] = "open" /\ t \notin saving
  /\ \A t \in saving : status[t] = "open"
  /\ \A s, t \in saving : s = t
  /\ saving # {} => poller = "save"

(* A task is only stored once its upstream has answered whether it has an id. *)
StoredInTime ==
  /\ \A t \in Stored : submission[t] \notin {"new", "settled"}
  /\ \A t \in Tasks : status[t] # "open" => t \in Stored

(* A refund is paid for by the Save that follows it, or by the fault that kept
   the Save from being made. *)
Owed ==
  \A t \in Tasks :
    refunds[t] <= faults + (IF t \in saving \/ status[t] # "open" THEN 1 ELSE 0)

Reasons ==
  \A t \in Tasks : refunds[t] > 0 \/ t \in saving => upstream[t] = "failed" \/ t \in late

(* The task that is about to be saved as failed was paid back. *)
PaidBefore == \A t \in saving : refunds[t] > 0 \/ faults > 0

TaskInv ==
  /\ TaskTypeOK /\ table \in Seq(Tasks)
  /\ OneByOne /\ StoredInTime /\ Owed /\ Reasons /\ PaidBefore /\ FailureIsRefunded

-----------------------------------------------------------------------------
(* What Append does to the tasks that are stored. *)
LEMMA StoredByAppend ==
  ASSUME NEW s \in Seq(Tasks), NEW t \in Tasks
  PROVE  Append(s, t) \in Seq(Tasks) /\ Range(Append(s, t)) = Range(s) \cup {t}
<1>1. /\ Append(s, t) \in Seq(Tasks) /\ Len(Append(s, t)) = Len(s) + 1 /\ Len(s) \in Nat
      /\ \A i \in 1..Len(s) : Append(s, t)[i] = s[i]
      /\ Append(s, t)[Len(s) + 1] = t
  OBVIOUS
<1>2. /\ Range(s) = {s[i] : i \in 1..Len(s)}
      /\ Range(Append(s, t)) = {Append(s, t)[i] : i \in 1..(Len(s) + 1)}
  BY <1>1 DEF Range
<1>3. 1..(Len(s) + 1) = (1..Len(s)) \cup {Len(s) + 1}
  BY <1>1
<1> QED BY <1>1, <1>2, <1>3

(* A round only reads tasks that are stored and open. *)
LEMMA RoundIsOpen ==
  ASSUME table \in Seq(Tasks), NEW t \in {table[i] : i \in Oldest(Unfinished)}
  PROVE  t \in Stored /\ status[t] = "open"
<1>1. PICK i \in Oldest(Unfinished) : t = table[i]
  OBVIOUS
<1>2. i \in DOMAIN table /\ status[table[i]] = "open"
  BY DEF Oldest, Unfinished
<1> QED BY <1>1, <1>2 DEF Stored, Range

(* No task has been submitted at first. *)
LEMMA TaskStarts == TaskInit => TaskInv
<1> SUFFICES ASSUME TaskInit PROVE TaskInv
  OBVIOUS
<1>1. table = <<>> /\ table \in Seq(Tasks) /\ Stored = {}
  BY DEF TaskInit, Stored, Range
<1>2. TaskTypeOK
  BY <1>1, TaskAssumption DEF TaskInit, TaskTypeOK, Pollers
<1> QED
  BY <1>1, <1>2 DEF TaskInit, TaskInv, OneByOne, StoredInTime, Owed, Reasons, PaidBefore,
                    FailureIsRefunded

(* Tasks of the round that have no id or no channel are failed. *)
LEMMA FailsUnpaid ==
  ASSUME TaskInv, NEW ts, ts \subseteq todo, poller = "work",
         \A t \in ts : t \notin hasId \/ route[t] = "gone",
         Finish(ts, "failed"), todo' = todo \ ts,
         UNCHANGED <<table, hasId, refunds, late, worldVars, submission, taskActive, saving, poller>>
  PROVE  TaskInv'
<1> USE DEF TaskInv, TaskTypeOK, worldVars, Fault
<1>0. /\ faults \in Nat /\ MaxFaults \in Nat
      /\ faults' \in {faults, faults + 1} /\ faults' \in 0..MaxFaults
      /\ status' \in {status, [t \in Tasks |-> IF t \in ts THEN "failed" ELSE status[t]]}
      /\ saving = {} /\ ts \subseteq Stored /\ Stored' = Stored
  BY TaskAssumption DEF Finish, OneByOne, Stored
<1>1. TaskTypeOK'
  BY <1>0
<1>2. OneByOne' /\ StoredInTime'
  BY <1>0 DEF OneByOne, StoredInTime
<1>3. Owed' /\ Reasons' /\ PaidBefore' /\ FailureIsRefunded'
  BY <1>0 DEF Owed, Reasons, PaidBefore, FailureIsRefunded
<1> QED BY <1>1, <1>2, <1>3

(* Every step of a submission, the poller and the upstream keeps the
   invariant. *)
LEMMA TaskGoesOn == TaskInv /\ [TaskNext]_taskVars => TaskInv'
<1> SUFFICES ASSUME TaskInv, [TaskNext]_taskVars
             PROVE  TaskInv'
  OBVIOUS
<1> USE DEF TaskInv, TaskTypeOK, rowVars, worldVars, pollerVars, Fault
<1>0. faults \in Nat /\ MaxFaults \in Nat /\ \A t \in Stored : t \in Tasks
  BY TaskAssumption
<1>1. ASSUME NEW t \in Tasks, Accepted(t) PROVE TaskInv'
  BY <1>1 DEF Accepted, Stored, OneByOne, StoredInTime, Owed, Reasons, PaidBefore,
              FailureIsRefunded
<1>2. ASSUME NEW t \in Tasks, InsertTask(t) PROVE TaskInv'
  <2>1. /\ submission' = [submission EXCEPT ![t] = "activate"] /\ submission[t] = "settled"
        /\ UNCHANGED <<hasId, status, refunds, late, upstream, route, todo, saving, poller>>
        /\ faults' \in {faults, faults + 1} /\ faults' \in 0..MaxFaults
    BY <1>0, <1>2 DEF InsertTask
  <2>2. table' \in Seq(Tasks) /\ Stored' \in {Stored, Stored \cup {t}}
    BY <1>2, StoredByAppend DEF InsertTask, Stored
  <2>3. TaskTypeOK'
    BY <1>2, <2>1, <2>2 DEF InsertTask
  <2>4. OneByOne' /\ StoredInTime'
    BY <2>1, <2>2 DEF OneByOne, StoredInTime
  <2>5. Owed' /\ Reasons' /\ PaidBefore' /\ FailureIsRefunded'
    BY <1>0, <2>1 DEF Owed, Reasons, PaidBefore, FailureIsRefunded
  <2> QED BY <2>2, <2>3, <2>4, <2>5
<1>3. ASSUME NEW t \in Tasks, Activate(t) \/ Signal(t) PROVE TaskInv'
  BY <1>3 DEF Activate, Signal, Stored, OneByOne, StoredInTime, Owed, Reasons, PaidBefore,
              FailureIsRefunded
<1>4. CASE WakeUp \/ Deactivate \/ RoundEnds
  BY <1>4 DEF WakeUp, Deactivate, RoundEnds, PollerGoes, Pollers, Stored, OneByOne,
              StoredInTime, Owed, Reasons, PaidBefore, FailureIsRefunded
<1>5. CASE Query
  <2>1. /\ UNCHANGED <<table, hasId, status, refunds, late, relay, situation, upstream, route,
                       submission, taskActive, saving>>
        /\ poller = "query" /\ poller' \in {"work", "deactivate"}
        /\ faults' \in {faults, faults + 1} /\ faults' \in 0..MaxFaults
    BY <1>0, <1>5 DEF Query, PollerGoes
  <2>2. todo' = todo \/ todo' = {table[i] : i \in Oldest(Unfinished)}
    BY <1>5 DEF Query
  <2>3. \A t \in todo' : t \in Stored /\ status[t] = "open"
    BY <2>2, RoundIsOpen DEF OneByOne
  <2>4. TaskTypeOK'
    BY <2>1, <2>3 DEF Stored, Pollers
  <2>5. OneByOne' /\ StoredInTime'
    BY <2>1, <2>3 DEF OneByOne, StoredInTime, Stored
  <2>6. Owed' /\ Reasons' /\ PaidBefore' /\ FailureIsRefunded'
    BY <1>0, <2>1 DEF Owed, Reasons, PaidBefore, FailureIsRefunded
  <2> QED BY <2>1, <2>4, <2>5, <2>6
<1>6. CASE FailNameless
  BY <1>6, FailsUnpaid DEF FailNameless, Nameless
<1>7. ASSUME NEW t \in Tasks, ChannelGone(t) \/ ReportsSuccess(t) PROVE TaskInv'
  <2>1. CASE ChannelGone(t)
    <3>1. PICK ts : ts = {t}
      OBVIOUS
    <3>2. /\ Finish(ts, "failed") /\ todo' = todo \ ts /\ poller = "work"
          /\ ts \subseteq todo /\ \A r \in ts : route[r] = "gone"
          /\ UNCHANGED <<table, hasId, refunds, late, worldVars, submission, taskActive, saving, poller>>
      BY <2>1, <3>1 DEF ChannelGone, LooksAt, Passes
    <3> QED BY <3>2, FailsUnpaid
  <2>2. CASE ReportsSuccess(t)
    <3>1. /\ status' \in {status, [r \in Tasks |-> IF r \in {t} THEN "succeeded" ELSE status[r]]}
          /\ todo' = todo \ {t} /\ t \in todo /\ saving = {}
          /\ faults' \in {faults, faults + 1} /\ faults' \in 0..MaxFaults
          /\ UNCHANGED <<table, hasId, refunds, late, worldVars, submission, taskActive, saving, poller>>
      BY <1>0, <2>2 DEF ReportsSuccess, Answers, LooksAt, Passes, Finish, OneByOne
    <3>2. TaskTypeOK'
      BY <3>1 DEF Stored
    <3>3. OneByOne' /\ StoredInTime'
      BY <1>0, <3>1 DEF OneByOne, StoredInTime, Stored
    <3>4. Owed' /\ Reasons' /\ PaidBefore' /\ FailureIsRefunded'
      BY <1>0, <3>1 DEF Owed, Reasons, PaidBefore, FailureIsRefunded
    <3> QED BY <3>1, <3>2, <3>3, <3>4
  <2> QED BY <1>7, <2>1, <2>2
<1>8. ASSUME NEW t \in Tasks, NoNews(t) PROVE TaskInv'
  BY <1>8 DEF NoNews, Passes, LooksAt, Stored, OneByOne,
              StoredInTime, Owed, Reasons, PaidBefore, FailureIsRefunded
<1>9. ASSUME NEW t \in Tasks, ReportsFailure(t) \/ GivesUp(t) PROVE TaskInv'
  <2>1. /\ t \in todo /\ todo' = todo \ {t} /\ poller = "work"
        /\ poller' = "save" /\ saving' = {t} /\ late' \in {late, late \cup {t}}
        /\ upstream[t] = "failed" \/ t \in late'
        /\ UNCHANGED <<table, hasId, status, relay, situation, upstream, route, submission,
                       taskActive>>
    BY <1>9 DEF ReportsFailure, GivesUp, Answers, LooksAt, Passes, PollerGoes
  <2>2. \/ refunds' = [refunds EXCEPT ![t] = @ + 1] /\ faults' = faults
        \/ refunds' = refunds /\ faults' = faults + 1 /\ faults' \in 0..MaxFaults
    BY <1>0, <1>9 DEF ReportsFailure, GivesUp, Refund
  <2>3. saving = {} /\ t \in Stored /\ status[t] = "open"
    BY <2>1 DEF OneByOne
  <2>4. TaskTypeOK'
    BY <1>0, <2>1, <2>2, <2>3 DEF Stored, Pollers
  <2>5. OneByOne' /\ StoredInTime'
    BY <1>0, <2>1, <2>3 DEF OneByOne, StoredInTime, Stored
  <2>6. Owed' /\ PaidBefore'
    BY <1>0, <2>1, <2>2, <2>3 DEF Owed, PaidBefore
  <2>7. Reasons' /\ FailureIsRefunded'
    BY <1>0, <2>1, <2>2, <2>3 DEF Reasons, FailureIsRefunded
  <2> QED BY <2>1, <2>4, <2>5, <2>6, <2>7
<1>10. ASSUME NEW t \in Tasks, SaveFailed(t) PROVE TaskInv'
  <2>1. /\ t \in saving /\ poller' = "work" /\ saving' = {} /\ saving = {t}
        /\ UNCHANGED <<table, hasId, refunds, late, worldVars, submission, taskActive, todo>>
    BY <1>10 DEF SaveFailed, PollerGoes, OneByOne
  <2>2. \/ /\ status' = [r \in Tasks |-> IF r \in {t} THEN "failed" ELSE status[r]]
           /\ faults' = faults
        \/ status' = status /\ faults' = faults + 1 /\ faults' \in 0..MaxFaults
    BY <1>0, <1>10 DEF SaveFailed, Finish
  <2>3. TaskTypeOK'
    BY <2>1, <2>2 DEF Stored, Pollers
  <2>4. OneByOne' /\ StoredInTime'
    BY <1>0, <2>1, <2>2 DEF OneByOne, StoredInTime, Stored
  <2>5. Owed'
    <3>1. \A r \in Tasks : refunds[r] \in Nat /\ refunds'[r] = refunds[r]
      BY <2>1
    <3>2. ASSUME NEW r \in Tasks, r # t
          PROVE  refunds'[r] <= faults' + (IF r \in saving' \/ status'[r] # "open" THEN 1 ELSE 0)
      <4>1. status'[r] = status[r] /\ r \notin saving /\ r \notin saving'
        BY <2>1, <2>2, <3>2
      <4> QED BY <1>0, <2>2, <3>1, <3>2, <4>1 DEF Owed
    <3>3. refunds'[t] <= faults' + (IF t \in saving' \/ status'[t] # "open" THEN 1 ELSE 0)
      <4>1. refunds[t] <= faults + 1
        BY <1>0, <2>1, <3>1 DEF Owed
      <4> QED BY <1>0, <2>2, <3>1, <4>1
    <3> QED BY <3>2, <3>3 DEF Owed
  <2>6. Reasons' /\ PaidBefore' /\ FailureIsRefunded'
    BY <1>0, <2>1, <2>2 DEF Reasons, PaidBefore, FailureIsRefunded
  <2> QED BY <2>1, <2>3, <2>4, <2>5, <2>6
<1>11. ASSUME NEW t \in Tasks, Panics(t) PROVE TaskInv'
  BY <1>11 DEF Panics, Answers, LooksAt, PollerGoes, Pollers, Stored, OneByOne,
              StoredInTime, Owed, Reasons, PaidBefore, FailureIsRefunded
<1>12. ASSUME NEW t \in Tasks, UpstreamEnds(t) PROVE TaskInv'
  <2>1. /\ upstream[t] = "running" /\ upstream' \in [Tasks -> {"running", "succeeded", "failed"}]
        /\ \A r \in Tasks : upstream[r] = "failed" => upstream'[r] = "failed"
        /\ UNCHANGED <<rowVars, relay, situation, route, pollerVars, submission, faults>>
    BY <1>12 DEF UpstreamEnds
  <2>2. TaskTypeOK' /\ OneByOne' /\ StoredInTime' /\ Owed' /\ PaidBefore' /\ FailureIsRefunded'
    BY <2>1 DEF Stored, OneByOne, StoredInTime, Owed, PaidBefore, FailureIsRefunded
  <2>3. Reasons'
    BY <2>1 DEF Reasons
  <2> QED BY <2>1, <2>2, <2>3
<1>13. ASSUME NEW t \in Tasks, RouteLeaves(t) PROVE TaskInv'
  BY <1>13 DEF RouteLeaves, Stored, OneByOne,
              StoredInTime, Owed, Reasons, PaidBefore, FailureIsRefunded
<1>14. CASE Restart
  BY <1>0, <1>14 DEF Restart, PollerGoes, Pollers, Stored, OneByOne,
              StoredInTime, Owed, Reasons, PaidBefore, FailureIsRefunded
<1>15. CASE UNCHANGED taskVars
  BY <1>15 DEF taskVars, Stored, OneByOne,
              StoredInTime, Owed, Reasons, PaidBefore, FailureIsRefunded
<1> QED
  BY <1>1, <1>2, <1>3, <1>4, <1>5, <1>6, <1>7, <1>8, <1>9, <1>10, <1>11, <1>12,
     <1>13, <1>14, <1>15 DEF TaskNext, SubmissionStep, PollerStep, TaskNews

(* Submissions, the poller, the upstreams and restarts keep the invariant. *)
THEOREM TaskInvariant == TaskSpec => []TaskInv
<1> QED BY TaskStarts, TaskGoesOn, PTL DEF TaskSpec

(* Only a failure is paid back, and once, or once more for each fault. *)
THEOREM RefundsAlwaysDue == TaskSpec => []RefundsAreDue
<1>1. TaskInv => RefundsAreDue
  <2> SUFFICES ASSUME TaskInv, NEW t \in Tasks
               PROVE  /\ refunds[t] <= 1 + faults
                      /\ refunds[t] > 0 => upstream[t] = "failed" \/ t \in late
    BY DEF RefundsAreDue
  <2>1. refunds[t] \in Nat /\ faults \in Nat
    BY TaskAssumption DEF TaskInv, TaskTypeOK
  <2> QED BY <2>1 DEF TaskInv, Owed, Reasons
<1> QED BY <1>1, TaskInvariant, PTL

(* A task closed as failed was paid back, unless the refund failed or the code
   closes it without one. *)
THEOREM FailuresAreRefunded == TaskSpec => []FailureIsRefunded
<1>1. TaskInv => FailureIsRefunded
  BY DEF TaskInv
<1> QED BY <1>1, TaskInvariant, PTL

(* Whatever the order of rounds, answers and faults, a task that was closed is
   neither closed another way nor paid back: the poller only goes by the rows
   that its query found open (relay/task/task.go, UpdateTask). *)
ClosedForGood ==
  \A t \in Tasks :
    status[t] # "open" => status'[t] = status[t] /\ refunds'[t] = refunds[t]

(* No step of TaskSpec reopens, changes or refunds a closed task. *)
THEOREM TasksStayClosed == TaskSpec => [][ClosedForGood]_taskVars
<1>1. ASSUME TaskInv, [TaskNext]_taskVars PROVE [ClosedForGood]_taskVars
  <2> SUFFICES ASSUME NEW t \in Tasks, status[t] # "open"
               PROVE  status'[t] = status[t] /\ refunds'[t] = refunds[t]
    BY DEF ClosedForGood
  <2> USE DEF rowVars
  <2>1. t \notin todo /\ t \notin saving
    BY <1>1 DEF TaskInv, OneByOne
  <2>2. /\ status \in [Tasks -> {"open", "succeeded", "failed"}] /\ refunds \in [Tasks -> Nat]
    BY <1>1 DEF TaskInv, TaskTypeOK
  <2>3. ASSUME NEW r \in Tasks, Accepted(r) \/ SubmissionStep(r) \/ UpstreamEnds(r) \/ RouteLeaves(r)
        PROVE  UNCHANGED <<status, refunds>>
    BY <2>3 DEF Accepted, SubmissionStep, InsertTask, Activate, Signal, UpstreamEnds, RouteLeaves
  <2>4. CASE WakeUp \/ Query \/ Deactivate \/ RoundEnds \/ Restart
    BY <2>4 DEF WakeUp, Query, Deactivate, RoundEnds, Restart
  <2>5. CASE FailNameless
    BY <2>1, <2>5 DEF FailNameless, Nameless, Finish
  <2>6. ASSUME NEW r \in Tasks, ReportsSuccess(r) \/ ChannelGone(r) \/ SaveFailed(r)
        PROVE  status'[t] = status[t] /\ refunds'[t] = refunds[t]
    BY <2>1, <2>6 DEF ReportsSuccess, ChannelGone, SaveFailed, Answers, LooksAt, Finish
  <2>7. ASSUME NEW r \in Tasks, ReportsFailure(r) \/ GivesUp(r)
        PROVE  status'[t] = status[t] /\ refunds'[t] = refunds[t]
    BY <2>1, <2>2, <2>7 DEF ReportsFailure, GivesUp, Answers, LooksAt, Refund
  <2>8. ASSUME NEW r \in Tasks, NoNews(r) \/ Panics(r)
        PROVE  UNCHANGED <<status, refunds>>
    BY <2>8 DEF NoNews, Panics
  <2>9. CASE UNCHANGED taskVars
    BY <2>9 DEF taskVars
  <2> QED
    BY <1>1, <2>3, <2>4, <2>5, <2>6, <2>7, <2>8, <2>9 DEF TaskNext, PollerStep, TaskNews
<1> QED BY <1>1, TaskInvariant, PTL DEF TaskSpec
=============================================================================
