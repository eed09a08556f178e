----------------------------- MODULE TaskRelay -----------------------------
(***************************************************************************)
(* Asynchronous tasks: the end of a submission (CompletedTask in           *)
(* relay/task/main.go), the poller that is woken by it and goes to sleep   *)
(* when there is nothing to do (relay/task/task.go), and what it does with *)
(* the answers (relay/task/suno/submit.go, kling/submit.go). The poller of *)
(* controller/midjourney.go is built the same way; where it differs, an    *)
(* action of its own says how.                                             *)
(*                                                                         *)
(* The submission up to its acceptance is a gateway request (module        *)
(* GatewayRequest).                                                        *)
(***************************************************************************)
EXTENDS Naturals, FiniteSets, Sequences, Functions

CONSTANTS
  Tasks,
  Limit,            (* how many tasks one round reads: 500 *)
  MaxFaults,        (* bound: failing statements and crashes *)
  Situations        (* which of AllSituations the behaviours are in *)

(* calm: nothing goes wrong; routes: channels and credentials disappear;
   database: statements fail; crash: the process ends and is restarted;
   answers: an upstream answers what the code does not expect. *)
AllSituations == {"calm", "routes", "database", "crash", "answers"}

ASSUME TaskAssumption ==
  /\ Limit \in Nat \ {0} /\ MaxFaults \in Nat
  /\ Situations \subseteq AllSituations

VARIABLES
  relay, situation,
  submission,       (* per task: where its submission is *)
  table,            (* the tasks that have been inserted, in this order *)
  hasId,            (* the tasks whose upstream id is known *)
  status,           (* per task: tasks.status; all but "open" have progress 100 *)
  upstream,         (* per task: what the upstream would answer *)
  route,            (* per task: its channel and credential *)
  refunds,          (* history: how often a task was paid back *)
  late,             (* history: the tasks that were given up after an hour *)
  taskActive, poller,
  todo,             (* the tasks of this round still to be looked at *)
  saving,           (* the task between its refund and its Save *)
  faults            (* history: how much has gone wrong *)

rowVars == <<table, hasId, status, refunds, late>>
worldVars == <<relay, situation, upstream, route>>
pollerVars == <<taskActive, poller, todo, saving>>
taskVars == <<rowVars, worldVars, pollerVars, submission, faults>>

Pollers == {"waiting", "query", "deactivate", "work", "save", "dead"}

TaskInit ==
  /\ relay \in {"task", "midjourney"} /\ situation \in Situations
  /\ submission = [t \in Tasks |-> "new"]
  /\ table = <<>> /\ hasId = {}
  /\ status = [t \in Tasks |-> "open"]
  /\ upstream = [t \in Tasks |-> "running"]
  /\ route = [t \in Tasks |-> "there"]
  /\ refunds = [t \in Tasks |-> 0] /\ late = {}
  /\ taskActive = 1 /\ poller = "waiting"
  /\ todo = {} /\ saving = {} /\ faults = 0

Stored == Range(table)

(* The rows that one round reads, oldest first. *)
Unfinished == {i \in DOMAIN table : status[table[i]] = "open"}
Oldest(rows) == {i \in rows : Cardinality({j \in rows : j < i}) < Limit}

(* One more statement fails, or the process ends. *)
Fault(kind) == situation = kind /\ faults < MaxFaults /\ faults' = faults + 1

-----------------------------------------------------------------------------
(* A submission. *)

(* The engine has succeeded and CompletedTask settles; the answer may come
   without an id. *)
Accepted(t) ==
  /\ submission[t] = "new"
  /\ submission' = [submission EXCEPT ![t] = "settled"]
  /\ hasId' \in {hasId, hasId \cup {t}}
  /\ UNCHANGED <<table, status, refunds, late, worldVars, pollerVars, faults>>

(* task.Insert; its error is only logged. *)
InsertTask(t) ==
  /\ submission[t] = "settled"
  /\ submission' = [submission EXCEPT ![t] = "activate"]
  /\ \/ table' = Append(table, t) /\ UNCHANGED faults
     \/ Fault("database") /\ UNCHANGED table
  /\ UNCHANGED <<hasId, status, refunds, late, worldVars, pollerVars>>

(* ActivateUpdateTaskBulk: a look at taskActive without the lock. *)
Activate(t) ==
  /\ submission[t] = "activate"
  /\ submission' = [submission EXCEPT ![t] = IF taskActive = 1 THEN "done" ELSE "signal"]
  /\ UNCHANGED <<rowVars, worldVars, pollerVars, faults>>

Signal(t) ==
  /\ submission[t] = "signal"
  /\ submission' = [submission EXCEPT ![t] = "done"]
  /\ taskActive' = 1
  /\ UNCHANGED <<rowVars, worldVars, poller, todo, saving, faults>>

-----------------------------------------------------------------------------
(* The poller. *)

PollerGoes(label) == poller' = label

(* cond.Wait returns, or the test before it finds the flag set. *)
WakeUp ==
  /\ poller = "waiting" /\ taskActive = 1
  /\ PollerGoes("query")
  /\ UNCHANGED <<rowVars, worldVars, submission, taskActive, saving, todo, faults>>

(* Mutant: the youngest tasks come first. *)
QueryYoungest ==
  /\ poller = "query"
  /\ todo' = {table[i] : i \in {k \in Unfinished :
                                  Cardinality({j \in Unfinished : j > k}) < Limit}}
  /\ PollerGoes(IF Unfinished = {} THEN "deactivate" ELSE "work")
  /\ UNCHANGED <<rowVars, worldVars, submission, taskActive, saving, faults>>

(* GetAllUnFinishSyncTasks; an error looks like an empty table. *)
Query ==
  /\ poller = "query"
  /\ \/ /\ todo' = {table[i] : i \in Oldest(Unfinished)}
        /\ PollerGoes(IF Unfinished = {} THEN "deactivate" ELSE "work")
        /\ UNCHANGED faults
     \/ /\ Fault("database")
        /\ PollerGoes("deactivate") /\ UNCHANGED todo
  /\ UNCHANGED <<rowVars, worldVars, submission, taskActive, saving>>

(* DeactivateTask, and back to the wait. *)
Deactivate ==
  /\ poller = "deactivate"
  /\ taskActive' = 0
  /\ PollerGoes("waiting")
  /\ UNCHANGED <<rowVars, worldVars, submission, todo, saving, faults>>

(* A failing update leaves the rows as they are. *)
Finish(ts, as) ==
  \/ /\ status' = [t \in Tasks |-> IF t \in ts THEN as ELSE status[t]]
     /\ UNCHANGED faults
  \/ Fault("database") /\ UNCHANGED status

(* Tasks without an upstream id are failed first, in bulk. *)
Nameless == todo \ hasId

FailNameless ==
  /\ poller = "work" /\ Nameless # {}
  /\ Finish(Nameless, "failed")
  /\ todo' = todo \ Nameless
  /\ UNCHANGED <<table, hasId, refunds, late, worldVars, submission, taskActive, saving, poller>>

LooksAt(t) == poller = "work" /\ Nameless = {} /\ t \in todo
Passes(t) == todo' = todo \ {t}

(* The channel has left the route index, or is of another type now. *)
ChannelGone(t) ==
  /\ LooksAt(t) /\ route[t] = "gone"
  /\ Finish({t}, "failed") /\ Passes(t)
  /\ UNCHANGED <<table, hasId, refunds, late, worldVars, submission, taskActive, saving, poller>>

(* Nothing is learnt: the credential cannot be loaded, the request fails, the
   answer is an error or leaves the task out, or the task goes on. *)
NoNews(t) ==
  /\ LooksAt(t) /\ route[t] # "gone"
  /\ Passes(t)
  /\ UNCHANGED <<rowVars, worldVars, submission, taskActive, saving, poller, faults>>

Answers(t) == LooksAt(t) /\ route[t] = "there"

(* Mutant: a task that has ended is taken for one that has failed. *)
ReportsSuccessAsFailure(t) ==
  /\ Answers(t) /\ upstream[t] = "succeeded"
  /\ Finish({t}, "failed") /\ Passes(t)
  /\ UNCHANGED <<table, hasId, refunds, late, worldVars, submission, taskActive, saving, poller>>

ReportsSuccess(t) ==
  /\ Answers(t) /\ upstream[t] = "succeeded"
  /\ Finish({t}, "succeeded") /\ Passes(t)
  /\ UNCHANGED <<table, hasId, refunds, late, worldVars, submission, taskActive, saving, poller>>

(* IncreaseUserQuota; its error is logged and the task is failed all the same. *)
Refund(t) ==
  \/ refunds' = [refunds EXCEPT ![t] = @ + 1] /\ UNCHANGED faults
  \/ Fault("database") /\ UNCHANGED refunds

(* The refund comes first, then the row is saved. *)
ReportsFailure(t) ==
  /\ Answers(t) /\ upstream[t] = "failed"
  /\ Refund(t) /\ Passes(t)
  /\ PollerGoes("save") /\ saving' = {t}
  /\ UNCHANGED <<table, hasId, status, late, worldVars, submission, taskActive>>

(* Midjourney: after an hour a task has failed whatever the upstream says. *)
GivesUp(t) ==
  /\ relay = "midjourney"
  /\ Answers(t)
  /\ late' = late \cup {t}
  /\ Refund(t) /\ Passes(t)
  /\ PollerGoes("save") /\ saving' = {t}
  /\ UNCHANGED <<table, hasId, status, worldVars, submission, taskActive>>

(* Mutant: the progress is not set, so the task is still unfinished. *)
SaveFailedOpen(t) ==
  /\ poller = "save" /\ t \in saving
  /\ PollerGoes("work") /\ saving' = {}
  /\ UNCHANGED <<rowVars, worldVars, submission, taskActive, todo, faults>>

SaveFailed(t) ==
  /\ poller = "save" /\ t \in saving
  /\ Finish({t}, "failed")
  /\ PollerGoes("work") /\ saving' = {}
  /\ UNCHANGED <<table, hasId, refunds, late, worldVars, submission, taskActive, todo>>

(* An answer names a task that was not asked for, or has no data: the pointer
   is nil, and the panic ends the goroutine that SafeGoroutine recovers. *)
Panics(t) ==
  /\ situation = "answers" /\ Answers(t)
  /\ PollerGoes("dead")
  /\ UNCHANGED <<rowVars, worldVars, submission, taskActive, saving, todo, faults>>

(* Sleep is left out: 15 seconds between two rounds. *)
RoundEnds ==
  /\ poller = "work" /\ todo = {}
  /\ PollerGoes("query")
  /\ UNCHANGED <<rowVars, worldVars, submission, taskActive, saving, todo, faults>>

-----------------------------------------------------------------------------
(* The environment. *)

UpstreamEnds(t) ==
  /\ submission[t] # "new" /\ upstream[t] = "running"
  /\ \E how \in {"succeeded", "failed"} : upstream' = [upstream EXCEPT ![t] = how]
  /\ UNCHANGED <<rowVars, relay, situation, route, pollerVars, submission, faults>>

(* The channel is removed, or only the credential the task was sent with. *)
RouteLeaves(t) ==
  /\ situation = "routes" /\ route[t] = "there"
  /\ \/ route' = [route EXCEPT ![t] = "gone"]
     \/ relay = "task" /\ route' = [route EXCEPT ![t] = "keyless"]
  /\ UNCHANGED <<rowVars, relay, situation, upstream, pollerVars, submission, faults>>

(* InitTask starts the poller and activates it; submissions under way are lost. *)
Restart ==
  /\ Fault("crash")
  /\ submission' = [t \in Tasks |-> IF submission[t] = "new" THEN "new" ELSE "done"]
  /\ taskActive' = 1 /\ PollerGoes("waiting") /\ todo' = {} /\ saving' = {}
  /\ UNCHANGED <<rowVars, worldVars>>

SubmissionStep(t) == InsertTask(t) \/ Activate(t) \/ Signal(t)

TaskNews(t) == ReportsSuccess(t) \/ ReportsFailure(t) \/ ChannelGone(t)

PollerStep ==
  \/ WakeUp \/ Query \/ Deactivate \/ FailNameless \/ RoundEnds
  \/ \E t \in Tasks : TaskNews(t) \/ NoNews(t) \/ GivesUp(t) \/ SaveFailed(t) \/ Panics(t)

TaskNext ==
  \/ \E t \in Tasks : Accepted(t) \/ SubmissionStep(t) \/ UpstreamEnds(t) \/ RouteLeaves(t)
  \/ PollerStep \/ Restart

(* Goroutines are scheduled and statements return; a task that is asked for
   again and again is answered in the end. *)
TaskFairness ==
  /\ WF_taskVars(PollerStep)
  /\ \A t \in Tasks : WF_taskVars(SubmissionStep(t)) /\ SF_taskVars(TaskNews(t))

TaskSpec == TaskInit /\ [][TaskNext]_taskVars

-----------------------------------------------------------------------------
(* Properties. *)

TaskTypeOK ==
  /\ submission \in [Tasks -> {"new", "settled", "activate", "signal", "done"}]
  /\ Stored \subseteq Tasks /\ hasId \subseteq Tasks /\ late \subseteq Tasks
  /\ status \in [Tasks -> {"open", "succeeded", "failed"}]
  /\ upstream \in [Tasks -> {"running", "succeeded", "failed"}]
  /\ route \in [Tasks -> {"there", "gone", "keyless"}]
  /\ refunds \in [Tasks -> Nat]
  /\ taskActive \in {0, 1}
  /\ poller \in Pollers
  /\ todo \subseteq Stored /\ saving \subseteq Stored /\ faults \in 0..MaxFaults

(* Only a task that has failed, or was given up, is paid back; once, and once
   more at most for each time that a statement fails or the process ends
   between the refund and the Save (relay/task/suno/submit.go, kling/submit.go,
   controller/midjourney.go). *)
RefundsAreDue ==
  \A t \in Tasks :
    /\ refunds[t] <= 1 + faults
    /\ refunds[t] > 0 => upstream[t] = "failed" \/ t \in late

(* A task that is closed as failed was paid back, unless the refund failed or
   it never got an id or lost its channel: those are failed without one. *)
FailureIsRefunded ==
  \A t \in Tasks :
    status[t] = "failed" =>
      refunds[t] > 0 \/ faults > 0 \/ t \notin hasId \/ route[t] = "gone"

(* Limit older tasks are unfinished: the query does not reach this one. *)
CrowdedOut(t) == \E older \in SUBSET (Stored \ {t}) :
  /\ Cardinality(older) = Limit
  /\ \A u \in older : status[u] = "open" /\
       \E i, j \in DOMAIN table : i < j /\ table[i] = u /\ table[j] = t

(* What keeps a task from being followed for good: a lost credential, a dead
   poller, older tasks that never end. *)
Stuck(t) == route[t] = "keyless" \/ poller = "dead" \/ CrowdedOut(t)

(* The poller sleeps although nobody will wake it. *)
Asleep == poller = "waiting" /\ taskActive = 0

(* A task whose upstream has ended is closed, unless it is stuck or the poller
   has gone to sleep. *)
TasksAreFollowed ==
  \A t \in Tasks :
    t \in Stored /\ upstream[t] # "running" ~> status[t] # "open" \/ Stuck(t) \/ Asleep

=============================================================================
