--------------------------- MODULE GatewayRequest ---------------------------
(***************************************************************************)
(* The life of relay requests through the gateway engine: selection of an  *)
(* endpoint and a credential, the attempt, the stream session that decides *)
(* whether a failure may fail over, retry / cooldown / sleep, and the      *)
(* billing session with the quota reservation it owns.                     *)
(*                                                                         *)
(*   internal/gateway/execution/coordinator.go   the loop (pc)             *)
(*   relay/gateway_engine.go, relay/main.go      selector, runner, handler *)
(*   internal/gateway/stream, .../billing        the two sessions          *)
(*   relay/relay_util/gateway_billing.go, quota.go   reservation           *)
(*                                                                         *)
(* A request is one goroutine; between two of its steps other requests     *)
(* run, cooldowns lapse, the client may go away and the deadline fire.     *)
(* Database writes of one ledger call are one step with every prefix of    *)
(* them as a possible outcome (LedgerMayFail).                             *)
(***************************************************************************)
EXTENDS RetryPolicy, FiniteSets

CONSTANTS
  Requests,          (* concurrent requests                                *)
  Endpoints,         (* enabled channels of the route index                *)
  Credentials,       (* keys of the multi-key channels                     *)
  Pool,              (* [Endpoints -> SUBSET Credentials], {} = no pool    *)
  Pins,              (* the endpoints requests are pinned to; NoEndpoint: none *)
  NoEndpoint,
  NoCredential,
  MaxAttempts,       (* RetryTimes + 1, at least 1                         *)
  HasDeadline,       (* RetryTimeOut > 0                                   *)
  Writers,           (* how the requests' responses are written             *)
  Answers,           (* the failures the upstreams may answer with         *)
  Estimates,         (* possible values of Quota.estimatedQuota()          *)
  Costs,             (* possible values of Quota.GetTotalQuotaByUsage()    *)
  LedgerMayFail,     (* database and cache writes of the ledger can fail   *)
  RoutesMayShrink    (* endpoints and keys are disabled by others meanwhile *)

ASSUME ConstantsAssumption ==
  /\ Pool \in [Endpoints -> SUBSET Credentials]
  /\ \A e \in Endpoints : IsFiniteSet(Pool[e])
  /\ Pins \subseteq Endpoints \cup {NoEndpoint}
  /\ NoEndpoint \notin Endpoints
  /\ NoCredential \notin Credentials
  /\ MaxAttempts \in Nat \ {0}
  /\ HasDeadline \in BOOLEAN
  /\ Writers \in [Requests -> SUBSET {"session", "multipart", "direct"}]
  /\ Answers \subseteq AllAnswers
  /\ Estimates \subseteq Nat
  /\ Costs \subseteq Nat
  /\ LedgerMayFail \in BOOLEAN
  /\ RoutesMayShrink \in BOOLEAN

VARIABLES
  (* GatewayEngine.Run, per request *)
  pc, attempt, err, endpoint, credential, skip, signatureRetried,
  (* the contexts: specific_channel_id, the client's and the run's context *)
  pin, clientGone, runErr,
  (* the attempt: stream.Session, the Usage pointer, bytes the client saw *)
  stream, usage, visible,
  (* the request's money: billing.Session.state, the current Quota,
     committed database deltas, the consume log, a ledger write failed *)
  bill, quota, userDebit, tokenDebit, consumed, broken,
  (* route index, shared by all requests: the endpoints and the keys that are
     out of it, cooling or disabled *)
  cooling, credentialCooling,
  (* history: the endpoints a request has sent an attempt to *)
  tried

engineVars == <<pc, attempt, err, endpoint, credential, skip, signatureRetried>>
contextVars == <<pin, clientGone, runErr>>
attemptVars == <<stream, usage, visible>>
moneyVars == <<bill, quota, userDebit, tokenDebit, consumed, broken>>
routeVars == <<cooling, credentialCooling>>
vars == <<engineVars, contextVars, attemptVars, moneyVars, routeVars, tried>>

-----------------------------------------------------------------------------
(* stream.Session (internal/gateway/stream/session.go). *)

StreamStates == {"not_started", "headers_sent", "data_sent", "terminal"}
Streams == [state : StreamStates, accepted : BOOLEAN]

NewStream == [state |-> "not_started", accepted |-> FALSE]

CanFailover(s) == s.state = "not_started" /\ ~s.accepted
OutputStarted(s) == s.state # "not_started"
RecordData(s) == [s EXCEPT !.state = "data_sent"]
BeginHeaders(s) == [s EXCEPT !.state = "headers_sent"]
MarkAcceptedLost(s) == s  (* mutant *)
MarkAccepted(s) == [s EXCEPT !.accepted = TRUE]
Terminate(s) == [s EXCEPT !.state = "terminal"]

(* relay_util.Quota: the reservation it owns. *)
NewQuota == [pre |-> 0, handled |-> FALSE]
TransferAmountOnly(q, next) == [next EXCEPT !.pre = q.pre]  (* mutant *)
TransferReservationTo(q, next) == [next EXCEPT !.pre = q.pre, !.handled = q.handled]

(* What the current Quota object will give back if it is undone. *)
Reserved(q) == IF q.handled THEN q.pre ELSE 0

NotConsumed == [outcome |-> "none", cost |-> 0]

-----------------------------------------------------------------------------
Init ==
  /\ pc = [r \in Requests |-> "select"]
  /\ attempt = [r \in Requests |-> 0]
  /\ err = [r \in Requests |-> NoError]
  /\ endpoint = [r \in Requests |-> NoEndpoint]
  /\ credential = [r \in Requests |-> NoCredential]
  /\ skip = [r \in Requests |-> {}]
  /\ signatureRetried = [r \in Requests |-> FALSE]
  /\ pin \in [Requests -> Pins]
  /\ clientGone = [r \in Requests |-> FALSE]
  /\ runErr = [r \in Requests |-> "none"]
  /\ stream = [r \in Requests |-> NewStream]
  /\ usage = [r \in Requests |-> FALSE]
  /\ visible = [r \in Requests |-> FALSE]
  /\ bill = [r \in Requests |-> "none"]
  /\ quota = [r \in Requests |-> NewQuota]
  /\ userDebit = [r \in Requests |-> 0]
  /\ tokenDebit = [r \in Requests |-> 0]
  /\ consumed = [r \in Requests |-> NotConsumed]
  /\ broken = [r \in Requests |-> FALSE]
  /\ cooling = {}
  /\ credentialCooling = {}
  /\ tried = [r \in Requests |-> {}]

At(r, label) == pc[r] = label
Goto(r, label) == pc' = [pc EXCEPT ![r] = label]

-----------------------------------------------------------------------------
(* The head of the loop: ctx check, then Selector.Next. *)

(* runCtx is done: return with its classification. *)
StopOnContext(r) ==
  /\ At(r, "select")
  /\ runErr[r] # "none"
  /\ err' = [err EXCEPT ![r] = ClassifyContext(runErr[r])]
  /\ Goto(r, "finish")
  /\ UNCHANGED <<attempt, endpoint, credential, skip, signatureRetried,
                 contextVars, attemptVars, moneyVars, routeVars, tried>>

(* HasEnabledCredential: no pool, or a key of it that is not cooling. *)
HasEnabledCredential(e) == Pool[e] = {} \/ Pool[e] \ credentialCooling # {}

(* What fetchChannel may return: the pinned endpoint, or one the balancer's
   filters let through (not skipped by this request, not cooling). *)
Candidates(r) ==
  IF pin[r] # NoEndpoint THEN {pin[r]}
  ELSE { e \in Endpoints \ (cooling \cup skip[r]) : HasEnabledCredential(e) }

SelectEndpoint(r) ==
  /\ At(r, "select")
  /\ runErr[r] = "none"
  /\ \E e \in Candidates(r) : endpoint' = [endpoint EXCEPT ![r] = e]
  /\ Goto(r, "credential")
  /\ UNCHANGED <<attempt, err, credential, skip, signatureRetried,
                 contextVars, attemptVars, moneyVars, routeVars, tried>>

(* Selector.Next failed. Only a request without attempts gets an error of its
   own; a later one keeps the error of its last attempt. *)
SelectorFails(r) ==
  /\ err' = [err EXCEPT ![r] = IF attempt[r] = 0 THEN "config_invalid" ELSE @]
  /\ Goto(r, "finish")
  /\ UNCHANGED <<attempt, endpoint, credential, skip, signatureRetried,
                 contextVars, attemptVars, moneyVars, routeVars, tried>>

(* Mutant: the selector waits until an endpoint is back. *)
NoCandidateWaits(r) ==
  At(r, "select") /\ runErr[r] = "none" /\ Candidates(r) # {} /\ SelectorFails(r)

NoCandidate(r) == At(r, "select") /\ runErr[r] = "none" /\ SelectorFails(r)

(* SelectGatewayCredential filters the pool again: keys may have started to
   cool since the balancer looked. Then Run begins with a new session. *)
SelectCredential(r) ==
  LET e == endpoint[r] IN
  /\ At(r, "credential")
  /\ \E c \in IF Pool[e] = {} THEN {NoCredential} ELSE Pool[e] \ credentialCooling :
       credential' = [credential EXCEPT ![r] = c]
  /\ attempt' = [attempt EXCEPT ![r] = @ + 1]
  /\ tried' = [tried EXCEPT ![r] = @ \cup {e}]
  /\ stream' = [stream EXCEPT ![r] = NewStream]
  /\ usage' = [usage EXCEPT ![r] = FALSE]
  /\ Goto(r, "run")
  /\ UNCHANGED <<err, endpoint, skip, signatureRetried, visible,
                 contextVars, moneyVars, routeVars>>

NoCredentialLeft(r) ==
  /\ At(r, "credential")
  /\ ~HasEnabledCredential(endpoint[r])
  /\ SelectorFails(r)

-----------------------------------------------------------------------------
(* relayHandlerWithSession before the upstream is called. *)

(* A done answer without output becomes a protocol error: never retried. *)
LocalReject(r) ==
  /\ err' = [err EXCEPT ![r] = "protocol_error"]
  /\ Goto(r, "decide")
  /\ UNCHANGED <<attempt, endpoint, credential, skip, signatureRetried,
                 contextVars, attemptVars, routeVars, tried>>

(* getPromptTokens fails, or the prompt exceeds the model's limit. *)
PromptRejected(r) ==
  /\ At(r, "run")
  /\ LocalReject(r)
  /\ UNCHANGED moneyVars

(* PreQuotaConsumption with nothing to hold: the estimate is zero, or the
   user owns more than 100 times the estimate and is trusted. *)
PrechargeTrusted(r) ==
  /\ At(r, "run") /\ bill[r] = "none"
  /\ bill' = [bill EXCEPT ![r] = "reserved"]
  /\ quota' = [quota EXCEPT ![r] = NewQuota]
  /\ Goto(r, "send")
  /\ UNCHANGED <<userDebit, tokenDebit, consumed, broken, attempt, err, endpoint,
                 credential, skip, signatureRetried, contextVars, attemptVars,
                 routeVars, tried>>

(* PreConsumeTokenQuota: token first, then user. *)
PrechargeHolds(r) ==
  /\ At(r, "run") /\ bill[r] = "none"
  /\ \E e \in Estimates \ {0} :
       /\ quota' = [quota EXCEPT ![r] = [pre |-> e, handled |-> TRUE]]
       /\ userDebit' = [userDebit EXCEPT ![r] = @ + e]
       /\ tokenDebit' = [tokenDebit EXCEPT ![r] = @ + e]
  /\ bill' = [bill EXCEPT ![r] = "reserved"]
  /\ Goto(r, "send")
  /\ UNCHANGED <<consumed, broken, attempt, err, endpoint, credential, skip,
                 signatureRetried, contextVars, attemptVars, routeVars, tried>>

(* Not enough quota, or the database refused: the session stays New. The
   token may have been decremented when the user's update fails. *)
PrechargeFails(r) ==
  /\ At(r, "run") /\ bill[r] = "none"
  /\ bill' = [bill EXCEPT ![r] = "new"]
  /\ \E e \in Estimates \ {0} :
       /\ quota' = [quota EXCEPT ![r] = [pre |-> e, handled |-> FALSE]]
       /\ \/ UNCHANGED <<tokenDebit, broken>>
          \/ /\ LedgerMayFail
             /\ tokenDebit' = [tokenDebit EXCEPT ![r] = @ + e]
             /\ broken' = [broken EXCEPT ![r] = TRUE]
  /\ LocalReject(r)
  /\ UNCHANGED <<userDebit, consumed>>

(* GatewayBilling.BeginAttempt: a new Quota takes the reservation over. *)
BeginAttempt(r) ==
  /\ At(r, "run") /\ bill[r] # "none"
  /\ quota' = [quota EXCEPT ![r] = TransferReservationTo(@, NewQuota)]
  /\ Goto(r, "send")
  /\ UNCHANGED <<bill, userDebit, tokenDebit, consumed, broken, attempt, err,
                 endpoint, credential, skip, signatureRetried, contextVars,
                 attemptVars, routeVars, tried>>

-----------------------------------------------------------------------------
(* relay.send(): the upstream call and the response writers. *)

(* A step of send() before it returns: only the attempt changes. *)
Sending(r) ==
  /\ At(r, "send")
  /\ UNCHANGED <<engineVars, contextVars, moneyVars, routeVars, tried>>

(* A byte put on the wire reaches a client that is still there. *)
Reaches(r) == visible' = [visible EXCEPT ![r] = @ \/ ~clientGone[r]]

(* tryWrite, responseJsonClient: recordGatewayOutput, then the write. *)
Output(r) ==
  /\ Sending(r)
  /\ Writers[r] \cap {"session", "multipart"} # {}
  /\ stream[r].state \in {"not_started", "headers_sent", "data_sent"}
  /\ stream' = [stream EXCEPT ![r] = RecordData(@)]
  /\ Reaches(r)
  /\ UNCHANGED usage

(* responseMultipart: BeginHeaders, then WriteHeader. *)
HeadersWritten(r) ==
  /\ Sending(r)
  /\ "multipart" \in Writers[r]
  /\ stream[r].state = "not_started"
  /\ stream' = [stream EXCEPT ![r] = BeginHeaders(@)]
  /\ Reaches(r)
  /\ UNCHANGED usage

(* responseCustom and the raw body passthrough write past the session. *)
WriteUnrecorded(r) ==
  /\ Sending(r)
  /\ "direct" \in Writers[r]
  /\ stream[r].state = "not_started"
  /\ Reaches(r)
  /\ UNCHANGED <<stream, usage>>

(* The provider fills the Usage the attempt was given. *)
ReportUsage(r) ==
  /\ Sending(r)
  /\ usage' = [usage EXCEPT ![r] = TRUE]
  /\ UNCHANGED <<stream, visible>>

(* terminateGatewayOutput: the client's context is done (with or without
   output), or the response ended, was refused by the client, or broke off. *)
StreamTerminates(r) ==
  /\ Sending(r)
  /\ "session" \in Writers[r]
  /\ clientGone[r] \/ stream[r].state = "data_sent"
  /\ stream' = [stream EXCEPT ![r] = Terminate(@)]
  /\ UNCHANGED <<usage, visible>>

SendSucceeds(r) ==
  /\ At(r, "send")
  /\ err' = [err EXCEPT ![r] = NoError]
  /\ Goto(r, "settle")
  /\ UNCHANGED <<attempt, endpoint, credential, skip, signatureRetried,
                 contextVars, attemptVars, moneyVars, routeVars, tried>>

(* send() returned an error. Reported usage marks the upstream accepted; an
   attempt that cannot fail over is settled. "done" on an attempt that still
   could fail over is the runner's own final word. A writer that bypassed the
   session always returns with done set. *)
SendFails(r) ==
  LET s == IF usage[r] THEN MarkAccepted(stream[r]) ELSE stream[r]
      specific == pin[r] # NoEndpoint
  IN
  /\ At(r, "send")
  /\ stream' = [stream EXCEPT ![r] = s]
  /\ \E answer \in Answers, done \in BOOLEAN :
       /\ visible[r] /\ CanFailover(s) => done
       /\ err' = [err EXCEPT ![r] =
                    IF done /\ CanFailover(s) THEN "protocol_error"
                    ELSE ClassifyRelayError(answer, specific, signatureRetried[r])]
       /\ signatureRetried' = [signatureRetried EXCEPT ![r] =
                                  SignatureRetriedAfter(answer, specific, @)]
  /\ Goto(r, IF CanFailover(s) THEN "decide" ELSE "settle")
  /\ UNCHANGED <<attempt, endpoint, credential, skip, usage, visible,
                 contextVars, moneyVars, routeVars, tried>>

-----------------------------------------------------------------------------
(* billing.Session.Settle -> completedQuotaConsumption. The ledger writes the
   difference to the reservation: user, then token, then the cache. *)

(* Mutant: only successful requests are logged. *)
LogSuccessOnly(r, cost) ==
  consumed' = [consumed EXCEPT ![r] =
    IF err[r] = NoError THEN [outcome |-> "succeeded", cost |-> cost] ELSE @]

(* Whatever the writes did, the consume log is written. *)
LogConsumption(r, cost) ==
  consumed' = [consumed EXCEPT ![r] =
    [outcome |-> IF err[r] = NoError THEN "succeeded" ELSE "failed", cost |-> cost]]

AfterSettle(r) ==
  /\ Goto(r, IF err[r] = NoError THEN "done" ELSE "decide")
  /\ UNCHANGED <<attempt, err, endpoint, credential, skip, signatureRetried,
                 contextVars, attemptVars, quota, routeVars, tried>>

SettleCommits(r) ==
  /\ At(r, "settle") /\ bill[r] = "reserved"
  /\ \E cost \in Costs :
       /\ userDebit' = [userDebit EXCEPT ![r] = @ + (cost - quota[r].pre)]
       /\ tokenDebit' = [tokenDebit EXCEPT ![r] = @ + (cost - quota[r].pre)]
       /\ LogConsumption(r, cost)
  /\ bill' = [bill EXCEPT ![r] = "settled"]
  /\ AfterSettle(r)
  /\ UNCHANGED broken

(* One of the three writes fails: the session stays Reserved. *)
SettleBreaks(r) ==
  /\ At(r, "settle") /\ bill[r] = "reserved"
  /\ LedgerMayFail
  /\ \E cost \in Costs \ {quota[r].pre} :
       LET delta == cost - quota[r].pre IN
       /\ \/ UNCHANGED <<userDebit, tokenDebit>>
          \/ /\ userDebit' = [userDebit EXCEPT ![r] = @ + delta]
             /\ \/ UNCHANGED tokenDebit
                \/ tokenDebit' = [tokenDebit EXCEPT ![r] = @ + delta]
       /\ LogConsumption(r, cost)
  /\ broken' = [broken EXCEPT ![r] = TRUE]
  /\ AfterSettle(r)
  /\ UNCHANGED bill

-----------------------------------------------------------------------------
(* The tail of the loop: decide, cool down, sleep. *)

Retry(r) ==
  Decide(err[r], attempt[r], MaxAttempts, OutputStarted(stream[r]), stream[r].accepted)

DecideAttempt(r) ==
  /\ At(r, "decide")
  /\ Goto(r, IF Retry(r) THEN "cooldown" ELSE "finish")
  /\ UNCHANGED <<attempt, err, endpoint, credential, skip, signatureRetried,
                 contextVars, attemptVars, moneyVars, routeVars, tried>>

AfterCooldown(r) ==
  /\ At(r, "cooldown")
  /\ Goto(r, "sleep")
  /\ UNCHANGED <<attempt, err, endpoint, credential, signatureRetried,
                 contextVars, attemptVars, moneyVars, tried>>

(* A pool of two or more keys cools the key alone: the endpoint is not
   skipped and may be selected again. *)
CooldownCredential(r) ==
  /\ AfterCooldown(r)
  /\ credential[r] # NoCredential
  /\ Cardinality(Pool[endpoint[r]]) >= 2
  /\ credentialCooling' = credentialCooling \cup {credential[r]}
  /\ UNCHANGED <<skip, cooling>>

(* Mutant: the endpoint cools, but the request does not skip it. *)
CooldownWithoutSkip(r) ==
  /\ AfterCooldown(r)
  /\ credential[r] = NoCredential \/ Cardinality(Pool[endpoint[r]]) < 2
  /\ cooling' \in {cooling, cooling \cup {endpoint[r]}}
  /\ UNCHANGED <<skip, credentialCooling>>

(* Otherwise the endpoint cools for everybody (unless the configured duration
   is zero) and this request skips it. *)
CooldownEndpoint(r) ==
  /\ AfterCooldown(r)
  /\ credential[r] = NoCredential \/ Cardinality(Pool[endpoint[r]]) < 2
  /\ cooling' \in {cooling, cooling \cup {endpoint[r]}}
  /\ skip' = [skip EXCEPT ![r] = @ \cup {endpoint[r]}]
  /\ UNCHANGED credentialCooling

(* The timer fires; the loop's own bound is checked once more. *)
Wakes(r) ==
  /\ At(r, "sleep")
  /\ Goto(r, IF attempt[r] < MaxAttempts THEN "select" ELSE "finish")
  /\ UNCHANGED <<attempt, err, endpoint, credential, skip, signatureRetried,
                 contextVars, attemptVars, moneyVars, routeVars, tried>>

SleepInterrupted(r) ==
  /\ At(r, "sleep")
  /\ runErr[r] # "none"
  /\ err' = [err EXCEPT ![r] = ClassifyContext(runErr[r])]
  /\ Goto(r, "finish")
  /\ UNCHANGED <<attempt, endpoint, credential, skip, signatureRetried,
                 contextVars, attemptVars, moneyVars, routeVars, tried>>

-----------------------------------------------------------------------------
(* executeRelayGateway after a failed run: RefundIfReserved. The ledger only
   logs what goes wrong, so the session is Refunded in every case. *)

Finish(r) ==
  /\ At(r, "finish")
  /\ Goto(r, "done")
  /\ UNCHANGED <<attempt, err, endpoint, credential, skip, signatureRetried,
                 contextVars, attemptVars, quota, consumed, routeVars, tried>>

Refund(r) ==
  /\ Finish(r)
  /\ bill[r] = "reserved"
  /\ bill' = [bill EXCEPT ![r] = "refunded"]
  /\ userDebit' = [userDebit EXCEPT ![r] = @ - Reserved(quota[r])]
  /\ tokenDebit' = [tokenDebit EXCEPT ![r] = @ - Reserved(quota[r])]
  /\ UNCHANGED broken

RefundBreaks(r) ==
  /\ LedgerMayFail
  /\ Finish(r)
  /\ bill[r] = "reserved"
  /\ Reserved(quota[r]) > 0
  /\ bill' = [bill EXCEPT ![r] = "refunded"]
  /\ userDebit' \in {userDebit, [userDebit EXCEPT ![r] = @ - Reserved(quota[r])]}
  /\ broken' = [broken EXCEPT ![r] = TRUE]
  /\ UNCHANGED tokenDebit

(* Mutant: a failed request may return with its reservation held. *)
ReturnsUnrefunded(r) ==
  /\ Finish(r)
  /\ UNCHANGED <<bill, userDebit, tokenDebit, broken>>

NothingToRefund(r) ==
  /\ Finish(r)
  /\ bill[r] # "reserved"
  /\ UNCHANGED <<bill, userDebit, tokenDebit, broken>>

-----------------------------------------------------------------------------
(* The environment. *)

ClientDisconnects(r) ==
  /\ pc[r] # "done" /\ ~clientGone[r]
  /\ clientGone' = [clientGone EXCEPT ![r] = TRUE]
  /\ runErr' = [runErr EXCEPT ![r] = IF @ = "none" THEN "canceled" ELSE @]
  /\ UNCHANGED <<pin, engineVars, attemptVars, moneyVars, routeVars, tried>>

(* context.WithTimeout over RetryTimeOut. *)
DeadlineExpires(r) ==
  /\ HasDeadline /\ pc[r] # "done" /\ runErr[r] = "none"
  /\ runErr' = [runErr EXCEPT ![r] = "deadline"]
  /\ UNCHANGED <<pin, clientGone, engineVars, attemptVars, moneyVars, routeVars,
                 tried>>

(* A cooldown's expiry passes, or an administrator enables or clears it. *)
CooldownExpires ==
  /\ \E e \in cooling : cooling' = cooling \ {e}
  /\ UNCHANGED <<credentialCooling, engineVars, contextVars, attemptVars, moneyVars, tried>>

CredentialCooldownExpires ==
  /\ \E c \in credentialCooling : credentialCooling' = credentialCooling \ {c}
  /\ UNCHANGED <<cooling, engineVars, contextVars, attemptVars, moneyVars, tried>>

(* notifyChannelRelayError disables a faulty channel, or the key of a pool, in
   a goroutine of its own; requests beyond Requests and administrators take
   endpoints and keys out, too. *)
EndpointLeaves ==
  /\ RoutesMayShrink
  /\ \E e \in Endpoints : cooling' = cooling \cup {e}
  /\ UNCHANGED <<credentialCooling, engineVars, contextVars, attemptVars, moneyVars, tried>>

CredentialLeaves ==
  /\ RoutesMayShrink
  /\ \E c \in Credentials : credentialCooling' = credentialCooling \cup {c}
  /\ UNCHANGED <<cooling, engineVars, contextVars, attemptVars, moneyVars, tried>>

-----------------------------------------------------------------------------
SelectStep(r) ==
  \/ StopOnContext(r) \/ SelectEndpoint(r) \/ NoCandidate(r)
  \/ SelectCredential(r) \/ NoCredentialLeft(r)

RunStep(r) ==
  \/ PromptRejected(r) \/ PrechargeTrusted(r) \/ PrechargeHolds(r)
  \/ PrechargeFails(r) \/ BeginAttempt(r)

SendStep(r) ==
  \/ Output(r) \/ HeadersWritten(r) \/ WriteUnrecorded(r) \/ ReportUsage(r)
  \/ StreamTerminates(r) \/ SendSucceeds(r) \/ SendFails(r)

SettleStep(r) == SettleCommits(r) \/ SettleBreaks(r)

RetryStep(r) ==
  \/ DecideAttempt(r) \/ CooldownCredential(r) \/ CooldownEndpoint(r)
  \/ Wakes(r) \/ SleepInterrupted(r)

FinishStep(r) == Refund(r) \/ RefundBreaks(r) \/ NothingToRefund(r)

Step(r) ==
  \/ SelectStep(r) \/ RunStep(r) \/ SendStep(r)
  \/ SettleStep(r) \/ RetryStep(r) \/ FinishStep(r)

Environment ==
  \/ \E r \in Requests : ClientDisconnects(r) \/ DeadlineExpires(r)
  \/ CooldownExpires \/ CredentialCooldownExpires
  \/ EndpointLeaves \/ CredentialLeaves

Next == (\E r \in Requests : Step(r)) \/ Environment

Spec == Init /\ [][Next]_vars

(* The goroutine of a request runs until its handler returns: sleeps are
   timers, upstream calls end by their idle and client timeouts. *)
Fairness == \A r \in Requests : WF_vars(Step(r))

FairSpec == Spec /\ Fairness

-----------------------------------------------------------------------------
(* Properties. *)

Labels ==
  { "select", "credential", "run", "send", "settle", "decide", "cooldown",
    "sleep", "finish", "done" }
BillStates == {"none", "new", "reserved", "settled", "refunded"}

TypeOK ==
  /\ pc \in [Requests -> Labels]
  /\ attempt \in [Requests -> Nat]
  /\ err \in [Requests -> ErrorClasses \cup {NoError}]
  /\ endpoint \in [Requests -> Endpoints \cup {NoEndpoint}]
  /\ credential \in [Requests -> Credentials \cup {NoCredential}]
  /\ skip \in [Requests -> SUBSET Endpoints]
  /\ signatureRetried \in [Requests -> BOOLEAN]
  /\ pin \in [Requests -> Endpoints \cup {NoEndpoint}]
  /\ clientGone \in [Requests -> BOOLEAN]
  /\ runErr \in [Requests -> ContextErrors \cup {"none"}]
  /\ stream \in [Requests -> Streams]
  /\ usage \in [Requests -> BOOLEAN]
  /\ visible \in [Requests -> BOOLEAN]
  /\ bill \in [Requests -> BillStates]
  /\ quota \in [Requests -> [pre : Nat, handled : BOOLEAN]]
  /\ userDebit \in [Requests -> Int]
  /\ tokenDebit \in [Requests -> Int]
  /\ consumed \in
       [Requests -> [outcome : {"none", "succeeded", "failed"}, cost : Nat]]
  /\ broken \in [Requests -> BOOLEAN]
  /\ cooling \in SUBSET Endpoints
  /\ credentialCooling \in SUBSET Credentials
  /\ tried \in [Requests -> SUBSET Endpoints]

(* The request has been answered, or its last attempt is past the point where
   it may be replaced: upstream work is owed for. *)
Owed(r) == err[r] = NoError \/ ~CanFailover(stream[r])

(* Across all its attempts a finished request has paid exactly the one cost
   that was logged, if upstream work is owed for, and otherwise nothing at
   all: user and token agree, no reservation is left behind, none is returned
   twice (relay/main.go Settle, gateway_engine.go RefundIfReserved,
   quota.go TransferReservationTo). Only a failed ledger write excuses it. *)
ChargedOrReleased ==
  \A r \in Requests : pc[r] = "done" /\ ~broken[r] =>
    /\ userDebit[r] = consumed[r].cost
    /\ tokenDebit[r] = consumed[r].cost
    /\ IF Owed(r) /\ attempt[r] > 0
       THEN bill[r] = "settled"
       ELSE bill[r] # "settled" /\ bill[r] # "reserved" /\ consumed[r].cost = 0

(* Upstream work is written to the consume log whatever the ledger's writes
   do (quota.go completedQuotaConsumption, relay/main.go 257-267). *)
UpstreamWorkIsLogged ==
  \A r \in Requests :
    pc[r] = "done" /\ attempt[r] > 0 /\ Owed(r) => consumed[r].outcome # "none"

(* A further attempt is sent only if the client has seen nothing of the one
   before, and that one reported no usage and was not accepted upstream
   (stream.Session.CanFailover, retry.Policy.Decide, relay/main.go 250-256). *)
NoFailoverAfterOutput ==
  [][\A r \in Requests : attempt'[r] > attempt[r] =>
       CanFailover(stream[r]) /\ ~usage[r] /\ ~visible[r]]_vars

(* A request comes back to an endpoint it has tried only where the endpoint
   has other keys to offer, although another request's success, an expired or
   a zero cooldown may have put the endpoint back into the route index
   (relayCooldownStore.Cooldown, requeststate.Skip, buildChannelFilters). *)
NoSecondTryWithoutOtherKeys ==
  [][\A r \in Requests : attempt'[r] > attempt[r] /\ endpoint[r] \in tried[r] =>
       Cardinality(Pool[endpoint[r]]) >= 2]_vars

(* No more attempts than RetryTimes + 1, and a pinned endpoint is tried once
   (coordinator.go Run, classifyRelayError). *)
AttemptBudget ==
  \A r \in Requests :
    attempt[r] <= IF pin[r] = NoEndpoint THEN MaxAttempts ELSE 1

(* Every request ends, whatever fails and cools down meanwhile. *)
RequestEnds == \A r \in Requests : <>(pc[r] = "done")

(* The gateway implements RequestCharge when the ledger's writes succeed. *)
ChargeStatusOf(b) ==
  CASE b \in {"none", "new"} -> "open"
    [] b = "reserved"        -> "held"
    [] b = "settled"         -> "charged"
    [] b = "refunded"        -> "released"

chargeStatus == [r \in Requests |-> ChargeStatusOf(bill[r])]

Charge == INSTANCE RequestCharge
            WITH Amounts <- Estimates \cup Costs \cup {0},
                 status <- chargeStatus, debit <- userDebit

ImplementsRequestCharge == Charge!FairSpec

=============================================================================
