------------------------ MODULE GatewayRequestProofs ------------------------
(***************************************************************************)
(* Proofs about GatewayRequest for any set of requests, endpoints and      *)
(* credentials, any attempt budget, estimates and costs, and with or       *)
(* without failing ledger writes.                                          *)
(*                                                                         *)
(* The inductive invariant says, for each request alone, what the phase of *)
(* the engine's loop (Phase) and the state of the billing session          *)
(* (Balanced) mean for its attempt and for its money. Only cooldowns are   *)
(* shared, and no part of the invariant mentions them.                     *)
(***************************************************************************)
EXTENDS GatewayRequest, TLAPS

(* An endpoint is selected from the loop's head to its tail. *)
Selected ==
  \A r \in Requests :
    pc[r] \notin {"select", "finish", "done"} => endpoint[r] \in Endpoints

(* The attempt may be replaced: nothing was seen, reported or accepted. *)
Replaceable(r) == CanFailover(stream[r]) /\ ~usage[r] /\ ~visible[r]

Phase(r) ==
  /\ bill[r] # "none" => attempt[r] > 0
  /\ pc[r] \in {"select", "credential"} =>
       /\ Replaceable(r)
       /\ bill[r] \in {"none", "reserved"}
       /\ attempt[r] > 0 => err[r] # NoError /\ bill[r] = "reserved"
  /\ pc[r] = "run" =>
       Replaceable(r) /\ attempt[r] > 0 /\ bill[r] \in {"none", "reserved"}
  /\ pc[r] \in {"send", "settle"} => bill[r] = "reserved"
  /\ pc[r] = "settle" => Owed(r)
  /\ pc[r] \in {"decide", "finish"} => err[r] # NoError
  /\ pc[r] = "decide" =>
       /\ attempt[r] > 0
       /\ CanFailover(stream[r]) =>
            \/ err[r] = "protocol_error"
            \/ Replaceable(r) /\ bill[r] = "reserved"
  /\ pc[r] \in {"cooldown", "sleep"} =>
       Replaceable(r) /\ err[r] # NoError /\ bill[r] = "reserved"

(* Nothing is logged before the session settles; past the attempt, upstream
   work is logged, and settled unless a ledger write failed. *)
Settlement(r) ==
  /\ pc[r] \in {"decide", "finish"} /\ ~CanFailover(stream[r]) =>
       /\ attempt[r] > 0
       /\ consumed[r].outcome # "none"
       /\ broken[r] \/ bill[r] = "settled"
  /\ bill[r] = "settled" => attempt[r] > 0 /\ Owed(r)
  /\ pc[r] = "done" =>
       /\ attempt[r] > 0 /\ Owed(r) =>
            /\ consumed[r].outcome # "none"
            /\ broken[r] \/ bill[r] = "settled"
       /\ broken[r] \/ bill[r] # "reserved"

(* What the database has been told, by state of the billing session. *)
Balanced(r) ==
  ~broken[r] =>
    /\ userDebit[r] = tokenDebit[r]
    /\ bill[r] \in {"none", "new", "refunded"} =>
         userDebit[r] = 0 /\ consumed[r] = NotConsumed
    /\ bill[r] = "reserved" =>
         /\ quota[r].pre = Reserved(quota[r])
         /\ userDebit[r] = quota[r].pre
         /\ consumed[r] = NotConsumed
    /\ bill[r] = "settled" => userDebit[r] = consumed[r].cost

IInv ==
  /\ TypeOK
  /\ Selected
  /\ \A r \in Requests : Phase(r) /\ Settlement(r) /\ Balanced(r)

-----------------------------------------------------------------------------
(* Every answer is classified, never as success. *)
LEMMA Classified ==
  ASSUME NEW answer, NEW specific, NEW sig
  PROVE  ClassifyRelayError(answer, specific, sig) \in ErrorClasses
BY DEF ClassifyRelayError, ClassifyStatus, ErrorClasses

(* The budget, estimates and costs are numbers. *)
LEMMA Constants ==
  /\ MaxAttempts \in Nat
  /\ Estimates \subseteq Nat
  /\ Costs \subseteq Nat
  /\ Pool \in [Endpoints -> SUBSET Credentials]
  /\ Pins \subseteq Endpoints \cup {NoEndpoint}
BY ConstantsAssumption DEF ConstantsAssumption

(* The operations of a stream session. *)
LEMMA StreamOperations ==
  ASSUME NEW s \in Streams
  PROVE  /\ NewStream \in Streams
         /\ RecordData(s) \in Streams
         /\ BeginHeaders(s) \in Streams
         /\ MarkAccepted(s) \in Streams
         /\ Terminate(s) \in Streams
BY DEF Streams, StreamStates, NewStream, RecordData, BeginHeaders, MarkAccepted, Terminate

(* Types hold initially. *)
LEMMA TypeInit == Init => TypeOK /\ Selected
<1> SUFFICES ASSUME Init PROVE TypeOK /\ Selected
  OBVIOUS
<1>1. pin \in [Requests -> Endpoints \cup {NoEndpoint}]
  <2>1. pin \in [Requests -> Pins]
    BY DEF Init
  <2> QED BY <2>1, Constants
<1> QED
  BY <1>1 DEF Init, TypeOK, Selected, Labels, BillStates, NoError, NewStream,
              Streams, StreamStates, NewQuota, NotConsumed

(* Every step keeps them: one step of the proof per action. *)
LEMMA TypeStep == TypeOK /\ Selected /\ [Next]_vars => (TypeOK /\ Selected)'
<1> SUFFICES ASSUME TypeOK, Selected, [Next]_vars PROVE (TypeOK /\ Selected)'
  OBVIOUS
<1> USE Constants DEF TypeOK, Selected, engineVars, contextVars, attemptVars, moneyVars,
                      routeVars, At, Goto
<1>1. ASSUME NEW r \in Requests, SelectStep(r) PROVE (TypeOK /\ Selected)'
  <2>1. CASE StopOnContext(r)
    BY <2>1 DEF StopOnContext, ClassifyContext, Labels, BillStates, ErrorClasses, NoError
  <2>2. CASE SelectEndpoint(r)
    BY <2>2 DEF SelectEndpoint, Candidates, Labels, BillStates, ErrorClasses, NoError
  <2>3. CASE NoCandidate(r)
    BY <2>3 DEF NoCandidate, SelectorFails, Labels, BillStates, ErrorClasses, NoError
  <2>4. CASE SelectCredential(r)
    <3>1. credential' \in [Requests -> Credentials \cup {NoCredential}]
      <4>1. endpoint[r] \in Endpoints /\ Pool[endpoint[r]] \subseteq Credentials
        BY <2>4 DEF SelectCredential
      <4>2. PICK c \in Credentials \cup {NoCredential} :
              credential' = [credential EXCEPT ![r] = c]
        BY <2>4, <4>1 DEF SelectCredential
      <4> QED BY <4>2
    <3>2. tried' \in [Requests -> SUBSET Endpoints]
      BY <2>4 DEF SelectCredential
    <3>3. stream' \in [Requests -> Streams] /\ usage' \in [Requests -> BOOLEAN]
      BY <2>4, StreamOperations DEF SelectCredential
    <3> QED BY <2>4, <3>1, <3>2, <3>3 DEF SelectCredential, Labels
  <2>5. CASE NoCredentialLeft(r)
    BY <2>5 DEF NoCredentialLeft, SelectorFails, Labels, BillStates, ErrorClasses, NoError
  <2> QED BY <1>1, <2>1, <2>2, <2>3, <2>4, <2>5 DEF SelectStep
<1>2. ASSUME NEW r \in Requests, RunStep(r) PROVE (TypeOK /\ Selected)'
  <2>1. CASE PromptRejected(r)
    BY <2>1 DEF PromptRejected, LocalReject, Labels, BillStates, ErrorClasses, NoError
  <2>2. CASE PrechargeTrusted(r)
    BY <2>2 DEF PrechargeTrusted, NewQuota, Labels, BillStates, ErrorClasses, NoError
  <2>3. CASE PrechargeHolds(r)
    BY <2>3 DEF PrechargeHolds, Labels, BillStates, ErrorClasses, NoError
  <2>4. CASE PrechargeFails(r)
    <3>1. quota' \in [Requests -> [pre : Nat, handled : BOOLEAN]]
      BY <2>4 DEF PrechargeFails
    <3>2. tokenDebit' \in [Requests -> Int] /\ broken' \in [Requests -> BOOLEAN]
      <4>1. PICK e \in Nat :
              \/ UNCHANGED <<tokenDebit, broken>>
              \/ /\ tokenDebit' = [tokenDebit EXCEPT ![r] = @ + e]
                 /\ broken' = [broken EXCEPT ![r] = TRUE]
        BY <2>4 DEF PrechargeFails
      <4>2. tokenDebit' \in [Requests -> Int]
        BY <4>1
      <4>3. broken' \in [Requests -> BOOLEAN]
        BY <4>1
      <4> QED BY <4>2, <4>3
    <3> QED BY <2>4, <3>1, <3>2
            DEF PrechargeFails, LocalReject, Labels, BillStates, ErrorClasses
  <2>5. CASE BeginAttempt(r)
    BY <2>5 DEF BeginAttempt, NewQuota, TransferReservationTo, Labels, BillStates, ErrorClasses, NoError
  <2> QED BY <1>2, <2>1, <2>2, <2>3, <2>4, <2>5 DEF RunStep
<1>3. ASSUME NEW r \in Requests, SendStep(r) PROVE (TypeOK /\ Selected)'
  <2>1. CASE Output(r)
    <3>1. stream' \in [Requests -> Streams]
      BY <2>1, StreamOperations DEF Output
    <3>2. visible' \in [Requests -> BOOLEAN]
      BY <2>1 DEF Output, Reaches
    <3> QED BY <2>1, <3>1, <3>2 DEF Output, Sending
  <2>2. CASE HeadersWritten(r)
    <3>1. stream' \in [Requests -> Streams]
      BY <2>2, StreamOperations DEF HeadersWritten
    <3>2. visible' \in [Requests -> BOOLEAN]
      BY <2>2 DEF HeadersWritten, Reaches
    <3> QED BY <2>2, <3>1, <3>2 DEF HeadersWritten, Sending
  <2>3. CASE WriteUnrecorded(r)
    BY <2>3 DEF WriteUnrecorded, Sending, Reaches, Labels, BillStates, ErrorClasses, NoError
  <2>4. CASE ReportUsage(r)
    BY <2>4 DEF ReportUsage, Sending, Labels, BillStates, ErrorClasses, NoError
  <2>5. CASE StreamTerminates(r)
    <3>1. stream' \in [Requests -> Streams]
      BY <2>5, StreamOperations DEF StreamTerminates
    <3> QED BY <2>5, <3>1 DEF StreamTerminates, Sending
  <2>6. CASE SendSucceeds(r)
    BY <2>6 DEF SendSucceeds, Labels, BillStates, ErrorClasses, NoError
  <2>7. CASE SendFails(r)
    <3>1. stream' \in [Requests -> Streams]
      BY <2>7, StreamOperations DEF SendFails
    <3>2. err' \in [Requests -> ErrorClasses \cup {NoError}]
      BY <2>7, Classified DEF SendFails, ErrorClasses
    <3>3. signatureRetried' \in [Requests -> BOOLEAN]
      BY <2>7 DEF SendFails, SignatureRetriedAfter
    <3> QED BY <2>7, <3>1, <3>2, <3>3 DEF SendFails, Labels
  <2> QED BY <1>3, <2>1, <2>2, <2>3, <2>4, <2>5, <2>6, <2>7 DEF SendStep
<1>4. ASSUME NEW r \in Requests, SettleStep(r) PROVE (TypeOK /\ Selected)'
  <2>1. CASE SettleCommits(r)
    BY <2>1 DEF SettleCommits, AfterSettle, LogConsumption, Labels, BillStates, ErrorClasses, NoError
  <2>2. CASE SettleBreaks(r)
    BY <2>2 DEF SettleBreaks, AfterSettle, LogConsumption, Labels, BillStates, ErrorClasses, NoError
  <2> QED BY <1>4, <2>1, <2>2 DEF SettleStep
<1>5. ASSUME NEW r \in Requests, RetryStep(r) PROVE (TypeOK /\ Selected)'
  <2>1. CASE DecideAttempt(r)
    BY <2>1 DEF DecideAttempt, Labels, BillStates, ErrorClasses, NoError
  <2>2. CASE CooldownCredential(r)
    BY <2>2 DEF CooldownCredential, AfterCooldown, Labels, BillStates, ErrorClasses, NoError
  <2>3. CASE CooldownEndpoint(r)
    BY <2>3 DEF CooldownEndpoint, AfterCooldown, Labels, BillStates, ErrorClasses, NoError
  <2>4. CASE Wakes(r)
    BY <2>4 DEF Wakes, Labels, BillStates, ErrorClasses, NoError
  <2>5. CASE SleepInterrupted(r)
    BY <2>5 DEF SleepInterrupted, ClassifyContext, Labels, BillStates, ErrorClasses, NoError
  <2> QED BY <1>5, <2>1, <2>2, <2>3, <2>4, <2>5 DEF RetryStep
<1>6. ASSUME NEW r \in Requests, FinishStep(r) PROVE (TypeOK /\ Selected)'
  <2>1. CASE Refund(r)
    BY <2>1 DEF Refund, Finish, Reserved, Labels, BillStates, ErrorClasses, NoError
  <2>2. CASE RefundBreaks(r)
    BY <2>2 DEF RefundBreaks, Finish, Reserved, Labels, BillStates, ErrorClasses, NoError
  <2>3. CASE NothingToRefund(r)
    BY <2>3 DEF NothingToRefund, Finish, Labels, BillStates, ErrorClasses, NoError
  <2> QED BY <1>6, <2>1, <2>2, <2>3 DEF FinishStep
<1>7. ASSUME NEW r \in Requests, ClientDisconnects(r) \/ DeadlineExpires(r) PROVE (TypeOK /\ Selected)'
  BY <1>7 DEF ClientDisconnects, DeadlineExpires, ContextErrors
<1>8. CASE CooldownExpires \/ CredentialCooldownExpires \/ EndpointLeaves \/ CredentialLeaves
  BY <1>8 DEF CooldownExpires, CredentialCooldownExpires, EndpointLeaves, CredentialLeaves
<1>9. CASE UNCHANGED vars
  BY <1>9 DEF vars
<1> QED BY <1>1, <1>2, <1>3, <1>4, <1>5, <1>6, <1>7, <1>8, <1>9
        DEF Next, Step, Environment

(* The variables keep their types, and an attempt has an endpoint. *)
THEOREM TypeCorrect == Spec => []TypeOK
<1>1. Init => TypeOK /\ Selected
  BY TypeInit
<1>2. TypeOK /\ Selected /\ [Next]_vars => (TypeOK /\ Selected)'
  BY TypeStep
<1> QED BY <1>1, <1>2, PTL DEF Spec
-----------------------------------------------------------------------------
(* Money. *)

(* The inductive invariant holds initially. *)
LEMMA MoneyInit == Init => IInv
<1> SUFFICES ASSUME Init, NEW r \in Requests
             PROVE  Phase(r) /\ Settlement(r) /\ Balanced(r)
  BY TypeInit DEF IInv
<1>1. Phase(r) /\ Settlement(r)
  BY DEF Init, Phase, Settlement, Replaceable, CanFailover, NewStream
<1>2. Balanced(r)
  BY DEF Init, Balanced
<1> QED BY <1>1, <1>2

(* Every step preserves the inductive invariant: a step of one request leaves
   what it says of the others alone. *)
LEMMA MoneyStep == IInv /\ [Next]_vars => IInv'
<1> SUFFICES ASSUME IInv, [Next]_vars, NEW q \in Requests
             PROVE  (Phase(q) /\ Settlement(q) /\ Balanced(q))'
  BY TypeStep DEF IInv
<1> DEFINE Local == Phase(q) /\ Settlement(q) /\ Balanced(q)
<1>0. TypeOK /\ Phase(q) /\ Settlement(q) /\ Balanced(q)
  BY DEF IInv
<1> USE <1>0, Constants
        DEF TypeOK, engineVars, contextVars, attemptVars, moneyVars, routeVars,
            At, Goto, Phase, Settlement, Balanced, Owed, Replaceable,
            CanFailover, Reserved, NotConsumed, NoError
<1>1. ASSUME NEW r \in Requests, SelectStep(r) PROVE Local'
  <2>1. CASE StopOnContext(r)
    BY <2>1 DEF StopOnContext, ClassifyContext
  <2>2. CASE SelectEndpoint(r)
    BY <2>2 DEF SelectEndpoint
  <2>3. CASE NoCandidate(r)
    BY <2>3 DEF NoCandidate, SelectorFails
  <2>4. CASE SelectCredential(r)
    BY <2>4 DEF SelectCredential, NewStream
  <2>5. CASE NoCredentialLeft(r)
    BY <2>5 DEF NoCredentialLeft, SelectorFails
  <2> QED BY <1>1, <2>1, <2>2, <2>3, <2>4, <2>5 DEF SelectStep
<1>2. ASSUME NEW r \in Requests, RunStep(r) PROVE Local'
  <2>1. CASE PromptRejected(r)
    BY <2>1 DEF PromptRejected, LocalReject
  <2>2. CASE PrechargeTrusted(r)
    BY <2>2 DEF PrechargeTrusted, NewQuota
  <2>3. CASE PrechargeHolds(r)
    BY <2>3 DEF PrechargeHolds
  <2>4. CASE PrechargeFails(r)
    BY <2>4 DEF PrechargeFails, LocalReject
  <2>5. CASE BeginAttempt(r)
    BY <2>5 DEF BeginAttempt, NewQuota, TransferReservationTo
  <2> QED BY <1>2, <2>1, <2>2, <2>3, <2>4, <2>5 DEF RunStep
<1>3. ASSUME NEW r \in Requests, SendStep(r) PROVE Local'
  <2>1. CASE Output(r)
    BY <2>1 DEF Output, Sending, Reaches, RecordData
  <2>2. CASE HeadersWritten(r)
    BY <2>2 DEF HeadersWritten, Sending, Reaches, BeginHeaders
  <2>3. CASE WriteUnrecorded(r)
    BY <2>3 DEF WriteUnrecorded, Sending, Reaches
  <2>4. CASE ReportUsage(r)
    BY <2>4 DEF ReportUsage, Sending
  <2>5. CASE StreamTerminates(r)
    BY <2>5 DEF StreamTerminates, Sending, Terminate
  <2>6. CASE SendSucceeds(r)
    BY <2>6 DEF SendSucceeds
  <2>7. CASE SendFails(r)
    <3>1. CASE q = r
      <4> DEFINE s == IF usage[r] THEN MarkAccepted(stream[r]) ELSE stream[r]
      <4>1. /\ stream'[r] = s
            /\ UNCHANGED <<attempt, usage, visible, bill, quota, userDebit,
                           tokenDebit, consumed, broken>>
            /\ pc'[r] = IF CanFailover(s) THEN "decide" ELSE "settle"
        BY <2>7 DEF SendFails
      <4>2. /\ err'[r] # NoError
            /\ CanFailover(s) /\ visible[r] => err'[r] = "protocol_error"
        <5>1. PICK answer \in Answers, done \in BOOLEAN :
                /\ visible[r] /\ CanFailover(s) => done
                /\ err' = [err EXCEPT ![r] =
                     IF done /\ CanFailover(s) THEN "protocol_error"
                     ELSE ClassifyRelayError(answer, pin[r] # NoEndpoint,
                                             signatureRetried[r])]
          BY <2>7 DEF SendFails
        <5>2. NoError \notin ErrorClasses
          BY DEF ErrorClasses
        <5> HIDE DEF s
        <5> QED BY <5>1, <5>2, Classified
      <4>3. CanFailover(s) => ~usage[r]
        BY DEF MarkAccepted, Streams
      <4>4. bill[r] = "reserved" /\ pc[r] = "send"
        BY <2>7, <3>1 DEF SendFails
      <4> QED BY <3>1, <4>1, <4>2, <4>3, <4>4
    <3>2. CASE q # r
      BY <2>7, <3>2 DEF SendFails
    <3> QED BY <3>1, <3>2
  <2> QED BY <1>3, <2>1, <2>2, <2>3, <2>4, <2>5, <2>6, <2>7 DEF SendStep
<1>4. ASSUME NEW r \in Requests, SettleStep(r) PROVE Local'
  <2>1. CASE SettleCommits(r)
    BY <2>1 DEF SettleCommits, AfterSettle, LogConsumption
  <2>2. CASE SettleBreaks(r)
    BY <2>2 DEF SettleBreaks, AfterSettle, LogConsumption
  <2> QED BY <1>4, <2>1, <2>2 DEF SettleStep
<1>5. ASSUME NEW r \in Requests, RetryStep(r) PROVE Local'
  <2>1. CASE DecideAttempt(r)
    BY <2>1 DEF DecideAttempt, Retry, Decide, RetryableClasses, OutputStarted
  <2>2. CASE CooldownCredential(r)
    BY <2>2 DEF CooldownCredential, AfterCooldown
  <2>3. CASE CooldownEndpoint(r)
    BY <2>3 DEF CooldownEndpoint, AfterCooldown
  <2>4. CASE Wakes(r)
    BY <2>4 DEF Wakes
  <2>5. CASE SleepInterrupted(r)
    BY <2>5 DEF SleepInterrupted, ClassifyContext
  <2> QED BY <1>5, <2>1, <2>2, <2>3, <2>4, <2>5 DEF RetryStep
<1>6. ASSUME NEW r \in Requests, FinishStep(r) PROVE Local'
  <2>1. CASE Refund(r)
    BY <2>1 DEF Refund, Finish
  <2>2. CASE RefundBreaks(r)
    BY <2>2 DEF RefundBreaks, Finish
  <2>3. CASE NothingToRefund(r)
    BY <2>3 DEF NothingToRefund, Finish
  <2> QED BY <1>6, <2>1, <2>2, <2>3 DEF FinishStep
<1>7. ASSUME NEW r \in Requests, ClientDisconnects(r) \/ DeadlineExpires(r)
      PROVE  Local'
  BY <1>7 DEF ClientDisconnects, DeadlineExpires
<1>8. CASE CooldownExpires \/ CredentialCooldownExpires \/ EndpointLeaves \/ CredentialLeaves
  BY <1>8 DEF CooldownExpires, CredentialCooldownExpires, EndpointLeaves, CredentialLeaves
<1>9. CASE UNCHANGED vars
  BY <1>9 DEF vars
<1> QED BY <1>1, <1>2, <1>3, <1>4, <1>5, <1>6, <1>7, <1>8, <1>9
        DEF Next, Step, Environment

(* The inductive invariant about the money of a request holds throughout. *)
THEOREM InvariantHolds == Spec => []IInv
<1> QED BY MoneyInit, MoneyStep, PTL DEF Spec

(* A finished request has paid the one cost that was logged or nothing, with
   no reservation left, unless a ledger write failed. *)
THEOREM ChargeIsCorrect == Spec => []ChargedOrReleased
<1>1. IInv => ChargedOrReleased
  BY DEF IInv, TypeOK, BillStates, Settlement, Balanced, Owed, NotConsumed, ChargedOrReleased
<1> QED BY <1>1, InvariantHolds, PTL

(* Upstream work reaches the consume log even when ledger writes fail. *)
THEOREM WorkIsLogged == Spec => []UpstreamWorkIsLogged
<1>1. IInv => UpstreamWorkIsLogged
  BY DEF IInv, Settlement, UpstreamWorkIsLogged
<1> QED BY <1>1, InvariantHolds, PTL
-----------------------------------------------------------------------------
(* Attempts. *)

(* Only SelectCredential begins an attempt. *)
LEMMA AttemptBegins ==
  ASSUME TypeOK, [Next]_vars, NEW q \in Requests, attempt'[q] > attempt[q]
  PROVE  SelectCredential(q)
<1> USE DEF TypeOK, engineVars, contextVars, attemptVars, moneyVars, routeVars, At, Goto
<1>1. ASSUME NEW r \in Requests, SelectStep(r) PROVE SelectCredential(q)
  <2>1. attempt' = attempt \/ SelectCredential(r)
    BY <1>1 DEF SelectStep, StopOnContext, SelectEndpoint, NoCandidate,
                NoCredentialLeft, SelectorFails
  <2>2. CASE SelectCredential(r)
    <3>1. attempt' = [attempt EXCEPT ![r] = @ + 1]
      BY <2>2 DEF SelectCredential
    <3>2. q = r
      BY <3>1
    <3> QED BY <2>2, <3>2
  <2>3. attempt' # attempt
    OBVIOUS
  <2> QED BY <2>1, <2>2, <2>3
<1>2. ASSUME NEW r \in Requests, RunStep(r) PROVE SelectCredential(q)
  BY <1>2 DEF RunStep, PromptRejected, PrechargeTrusted, PrechargeHolds, PrechargeFails, BeginAttempt, LocalReject
<1>3. ASSUME NEW r \in Requests, SendStep(r) PROVE SelectCredential(q)
  BY <1>3 DEF SendStep, Output, HeadersWritten, WriteUnrecorded, ReportUsage, StreamTerminates, SendSucceeds, SendFails, Sending
<1>4. ASSUME NEW r \in Requests, SettleStep(r) PROVE SelectCredential(q)
  BY <1>4 DEF SettleStep, SettleCommits, SettleBreaks, AfterSettle
<1>5. ASSUME NEW r \in Requests, RetryStep(r) PROVE SelectCredential(q)
  BY <1>5 DEF RetryStep, DecideAttempt, CooldownCredential, CooldownEndpoint, Wakes, SleepInterrupted, AfterCooldown
<1>6. ASSUME NEW r \in Requests, FinishStep(r) PROVE SelectCredential(q)
  BY <1>6 DEF FinishStep, Refund, RefundBreaks, NothingToRefund, Finish
<1>7. ASSUME NEW r \in Requests, ClientDisconnects(r) \/ DeadlineExpires(r)
      PROVE  SelectCredential(q)
  BY <1>7 DEF ClientDisconnects, DeadlineExpires
<1>8. CASE CooldownExpires \/ CredentialCooldownExpires \/ EndpointLeaves \/ CredentialLeaves
  BY <1>8 DEF CooldownExpires, CredentialCooldownExpires, EndpointLeaves, CredentialLeaves
<1>9. CASE UNCHANGED vars
  BY <1>9 DEF vars
<1> QED BY <1>1, <1>2, <1>3, <1>4, <1>5, <1>6, <1>7, <1>8, <1>9
        DEF Next, Step, Environment

(* A further attempt is sent only if the one before left no trace at the
   client and none upstream. *)
THEOREM FailoverIsSafe == Spec => NoFailoverAfterOutput
<1>1. ASSUME IInv, [Next]_vars
      PROVE  [\A r \in Requests : attempt'[r] > attempt[r] =>
                CanFailover(stream[r]) /\ ~usage[r] /\ ~visible[r]]_vars
  <2> SUFFICES ASSUME NEW r \in Requests, attempt'[r] > attempt[r]
               PROVE  CanFailover(stream[r]) /\ ~usage[r] /\ ~visible[r]
    OBVIOUS
  <2>1. SelectCredential(r)
    BY <1>1, AttemptBegins DEF IInv
  <2>2. pc[r] = "credential"
    BY <2>1 DEF SelectCredential, At
  <2> QED BY <1>1, <2>2 DEF IInv, Phase, Replaceable
<1> QED BY <1>1, InvariantHolds, PTL DEF Spec, NoFailoverAfterOutput
-----------------------------------------------------------------------------
(* The budget of attempts, and the endpoints they go to. *)

Pinned(r) == pin[r] # NoEndpoint
OtherKeys(e) == Cardinality(Pool[e]) >= 2

(* There is room for the attempt being selected; a pinned request never comes
   back for a second one. *)
Budget(r) ==
  /\ attempt[r] <= IF Pinned(r) THEN 1 ELSE MaxAttempts
  /\ pc[r] \in {"select", "credential"} =>
       attempt[r] < MaxAttempts /\ (Pinned(r) => attempt[r] = 0)
  /\ Pinned(r) /\ pc[r] \in {"settle", "decide"} => err[r] \notin RetryableClasses
  /\ Pinned(r) => pc[r] \notin {"cooldown", "sleep"}

(* Once an attempt is over, its endpoint has other keys or is skipped. *)
Skipped(r) ==
  /\ attempt[r] = 0 => tried[r] = {}
  /\ \A e \in tried[r] :
       \/ OtherKeys(e)
       \/ e \in skip[r]
       \/ e = endpoint[r] /\ pc[r] \notin {"select", "credential", "sleep"}
  /\ pc[r] = "credential" /\ ~Pinned(r) => endpoint[r] \notin skip[r]

RouteInv == IInv /\ \A r \in Requests : Budget(r) /\ Skipped(r)

(* The invariant about attempts and skipped endpoints holds initially. *)
LEMMA RouteInit == Init => RouteInv
BY MoneyInit, ConstantsAssumption
   DEF ConstantsAssumption, Init, RouteInv, Budget, Skipped, Pinned, NoError, RetryableClasses

(* Every step preserves the invariant about attempts and skipped endpoints. *)
LEMMA RouteStep == RouteInv /\ [Next]_vars => RouteInv'
<1> SUFFICES ASSUME RouteInv, [Next]_vars, NEW q \in Requests
             PROVE  (Budget(q) /\ Skipped(q))'
  BY MoneyStep DEF RouteInv
<1> DEFINE Local == Budget(q) /\ Skipped(q)
<1>0. TypeOK /\ Selected /\ Phase(q) /\ Budget(q) /\ Skipped(q)
  BY DEF RouteInv, IInv
<1> USE <1>0, Constants
        DEF TypeOK, Selected, engineVars, contextVars, attemptVars, moneyVars,
            routeVars, At, Goto, Budget, Skipped, Pinned
<1>1. ASSUME NEW r \in Requests, SelectStep(r) PROVE Local'
  <2>1. CASE StopOnContext(r)
    BY <2>1 DEF StopOnContext
  <2>2. CASE SelectEndpoint(r)
    BY <2>2 DEF SelectEndpoint, Candidates
  <2>3. CASE NoCandidate(r)
    BY <2>3 DEF NoCandidate, SelectorFails
  <2>4. CASE SelectCredential(r)
    BY <2>4 DEF SelectCredential
  <2>5. CASE NoCredentialLeft(r)
    BY <2>5 DEF NoCredentialLeft, SelectorFails
  <2> QED BY <1>1, <2>1, <2>2, <2>3, <2>4, <2>5 DEF SelectStep
<1>2. ASSUME NEW r \in Requests, RunStep(r) PROVE Local'
  <2>1. CASE PromptRejected(r)
    BY <2>1 DEF PromptRejected, LocalReject, RetryableClasses
  <2>2. CASE PrechargeTrusted(r)
    BY <2>2 DEF PrechargeTrusted
  <2>3. CASE PrechargeHolds(r)
    BY <2>3 DEF PrechargeHolds
  <2>4. CASE PrechargeFails(r)
    BY <2>4 DEF PrechargeFails, LocalReject, RetryableClasses
  <2>5. CASE BeginAttempt(r)
    BY <2>5 DEF BeginAttempt
  <2> QED BY <1>2, <2>1, <2>2, <2>3, <2>4, <2>5 DEF RunStep
<1>3. ASSUME NEW r \in Requests, SendStep(r) PROVE Local'
  <2>1. CASE Output(r)
    BY <2>1 DEF Output, Sending
  <2>2. CASE HeadersWritten(r)
    BY <2>2 DEF HeadersWritten, Sending
  <2>3. CASE WriteUnrecorded(r)
    BY <2>3 DEF WriteUnrecorded, Sending
  <2>4. CASE ReportUsage(r)
    BY <2>4 DEF ReportUsage, Sending
  <2>5. CASE StreamTerminates(r)
    BY <2>5 DEF StreamTerminates, Sending
  <2>6. CASE SendSucceeds(r)
    BY <2>6 DEF SendSucceeds, NoError, RetryableClasses
  <2>7. CASE SendFails(r)
    <3>1. q = r /\ Pinned(r) => err'[r] \notin RetryableClasses
      <4>1. PICK answer \in Answers, done \in BOOLEAN :
              err'[r] = "protocol_error" \/
              err'[r] = ClassifyRelayError(answer, pin[r] # NoEndpoint,
                                           signatureRetried[r])
        BY <2>7 DEF SendFails
      <4>2. "protocol_error" \notin RetryableClasses
        BY DEF RetryableClasses
      <4> QED BY <4>1, <4>2 DEF ClassifyRelayError, RetryableClasses
    <3>2. /\ pc[r] = "send" /\ UNCHANGED <<attempt, endpoint, skip, tried, pin>>
          /\ pc' \in {[pc EXCEPT ![r] = "decide"], [pc EXCEPT ![r] = "settle"]}
          /\ q # r => err'[q] = err[q]
      BY <2>7 DEF SendFails
    <3> QED BY <3>1, <3>2
  <2> QED BY <1>3, <2>1, <2>2, <2>3, <2>4, <2>5, <2>6, <2>7 DEF SendStep
<1>4. ASSUME NEW r \in Requests, SettleStep(r) PROVE Local'
  <2>1. CASE SettleCommits(r)
    BY <2>1 DEF SettleCommits, AfterSettle
  <2>2. CASE SettleBreaks(r)
    BY <2>2 DEF SettleBreaks, AfterSettle
  <2> QED BY <1>4, <2>1, <2>2 DEF SettleStep
<1>5. ASSUME NEW r \in Requests, RetryStep(r) PROVE Local'
  <2>1. CASE DecideAttempt(r)
    BY <2>1 DEF DecideAttempt, Retry, Decide
  <2>2. CASE CooldownCredential(r)
    BY <2>2 DEF CooldownCredential, AfterCooldown, OtherKeys
  <2>3. CASE CooldownEndpoint(r)
    BY <2>3 DEF CooldownEndpoint, AfterCooldown
  <2>4. CASE Wakes(r)
    BY <2>4 DEF Wakes
  <2>5. CASE SleepInterrupted(r)
    BY <2>5 DEF SleepInterrupted
  <2> QED BY <1>5, <2>1, <2>2, <2>3, <2>4, <2>5 DEF RetryStep
<1>6. ASSUME NEW r \in Requests, FinishStep(r) PROVE Local'
  <2>1. CASE Refund(r)
    BY <2>1 DEF Refund, Finish
  <2>2. CASE RefundBreaks(r)
    BY <2>2 DEF RefundBreaks, Finish
  <2>3. CASE NothingToRefund(r)
    BY <2>3 DEF NothingToRefund, Finish
  <2> QED BY <1>6, <2>1, <2>2, <2>3 DEF FinishStep
<1>7. ASSUME NEW r \in Requests, ClientDisconnects(r) \/ DeadlineExpires(r)
      PROVE  Local'
  BY <1>7 DEF ClientDisconnects, DeadlineExpires
<1>8. CASE CooldownExpires \/ CredentialCooldownExpires \/ EndpointLeaves \/ CredentialLeaves
  BY <1>8 DEF CooldownExpires, CredentialCooldownExpires, EndpointLeaves, CredentialLeaves
<1>9. CASE UNCHANGED vars
  BY <1>9 DEF vars
<1> QED BY <1>1, <1>2, <1>3, <1>4, <1>5, <1>6, <1>7, <1>8, <1>9
        DEF Next, Step, Environment

(* No more attempts than configured; a pinned endpoint is tried once. *)
THEOREM BudgetIsKept == Spec => []AttemptBudget
<1>1. RouteInv => AttemptBudget
  BY DEF RouteInv, Budget, Pinned, AttemptBudget
<1> QED BY RouteInit, RouteStep, <1>1, PTL DEF Spec

(* An endpoint without other keys is never tried twice by one request. *)
THEOREM NoSecondTry == Spec => NoSecondTryWithoutOtherKeys
<1>1. ASSUME RouteInv, [Next]_vars
      PROVE  [\A r \in Requests : attempt'[r] > attempt[r] /\ endpoint[r] \in tried[r] =>
                Cardinality(Pool[endpoint[r]]) >= 2]_vars
  <2> SUFFICES ASSUME NEW r \in Requests, attempt'[r] > attempt[r], endpoint[r] \in tried[r]
               PROVE  Cardinality(Pool[endpoint[r]]) >= 2
    OBVIOUS
  <2>1. pc[r] = "credential"
    BY <1>1, AttemptBegins DEF RouteInv, IInv, SelectCredential, At
  <2> QED BY <1>1, <2>1 DEF RouteInv, IInv, TypeOK, Budget, Skipped, OtherKeys
<1> QED BY RouteInit, RouteStep, <1>1, PTL DEF Spec, NoSecondTryWithoutOtherKeys
-----------------------------------------------------------------------------
(* Refinement of RequestCharge, when no ledger write fails. *)

Unbroken == \A r \in Requests : ~broken[r]

(* A move of one request's billing session moves its abstract status alone. *)
LEMMA StatusMoves ==
  ASSUME TypeOK, NEW r \in Requests, NEW b, bill' = [bill EXCEPT ![r] = b]
  PROVE  chargeStatus' = [chargeStatus EXCEPT ![r] = ChargeStatusOf(b)]
BY DEF TypeOK, chargeStatus

(* Requests that move neither the session nor the user's debit stutter. *)
LEMMA Stutters ==
  ASSUME UNCHANGED <<bill, userDebit>>
  PROVE  UNCHANGED Charge!chargeVars
BY DEF Charge!chargeVars, chargeStatus

(* A step without broken ledger writes is a step of RequestCharge, or none. *)
LEMMA ChargeStep ==
  ASSUME ~LedgerMayFail, IInv, Unbroken, [Next]_vars
  PROVE  Unbroken' /\ [Charge!Next]_(Charge!chargeVars)
<1> DEFINE Goal == Unbroken' /\ [Charge!Next]_(Charge!chargeVars)
<1> USE DEF engineVars, contextVars, attemptVars, moneyVars, routeVars
<1>0. /\ TypeOK
      /\ \A r \in Requests : Balanced(r) /\ ~broken[r]
      /\ Estimates \subseteq Nat /\ Costs \subseteq Nat
      /\ userDebit \in [Requests -> Int]
      /\ bill \in [Requests -> BillStates]
  BY Constants DEF IInv, Unbroken, TypeOK
<1>1. ASSUME NEW r \in Requests, SelectStep(r) PROVE Goal
  <2>1. UNCHANGED <<bill, userDebit, broken>>
    BY <1>1 DEF SelectStep, StopOnContext, SelectEndpoint, NoCandidate, SelectCredential, NoCredentialLeft, SelectorFails
  <2> QED BY <2>1, Stutters DEF Unbroken
<1>2. ASSUME NEW r \in Requests, RunStep(r) PROVE Goal
  <2>1. CASE PromptRejected(r) \/ BeginAttempt(r)
    <3>1. UNCHANGED <<bill, userDebit, broken>>
      BY <2>1 DEF PromptRejected, BeginAttempt
    <3> QED BY <3>1, Stutters DEF Unbroken
  <2>2. CASE PrechargeFails(r)
    <3>1. bill[r] = "none" /\ bill' = [bill EXCEPT ![r] = "new"] /\ UNCHANGED <<userDebit, broken>>
      BY <2>2 DEF PrechargeFails
    <3>2. chargeStatus' = chargeStatus
      <4> SUFFICES ASSUME NEW q \in Requests
                   PROVE  ChargeStatusOf(bill'[q]) = ChargeStatusOf(bill[q])
        BY DEF chargeStatus
      <4> QED BY <1>0, <3>1 DEF ChargeStatusOf
    <3> QED BY <3>1, <3>2 DEF Unbroken, Charge!chargeVars
  <2>3. CASE PrechargeTrusted(r) \/ PrechargeHolds(r)
    <3>1. PICK a \in Estimates \cup {0} :
            /\ bill[r] = "none"
            /\ bill' = [bill EXCEPT ![r] = "reserved"]
            /\ userDebit' = [userDebit EXCEPT ![r] = @ + a]
            /\ UNCHANGED broken
      <4>1. CASE PrechargeTrusted(r)
        <5>1. userDebit' = [userDebit EXCEPT ![r] = @ + 0]
          BY <1>0, <4>1 DEF PrechargeTrusted
        <5> QED BY <4>1, <5>1 DEF PrechargeTrusted
      <4>2. CASE PrechargeHolds(r)
        BY <4>2 DEF PrechargeHolds
      <4> QED BY <2>3, <4>1, <4>2
    <3>2. userDebit[r] = 0
      BY <1>0, <3>1 DEF Balanced
    <3>3. userDebit' = [userDebit EXCEPT ![r] = a]
      BY <1>0, <3>1, <3>2
    <3>4. chargeStatus[r] = "open" /\ chargeStatus' = [chargeStatus EXCEPT ![r] = "held"]
      BY <1>0, <3>1, StatusMoves DEF chargeStatus, ChargeStatusOf
    <3>5. Charge!Hold(r)
      BY <3>1, <3>3, <3>4 DEF Charge!Hold, Charge!Move
    <3> QED BY <3>1, <3>5 DEF Unbroken, Charge!Next
  <2> QED BY <1>2, <2>1, <2>2, <2>3 DEF RunStep
<1>3. ASSUME NEW r \in Requests, SendStep(r) PROVE Goal
  <2>1. UNCHANGED <<bill, userDebit, broken>>
    BY <1>3 DEF SendStep, Output, HeadersWritten, WriteUnrecorded, ReportUsage, StreamTerminates, SendSucceeds, SendFails, Sending
  <2> QED BY <2>1, Stutters DEF Unbroken
<1>4. ASSUME NEW r \in Requests, SettleStep(r) PROVE Goal
  <2>1. SettleCommits(r)
    BY <1>4 DEF SettleStep, SettleBreaks
  <2>2. PICK cost \in Costs :
          /\ bill[r] = "reserved"
          /\ bill' = [bill EXCEPT ![r] = "settled"]
          /\ userDebit' = [userDebit EXCEPT ![r] = @ + (cost - quota[r].pre)]
          /\ UNCHANGED broken
    BY <2>1 DEF SettleCommits
  <2>3. userDebit[r] = quota[r].pre /\ quota[r].pre \in Nat
    BY <1>0, <2>2 DEF Balanced, TypeOK
  <2>4. userDebit' = [userDebit EXCEPT ![r] = cost]
    <3>1. userDebit[r] + (cost - quota[r].pre) = cost
      BY <1>0, <2>3
    <3> QED BY <2>2, <3>1
  <2>5. chargeStatus[r] = "held" /\ chargeStatus' = [chargeStatus EXCEPT ![r] = "charged"]
    BY <1>0, <2>2, StatusMoves DEF chargeStatus, ChargeStatusOf
  <2>6. Charge!Charge(r)
    BY <2>2, <2>4, <2>5 DEF Charge!Charge, Charge!Move
  <2> QED BY <2>2, <2>6 DEF Unbroken, Charge!Next
<1>5. ASSUME NEW r \in Requests, RetryStep(r) PROVE Goal
  <2>1. UNCHANGED <<bill, userDebit, broken>>
    BY <1>5 DEF RetryStep, DecideAttempt, CooldownCredential, CooldownEndpoint, Wakes, SleepInterrupted, AfterCooldown
  <2> QED BY <2>1, Stutters DEF Unbroken
<1>6. ASSUME NEW r \in Requests, FinishStep(r) PROVE Goal
  <2>1. CASE NothingToRefund(r)
    <3>1. UNCHANGED <<bill, userDebit, broken>>
      BY <2>1 DEF NothingToRefund
    <3> QED BY <3>1, Stutters DEF Unbroken
  <2>2. CASE Refund(r)
    <3>1. /\ bill[r] = "reserved"
          /\ bill' = [bill EXCEPT ![r] = "refunded"]
          /\ userDebit' = [userDebit EXCEPT ![r] = @ - Reserved(quota[r])]
          /\ UNCHANGED broken
      BY <2>2 DEF Refund
    <3>2. userDebit[r] = Reserved(quota[r]) /\ userDebit[r] \in Int
      BY <1>0, <3>1 DEF Balanced, TypeOK
    <3>3. userDebit' = [userDebit EXCEPT ![r] = 0]
      <4>1. userDebit[r] - Reserved(quota[r]) = 0
        BY <3>2
      <4> QED BY <3>1, <4>1
    <3>4. chargeStatus[r] = "held" /\ chargeStatus' = [chargeStatus EXCEPT ![r] = "released"]
      BY <1>0, <3>1, StatusMoves DEF chargeStatus, ChargeStatusOf
    <3>5. Charge!Release(r)
      BY <3>3, <3>4 DEF Charge!Release, Charge!Move
    <3> QED BY <3>1, <3>5 DEF Unbroken, Charge!Next
  <2> QED BY <1>6, <2>1, <2>2 DEF FinishStep, RefundBreaks
<1>7. CASE Environment \/ UNCHANGED vars
  <2>1. UNCHANGED <<bill, userDebit, broken>>
    BY <1>7 DEF Environment, ClientDisconnects, DeadlineExpires, CooldownExpires,
                CredentialCooldownExpires, EndpointLeaves, CredentialLeaves, vars
  <2> QED BY <2>1, Stutters DEF Unbroken
<1> QED BY <1>1, <1>2, <1>3, <1>4, <1>5, <1>6, <1>7 DEF Next, Step

(* With a ledger whose writes succeed, the gateway implements RequestCharge:
   one hold at most, resolved by one charge or one full release. *)
THEOREM Implements == ASSUME ~LedgerMayFail PROVE Spec => Charge!Spec
<1>1. Init => Unbroken /\ Charge!Init
  BY DEF Init, Unbroken, Charge!Init, chargeStatus, ChargeStatusOf
<1>2. IInv /\ Unbroken /\ [Next]_vars => Unbroken' /\ [Charge!Next]_(Charge!chargeVars)
  BY ChargeStep
<1> QED BY <1>1, <1>2, InvariantHolds, PTL DEF Spec, Charge!Spec
=============================================================================
