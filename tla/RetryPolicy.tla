----------------------------- MODULE RetryPolicy -----------------------------
(***************************************************************************)
(* The pure decisions of the gateway: how the answer of an upstream is     *)
(* classified (relay/common.go, internal/gateway/retry/policy.go) and      *)
(* whether the engine may try again (Policy.Decide).                       *)
(*                                                                         *)
(* Status codes, messages and channel types are abstracted to the Answer   *)
(* they amount to: what the classification tells apart.                    *)
(***************************************************************************)
EXTENDS Integers

NoError == "none"

(* retry.ErrorClass, the constants of policy.go. *)
ErrorClasses ==
  { "local_validation", "model_not_found", "config_invalid", "auth_invalid",
    "permission_denied", "rate_limited", "transient",
    "context_window_exceeded", "request_too_large", "client_canceled",
    "deadline_exceeded", "protocol_error", "unknown" }

(* The classes Decide answers with Retry (and, always together, Cooldown). *)
RetryableClasses ==
  { "auth_invalid", "permission_denied", "rate_limited", "transient",
    "deadline_exceeded", "request_too_large" }

(* Why runCtx is done: the client went away, or the request deadline fired. *)
ContextErrors == { "canceled", "deadline" }

(* What an upstream (or the handler itself) answers a failed attempt with.
   "key_fault" is a 400 whose message says the channel's key is at fault,
   "thought_signature" a 400 about an unverifiable Gemini signature. *)
AllAnswers ==
  { "local", "bad_request", "key_fault", "thought_signature",
    "unauthorized", "forbidden", "not_found", "too_large",
    "too_many_requests", "redirect", "request_timeout", "server_error",
    "other" }

-----------------------------------------------------------------------------
(* ClassifyHTTP(0, ctx.Err()): the only form the engine calls. *)
ClassifyContext(cause) ==
  IF cause = "canceled" THEN "client_canceled" ELSE "deadline_exceeded"

(* shouldRetryBadRequest: a 400 is retried on another channel when the key is
   at fault, and once per request for a thought signature. *)
ShouldRetryBadRequest(answer, signatureRetried) ==
  \/ answer = "key_fault"
  \/ answer = "thought_signature" /\ ~signatureRetried

(* The side effect of shouldRetryBadRequest: c.Set("thought_signature_retried"). *)
SignatureRetriedAfter(answer, specific, signatureRetried) ==
  signatureRetried \/ (answer = "thought_signature" /\ ~specific)

(* By status code, once the answer is neither local nor from a pinned endpoint. *)
ClassifyStatus(answer, signatureRetried) ==
  CASE answer \in {"bad_request", "key_fault", "thought_signature"} ->
         IF ShouldRetryBadRequest(answer, signatureRetried)
         THEN "auth_invalid" ELSE "local_validation"
    [] answer = "unauthorized"      -> "auth_invalid"
    [] answer = "forbidden"         -> "permission_denied"
    [] answer = "not_found"         -> "model_not_found"
    [] answer = "too_large"         -> "request_too_large"
    [] answer = "too_many_requests" -> "rate_limited"
    [] answer = "redirect"          -> "transient"
    [] answer = "request_timeout"   -> "client_canceled"
    [] answer = "server_error"      -> "transient"
    [] OTHER                        -> "local_validation"

(* Mutant: a pinned endpoint is classified like any other. *)
ClassifyIgnoringPin(answer, specific, signatureRetried) ==
  IF answer = "local" THEN "local_validation"
  ELSE ClassifyStatus(answer, signatureRetried)

ClassifyRelayError(answer, specific, signatureRetried) ==
  CASE answer = "local"             -> "local_validation"
    [] answer # "local" /\ specific -> "config_invalid"
    [] OTHER                        -> ClassifyStatus(answer, signatureRetried)

-----------------------------------------------------------------------------
(* Policy.Decide: the checks in the order of the code. FinalCode is not
   modelled; Cooldown is set exactly when Retry is, Delay is always positive
   then (BaseCooldown is one second). *)
Decide(err, attempt, maxAttempts, outputStarted, accepted) ==
  /\ err # NoError
  /\ ~outputStarted
  /\ ~accepted
  /\ maxAttempts > 0
  /\ attempt < maxAttempts
  /\ err \in RetryableClasses
=============================================================================
