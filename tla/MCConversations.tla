--------------------------- MODULE MCConversations ---------------------------
(***************************************************************************)
(* What belongs to the conversations of clients, on small instances: a     *)
(* chat stream converted for a Claude client, one converted for a          *)
(* Responses client, two realtime sessions of one user, the limiters in    *)
(* front of them, and the credentials that requests use and refresh. They  *)
(* share no state; a behaviour follows one of them, chosen at its start,   *)
(* while the others rest.                                                  *)
(***************************************************************************)
EXTENDS
  ClaudeStream, ResponsesStream, RealtimeSession, RateLimits, GatewayCredentials

CONSTANTS s1, s2, a1, a2

TwoSessions == {s1, s2}
TwoAskers == {a1, a2}
TwoRequests == 1..2
TwoCalls == 1..2
EveryUsage == {"finish", "after", "never"}
UsageAfter == {"after"}
EveryLimiter == AllLimiters

VARIABLE followed

Init ==
  /\ ClaudeInit /\ ResponsesInit /\ RealtimeInit /\ LimitInit /\ CredentialInit
  /\ followed \in {"claude", "responses", "realtime", "limits", "credentials"}
  /\ followed # "claude" => way = "direct" /\ plan = CHOOSE x \in UsageComes : TRUE
  /\ followed # "limits" => limiter = CHOOSE x \in Limiters : TRUE
  /\ batching => followed = "realtime"
  /\ troubles = IF batching THEN MaxTroubles ELSE 0
  /\ followed # "credentials" => DOMAIN index = {1}

Next ==
  /\ UNCHANGED followed
  /\ \/ /\ followed = "claude" /\ ClaudeNext
        /\ UNCHANGED <<responsesVars, realtimeVars, limitVars, credentialVars>>
     \/ /\ followed = "responses" /\ ResponsesNext
        /\ UNCHANGED <<claudeVars, realtimeVars, limitVars, credentialVars>>
     \/ /\ followed = "realtime" /\ RealtimeNext
        /\ UNCHANGED <<claudeVars, responsesVars, limitVars, credentialVars>>
     \/ /\ followed = "limits" /\ LimitNext
        /\ UNCHANGED <<claudeVars, responsesVars, realtimeVars, credentialVars>>
     \/ /\ followed = "credentials" /\ CredentialNext
        /\ UNCHANGED <<claudeVars, responsesVars, realtimeVars, limitVars>>

(* Only the part that is followed is fair. *)
Spec ==
  /\ Init
  /\ [][Next]_<<followed, claudeVars, responsesVars, realtimeVars, limitVars, credentialVars>>
  /\ WF_claudeVars(followed = "claude" /\ ClaudeProgress)
  /\ WF_realtimeVars(followed = "realtime" /\ RealtimeProgress)

(* A conversion is settled, and a realtime session ends when one side has
   closed it (relay/claude.go, relay/realtime.go). *)
ConversationsEnd ==
  []<>((followed = "claude" => caller = "settled") /\ \A s \in Sessions : SessionIsOver(s))
=============================================================================
