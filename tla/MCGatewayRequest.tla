-------------------------- MODULE MCGatewayRequest --------------------------
(* GatewayRequest on small instances: endpoint a has a pool of two keys, b a
   single key. *)
EXTENDS GatewayRequest, TLC

CONSTANTS r1, a, b, k1, k2

OneRequest == {r1}
BothEndpoints == {a, b}
Keys == {k1, k2}

PoolAndSingle == a :> {k1, k2} @@ b :> {}

EveryWriter == [r \in Requests |-> {"session", "multipart", "direct"}]
SessionWriter == [r \in Requests |-> {"session"}]

NobodyPinned == {NoEndpoint}
SomePinned == {NoEndpoint, a}

(* One answer of each class Decide tells apart, and the two that depend on
   what the request did before. *)
EveryAnswer == AllAnswers
SomeAnswers == {"bad_request", "thought_signature", "server_error"}
=============================================================================
