---------------------------- MODULE MCQuotaLedger ----------------------------
(***************************************************************************)
(* Instances of QuotaLedger for TLC. The balances are around the thresholds  *)
(* of a reservation of 2 that is trusted above twice that, so that two     *)
(* requests compete for them and every admission decision comes up.        *)
(***************************************************************************)
EXTENDS QuotaLedger

CONSTANTS r1, r2

OneRequest == {r1}
TwoRequests == {r1, r2}

(* Two reservations fit; nobody is trusted. *)
Tight == [c \in Columns |-> 4]
(* The first request is trusted; the token is the tighter limit. *)
Ample == [c \in Columns |-> IF c = "quota" THEN 5 ELSE 4]
=============================================================================
