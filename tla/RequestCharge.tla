---------------------------- MODULE RequestCharge ----------------------------
(***************************************************************************)
(* What the gateway promises about the money of one request, whatever      *)
(* happens to its attempts: quota is held at most once, and a hold ends in *)
(* exactly one of a charge for the whole request and a full release.       *)
(* (docs/dev/AI-Provider-Gateway-Core-Cutover.md, 9.3 invariants 1 and 2.) *)
(***************************************************************************)
EXTENDS Integers

CONSTANTS Requests,
          Amounts        (* the amounts a hold or a charge may take *)

VARIABLES status,        (* open, held, charged or released, per request *)
          debit          (* what the user has paid for the request, net *)

chargeVars == <<status, debit>>

Init ==
  /\ status = [r \in Requests |-> "open"]
  /\ debit  = [r \in Requests |-> 0]

Move(r, from, to, amount) ==
  /\ status[r] = from
  /\ status' = [status EXCEPT ![r] = to]
  /\ debit'  = [debit EXCEPT ![r] = amount]

Hold(r)    == \E a \in Amounts : Move(r, "open", "held", a)
Charge(r)  == \E a \in Amounts : Move(r, "held", "charged", a)
Release(r) == Move(r, "held", "released", 0)

Next == \E r \in Requests : Hold(r) \/ Charge(r) \/ Release(r)

Spec == Init /\ [][Next]_chargeVars

(* A hold is always resolved. *)
Fairness == \A r \in Requests : WF_chargeVars(Charge(r) \/ Release(r))

FairSpec == Spec /\ Fairness
=============================================================================
