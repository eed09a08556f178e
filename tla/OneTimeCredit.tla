--------------------------- MODULE OneTimeCredit ---------------------------
(***************************************************************************)
(* What an order promises: its user is credited for it at most once, only  *)
(* after it was recorded as paid, and a closed order is not credited       *)
(* unless its payment arrives after all.                                   *)
(***************************************************************************)
EXTENDS Naturals

VARIABLES
  status,
  credited          (* how often the user was credited *)

Init == status = "pending" /\ credited = 0

Pay ==
  /\ status # "success"
  /\ status' = "success"
  /\ UNCHANGED credited

Close ==
  /\ status = "pending"
  /\ status' = "closed"
  /\ UNCHANGED credited

Credit ==
  /\ status = "success" /\ credited = 0
  /\ credited' = 1
  /\ UNCHANGED status

Next == Pay \/ Close \/ Credit

Spec == Init /\ [][Next]_<<status, credited>>
=============================================================================
